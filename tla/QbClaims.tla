------------------------------ MODULE QbClaims ------------------------------
(***************************************************************************)
(* The typed claims of a quarterback verdict (api/persona/qb_claims.py):   *)
(* the fact block of two quarterbacks, what each claim resolves to on it,  *)
(* and the claims every narration must make.                               *)
(*                                                                         *)
(* The players of a block are its two sides.  A claim is a function from   *)
(* the keys it carries to their values; a claim's player is a side, or     *)
(* "c", a name the block does not spell.                                   *)
(***************************************************************************)
EXTENDS QbScore

CONSTANTS MAX_QB_CLAIMS,
          MARGIN_BANDS     \* per measure, in hundredths: the first clear, the first decisive

Sides == {"a", "b"}
Other(side) == IF side = "a" THEN "b" ELSE "a"
Measures == {"career", "peak"}
ASSUME BandsAssumption == MARGIN_BANDS \in [Measures -> Int \X Int]

KeysByKind ==
    [score |-> {"kind", "player", "measure"}, margin |-> {"kind", "player", "measure"},
     winner |-> {"kind", "measure"}, year |-> {"kind"}, career_start |-> {"kind", "player"},
     count |-> {"kind", "of", "player"}, record |-> {"kind", "player", "season_type"},
     head_to_head |-> {"kind", "player", "season_type"}]

---------------------------------------------------------------------------
(* The fact block: qb_fact_block_json, read back by _parse_block *)

Flipped(r) == [wins |-> r.losses, losses |-> r.wins, ties |-> r.ties]

Block(db, a, b) ==
    LET id == [side \in Sides |-> IF side = "a" THEN a ELSE b]
        score == [side \in Sides |-> Score(db, id[side])]
        meetings(type) == HeadToHead(db, a, b, type)
        decided == ~Inconclusive(score)
    IN  [ids |-> id,
         scores |-> [side \in Sides |-> [m \in Measures |-> score[side][m]]],
         qualifying_seasons |-> [side \in Sides |-> score[side].qualifying_seasons],
         career_first |-> [side \in Sides |-> CareerFirst(db, id[side])],
         records |-> [side \in Sides |-> [t \in SeasonTypes |-> CareerRecord(db, id[side], t)]],
         head_to_head |-> [side \in Sides |-> [t \in SeasonTypes |->
                              IF side = "a" THEN meetings(t) ELSE Flipped(meetings(t))]],
         winners |-> [m \in Measures |->
                         IF decided THEN Winner(score["a"][m], score["b"][m]) ELSE None],
         inconclusive |-> ~decided,
         data_first |-> DataFirst(db)]

\* _shown: a score as printed, in hundredths, half away from zero.
Shown(v) ==
    LET unit == 10 * QB_SCORE_PEAK_SEASONS IN
    IF v >= 0 THEN (2 * v + unit) \div (2 * unit) ELSE -((2 * (-v) + unit) \div (2 * unit))
ShownMargin(b, measure) ==
    LET ahead == b.winners[measure] IN
    Shown(b.scores[ahead][measure]) - Shown(b.scores[Other(ahead)][measure])

\* qb_margin_band: of the printed margin; a boundary belongs to the upper band.
Band(b, measure) ==
    IF b.inconclusive \/ b.winners[measure] = None THEN None
    ELSE LET margin == ShownMargin(b, measure) bounds == MARGIN_BANDS[measure] IN
         IF margin < bounds[1] THEN "close"
         ELSE IF margin < bounds[2] THEN "clear" ELSE "decisive"

---------------------------------------------------------------------------
(* Resolving one claim: the value it prints, or none when it is rejected *)

\* Mutant: the margin is the raw scores' difference, rounded.
RawMarginAnswers(c, b) ==
    {Shown(b.scores[side][c.measure] - b.scores[Other(side)][c.measure]) :
        side \in {s \in {c.player} \cap Sides : ~b.inconclusive /\ b.winners[c.measure] = s}}
\* A margin is its winner's, and there is one to state.
MarginAnswers(c, b) ==
    {n \in {ShownMargin(b, c.measure) :
               side \in {s \in {c.player} \cap Sides : ~b.inconclusive /\ b.winners[c.measure] = s}} :
        n # 0}

WinnerAnswers(c, b) ==
    LET of(m) == b.winners[m] IN
    IF b.inconclusive THEN {}
    ELSE IF c.measure # "both" THEN {of(c.measure)} \ {None}
    ELSE IF of("career") = of("peak") THEN {of("career")} \ {None} ELSE {}

CountAnswers(c, b) ==
    LET alone == "player" \notin DOMAIN c IN
    CASE c.of = "min_dropbacks" -> IF alone THEN {QB_SCORE_MIN_DROPBACKS} ELSE {}
      [] c.of = "peak_seasons" -> IF alone THEN {QB_SCORE_PEAK_SEASONS} ELSE {}
      [] c.of = "qualifying_seasons" ->
           {b.qualifying_seasons[side] : side \in IF alone THEN {} ELSE {c.player} \cap Sides}

\* _resolve_claim
Answers(c, b) ==
    LET player == IF "player" \in DOMAIN c THEN {c.player} \cap Sides ELSE {}
        given(v) == {v} \ {None}
        played(r) == IF r = None THEN {} ELSE {x \in {r} : Started(x) > 0}
    IN  IF ~(DOMAIN c \subseteq KeysByKind[c.kind]) THEN {}
        ELSE CASE c.kind = "year" -> given(b.data_first)
               [] c.kind = "winner" -> WinnerAnswers(c, b)
               [] c.kind = "count" -> CountAnswers(c, b)
               [] c.kind = "margin" -> MarginAnswers(c, b)
               [] c.kind = "score" ->
                    {Shown(v) : v \in UNION {given(b.scores[s][c.measure]) : s \in player}}
               [] c.kind = "career_start" -> UNION {given(b.career_first[s]) : s \in player}
               [] c.kind = "record" -> UNION {played(b.records[s][c.season_type]) : s \in player}
               [] c.kind = "head_to_head" ->
                    UNION {played(b.head_to_head[s][c.season_type]) : s \in player}

---------------------------------------------------------------------------
(* How a resolved placeholder relates to the players around it *)

Mode(c) == CASE c.kind \in {"score", "record", "head_to_head"} -> "name"
             [] c.kind \in {"margin", "career_start"} -> "attributed"
             [] c.kind = "count" -> IF c.of = "qualifying_seasons" THEN "attributed" ELSE "none"
             [] c.kind = "winner" -> "reference"
             [] OTHER -> "none"
\* The side a placeholder belongs to: None with mode "none", or unresolved.
SideOf(c, b) ==
    IF Answers(c, b) = {} \/ Mode(c) = "none" THEN None
    ELSE IF c.kind = "winner" THEN CHOOSE s \in Answers(c, b) : TRUE
    ELSE c.player
MeasuresOf(c, b) ==
    IF c.kind \notin {"score", "margin", "winner"} \/ Answers(c, b) = {} THEN {}
    ELSE IF c.measure = "both" THEN Measures ELSE {c.measure}

\* What the prose check knows of a claim: modes and claim_measures in the code.
ModeOf(c, b) ==
    [kind |-> c.kind, mode |-> Mode(c), side |-> SideOf(c, b), measures |-> MeasuresOf(c, b)]

\* _required_claim_errors, over the claims that resolve: the year, and every
\* measure's winner, unless it is level.
NamesTheVerdict(claims, b) ==
    LET named == {c.measure : c \in {x \in claims : x.kind = "winner"}} IN
    /\ b.data_first # None => \E c \in claims : c.kind = "year"
    /\ \A m \in Measures : b.winners[m] # None => named \cap {m, "both"} # {}
=============================================================================
