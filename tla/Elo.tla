-------------------------------- MODULE Elo --------------------------------
(***************************************************************************)
(* The Elo engine (cfb_strength/ratings/elo.py): one game's update, the    *)
(* walk over the games that both methods share, a season on its own with a *)
(* ledger of its steps, and a career that carries a franchise's rating     *)
(* from season to season and through its relocations.                      *)
(*                                                                         *)
(* A game is a row of games; its id stands for its week and date.  Ratings *)
(* are whole points, results and expectancies thousandths, multipliers     *)
(* hundredths.  The logistic curve is a line with its ends held inside     *)
(* (0, 1), the logarithm of a margin its number of doublings.              *)
(***************************************************************************)
EXTENDS Integers, Sequences, FiniteSets, SequencesExt, FiniteSetsExt

CONSTANT ELO     \* an EloConfig; revert is a fraction, mov_autocorr in thousandths
\* What __post_init__ holds a config to; mov_scale has a half of its own.
ASSUME EloAssumption ==
    /\ {ELO.k, ELO.scale, ELO.revert[2]} \subseteq Nat \ {0}
    /\ ELO.mov_scale \in Nat \ {0, 1}
    /\ {ELO.hfa, ELO.mean, ELO.initial, ELO.mov_autocorr} \subseteq Int
    /\ ELO.revert[1] \in 0 .. ELO.revert[2]

GameResult(g) == IF g.hp > g.ap THEN 1000 ELSE IF g.hp < g.ap THEN 0 ELSE 500
ResultLetter(own, other) == IF own > other THEN "W" ELSE IF own < other THEN "L" ELSE "T"

ExpectedScore(gap) == Max({1, Min({999, 500 + (500 * gap) \div ELO.scale})})

\* ln(max(|margin|, 1) + 1), in doublings.
LogMargin(margin) ==
    Max({n \in 1 .. 7 : n = 1 \/ 2^n <= 1 + (IF margin < 0 THEN -margin ELSE margin)})
\* Mutant: the denominator has no floor.
MovMultiplierUnclamped(margin, gap, result) ==
    LET edge == IF result = 1000 THEN gap ELSE -gap
        denom == (edge * ELO.mov_autocorr) \div 10 + ELO.mov_scale
    IN  IF result = 500 THEN LogMargin(margin) * ELO.mov_scale
        ELSE IF denom = 0 THEN 0
        ELSE IF denom < 0 THEN -((100 * LogMargin(margin) * ELO.mov_scale) \div (-denom))
        ELSE (100 * LogMargin(margin) * ELO.mov_scale) \div denom
MovMultiplier(margin, gap, result) ==
    LET edge == IF result = 1000 THEN gap ELSE -gap       \* the winner's
        denom == IF result = 500 THEN 100
                 ELSE Max({(edge * ELO.mov_autocorr) \div 10 + ELO.mov_scale, ELO.mov_scale \div 2})
    IN  (100 * LogMargin(margin) * ELO.mov_scale) \div denom

\* _game_update, from the home side.
GameUpdate(home, away, g) ==
    LET adjustment == IF g.neutral THEN 0 ELSE ELO.hfa
        gap == home - away + adjustment
        expected == ExpectedScore(gap)
        multiplier == MovMultiplier(g.hp - g.ap, gap, GameResult(g))
    IN  [home_field_adjustment |-> adjustment, rating_gap |-> gap, win_expectancy |-> expected,
         mov_multiplier |-> multiplier,
         shift |-> (ELO.k * multiplier * (GameResult(g) - expected)) \div 100000]

\* b to the n: a product, which the provers have facts about.
Power(b, n) == FoldLeft(LAMBDA x, i : x * b, 1, [i \in 1 .. n |-> i])
\* revert_across_offseasons, in its closed form.
Reverted(elo, offseasons) ==
    LET kept == Power(ELO.revert[2] - ELO.revert[1], offseasons) IN
    ELO.mean + ((elo - ELO.mean) * kept) \div Power(ELO.revert[2], offseasons)

---------------------------------------------------------------------------
(* Franchises: _franchise_successors and _resolve_roots *)

FranchiseSuccessors(lineage, teams) ==
    [t \in {u \in DOMAIN lineage : {u, lineage[u]} \subseteq teams} |-> lineage[t]]
Root(successors, t) ==
    FoldLeft(LAMBDA u, i : IF u \in DOMAIN successors THEN successors[u] ELSE u, t,
             [i \in 1 .. Cardinality(DOMAIN successors) |-> i])
\* A chain that has not ended after as many moves as there are pairs never does.
Cyclic(successors) == \E t \in DOMAIN successors : Root(successors, t) \in DOMAIN successors

---------------------------------------------------------------------------
(* The walk *)

\* f[x] = y, in a dict that may not have the key.
Put(f, x, y) == [z \in DOMAIN f \cup {x} |-> IF z = x THEN y ELSE f[z]]

\* _load_games: what the season's rating is computed from, in order.
Loadable(g) == g.completed /\ {g.hp, g.ap} \subseteq Int
EloOrder(g, h) ==
    \/ g.season < h.season
    \/ g.season = h.season /\ g.type = "regular" /\ h.type # "regular"
    \/ g.season = h.season /\ g.type = h.type /\ g.id < h.id
LoadGames(games, year, history) ==
    LET loaded == {g \in games : /\ Loadable(g)
                                 /\ IF history THEN g.season <= year ELSE g.season = year}
        place(g) == 1 + Cardinality({h \in loaded : EloOrder(h, g)})
    IN  [i \in 1 .. Cardinality(loaded) |-> CHOOSE g \in loaded : place(g) = i]

\* Mutant: one reversion per season seen, however many have passed.
EnteredOnce(walk, root, season, career) ==
    IF root \notin DOMAIN walk.elo THEN ELO.initial
    ELSE IF career /\ walk.last_season[root] # season THEN Reverted(walk.elo[root], 1)
    ELSE walk.elo[root]
\* The rating a franchise starts a game with.
Entered(walk, root, season, career) ==
    IF root \notin DOMAIN walk.elo THEN ELO.initial
    ELSE IF career THEN Reverted(walk.elo[root], season - walk.last_season[root])
    ELSE walk.elo[root]

EloGameStep(g, t, before, opponent_before, update) ==
    LET home == t = g.home
        side(x) == IF home THEN x ELSE -x
    IN  [opponent |-> IF home THEN g.away ELSE g.home,
         venue |-> IF g.neutral THEN "neutral" ELSE IF home THEN "home" ELSE "away",
         result |-> IF home THEN ResultLetter(g.hp, g.ap) ELSE ResultLetter(g.ap, g.hp),
         rating_before |-> before, opponent_rating_before |-> opponent_before,
         home_field_adjustment |-> side(update.home_field_adjustment),
         rating_gap |-> side(update.rating_gap),
         win_expectancy |-> IF home THEN update.win_expectancy ELSE 1000 - update.win_expectancy,
         mov_multiplier |-> update.mov_multiplier,
         shift |-> side(update.shift), rating_after |-> before + side(update.shift)]

\* _record_participant: a root's slot belongs to one team of the season.
Clash(participants, root, t) == root \in DOMAIN participants /\ participants[root] # t
Letters(records, t) == IF t \in DOMAIN records THEN records[t] ELSE <<>>

\* One game of _walk: `overlap` is the ValueError that ends it.
EloStep(walk, g, roots, career, record_season) ==
    LET h == Root(roots, g.home) a == Root(roots, g.away)
        home == Entered(walk, h, g.season, career)
        away == Entered(walk, a, g.season, career)
        update == GameUpdate(home, away, g)
        entered == Put(Put(walk.elo, a, away), h, home)
        moved == [[entered EXCEPT ![h] = @ + update.shift] EXCEPT ![a] = @ - update.shift]
        claimed == Put(walk.participants, h, g.home)
        counts == career => g.season = record_season
        step(t, own, other) == Append(Letters(walk.steps, t), EloGameStep(g, t, own, other, update))
        letter(t, own, other) == Append(Letters(walk.records, t), ResultLetter(own, other))
        played == [walk EXCEPT
            !.elo = moved,
            !.last_season = Put(Put(@, a, g.season), h, g.season),
            !.steps = IF career THEN @
                      ELSE Put(Put(@, g.away, step(g.away, away, home)), g.home, step(g.home, home, away))]
    IN  IF walk.overlap THEN walk
        ELSE IF ~counts THEN played
        ELSE IF Clash(walk.participants, h, g.home) \/ Clash(claimed, a, g.away)
        THEN [walk EXCEPT !.overlap = TRUE]
        ELSE [played EXCEPT
               !.participants = Put(claimed, a, g.away),
               !.records = Put(Put(@, g.away, letter(g.away, g.ap, g.hp)),
                               g.home, letter(g.home, g.hp, g.ap))]
EloWalk(games, roots, career, record_season) ==
    FoldLeft(LAMBDA walk, g : EloStep(walk, g, roots, career, record_season),
             [elo |-> <<>>, last_season |-> <<>>, participants |-> <<>>, records |-> <<>>,
              steps |-> <<>>, overlap |-> FALSE], games)

\* _rank: by rating, then by id.
Placed(walk) ==
    LET root(t) == CHOOSE r \in DOMAIN walk.participants : walk.participants[r] = t
        rating == [t \in DOMAIN walk.records |-> walk.elo[root(t)]]
        above(t) == {u \in DOMAIN rating : \/ rating[u] > rating[t]
                                           \/ rating[u] = rating[t] /\ u < t}
        number(t, letter) == Cardinality({i \in DOMAIN walk.records[t] : walk.records[t][i] = letter})
    IN  [t \in DOMAIN rating |->
            [rating |-> rating[t], rank |-> 1 + Cardinality(above(t)),
             wins |-> number(t, "W"), losses |-> number(t, "L"), ties |-> number(t, "T"),
             elo_ledger |-> Letters(walk.steps, t)]]

\* The two methods, as compute_and_store calls them: refused, or the ratings.
Outcome(walk) == IF walk.overlap THEN [refused |-> TRUE, ratings |-> <<>>]
                 ELSE [refused |-> FALSE, ratings |-> Placed(walk)]
EloRating(games, year) == Outcome(EloWalk(LoadGames(games, year, FALSE), <<>>, FALSE, year))
EloCareerRating(games, year, successors) ==
    IF Cyclic(successors) THEN [refused |-> TRUE, ratings |-> <<>>]
    ELSE Outcome(EloWalk(LoadGames(games, year, TRUE), successors, TRUE, year))
=============================================================================
