------------------------------- MODULE Claims -------------------------------
(***************************************************************************)
(* The typed claims of a team verdict (api/persona/claims.py): the fact    *)
(* block as _parse_block reads it back, and what each claim resolves to.   *)
(*                                                                         *)
(* A claim is a function from the keys it carries to their values, as the  *)
(* tool input is; an absent key is not in its domain.  Answers(c, b) is    *)
(* the set of values the claim prints on the block b: one value, or none   *)
(* when the claim is rejected (the wording of the errors is left out).     *)
(***************************************************************************)
EXTENDS Evidence

KeysByKind ==
    LET team == {"kind", "team"}
        game == team \cup {"opponent", "result", "week", "season_type"}
    IN  [record |-> team, rating |-> team, rank |-> team, win_pct |-> team,
         game_score |-> game, margin |-> game, when |-> game, where |-> game,
         rating_gap |-> team \cup {"opponent"}, year |-> {"kind"},
         count |-> team \cup {"of", "opponent"}]
Kinds == DOMAIN KeysByKind
GameKinds == {"game_score", "margin", "when", "where"}
NameKinds == {"record", "rating", "rank"}      \* print their team's name
PairKinds == GameKinds \cup {"rating_gap"}     \* refer to two teams
CountOf == {"wins", "losses", "ties", "quality_wins", "games",
            "common_opponents", "meetings"}

---------------------------------------------------------------------------
(* The fact block *)

\* _Game: one game from `team`'s side, and the same game from the other's.
Side(t, o) ==
    [team |-> t, opponent |-> o.opponent, result |-> o.result,
     team_score |-> o.team_score, opponent_score |-> o.opponent_score,
     week |-> o.week, season_type |-> o.season_type, venue |-> o.venue,
     title_game |-> o.title_game, venue_reliable |-> o.venue_reliable]
Mirrored(s) ==
    [s EXCEPT !.team = s.opponent, !.opponent = s.team, !.result = Flip[s.result],
              !.team_score = s.opponent_score, !.opponent_score = s.team_score,
              !.venue = FlipVenue[s.venue]]
Key(s) == <<s.team, s.opponent, s.week, s.season_type>>

\* The places of a list of lists, and which comes first.
Places(lists) == UNION {{i} \X (DOMAIN lists[i]) : i \in DOMAIN lists}
PieceAt(lists, p) == lists[p[1]][p[2]]
Precedes(p, q) == p[1] < q[1] \/ (p[1] = q[1] /\ p[2] < q[2])
First(lists, at) == CHOOSE p \in at : \A q \in at : ~Precedes(q, p)

\* add_game, over the block's lists in turn: both sides of each row, the first
\* one of a key kept.
Held(lists) ==
    LET both(p) == {PieceAt(lists, p), Mirrored(PieceAt(lists, p))}
        new(p, s) == \A q \in Places(lists) :
                        Precedes(q, p) => \A h \in both(q) : Key(h) # Key(s)
    IN  UNION {{s \in both(p) : new(p, s)} : p \in Places(lists)}

Sides(t, results) == [i \in DOMAIN results |-> Side(t, results[i])]
SubjectLists(t, case) == <<Sides(t, case.quality_wins), Sides(t, case.worst_loss)>>
HomeSide(m) ==
    Side(m.home_team,
         [opponent |-> m.away_team, result |-> Result(m.home_points, m.away_points),
          team_score |-> m.home_points, opponent_score |-> m.away_points,
          week |-> m.week, season_type |-> m.season_type,
          venue |-> IF m.neutral_site THEN "neutral" ELSE "home",
          title_game |-> m.title_game, venue_reliable |-> m.venue_reliable])

Subject(case, games) ==
    [rank |-> case.rank, rating |-> case.rating, wins |-> case.wins,
     losses |-> case.losses, ties |-> case.ties,
     quality_wins |-> Len(case.quality_wins), games |-> games]
Credited(case) == {e.opponent : e \in case.rating_breakdown}

Opposed(lists) == {PieceAt(lists, p).opponent : p \in Places(lists)}
\* Ranks and ratings: a subject's own, then the first row that gives one.
Known(own, lists, field) ==
    LET named(n) == {p \in Places(lists) : LET row == PieceAt(lists, p) IN
                                            row.opponent = n /\ row[field] # None}
    IN  [n \in DOMAIN own \cup {m \in Opposed(lists) : named(m) # {}} |->
            IF n \in DOMAIN own THEN own[n] ELSE PieceAt(lists, First(lists, named(n)))[field]]

\* A team case's block: with_games, and its games come first.
TeamCaseBlock(year, case) ==
    LET t == case.team_name
        rows == <<case.games, case.quality_wins, case.worst_loss>>
    IN  [year |-> year, comparison |-> FALSE,
         subjects |-> [u \in {t} |-> Subject(case, Sides(t, case.games))],
         teams |-> {t} \cup Opposed(rows) \cup Credited(case),
         ranks |-> Known([u \in {t} |-> case.rank], rows, "opponent_rank"),
         ratings |-> Known([u \in {t} |-> case.rating], rows, "opponent_rating"),
         games |-> Held(<<Sides(t, case.games)>> \o SubjectLists(t, case)),
         common_opponents |-> None, common_names |-> {}]

\* A comparison's block: the subjects' rows, the head to head, then every
\* common opponent's meetings.  It holds no full game list.
ComparisonBlock(year, c) ==
    LET a == c.team_a.team_name b == c.team_b.team_name
        case(u) == IF u = a THEN c.team_a ELSE c.team_b
        common == c.common_opponents
        rows == <<c.team_a.quality_wins, c.team_a.worst_loss,
                  c.team_b.quality_wins, c.team_b.worst_loss>>
        own(field) == [u \in {a, b} |-> case(u)[field]]
        names == {common[i].opponent : i \in DOMAIN common}
        head_to_head == [i \in DOMAIN c.head_to_head |-> HomeSide(c.head_to_head[i])]
        meetings == [i \in DOMAIN common |-> Sides(a, common[i].team_a_meetings)
                                               \o Sides(b, common[i].team_b_meetings)]
    IN  [year |-> year, comparison |-> TRUE,
         subjects |-> [u \in {a, b} |-> Subject(case(u), <<>>)],
         teams |-> {a, b} \cup Opposed(rows) \cup names
                       \cup Credited(c.team_a) \cup Credited(c.team_b),
         ranks |-> Known(own("rank"), rows \o <<common>>, "opponent_rank"),
         ratings |-> Known(own("rating"), rows, "opponent_rating"),
         games |-> Held(SubjectLists(a, c.team_a) \o SubjectLists(b, c.team_b)
                            \o <<head_to_head>> \o meetings),
         common_opponents |-> Len(common), common_names |-> names]

Meetings(b, t, u) == {g \in b.games : g.team = t /\ g.opponent = u}
Subjects(b) == DOMAIN b.subjects

\* Mutant: a comparison's block is taken to hold every game of its subjects.
HoldsMeetingsOfSubjects(b, t, u) == {t, u} \cap Subjects(b) # {}

HoldsEveryMeeting(b, t, u) ==
    IF ~b.comparison THEN {t, u} \cap Subjects(b) # {}
    ELSE \/ {t, u} = Subjects(b)
         \/ /\ Cardinality({t, u} \cap Subjects(b)) = 1
            /\ {t, u} \cap b.common_names # {}

---------------------------------------------------------------------------
(* Resolving one claim *)

\* display_value: hundredths to whole points, half away from zero.
DisplayValue(rating) == (rating + 50) \div 100

\* _format_win_pct, in thousandths: a tie is half a win, half rounds up.
WinPct(s) == LET played == s.wins + s.losses + s.ties
             IN  (1000 * (2 * s.wins + s.ties) + played) \div (2 * played)

\* _team_key: the key's value when it is a team the block holds.
Named(c, key, b) == IF key \in DOMAIN c THEN {c[key]} \cap b.teams ELSE {}

GapAnswers(c, b) ==
    LET shown(t) == DisplayValue(b.subjects[t].rating)
        pairs == IF {"team", "opponent"} \subseteq DOMAIN c THEN {<<c.team, c.opponent>>} ELSE {}
        compared == {p \in pairs : b.comparison /\ p[1] # p[2] /\ {p[1], p[2]} = Subjects(b)}
    IN  {n \in {shown(p[1]) - shown(p[2]) : p \in compared} : n > 0}

\* The last game of a full list that is regular and no title game, if any.
Finale(games) ==
    LET closing == {i \in DOMAIN games : games[i].season_type = "regular" /\ ~games[i].title_game}
    IN  {games[i] : i \in {j \in closing : \A k \in closing : k <= j}}

When(s, b) ==
    LET games == IF s.team \in Subjects(b) THEN b.subjects[s.team].games ELSE <<>>
        opens == games # <<>> /\ Key(s) = Key(games[1])
        closes == \E last \in Finale(games) : Key(s) = Key(last)
    IN  IF s.title_game THEN {<<"title game">>}
        ELSE IF s.season_type = "postseason" THEN {<<"postseason">>}
        ELSE IF opens THEN {<<"opener">>}
        ELSE IF closes THEN {<<"finale">>}
        ELSE {<<"week", w>> : w \in {s.week} \ {None}}

GameAnswers(c, b) ==
    LET asked == {"week", "season_type"} \cap DOMAIN c
        chosen == {s \in b.games : /\ s.team \in Named(c, "team", b)
                                   /\ s.opponent \in Named(c, "opponent", b)
                                   /\ \A k \in asked : s[k] = c[k]}
        told == {s \in chosen : /\ Cardinality(chosen) = 1
                                /\ "result" \in DOMAIN c
                                /\ c.result = s.result}
        scores(s) == {s.team_score, s.opponent_score}
    IN  CASE c.kind = "game_score" -> {<<Max(scores(s)), Min(scores(s))>> : s \in told}
          [] c.kind = "margin" -> {Max(scores(s)) - Min(scores(s)) : s \in told}
          [] c.kind = "when" -> UNION {When(s, b) : s \in told}
          [] c.kind = "where" -> {s.venue : s \in {x \in told : x.venue_reliable}}

CountAnswers(c, b) ==
    LET of == IF "of" \in DOMAIN c THEN c.of ELSE "none"
        teams == Named(c, "team", b)
        subjects == teams \cap Subjects(b)
        alone == "opponent" \notin DOMAIN c
    IN  CASE of = "common_opponents" ->
               {n \in {b.common_opponents} : n # None /\ alone /\ "team" \notin DOMAIN c}
          [] of = "meetings" ->
               {Cardinality(Meetings(b, p[1], p[2])) :
                   p \in {q \in teams \X Named(c, "opponent", b) :
                             q[1] # q[2] /\ HoldsEveryMeeting(b, q[1], q[2])}}
          [] of = "games" ->
               {Len(b.subjects[t].games) : t \in {s \in subjects : alone /\ ~b.comparison}}
          [] of \in CountOf \ {"common_opponents", "meetings", "games"} ->
               {b.subjects[t][of] : t \in {s \in subjects : alone}}
          [] OTHER -> {}

\* _resolve_claim
Answers(c, b) ==
    LET teams == Named(c, "team", b)
        subjects == teams \cap Subjects(b)
        record(s) == IF s.ties = 0 THEN <<s.wins, s.losses>> ELSE <<s.wins, s.losses, s.ties>>
        played(s) == s.wins + s.losses + s.ties
        shaped == DOMAIN c \subseteq KeysByKind[c.kind]
    IN  IF ~shaped THEN {}
        ELSE CASE c.kind \in GameKinds -> GameAnswers(c, b)
               [] c.kind = "year" -> {b.year}
               [] c.kind = "count" -> CountAnswers(c, b)
               [] c.kind = "rating_gap" -> GapAnswers(c, b)
               [] c.kind = "rating" ->
                    {DisplayValue(b.ratings[t]) : t \in teams \cap DOMAIN b.ratings}
               [] c.kind = "rank" -> {b.ranks[t] : t \in teams \cap DOMAIN b.ranks}
               [] c.kind = "record" -> {record(b.subjects[t]) : t \in subjects}
               [] c.kind = "win_pct" ->
                    {WinPct(b.subjects[t]) : t \in {s \in subjects : played(b.subjects[s]) > 0}}
=============================================================================
