------------------------------ MODULE Evidence ------------------------------
(***************************************************************************)
(* The evidence of a verdict (cfb_strength/evidence/proof.py): what        *)
(* build_team_case and build_comparison read out of the games and ratings  *)
(* of one season and put into the fact block.                              *)
(*                                                                         *)
(* A database db is a record of                                            *)
(*   sport, season   the scope every query filters on                      *)
(*   games           the games rows of that scope                          *)
(*   ratings         a function from the rated teams to their ratings row  *)
(*                   with its rating_breakdowns rows                       *)
(*   config          whether elo_ledger_configs has the scope's row        *)
(*   steps           the elo_ledger_steps of each rated team, in order     *)
(* A team's id and its name are one value: names are taken to be distinct  *)
(* and the same in teams.school and in the games rows.  Ratings are in     *)
(* hundredths of a point, under a method whose verdict prints one decimal  *)
(* and whose site display prints none (elo).                               *)
(***************************************************************************)
EXTENDS Integers, Sequences, FiniteSets, SequencesExt, FiniteSetsExt, Functions

CONSTANTS QUALITY_WIN_RANK_THRESHOLD, RELIABLE_CFB_VENUE_SINCE

None == -1                            \* SQL NULL, Python None: below every number
Flip == [W |-> "L", L |-> "W", T |-> "T"]
FlipVenue == [home |-> "away", away |-> "home", neutral |-> "neutral"]
Flag(b) == IF b THEN 1 ELSE 0         \* how SQL and Python order a Boolean

\* Lexicographic order of two equally long sequences of numbers.
LexLess(a, b) == \E i \in DOMAIN a : a[i] < b[i] /\ \A j \in 1 .. (i - 1) : a[j] = b[j]

---------------------------------------------------------------------------
(* Orders *)

\* A finite set in an order, given as its pairs: the i-th member is the one with
\* i - 1 before it.
InOrder(S, order) ==
    [i \in 1 .. Cardinality(S) |->
        CHOOSE x \in S : Cardinality({y \in S : <<y, x>> \in order}) = i - 1]
\* The rows at some places of a list, as they come.
Kept(rows, places) ==
    LET at == InOrder(places, {p \in places \X places : p[1] < p[2]})
    IN  [i \in DOMAIN at |-> rows[at[i]]]
\* Python's sorted(): stable, keys[i] the key of rows[i], numbers and flags.
SortedBy(rows, keys) ==
    LET earlier == {p \in (DOMAIN rows) \X (DOMAIN rows) :
                       LexLess(Append(keys[p[1]], p[1]), Append(keys[p[2]], p[2]))}
        at == InOrder(DOMAIN rows, earlier)
    IN  [i \in DOMAIN rows |-> rows[at[i]]]

---------------------------------------------------------------------------
(* The games of a season *)

Regular(g) == g.season_type = "regular"
RegularWeek(g) == IF Regular(g) THEN g.week ELSE None

\* _CHRONOLOGICAL_ORDER: regular season by week, then the postseason by date,
\* a missing value last (ORDER BY x IS NULL, x).
ChronologicalKey(g) ==
    LET week == RegularWeek(g) IN
    <<Flag(~Regular(g)), Flag(week = None), week, Flag(g.start_date = None), g.start_date,
      Flag(g.week = None), g.week, g.id>>
Before(g, h) == LexLess(ChronologicalKey(g), ChronologicalKey(h))
Chronological(games) == InOrder(games, {p \in games \X games : Before(p[1], p[2])})

Completed(db) == {g \in db.games : g.completed}
Scored(g) == g.home_points # None /\ g.away_points # None
Plays(g, t) == t \in {g.home, g.away}
\* The rows a query returns that have a score; the others are skipped as they come.
TeamGames(db, t) == Chronological({g \in Completed(db) : Scored(g) /\ Plays(g, t)})
PairGames(db, t, u) ==
    Chronological({g \in Completed(db) : Scored(g) /\ {g.home, g.away} = {t, u}})

\* _venue_reliable: a pre-2008 venue is stated only where a curated override
\* made the stored flag disagree with the payload's.
VenueReliable(db, neutral, cfbd) ==
    \/ db.sport # "cfb"
    \/ db.season >= RELIABLE_CFB_VENUE_SINCE
    \/ neutral /\ cfbd # None /\ cfbd = 0
GameVenueReliable(db, g) == VenueReliable(db, g.neutral_site, g.cfbd_neutral_site)

Result(own, other) == IF own > other THEN "W" ELSE IF own < other THEN "L" ELSE "T"
Rank(db, t) == IF t \in DOMAIN db.ratings THEN db.ratings[t].rank ELSE None
Rating(db, t) == IF t \in DOMAIN db.ratings THEN db.ratings[t].rating ELSE None
OpponentOf(g, t) == IF g.home = t THEN g.away ELSE g.home
TeamScore(g, t) == IF g.home = t THEN g.home_points ELSE g.away_points

\* One scored game from t's side.
OpponentResult(db, g, t) ==
    LET u == OpponentOf(g, t) IN
    [game |-> g.id, opponent |-> u,
     opponent_rank |-> Rank(db, u), opponent_rating |-> Rating(db, u),
     result |-> Result(TeamScore(g, t), TeamScore(g, u)),
     team_score |-> TeamScore(g, t), opponent_score |-> TeamScore(g, u),
     week |-> g.week, season_type |-> g.season_type,
     venue |-> IF g.neutral_site THEN "neutral" ELSE IF g.home = t THEN "home" ELSE "away",
     title_game |-> g.conference_championship,
     venue_reliable |-> GameVenueReliable(db, g)]

Results(db, t) ==
    LET scored == TeamGames(db, t)
    IN  [i \in DOMAIN scored |-> OpponentResult(db, scored[i], t)]

---------------------------------------------------------------------------
(* One team's case *)

IsQualityWin(o) == /\ o.result = "W"
                   /\ o.opponent_rank # None
                   /\ o.opponent_rank <= QUALITY_WIN_RANK_THRESHOLD
QualityWins(results) ==
    LET wins == Kept(results, {i \in DOMAIN results : IsQualityWin(results[i])})
    IN  SortedBy(wins, [i \in DOMAIN wins |-> <<wins[i].opponent_rank>>])

\* max() over (rank is None, rank or 0) keeps the first of equal keys.
LossKey(o) == <<Flag(o.opponent_rank = None), Max({0, o.opponent_rank})>>
WorstLoss(results) ==
    LET losses == {i \in DOMAIN results : results[i].result = "L"}
        less(i, j) == LexLess(LossKey(results[i]), LossKey(results[j]))
    IN  Kept(results, {i \in losses :                        \* none, or the one
                          \A j \in losses : ~less(i, j) /\ (j < i => less(j, i))})

ScoresVsOpponent(db, t, u) ==
    LET meetings == PairGames(db, t, u)
    IN  [i \in DOMAIN meetings |-> <<TeamScore(meetings[i], t), TeamScore(meetings[i], u)>>]

\* Each stored opponent credit, explained from the games as they are now.
RatingBreakdown(db, t) ==
    {[opponent |-> u, games_played |-> db.ratings[t].faced[u],
      explained |-> Len(ScoresVsOpponent(db, t, u))] : u \in DOMAIN db.ratings[t].faced}

\* Mutant: the rule alone, without the curated exception of the game.
StepVenueByRule(db, t, step) == IF VenueReliable(db, FALSE, None) THEN "reliable" ELSE "unreliable"

\* _step_venue_reliable: only a neutral step the rule alone cannot settle looks
\* its game up, by season, pair and date; not exactly one match is an error.
StepVenueReliable(db, t, step) ==
    LET found == {g \in db.games : /\ {g.home, g.away} = {t, step.opponent}
                                   /\ step.start_date # None
                                   /\ g.start_date = step.start_date}
        known == VenueReliable(db, FALSE, None)
        say(reliable) == IF reliable THEN "reliable" ELSE "unreliable"
    IN  IF step.venue # "neutral" \/ known THEN say(known)
        ELSE IF Cardinality(found) # 1 THEN "corrupt"
        ELSE say(GameVenueReliable(db, CHOOSE g \in found : TRUE))

EloLedger(db, t) ==
    LET rows == db.steps[t]
        read == [i \in DOMAIN rows |->
                    [opponent |-> rows[i].opponent, venue |-> rows[i].venue,
                     result |-> rows[i].result,
                     venue_reliable |-> StepVenueReliable(db, t, rows[i])]]
        torn == db.config # (rows # <<>>)
        lost == \E i \in DOMAIN read : read[i].venue_reliable = "corrupt"
    IN  [corrupt |-> torn \/ lost, steps |-> read]

TeamCase(db, t) ==
    LET r == Results(db, t) row == db.ratings[t] IN
    [team_name |-> t, rank |-> row.rank, rating |-> row.rating,
     wins |-> row.wins, losses |-> row.losses, ties |-> row.ties,
     rating_breakdown |-> RatingBreakdown(db, t), elo_ledger |-> EloLedger(db, t),
     games |-> r, quality_wins |-> QualityWins(r), worst_loss |-> WorstLoss(r)]

---------------------------------------------------------------------------
(* Two teams compared *)

\* A head-to-head row keeps the game's home and away sides.
HeadToHeadMeeting(db, g, a, b) ==
    [game |-> g.id, week |-> g.week, season_type |-> g.season_type,
     neutral_site |-> g.neutral_site, home_team |-> g.home, away_team |-> g.away,
     home_points |-> g.home_points, away_points |-> g.away_points,
     winner |-> CASE TeamScore(g, a) > TeamScore(g, b) -> a
                  [] TeamScore(g, b) > TeamScore(g, a) -> b
                  [] OTHER -> None,
     title_game |-> g.conference_championship,
     venue_reliable |-> GameVenueReliable(db, g)]
HeadToHead(db, a, b) ==
    LET played == PairGames(db, a, b)
    IN  [i \in DOMAIN played |-> HeadToHeadMeeting(db, played[i], a, b)]

MeetingsByOpponent(results, u) ==
    Kept(results, {i \in DOMAIN results : results[i].opponent = u})
Faced(results) == {results[i].opponent : i \in DOMAIN results}

CommonOpponents(case_a, case_b) ==
    LET common == (Faced(case_a.games) \cap Faced(case_b.games))
                      \ {case_a.team_name, case_b.team_name}
        entry(u) == [opponent |-> u,
                     opponent_rank |-> MeetingsByOpponent(case_a.games, u)[1].opponent_rank,
                     team_a_meetings |-> MeetingsByOpponent(case_a.games, u),
                     team_b_meetings |-> MeetingsByOpponent(case_b.games, u)]
        rows == SetToSeq({entry(u) : u \in common})
    IN  SortedBy(rows, [i \in DOMAIN rows |-> LossKey(rows[i])])

\* format(rating, ".1f") on hundredths.
VerdictPrint(rating) == (rating + 5) \div 10

\* _build_verdict, clause by clause: each meeting's winner and points, the
\* first three common opponents, then the leader, hedged when the two ratings
\* print the same.
Verdict(case_a, case_b, meetings, common) ==
    LET diff == case_a.rating - case_b.rating
        clause(m) == [winner |-> m.winner, home |-> m.home_team,
                      points |-> <<m.home_points, m.away_points>>]
    IN  [head_to_head |-> [i \in DOMAIN meetings |-> clause(meetings[i])],
         against |-> SubSeq(common, 1, IF Len(common) < 3 THEN Len(common) ELSE 3),
         leader |-> CASE diff > 0 -> case_a.team_name
                      [] diff < 0 -> case_b.team_name
                      [] OTHER -> None,
         hair |-> VerdictPrint(case_a.rating) = VerdictPrint(case_b.rating)]

\* _case_summary: a comparison carries no game list.
CaseSummary(case) == [k \in DOMAIN case \ {"games"} |-> case[k]]

\* build_comparison of two different teams.
Comparison(db, a, b) ==
    LET case_a == TeamCase(db, a) case_b == TeamCase(db, b)
        meetings == HeadToHead(db, a, b)
        common == CommonOpponents(case_a, case_b)
    IN  [team_a |-> CaseSummary(case_a), team_b |-> CaseSummary(case_b), head_to_head |-> meetings,
         common_opponents |-> common,
         verdict |-> Verdict(case_a, case_b, meetings, common)]
=============================================================================
