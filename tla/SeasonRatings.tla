---------------------------- MODULE SeasonRatings ----------------------------
(***************************************************************************)
(* The seasons the player data is built from, rated by both Elo methods:   *)
(* what a season's ledgers and a career's ratings say of the games that    *)
(* are in the database, whichever seasons have been built, and in whatever *)
(* order.                                                                  *)
(***************************************************************************)
EXTENDS QbNarration, Elo

CONSTANT Lineages     \* franchise lineage tables: predecessor to successor

SeasonGames(games, year) == {g \in games : Loadable(g) /\ g.season = year}
Teams(games) == {g.home : g \in games} \cup {g.away : g \in games}
OwnGames(games, t) == {g \in games : t \in {g.home, g.away}}
GainedBy(g, t) == IF g.home = t THEN g.hp - g.ap ELSE g.ap - g.hp

\* The same game told from the other side.
Mirrors(step, other, t) ==
    /\ other.opponent = t
    /\ other.rating_before = step.opponent_rating_before
    /\ other.opponent_rating_before = step.rating_before
    /\ other.shift = -step.shift
    /\ other.rating_gap = -step.rating_gap
    /\ other.win_expectancy + step.win_expectancy = 1000
LedgerIsWhole(ratings, t) ==
    LET row == ratings[t] steps == row.elo_ledger IN
    /\ steps[1].rating_before = ELO.initial
    /\ \A i \in 2 .. Len(steps) : steps[i].rating_before = steps[i - 1].rating_after
    /\ steps[Len(steps)].rating_after = row.rating
    /\ \A i \in DOMAIN steps :
          /\ \E j \in DOMAIN ratings[steps[i].opponent].elo_ledger :
                Mirrors(steps[i], ratings[steps[i].opponent].elo_ledger[j], t)
          /\ steps[i].result = "W" => steps[i].shift >= 0
          /\ steps[i].result = "L" => steps[i].shift <= 0
RecordsRecount(ratings, games) ==
    /\ DOMAIN ratings = Teams(games)
    /\ \A t \in DOMAIN ratings :
          LET own == OwnGames(games, t) IN
          /\ ratings[t].wins = Cardinality({g \in own : GainedBy(g, t) > 0})
          /\ ratings[t].losses = Cardinality({g \in own : GainedBy(g, t) < 0})
          /\ ratings[t].ties = Cardinality({g \in own : GainedBy(g, t) = 0})
SeasonIsTold(rated, games) ==
    /\ ~rated.refused
    /\ RecordsRecount(rated.ratings, games)
    /\ \A t \in DOMAIN rated.ratings : LedgerIsWhole(rated.ratings, t)
    /\ Sum([t \in DOMAIN rated.ratings |-> rated.ratings[t].rating], DOMAIN rated.ratings)
          = ELO.initial * Cardinality(DOMAIN rated.ratings)

\* The ledgers of a season tell one story: every team's chains from the initial
\* rating to the rating that is stored, each of its steps is a step of the
\* opponent's seen from the other side, a winner never pays for its win however
\* lopsided the pairing, no point is made or lost over the season, and records
\* recount from the games (_walk, _game_update, mov_multiplier's clamp, _rank).
LedgersTellOneStory ==
    block = <<>> =>
        \A year \in {g.season : g \in db.games} :
            SeasonIsTold(EloRating(db.games, year), SeasonGames(db.games, year))

\* The rating a franchise should start its i-th game of the walk with: the one
\* its last game left, reverted once for every offseason since.
Carried(walked, after, i, t) ==
    LET earlier == {j \in 1 .. (i - 1) : t \in {walked[j].home, walked[j].away}} IN
    IF earlier = {} THEN ELO.initial
    ELSE Reverted(after[Max(earlier)][t], walked[i].season - walked[Max(earlier)].season)
\* after[i]: the ratings once the first i games have been walked.
GamesCarryOver(walked, after) ==
    \A i \in DOMAIN walked :
        LET g == walked[i]
            home == Carried(walked, after, i, g.home)
            away == Carried(walked, after, i, g.away)
        IN  /\ after[i][g.home] + after[i][g.away] = home + away
            /\ after[i][g.home] - home = GameUpdate(home, away, g).shift
\* A franchise as one team: every game under its last name.
Renamed(games, successors) ==
    {[g EXCEPT !.home = Root(successors, @), !.away = Root(successors, @)] : g \in games}
Overlaps(games, successors) ==
    \E t, u \in Teams(games) : t # u /\ Root(successors, t) = Root(successors, u)
\* A closed set of moves: a table that never ends.
NeverEnds(successors) ==
    \E S \in SUBSET DOMAIN successors : S # {} /\ \A t \in S : successors[t] \in S

CareerIsTold(career, plain, games, year, successors) ==
    LET season == SeasonGames(games, year) IN
    /\ career.refused <=> NeverEnds(successors) \/ Overlaps(season, successors)
    /\ ~career.refused =>
          /\ RecordsRecount(career.ratings, season)
          /\ \A t \in DOMAIN career.ratings :
                career.ratings[t].rating = plain.ratings[Root(successors, t)].rating
CareerUnder(successors, games, year) ==
    CareerIsTold(EloCareerRating(games, year, successors),
                 EloCareerRating(Renamed(games, successors), year, <<>>), games, year, successors)
AfterEach(walked, year) ==
    [i \in DOMAIN walked |-> EloWalk(SubSeq(walked, 1, i), <<>>, TRUE, year).elo]
\* A career rating belongs to the franchise: moving changes its name and nothing
\* else, an absence costs one reversion for every offseason of it, a season lists
\* the teams that played it under the names they had, with that season's record,
\* and a lineage that never ends or puts two teams of one season into one
\* franchise is refused rather than merged (EloCareerRating, _resolve_roots,
\* _record_participant, revert_across_offseasons, _franchise_successors).
CareerFollowsTheFranchise ==
    block = <<>> =>
        \A year \in {g.season : g \in db.games} :
            LET walked == LoadGames(db.games, year, TRUE) IN
            /\ GamesCarryOver(walked, AfterEach(walked, year))
            /\ \A lineage \in Lineages :
                  CareerUnder(FranchiseSuccessors(lineage, Teams(db.games)), db.games, year)
=============================================================================
