------------------------------ MODULE Grounding -----------------------------
(***************************************************************************)
(* From the games of a season to a narration on screen: games are          *)
(* ingested, the season is rated, a verdict asks for its evidence, the     *)
(* narrator writes a text around claims, and the check accepts or rejects  *)
(* it.  Evidence reads the games live and the ratings as last stored, so a *)
(* game ingested after the rating makes the two disagree.                  *)
(***************************************************************************)
EXTENDS Prose

CONSTANTS Schedule,    \* candidate games rows, several results to one id
          Displayed,   \* teams ratings are displayed for (_rerank_for_display)
          Strengths,   \* functions from teams to ratings: what a method may give
          Seasons,
          RateFrom,    \* bound: games there before the season is first rated
          Palette,     \* the claims the narrator's slots may make, by id
          Tokens,      \* what the narrator may write between them
          MaxTokens,   \* bound on a text's length
          Written,     \* bound: the games of the one season it writes about
          Compared     \* bound: the two teams of the verdicts it writes about

ASSUME GroundingAssumption ==
    /\ RateFrom \in Nat /\ MaxTokens \in Nat
    /\ \A token \in Tokens : token.is \in TokenKinds
    /\ Seasons \subseteq Int /\ RELIABLE_CFB_VENUE_SINCE \in Int
    /\ IsFiniteSet(Schedule)
    /\ Displayed \subseteq Int
    /\ \A strength \in Strengths : \A t \in Displayed : strength[t] \in Int
    /\ \A g \in Schedule :
          /\ g.home # g.away
          /\ {g.id, g.week, g.start_date, g.home_points, g.away_points} \subseteq Int
          /\ g.season_type \in {"regular", "postseason"}
          \* A curated correction of the source's flag is right.
          /\ g.neutral_site /\ g.cfbd_neutral_site = 0 => g.truly_neutral
    /\ \A g, h \in Schedule :
          \* One game of a pair in a week, and one on a date: a block keys its
          \* games by the first, a ledger step finds its game by the second.
          g.id # h.id /\ {g.home, g.away} = {h.home, h.away}
              => /\ <<g.week, g.season_type>> # <<h.week, h.season_type>>
                 /\ g.start_date # h.start_date \/ g.start_date = None

\* Both dates known, h is no later than g.
NoLater(h, g) == None \notin {h.start_date, g.start_date} /\ h.start_date <= g.start_date
\* A team's regular season is played in the order of its weeks.
ASSUME CalendarAssumption ==
    \A g, h \in Schedule :
        g.id # h.id /\ {g.home, g.away} \cap {h.home, h.away} # {} /\ Regular(g) /\ Regular(h)
            => (Before(g, h) => ~NoLater(h, g))

VARIABLES db,       \* the database (Evidence)
          seen,     \* the games the stored ratings were computed from
          block,    \* the open verdict's fact block: none, or the one
          text,     \* the narration being written
          shown     \* the claims of the text, once the check accepted it: none, or the one
gvars == <<db, seen, block, text, shown>>

ScoredGames(games) == {g \in games : g.completed /\ Scored(g)}
Against(games, t, u) == {g \in ScoredGames(games) : {g.home, g.away} = {t, u}}
With(games, t, result) ==
    {g \in ScoredGames(games) :
        Plays(g, t) /\ Result(TeamScore(g, t), TeamScore(g, OpponentOf(g, t))) = result}

\* compute_and_store: every displayed team in the games gets its row, its
\* breakdown and its ledger steps, and is ranked by rating, then by id.
RatedTeams(games) == {t \in Displayed : \E g \in ScoredGames(games) : Plays(g, t)}
RatingRow(games, strength, t) ==
    [rating |-> strength[t],
     rank |-> 1 + Cardinality({u \in RatedTeams(games) :
                   \/ strength[u] > strength[t]
                   \/ strength[u] = strength[t] /\ u < t}),
     wins |-> Cardinality(With(games, t, "W")),
     losses |-> Cardinality(With(games, t, "L")),
     ties |-> Cardinality(With(games, t, "T")),
     faced |-> [u \in {OpponentOf(g, t) : g \in {h \in ScoredGames(games) : Plays(h, t)}}
                   |-> Cardinality(Against(games, t, u))]]
LedgerSteps(games, t) ==
    LET walked == Chronological({g \in ScoredGames(games) : Plays(g, t)})
        venue(g) == IF g.neutral_site THEN "neutral" ELSE IF g.home = t THEN "home" ELSE "away"
    IN  [i \in DOMAIN walked |->
            LET g == walked[i] u == OpponentOf(g, t) IN
            [opponent |-> u, venue |-> venue(g), start_date |-> g.start_date,
             result |-> Result(TeamScore(g, t), TeamScore(g, u))]]
Rerated(strength) ==
    LET rated == RatedTeams(db.games) IN
    [db EXCEPT !.ratings = [t \in rated |-> RatingRow(db.games, strength, t)],
               !.config = TRUE,
               !.steps = [t \in rated |-> LedgerSteps(db.games, t)]]

GroundingInit ==
        /\ db \in [sport : {"cfb"}, season : Seasons, games : {{}}, ratings : {<<>>},
                   config : {FALSE}, steps : {<<>>}]
        /\ seen = {}
        /\ block = <<>> /\ text = <<>> /\ shown = <<>>

\* Since 2008 the source's neutral flag is right; before, only a curated one is
\* (the decision RELIABLE_CFB_VENUE_SINCE records).
FlagIsRight(g) == \/ db.season < RELIABLE_CFB_VENUE_SINCE
                  \/ g.neutral_site = g.truly_neutral

\* Ingest stores one more game row of the season.
PlayGame == /\ block = <<>>
            /\ \E g \in Schedule : /\ \A h \in db.games : h.id # g.id
                                   /\ FlagIsRight(g)
                                   /\ db' = [db EXCEPT !.games = @ \cup {g}]
            /\ UNCHANGED <<seen, block, text, shown>>

Rate == /\ block = <<>>
        /\ Cardinality(db.games) >= RateFrom
        /\ seen # db.games
        /\ \E strength \in Strengths : db' = Rerated(strength)
        /\ seen' = db.games
        /\ UNCHANGED <<block, text, shown>>

Rated == DOMAIN db.ratings
Corrupt(t) == EloLedger(db, t).corrupt

\* build_team_case; a corrupt ledger raises, and there is no verdict.
AskTeamCase == /\ block = <<>>
               /\ \E t \in Rated : /\ ~Corrupt(t)
                                   /\ block' = <<TeamCaseBlock(db.season, TeamCase(db, t))>>
               /\ UNCHANGED <<db, seen, text, shown>>

\* build_comparison; one team twice is SameTeamComparisonError.
AskComparison == /\ block = <<>>
                 /\ \E a, b \in Rated : /\ a # b
                                        /\ ~Corrupt(a) /\ ~Corrupt(b)
                                        /\ block' = <<ComparisonBlock(db.season, Comparison(db, a, b))>>
                 /\ UNCHANGED <<db, seen, text, shown>>

\* What the narrator writes with.
Vocabulary == Tokens \cup {Token("slot", None, id) : id \in DOMAIN Palette}
\* The narrator writes one more token of its answer.
Write == /\ block # <<>> /\ shown = <<>>
         /\ seen = Written /\ Subjects(block[1]) = Compared
         /\ Len(text) < MaxTokens
         /\ \E token \in Vocabulary : text' = Append(text, token)
         /\ UNCHANGED <<db, seen, block, shown>>

\* check_and_render on the text with the claims it uses: rendered, or an error
\* the narrator gets back (the loop is module Narration's).
Submit == /\ block # <<>> /\ shown = <<>> /\ text # <<>>
          /\ LET claims == [id \in Used(text) |-> Palette[id]] IN
                /\ Accepted(text, claims, block[1])
                /\ shown' = <<claims>>
          /\ UNCHANGED <<db, seen, block, text>>

GroundingNext == PlayGame \/ Rate \/ AskTeamCase \/ AskComparison \/ Write \/ Submit
GroundingSpec == GroundingInit /\ [][GroundingNext]_gvars

---------------------------------------------------------------------------
(* What is true of the games *)

Fresh == seen = db.games
\* The games a game claim may be about.
Meant(c) ==
    {g \in Against(db.games, c.team, c.opponent) :
        /\ Result(TeamScore(g, c.team), TeamScore(g, c.opponent)) = c.result
        /\ "week" \in DOMAIN c => g.week = c.week
        /\ "season_type" \in DOMAIN c => g.season_type = c.season_type}
Scores(g) == <<Max({g.home_points, g.away_points}), Min({g.home_points, g.away_points})>>

Opponents(t) == {OpponentOf(g, t) : g \in {h \in ScoredGames(db.games) : Plays(h, t)}}
TrueCount(c) ==
    CASE c.of = "wins" -> Cardinality(With(db.games, c.team, "W"))
      [] c.of = "losses" -> Cardinality(With(db.games, c.team, "L"))
      [] c.of = "ties" -> Cardinality(With(db.games, c.team, "T"))
      [] c.of = "games" -> Cardinality({g \in ScoredGames(db.games) : Plays(g, c.team)})
      [] c.of = "meetings" -> Cardinality(Against(db.games, c.team, c.opponent))
      [] c.of = "quality_wins" ->
           Cardinality({g \in With(db.games, c.team, "W") :
               /\ OpponentOf(g, c.team) \in Rated
               /\ db.ratings[OpponentOf(g, c.team)].rank <= QUALITY_WIN_RANK_THRESHOLD})
      [] c.of = "common_opponents" ->
           LET pair == Subjects(block[1])
               common == {u \in (UNION {Opponents(t) : t \in pair}) \ pair :
                             \A t \in pair : u \in Opponents(t)}
           IN  Cardinality(common)

\* Games and meetings are read live; records are the ratings', so they are
\* held to the games only while the ratings are fresh.
FigureIsTrue(c, v) ==
    CASE c.kind \in {"game_score", "margin"} ->
           \E g \in Meant(c) : v = IF c.kind = "margin" THEN Scores(g)[1] - Scores(g)[2]
                                                        ELSE Scores(g)
      [] c.kind = "count" -> Fresh \/ c.of \in {"games", "meetings", "common_opponents"}
                                => v = TrueCount(c)
      [] c.kind = "record" ->
           Fresh => /\ v[1] = Cardinality(With(db.games, c.team, "W"))
                    /\ v[2] = Cardinality(With(db.games, c.team, "L"))
                    /\ (Len(v) = 3) = (With(db.games, c.team, "T") # {})
      [] c.kind = "rating" -> c.team \in Rated /\ v = DisplayValue(db.ratings[c.team].rating)
      [] c.kind = "rank" ->
           /\ c.team \in Rated /\ v = db.ratings[c.team].rank
           /\ v = 1 + Cardinality({u \in Rated : db.ratings[u].rank < v})
           /\ \A u \in Rated : db.ratings[u].rating > db.ratings[c.team].rating
                                 => db.ratings[u].rank < v
      [] c.kind = "rating_gap" ->
           /\ db.ratings[c.team].rating > db.ratings[c.opponent].rating
           /\ v = DisplayValue(db.ratings[c.team].rating) - DisplayValue(db.ratings[c.opponent].rating)
      [] OTHER -> TRUE

\* When and where a game was, from the whole season.
Occasion(c, v, g) ==
    LET others == {h \in ScoredGames(db.games) : Plays(h, c.team) /\ h # g /\ Regular(h)} IN
    CASE v[1] = "title game" -> g.conference_championship
      [] v[1] = "postseason" -> ~Regular(g) /\ ~g.conference_championship
      [] v[1] = "opener" -> Regular(g) /\ \A h \in others : ~NoLater(h, g)
      [] v[1] = "finale" ->
           /\ Regular(g) /\ ~g.conference_championship
           /\ \A h \in others : ~h.conference_championship => ~NoLater(g, h)
      [] v[1] = "week" -> v[2] = g.week
Ground(c, g) ==
    IF g.truly_neutral THEN "neutral" ELSE IF g.home = c.team THEN "home" ELSE "away"
OccasionIsTrue(c, v) ==
    /\ c.kind = "where" => \E g \in Meant(c) : v = Ground(c, g)
    /\ c.kind = "when" => \E g \in Meant(c) : Occasion(c, v, g)

---------------------------------------------------------------------------
(* Properties *)

\* Every claim a narrator could make about the open verdict.
ClaimSpace ==
    LET teams == {g.home : g \in Schedule} \cup {g.away : g \in Schedule}
        weeks == {g.week : g \in Schedule}
        types == {"regular", "postseason"}
        results == {"W", "L", "T"}
    IN  UNION {[kind : GameKinds, team : teams, opponent : teams, result : results],
               [kind : GameKinds, team : teams, opponent : teams, result : results, week : weeks],
               [kind : GameKinds, team : teams, opponent : teams, result : results,
                season_type : types],
               [kind : {"record", "rating", "rank", "win_pct"}, team : teams],
               [kind : {"rating_gap"}, team : teams, opponent : teams],
               [kind : {"count"}, of : {"common_opponents"}],
               [kind : {"count"}, of : CountOf \ {"common_opponents", "meetings"}, team : teams],
               [kind : {"count"}, of : {"meetings"}, team : teams, opponent : teams]}

\* What the check lets through is true of the season.  A score and a margin are
\* a real meeting's, a count counts every meeting (although a comparison's block
\* holds only some of them), records match the games while the ratings are
\* fresh, a rank is its team's and no better team is behind it, a gap favours the
\* team it names; nothing was played before an opener, nor after a finale but
\* title games, and a venue is stated only where it is right, whatever the
\* source's flag said (_resolve_claim, holds_every_meeting, add_game's dedupe,
\* build_comparison's lists).
ClaimsAreTrue ==
    block # <<>> /\ text = <<>>
        => \A c \in ClaimSpace : \A v \in Answers(c, block[1]) :
              FigureIsTrue(c, v) /\ OccasionIsTrue(c, v)

\* Every neutral game has a date (games.start_date may be NULL).
Dated == \A g \in ScoredGames(db.games) : g.neutral_site => g.start_date # None
\* While the ratings are fresh, a verdict never finds a rated team's ledger
\* corrupt, its steps are the case's games one for one (the venue hedged alike,
\* though a step has no game id), and every opponent credit explains exactly
\* the games it was computed from (_elo_ledger, _step_venue_reliable,
\* _scores_vs_opponent).
LedgerInStep ==
    Fresh /\ Dated => \A t \in Rated :
        LET ledger == EloLedger(db, t) games == Results(db, t) IN
        /\ ~ledger.corrupt
        /\ Len(ledger.steps) = Len(games)
        /\ \A i \in DOMAIN games :
              /\ ledger.steps[i].opponent = games[i].opponent
              /\ ledger.steps[i].result = games[i].result
              /\ games[i].venue = ledger.steps[i].venue
              /\ games[i].venue_reliable = (ledger.steps[i].venue_reliable = "reliable")
        /\ \A e \in RatingBreakdown(db, t) : e.games_played = e.explained

\* What a reader meets at a place of the screen: a token and a piece of it.
Says(read, p) == PieceAt(read, p).says
NamesATeam(read, p) == Refers([is |-> Says(read, p)]) \/ Says(read, p) = "team"
Distracts(claims, read, p) ==
    \/ Says(read, p) = "break" \/ NamesATeam(read, p)
    \/ Says(read, p) = "figure" /\ Kind(claims, PieceAt(read, p).id) \in PairKinds
\* q names the team of the figure at p, and nothing between them distracts.
GivesItsTeam(claims, read, q, p) ==
    /\ Precedes(q, p) /\ NamesATeam(read, q) /\ PieceAt(read, q).team = PieceAt(read, p).team
    /\ \A r \in Places(read) : Precedes(q, r) /\ Precedes(r, p) => ~Distracts(claims, read, r)
\* "No. 3 Alabama": a rank's name follows it.
NamedAfter(read, p) ==
    LET next == <<p[1], p[2] + 1>> IN
    /\ next \in Places(read)
    /\ Says(read, next) = "team" /\ PieceAt(read, next).team = PieceAt(read, p).team
FiguresRead(claims, read) ==
    \A p \in Places(read) :
        Says(read, p) = "figure" /\ PieceAt(read, p).team # None
            => \/ NamedAfter(read, p)
               \/ \E q \in Places(read) : GivesItsTeam(claims, read, q, p)

\* In an accepted narration, as it is read on screen, the last team its
\* sentence names before a record, a rating or a rank printed without a name is
\* that figure's team, with no game's figure between them (_bare_offsets).
FiguresReadAsTheirTeam == shown # <<>> => FiguresRead(shown[1], Rendered(text, shown[1]))
=============================================================================
