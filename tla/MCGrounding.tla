----------------------------- MODULE MCGrounding ----------------------------
(* A season of five games among four teams, the fourth not displayed: teams *)
(* 1 and 2 meet twice, the second time for the title; 3 is a common          *)
(* opponent; each game has two outcomes, one of them without a score.        *)
EXTENDS Grounding

Game(id, home, away, week, type, date, title) ==
    [id |-> id, home |-> home, away |-> away, week |-> week, season_type |-> type,
     start_date |-> date, conference_championship |-> title, completed |-> TRUE]
Scores2(g, hp, ap) == [home_points |-> hp, away_points |-> ap] @@ g
Site(g, truth, cfbd, stored) ==
    [truly_neutral |-> truth, cfbd_neutral_site |-> cfbd, neutral_site |-> stored] @@ g

\* id, sides, week, type, date, title game; then site: truth, the source's flag, stored.
Opener == Site(Game(1, 1, 2, 1, "regular", 10, FALSE), FALSE, 0, FALSE)
Title == Site(Game(2, 2, 1, 14, "regular", 50, TRUE), TRUE, 0, TRUE)    \* curated
Third == Site(Game(3, 3, 1, 2, "regular", 20, FALSE), FALSE, 1, TRUE)    \* wrongly flagged
Fourth == Site(Game(4, 2, 3, 3, "regular", 30, FALSE), FALSE, 0, FALSE)
Bowl == Site(Game(5, 1, 4, None, "postseason", 60, FALSE), TRUE, 1, TRUE)

MCSchedule == {Scores2(Opener, 21, 14), Scores2(Opener, 7, 14),
               Scores2(Title, 28, 10), Scores2(Title, None, None),
               Scores2(Third, 3, 10), Scores2(Third, 17, 17),
               Scores2(Fourth, 24, 0), Scores2(Fourth, 3, 6),
               Scores2(Bowl, 14, 35), [Scores2(Bowl, None, None) EXCEPT !.completed = FALSE]}
MCWritten == {Scores2(Opener, 21, 14), Scores2(Title, 28, 10), Scores2(Third, 3, 10),
              Scores2(Fourth, 24, 0), Scores2(Bowl, 14, 35)}
MCStrengths == {<<93340, 71460, 71460, 100>>, <<50049, 50051, 90000, 100>>}

Score12 == [kind |-> "game_score", team |-> 1, opponent |-> 2, result |-> "W", week |-> 1]
MCPalette == <<[kind |-> "record", team |-> 1], [kind |-> "rank", team |-> 1],
               [kind |-> "record", team |-> 2], Score12,
               [kind |-> "count", of |-> "wins", team |-> 1]>>
MCTokens == {Token("name", 1, 0), Token("name", 2, 0), Token("alias", 5, 0),
             Token("wrapped", 5, 1), Token("mascot", 1, 0), Token("break", 0, 0),
             Token("word", 0, 0), Token("verb", 0, 0), Token("the", 0, 0),
             Token("bare", 0, 0), Token("number", 0, 0)}
=============================================================================
