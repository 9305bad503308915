---------------------------- MODULE MCQbNarration ---------------------------
(* Three seasons, each built one of two ways, of three quarterbacks and a     *)
(* kicker.  1 leads a career, 2 a peak; 3 never qualifies on the second build *)
(* of 2002; a tie, a game without a score, a start without a row, a row       *)
(* without its EPA and a season both men started for one team are among them. *)
(* W plays only in 2002, once beside X; a season not built is an absence.     *)
EXTENDS SeasonRatings

X == 11
Y == 12
U == 13
W == 14
MCPlayers == {[id |-> 1, group |-> "QB", career_first |-> 2000],
              [id |-> 2, group |-> "QB", career_first |-> 1998],
              [id |-> 3, group |-> "QB", career_first |-> 2001],
              [id |-> 4, group |-> "K", career_first |-> None]}

Row(player, season, type, attempts, sacks, carries, pass, rush) ==
    [player |-> player, season |-> season, type |-> type, games |-> 2,
     attempts |-> attempts, sacks |-> sacks, carries |-> carries,
     passing_epa |-> pass, rushing_epa |-> rush,
     fg_att |-> None, pat_att |-> None, fg_long |-> None]
Kick(season, type, made, long) ==
    [Row(4, season, type, 0, 0, None, None, None) EXCEPT
        !.fg_att = made, !.pat_att = made, !.fg_long = long]
Game(id, season, type, home, away, hp, ap, completed) ==
    [id |-> id, season |-> season, type |-> type, home |-> home, away |-> away,
     hp |-> hp, ap |-> ap, completed |-> completed, neutral |-> type = "postseason"]
Start(player, game, team) == [player |-> player, game |-> game, team |-> team]
Build(season, rows, starts, games) ==
    [season |-> season, rows |-> rows, starts |-> starts, games |-> games]

\* columns: attempts, sacks, carries, passing EPA, rushing EPA.
Year0 == Build(2000,
    {Row(1, 2000, "regular", 20, 0, 4, 6, 2), Row(2, 2000, "regular", 25, 5, 0, 1, 0),
     Row(3, 2000, "regular", 10, None, 2, 1, 0), Kick(2000, "regular", 2, 53)},
    {Start(1, 1, X), Start(2, 1, Y), Start(1, 2, X)},
    {Game(1, 2000, "regular", X, Y, 21, 14, TRUE), Game(6, 2000, "regular", X, U, 0, 31, TRUE),
     Game(2, 2000, "postseason", Y, X, None, None, FALSE)})
Year0Again == Build(2000,
    {Row(1, 2000, "regular", 20, 0, 4, 6, 2), Row(2, 2000, "regular", 25, 5, 0, None, 0)},
    {Start(1, 1, X), Start(2, 1, Y)},
    {Game(1, 2000, "regular", X, Y, 21, 21, TRUE)})
Year1 == Build(2001,
    {Row(1, 2001, "regular", 20, 1, 3, 5, 1), Row(2, 2001, "regular", 22, 0, 2, 4, 2),
     Row(3, 2001, "regular", 21, 0, 0, 1, 0), Row(1, 2001, "postseason", 9, 0, 1, 1, None),
     Kick(2001, "regular", 0, None), Kick(2001, "postseason", 1, 47)},
    {Start(2, 3, X), Start(1, 3, Y), Start(1, 4, Y), Start(2, 4, Y)},
    {Game(3, 2001, "postseason", X, Y, 17, 10, TRUE),
     Game(4, 2001, "regular", U, Y, 3, 7, TRUE)})
Year1Again == Build(2001,
    {Row(1, 2001, "regular", 20, 1, 3, 2, 0), Row(2, 2001, "regular", 22, 0, 2, 7, 0),
     Row(3, 2001, "regular", 21, 0, 0, 5, 0)},
    {Start(1, 3, Y), Start(3, 4, U)},
    {Game(3, 2001, "postseason", X, Y, 17, 10, TRUE),
     Game(4, 2001, "regular", U, Y, 3, 7, TRUE)})
Year2 == Build(2002,
    {Row(1, 2002, "regular", 24, 0, 1, 4, 1), Row(2, 2002, "regular", 20, 0, 0, 2, 0),
     Row(3, 2002, "regular", 28, 2, 5, 3, 0)},
    {Start(1, 5, Y), Start(3, 5, U)},
    {Game(5, 2002, "regular", U, Y, 30, 33, TRUE), Game(7, 2002, "regular", W, U, 20, 13, TRUE)})
Year2Again == Build(2002,
    {Row(3, 2002, "postseason", 28, 2, 5, 3, 0), Row(2, 2002, "regular", 21, 0, 1, 9, 1),
     Row(1, 2002, "regular", 20, 0, 0, 3, 0)},
    {Start(3, 5, U)},
    {Game(5, 2002, "regular", U, Y, 30, 33, TRUE), Game(7, 2002, "regular", X, U, 20, 13, TRUE),
     Game(8, 2002, "regular", W, Y, 6, 6, TRUE)})
MCBuilds == {Year0, Year0Again, Year1, Year1Again, Year2, Year2Again}

MCMinDropbacks == [regular |-> 40, postseason |-> 8]
MCWeights == [epa_per_dropback |-> 75, rush_epa_per_play |-> 25]
MCBands == [career |-> <<150, 750>>, peak |-> <<15, 75>>]

\* A split verdict, 3 by a career and 2 by a peak, and one that is inconclusive.
MCWritten == {[builds |-> {Year0, Year1Again, Year2}, ids |-> [a |-> 2, b |-> 3]],
              [builds |-> {Year0}, ids |-> [a |-> 1, b |-> 3]]}
Claim(kind, player) == [kind |-> kind, player |-> player]
MCPalette == [score_a |-> [measure |-> "career"] @@ Claim("score", "a"),
              margin_b |-> [measure |-> "career"] @@ Claim("margin", "b"),
              record_a |-> [season_type |-> "regular"] @@ Claim("record", "a"),
              count_a |-> [of |-> "qualifying_seasons"] @@ Claim("count", "a"),
             count_b |-> [of |-> "qualifying_seasons"] @@ Claim("count", "b"),
              career |-> [kind |-> "winner", measure |-> "career"],
              peak |-> [kind |-> "winner", measure |-> "peak"],
              year |-> [kind |-> "year"]]
Slot(id) == Token("slot", id)
Break == Token("break", None)
Names == {Token("name", "a"), Token("name", "b")}
Plain(kinds) == {Token(kind, None) : kind \in kinds}
Figures == Names \cup {Slot(id) : id \in {"score_a", "margin_b", "record_a", "count_a", "count_b"}}
                 \cup Plain({"break", "comma", "to", "at", "beats", "trail"})
Verdicts == Names \cup {Token("measure", "career"), Token("measure", "peak"), Token("goes", "peak")}
                  \cup Plain({"he", "verb", "hard", "photo", "not", "and", "comma", "break"})
MCStyles == {Figures, Verdicts}
Word == Token("word", None)
MCClosings == {<<Break, Slot("career"), Word, Slot("peak"), Word, Slot("year")>>,
               <<Break, Slot("year")>>}

\* A shorter scale and a stronger correction than the code's, so that a home
\* favorite that loses is past the point where the denominator turns.
MCElo == [k |-> 20, hfa |-> 65, mean |-> 1505, initial |-> 1500, revert |-> <<1, 3>>,
          scale |-> 400, mov_scale |-> 220, mov_autocorr |-> 40]
\* None, a relocation, two of them in a chain, a pair that overlaps, a cycle.
MCLineages == {<<>>, X :> W, (X :> W) @@ (U :> X), Y :> U, (X :> Y) @@ (Y :> X) @@ (W :> X)}
=============================================================================
