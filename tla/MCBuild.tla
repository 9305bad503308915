------------------------------- MODULE MCBuild -------------------------------
(* Two seasons, the first of which has FCS playoff games in its regular file. *)
EXTENDS Build

Cached(f) == [games |-> [b \in Leagues \X (Seasons \cup {Beyond}) \X Types |-> f[b]],
              csv |-> "rows", teams |-> "full", roster |-> TRUE, stats |-> Seasons]
Committed == Cached([b \in Leagues \X (Seasons \cup {Beyond}) \X Types |->
                        IF b[2] = Beyond THEN "none" ELSE "full"])
\* Caches that lack one file, or hold a list without games or one cut short.
Incomplete ==
    {[Committed EXCEPT !.games[<<"cfb", 2, "postseason">>] = "none"],
     [Committed EXCEPT !.games[<<"cfb", 1, "postseason">>] = "empty"],
     [Committed EXCEPT !.games[<<"cfb", 2, "regular">>] = "torn"],
     [Committed EXCEPT !.teams = "none"],
     [Committed EXCEPT !.csv = "none",
                       !.games = [b \in DOMAIN @ |-> IF b[1] = "nfl" THEN "none" ELSE @[b]]],
     [Committed EXCEPT !.roster = FALSE, !.stats = {1}]}

\* What each earlier release left: none; a file from before there was an NFL; one
\* with every row, from before the title flag and the ledger's last column.
OldRows == [NoRows EXCEPT !.games = {<<"cfb", s, t>> : s \in Seasons, t \in Types},
                          !.ratings = {<<"cfb", s, "keener">> : s \in Seasons}, !.teams = {"cfb"}]
FirstTables == {<<t, "">> : t \in {"teams", "team_season", "games", "ratings", "ingestion_log"}}
WholeRows == [games |-> Batches, ratings |-> Leagues \X Seasons \X Methods,
              elo_ledger_configs |-> Leagues \X Seasons, elo_ledger_steps |-> Leagues \X Seasons,
              player_season_stats |-> Seasons, teams |-> Leagues, mascots |-> TRUE]
Leftovers ==
    {[schema |-> {}, db |-> NoRows],
     [schema |-> FirstTables, db |-> OldRows],
     [schema |-> Reference \ {<<"games", "conference_championship">>,
                              <<"elo_ledger_configs", "mov_denom_floor_fraction">>},
      db |-> WholeRows]}

StartsOfNote ==
    {[cache |-> Committed, schema |-> f.schema, db |-> f.db] : f \in Leftovers}
    \cup {[cache |-> c, schema |-> Reference, db |-> NoRows] : c \in Incomplete}
=============================================================================
