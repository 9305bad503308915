------------------------------- MODULE Doctor -------------------------------
(***************************************************************************)
(* `cfb doctor` (cfb_strength/ingest/currency.py): whether the data of a   *)
(* database is current with the committed raw cache, read without changing *)
(* either.                                                                 *)
(*                                                                         *)
(* A database is a record: the batches ingested, by league, season and     *)
(* season type; the (league, season, method) rated; the seasons with an    *)
(* Elo ledger; the NFL seasons with player stats; the leagues with rows in *)
(* teams; whether a college team has a mascot.  A cache is what each file  *)
(* of data/raw holds.                                                      *)
(***************************************************************************)
EXTENDS SchemaScript, FiniteSets

CONSTANTS
    MinYear, MaxYear,   \* the window of both leagues' ingests
    FcsSeasons          \* seasons whose regular file holds FCS playoff games

ASSUME DoctorAssumption ==
    /\ MinYear \in Nat /\ MaxYear \in Nat /\ MinYear <= MaxYear
    /\ FcsSeasons \subseteq MinYear .. MaxYear

Seasons == MinYear .. MaxYear
Beyond == MaxYear + 1

Leagues == {"cfb", "nfl"}
Types == {"regular", "postseason"}
Methods == {"keener", "elo", "elo_career"}
LedgerMethods == {"elo"}
Batches == Leagues \X Seasons \X Types

\* A games file (or, in games.csv, the rows of one batch): not there, a list
\* without games, a list cut short, a list whose last-dated game is not played,
\* or a finished one.
Contents == {"none", "empty", "torn", "open", "full"}

---------------------------------------------------------------------------
(* What ingest would write *)

\* A file that holds [] writes nothing; one that cannot be read counts.
HoldsNoGames(content) == content = "empty"

\* Mutant: no window.
CachedPairsOfAnyYear(cache, l) ==
    {p \in (Seasons \cup {Beyond}) \X Types :
        /\ cache.games[<<l, p[1], p[2]>>] # "none"
        /\ ~HoldsNoGames(cache.games[<<l, p[1], p[2]>>])
        /\ l = "nfl" => cache.csv = "rows"}
\* The pairs of a league's cache inside the window.
CachedPairs(cache, l) ==
    {p \in Seasons \X Types :
        /\ cache.games[<<l, p[1], p[2]>>] # "none"
        /\ ~HoldsNoGames(cache.games[<<l, p[1], p[2]>>])
        /\ l = "nfl" => cache.csv = "rows"}

\* Seasons past MAX_YEAR whose last-dated postseason games (the NFL's Super
\* Bowl) are played; a file that cannot be read proves nothing.
FinishedBeyond(cache, l) ==
    {s \in {Beyond} : /\ cache.games[<<l, s, "postseason">>] = "full"
                      /\ l = "nfl" => cache.csv = "rows"}

Unrecognized(cache, l) ==
    \/ CachedPairs(cache, l) = {}
    \/ l = "cfb" /\ cache.teams = "none"

RawDir(cache) ==
    \/ \E b \in DOMAIN cache.games : b[1] = "cfb" /\ cache.games[b] # "none"
    \/ cache.csv # "none" \/ cache.teams # "none" \/ cache.roster \/ cache.stats # {}

---------------------------------------------------------------------------
(* What the database holds *)

\* A table an old file lacks is read as the empty one the migration adds.
RowsOf(db, schema, table) == IF <<table, "">> \in schema THEN db[table] ELSE {}

\* SELECT DISTINCT season, season_type: the FCS playoff games of a regular
\* batch are stored as postseason games (apply_fcs_playoff_games).
GamePairs(db, schema, l) ==
    LET batches == {b \in RowsOf(db, schema, "games") : b[1] = l}
    IN  {<<b[2], b[3]>> : b \in batches}
        \cup {<<b[2], "postseason">> : b \in {b \in batches :
                 l = "cfb" /\ b[3] = "regular" /\ b[2] \in FcsSeasons}}
GameSeasons(db, schema, l) == {p[1] : p \in GamePairs(db, schema, l)}

Rated(db, schema, l, m) == {s \in Seasons : <<l, s, m>> \in RowsOf(db, schema, "ratings")}

\* Both halves: the walk's configuration and its steps.
Ledgered(db, schema, l) ==
    {s \in Seasons : <<l, s>> \in RowsOf(db, schema, "elo_ledger_configs")
                  /\ <<l, s>> \in RowsOf(db, schema, "elo_ledger_steps")}

---------------------------------------------------------------------------
(* The problems, each a code with what it is about *)

When(cond, problem) == IF cond THEN {problem} ELSE {}

LeagueProblems(db, schema, cache, l) ==
    LET seasons == GameSeasons(db, schema, l)
        trusted == RawDir(cache) /\ ~Unrecognized(cache, l)
    IN  When(RawDir(cache) /\ Unrecognized(cache, l), <<"raw_cache_unrecognized", l>>)
        \cup When(seasons = {}, <<"league_has_no_games", l>>)
        \cup {<<"season_behind_cache", l, p>> : p \in CachedPairs(cache, l) \ GamePairs(db, schema, l)}
        \cup {<<"cache_past_max_year", l, s>> : s \in FinishedBeyond(cache, l)}
        \cup (UNION {{<<"season_missing_ratings", l, s, m>> : s \in seasons \ Rated(db, schema, l, m)}
                        : m \in Methods})
        \cup (UNION {{<<"season_missing_elo_ledger", l, s, m>> :
                         s \in Rated(db, schema, l, m) \ Ledgered(db, schema, l)} : m \in LedgerMethods})
        \cup {<<"season_missing_player_stats", l, s>> :
                 s \in {s \in seasons \cap cache.stats :
                           l = "nfl" /\ trusted /\ s \notin RowsOf(db, schema, "player_season_stats")}}

\* Mutant: the data alone.
ProblemsOfData(db, schema, cache) ==
    When(~RawDir(cache), <<"raw_cache_missing">>)
    \cup (UNION {LeagueProblems(db, schema, cache, l) : l \in Leagues})
Problems(db, schema, cache) ==
    {<<"schema_not_current", o>> : o \in Reference \ schema}
    \cup When(~RawDir(cache), <<"raw_cache_missing">>)
    \cup (UNION {LeagueProblems(db, schema, cache, l) : l \in Leagues})
    \cup When("cfb" \in RowsOf(db, schema, "teams") /\ cache.teams # "none" /\ ~db.mascots,
              <<"no_cfb_mascots">>)

\* Seasons past MAX_YEAR still in progress: noted, never a problem.
Notes(cache) ==
    {n \in Leagues \X {Beyond} :
        /\ \E t \in Types : cache.games[<<n[1], n[2], t>>] # "none"
        /\ n[2] \notin FinishedBeyond(cache, n[1])}

\* The exit code 0.
IsCurrent(db, schema, cache) == Problems(db, schema, cache) = {}
=============================================================================
