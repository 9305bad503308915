-------------------------------- MODULE Build --------------------------------
(***************************************************************************)
(* The build: the commands of the `cfb` command line in the order of       *)
(* render.yaml's buildCommand, joined by &&, and the same commands run one *)
(* at a time by a developer, over one database file and one raw cache.     *)
(*                                                                         *)
(* "job" is the process of the running command; another process may open   *)
(* and migrate the same file meanwhile.  A command is a sequence of units, *)
(* each one transaction (or one file of the cache): SeasonIngest,          *)
(* PlayerIngest and RatingStore take their transactions apart.             *)
(***************************************************************************)
EXTENDS Doctor, Schema

CONSTANTS
    Starts,         \* the raw cache and the database file there may be at first
    Alone,          \* bound: the commands (by their place in Commands) run outside a build
    MaxJobs,        \* bound: builds and commands started
    MaxPulls        \* bound: changes to the committed cache

Databases ==
    [games : SUBSET Batches, ratings : SUBSET (Leagues \X Seasons \X Methods),
     elo_ledger_configs : SUBSET (Leagues \X Seasons),
     elo_ledger_steps : SUBSET (Leagues \X Seasons),
     player_season_stats : SUBSET Seasons, teams : SUBSET Leagues, mascots : BOOLEAN]
Caches == [games : [Leagues \X (Seasons \cup {Beyond}) \X Types -> Contents],
           csv : {"none", "headless", "rows"}, teams : {"none", "torn", "full"},
           roster : BOOLEAN, stats : SUBSET Seasons]

\* Games reference their teams.
ASSUME BuildAssumption ==
    /\ "job" \in Procs
    /\ \A f \in Starts : /\ f.schema \subseteq Reference /\ f.cache \in Caches /\ f.db \in Databases
                         /\ \A b \in f.db.games : b[1] \in f.db.teams
    /\ Alone \subseteq 1 .. 10 /\ MaxJobs \in Nat /\ MaxPulls \in Nat

VARIABLES cache, db,            \* the files the doctor compares
          old,        \* batches whose rows an earlier build or command left
          fresh,      \* ratings computed from the games now stored
          cmd, unit,  \* the running command of Commands (0: none) and its unit
          chained,    \* whether it is a step of the build
          types,      \* --season-types
          writing,    \* whether it is in the middle of writing a cache file
          errors,     \* its hard errors so far
          last,       \* how the last build ended, until anything else happens
          collided,   \* whether the other process's migration broke a step of it
          jobs, pulls
jobVars == <<cmd, unit, chained, types, writing, errors>>
vars == <<svars, cache, db, old, fresh, jobVars, last, collided, jobs, pulls>>

---------------------------------------------------------------------------
(* The commands *)

Unit(does) == [does |-> does, of |-> <<>>]
UnitOf(does, of) == [does |-> does, of |-> of]
Years == MaxYear - MinYear + 1
\* One, and two, for every season in their order.
EachSeason(of(_)) == [i \in 1 .. Years |-> of(MinYear + i - 1)]
TwoASeason(first(_), second(_)) ==
    [i \in 1 .. 2 * Years |-> IF i % 2 = 1 THEN first(MinYear + (i - 1) \div 2)
                              ELSE second(MinYear + (i - 1) \div 2)]
BatchesOf(l) == TwoASeason(LAMBDA s : UnitOf("batch", <<l, s, "regular">>),
                           LAMBDA s : UnitOf("batch", <<l, s, "postseason">>))

Ingest(l) == IF l = "cfb" THEN <<Unit("open")>> \o BatchesOf(l) \o <<Unit("enrich")>>
             ELSE <<Unit("games.csv"), Unit("open")>> \o BatchesOf(l)
IngestPlayers ==
    <<Unit("open"), Unit("players.csv")>> \o EachSeason(LAMBDA s : UnitOf("stats", <<s>>))
\* One year's ratings and its ledger are committed apart.  (compute_and_store runs
\* ensure_schema again for every year, which has nothing to add then.)
Rate(l, m) == <<Unit("open")>> \o
    IF m \in LedgerMethods
    THEN TwoASeason(LAMBDA s : UnitOf("rate", <<l, s, m>>), LAMBDA s : UnitOf("ledger", <<l, s>>))
    ELSE EachSeason(LAMBDA s : UnitOf("rate", <<l, s, m>>))

\* Mutant: the college ratings before the ingests.
RateFirst == <<Rate("cfb", "keener"), Rate("cfb", "elo"), Rate("cfb", "elo_career"),
               Ingest("cfb"), Ingest("nfl"), IngestPlayers,
               Rate("nfl", "keener"), Rate("nfl", "elo"), Rate("nfl", "elo_career"),
               <<Unit("doctor")>>>>
Commands == <<Ingest("cfb"), Ingest("nfl"), IngestPlayers,
              Rate("cfb", "keener"), Rate("cfb", "elo"), Rate("cfb", "elo_career"),
              Rate("nfl", "keener"), Rate("nfl", "elo"), Rate("nfl", "elo_career"),
              <<Unit("doctor")>>>>
Ingests == {1, 2}

---------------------------------------------------------------------------
NoRows == [games |-> {}, ratings |-> {}, elo_ledger_configs |-> {}, elo_ledger_steps |-> {},
           player_season_stats |-> {}, teams |-> {}, mascots |-> FALSE]

\* A cache of the repository's and a database of an earlier build's, if any.
Init ==
    /\ \E f \in Starts :
        /\ SchemaInit(f.schema)
        /\ cache = f.cache
        /\ db = f.db
        /\ old = f.db.games
    /\ fresh = {}
    /\ cmd = 0 /\ unit = 0 /\ chained = FALSE /\ types = Types
    /\ writing = FALSE /\ errors = FALSE
    /\ last = "none" /\ collided = FALSE /\ jobs = 0 /\ pulls = 0

Start(c, inBuild, ts) ==
    /\ cmd = 0 /\ jobs < MaxJobs
    /\ jobs' = jobs + 1
    /\ cmd' = c /\ unit' = 1 /\ chained' = inBuild /\ types' = ts
    /\ last' = "none" /\ collided' = FALSE
    /\ old' = db.games
    /\ UNCHANGED <<svars, cache, db, fresh, writing, errors, pulls>>
StartBuild == Start(1, TRUE, Types)
StartAlone == \E c \in Alone, ts \in {Types, {"regular"}} :
                  (c \notin Ingests => ts = Types) /\ Start(c, FALSE, ts)

Does(what) == cmd # 0 /\ Commands[cmd][unit].does = what
Of == Commands[cmd][unit].of
DataUnchanged == UNCHANGED <<db, old, fresh>>
HistoryUnchanged == UNCHANGED <<last, collided, jobs, pulls>>

CloseFile == IF at["job"] # 0 THEN Close("job") ELSE UNCHANGED <<at, todo>>

\* The process exits.  && goes on to the next command only after an exit of 0.
Exit(ok) ==
    /\ CloseFile /\ UNCHANGED schema
    /\ writing' = FALSE /\ errors' = FALSE
    /\ UNCHANGED <<jobs, pulls, types, chained>>
    /\ IF ok /\ chained /\ cmd < Len(Commands)
       THEN cmd' = cmd + 1 /\ unit' = 1 /\ UNCHANGED last
       ELSE /\ cmd' = 0 /\ unit' = 0
            /\ last' = IF ~chained THEN "none" ELSE IF ok THEN "green" ELSE "red"

\* On to the next unit; after the last one the exit code is 1 with hard errors.
Advance(failed) ==
    IF unit < Len(Commands[cmd])
    THEN /\ unit' = unit + 1
         /\ errors' = (errors \/ failed)
         /\ UNCHANGED <<svars, cmd, chained, types, writing>> /\ HistoryUnchanged
    ELSE Exit(~errors /\ ~failed) /\ UNCHANGED collided

\* An error main does not catch; what is not committed is rolled back.
Break == Exit(FALSE) /\ UNCHANGED <<cache, collided>> /\ DataUnchanged
Fail == /\ Exit(FALSE)
        /\ collided' = TRUE
        /\ UNCHANGED cache /\ DataUnchanged

---------------------------------------------------------------------------
(* get_conn and ensure_schema *)

NothingToAdd == at["job"] = 0 /\ Reference \subseteq schema
OpenCurrent ==
    /\ Does("open") /\ NothingToAdd
    /\ at' = [at EXCEPT !["job"] = Opened]
    /\ UNCHANGED <<schema, todo, cache, jobVars>> /\ DataUnchanged /\ HistoryUnchanged
Migrate ==
    /\ Does("open") /\ ~NothingToAdd
    /\ SchemaStep("job")
    /\ UNCHANGED <<cache, jobVars>> /\ DataUnchanged /\ HistoryUnchanged
\* The other process has done or undone what this one's statement asks for:
\* sqlite3.OperationalError, a traceback.
OpenFails ==
    /\ Does("open")
    /\ \/ Running("job") /\ todo["job"] = "run" /\ Statement("job").does = "alter"
          /\ Statement("job").on \in schema
       \/ Running("job") /\ todo["job"] = "run" /\ Statement("job").does = "rebuild"
          /\ <<"ingestion_log", "">> \notin schema
       \/ todo["job"] = "recreate" /\ <<"ingestion_log", "">> \in schema
    /\ Fail
OpenDone ==
    /\ Does("open") /\ at["job"] = Opened
    /\ Advance(FALSE)
    /\ UNCHANGED cache /\ DataUnchanged

---------------------------------------------------------------------------
(* The raw cache.  A file that is not there is fetched; one written in place  *)
(* (write_text) is cut short until it is all there.                           *)

StartWriting(files) ==
    /\ cache' = files /\ writing' = TRUE
    /\ UNCHANGED <<svars, cmd, unit, chained, types, errors>> /\ DataUnchanged /\ HistoryUnchanged
Written(files) ==
    /\ writing /\ cache' = files /\ writing' = FALSE
    /\ UNCHANGED <<svars, cmd, unit, chained, types, errors>> /\ DataUnchanged /\ HistoryUnchanged
FetchFails == Advance(TRUE) /\ UNCHANGED cache /\ DataUnchanged

Skipped == Does("batch") /\ Of[3] \notin types
BatchDue(content) == Does("batch") /\ ~Skipped /\ ~writing /\ cache.games[Of] = content
FetchBatch == /\ BatchDue("none") /\ Of[1] = "cfb"
              /\ StartWriting([cache EXCEPT !.games[Of] = "torn"])
BatchFetched == /\ Does("batch")
                /\ \E answer \in {"empty", "full"} : Written([cache EXCEPT !.games[Of] = answer])
FetchBatchFails == BatchDue("none") /\ Of[1] = "cfb" /\ FetchFails

FetchTeams == /\ Does("enrich") /\ ~writing /\ cache.teams = "none"
              /\ StartWriting([cache EXCEPT !.teams = "torn"])
TeamsFetched == Does("enrich") /\ Written([cache EXCEPT !.teams = "full"])
FetchTeamsFails == Does("enrich") /\ ~writing /\ cache.teams = "none" /\ FetchFails

\* games.csv is one file, its rows in the order of the seasons: cut short, it
\* reads as a shorter list.
NflBatches == TwoASeason(LAMBDA s : <<"nfl", s, "regular">>, LAMBDA s : <<"nfl", s, "postseason">>)
WithRows(n) ==
    [cache EXCEPT !.csv = IF n = 0 THEN "headless" ELSE "rows",
                  !.games = [b \in DOMAIN cache.games |->
                      IF b[1] = "cfb" THEN cache.games[b]
                      ELSE IF \E i \in 1 .. n : NflBatches[i] = b THEN "full" ELSE "none"]]
FetchCsv == /\ Does("games.csv") /\ ~writing /\ cache.csv = "none"
            /\ \E n \in 0 .. Len(NflBatches) - 1 : StartWriting(WithRows(n))
CsvFetched == Does("games.csv") /\ Written(WithRows(Len(NflBatches)))
\* The NFL ingest gives up before it opens the database.
FetchCsvFails == Does("games.csv") /\ ~writing /\ cache.csv = "none" /\ Break
CsvThere == /\ Does("games.csv") /\ ~writing /\ cache.csv # "none"
            /\ Advance(FALSE) /\ UNCHANGED cache /\ DataUnchanged

\* players.csv and the stats are renamed into place.
Roster == /\ Does("players.csv")
          /\ cache' = [cache EXCEPT !.roster = TRUE]
          /\ Advance(FALSE) /\ DataUnchanged
FetchRosterFails == Does("players.csv") /\ ~cache.roster /\ Break
Pull ==
    /\ cmd = 0 /\ pulls < MaxPulls
    /\ pulls' = pulls + 1 /\ last' = "none"
    /\ \E beyond \in {"none", "open", "full"} :
          cache' = [games |-> [b \in DOMAIN cache.games |->
                        IF b[2] # Beyond THEN "full" ELSE IF b[3] = "regular" THEN "full" ELSE beyond],
                    csv |-> "rows", teams |-> "full", roster |-> TRUE, stats |-> Seasons]
    /\ UNCHANGED <<svars, jobVars, collided, jobs>> /\ DataUnchanged

---------------------------------------------------------------------------
(* The units that write the database *)

HasGames(l, s) == \E t \in Types : <<l, s, t>> \in db.games

\* Ratings of a season are computed from its games, career ratings from every
\* season's up to it.
Affected(l, s) == {r \in Leagues \X Seasons \X Methods :
                      r[1] = l /\ (r[2] = s \/ (r[3] = "elo_career" /\ r[2] > s))}

\* ingest_one: the games, the teams and the log row in one transaction.  A
\* batch the cache holds no games for is logged and writes none.
Batch ==
    /\ Does("batch") /\ ~Skipped /\ ~writing
    /\ cache.games[Of] \notin {"none", "torn"} \/ Of[1] = "nfl"
    /\ <<"ingestion_log", "">> \in schema
    /\ IF cache.games[Of] \in {"none", "empty"} THEN DataUnchanged
       ELSE /\ db' = [db EXCEPT !.games = @ \cup {Of}, !.teams = @ \cup {Of[1]}]
            /\ old' = old \ {Of}
            /\ fresh' = IF Of \in db.games \ old THEN fresh ELSE fresh \ Affected(Of[1], Of[2])
    /\ Advance(FALSE) /\ UNCHANGED cache
BatchSkipped == Skipped /\ Advance(FALSE) /\ UNCHANGED cache /\ DataUnchanged
\* json.load raises, and main catches CFBDClientError only.
BatchTorn == BatchDue("torn") /\ Of[1] = "cfb" /\ Break
\* The other process has dropped ingestion_log and not created it again.
BatchFails == Does("batch") /\ ~writing /\ <<"ingestion_log", "">> \notin schema /\ Fail

\* enrich_team_aliases updates the teams there are.
Enrich == /\ Does("enrich") /\ ~writing /\ cache.teams = "full"
          /\ db' = [db EXCEPT !.mascots = @ \/ "cfb" \in db.teams]
          /\ Advance(FALSE) /\ UNCHANGED <<cache, old, fresh>>
EnrichTorn == Does("enrich") /\ ~writing /\ cache.teams = "torn" /\ Break

\* _ingest_year: a season needs its games, and then its stats file.
SeasonStats == /\ Does("stats") /\ HasGames("nfl", Of[1])
               /\ cache' = [cache EXCEPT !.stats = @ \cup {Of[1]}]
               /\ db' = [db EXCEPT !.player_season_stats = @ \cup {Of[1]}]
               /\ Advance(FALSE) /\ UNCHANGED <<old, fresh>>
SeasonStatsFails == /\ Does("stats")
                    /\ ~HasGames("nfl", Of[1]) \/ Of[1] \notin cache.stats
                    /\ FetchFails

\* compute_and_store replaces the season's rows; without games, by none.
RateSeason == /\ Does("rate")
              /\ IF HasGames(Of[1], Of[2])
                 THEN db' = [db EXCEPT !.ratings = @ \cup {Of}] /\ fresh' = fresh \cup {Of}
                 ELSE db' = [db EXCEPT !.ratings = @ \ {Of}] /\ fresh' = fresh \ {Of}
              /\ Advance(FALSE) /\ UNCHANGED <<cache, old>>
StoreLedger == /\ Does("ledger")
               /\ LET rows(S) == IF HasGames(Of[1], Of[2]) THEN S \cup {Of} ELSE S \ {Of}
                  IN  db' = [db EXCEPT !.elo_ledger_configs = rows(@), !.elo_ledger_steps = rows(@)]
               /\ Advance(FALSE) /\ UNCHANGED <<cache, old, fresh>>

Examine == /\ Does("doctor")
           /\ Exit(IsCurrent(db, schema, cache))
           /\ collided' = (collided \/ ~(Log \subseteq schema))
           /\ UNCHANGED cache /\ DataUnchanged

\* Ctrl-C, a build timeout: the open transaction is rolled back.
Kill == /\ cmd # 0
        /\ CloseFile /\ UNCHANGED schema
        /\ cmd' = 0 /\ unit' = 0 /\ writing' = FALSE /\ errors' = FALSE /\ last' = "none"
        /\ UNCHANGED <<chained, types, cache, collided, jobs, pulls>> /\ DataUnchanged

\* Another process opens the same file, and may die.  Where there is nothing to
\* add its opening changes nothing and is left out; it opens while the first job does.
Other == /\ \E p \in Procs \ {"job"} :
                /\ SchemaStep(p) \/ Die(p)
                /\ at[p] = 0 => jobs = 1 /\ unit = 1 /\ ~(Reference \subseteq schema)
         /\ UNCHANGED <<cache, jobVars, last, collided, jobs, pulls>> /\ DataUnchanged

JobStep ==
    \/ OpenCurrent \/ Migrate \/ OpenFails \/ OpenDone
    \/ FetchBatch \/ BatchFetched \/ FetchBatchFails
    \/ FetchTeams \/ TeamsFetched \/ FetchTeamsFails
    \/ FetchCsv \/ CsvFetched \/ FetchCsvFails \/ CsvThere
    \/ Roster \/ FetchRosterFails
    \/ Batch \/ BatchSkipped \/ BatchTorn \/ BatchFails \/ Enrich \/ EnrichTorn
    \/ SeasonStats \/ SeasonStatsFails \/ RateSeason \/ StoreLedger \/ Examine
Next == StartBuild \/ StartAlone \/ JobStep \/ Kill \/ Pull \/ Other

Spec == Init /\ [][Next]_vars

---------------------------------------------------------------------------
(* Properties *)

\* Once a build has ended with exit code 0 the database is what the committed
\* cache makes: the schema is the present one, every cached batch of both leagues
\* is stored by this build, every season with games is rated by every method from
\* the games now stored, with its ledger and its player stats -- whatever file it
\* started from, after any killed builds, and beside another process that opens
\* the file.
GreenBuildIsWhole ==
    last = "green" =>
        /\ Reference \ Log \subseteq schema
        /\ \A l \in Leagues : \A p \in CachedPairs(cache, l) : <<l, p[1], p[2]>> \in db.games \ old
        /\ \A b \in db.games, m \in Methods : <<b[1], b[2], m>> \in fresh
        /\ \A b \in db.games : /\ <<b[1], b[2]>> \in db.elo_ledger_steps
                               /\ b[1] = "nfl" => b[2] \in db.player_season_stats
        /\ db.mascots

\* A build from a whole cache fails only if another process's migration broke
\* one of its steps: the doctor finds no fault with what the commands before it
\* build.
Whole == /\ cache.csv = "rows" /\ cache.teams = "full" /\ cache.roster /\ cache.stats = Seasons
         /\ \A b \in Batches : cache.games[b] = "full"
         /\ \A l \in Leagues : FinishedBeyond(cache, l) = {}
RedHasACause == last = "red" => collided \/ ~Whole

\* list_available_years, of a file that is not refused: the years of the page's
\* picker, for a league and a method.
AvailableYears(l, m) == {s \in Seasons : <<l, s, m>> \in RowsOf(db, schema, "ratings")}

\* What the evidence layer refuses to read as a stale database, the doctor reports,
\* and so it does a picker that is empty or lacks a season whose games are stored:
\* from a database it calls current both leagues are served, by every method.
RefusedIsReported ==
    IsCurrent(db, schema, cache) =>
        /\ ~Refused(schema)
        /\ \A l \in Leagues, m \in Methods : AvailableYears(l, m) # {}
        /\ \A b \in db.games, m \in Methods : b[2] \in AvailableYears(b[1], m)

\* "Pairs, not bare seasons: a db built mid-season without the postseason has the
\* season but not its champion" (currency.py): a database the doctor calls current
\* holds every batch of the cache.
CurrentHasEveryBatch ==
    cmd = 0 /\ IsCurrent(db, schema, cache) =>
        \A l \in Leagues : \A p \in CachedPairs(cache, l) : <<l, p[1], p[2]>> \in db.games
=============================================================================
