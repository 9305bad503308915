---------------------------- MODULE SeasonIngest ----------------------------
(***************************************************************************)
(* `cfb ingest` for one league: ingest/ingest_season.py (CFBD, college)    *)
(* and ingest/nflverse/ingest_season.py (NFL).  A run goes through batches *)
(* (year, season type) over one SQLite connection, whose first write of a  *)
(* batch opens an implicit transaction that the batch's commit ends.       *)
(*                                                                         *)
(* The two leagues share the loop and differ in what they catch: a batch   *)
(* that fails is reported and passed over, with no rollback; whatever else *)
(* is raised ends the run, and closing the connection drops what is open.  *)
(*                                                                         *)
(* A game row is abstracted to the version of the source it came from.     *)
(***************************************************************************)
EXTENDS Integers

CONSTANTS
    Runs,           \* processes running the ingest
    Leagues,        \* the leagues checked, among "cfb" and "nfl"
    LastBatch,      \* the batches of a request are 1..LastBatch, in order
    Games, Teams,
    BatchOf,        \* the batch each game belongs to
    TeamsOf,        \* the two teams of each game
    MaxVersion,     \* bound: versions of a game the source may publish
    None

Batches == 1..LastBatch
Seasons == 1..LastBatch

\* The alias enrichment, in the run's list of failures.
Aliases == 0

\* Two batches, regular and postseason, to a year.
SeasonOf(b) == (b + 1) \div 2

ASSUME BatchAssumption == LastBatch \in Nat \ {0} /\ MaxVersion \in Nat \ {0}
ASSUME LeagueAssumption == Leagues \subseteq {"cfb", "nfl"}
ASSUME GameAssumption ==
    BatchOf \in [Games -> Batches] /\ TeamsOf \in [Games -> SUBSET Teams]

\* What a source, or a table, holds of every game; 0 for nothing.
Contents == [Games -> 0..MaxVersion]
Nothing == [g \in Games |-> 0]

VARIABLES
    league,     \* the league ingested
    disk,       \* the committed rows: teams, games, and the log's batches
    lock,       \* the run whose transaction is open, or None
    open,       \* the rows written in each run's open transaction
    pc, batch,  \* where each run is
    payload,    \* what the run holds of the source
    done,       \* results: the batches reported ingested
    failed,     \* hard_errors: the batches, or Aliases, reported failed
    outcome,    \* how the run last ended
    ingested    \* history: each game as the last logged batch that named it read it

vars == <<league, disk, lock, open, pc, batch, payload, done, failed, outcome, ingested>>

Steps == {"idle", "fetch", "teams", "games", "log", "aliases", "close"}
Outcomes == {"none", "ok", "degraded", "raised", "dberror", "killed"}

ASSUME NoneAssumption == None \notin Runs /\ None \notin Contents

NoRows == [teams |-> {}, games |-> Nothing]

Init ==
    /\ league \in Leagues
    /\ disk = [teams |-> {}, games |-> Nothing, log |-> [b \in Batches |-> None]]
    /\ lock = None
    /\ open = [r \in Runs |-> NoRows]
    /\ pc = [r \in Runs |-> "idle"]
    /\ batch = [r \in Runs |-> 1]
    /\ payload = [r \in Runs |-> Nothing]
    /\ done = [r \in Runs |-> {}]
    /\ failed = [r \in Runs |-> {}]
    /\ outcome = [r \in Runs |-> "none"]
    /\ ingested = Nothing

-----------------------------------------------------------------------------
\* The rows a batch makes of what the run holds of the source.
BatchGames(r) == {g \in Games : BatchOf[g] = batch[r] /\ payload[r][g] # 0}
TeamRows(r) == {<<t, SeasonOf(batch[r])>> : t \in UNION {TeamsOf[g] : g \in BatchGames(r)}}
GameRows(r) == [g \in Games |-> IF g \in BatchGames(r) THEN payload[r][g] ELSE 0]

\* INSERT ... ON CONFLICT DO UPDATE: rows the batch does not name stay.
Upsert(table, rows) == [g \in Games |-> IF rows[g] = 0 THEN table[g] ELSE rows[g]]

Goto(r, step) == pc' = [pc EXCEPT ![r] = step]

\* A statement that writes rows needs the database's one write lock; a run
\* waits for it, or gets "database is locked", which is DbError.
Writes(r, rows) ==
    IF rows = {} THEN UNCHANGED lock ELSE lock \in {None, r} /\ lock' = r

\* The transaction ends, committed or dropped with the connection.
EndTransaction(r) ==
    /\ open' = [open EXCEPT ![r] = NoRows]
    /\ lock' = IF lock = r THEN None ELSE lock

\* for year in years: for season_type in season_types.
NextBatch(r) ==
    IF batch[r] < LastBatch
    THEN batch' = [batch EXCEPT ![r] = @ + 1] /\ Goto(r, "fetch")
    ELSE Goto(r, IF league = "cfb" THEN "aliases" ELSE "close") /\ UNCHANGED batch

\* A caught error: the batch is reported, and nothing is rolled back.
PassOver(r) ==
    /\ failed' = [failed EXCEPT ![r] = @ \cup {batch[r]}]
    /\ NextBatch(r)
    /\ UNCHANGED <<league, disk, lock, open, payload, done, outcome, ingested>>

\* The connection is closed by the finally clause, or with the process, and
\* what the run held in memory is gone.
End(r, how) ==
    /\ EndTransaction(r)
    /\ Goto(r, "idle")
    /\ outcome' = [outcome EXCEPT ![r] = how]
    /\ payload' = [payload EXCEPT ![r] = Nothing]
    /\ UNCHANGED <<league, disk, batch, done, failed, ingested>>

-----------------------------------------------------------------------------
\* A run starts.  The NFL files hold every season and are read once, first.
Start(r) ==
    /\ pc[r] = "idle"
    /\ Goto(r, "fetch")
    /\ batch' = [batch EXCEPT ![r] = 1]
    /\ \E c \in Contents :
          /\ league = "cfb" => c = Nothing
          /\ payload' = [payload EXCEPT ![r] = c]
    /\ done' = [done EXCEPT ![r] = {}]
    /\ failed' = [failed EXCEPT ![r] = {}]
    /\ outcome' = [outcome EXCEPT ![r] = "none"]
    /\ UNCHANGED <<league, disk, lock, open, ingested>>

\* NflverseClientError on either file: no connection is opened.
StartFails(r) ==
    /\ pc[r] = "idle"
    /\ league = "nfl"
    /\ outcome' = [outcome EXCEPT ![r] = "degraded"]
    /\ done' = [done EXCEPT ![r] = {}]
    /\ failed' = [failed EXCEPT ![r] = {}]
    /\ UNCHANGED <<league, disk, lock, open, pc, batch, payload, ingested>>

\* College: get_games, for the batch alone, from the cache or live; then the
\* committed correction lists.  NFL: the batch is filtered out of the files.
Fetch(r) ==
    /\ pc[r] = "fetch"
    /\ \E c \in Contents :
          /\ IF league = "nfl" THEN c = payload[r]
             ELSE \A g \in Games : BatchOf[g] # batch[r] => c[g] = 0
          /\ payload' = [payload EXCEPT ![r] = c]
    /\ Goto(r, "teams")
    /\ UNCHANGED <<league, disk, lock, open, batch, done, failed, outcome, ingested>>

\* Mutant: a batch that fails is not reported.
FetchFailsUnreported(r) ==
    /\ pc[r] = "fetch"
    /\ NextBatch(r)
    /\ UNCHANGED <<league, disk, lock, open, payload, done, failed, outcome, ingested>>

\* CFBDClientError; NFL: a ValueError or KeyError of the normalisation, or of
\* the guard _write_teams starts with.
FetchFails(r) ==
    /\ pc[r] = "fetch"
    /\ PassOver(r)

\* College only: an unreadable cache file, or a correction list that does not
\* match its batch, is a ValueError, which main does not catch.
ListMismatch(r) ==
    /\ pc[r] = "fetch"
    /\ league = "cfb"
    /\ End(r, "raised")

\* _write_teams: teams and team_season.
WriteTeams(r) ==
    /\ pc[r] = "teams"
    /\ Writes(r, TeamRows(r))
    /\ open' = [open EXCEPT ![r].teams = @ \cup TeamRows(r)]
    /\ Goto(r, "games")
    /\ UNCHANGED <<league, disk, batch, payload, done, failed, outcome, ingested>>

\* Mutant: the guard comes after the inserts.
CollisionAfterInserts(r) ==
    /\ pc[r] = "games"
    /\ league = "nfl"
    /\ open' = [open EXCEPT ![r].games = Upsert(@, GameRows(r))]
    /\ failed' = [failed EXCEPT ![r] = @ \cup {batch[r]}]
    /\ NextBatch(r)
    /\ UNCHANGED <<league, disk, lock, payload, done, outcome, ingested>>

\* NFL only: the guard _write_games starts with finds a surrogate id minted
\* for two games.  The batch's teams are written, and stay in the transaction.
Collision(r) ==
    /\ pc[r] = "games"
    /\ league = "nfl"
    /\ PassOver(r)

\* Mutant: the games are committed before the log.
WriteGamesCommitted(r) ==
    /\ pc[r] = "games"
    /\ Writes(r, BatchGames(r))
    /\ disk' = [disk EXCEPT !.games = Upsert(@, GameRows(r))]
    /\ ingested' = Upsert(ingested, GameRows(r))
    /\ Goto(r, "log")
    /\ UNCHANGED <<league, open, batch, payload, done, failed, outcome>>

WriteGames(r) ==
    /\ pc[r] = "games"
    /\ Writes(r, BatchGames(r))
    /\ open' = [open EXCEPT ![r].games = Upsert(@, GameRows(r))]
    /\ Goto(r, "log")
    /\ UNCHANGED <<league, disk, batch, payload, done, failed, outcome, ingested>>

\* _write_ingestion_log, and the commit of everything the transaction holds.
WriteLog(r) ==
    /\ pc[r] = "log"
    /\ lock \in {None, r}
    /\ disk' = [teams |-> disk.teams \cup open[r].teams,
                games |-> Upsert(disk.games, open[r].games),
                log   |-> [disk.log EXCEPT ![batch[r]] = GameRows(r)]]
    /\ EndTransaction(r)
    /\ done' = [done EXCEPT ![r] = @ \cup {batch[r]}]
    /\ ingested' = Upsert(ingested, GameRows(r))
    /\ NextBatch(r)
    /\ UNCHANGED <<league, payload, failed, outcome>>

\* sqlite3.Error ("database is locked", a full disk) is caught nowhere.
DbError(r) ==
    /\ pc[r] \in {"teams", "games", "log", "aliases"}
    /\ End(r, "dberror")

\* College only: enrich_team_aliases, once, in a transaction of its own; the
\* aliases themselves are not modelled.
Enrich(r) ==
    /\ pc[r] = "aliases"
    /\ lock \in {None, r}
    /\ Goto(r, "close")
    /\ UNCHANGED <<league, disk, lock, open, batch, payload, done, failed, outcome, ingested>>

\* CFBDClientError or TeamAliasOverrideError.
EnrichFails(r) ==
    /\ pc[r] = "aliases"
    /\ failed' = [failed EXCEPT ![r] = @ \cup {Aliases}]
    /\ Goto(r, "close")
    /\ UNCHANGED <<league, disk, lock, open, batch, payload, done, outcome, ingested>>

\* The exit code: 0 when something was ingested and nothing failed.
Close(r) ==
    /\ pc[r] = "close"
    /\ End(r, IF done[r] # {} /\ failed[r] = {} THEN "ok" ELSE "degraded")

\* The process is killed.
Die(r) ==
    /\ pc[r] # "idle"
    /\ End(r, "killed")

RunStep(r) ==
    \/ Start(r) \/ StartFails(r)
    \/ Fetch(r) \/ FetchFails(r) \/ ListMismatch(r)
    \/ WriteTeams(r) \/ Collision(r) \/ WriteGames(r) \/ WriteLog(r)
    \/ DbError(r)
    \/ Enrich(r) \/ EnrichFails(r)
    \/ Close(r) \/ Die(r)

Next == \E r \in Runs : RunStep(r)

Spec == Init /\ [][Next]_vars

-----------------------------------------------------------------------------
(***************************************************************************)
(* Properties                                                              *)
(***************************************************************************)

Rows == [teams : SUBSET (Teams \X Seasons), games : Contents]

TypeOK ==
    /\ league \in Leagues
    /\ disk \in [teams : SUBSET (Teams \X Seasons), games : Contents,
                 log : [Batches -> Contents \cup {None}]]
    /\ lock \in Runs \cup {None}
    /\ open \in [Runs -> Rows]
    /\ pc \in [Runs -> Steps]
    /\ batch \in [Runs -> Batches]
    /\ payload \in [Runs -> Contents]
    /\ done \in [Runs -> SUBSET Batches]
    /\ failed \in [Runs -> SUBSET (Batches \cup {Aliases})]
    /\ outcome \in [Runs -> Outcomes]
    /\ ingested \in Contents

\* A batch in ingestion_log is there whole, whatever runs overlapped or died:
\* every game its last logged ingest read is there as that ingest read it; any
\* other game of the batch is a leftover, for an upsert deletes nothing, and is as
\* the last logged ingest that still named it read it; and the teams of them all
\* have their team_season rows, which the ratings need.
LoggedBatchesAreWhole ==
    \A b \in Batches : disk.log[b] # None =>
        \A g \in {x \in Games : BatchOf[x] = b} :
            /\ disk.games[g] = IF disk.log[b][g] # 0 THEN disk.log[b][g] ELSE ingested[g]
            /\ disk.games[g] # 0 => \A t \in TeamsOf[g] : <<t, SeasonOf(b)>> \in disk.teams

\* A failed batch is passed over without a rollback, and the transaction it
\* left open is committed with the next batch.  Its games never are: every
\* game in the database is as a batch that went in whole wrote it, none is
\* overwritten by one that failed, and its batch is logged.
FailedBatchesStoreNoGames ==
    /\ disk.games = ingested
    /\ \A g \in Games : disk.games[g] # 0 => disk.log[BatchOf[g]] # None

\* Exit code 0: every batch asked for was ingested by this run, and is logged.
SuccessMeansStored ==
    \A r \in Runs : outcome[r] = "ok" =>
        /\ done[r] = Batches
        /\ \A b \in Batches : disk.log[b] # None
=============================================================================
