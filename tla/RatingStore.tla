---------------------------- MODULE RatingStore ----------------------------
(***************************************************************************)
(* cfb_strength.ratings.compute_ratings: how `cfb rate` fills the three    *)
(* rating tables of the SQLite database for one sport.                     *)
(*                                                                         *)
(* compute_and_store reads the games, rates them, and writes ratings,      *)
(* rating_breakdowns and the Elo ledger, each in a transaction of its own. *)
(* A run goes through a range of years; another run, or an ingest, may     *)
(* commit between any two of its statements, and any run may die.          *)
(*                                                                         *)
(* A rating is abstracted to what it was computed from: the versions of    *)
(* the seasons the method read, and of the classifications that chose and  *)
(* ranked the displayed teams.                                             *)
(***************************************************************************)
EXTENDS Integers

CONSTANTS
    Jobs,           \* concurrent invocations of `cfb rate`
    Methods,        \* the methods rated, among those of METHODS
    LastYear,       \* seasons are 1..LastYear
    MaxVersion,     \* bound: how often a season is ingested or corrected
    None

Years == 1..LastYear
Keys == Methods \X Years
Tables == {"ratings", "breakdowns", "ledger"}

ASSUME YearAssumption == LastYear \in Nat \ {0} /\ MaxVersion \in Nat \ {0}
ASSUME MethodAssumption == Methods \subseteq {"keener", "elo", "elo_career"}

\* The tables a method has rows for; it leaves the others empty.
Fills(m) ==
    {"ratings"} \cup (IF m = "keener" THEN {"breakdowns"} ELSE {})
                \cup (IF m = "elo" THEN {"ledger"} ELSE {})

VARIABLES
    games,      \* games[y]: the version of season y in the db, 0 if none
    stored,     \* stored[t][k]: the walk behind table t's rows for key k
    pc,         \* where each job is in compute_and_store
    job,        \* the job's arguments and its current year
    walk,       \* the ratings the job holds in memory
    quiet,      \* history: nobody else has written since the job started
    alone,      \* history: nobody else has been storing the job's key
    torn        \* history: keys whose last store was cut short or overlapped

vars == <<games, stored, pc, job, walk, quiet, alone, torn>>

\* Mutant: season < year in place of season <= year.
HistoryBefore(m, y) == IF m = "elo_career" THEN 1..(y - 1) ELSE {y}

\* _load_games: season = ?, or season <= ? for a career method.
History(m, y) == IF m = "elo_career" THEN 1..y ELSE {y}

Walk ==
    [games : UNION {[H -> 0..MaxVersion] : H \in SUBSET Years}, fbs : 0..MaxVersion]

Job == [method : Methods, first : Years, year : Years, last : Years]

ASSUME NoneAssumption == None \notin Walk /\ None \notin Job

Steps == {"idle", "load", "rank", "ratings", "breakdowns", "ledger"}

Key(j) == <<job[j].method, job[j].year>>
Storing(j) == pc[j] \in {"breakdowns", "ledger"}
Others(j) == Jobs \ {j}

Init ==
    /\ games \in [Years -> {0, 1}]
    /\ stored = [t \in Tables |-> [k \in Keys |-> None]]
    /\ pc = [j \in Jobs |-> "idle"]
    /\ job = [j \in Jobs |-> None]
    /\ walk = [j \in Jobs |-> None]
    /\ quiet = [j \in Jobs |-> FALSE]
    /\ alone = [j \in Jobs |-> FALSE]
    /\ torn = {}

Goto(j, step) == pc' = [pc EXCEPT ![j] = step]
Disturb(jobs) == quiet' = [j \in Jobs |-> quiet[j] /\ j \notin jobs]

-----------------------------------------------------------------------------
\* An ingest commits games, with their team_season rows, for a season.
Ingest(y) ==
    /\ games[y] < MaxVersion
    /\ games' = [games EXCEPT ![y] = @ + 1]
    /\ Disturb(Jobs)
    /\ UNCHANGED <<stored, pc, job, walk, alone, torn>>

\* main(): --years first-last --method m.
Start(j) ==
    /\ pc[j] = "idle"
    /\ \E m \in Methods : \E first \in Years : \E last \in first..LastYear :
          job' = [job EXCEPT ![j] =
                    [method |-> m, first |-> first, year |-> first, last |-> last]]
    /\ quiet' = [quiet EXCEPT ![j] = \A i \in Others(j) : pc[i] = "idle"]
    /\ Goto(j, "load")
    /\ UNCHANGED <<games, stored, walk, alone, torn>>

\* _load_games and rate / rate_through, in one SELECT.  {} when the season has
\* no games, whatever the seasons before it hold.  A career's SELECT
\* of the teams its lineage names (Elo.FranchiseSuccessors) is taken with this one.
LoadGames(j) ==
    /\ pc[j] = "load"
    /\ LET m == job[j].method
           y == job[j].year
       IN  walk' = [walk EXCEPT ![j] =
                      IF games[y] = 0 THEN None
                      ELSE [games |-> [x \in History(m, y) |-> games[x]], fbs |-> 0]]
    /\ Goto(j, IF games[job[j].year] = 0 THEN "ratings" ELSE "rank")
    /\ UNCHANGED <<games, stored, job, quiet, alone, torn>>

\* _fbs_team_ids, another SELECT, then _rerank_for_display.
Rank(j) ==
    /\ pc[j] = "rank"
    /\ walk' = [walk EXCEPT ![j].fbs = games[job[j].year]]
    /\ Goto(j, "ratings")
    /\ UNCHANGED <<games, stored, job, quiet, alone, torn>>

\* Mutant: an old ledger is deleted only when there is a new one.
ReplaceLedgerIfAny(j, t) ==
    IF t = "ledger" /\ walk[j] = None THEN UNCHANGED stored
    ELSE stored' = [stored EXCEPT ![t][Key(j)] =
                      IF t \in Fills(job[j].method) THEN walk[j] ELSE None]

\* Delete-then-insert of one table's rows for the job's key, committed.
Replace(j, t) ==
    stored' = [stored EXCEPT ![t][Key(j)] =
                 IF t \in Fills(job[j].method) THEN walk[j] ELSE None]

StoreRatings(j) ==
    /\ pc[j] = "ratings"
    /\ Replace(j, "ratings")
    /\ Goto(j, "breakdowns")
    /\ alone' = [i \in Jobs |->
                   IF i = j THEN \A o \in Others(j) : ~(Storing(o) /\ Key(o) = Key(j))
                   ELSE alone[i] /\ ~(Storing(i) /\ Key(i) = Key(j))]
    /\ torn' = torn \cup {Key(j)}
    /\ Disturb(Others(j))
    /\ UNCHANGED <<games, job, walk>>

StoreBreakdowns(j) ==
    /\ pc[j] = "breakdowns"
    /\ Replace(j, "breakdowns")
    /\ Goto(j, "ledger")
    /\ Disturb(Others(j))
    /\ UNCHANGED <<games, job, walk, alone, torn>>

\* for year in years: compute_and_store(...)
NextYear(j) ==
    IF job[j].year < job[j].last
    THEN job' = [job EXCEPT ![j].year = @ + 1] /\ Goto(j, "load")
    ELSE Goto(j, "idle") /\ UNCHANGED job

\* The last table of the year.
StoreLedgers(j) ==
    /\ pc[j] = "ledger"
    /\ Replace(j, "ledger")
    /\ torn' = IF alone[j] THEN torn \ {Key(j)} ELSE torn
    /\ NextYear(j)
    /\ walk' = [walk EXCEPT ![j] = None]
    /\ Disturb(Others(j))
    /\ UNCHANGED <<games, alone>>

\* The process is killed, or an exception ends main(): "database is locked", a
\* Keener solve that does not converge, Elo ledgers that disagree.
Die(j) ==
    /\ pc[j] # "idle"
    /\ Goto(j, "idle")
    /\ walk' = [walk EXCEPT ![j] = None]
    /\ UNCHANGED <<games, stored, job, quiet, alone, torn>>

Next ==
    \/ \E y \in Years : Ingest(y)
    \/ \E j \in Jobs :
          \/ Start(j) \/ LoadGames(j) \/ Rank(j)
          \/ StoreRatings(j) \/ StoreBreakdowns(j) \/ StoreLedgers(j)
          \/ Die(j)

Spec == Init /\ [][Next]_vars

-----------------------------------------------------------------------------
(***************************************************************************)
(* Properties                                                              *)
(***************************************************************************)

TypeOK ==
    /\ games \in [Years -> 0..MaxVersion]
    /\ stored \in [Tables -> [Keys -> Walk \cup {None}]]
    /\ pc \in [Jobs -> Steps]
    /\ job \in [Jobs -> Job \cup {None}]
    /\ walk \in [Jobs -> Walk \cup {None}]
    /\ quiet \in [Jobs -> BOOLEAN]
    /\ alone \in [Jobs -> BOOLEAN]
    /\ torn \in SUBSET Keys

\* The three tables say the same about key k: the breakdown adds up to the
\* rating beside it, and the ledger ends at it.
Whole(k) ==
    \A t \in Tables :
        stored[t][k] = IF t \in Fills(k[1]) THEN stored["ratings"][k] ELSE None

\* A rating is served with its own breakdown and its own ledger, unless the
\* last run over that season was cut short or ran into another run over it;
\* any later run that gets through repairs it.
WholeUnlessTorn == \A k \in Keys \ torn : Whole(k)

\* "Everything runs inside one transaction per year so a failure partway
\* through a year does not leave that year's ratings rows half-deleted or
\* half-written": with no run in progress, every season is whole.
OneTransactionPerYear ==
    (\A j \in Jobs : pc[j] = "idle") => \A k \in Keys : Whole(k)

\* What a run that read the database as it is now would store for key k.
UpToDate(k) ==
    LET m == k[1]
        y == k[2]
    IN  IF games[y] = 0 THEN None
        ELSE [games |-> [x \in {z \in Years : z = y \/ (m = "elo_career" /\ z < y)} |-> games[x]],
              fbs |-> games[y]]

\* A run over a range of years that nothing else wrote beside leaves every
\* season of the range rated from the games the database holds, the careers
\* included, whatever earlier runs, corrections and crashes had left there.
RangeIsUpToDate ==
    [][\A j \in Jobs :
          StoreLedgers(j) /\ quiet[j] /\ job[j].year = job[j].last =>
              \A y \in job[j].first..job[j].last :
                  LET k == <<job[j].method, y>> IN
                      /\ stored'["ratings"][k] = UpToDate(k)
                      /\ Whole(k)']_vars
=============================================================================
