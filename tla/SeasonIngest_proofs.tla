------------------------ MODULE SeasonIngest_proofs ------------------------
(***************************************************************************)
(* Proofs about SeasonIngest, for every set of runs, games and teams and   *)
(* any number of batches.                                                  *)
(*                                                                         *)
(* The argument: the rows of a batch and its line of the log reach the     *)
(* disk in one step, WriteLog, so it is enough to know what a run's open   *)
(* transaction holds when it gets there.  SQLite's lock plays no part.     *)
(***************************************************************************)
EXTENDS SeasonIngest, TLAPS

InBatch == {"fetch", "teams", "games", "log"}

\* The batches run r has been through.
Reached(r) == IF pc[r] \in InBatch THEN 1..(batch[r] - 1)
              ELSE IF pc[r] = "idle" THEN {} ELSE Batches

\* An open transaction holds games only of the batch about to be logged, and
\* that batch's teams; what a run has been through it has reported, and what it
\* reports ingested is logged.
RunIsSound(r) ==
    /\ open[r].games = IF pc[r] = "log" THEN GameRows(r) ELSE Nothing
    /\ pc[r] \in {"games", "log"} => TeamRows(r) \subseteq open[r].teams
    /\ Reached(r) \subseteq done[r] \cup failed[r]
    /\ \A b \in done[r] : disk.log[b] # None
    /\ outcome[r] = "ok" => done[r] = Batches

LogsHoldTheirBatch ==
    \A b \in Batches : disk.log[b] # None =>
        \A g \in Games : disk.log[b][g] # 0 => BatchOf[g] = b

IInv ==
    /\ TypeOK
    /\ \A r \in Runs : RunIsSound(r)
    /\ LogsHoldTheirBatch
    /\ LoggedBatchesAreWhole
    /\ FailedBatchesStoreNoGames

-----------------------------------------------------------------------------
LEMMA NothingIsContents == Nothing \in Contents
BY BatchAssumption DEF Nothing, Contents

LEMMA SeasonsOfBatches == \A b \in Batches : SeasonOf(b) \in Seasons
BY BatchAssumption DEF Batches, Seasons, SeasonOf

LEMMA LoggedIsSomething == \A c \in Contents : c # None
BY NoneAssumption

\* What a batch makes of the source is of the tables' types.
LEMMA RowsHaveTypes ==
    ASSUME TypeOK, NEW r \in Runs
    PROVE  /\ GameRows(r) \in Contents
           /\ TeamRows(r) \subseteq Teams \X Seasons
<1>1. payload[r] \in [Games -> 0..MaxVersion] /\ batch[r] \in Batches
  BY DEF TypeOK, Contents
<1>2. GameRows(r) \in Contents
  BY <1>1, BatchAssumption DEF GameRows, Contents
<1>3. UNION {TeamsOf[g] : g \in BatchGames(r)} \subseteq Teams
  BY GameAssumption DEF BatchGames
<1>4. TeamRows(r) \subseteq Teams \X Seasons
  BY <1>1, <1>3, SeasonsOfBatches DEF TeamRows
<1> QED
  BY <1>2, <1>4

LEMMA UpsertHasType ==
    ASSUME NEW table \in Contents, NEW rows \in Contents
    PROVE  Upsert(table, rows) \in Contents
BY DEF Upsert, Contents

\* A run none of whose variables a step changes is as sound as it was.
LEMMA OtherRunsStaySound ==
    ASSUME NEW q \in Runs, RunIsSound(q),
           pc'[q] = pc[q], batch'[q] = batch[q], payload'[q] = payload[q],
           open'[q] = open[q], done'[q] = done[q], failed'[q] = failed[q],
           outcome'[q] = outcome[q],
           \A b \in done[q] : disk'.log[b] # None
    PROVE  RunIsSound(q)'
<1>1. GameRows(q)' = GameRows(q) /\ TeamRows(q)' = TeamRows(q)
  BY DEF GameRows, TeamRows, BatchGames
<1>2. Reached(q)' = Reached(q)
  BY DEF Reached
<1> QED
  BY <1>1, <1>2 DEF RunIsSound

\* A step that commits nothing keeps what is said of the disk.
LEMMA UncommittedStep ==
    ASSUME IInv, UNCHANGED <<disk, ingested>>, TypeOK', NEW r \in Runs, RunIsSound(r)',
           \A q \in Runs \ {r} :
              /\ pc'[q] = pc[q] /\ batch'[q] = batch[q] /\ payload'[q] = payload[q]
              /\ open'[q] = open[q] /\ done'[q] = done[q] /\ failed'[q] = failed[q]
              /\ outcome'[q] = outcome[q]
    PROVE  IInv'
<1>1. \A q \in Runs : RunIsSound(q)'
  <2> TAKE q \in Runs
  <2>1. CASE q = r
    BY <2>1
  <2>2. CASE q # r
    <3>1. \A b \in done[q] : disk'.log[b] # None
      BY DEF IInv, RunIsSound
    <3> QED
      BY <2>2, <3>1, OtherRunsStaySound DEF IInv
  <2> QED
    BY <2>1, <2>2
<1>2. LogsHoldTheirBatch' /\ LoggedBatchesAreWhole' /\ FailedBatchesStoreNoGames'
  BY DEF IInv, LogsHoldTheirBatch, LoggedBatchesAreWhole, FailedBatchesStoreNoGames
<1> QED
  BY <1>1, <1>2 DEF IInv

\* The loop's next turn: r is past the batch it was in, and in no other's way.
LEMMA NextBatchGoesOn ==
    ASSUME TypeOK, NEW r \in Runs, NextBatch(r), pc[r] \in InBatch
    PROVE  /\ pc' \in [Runs -> Steps] /\ batch' \in [Runs -> Batches]
           /\ pc'[r] \notin {"teams", "games", "log", "idle"}
           /\ Reached(r)' \subseteq Reached(r) \cup {batch[r]}
           /\ \A q \in Runs \ {r} : pc'[q] = pc[q] /\ batch'[q] = batch[q]
<1>1. /\ batch \in [Runs -> Batches] /\ pc \in [Runs -> Steps]
      /\ batch[r] \in 1..LastBatch /\ LastBatch \in Nat
  BY BatchAssumption DEF TypeOK, Batches
<1>2. CASE batch[r] < LastBatch
  <2>1. batch' = [batch EXCEPT ![r] = batch[r] + 1] /\ pc' = [pc EXCEPT ![r] = "fetch"]
    BY <1>2 DEF NextBatch, Goto
  <2>2. batch[r] + 1 \in Batches
    BY <1>1, <1>2 DEF Batches
  <2>3. Reached(r)' = 1..batch[r] /\ Reached(r) = 1..(batch[r] - 1)
    BY <1>1, <2>1 DEF Reached, InBatch
  <2> QED
    BY <1>1, <2>1, <2>2, <2>3 DEF Steps
<1>3. CASE ~(batch[r] < LastBatch)
  <2> DEFINE next == IF league = "cfb" THEN "aliases" ELSE "close"
  <2>1. batch' = batch /\ pc' = [pc EXCEPT ![r] = next]
    BY <1>3 DEF NextBatch, Goto
  <2>2. next \in Steps \ {"teams", "games", "log", "idle", "fetch"}
    BY DEF Steps
  <2> HIDE DEF next
  <2>3. pc'[r] = next
    BY <1>1, <2>1
  <2>4. batch[r] = LastBatch
    BY <1>1, <1>3
  <2>5. Reached(r)' = 1..LastBatch /\ Reached(r) = 1..(LastBatch - 1)
    BY <2>2, <2>3, <2>4 DEF Reached, InBatch, Batches
  <2>6. Reached(r)' \subseteq Reached(r) \cup {batch[r]}
    BY <1>1, <2>4, <2>5
  <2>7. pc' \in [Runs -> Steps]
    BY <1>1, <2>1, <2>2
  <2> QED
    BY <1>1, <2>1, <2>2, <2>3, <2>6, <2>7
<1> QED
  BY <1>2, <1>3

-----------------------------------------------------------------------------
LEMMA InitEstablishesIInv == Init => IInv
<1> SUFFICES ASSUME Init PROVE IInv
  OBVIOUS
<1>1. 1 \in Batches
  BY BatchAssumption DEF Batches
<1>2. TypeOK
  BY <1>1, NothingIsContents DEF Init, TypeOK, Rows, NoRows, Steps, Outcomes
<1>3. \A r \in Runs : RunIsSound(r)
  BY DEF Init, RunIsSound, NoRows, Reached, InBatch
<1>4. LogsHoldTheirBatch /\ LoggedBatchesAreWhole
  BY DEF Init, LogsHoldTheirBatch, LoggedBatchesAreWhole
<1>5. FailedBatchesStoreNoGames
  BY DEF Init, FailedBatchesStoreNoGames, Nothing
<1> QED
  BY <1>2, <1>3, <1>4, <1>5 DEF IInv

\* The steps that end a run.
LEMMA EndKeepsIInv ==
    ASSUME IInv, NEW r \in Runs, NEW how \in Outcomes, End(r, how),
           how = "ok" => done[r] = Batches
    PROVE  IInv'
<1>1. /\ open' = [open EXCEPT ![r] = NoRows]
      /\ lock' = IF lock = r THEN None ELSE lock
      /\ pc' = [pc EXCEPT ![r] = "idle"]
      /\ outcome' = [outcome EXCEPT ![r] = how]
      /\ payload' = [payload EXCEPT ![r] = Nothing]
      /\ UNCHANGED <<league, disk, batch, done, failed, ingested>>
  BY DEF End, EndTransaction, Goto
<1>2. TypeOK
  BY DEF IInv
<1>3. NoRows \in Rows
  BY NothingIsContents DEF NoRows, Rows
<1>4. TypeOK'
  BY <1>1, <1>2, <1>3, NothingIsContents DEF TypeOK, Steps
<1>5. RunIsSound(r)'
  BY <1>1, <1>2 DEF IInv, TypeOK, RunIsSound, NoRows, Reached, InBatch
<1> QED
  BY <1>1, <1>2, <1>4, <1>5, UncommittedStep DEF TypeOK

LEMMA StartKeepsIInv ==
    ASSUME IInv, NEW r \in Runs, Start(r)
    PROVE  IInv'
<1>1. PICK c \in Contents : payload' = [payload EXCEPT ![r] = c]
  BY DEF Start
<1>2. /\ pc[r] = "idle"  /\ pc' = [pc EXCEPT ![r] = "fetch"]
      /\ batch' = [batch EXCEPT ![r] = 1]
      /\ done' = [done EXCEPT ![r] = {}]  /\ failed' = [failed EXCEPT ![r] = {}]
      /\ outcome' = [outcome EXCEPT ![r] = "none"]
      /\ UNCHANGED <<league, disk, lock, open, ingested>>
  BY DEF Start, Goto
<1>3. TypeOK /\ 1 \in Batches
  BY BatchAssumption DEF IInv, Batches
<1>4. TypeOK'
  BY <1>1, <1>2, <1>3 DEF TypeOK, Steps, Outcomes
<1>5. RunIsSound(r)'
  BY <1>2, <1>3 DEF IInv, TypeOK, RunIsSound, Reached, InBatch
<1> QED
  BY <1>1, <1>2, <1>3, <1>4, <1>5, UncommittedStep DEF TypeOK

LEMMA StartFailsKeepsIInv ==
    ASSUME IInv, NEW r \in Runs, StartFails(r)
    PROVE  IInv'
<1>1. /\ pc[r] = "idle"
      /\ done' = [done EXCEPT ![r] = {}]  /\ failed' = [failed EXCEPT ![r] = {}]
      /\ outcome' = [outcome EXCEPT ![r] = "degraded"]
      /\ UNCHANGED <<league, disk, lock, open, pc, batch, payload, ingested>>
  BY DEF StartFails
<1>2. TypeOK
  BY DEF IInv
<1>3. TypeOK'
  BY <1>1, <1>2 DEF TypeOK, Outcomes
<1>4. RunIsSound(r)'
  BY <1>1, <1>2 DEF IInv, TypeOK, RunIsSound, Reached, InBatch
<1> QED
  BY <1>1, <1>2, <1>3, <1>4, UncommittedStep DEF TypeOK

LEMMA FetchKeepsIInv ==
    ASSUME IInv, NEW r \in Runs, Fetch(r)
    PROVE  IInv'
<1>1. PICK c \in Contents : payload' = [payload EXCEPT ![r] = c]
  BY DEF Fetch
<1>2. /\ pc[r] = "fetch"  /\ pc' = [pc EXCEPT ![r] = "teams"]
      /\ UNCHANGED <<league, disk, lock, open, batch, done, failed, outcome, ingested>>
  BY DEF Fetch, Goto
<1>3. TypeOK
  BY DEF IInv
<1>4. TypeOK'
  BY <1>1, <1>2, <1>3 DEF TypeOK, Steps
<1>5. RunIsSound(r)'
  BY <1>2, <1>3 DEF IInv, TypeOK, RunIsSound, Reached, InBatch
<1> QED
  BY <1>1, <1>2, <1>3, <1>4, <1>5, UncommittedStep DEF TypeOK

\* A caught error, in the three places there is one; outside them the open
\* transaction holds no games, and the batch's are not in it yet.
LEMMA PassOverKeepsIInv ==
    ASSUME IInv, NEW r \in Runs, PassOver(r), pc[r] \in {"fetch", "games"}
    PROVE  IInv'
<1>1. /\ failed' = [failed EXCEPT ![r] = failed[r] \cup {batch[r]}]
      /\ NextBatch(r)
      /\ UNCHANGED <<league, disk, lock, open, payload, done, outcome, ingested>>
  BY DEF PassOver
<1>2. TypeOK /\ pc[r] \in InBatch /\ RunIsSound(r)
  BY DEF IInv, InBatch
<1>3. /\ pc' \in [Runs -> Steps] /\ batch' \in [Runs -> Batches]
      /\ pc'[r] \notin {"teams", "games", "log", "idle"}
      /\ Reached(r)' \subseteq Reached(r) \cup {batch[r]}
      /\ \A q \in Runs \ {r} : pc'[q] = pc[q] /\ batch'[q] = batch[q]
  BY <1>1, <1>2, NextBatchGoesOn
<1>4. TypeOK'
  BY <1>1, <1>2, <1>3 DEF TypeOK
<1>5. RunIsSound(r)'
  <2>1. failed'[r] = failed[r] \cup {batch[r]}
    BY <1>1, <1>2 DEF TypeOK
  <2> QED
    BY <1>1, <1>2, <1>3, <2>1 DEF RunIsSound
<1> QED
  BY <1>1, <1>2, <1>3, <1>4, <1>5, UncommittedStep DEF TypeOK

LEMMA WriteTeamsKeepsIInv ==
    ASSUME IInv, NEW r \in Runs, WriteTeams(r)
    PROVE  IInv'
<1> DEFINE rows == [open[r] EXCEPT !.teams = open[r].teams \cup TeamRows(r)]
<1>1. /\ pc[r] = "teams"  /\ pc' = [pc EXCEPT ![r] = "games"]
      /\ open' = [open EXCEPT ![r] = rows]
      /\ lock' \in {lock, r}
      /\ UNCHANGED <<league, disk, batch, payload, done, failed, outcome, ingested>>
  BY DEF WriteTeams, Goto, Writes
<1>2. TypeOK /\ open[r] \in Rows
  BY DEF IInv, TypeOK
<1>3. rows \in Rows /\ rows.games = open[r].games /\ TeamRows(r) \subseteq rows.teams
  BY <1>2, RowsHaveTypes DEF Rows
<1> HIDE DEF rows
<1>4. TypeOK'
  BY <1>1, <1>2, <1>3 DEF TypeOK, Steps
<1>5. RunIsSound(r)'
  <2>1. TeamRows(r)' = TeamRows(r) /\ open'[r] = rows /\ pc'[r] = "games"
    BY <1>1, <1>2 DEF TypeOK, TeamRows, BatchGames
  <2>2. Reached(r)' = Reached(r)
    BY <1>1, <2>1 DEF Reached, InBatch
  <2> QED
    BY <1>1, <1>3, <2>1, <2>2 DEF IInv, RunIsSound
<1> QED
  BY <1>1, <1>2, <1>4, <1>5, UncommittedStep DEF TypeOK

LEMMA WriteGamesKeepsIInv ==
    ASSUME IInv, NEW r \in Runs, WriteGames(r)
    PROVE  IInv'
<1> DEFINE rows == [open[r] EXCEPT !.games = Upsert(open[r].games, GameRows(r))]
<1>1. /\ pc[r] = "games"  /\ pc' = [pc EXCEPT ![r] = "log"]
      /\ open' = [open EXCEPT ![r] = rows]
      /\ lock' \in {lock, r}
      /\ UNCHANGED <<league, disk, batch, payload, done, failed, outcome, ingested>>
  BY DEF WriteGames, Goto, Writes
<1>2. TypeOK /\ open[r] \in Rows /\ RunIsSound(r)
  BY DEF IInv, TypeOK
<1>3. Upsert(open[r].games, GameRows(r)) = GameRows(r)
  BY <1>1, <1>2 DEF RunIsSound, Upsert, Nothing, GameRows
<1>4. rows \in Rows /\ rows.games = GameRows(r) /\ rows.teams = open[r].teams
  BY <1>2, <1>3, RowsHaveTypes DEF Rows
<1> HIDE DEF rows
<1>5. TypeOK'
  BY <1>1, <1>2, <1>4 DEF TypeOK, Steps
<1>6. RunIsSound(r)'
  <2>1. /\ TeamRows(r)' = TeamRows(r) /\ GameRows(r)' = GameRows(r)
        /\ open'[r] = rows /\ pc'[r] = "log"
    BY <1>1, <1>2 DEF TypeOK, TeamRows, GameRows, BatchGames
  <2>2. Reached(r)' = Reached(r)
    BY <1>1, <2>1 DEF Reached, InBatch
  <2> QED
    BY <1>1, <1>2, <1>4, <2>1, <2>2 DEF RunIsSound
<1> QED
  BY <1>1, <1>2, <1>5, <1>6, UncommittedStep DEF TypeOK

\* The alias enrichment, and its failure, which is reported.
LEMMA EnrichKeepsIInv ==
    ASSUME IInv, NEW r \in Runs, Enrich(r) \/ EnrichFails(r)
    PROVE  IInv'
<1>1. /\ pc[r] = "aliases"  /\ pc' = [pc EXCEPT ![r] = "close"]
      /\ failed' \in {failed, [failed EXCEPT ![r] = failed[r] \cup {Aliases}]}
      /\ UNCHANGED <<league, disk, lock, open, batch, payload, done, outcome, ingested>>
  BY DEF Enrich, EnrichFails, Goto
<1>2. TypeOK /\ RunIsSound(r)
  BY DEF IInv
<1>3. TypeOK'
  BY <1>1, <1>2 DEF TypeOK, Steps
<1>4. failed[r] \subseteq failed'[r] /\ \A q \in Runs \ {r} : failed'[q] = failed[q]
  BY <1>1, <1>2 DEF TypeOK
<1>5. RunIsSound(r)'
  <2>1. pc'[r] = "close" /\ Reached(r)' = Reached(r)
    BY <1>1, <1>2 DEF TypeOK, Reached, InBatch
  <2> QED
    BY <1>1, <1>2, <1>4, <2>1 DEF RunIsSound
<1> QED
  BY <1>1, <1>2, <1>3, <1>4, <1>5, UncommittedStep DEF TypeOK

\* A run that gets through its batches without a failure ingested them all.
LEMMA CloseKeepsIInv ==
    ASSUME IInv, NEW r \in Runs, Close(r)
    PROVE  IInv'
<1> DEFINE how == IF done[r] # {} /\ failed[r] = {} THEN "ok" ELSE "degraded"
<1>1. pc[r] = "close" /\ End(r, how) /\ how \in Outcomes
  BY DEF Close, Outcomes
<1>2. how = "ok" => done[r] = Batches
  <2>1. Batches \subseteq done[r] \cup failed[r] /\ done[r] \subseteq Batches
    BY <1>1 DEF IInv, TypeOK, RunIsSound, Reached, InBatch
  <2> QED
    BY <2>1
<1> HIDE DEF how
<1> QED
  BY <1>1, <1>2, EndKeepsIInv

\* The one step that commits: a batch's rows and its line of the log.
LEMMA WriteLogKeepsIInv ==
    ASSUME IInv, NEW r \in Runs, WriteLog(r)
    PROVE  IInv'
<1> DEFINE b == batch[r]
           stored == Upsert(disk.games, GameRows(r))
           teams == disk.teams \cup open[r].teams
           log == [disk.log EXCEPT ![b] = GameRows(r)]
<1>1. /\ TypeOK  /\ RunIsSound(r)  /\ b \in Batches
      /\ disk.games \in Contents  /\ open[r] \in Rows
      /\ disk.teams \subseteq Teams \X Seasons  /\ disk.log \in [Batches -> Contents \cup {None}]
      /\ disk.games = ingested
  BY DEF IInv, TypeOK, FailedBatchesStoreNoGames
<1>2. /\ pc[r] = "log"  /\ pc[r] \in InBatch
      /\ open' = [open EXCEPT ![r] = NoRows]
      /\ lock' \in {lock, None}
      /\ done' = [done EXCEPT ![r] = done[r] \cup {b}]
      /\ ingested' = stored
      /\ NextBatch(r)
      /\ UNCHANGED <<league, payload, failed, outcome>>
  BY <1>1 DEF WriteLog, EndTransaction, InBatch
<1>3. open[r].games = GameRows(r) /\ TeamRows(r) \subseteq open[r].teams
  BY <1>1, <1>2 DEF RunIsSound
<1>4. disk' = [teams |-> teams, games |-> stored, log |-> log]
  BY <1>3 DEF WriteLog
<1>5. /\ pc' \in [Runs -> Steps] /\ batch' \in [Runs -> Batches]
      /\ pc'[r] \notin {"teams", "games", "log", "idle"}
      /\ Reached(r)' \subseteq Reached(r) \cup {b}
      /\ \A q \in Runs \ {r} : pc'[q] = pc[q] /\ batch'[q] = batch[q]
  BY <1>1, <1>2, NextBatchGoesOn
<1>6. GameRows(r) \in Contents /\ GameRows(r) # None
  BY <1>1, RowsHaveTypes, LoggedIsSomething
<1>7. stored \in Contents /\ teams \subseteq Teams \X Seasons
      /\ log \in [Batches -> Contents \cup {None}]
  BY <1>1, <1>6, UpsertHasType DEF Rows
<1>8. \A g \in Games : GameRows(r)[g] # 0 =>
         BatchOf[g] = b /\ g \in BatchGames(r) /\ stored[g] = payload[r][g]
                       /\ GameRows(r)[g] = payload[r][g]
  BY DEF GameRows, BatchGames, Upsert
<1>9. \A g \in Games : GameRows(r)[g] = 0 => stored[g] = disk.games[g]
  BY DEF Upsert
<1>10. \A c \in Batches : disk.log[c] # None => log[c] # None
  BY <1>1, <1>6
<1>11. log[b] = GameRows(r) /\ \A c \in Batches \ {b} : log[c] = disk.log[c]
  BY <1>1
<1> HIDE DEF stored, teams, log
<1>12. TypeOK'
  <2>1. NoRows \in Rows
    BY NothingIsContents DEF NoRows, Rows
  <2>2. open' \in [Runs -> Rows] /\ done' \in [Runs -> SUBSET Batches]
    BY <1>1, <1>2, <2>1 DEF TypeOK
  <2>3. disk' \in [teams : SUBSET (Teams \X Seasons), games : Contents,
                   log : [Batches -> Contents \cup {None}]]
    BY <1>4, <1>7
  <2>4. lock' \in Runs \cup {None} /\ ingested' \in Contents
    BY <1>1, <1>2, <1>7 DEF TypeOK
  <2> QED
    BY <1>1, <1>2, <1>5, <2>2, <2>3, <2>4 DEF TypeOK
<1>13. \A q \in Runs : RunIsSound(q)'
  <2> TAKE q \in Runs
  <2>1. \A c \in done[q] : disk'.log[c] # None
    <3>1. done[q] \subseteq Batches /\ \A c \in done[q] : disk.log[c] # None
      BY <1>1 DEF IInv, TypeOK, RunIsSound
    <3> QED
      BY <1>4, <1>10, <3>1
  <2>2. CASE q = r
    <3>1. done'[r] = done[r] \cup {b} /\ open'[r] = NoRows
      BY <1>1, <1>2 DEF TypeOK
    <3>2. \A c \in done'[r] : disk'.log[c] # None
      BY <1>4, <1>6, <1>11, <2>1, <2>2, <3>1
    <3>3. outcome'[r] = "ok" => done'[r] = Batches
      BY <1>1, <1>2, <3>1 DEF RunIsSound
    <3>4. Reached(r)' \subseteq done'[r] \cup failed'[r]
      BY <1>1, <1>2, <1>5, <3>1 DEF RunIsSound
    <3> QED
      BY <1>5, <2>2, <3>1, <3>2, <3>3, <3>4 DEF RunIsSound, NoRows
  <2>3. CASE q # r
    <3>1. /\ pc'[q] = pc[q] /\ batch'[q] = batch[q] /\ payload'[q] = payload[q]
          /\ open'[q] = open[q] /\ done'[q] = done[q] /\ failed'[q] = failed[q]
          /\ outcome'[q] = outcome[q]
      BY <1>1, <1>2, <1>5, <2>3 DEF TypeOK
    <3> QED
      BY <2>1, <3>1, OtherRunsStaySound DEF IInv
  <2> QED
    BY <2>2, <2>3
<1>14. LogsHoldTheirBatch'
  BY <1>4, <1>8, <1>11 DEF IInv, LogsHoldTheirBatch
<1>15. LoggedBatchesAreWhole'
  <2> SUFFICES ASSUME NEW c \in Batches, log[c] # None, NEW g \in Games, BatchOf[g] = c
               PROVE  /\ stored[g] = IF log[c][g] # 0 THEN log[c][g] ELSE stored[g]
                      /\ stored[g] # 0 => \A t \in TeamsOf[g] : <<t, SeasonOf(c)>> \in teams
    BY <1>2, <1>4 DEF LoggedBatchesAreWhole
  \* A game the step does not name was there before, in a logged batch.
  <2>1. ASSUME GameRows(r)[g] = 0, stored[g] # 0
        PROVE  \A t \in TeamsOf[g] : <<t, SeasonOf(c)>> \in teams
    <3>1. disk.games[g] # 0 /\ disk.log[c] # None
      BY <1>9, <2>1 DEF IInv, FailedBatchesStoreNoGames
    <3> QED
      BY <3>1 DEF IInv, LoggedBatchesAreWhole, teams
  <2>2. ASSUME GameRows(r)[g] # 0
        PROVE  /\ c = b /\ stored[g] = GameRows(r)[g]
               /\ \A t \in TeamsOf[g] : <<t, SeasonOf(c)>> \in teams
    <3>1. c = b /\ g \in BatchGames(r) /\ stored[g] = GameRows(r)[g]
      BY <1>8, <2>2
    <3>2. \A t \in TeamsOf[g] : <<t, SeasonOf(c)>> \in TeamRows(r)
      BY <3>1 DEF TeamRows
    <3> QED
      BY <1>3, <3>1, <3>2 DEF teams
  <2>3. log[c][g] # 0 => stored[g] = log[c][g]
    <3>1. CASE c = b
      BY <1>11, <2>2, <3>1
    <3>2. CASE c # b
      <4>1. log[c] = disk.log[c] /\ stored[g] = disk.games[g]
        BY <1>9, <1>11, <2>2, <3>2
      <4> QED
        BY <4>1 DEF IInv, LoggedBatchesAreWhole
    <3> QED
      BY <3>1, <3>2
  <2> QED
    BY <2>1, <2>2, <2>3
<1>16. FailedBatchesStoreNoGames'
  <2> SUFFICES ASSUME NEW g \in Games, stored[g] # 0
               PROVE  log[BatchOf[g]] # None
    BY <1>2, <1>4 DEF FailedBatchesStoreNoGames
  <2>1. CASE GameRows(r)[g] # 0
    BY <1>6, <1>8, <1>11, <2>1
  <2>2. CASE GameRows(r)[g] = 0
    <3>1. disk.log[BatchOf[g]] # None
      BY <1>9, <2>2 DEF IInv, FailedBatchesStoreNoGames
    <3>2. BatchOf[g] \in Batches
      BY GameAssumption
    <3> QED
      BY <1>10, <3>1, <3>2
  <2> QED
    BY <2>1, <2>2
<1> QED
  BY <1>12, <1>13, <1>14, <1>15, <1>16 DEF IInv

LEMMA StutterKeepsIInv == IInv /\ UNCHANGED vars => IInv'
BY DEF IInv, TypeOK, RunIsSound, GameRows, TeamRows, BatchGames, Reached, LogsHoldTheirBatch,
       LoggedBatchesAreWhole, FailedBatchesStoreNoGames, vars

LEMMA NextKeepsIInv == IInv /\ [Next]_vars => IInv'
<1> SUFFICES ASSUME IInv, [Next]_vars PROVE IInv'
  OBVIOUS
<1>1. CASE UNCHANGED vars
  BY <1>1, StutterKeepsIInv
<1>2. ASSUME NEW r \in Runs, RunStep(r) PROVE IInv'
  <2>1. CASE Start(r) \/ StartFails(r) \/ Fetch(r)
    BY <2>1, StartKeepsIInv, StartFailsKeepsIInv, FetchKeepsIInv
  <2>2. CASE FetchFails(r) \/ Collision(r)
    BY <2>2, PassOverKeepsIInv DEF FetchFails, Collision
  <2>3. CASE ListMismatch(r) \/ DbError(r) \/ Die(r)
    BY <2>3, EndKeepsIInv DEF ListMismatch, DbError, Die, Outcomes
  <2>4. CASE WriteTeams(r) \/ WriteGames(r) \/ WriteLog(r)
    BY <2>4, WriteTeamsKeepsIInv, WriteGamesKeepsIInv, WriteLogKeepsIInv
  <2>5. CASE Enrich(r) \/ EnrichFails(r) \/ Close(r)
    BY <2>5, EnrichKeepsIInv, CloseKeepsIInv
  <2> QED
    BY <1>2, <2>1, <2>2, <2>3, <2>4, <2>5 DEF RunStep
<1> QED
  BY <1>1, <1>2 DEF Next

-----------------------------------------------------------------------------
LEMMA IInvHolds == Spec => []IInv
<1>1. Init => IInv
  BY InitEstablishesIInv
<1>2. IInv /\ [Next]_vars => IInv'
  BY NextKeepsIInv
<1> QED
  BY <1>1, <1>2, PTL DEF Spec

\* Every variable keeps its type, whatever fails and whoever overlaps.
THEOREM TypeCorrect == Spec => []TypeOK
<1>1. IInv => TypeOK
  BY DEF IInv
<1> QED
  BY <1>1, IInvHolds, PTL

\* Every game the last logged ingest of a batch read is there as it read it, and
\* what else there is of the batch is as an earlier logged one left it, for any
\* runs over any batches (_write_games, _write_teams and _write_ingestion_log
\* share one commit).
THEOREM LogTellsTheTruth == Spec => []LoggedBatchesAreWhole
<1>1. IInv => LoggedBatchesAreWhole
  BY DEF IInv
<1> QED
  BY <1>1, IInvHolds, PTL

\* The transaction a failed batch leaves open commits no game of it, although
\* nothing rolls it back (the except clauses of ingest_seasons).
THEOREM FailuresStoreNoGames == Spec => []FailedBatchesStoreNoGames
<1>1. IInv => FailedBatchesStoreNoGames
  BY DEF IInv
<1> QED
  BY <1>1, IInvHolds, PTL

\* Exit code 0 means every batch asked for is in the database (main's exit
\* code, computed from results and hard_errors).
THEOREM ZeroMeansStored == Spec => []SuccessMeansStored
<1>1. IInv => SuccessMeansStored
  BY DEF IInv, RunIsSound, SuccessMeansStored
<1> QED
  BY <1>1, IInvHolds, PTL
=============================================================================
