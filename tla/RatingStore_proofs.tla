------------------------- MODULE RatingStore_proofs -------------------------
(***************************************************************************)
(* Proofs about RatingStore, for every set of concurrent runs, every set   *)
(* of methods and every range of seasons.                                  *)
(***************************************************************************)
EXTENDS RatingStore, TLAPS

\* What table t holds for a season whose walk is w.
Rows(t, m, w) == IF t \in Fills(m) THEN w ELSE None

\* A run that is under way has its arguments; past rate, it may hold a walk.
RunsHaveArguments ==
    \A j \in Jobs :
        /\ pc[j] # "idle" => job[j] \in Job
        /\ pc[j] = "rank" => walk[j] \in Walk

\* A key being stored is torn, and a run that stores one alone is.
StoringIsTorn ==
    \A j \in Jobs : Storing(j) =>
        /\ Key(j) \in torn
        /\ alone[j] => \A i \in Others(j) : ~(Storing(i) /\ Key(i) = Key(j))

\* A run alone on its key finds there what it stored.
AloneKeepsItsRows ==
    \A j \in Jobs : Storing(j) /\ alone[j] =>
        /\ stored["ratings"][Key(j)] = walk[j]
        /\ pc[j] = "ledger" =>
              stored["breakdowns"][Key(j)] = Rows("breakdowns", job[j].method, walk[j])

IInv ==
    /\ TypeOK
    /\ RunsHaveArguments
    /\ StoringIsTorn
    /\ AloneKeepsItsRows
    /\ WholeUnlessTorn

-----------------------------------------------------------------------------
LEMMA InitEstablishesIInv == Init => IInv
<1> SUFFICES ASSUME Init PROVE IInv
  OBVIOUS
<1>1. {0, 1} \subseteq 0..MaxVersion
  BY YearAssumption
<1>2. TypeOK
  BY <1>1 DEF Init, TypeOK, Steps
<1>3. WholeUnlessTorn
  BY DEF Init, WholeUnlessTorn, Whole, Tables
<1> QED
  BY <1>2, <1>3 DEF Init, IInv, RunsHaveArguments, StoringIsTorn, AloneKeepsItsRows, Storing

LEMMA KeyIsKey ==
    ASSUME IInv, NEW j \in Jobs, pc[j] # "idle"
    PROVE  /\ job[j] \in Job
           /\ Key(j) \in Keys
           /\ Key(j)[1] = job[j].method
           /\ job[j].year \in Years
BY DEF IInv, RunsHaveArguments, Job, Key, Keys

\* A step that stores nothing and takes no run into or through its stores.
LEMMA QuietStepKeepsIInv ==
    ASSUME IInv, TypeOK', RunsHaveArguments',
           UNCHANGED <<stored, alone, torn>>,
           \A j \in Jobs : Storing(j)' => /\ Storing(j) /\ pc'[j] = pc[j]
                                          /\ job'[j] = job[j] /\ walk'[j] = walk[j]
    PROVE  IInv'
<1>1. \A j \in Jobs : Storing(j)' => Key(j)' = Key(j)
  BY DEF Key
<1>2. StoringIsTorn'
  BY <1>1 DEF IInv, StoringIsTorn, Others
<1>3. AloneKeepsItsRows'
  BY <1>1 DEF IInv, AloneKeepsItsRows, Rows
<1>4. WholeUnlessTorn'
  BY DEF IInv, WholeUnlessTorn, Whole
<1> QED
  BY <1>2, <1>3, <1>4 DEF IInv

LEMMA IngestKeepsIInv ==
    ASSUME IInv, NEW y \in Years, Ingest(y)
    PROVE  IInv'
<1>1. /\ games[y] < MaxVersion
      /\ games' = [games EXCEPT ![y] = games[y] + 1]
      /\ quiet' = [j \in Jobs |-> quiet[j] /\ j \notin Jobs]
      /\ UNCHANGED <<stored, pc, job, walk, alone, torn>>
  BY DEF Ingest, Disturb
<1>2. games[y] + 1 \in 0..MaxVersion
  BY <1>1, YearAssumption DEF IInv, TypeOK
<1>3. quiet' \in [Jobs -> BOOLEAN]
  BY <1>1
<1>4. TypeOK'
  BY <1>1, <1>2, <1>3 DEF IInv, TypeOK
<1>5. RunsHaveArguments' /\ \A j \in Jobs : Storing(j)' => Storing(j)
  BY <1>1 DEF IInv, RunsHaveArguments, Storing
<1> QED
  BY <1>1, <1>4, <1>5, QuietStepKeepsIInv

LEMMA StartKeepsIInv ==
    ASSUME IInv, NEW j \in Jobs, Start(j)
    PROVE  IInv'
<1>0. PICK m \in Methods, first \in Years :
        \E last \in first..LastYear :
          job' = [job EXCEPT ![j] =
                    [method |-> m, first |-> first, year |-> first, last |-> last]]
  BY DEF Start
<1>1. PICK last \in first..LastYear :
        job' = [job EXCEPT ![j] =
                  [method |-> m, first |-> first, year |-> first, last |-> last]]
  BY <1>0
<1>2. /\ pc[j] = "idle"  /\ pc' = [pc EXCEPT ![j] = "load"]
      /\ quiet' = [quiet EXCEPT ![j] = \A i \in Others(j) : pc[i] = "idle"]
      /\ UNCHANGED <<games, stored, walk, alone, torn>>
  BY DEF Start, Goto
<1>3. [method |-> m, first |-> first, year |-> first, last |-> last] \in Job
  <2>1. last \in Years
    BY YearAssumption DEF Years
  <2> QED
    BY <2>1 DEF Job
<1>4. quiet' \in [Jobs -> BOOLEAN]
  <2>1. (\A i \in Others(j) : pc[i] = "idle") \in BOOLEAN
    OBVIOUS
  <2> QED
    BY <1>2, <2>1 DEF IInv, TypeOK
<1>5. TypeOK'
  BY <1>1, <1>2, <1>3, <1>4 DEF IInv, TypeOK, Steps
<1>6. RunsHaveArguments'
  BY <1>1, <1>2, <1>3 DEF IInv, TypeOK, RunsHaveArguments
<1>7. \A i \in Jobs : Storing(i)' => /\ Storing(i) /\ pc'[i] = pc[i]
                                     /\ job'[i] = job[i] /\ walk'[i] = walk[i]
  BY <1>1, <1>2 DEF IInv, TypeOK, Storing
<1> QED
  BY <1>2, <1>5, <1>6, <1>7, QuietStepKeepsIInv

LEMMA LoadGamesKeepsIInv ==
    ASSUME IInv, NEW j \in Jobs, LoadGames(j)
    PROVE  IInv'
<1> DEFINE m == job[j].method
           y == job[j].year
           w == IF games[y] = 0 THEN None
                ELSE [games |-> [x \in History(m, y) |-> games[x]], fbs |-> 0]
<1>1. /\ pc[j] = "load"
      /\ walk' = [walk EXCEPT ![j] = w]
      /\ pc' = [pc EXCEPT ![j] = IF games[y] = 0 THEN "ratings" ELSE "rank"]
      /\ UNCHANGED <<games, stored, job, quiet, alone, torn>>
  BY DEF LoadGames, Goto
<1>2. y \in Years /\ job[j] \in Job
  BY <1>1, KeyIsKey
<1>3. games[y] # 0 => w \in Walk
  <2>1. History(m, y) \in SUBSET Years
    BY <1>2, YearAssumption DEF History, Years
  <2>2. [x \in History(m, y) |-> games[x]] \in [History(m, y) -> 0..MaxVersion]
    BY <2>1 DEF IInv, TypeOK
  <2>3. 0 \in 0..MaxVersion
    BY YearAssumption
  <2> QED
    BY <2>1, <2>2, <2>3 DEF Walk
<1> HIDE DEF w
<1>4. w \in Walk \cup {None}
  BY <1>3 DEF w
<1>5. TypeOK'
  BY <1>1, <1>4 DEF IInv, TypeOK, Steps
<1>6. RunsHaveArguments'
  BY <1>1, <1>2, <1>3 DEF IInv, TypeOK, RunsHaveArguments
<1>7. \A i \in Jobs : Storing(i)' => /\ Storing(i) /\ pc'[i] = pc[i]
                                     /\ job'[i] = job[i] /\ walk'[i] = walk[i]
  BY <1>1 DEF IInv, TypeOK, Storing
<1> QED
  BY <1>1, <1>5, <1>6, <1>7, QuietStepKeepsIInv

LEMMA RankKeepsIInv ==
    ASSUME IInv, NEW j \in Jobs, Rank(j)
    PROVE  IInv'
<1>1. /\ pc[j] = "rank"  /\ pc' = [pc EXCEPT ![j] = "ratings"]
      /\ walk' = [walk EXCEPT ![j].fbs = games[job[j].year]]
      /\ UNCHANGED <<games, stored, job, quiet, alone, torn>>
  BY DEF Rank, Goto
<1>2. walk[j] \in Walk /\ job[j].year \in Years
  BY <1>1, KeyIsKey DEF IInv, RunsHaveArguments
<1>3. walk'[j] \in Walk
  BY <1>1, <1>2 DEF IInv, TypeOK, Walk
<1>4. TypeOK'
  BY <1>1, <1>3 DEF IInv, TypeOK, Steps
<1>5. RunsHaveArguments'
  BY <1>1 DEF IInv, TypeOK, RunsHaveArguments
<1>6. \A i \in Jobs : Storing(i)' => /\ Storing(i) /\ pc'[i] = pc[i]
                                     /\ job'[i] = job[i] /\ walk'[i] = walk[i]
  BY <1>1 DEF IInv, TypeOK, Storing
<1> QED
  BY <1>1, <1>4, <1>5, <1>6, QuietStepKeepsIInv

LEMMA DieKeepsIInv ==
    ASSUME IInv, NEW j \in Jobs, Die(j)
    PROVE  IInv'
<1>1. /\ pc' = [pc EXCEPT ![j] = "idle"]  /\ walk' = [walk EXCEPT ![j] = None]
      /\ UNCHANGED <<games, stored, job, quiet, alone, torn>>
  BY DEF Die, Goto
<1>2. TypeOK' /\ RunsHaveArguments'
  BY <1>1 DEF IInv, TypeOK, Steps, RunsHaveArguments
<1>3. \A i \in Jobs : Storing(i)' => /\ Storing(i) /\ pc'[i] = pc[i]
                                     /\ job'[i] = job[i] /\ walk'[i] = walk[i]
  BY <1>1 DEF IInv, TypeOK, Storing
<1> QED
  BY <1>1, <1>2, <1>3, QuietStepKeepsIInv

-----------------------------------------------------------------------------
(* The three stores.                                                       *)

LEMMA ReplaceFacts ==
    ASSUME IInv, NEW j \in Jobs, pc[j] # "idle", NEW t \in Tables, Replace(j, t)
    PROVE  /\ stored' \in [Tables -> [Keys -> Walk \cup {None}]]
           /\ stored'[t][Key(j)] = Rows(t, job[j].method, walk[j])
           /\ \A u \in Tables, k \in Keys :
                  u # t \/ k # Key(j) => stored'[u][k] = stored[u][k]
<1> DEFINE w == Rows(t, job[j].method, walk[j])
<1>1. stored' = [stored EXCEPT ![t] = [stored[t] EXCEPT ![Key(j)] = w]]
  BY DEF Replace, Rows
<1>2. w \in Walk \cup {None}
  BY DEF IInv, TypeOK, Rows
<1>3. stored \in [Tables -> [Keys -> Walk \cup {None}]] /\ Key(j) \in Keys
  BY KeyIsKey DEF IInv, TypeOK
<1> HIDE DEF w
<1>4. [stored[t] EXCEPT ![Key(j)] = w] \in [Keys -> Walk \cup {None}]
  BY <1>2, <1>3
<1>5. /\ stored' \in [Tables -> [Keys -> Walk \cup {None}]]
      /\ stored'[t][Key(j)] = w
      /\ \A u \in Tables, k \in Keys :
             u # t \/ k # Key(j) => stored'[u][k] = stored[u][k]
  BY <1>1, <1>3, <1>4
<1> QED
  BY <1>5 DEF w

LEMMA DisturbKeepsType ==
    ASSUME NEW S, Disturb(S)
    PROVE  quiet' \in [Jobs -> BOOLEAN]
BY DEF Disturb

LEMMA StoreRatingsKeepsIInv ==
    ASSUME IInv, NEW j \in Jobs, StoreRatings(j)
    PROVE  IInv'
<1> DEFINE shares(i) == Storing(i) /\ Key(i) = Key(j)
<1>1. /\ pc[j] = "ratings"  /\ Replace(j, "ratings")
      /\ pc' = [pc EXCEPT ![j] = "breakdowns"]
      /\ alone' = [i \in Jobs |-> IF i = j THEN \A o \in Others(j) : ~shares(o)
                                  ELSE alone[i] /\ ~shares(i)]
      /\ torn' = torn \cup {Key(j)}
      /\ Disturb(Others(j))
      /\ UNCHANGED <<games, job, walk>>
  BY DEF StoreRatings, Goto
<1>2. Key(j) \in Keys /\ Key(j)[1] = job[j].method
  BY <1>1, KeyIsKey
<1>3. /\ stored' \in [Tables -> [Keys -> Walk \cup {None}]]
      /\ stored'["ratings"][Key(j)] = walk[j]
      /\ \A u \in Tables, k \in Keys :
             u # "ratings" \/ k # Key(j) => stored'[u][k] = stored[u][k]
  BY <1>1, ReplaceFacts DEF Tables, Rows, Fills
<1>4. TypeOK'
  BY <1>1, <1>2, <1>3, DisturbKeepsType DEF IInv, TypeOK, Steps
<1>5. RunsHaveArguments'
  BY <1>1 DEF IInv, TypeOK, RunsHaveArguments
<1>6. /\ \A i \in Jobs : Key(i)' = Key(i)
      /\ \A i \in Others(j) : /\ pc'[i] = pc[i]
                              /\ Storing(i)' <=> Storing(i)
                              /\ alone'[i] <=> alone[i] /\ ~shares(i)
      /\ Storing(j)' /\ pc'[j] = "breakdowns"
      /\ alone'[j] <=> \A o \in Others(j) : ~shares(o)
  BY <1>1 DEF IInv, TypeOK, Storing, Key, Others
<1>7. StoringIsTorn'
  BY <1>1, <1>6 DEF IInv, StoringIsTorn, Others
<1>8. AloneKeepsItsRows'
  <2>1. SUFFICES ASSUME NEW i \in Jobs, Storing(i)', alone'[i]
                 PROVE  /\ stored'["ratings"][Key(i)] = walk[i]
                        /\ pc'[i] = "ledger" => stored'["breakdowns"][Key(i)] =
                               Rows("breakdowns", job[i].method, walk[i])
    BY <1>1, <1>6 DEF AloneKeepsItsRows, Rows
  <2>2. CASE i = j
    BY <2>2, <1>3, <1>6
  <2>3. CASE i # j
    <3>1. /\ Storing(i) /\ alone[i] /\ Key(i) # Key(j) /\ pc'[i] = pc[i]
          /\ Key(i) \in Keys
      BY <2>1, <2>3, <1>6, KeyIsKey DEF Others, Storing
    <3> QED
      BY <3>1, <1>3 DEF IInv, AloneKeepsItsRows, Tables
  <2> QED
    BY <2>2, <2>3
<1>9. WholeUnlessTorn'
  BY <1>1, <1>3 DEF IInv, WholeUnlessTorn, Whole, Tables
<1> QED
  BY <1>4, <1>5, <1>7, <1>8, <1>9 DEF IInv

LEMMA StoreBreakdownsKeepsIInv ==
    ASSUME IInv, NEW j \in Jobs, StoreBreakdowns(j)
    PROVE  IInv'
<1>1. /\ pc[j] = "breakdowns"  /\ Replace(j, "breakdowns")
      /\ pc' = [pc EXCEPT ![j] = "ledger"]
      /\ Disturb(Others(j))
      /\ UNCHANGED <<games, job, walk, alone, torn>>
  BY DEF StoreBreakdowns, Goto
<1>2. Key(j) \in Keys /\ Storing(j) /\ Key(j) \in torn
  BY <1>1, KeyIsKey DEF Storing, IInv, StoringIsTorn
<1>3. /\ stored' \in [Tables -> [Keys -> Walk \cup {None}]]
      /\ stored'["breakdowns"][Key(j)] = Rows("breakdowns", job[j].method, walk[j])
      /\ \A u \in Tables, k \in Keys :
             u # "breakdowns" \/ k # Key(j) => stored'[u][k] = stored[u][k]
  BY <1>1, ReplaceFacts DEF Tables
<1>4. TypeOK'
  BY <1>1, <1>3, DisturbKeepsType DEF IInv, TypeOK, Steps
<1>5. RunsHaveArguments'
  BY <1>1 DEF IInv, TypeOK, RunsHaveArguments
<1>6. /\ \A i \in Jobs : Key(i)' = Key(i)
      /\ \A i \in Jobs : Storing(i)' <=> Storing(i)
      /\ \A i \in Others(j) : pc'[i] = pc[i]
  BY <1>1 DEF IInv, TypeOK, Storing, Key, Others
<1>7. StoringIsTorn'
  BY <1>1, <1>6 DEF IInv, StoringIsTorn, Others
<1>8. AloneKeepsItsRows'
  <2>1. SUFFICES ASSUME NEW i \in Jobs, Storing(i)', alone'[i]
                 PROVE  /\ stored'["ratings"][Key(i)] = walk[i]
                        /\ pc'[i] = "ledger" => stored'["breakdowns"][Key(i)] =
                               Rows("breakdowns", job[i].method, walk[i])
    BY <1>1, <1>6 DEF AloneKeepsItsRows, Rows
  <2>2. Storing(i) /\ alone[i] /\ Key(i) \in Keys
    BY <2>1, <1>1, <1>6, KeyIsKey DEF Storing
  <2>3. stored'["ratings"][Key(i)] = walk[i]
    BY <2>2, <1>3 DEF IInv, AloneKeepsItsRows, Tables
  <2>4. CASE i = j
    BY <2>3, <2>4, <1>3
  <2>5. CASE i # j
    <3>1. Key(i) # Key(j)
      BY <2>2, <2>5, <1>2 DEF IInv, StoringIsTorn, Others
    <3> QED
      BY <3>1, <2>2, <2>3, <2>5, <1>3, <1>6
         DEF IInv, AloneKeepsItsRows, Tables, Others
  <2> QED
    BY <2>4, <2>5
<1>9. WholeUnlessTorn'
  BY <1>1, <1>2, <1>3 DEF IInv, WholeUnlessTorn, Whole, Tables
<1> QED
  BY <1>4, <1>5, <1>7, <1>8, <1>9 DEF IInv

\* What the end of a year does to the run's own position in its range.
LEMMA NextYearFacts ==
    ASSUME IInv, NEW j \in Jobs, pc[j] = "ledger", NextYear(j)
    PROVE  /\ job' \in [Jobs -> Job \cup {None}]
           /\ job'[j] \in Job
           /\ pc' \in [Jobs -> Steps]
           /\ pc'[j] \in {"idle", "load"}
           /\ \A i \in Others(j) : job'[i] = job[i] /\ pc'[i] = pc[i]
<1>1. job[j] \in Job /\ job[j].year \in Years /\ job[j].last \in Years
  BY KeyIsKey DEF Job
<1>2. CASE job[j].year < job[j].last
  <2>1. /\ job' = [job EXCEPT ![j].year = job[j].year + 1]
        /\ pc' = [pc EXCEPT ![j] = "load"]
    BY <1>2 DEF NextYear, Goto
  <2>2. job[j].year + 1 \in Years
    BY <1>1, <1>2, YearAssumption DEF Years
  <2>3. [job[j] EXCEPT !.year = job[j].year + 1] \in Job
    BY <1>1, <2>2 DEF Job
  <2> QED
    BY <2>1, <2>3 DEF IInv, TypeOK, Steps, Others
<1>3. CASE ~(job[j].year < job[j].last)
  BY <1>1, <1>3 DEF NextYear, Goto, IInv, TypeOK, Steps, Others
<1> QED
  BY <1>2, <1>3

LEMMA StoreLedgersKeepsIInv ==
    ASSUME IInv, NEW j \in Jobs, StoreLedgers(j)
    PROVE  IInv'
<1>1. /\ pc[j] = "ledger"  /\ Replace(j, "ledger")  /\ NextYear(j)
      /\ torn' = IF alone[j] THEN torn \ {Key(j)} ELSE torn
      /\ walk' = [walk EXCEPT ![j] = None]
      /\ Disturb(Others(j))
      /\ UNCHANGED <<games, alone>>
  BY DEF StoreLedgers
<1>2. Key(j) \in Keys /\ Key(j)[1] = job[j].method /\ Storing(j)
  BY <1>1, KeyIsKey DEF Storing
<1>3. /\ stored' \in [Tables -> [Keys -> Walk \cup {None}]]
      /\ stored'["ledger"][Key(j)] = Rows("ledger", job[j].method, walk[j])
      /\ \A u \in Tables, k \in Keys :
             u # "ledger" \/ k # Key(j) => stored'[u][k] = stored[u][k]
  BY <1>1, ReplaceFacts DEF Tables
<1>4. /\ job' \in [Jobs -> Job \cup {None}]  /\ job'[j] \in Job
      /\ pc' \in [Jobs -> Steps]  /\ pc'[j] \in {"idle", "load"}
      /\ \A i \in Others(j) : job'[i] = job[i] /\ pc'[i] = pc[i]
  BY <1>1, NextYearFacts
<1>5. TypeOK'
  BY <1>1, <1>3, <1>4, DisturbKeepsType DEF IInv, TypeOK
<1>6. RunsHaveArguments'
  BY <1>1, <1>4 DEF IInv, TypeOK, RunsHaveArguments, Others
<1>7. /\ ~Storing(j)'
      /\ \A i \in Others(j) : /\ Storing(i)' <=> Storing(i)
                              /\ Key(i)' = Key(i)
                              /\ pc'[i] = pc[i] /\ job'[i] = job[i]
                              /\ walk'[i] = walk[i]
  BY <1>1, <1>4 DEF IInv, TypeOK, Storing, Key, Others
<1>8. StoringIsTorn'
  <2>1. SUFFICES ASSUME NEW i \in Jobs, Storing(i)'
                 PROVE  /\ Key(i)' \in torn'
                        /\ alone'[i] => \A o \in Others(i) :
                               ~(Storing(o) /\ Key(o) = Key(i))'
    BY DEF StoringIsTorn, Others
  <2>2. i \in Others(j) /\ Storing(i) /\ Key(i)' = Key(i)
    BY <2>1, <1>7 DEF Others
  <2>3. Key(i) \in torn /\ (alone[j] => Key(i) # Key(j))
    BY <2>2, <1>2 DEF IInv, StoringIsTorn
  <2>4. Key(i)' \in torn'
    BY <2>2, <2>3, <1>1
  <2>5. ASSUME alone'[i], NEW o \in Others(i), Storing(o)'
        PROVE  Key(o)' # Key(i)'
    <3>1. o \in Others(j) /\ Storing(o) /\ Key(o)' = Key(o)
      BY <2>5, <1>7 DEF Others
    <3> QED
      BY <3>1, <2>2, <2>5, <1>1 DEF IInv, StoringIsTorn
  <2> QED
    BY <2>4, <2>5
<1>9. AloneKeepsItsRows'
  <2>1. SUFFICES ASSUME NEW i \in Jobs, Storing(i)', alone'[i]
                 PROVE  /\ stored'["ratings"][Key(i)'] = walk'[i]
                        /\ pc'[i] = "ledger" => stored'["breakdowns"][Key(i)'] =
                               Rows("breakdowns", job'[i].method, walk'[i])
    BY DEF AloneKeepsItsRows, Rows
  <2>2. i \in Others(j) /\ Storing(i) /\ alone[i] /\ Key(i) \in Keys
    BY <2>1, <1>1, <1>7, KeyIsKey DEF Others, Storing
  <2> QED
    BY <2>2, <1>3, <1>7 DEF IInv, AloneKeepsItsRows, Tables
<1>10. WholeUnlessTorn'
  <2>1. SUFFICES ASSUME NEW k \in Keys \ torn'
                 PROVE  Whole(k)'
    BY DEF WholeUnlessTorn
  <2>2. CASE k # Key(j)
    BY <2>1, <2>2, <1>1, <1>3 DEF IInv, WholeUnlessTorn, Whole, Tables
  <2>3. CASE k = Key(j)
    <3>1. Key(j) \in torn
      BY <1>2 DEF IInv, StoringIsTorn
    <3>2. alone[j]
      BY <2>1, <2>3, <3>1, <1>1
    <3>3. /\ stored["ratings"][k] = walk[j]
          /\ stored["breakdowns"][k] = Rows("breakdowns", k[1], walk[j])
      BY <1>1, <1>2, <2>3, <3>2 DEF IInv, AloneKeepsItsRows
    <3>4. /\ stored'["ratings"][k] = walk[j]
          /\ stored'["breakdowns"][k] = Rows("breakdowns", k[1], walk[j])
          /\ stored'["ledger"][k] = Rows("ledger", k[1], walk[j])
      BY <3>3, <2>3, <1>2, <1>3 DEF Tables
    <3> QED
      BY <3>4 DEF Whole, Rows, Tables, Fills
  <2> QED
    BY <2>2, <2>3
<1> QED
  BY <1>5, <1>6, <1>8, <1>9, <1>10 DEF IInv

-----------------------------------------------------------------------------
LEMMA NextKeepsIInv == IInv /\ [Next]_vars => IInv'
<1> SUFFICES ASSUME IInv, [Next]_vars PROVE IInv'
  OBVIOUS
<1>1. ASSUME NEW y \in Years, Ingest(y) PROVE IInv'
  BY <1>1, IngestKeepsIInv
<1>2. ASSUME NEW j \in Jobs, Start(j) PROVE IInv'
  BY <1>2, StartKeepsIInv
<1>3. ASSUME NEW j \in Jobs, LoadGames(j) PROVE IInv'
  BY <1>3, LoadGamesKeepsIInv
<1>4. ASSUME NEW j \in Jobs, Rank(j) PROVE IInv'
  BY <1>4, RankKeepsIInv
<1>5. ASSUME NEW j \in Jobs, StoreRatings(j) PROVE IInv'
  BY <1>5, StoreRatingsKeepsIInv
<1>6. ASSUME NEW j \in Jobs, StoreBreakdowns(j) PROVE IInv'
  BY <1>6, StoreBreakdownsKeepsIInv
<1>7. ASSUME NEW j \in Jobs, StoreLedgers(j) PROVE IInv'
  BY <1>7, StoreLedgersKeepsIInv
<1>8. ASSUME NEW j \in Jobs, Die(j) PROVE IInv'
  BY <1>8, DieKeepsIInv
<1>9. CASE UNCHANGED vars
  BY <1>9 DEF vars, IInv, TypeOK, RunsHaveArguments, StoringIsTorn, Storing, Key,
              Others, AloneKeepsItsRows, Rows, WholeUnlessTorn, Whole
<1> QED
  BY <1>1, <1>2, <1>3, <1>4, <1>5, <1>6, <1>7, <1>8, <1>9 DEF Next

THEOREM IInvHolds == Spec => []IInv
<1> QED
  BY InitEstablishesIInv, NextKeepsIInv, PTL DEF Spec

\* Every variable keeps its type, a run's year inside the range of seasons
\* included.
THEOREM TypeCorrect == Spec => []TypeOK
<1>1. IInv => TypeOK
  BY DEF IInv
<1> QED
  BY <1>1, IInvHolds, PTL

\* However runs of `cfb rate`, ingests and crashes interleave, a season whose
\* last store got through without another run storing the same key beside it
\* is served with its own breakdown and its own ledger.
THEOREM UntornSeasonsAreWhole == Spec => []WholeUnlessTorn
<1>1. IInv => WholeUnlessTorn
  BY DEF IInv
<1> QED
  BY <1>1, IInvHolds, PTL

-----------------------------------------------------------------------------
(* A run beside which nobody writes: what it has rated of its range so far *)
(* is up to date, and so is what it holds for its current year.            *)

Rated(m, y) == stored["ratings"][<<m, y>>] = UpToDate(<<m, y>>) /\ Whole(<<m, y>>)

HoldsItsYear(j) ==
    /\ pc[j] = "rank" => /\ games[job[j].year] # 0
                         /\ walk[j].games = UpToDate(Key(j)).games
    /\ pc[j] \in {"ratings", "breakdowns", "ledger"} => walk[j] = UpToDate(Key(j))
    /\ Storing(j) => stored["ratings"][Key(j)] = walk[j]
    /\ pc[j] = "ledger" => stored["breakdowns"][Key(j)] =
                               Rows("breakdowns", job[j].method, walk[j])

RangeSoFar(j) == \A y \in Years : job[j].first <= y /\ y < job[j].year => Rated(job[j].method, y)

QuietRunsAreUpToDate ==
    \A j \in Jobs : quiet[j] /\ pc[j] # "idle" => HoldsItsYear(j) /\ RangeSoFar(j)

\* What _load_games reads is what a run of now would read.
LEMMA LoadIsUpToDate ==
    ASSUME NEW m \in Methods, NEW y \in Years
    PROVE  [x \in History(m, y) |-> games[x]]
           = [x \in {z \in Years : z = y \/ (m = "elo_career" /\ z < y)} |-> games[x]]
<1>1. History(m, y) = {z \in Years : z = y \/ (m = "elo_career" /\ z < y)}
  BY YearAssumption DEF History, Years
<1> QED
  BY <1>1

\* A step in which run j neither moves nor finds its tables or games changed.
LEMMA UndisturbedStaysUpToDate ==
    ASSUME NEW j \in Jobs, HoldsItsYear(j), RangeSoFar(j),
           UNCHANGED <<games, stored>>,
           pc'[j] = pc[j], job'[j] = job[j], walk'[j] = walk[j]
    PROVE  HoldsItsYear(j)' /\ RangeSoFar(j)'
<1>1. Key(j)' = Key(j) /\ \A k : UpToDate(k)' = UpToDate(k) /\ (Whole(k)' <=> Whole(k))
  BY DEF Key, UpToDate, Whole
<1>2. HoldsItsYear(j)'
  BY <1>1 DEF HoldsItsYear, Storing, Rows
<1>3. RangeSoFar(j)'
  BY <1>1 DEF RangeSoFar, Rated
<1> QED
  BY <1>2, <1>3

\* A store of its own year leaves the years before it as they were.
LEMMA StoreKeepsRangeSoFar ==
    ASSUME IInv, NEW j \in Jobs, pc[j] # "idle", RangeSoFar(j),
           NEW t \in Tables, Replace(j, t), UNCHANGED <<games, job>>
    PROVE  RangeSoFar(j)'
<1> SUFFICES ASSUME NEW y \in Years, job[j].first <= y, y < job[j].year
             PROVE  Rated(job[j].method, y)'
  BY DEF RangeSoFar
<1> DEFINE k == <<job[j].method, y>>
<1>1. k \in Keys /\ k # Key(j)
  <2>1. job[j].method \in Methods
    BY KeyIsKey DEF Job
  <2>2. k \in Keys
    BY <2>1 DEF Keys
  <2>3. y # job[j].year
    BY KeyIsKey DEF Years
  <2> QED
    BY <2>2, <2>3 DEF Key
<1>2. \A u \in Tables : stored'[u][k] = stored[u][k]
  BY <1>1, ReplaceFacts
<1>3. Rated(job[j].method, y)
  BY DEF RangeSoFar
<1>4. UpToDate(k)' = UpToDate(k)
  BY DEF UpToDate
<1> QED
  BY <1>2, <1>3, <1>4 DEF Rated, Whole, Tables

\* Its last store makes the year it was at whole, and as a run of now would.
LEMMA LastStoreRates ==
    ASSUME IInv, NEW j \in Jobs, StoreLedgers(j), HoldsItsYear(j), RangeSoFar(j),
           NEW m \in Methods, m = job[j].method,
           NEW y \in Years, job[j].first <= y, y <= job[j].year
    PROVE  /\ stored'["ratings"][<<m, y>>] = UpToDate(<<m, y>>)
           /\ Whole(<<m, y>>)'
<1>1. pc[j] = "ledger" /\ Replace(j, "ledger") /\ UNCHANGED games
  BY DEF StoreLedgers
<1>2. job[j] \in Job /\ Key(j) \in Keys /\ Key(j)[1] = job[j].method
  BY <1>1, KeyIsKey
<1>3. /\ stored'["ledger"][Key(j)] = Rows("ledger", job[j].method, walk[j])
      /\ \A u \in Tables, k \in Keys :
             u # "ledger" \/ k # Key(j) => stored'[u][k] = stored[u][k]
  BY <1>1, ReplaceFacts DEF Tables
<1> DEFINE k == <<m, y>>
<1>4. k \in Keys /\ k[1] = m
  BY DEF Keys
<1>5. CASE y = job[j].year
  <2>1. k = Key(j)
    BY <1>5 DEF Key
  <2>2. /\ stored["ratings"][k] = walk[j] /\ walk[j] = UpToDate(k)
        /\ stored["breakdowns"][k] = Rows("breakdowns", m, walk[j])
    BY <2>1, <1>1 DEF HoldsItsYear, Storing
  <2>3. \A u \in Tables : stored'[u][k] = Rows(u, m, walk[j])
    BY <2>1, <2>2, <1>3, <1>4 DEF Tables, Rows, Fills
  <2> HIDE DEF k
  <2>4. Whole(k)'
    BY <2>3, <1>4 DEF Whole, Rows, Tables, Fills
  <2>5. stored'["ratings"][k] = UpToDate(k)
    BY <2>2, <2>3 DEF Tables, Rows, Fills
  <2> QED
    BY <2>4, <2>5 DEF k
<1>6. CASE y # job[j].year
  <2>1. y < job[j].year /\ k # Key(j)
    BY <1>2, <1>6 DEF Key, Job, Years
  <2>2. stored["ratings"][k] = UpToDate(k) /\ Whole(k)
    BY <2>1 DEF RangeSoFar, Rated
  <2>3. \A u \in Tables : stored'[u][k] = stored[u][k]
    BY <1>3, <1>4, <2>1
  <2> HIDE DEF k
  <2>4. stored'["ratings"][k] = UpToDate(k) /\ Whole(k)'
    BY <2>2, <2>3 DEF Whole, Tables
  <2> QED
    BY <2>4 DEF k
<1> QED
  BY <1>5, <1>6

\* Storing disturbs every other run.
LEMMA StoresDisturb ==
    ASSUME NEW i \in Jobs, NEW j \in Jobs, i # j,
           StoreRatings(i) \/ StoreBreakdowns(i) \/ StoreLedgers(i)
    PROVE  ~quiet'[j]
BY DEF StoreRatings, StoreBreakdowns, StoreLedgers, Disturb, Others

\* The steps of another run that store nothing.
LEMMA OtherKeepsUpToDate ==
    ASSUME IInv, QuietRunsAreUpToDate, NEW i \in Jobs, NEW j \in Jobs, i # j,
           Start(i) \/ LoadGames(i) \/ Rank(i) \/ Die(i), quiet'[j], pc'[j] # "idle"
    PROVE  HoldsItsYear(j)' /\ RangeSoFar(j)'
<1>1. /\ pc'[j] = pc[j] /\ job'[j] = job[j] /\ walk'[j] = walk[j] /\ quiet'[j] = quiet[j]
      /\ UNCHANGED <<games, stored>>
  BY DEF Start, LoadGames, Rank, Die, Goto, IInv, TypeOK
<1> QED
  BY <1>1, UndisturbedStaysUpToDate DEF QuietRunsAreUpToDate

LEMMA StartIsUpToDate ==
    ASSUME IInv, NEW j \in Jobs, Start(j)
    PROVE  HoldsItsYear(j)' /\ RangeSoFar(j)'
<1>1. pc'[j] = "load" /\ job'[j].first = job'[j].year /\ job'[j].first \in Years
  BY DEF Start, Goto, IInv, TypeOK
<1>2. RangeSoFar(j)'
  BY <1>1 DEF RangeSoFar, Years
<1> QED
  BY <1>1, <1>2 DEF HoldsItsYear, Storing

\* The year's games are loaded; UpToDate(Key(j)) is what they make.
LEMMA LoadKeepsUpToDate ==
    ASSUME IInv, NEW j \in Jobs, LoadGames(j), RangeSoFar(j)
    PROVE  HoldsItsYear(j)' /\ RangeSoFar(j)'
<1> DEFINE m == job[j].method
           y == job[j].year
<1>1. /\ pc[j] = "load" /\ UNCHANGED <<games, stored, job>>
      /\ walk'[j] = IF games[y] = 0 THEN None
                    ELSE [games |-> [x \in History(m, y) |-> games[x]], fbs |-> 0]
      /\ pc'[j] = IF games[y] = 0 THEN "ratings" ELSE "rank"
  BY DEF LoadGames, Goto, IInv, TypeOK
<1>2. m \in Methods /\ y \in Years /\ Key(j) = <<m, y>>
  BY <1>1, KeyIsKey DEF Job, Key
<1>3. Key(j)' = Key(j) /\ UpToDate(Key(j))' = UpToDate(Key(j))
  BY <1>1 DEF Key, UpToDate
<1>4. CASE games[y] = 0
  <2>1. UpToDate(Key(j)) = None
    BY <1>2, <1>4 DEF UpToDate
  <2> QED
    BY <1>1, <1>3, <1>4, <2>1 DEF HoldsItsYear, RangeSoFar, Rated, Whole, UpToDate, Storing
<1>5. CASE games[y] # 0
  <2>1. UpToDate(Key(j)).games = [x \in History(m, y) |-> games[x]]
    BY <1>2, <1>5, LoadIsUpToDate DEF UpToDate
  <2>2. pc'[j] = "rank" /\ walk'[j].games = UpToDate(Key(j)).games
    BY <1>1, <1>5, <2>1
  <2>3. HoldsItsYear(j)'
    BY <1>1, <1>3, <1>5, <2>2 DEF HoldsItsYear, Storing
  <2>4. RangeSoFar(j)'
    BY <1>1 DEF RangeSoFar, Rated, Whole, UpToDate
  <2> QED
    BY <2>3, <2>4
<1> QED
  BY <1>4, <1>5

LEMMA RankKeepsUpToDate ==
    ASSUME IInv, NEW j \in Jobs, Rank(j), HoldsItsYear(j), RangeSoFar(j)
    PROVE  HoldsItsYear(j)' /\ RangeSoFar(j)'
<1> DEFINE w == walk[j]
           f == games[job[j].year]
<1>1. /\ pc[j] = "rank" /\ pc'[j] = "ratings" /\ UNCHANGED <<games, stored, job>>
      /\ walk'[j] = [w EXCEPT !.fbs = f]
  BY DEF Rank, Goto, IInv, TypeOK
<1>2. w \in Walk /\ f # 0 /\ w.games = UpToDate(Key(j)).games
  BY <1>1 DEF IInv, RunsHaveArguments, HoldsItsYear
<1>3. UpToDate(Key(j)) = [games |-> UpToDate(Key(j)).games, fbs |-> f]
  BY <1>2 DEF UpToDate, Key
<1>4. [w EXCEPT !.fbs = f] = [games |-> w.games, fbs |-> f]
  BY <1>2 DEF Walk
<1>5. walk'[j] = UpToDate(Key(j))
  BY <1>1, <1>2, <1>3, <1>4
<1>6. UpToDate(Key(j))' = UpToDate(Key(j))
  BY <1>1 DEF Key, UpToDate
<1>7. HoldsItsYear(j)'
  BY <1>1, <1>5, <1>6 DEF HoldsItsYear, Storing
<1>8. RangeSoFar(j)'
  BY <1>1 DEF RangeSoFar, Rated, Whole, UpToDate
<1> QED
  BY <1>7, <1>8

LEMMA FirstStoresKeepUpToDate ==
    ASSUME IInv, NEW j \in Jobs, StoreRatings(j) \/ StoreBreakdowns(j),
           HoldsItsYear(j), RangeSoFar(j)
    PROVE  HoldsItsYear(j)' /\ RangeSoFar(j)'
<1>1. Key(j)' = Key(j) /\ UpToDate(Key(j))' = UpToDate(Key(j)) /\ UNCHANGED <<games, job, walk>>
  BY DEF StoreRatings, StoreBreakdowns, Key, UpToDate
<1>2. CASE StoreRatings(j)
  <2>1. pc[j] = "ratings" /\ pc'[j] = "breakdowns" /\ Replace(j, "ratings")
    BY <1>2 DEF StoreRatings, Goto, IInv, TypeOK
  <2>2. stored'["ratings"][Key(j)] = walk[j]
    BY <2>1, ReplaceFacts DEF Tables, Rows, Fills
  <2>3. HoldsItsYear(j)'
    BY <1>1, <2>1, <2>2 DEF HoldsItsYear, Storing
  <2>4. RangeSoFar(j)'
    BY <1>1, <2>1, StoreKeepsRangeSoFar DEF Tables
  <2> QED
    BY <2>3, <2>4
<1>3. CASE StoreBreakdowns(j)
  <2>1. pc[j] = "breakdowns" /\ pc'[j] = "ledger" /\ Replace(j, "breakdowns")
    BY <1>3 DEF StoreBreakdowns, Goto, IInv, TypeOK
  <2>2. /\ stored'["breakdowns"][Key(j)] = Rows("breakdowns", job[j].method, walk[j])
        /\ stored'["ratings"][Key(j)] = stored["ratings"][Key(j)]
    BY <2>1, ReplaceFacts, KeyIsKey DEF Tables
  <2>3. HoldsItsYear(j)'
    BY <1>1, <2>1, <2>2 DEF HoldsItsYear, Storing, Rows
  <2>4. RangeSoFar(j)'
    BY <1>1, <2>1, StoreKeepsRangeSoFar DEF Tables
  <2> QED
    BY <2>3, <2>4
<1> QED
  BY <1>2, <1>3

\* On to the next year, with the one just stored behind it.
LEMMA LastStoreKeepsUpToDate ==
    ASSUME IInv, NEW j \in Jobs, StoreLedgers(j), HoldsItsYear(j), RangeSoFar(j),
           pc'[j] # "idle"
    PROVE  HoldsItsYear(j)' /\ RangeSoFar(j)'
<1> DEFINE m == job[j].method
<1>1. pc[j] = "ledger" /\ job[j] \in Job
  BY KeyIsKey DEF StoreLedgers
<1>2. pc'[j] = "load" /\ job' = [job EXCEPT ![j].year = @ + 1] /\ games' = games
  BY DEF StoreLedgers, NextYear, Goto, IInv, TypeOK
<1>3. /\ job'[j].first = job[j].first /\ job'[j].method = m
      /\ job'[j].year = job[j].year + 1 /\ m \in Methods
  BY <1>1, <1>2 DEF IInv, TypeOK, Job
<1>4. ASSUME NEW n \in Methods, n = m,
             NEW y \in Years, job'[j].first <= y, y < job'[j].year
      PROVE  Rated(n, y)'
  <2>1. job[j].first <= y /\ y <= job[j].year
    BY <1>1, <1>3, <1>4 DEF Job, Years
  <2>2. stored'["ratings"][<<n, y>>] = UpToDate(<<n, y>>) /\ Whole(<<n, y>>)'
    BY <1>4, <2>1, LastStoreRates
  <2>3. UpToDate(<<n, y>>)' = UpToDate(<<n, y>>)
    BY <1>2 DEF UpToDate
  <2> QED
    BY <2>2, <2>3 DEF Rated
<1>5. RangeSoFar(j)'
  BY <1>3, <1>4 DEF RangeSoFar
<1>6. HoldsItsYear(j)'
  BY <1>2 DEF HoldsItsYear, Storing
<1> QED
  BY <1>5, <1>6

LEMMA InitIsUpToDate == Init => QuietRunsAreUpToDate
BY DEF Init, QuietRunsAreUpToDate

LEMMA NextKeepsUpToDate == IInv /\ QuietRunsAreUpToDate /\ [Next]_vars => QuietRunsAreUpToDate'
<1> SUFFICES ASSUME IInv, QuietRunsAreUpToDate, [Next]_vars,
                    NEW j \in Jobs, quiet'[j], pc'[j] # "idle"
             PROVE  HoldsItsYear(j)' /\ RangeSoFar(j)'
  BY DEF QuietRunsAreUpToDate
<1> DEFINE Goal == HoldsItsYear(j)' /\ RangeSoFar(j)'
<1>1. ASSUME NEW y \in Years, Ingest(y) PROVE Goal
  BY <1>1 DEF Ingest, Disturb
<1>2. ASSUME NEW i \in Jobs, i # j,
             \/ Start(i) \/ LoadGames(i) \/ Rank(i) \/ Die(i)
             \/ StoreRatings(i) \/ StoreBreakdowns(i) \/ StoreLedgers(i)
      PROVE  Goal
  BY <1>2, OtherKeepsUpToDate, StoresDisturb
<1>3. ASSUME \/ LoadGames(j) \/ Rank(j)
             \/ StoreRatings(j) \/ StoreBreakdowns(j) \/ StoreLedgers(j)
      PROVE  quiet[j] /\ pc[j] # "idle"
  BY <1>3
  DEF LoadGames, Rank, StoreRatings, StoreBreakdowns, StoreLedgers, Disturb
<1>4. CASE Start(j)
  BY <1>4, StartIsUpToDate
<1>5. CASE LoadGames(j)
  BY <1>3, <1>5, LoadKeepsUpToDate DEF QuietRunsAreUpToDate
<1>6. CASE Rank(j)
  BY <1>3, <1>6, RankKeepsUpToDate DEF QuietRunsAreUpToDate
<1>7. CASE StoreRatings(j) \/ StoreBreakdowns(j)
  BY <1>3, <1>7, FirstStoresKeepUpToDate DEF QuietRunsAreUpToDate
<1>8. CASE StoreLedgers(j)
  BY <1>3, <1>8, LastStoreKeepsUpToDate DEF QuietRunsAreUpToDate
<1>9. CASE Die(j)
  BY <1>9 DEF Die, Goto, IInv, TypeOK
<1>10. CASE UNCHANGED vars
  BY <1>10, UndisturbedStaysUpToDate DEF vars, QuietRunsAreUpToDate
<1> QED
  BY <1>1, <1>2, <1>4, <1>5, <1>6, <1>7, <1>8, <1>9, <1>10 DEF Next

LEMMA LastStoreIsUpToDate ==
    ASSUME IInv, QuietRunsAreUpToDate, NEW j \in Jobs,
           StoreLedgers(j), quiet[j], job[j].year = job[j].last,
           NEW y \in job[j].first..job[j].last
    PROVE  LET k == <<job[j].method, y>> IN
               /\ stored'["ratings"][k] = UpToDate(k)
               /\ Whole(k)'
<1>1. pc[j] = "ledger" /\ job[j] \in Job
  BY KeyIsKey DEF StoreLedgers
<1>2. HoldsItsYear(j) /\ RangeSoFar(j)
  BY <1>1 DEF QuietRunsAreUpToDate
<1>3. job' = job
  BY <1>1 DEF StoreLedgers, NextYear, Job, Years
<1>4. y \in Years /\ job[j].first <= y /\ y <= job[j].year /\ job[j].method \in Methods
  BY <1>1, YearAssumption DEF Job, Years
<1>5. ASSUME NEW m \in Methods, m = job[j].method
      PROVE  /\ stored'["ratings"][<<m, y>>] = UpToDate(<<m, y>>)
             /\ Whole(<<m, y>>)'
  BY <1>2, <1>4, <1>5, LastStoreRates
<1> QED
  BY <1>3, <1>4, <1>5

\* A run over a range of years that nobody else wrote beside leaves every year of
\* it whole and rated from the games there are, careers included, whatever was
\* there before it.
THEOREM QuietRangeIsUpToDate == Spec => RangeIsUpToDate
<1>1. Spec => []QuietRunsAreUpToDate
  BY InitIsUpToDate, NextKeepsUpToDate, IInvHolds, PTL DEF Spec
<1>2. IInv /\ QuietRunsAreUpToDate /\ [Next]_vars =>
        \A j \in Jobs :
          StoreLedgers(j) /\ quiet[j] /\ job[j].year = job[j].last =>
              \A y \in job[j].first..job[j].last :
                  LET k == <<job[j].method, y>> IN
                      /\ stored'["ratings"][k] = UpToDate(k)
                      /\ Whole(k)'
  BY LastStoreIsUpToDate
<1> QED
  BY <1>1, <1>2, IInvHolds, PTL DEF Spec, RangeIsUpToDate
=============================================================================
