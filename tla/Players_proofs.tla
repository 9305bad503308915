---------------------------- MODULE Players_proofs ---------------------------
(***************************************************************************)
(* Proofs about the two parts that make and tell the player data: its      *)
(* ingest (PlayerIngest), for every set of persons, every assignment of    *)
(* ids (collisions included) and any number of seasons, and a quarterback  *)
(* narration (QbNarration), for every player data, palette of claims and   *)
(* length of text.                                                         *)
(*                                                                         *)
(* The argument of the ingest: until a season commits, what the connection *)
(* sees is a function of what is committed, which IInv names step by step; *)
(* the check of ids makes that function agree with the rows the other      *)
(* seasons left.                                                           *)
(*                                                                         *)
(* The argument of what a narration reads: the name a reader has read last *)
(* is of the player the walk of the check turned to last, by induction     *)
(* along the text, and a figure printed without a name is let through only *)
(* after that player.                                                      *)
(*                                                                         *)
(* The argument of what it states: TablesInv, that a season built again    *)
(* leaves the keys and references of the tables, and BlockInv, that an     *)
(* open block is what the tables still say.  A sum over a finite set does  *)
(* not depend on an order or on names, so a career's composites add to     *)
(* its seasons' and its peak to their best choice; a start names its game, *)
(* so records recount the games; and the words of a verdict reach no       *)
(* further than their sentence.                                            *)
(*                                                                         *)
(* The argument of a season's ratings: games listed by their places are    *)
(* each once there, the walk over them is its steps, and SeasonTold, of    *)
(* the games walked so far, is kept by one more.                           *)
(*                                                                         *)
(* The argument of the pages: a board is the list of its population in the *)
(* order of its values, which are fractions or none, so that those above a *)
(* player come before him; a place is on one page, in one row.             *)
(*                                                                         *)
(* The argument of a career: its walk and the walk over the same games     *)
(* under their franchises' last names stay in step, with one slot for each *)
(* franchise, until two teams of a season meet in one; a chain that moves  *)
(* more often than it has pairs has been somewhere twice.                  *)
(***************************************************************************)
EXTENDS PlayerIngest, SeasonRatings, FiniteSetTheorems, WellFoundedInduction, TLAPS

Building == {"check", "clear", "write", "prune"}

\* The id each row of a season would be given belongs to its person.
IdsAreFree(tables) == \A p \in build : tables.gsis[Mint[p]] \in {Nobody, p}

OneEach == \A p, q \in build : Mint[p] = Mint[q] => p = q

Cleared(tables) == [tables EXCEPT !.refs = [tables.refs EXCEPT ![season] = {}]]

\* What WriteRows makes of the committed tables.
WrittenPlayers(tables) ==
    [i \in Ids |-> IF Minted(i) = {} THEN tables.players[i]
                   ELSE Name(CHOOSE p \in Minted(i) : TRUE)]
WrittenGsis(tables) ==
    [i \in Ids |-> IF Minted(i) = {} THEN tables.gsis[i]
                   ELSE CHOOSE p \in Minted(i) : TRUE]
WrittenTables(tables) ==
    [refs    |-> [tables.refs EXCEPT ![season] = build],
     players |-> WrittenPlayers(tables),
     gsis    |-> WrittenGsis(tables)]

\* What the connection sees, at each step of a season.
WorkFollowsDisk ==
    /\ pc \in {"idle", "load", "check", "clear"} => work = disk
    /\ pc = "write" => work = Cleared(disk)
    /\ pc = "prune" => work = WrittenTables(disk)

\* What the run holds is what it read, checked.
BuildIsChecked ==
    /\ pc # "idle" => roster = files.csv
    /\ pc \in Building => OneEach /\ build = files.lines[season]
    /\ pc \in {"clear", "write", "prune"} => IdsAreFree(disk)

\* The season committed last is named as it would be again.
LatestIsNamed ==
    latest # 0 =>
        /\ disk.refs[latest] = files.lines[latest]
        /\ \A p \in files.lines[latest] :
              disk.players[Mint[p]] = IF p \in files.csv THEN FromRoster ELSE latest

IInv ==
    /\ TypeOK
    /\ WorkFollowsDisk
    /\ BuildIsChecked
    /\ LatestIsNamed
    /\ StatsBelongToTheirPlayers
    /\ SeasonIsItsLastBuild

-----------------------------------------------------------------------------
LEMMA SeasonsArePositive == 1 \in Seasons /\ 0 \notin Seasons /\ NoName \notin Names
BY SeasonAssumption DEF Seasons, Names, NoName, FromRoster

LEMMA EmptyIsTables == Empty \in Tables
BY DEF Empty, Tables

LEMMA InitEstablishesIInv == Init => IInv
<1> SUFFICES ASSUME Init PROVE IInv
  OBVIOUS
<1>1. TypeOK
  BY SeasonsArePositive, EmptyIsTables DEF Init, TypeOK, Steps
<1>2. StatsBelongToTheirPlayers /\ SeasonIsItsLastBuild
  BY DEF Init, Empty, StatsBelongToTheirPlayers, SeasonIsItsLastBuild
<1> QED
  BY <1>1, <1>2 DEF Init, IInv, WorkFollowsDisk, BuildIsChecked, LatestIsNamed, Building

\* What a season's write makes of the tables is of their types, and gives each
\* id of the build to the one person it is minted for.
LEMMA WriteNamesThePerson ==
    ASSUME TypeOK, OneEach, NEW tables \in Tables
    PROVE  /\ \A p \in build : /\ WrittenGsis(tables)[Mint[p]] = p
                               /\ WrittenPlayers(tables)[Mint[p]] = Name(p)
           /\ \A i \in Ids : Minted(i) = {} =>
                 /\ WrittenGsis(tables)[i] = tables.gsis[i]
                 /\ WrittenPlayers(tables)[i] = tables.players[i]
           /\ WrittenTables(tables) \in Tables
<1>1. build \subseteq Persons /\ season \in Seasons
  BY DEF TypeOK
<1>2. \A i \in Ids : Minted(i) # {} =>
         (CHOOSE p \in Minted(i) : TRUE) \in build /\ Mint[CHOOSE p \in Minted(i) : TRUE] = i
  BY DEF Minted
<1>3. \A p \in build : Mint[p] \in Ids /\ Minted(Mint[p]) # {}
                       /\ (CHOOSE q \in Minted(Mint[p]) : TRUE) = p
  <2> TAKE p \in build
  <2>1. Mint[p] \in Ids /\ p \in Minted(Mint[p])
    BY <1>1, MintAssumption DEF Minted
  <2> QED
    BY <1>2, <2>1 DEF OneEach
<1>4. \A p \in build : Name(p) \in Names
  BY <1>1 DEF Name, Names
<1>5. /\ tables.refs \in [Seasons -> SUBSET Persons]
      /\ tables.players \in [Ids -> Names \cup {NoName}]
      /\ tables.gsis \in [Ids -> Persons \cup {Nobody}]
  BY DEF Tables
<1>6. WrittenPlayers(tables) \in [Ids -> Names \cup {NoName}]
  BY <1>2, <1>4, <1>5 DEF WrittenPlayers
<1>7. WrittenGsis(tables) \in [Ids -> Persons \cup {Nobody}]
  BY <1>1, <1>2, <1>5 DEF WrittenGsis
<1>8. [tables.refs EXCEPT ![season] = build] \in [Seasons -> SUBSET Persons]
  BY <1>1, <1>5
<1>9. WrittenTables(tables) \in Tables
  BY <1>6, <1>7, <1>8 DEF WrittenTables, Tables
<1>10. \A p \in build : /\ WrittenGsis(tables)[Mint[p]] = p
                        /\ WrittenPlayers(tables)[Mint[p]] = Name(p)
  BY <1>3 DEF WrittenGsis, WrittenPlayers
<1>11. \A i \in Ids : Minted(i) = {} =>
         /\ WrittenGsis(tables)[i] = tables.gsis[i]
         /\ WrittenPlayers(tables)[i] = tables.players[i]
  BY DEF WrittenGsis, WrittenPlayers
<1> QED
  BY <1>9, <1>10, <1>11

LEMMA PrunedIsTables == ASSUME NEW tables \in Tables PROVE Pruned(tables) \in Tables
BY DEF Pruned, Tables

\* Going on to another season, or stopping, forgets what the step held.
LEMMA NextSeasonGoesOn ==
    ASSUME TypeOK, NextSeason
    PROVE  /\ pc' \in {"load", "idle"} /\ season' \in Seasons
           /\ build' \in SUBSET Persons /\ roster' \in SUBSET Persons
           /\ pc' # "idle" => roster' = roster
BY SeasonAssumption DEF NextSeason, Forget, TypeOK, Seasons

\* A step that leaves the committed tables, the files and the history alone.
LEMMA UncommittedStep ==
    ASSUME IInv, UNCHANGED <<disk, files, built, latest>>,
           TypeOK', WorkFollowsDisk', BuildIsChecked'
    PROVE  IInv'
BY DEF IInv, LatestIsNamed, StatsBelongToTheirPlayers, Referenced, SeasonIsItsLastBuild

-----------------------------------------------------------------------------
LEMMA IngestGamesKeepsIInv == ASSUME IInv, IngestGames PROVE IInv'
<1>1. /\ games' \in SUBSET Seasons
      /\ UNCHANGED <<files, disk, work, pc, season, roster, build, built, latest>>
  BY DEF IngestGames, IInv, TypeOK
<1>2. TypeOK'
  BY <1>1 DEF IInv, TypeOK
<1>3. WorkFollowsDisk' /\ BuildIsChecked'
  BY <1>1 DEF IInv, WorkFollowsDisk, BuildIsChecked, Cleared, WrittenTables, WrittenPlayers,
              WrittenGsis, Minted, Name, OneEach, IdsAreFree
<1> QED
  BY <1>1, <1>2, <1>3, UncommittedStep

LEMMA RefetchKeepsIInv == ASSUME IInv, Refetch PROVE IInv'
<1>1. /\ pc = "idle"  /\ latest' = 0
      /\ UNCHANGED <<games, disk, work, pc, season, roster, build, built>>
  BY DEF Refetch
<1>2. files' \in Files
  BY DEF Refetch, IInv, TypeOK, Files
<1>3. TypeOK'
  BY <1>1, <1>2 DEF IInv, TypeOK
<1>4. WorkFollowsDisk' /\ BuildIsChecked' /\ LatestIsNamed'
  BY <1>1 DEF IInv, WorkFollowsDisk, BuildIsChecked, LatestIsNamed, Building
<1>5. StatsBelongToTheirPlayers' /\ SeasonIsItsLastBuild'
  BY <1>1 DEF IInv, StatsBelongToTheirPlayers, Referenced, SeasonIsItsLastBuild
<1> QED
  BY <1>3, <1>4, <1>5 DEF IInv

LEMMA StartKeepsIInv == ASSUME IInv, Start PROVE IInv'
<1>1. /\ pc = "idle"  /\ pc' = "load"  /\ season' \in Seasons  /\ roster' = files.csv
      /\ UNCHANGED <<games, files, disk, work, build, built, latest>>
  BY DEF Start
<1>2. TypeOK'
  BY <1>1 DEF IInv, TypeOK, Steps, Files
<1>3. WorkFollowsDisk' /\ BuildIsChecked'
  BY <1>1 DEF IInv, WorkFollowsDisk, BuildIsChecked, Building
<1> QED
  BY <1>1, <1>2, <1>3, UncommittedStep

LEMMA LoadKeepsIInv == ASSUME IInv, Load PROVE IInv'
<1>1. /\ pc = "load"  /\ pc' = "check"  /\ build' = files.lines[season]
      /\ \A p, q \in files.lines[season] : Mint[p] = Mint[q] => p = q
      /\ UNCHANGED <<games, files, disk, work, season, roster, built, latest>>
  BY DEF Load
<1>2. TypeOK'
  BY <1>1 DEF IInv, TypeOK, Steps, Files
<1>3. WorkFollowsDisk' /\ BuildIsChecked'
  BY <1>1 DEF IInv, WorkFollowsDisk, BuildIsChecked, Building, OneEach
<1> QED
  BY <1>1, <1>2, <1>3, UncommittedStep

\* Every step that gives a season up leaves the connection at what is committed.
LEMMA GivenUp ==
    ASSUME IInv, pc' \in {"load", "idle"}, season' \in Seasons,
           build' \in SUBSET Persons, roster' \in SUBSET Persons,
           pc' # "idle" => roster' = files.csv,
           work' = disk, UNCHANGED <<games, files, disk, built, latest>>
    PROVE  IInv'
<1>1. TypeOK'
  BY DEF IInv, TypeOK, Steps
<1>2. WorkFollowsDisk' /\ BuildIsChecked'
  BY DEF WorkFollowsDisk, BuildIsChecked, Building
<1> QED
  BY <1>1, <1>2, UncommittedStep

LEMMA LoadFailsKeepsIInv == ASSUME IInv, LoadFails PROVE IInv'
<1>1. /\ pc = "load" /\ NextSeason /\ UNCHANGED <<games, files, disk, work, built, latest>>
  BY DEF LoadFails
<1>2. work' = disk /\ roster = files.csv
  BY <1>1 DEF IInv, WorkFollowsDisk, BuildIsChecked
<1> QED
  BY <1>1, <1>2, NextSeasonGoesOn, GivenUp DEF IInv

LEMMA FailKeepsIInv == ASSUME IInv, Fail PROVE IInv'
<1>1. /\ pc \in Building /\ NextSeason /\ work' = disk
      /\ UNCHANGED <<games, files, disk, built, latest>>
  BY DEF Fail, Building
<1>2. roster = files.csv
  BY <1>1 DEF IInv, BuildIsChecked, Building
<1> QED
  BY <1>1, <1>2, NextSeasonGoesOn, GivenUp DEF IInv

LEMMA DieKeepsIInv == ASSUME IInv, Die PROVE IInv'
<1>1. /\ pc' = "idle" /\ work' = disk /\ roster' = {} /\ build' = {}
      /\ UNCHANGED <<games, files, disk, season, built, latest>>
  BY DEF Die, Forget
<1>2. season' \in Seasons
  BY <1>1 DEF IInv, TypeOK
<1> QED
  BY <1>1, <1>2, GivenUp

LEMMA CheckKeepsIInv == ASSUME IInv, Check PROVE IInv'
<1>1. /\ pc = "check"  /\ pc' = "clear"  /\ \A p \in build : ~HeldByAnother(p)
      /\ UNCHANGED <<games, files, disk, work, season, roster, build, built, latest>>
  BY DEF Check
<1>2. TypeOK'
  BY <1>1 DEF IInv, TypeOK, Steps
<1>3. IdsAreFree(disk)
  BY <1>1 DEF IInv, WorkFollowsDisk, HeldByAnother, IdsAreFree
<1>4. WorkFollowsDisk' /\ BuildIsChecked'
  BY <1>1, <1>3 DEF IInv, WorkFollowsDisk, BuildIsChecked, Building, OneEach, IdsAreFree
<1> QED
  BY <1>1, <1>2, <1>4, UncommittedStep

LEMMA ClearKeepsIInv == ASSUME IInv, Clear PROVE IInv'
<1>1. /\ pc = "clear"  /\ pc' = "write"
      /\ work' = [work EXCEPT !.refs[season] = {}]
      /\ UNCHANGED <<games, files, disk, season, roster, build, built, latest>>
  BY DEF Clear
<1>2. work = disk /\ disk \in Tables
  BY <1>1 DEF IInv, TypeOK, WorkFollowsDisk
<1>3. work' = Cleared(disk)
  BY <1>1, <1>2 DEF Cleared, Tables
<1>4. TypeOK'
  BY <1>1, <1>2, <1>3 DEF IInv, TypeOK, Steps, Tables, Cleared
<1>5. WorkFollowsDisk' /\ BuildIsChecked'
  BY <1>1, <1>3 DEF IInv, WorkFollowsDisk, BuildIsChecked, Building, OneEach, IdsAreFree, Cleared
<1> QED
  BY <1>1, <1>4, <1>5, UncommittedStep

LEMMA WriteKeepsIInv == ASSUME IInv, WriteRows PROVE IInv'
<1>1. /\ pc = "write"  /\ pc' = "prune"
      /\ work' = [refs    |-> [work.refs EXCEPT ![season] = build],
                  players |-> WrittenPlayers(work), gsis |-> WrittenGsis(work)]
      /\ UNCHANGED <<games, files, disk, season, roster, build, built, latest>>
  BY DEF WriteRows, WrittenPlayers, WrittenGsis
<1>2. work = Cleared(disk) /\ disk \in Tables /\ OneEach /\ TypeOK
  BY <1>1 DEF IInv, TypeOK, WorkFollowsDisk, BuildIsChecked, Building
<1>3. /\ work.players = disk.players /\ work.gsis = disk.gsis
      /\ work.refs = [disk.refs EXCEPT ![season] = {}]
  BY <1>2 DEF Cleared, Tables
<1>4. [work.refs EXCEPT ![season] = build] = [disk.refs EXCEPT ![season] = build]
  BY <1>2, <1>3 DEF TypeOK, Tables
<1>5. WrittenPlayers(work) = WrittenPlayers(disk) /\ WrittenGsis(work) = WrittenGsis(disk)
  BY <1>3 DEF WrittenPlayers, WrittenGsis
<1>6. work' = WrittenTables(disk)
  BY <1>1, <1>4, <1>5 DEF WrittenTables
<1>7. WrittenTables(disk) \in Tables
  BY <1>2, WriteNamesThePerson
<1>8. TypeOK'
  BY <1>1, <1>2, <1>6, <1>7 DEF TypeOK, Steps
<1>9. WrittenTables(disk)' = WrittenTables(disk)
  BY <1>1 DEF WrittenTables, WrittenPlayers, WrittenGsis, Minted, Name
<1>10. WorkFollowsDisk' /\ BuildIsChecked'
  BY <1>1, <1>6, <1>9 DEF IInv, WorkFollowsDisk, BuildIsChecked, Building, OneEach, IdsAreFree
<1> QED
  BY <1>1, <1>8, <1>10, UncommittedStep

\* Every row of what a season commits belongs to its person: his own rows
\* because WriteRows named him, the other seasons' because no id of the build was
\* another's.
LEMMA CommittedRowsAreTheirs ==
    ASSUME IInv, pc = "prune", NEW y \in Seasons, NEW p \in WrittenTables(disk).refs[y]
    PROVE  /\ p \in Persons /\ Mint[p] \in Ids
           /\ WrittenTables(disk).gsis[Mint[p]] = p /\ WrittenTables(disk).players[Mint[p]] # NoName
<1>1. /\ TypeOK /\ disk \in Tables /\ OneEach /\ IdsAreFree(disk) /\ build \subseteq Persons
  BY DEF IInv, TypeOK, BuildIsChecked, Building
<1>2. disk.refs \in [Seasons -> SUBSET Persons]
  BY <1>1 DEF Tables
<1>3. CASE p \in build
  <2>1. WrittenTables(disk).gsis[Mint[p]] = p /\ WrittenTables(disk).players[Mint[p]] = Name(p)
    BY <1>1, <1>3, WriteNamesThePerson DEF WrittenTables
  <2>2. Name(p) # NoName
    BY <1>1, SeasonsArePositive DEF Name, Names, TypeOK
  <2> QED
    BY <1>1, <1>3, <2>1, <2>2, MintAssumption
<1>4. CASE p \notin build
  <2>1. p \in disk.refs[y] /\ p \in Persons /\ Mint[p] \in Ids
    BY <1>2, <1>4, MintAssumption DEF WrittenTables
  <2>2. disk.gsis[Mint[p]] = p /\ disk.players[Mint[p]] # NoName
    BY <2>1 DEF IInv, StatsBelongToTheirPlayers
  <2>3. Minted(Mint[p]) = {}
    <3>1. \A q \in build : Mint[q] = Mint[p] => q = p
      BY <1>1, <2>1, <2>2, NobodyAssumption DEF IdsAreFree
    <3> QED
      BY <1>4, <3>1 DEF Minted
  <2> QED
    BY <1>1, <2>1, <2>2, <2>3, WriteNamesThePerson DEF WrittenTables
<1> QED
  BY <1>3, <1>4

LEMMA PruneKeepsIInv == ASSUME IInv, Prune PROVE IInv'
<1> DEFINE W == WrittenTables(disk)
<1>1. /\ pc = "prune"  /\ work' = Pruned(work)  /\ disk' = Pruned(work)
      /\ built' = [built EXCEPT ![season] = build]  /\ latest' = season
      /\ NextSeason  /\ UNCHANGED <<games, files>>
  BY DEF Prune
<1>2. /\ TypeOK /\ disk \in Tables /\ work = W /\ OneEach /\ season \in Seasons
      /\ build = files.lines[season] /\ roster = files.csv /\ build \subseteq Persons
  BY <1>1 DEF IInv, TypeOK, WorkFollowsDisk, BuildIsChecked, Building
<1>3. /\ W \in Tables
      /\ \A p \in build : W.players[Mint[p]] = Name(p)
  BY <1>2, WriteNamesThePerson DEF WrittenTables
<1>4. W.refs = [disk.refs EXCEPT ![season] = build] /\ W.refs[season] = build
  BY <1>2 DEF WrittenTables, Tables
<1>5. \A y \in Seasons : \A p \in W.refs[y] :
         /\ p \in Persons /\ Mint[p] \in Ids
         /\ W.gsis[Mint[p]] = p /\ W.players[Mint[p]] # NoName
  BY <1>1, CommittedRowsAreTheirs
<1> HIDE DEF W
<1>6. /\ disk'.refs = W.refs
      /\ \A i \in Ids : IF Referenced(W, i)
                        THEN disk'.players[i] = W.players[i] /\ disk'.gsis[i] = W.gsis[i]
                        ELSE disk'.players[i] = NoName /\ disk'.gsis[i] = Nobody
  BY <1>1, <1>2 DEF Pruned
<1>7. \A y \in Seasons : \A p \in W.refs[y] :
         disk'.gsis[Mint[p]] = p /\ disk'.players[Mint[p]] = W.players[Mint[p]]
  BY <1>5, <1>6 DEF Referenced
<1>8. TypeOK'
  <2>1. Pruned(W) \in Tables
    BY <1>3, PrunedIsTables
  <2>2. built' \in [Seasons -> SUBSET Persons]
    BY <1>1, <1>2 DEF TypeOK
  <2> QED
    BY <1>1, <1>2, <2>1, <2>2, NextSeasonGoesOn DEF TypeOK, Steps
<1>9. WorkFollowsDisk' /\ BuildIsChecked'
  BY <1>1, <1>2, NextSeasonGoesOn DEF WorkFollowsDisk, BuildIsChecked, Building
<1>10. LatestIsNamed'
  <2>1. \A p \in build : disk'.players[Mint[p]] = Name(p)
    BY <1>2, <1>3, <1>4, <1>7
  <2>2. \A p \in build : disk'.players[Mint[p]] = IF p \in files.csv THEN FromRoster ELSE season
    BY <1>2, <2>1 DEF Name
  <2> QED
    BY <1>1, <1>2, <1>4, <1>6, <2>2 DEF LatestIsNamed
<1>11. StatsBelongToTheirPlayers'
  <2>1. \A y \in Seasons : \A p \in disk'.refs[y] :
          disk'.gsis[Mint[p]] = p /\ disk'.players[Mint[p]] # NoName
    BY <1>5, <1>6, <1>7
  <2>2. \A i \in Ids : Referenced(W, i) => Referenced(disk', i)
    BY <1>6 DEF Referenced
  <2>3. \A i \in Ids : disk'.gsis[i] # Nobody \/ disk'.players[i] # NoName => Referenced(disk', i)
    BY <1>6, <2>2
  <2> QED
    BY <2>1, <2>3 DEF StatsBelongToTheirPlayers, Referenced
<1>12. SeasonIsItsLastBuild'
  BY <1>1, <1>2, <1>4, <1>6 DEF IInv, SeasonIsItsLastBuild
<1> QED
  BY <1>8, <1>9, <1>10, <1>11, <1>12 DEF IInv

LEMMA StutterKeepsIInv == IInv /\ UNCHANGED vars => IInv'
<1> SUFFICES ASSUME IInv, UNCHANGED vars PROVE IInv'
  OBVIOUS
<1>1. UNCHANGED <<games, files, disk, work, pc, season, roster, build, built, latest>>
  BY DEF vars
<1>2. TypeOK'
  BY <1>1 DEF IInv, TypeOK
<1>3. WorkFollowsDisk' /\ BuildIsChecked'
  BY <1>1 DEF IInv, WorkFollowsDisk, BuildIsChecked, Cleared, WrittenTables, WrittenPlayers,
              WrittenGsis, Minted, Name, OneEach, IdsAreFree
<1> QED
  BY <1>1, <1>2, <1>3, UncommittedStep

LEMMA NextKeepsIInv == IInv /\ [Next]_vars => IInv'
<1> SUFFICES ASSUME IInv, [Next]_vars PROVE IInv'
  OBVIOUS
<1>1. CASE UNCHANGED vars
  BY <1>1, StutterKeepsIInv
<1>2. CASE IngestGames \/ Refetch \/ Start \/ Load
  BY <1>2, IngestGamesKeepsIInv, RefetchKeepsIInv, StartKeepsIInv, LoadKeepsIInv
<1>3. CASE LoadFails \/ Fail \/ Die
  BY <1>3, LoadFailsKeepsIInv, FailKeepsIInv, DieKeepsIInv
<1>4. CASE Check \/ Clear \/ WriteRows \/ Prune
  BY <1>4, CheckKeepsIInv, ClearKeepsIInv, WriteKeepsIInv, PruneKeepsIInv
<1> QED
  BY <1>1, <1>2, <1>3, <1>4 DEF Next

\* Run again over the same files, a season finds its own rows and names.
LEMMA RerunKeepsTheTables ==
    ASSUME IInv, Prune, latest = season
    PROVE  disk' = disk
<1> DEFINE W == WrittenTables(disk)
<1>1. /\ disk' = Pruned(W) /\ disk \in Tables /\ TypeOK /\ OneEach
      /\ build = files.lines[season] /\ roster = files.csv /\ season \in Seasons
  BY DEF IInv, TypeOK, WorkFollowsDisk, BuildIsChecked, Building, Prune
<1>2. /\ disk.refs[season] = build
      /\ \A p \in build : disk.players[Mint[p]] = Name(p) /\ disk.gsis[Mint[p]] = p
  BY <1>1, SeasonsArePositive DEF IInv, LatestIsNamed, StatsBelongToTheirPlayers, Name
<1>3. W.refs = disk.refs
  BY <1>1, <1>2 DEF WrittenTables, Tables
<1>4. \A i \in Ids : W.players[i] = disk.players[i] /\ W.gsis[i] = disk.gsis[i]
  <2> TAKE i \in Ids
  <2>1. CASE Minted(i) = {}
    BY <1>1, <2>1, WriteNamesThePerson DEF WrittenTables
  <2>2. CASE Minted(i) # {}
    <3>1. PICK p \in build : Mint[p] = i
      BY <2>2 DEF Minted
    <3> QED
      BY <1>1, <1>2, <3>1, WriteNamesThePerson DEF WrittenTables
  <2> QED
    BY <2>1, <2>2
<1>5. \A i \in Ids : Referenced(W, i) <=> Referenced(disk, i)
  BY <1>3 DEF Referenced
<1> HIDE DEF W
<1>6. \A i \in Ids : ~Referenced(disk, i) => disk.players[i] = NoName /\ disk.gsis[i] = Nobody
  BY DEF IInv, StatsBelongToTheirPlayers
<1>7. \A i \in Ids : /\ Pruned(W).players[i] = disk.players[i]
                     /\ Pruned(W).gsis[i] = disk.gsis[i]
  BY <1>4, <1>5, <1>6 DEF Pruned
<1>8. Pruned(W).players = disk.players /\ Pruned(W).gsis = disk.gsis
  <2>1. /\ disk.players \in [Ids -> Names \cup {NoName}]
        /\ disk.gsis \in [Ids -> Persons \cup {Nobody}]
    BY <1>1 DEF Tables
  <2>2. DOMAIN Pruned(W).players = Ids /\ DOMAIN Pruned(W).gsis = Ids
    BY DEF Pruned
  <2> QED
    BY <1>7, <2>1, <2>2 DEF Pruned
<1> QED
  BY <1>1, <1>3, <1>8 DEF Pruned, Tables

-----------------------------------------------------------------------------
LEMMA IInvHolds == Spec => []IInv
<1>1. Init => IInv
  BY InitEstablishesIInv
<1>2. IInv /\ [Next]_vars => IInv'
  BY NextKeepsIInv
<1> QED
  BY <1>1, <1>2, PTL DEF Spec

\* Every variable keeps its type, whatever fails.
THEOREM TypeCorrect == Spec => []TypeOK
<1>1. IInv => TypeOK
  BY DEF IInv
<1> QED
  BY <1>1, IInvHolds, PTL

\* Every row is attributed to the person who made it, however many persons
\* share an id (_check_gsis_ids_against_db and the prune of _write_season).
THEOREM RowsAreTheirPlayers == Spec => []StatsBelongToTheirPlayers
<1>1. IInv => StatsBelongToTheirPlayers
  BY DEF IInv
<1> QED
  BY <1>1, IInvHolds, PTL

\* A failed season leaves no trace in any season (the rollback of _ingest_year).
THEOREM SeasonsAreTheirBuilds == Spec => []SeasonIsItsLastBuild
<1>1. IInv => SeasonIsItsLastBuild
  BY DEF IInv
<1> QED
  BY <1>1, IInvHolds, PTL

\* A season run again at once changes no table, names and pruning included
\* (_write_season).
THEOREM RerunChangesNothing == Spec => RerunAtOnceIsIdentical
<1>1. IInv /\ [Next]_vars => [Prune /\ latest = season => disk' = disk]_vars
  BY RerunKeepsTheTables
<1> QED
  BY <1>1, IInvHolds, PTL DEF Spec, RerunAtOnceIsIdentical

-----------------------------------------------------------------------------
(* Least counterexamples *)

\* A set of naturals has a least element: what a proof by induction over a text
\* takes the least counterexample of.
LEMMA LeastOf ==
    ASSUME NEW T, T \subseteq Nat, T # {}
    PROVE  \E x \in T : \A y \in T : x <= y
  <1>1. PICK x \in T : \A y \in T : <<y, x>> \notin OpToRel(<, Nat)
    BY NatLessThanWellFounded, WFMin
  <1>2. \A y \in T : y \in Nat /\ x \in Nat => ~(y < x)
    BY <1>1, Zenon DEF OpToRel
  <1> QED BY <1>2

\* A bounded one has a greatest, by the least bound.
LEMMA GreatestOf ==
    ASSUME NEW T, NEW n \in Nat, T \subseteq 0 .. n, T # {}
    PROVE  Max(T) \in T /\ \A y \in T : y <= Max(T)
  <1> DEFINE B == {m \in Nat : \A y \in T : y <= m}
  <1>1. PICK m \in B : \A k \in B : m <= k
    <2>1. n \in B
      OBVIOUS
    <2> HIDE DEF B
    <2> QED BY <2>1, LeastOf DEF B
  <1>2. m \in T
    <2>1. SUFFICES ASSUME m \notin T PROVE FALSE
      OBVIOUS
    <2>2. PICK z : z \in T
      OBVIOUS
    <2>3. \A y \in T : y <= m - 1 /\ y \in Nat
      BY <1>1, <2>1
    <2>4. m - 1 \in Nat
      BY <1>1, <2>2, <2>3
    <2>5. m - 1 \in B
      BY <2>3, <2>4
    <2> QED BY <1>1, <2>5
  <1> QED BY <1>1, <1>2 DEF Max

-----------------------------------------------------------------------------
(* What an accepted text is *)

\* A resolved claim's mode, kind and side agree: only what prints no player has
\* no side.
ModeIsOfASide(c) ==
    /\ c.mode \in {"name", "attributed", "reference"} => c.side # None
    /\ c.kind = "winner" => c.mode = "reference"
    /\ c.mode = "reference" => c.kind = "winner"
    /\ c.kind = "margin" => c.mode = "attributed"
    /\ c.mode \notin {"name", "attributed", "reference"} => c.side = None

\* A text of n tokens whose slots have claims that resolve, none of them another
\* player's.
ReadsOn(prose, modes, n) ==
    /\ n \in Nat /\ DOMAIN prose = 1 .. n
    /\ \A i \in 1 .. n :
          /\ prose[i].is \in TokenKinds
          /\ prose[i].is = "name" => prose[i].of # None
          /\ prose[i].is = "slot" => prose[i].of \in DOMAIN modes
          /\ ~WrongPlayer(prose, modes, i)
    /\ \A id \in DOMAIN modes : ModeIsOfASide(modes[id])

\* The places a walk remembers.
Turns(prose, modes) ==
    {j \in DOMAIN prose : \/ prose[j].is = "name"
                          \/ OfAPlayer(prose, modes, j) /\ ~HasKind(prose, modes, j, "margin")}

\* A claim that answers has the side its mode says.
LEMMA AnsweredHasASide ==
    ASSUME NEW c, NEW b, Answers(c, b) # {}
    PROVE  ModeIsOfASide(ModeOf(c, b))
  <1> DEFINE m == ModeOf(c, b)
  <1>1. m.kind = c.kind /\ m.mode = Mode(c) /\ m.side = SideOf(c, b)
    BY DEF ModeOf
  <1>2. /\ c.kind = "winner" => Mode(c) = "reference"
        /\ Mode(c) = "reference" => c.kind = "winner"
        /\ c.kind = "margin" => Mode(c) = "attributed"
        /\ Mode(c) \in {"name", "attributed", "reference", "none"}
    BY DEF Mode
  <1>3. Mode(c) # "none" => SideOf(c, b) # None
    <2>1. CASE c.kind = "winner"
      <3>1. Answers(c, b) = WinnerAnswers(c, b)
        BY <2>1 DEF Answers
      <3>2. None \notin WinnerAnswers(c, b)
        BY DEF WinnerAnswers
      <3> QED BY <2>1, <3>1, <3>2 DEF SideOf
    <2>2. CASE c.kind \in {"score", "record", "head_to_head", "career_start", "margin"}
      <3>1. c.player \in Sides
        BY <2>2 DEF Answers, MarginAnswers
      <3> QED BY <2>2, <3>1, QbAssumption DEF SideOf
    <2>3. CASE c.kind = "count" /\ c.of = "qualifying_seasons"
      <3>1. c.player \in Sides
        BY <2>3 DEF Answers, CountAnswers
      <3> QED BY <2>3, <3>1, QbAssumption DEF SideOf
    <2> QED BY <2>1, <2>2, <2>3 DEF Mode
  <1>4. Mode(c) = "none" => SideOf(c, b) = None
    BY DEF SideOf
  <1> QED BY <1>1, <1>2, <1>3, <1>4 DEF ModeIsOfASide

-----------------------------------------------------------------------------
(* Whose figure a reader takes it for *)

\* What a token prints first, and whether it shows a figure.
LEMMA PrintedFacts ==
    ASSUME NEW prose, NEW modes, NEW n, ReadsOn(prose, modes, n), NEW i \in 1 .. n
    PROVE  LET read == Rendered(prose, modes) c == modes[prose[i].of] IN
           /\ prose[i].is # "slot" => read[i][1] = Piece(prose[i].is, prose[i].of) /\ ~ShowsFigure(read, i)
           /\ prose[i].is = "slot" /\ c.kind = "winner"
                 => read[i][1] = Piece("name", c.side) /\ ~ShowsFigure(read, i)
           /\ prose[i].is = "slot" /\ c.kind # "winner" /\ MustName(prose, modes, i)
                 => read[i][1] = Piece("name", c.side)
           /\ prose[i].is = "slot" /\ c.kind # "winner" /\ ~MustName(prose, modes, i)
                 => read[i][1] = Piece("figure", prose[i].of)
  <1> DEFINE read == Rendered(prose, modes)
             c == modes[prose[i].of]
  <1>1. DOMAIN prose = 1 .. n /\ prose[i].is \in TokenKinds
    BY DEF ReadsOn
  <1>2. read[i] = ShownAt(prose, modes, i)
    BY <1>1 DEF Rendered
  <1>3. prose[i].is # "figure"
    BY <1>1 DEF TokenKinds
  <1>4. CASE prose[i].is # "slot"
    <2>1. read[i] = <<Piece(prose[i].is, prose[i].of)>>
      BY <1>2, <1>4 DEF ShownAt
    <2> QED BY <2>1, <1>3, <1>4 DEF ShowsFigure, Piece
  <1>5. CASE prose[i].is = "slot" /\ c.kind = "winner"
    <2>1. read[i] = <<Piece("name", c.side)>>
      BY <1>2, <1>5 DEF ShownAt
    <2> QED BY <2>1, <1>5 DEF ShowsFigure, Piece
  <1>6. CASE prose[i].is = "slot" /\ c.kind # "winner" /\ MustName(prose, modes, i)
    BY <1>2, <1>6 DEF ShownAt
  <1>7. CASE prose[i].is = "slot" /\ c.kind # "winner" /\ ~MustName(prose, modes, i)
    BY <1>2, <1>7 DEF ShownAt
  <1> QED BY <1>4, <1>5, <1>6, <1>7

\* A slot's claim is the one there.
LEMMA ClaimFacts ==
    ASSUME NEW prose, NEW modes, NEW n, ReadsOn(prose, modes, n), NEW i \in 1 .. n
    PROVE  /\ prose[i].is = "slot" =>
                /\ ClaimAt(prose, modes, i) = {modes[prose[i].of]}
                /\ ModeIsOfASide(modes[prose[i].of])
           /\ prose[i].is # "slot" => ClaimAt(prose, modes, i) = {}
  BY DEF ReadsOn, ClaimAt, At

\* Every place that prints a name is one the walk remembers, for the side it
\* prints; the places of a break are those where one is printed.
LEMMA NamesAreTurns ==
    ASSUME NEW prose, NEW modes, NEW n, ReadsOn(prose, modes, n), NEW i \in 1 .. n
    PROVE  LET read == Rendered(prose, modes) IN
           /\ Says(read, i) = "name" => /\ i \in Turns(prose, modes)
                                        /\ read[i][1].of = RefSide(prose, modes, i)
           /\ i \in Turns(prose, modes) => RefSide(prose, modes, i) # None
           /\ Says(read, i) = "break" <=> prose[i].is = "break"
           /\ prose[i].is \in {"beats", "over", "trail"} => Says(read, i) = prose[i].is
  <1> DEFINE read == Rendered(prose, modes)
             c == modes[prose[i].of]
  <1>1. DOMAIN prose = 1 .. n /\ (prose[i].is = "name" => prose[i].of # None)
    BY DEF ReadsOn
  <1>2. CASE prose[i].is # "slot"
    <2>1. read[i][1] = Piece(prose[i].is, prose[i].of)
      BY <1>2, PrintedFacts
    <2>2. i \in Turns(prose, modes) => prose[i].is = "name"
      BY <1>2, ClaimFacts DEF Turns, OfAPlayer
    <2> QED BY <1>1, <1>2, <2>1, <2>2 DEF Says, Piece, Turns, RefSide
  <1>3. CASE prose[i].is = "slot"
    <2>1. ClaimAt(prose, modes, i) = {c} /\ ModeIsOfASide(c)
      BY <1>3, ClaimFacts
    <2>2. RefSide(prose, modes, i) = c.side
      BY <1>3 DEF RefSide
    <2>3. i \in Turns(prose, modes) <=> c.side # None /\ c.kind # "margin"
      BY <1>1, <1>3, <2>1 DEF Turns, OfAPlayer, HasKind
    <2>4. MustName(prose, modes, i) => c.side # None /\ c.mode = "name"
      BY <2>1 DEF MustName
    <2>5. \/ read[i][1] = Piece("name", c.side) /\ c.side # None /\ c.kind # "margin"
          \/ read[i][1] = Piece("figure", prose[i].of)
      BY <1>3, <2>1, <2>4, PrintedFacts DEF ModeIsOfASide
    <2> QED BY <1>3, <2>2, <2>3, <2>5 DEF Says, Piece
  <1> QED BY <1>2, <1>3

\* What the walk remembers at i is what it turned at before.
LEMMA HistoryFacts ==
    ASSUME NEW prose, NEW modes, NEW n, ReadsOn(prose, modes, n), NEW i \in 1 .. n
    PROVE  LET history == History(prose, modes, i) IN
           /\ history = {j \in Turns(prose, modes) : j < i}
           /\ Turns(prose, modes) \subseteq 1 .. n
           /\ history = {} => LastPlayer(prose, modes, i) = None
           /\ history # {} => /\ Max(history) \in history
                              /\ \A j \in history : j <= Max(history)
                              /\ LastPlayer(prose, modes, i) = RefSide(prose, modes, Max(history))
  <1> DEFINE history == History(prose, modes, i)
  <1>1. n \in Nat /\ DOMAIN prose = 1 .. n
    BY DEF ReadsOn
  <1>2. history = {j \in Turns(prose, modes) : j < i}
    BY DEF History, Turns, Before
  <1>3. Turns(prose, modes) \subseteq 1 .. n
    BY <1>1 DEF Turns
  <1>4. history # {} => Max(history) \in history /\ \A j \in history : j <= Max(history)
    <2>1. history \subseteq 0 .. n
      BY <1>1, <1>2, <1>3
    <2> HIDE DEF history
    <2> QED BY <1>1, <2>1, GreatestOf
  <1> QED BY <1>2, <1>3, <1>4 DEF LastPlayer, LatestOf

\* What is printed at a place the walk remembers without a name: a figure of its
\* player's, after which he is still the last, or the one the sentence is on.
LEMMA UnnamedTurn ==
    ASSUME NEW prose, NEW modes, NEW n, ReadsOn(prose, modes, n), NEW i \in 1 .. n,
           Says(Rendered(prose, modes), i) # "name", i \in Turns(prose, modes)
    PROVE  LET c == modes[prose[i].of] IN
           /\ prose[i].is = "slot" /\ RefSide(prose, modes, i) = c.side /\ c.side # None
           /\ c.kind # "margin" /\ c.kind # "winner"
           /\ \/ c.mode = "attributed" /\ LastPlayer(prose, modes, i) \in {None, c.side}
              \/ c.mode = "name" /\ NearestPlayer(prose, modes, i) = c.side
  <1> DEFINE read == Rendered(prose, modes)
             c == modes[prose[i].of]
  <1>1. DOMAIN prose = 1 .. n
    BY DEF ReadsOn
  <1>2. prose[i].is = "slot"
    <2>1. SUFFICES ASSUME prose[i].is # "slot" PROVE FALSE
      OBVIOUS
    <2>2. read[i][1] = Piece(prose[i].is, prose[i].of)
      BY <2>1, PrintedFacts
    <2>3. prose[i].is = "name"
      BY <2>1, ClaimFacts DEF Turns, OfAPlayer
    <2> QED BY <2>2, <2>3 DEF Says, Piece
  <1>3. ClaimAt(prose, modes, i) = {c} /\ ModeIsOfASide(c)
    BY <1>2, ClaimFacts
  <1>4. c.side # None /\ c.kind # "margin"
    BY <1>1, <1>2, <1>3 DEF Turns, OfAPlayer, HasKind
  <1>5. c.kind # "winner" /\ ~MustName(prose, modes, i)
    <2>1. read[i][1].says # "name"
      BY DEF Says
    <2>2. Piece("name", c.side).says = "name"
      BY DEF Piece
    <2>3. read[i][1] # Piece("name", c.side)
      BY <2>1, <2>2
    <2> HIDE DEF read, c
    <2>4. CASE c.kind = "winner"
      BY <1>2, <2>3, <2>4, PrintedFacts DEF read, c
    <2>5. CASE c.kind # "winner" /\ MustName(prose, modes, i)
      BY <1>2, <2>3, <2>5, PrintedFacts DEF read, c
    <2> QED BY <2>4, <2>5
  <1>6. c.mode \in {"attributed", "name"}
    BY <1>3, <1>4, <1>5 DEF ModeIsOfASide
  <1>7. c.mode = "attributed" => LastPlayer(prose, modes, i) \in {None, c.side}
    <2>1. ~WrongPlayer(prose, modes, i)
      BY DEF ReadsOn
    <2> QED BY <2>1, <1>3, <1>4 DEF WrongPlayer
  <1>8. c.mode = "name" => NearestPlayer(prose, modes, i) = c.side
    BY <1>3, <1>4, <1>5 DEF MustName
  <1> QED BY <1>2, <1>4, <1>5, <1>6, <1>7, <1>8 DEF RefSide

\* The nearest player is the last, in the sentence.
LEMMA NearestFacts ==
    ASSUME NEW prose, NEW modes, NEW n, ReadsOn(prose, modes, n), NEW i \in 1 .. n,
           NearestPlayer(prose, modes, i) # None
    PROVE  LET history == History(prose, modes, i) IN
           /\ history # {}
           /\ NearestPlayer(prose, modes, i) = RefSide(prose, modes, Max(history))
           /\ \A k \in 1 .. n : Max(history) < k /\ k < i => prose[k].is # "break"
  <1> DEFINE history == History(prose, modes, i)
             left == Left(prose, i, Sentence)
             near == {j \in history : j > left}
             breaks == {0} \cup {j \in Before(prose, i) : prose[j].is \in Sentence}
  <1>1. n \in Nat /\ DOMAIN prose = 1 .. n
    BY DEF ReadsOn
  <1>2. near # {}
    BY DEF NearestPlayer, LatestOf
  <1>3. history \subseteq 1 .. n
    BY HistoryFacts
  <1>4. left \in breaks /\ \A k \in breaks : k <= left
    <2>1. breaks \subseteq 0 .. n /\ breaks # {}
      BY <1>1 DEF Before
    <2>2. left = Max(breaks)
      BY DEF Left
    <2> HIDE DEF breaks, left
    <2> QED BY <1>1, <2>1, <2>2, GreatestOf
  <1>5. left \in Int
    BY <1>1, <1>4 DEF Before
  <1>6. Max(near) \in near /\ \A j \in near : j <= Max(near)
    <2>1. near \subseteq 0 .. n
      BY <1>1, <1>3
    <2> HIDE DEF near
    <2> QED BY <1>1, <1>2, <2>1, GreatestOf
  <1>7. Max(history) \in history /\ \A j \in history : j <= Max(history)
    BY <1>2, HistoryFacts
  <1>8. Max(history) = Max(near)
    <2>1. Max(near) <= Max(history)
      BY <1>6, <1>7
    <2>2. Max(history) \in near
      <3>1. Max(near) > left /\ Max(near) \in Int /\ Max(history) \in Int
        BY <1>1, <1>3, <1>6, <1>7
      <3> QED BY <1>5, <1>7, <2>1, <3>1
    <2>3. Max(history) \in Int /\ Max(near) \in Int
      BY <1>3, <1>6, <1>7
    <2> QED BY <1>6, <2>1, <2>2, <2>3
  <1>9. NearestPlayer(prose, modes, i) = RefSide(prose, modes, Max(near))
    BY <1>2 DEF NearestPlayer, LatestOf
  <1>10. ASSUME NEW k \in 1 .. n, Max(history) < k, k < i
         PROVE  prose[k].is # "break"
    <2>1. Max(history) > left /\ Max(history) \in Int
      BY <1>3, <1>6, <1>8
    <2>2. k \notin breaks
      BY <1>4, <1>5, <1>10, <2>1
    <2> QED BY <1>1, <1>10, <2>2 DEF Before, Sentence
  <1> QED BY <1>2, <1>8, <1>9, <1>10

\* Up to a place the walk remembers, the name printed last is that place's player's.
LastNameAt(prose, modes, p) ==
    LET read == Rendered(prose, modes) names == NamesUpTo(read, p) IN
    names # {} => read[Max(names)][1].of = RefSide(prose, modes, p)

\* Where no name is printed, the names so far are those of the last place the
\* walk remembers.
LEMMA NamesUpToTheLast ==
    ASSUME NEW prose, NEW modes, NEW n, ReadsOn(prose, modes, n), NEW i \in 1 .. n,
           Says(Rendered(prose, modes), i) # "name"
    PROVE  LET read == Rendered(prose, modes) history == History(prose, modes, i) IN
           /\ history = {} => NamesUpTo(read, i) = {}
           /\ history # {} => NamesUpTo(read, i) = NamesUpTo(read, Max(history))
  <1> DEFINE read == Rendered(prose, modes)
             history == History(prose, modes, i)
  <1>1. n \in Nat
    BY DEF ReadsOn
  <1>2. history = {j \in Turns(prose, modes) : j < i} /\ history \subseteq 1 .. n
    BY HistoryFacts
  <1>3. \A j \in 1 .. i : Says(read, j) = "name" => j \in history
    <2>1. SUFFICES ASSUME NEW j \in 1 .. i, Says(read, j) = "name" PROVE j \in history
      OBVIOUS
    <2>2. j \in 1 .. n /\ j # i
      BY <1>1, <2>1
    <2>3. j \in Turns(prose, modes)
      BY <2>1, <2>2, NamesAreTurns
    <2> QED BY <1>2, <2>2, <2>3
  <1>4. history # {} => Max(history) \in history /\ \A j \in history : j <= Max(history)
    BY HistoryFacts
  <1> HIDE DEF history, read
  <1>5. history = {} => NamesUpTo(read, i) = {}
    BY <1>3 DEF NamesUpTo
  <1>6. ASSUME history # {} PROVE NamesUpTo(read, i) = NamesUpTo(read, Max(history))
    <2>1. Max(history) \in 1 .. n /\ Max(history) < i
      BY <1>2, <1>4, <1>6
    <2>2. \A j \in 1 .. i : Says(read, j) = "name" => j \in 1 .. Max(history)
      BY <1>2, <1>3, <1>4, <1>6
    <2>3. 1 .. Max(history) \subseteq 1 .. i
      BY <2>1
    <2> QED BY <2>2, <2>3 DEF NamesUpTo
  <1> QED BY <1>5, <1>6 DEF history, read

\* By least counterexample: a place that prints no name leaves its own player
\* last, and so does the one before it.
LEMMA LastNameHolds ==
    ASSUME NEW prose, NEW modes, NEW n, ReadsOn(prose, modes, n), NEW p \in Turns(prose, modes)
    PROVE  LastNameAt(prose, modes, p)
  <1> DEFINE read == Rendered(prose, modes)
             Bad == {q \in Turns(prose, modes) : ~LastNameAt(prose, modes, q)}
  <1>1. n \in Nat
    BY DEF ReadsOn
  <1>2. p \in 1 .. n /\ Turns(prose, modes) \subseteq 1 .. n
    BY DEF Turns, ReadsOn
  <1>3. SUFFICES ASSUME Bad # {} PROVE FALSE
    OBVIOUS
  <1>4. PICK q \in Bad : \A r \in Bad : q <= r
    <2>1. Bad \subseteq Nat
      BY <1>2
    <2> HIDE DEF Bad
    <2> QED BY <1>3, <2>1, LeastOf
  <1>5. q \in Turns(prose, modes) /\ q \in 1 .. n /\ ~LastNameAt(prose, modes, q)
    BY <1>2
  <1>6. CASE Says(read, q) = "name"
    <2>1. q \in NamesUpTo(read, q) /\ NamesUpTo(read, q) \subseteq 0 .. n
      BY <1>1, <1>5, <1>6 DEF NamesUpTo
    <2>2. Max(NamesUpTo(read, q)) \in NamesUpTo(read, q) /\ q <= Max(NamesUpTo(read, q))
      BY <1>1, <2>1, GreatestOf
    <2>3. Max(NamesUpTo(read, q)) = q
      BY <1>5, <2>2 DEF NamesUpTo
    <2>4. read[q][1].of = RefSide(prose, modes, q)
      BY <1>5, <1>6, NamesAreTurns
    <2> QED BY <1>5, <2>3, <2>4 DEF LastNameAt
  <1>7. CASE Says(read, q) # "name"
    <2> DEFINE history == History(prose, modes, q)
    <2>1. NamesUpTo(read, q) # {}
      BY <1>5 DEF LastNameAt
    <2>2. history # {} /\ NamesUpTo(read, q) = NamesUpTo(read, Max(history))
      BY <1>5, <1>7, <2>1, NamesUpToTheLast
    <2>3. /\ Max(history) \in Turns(prose, modes) /\ Max(history) < q
          /\ LastPlayer(prose, modes, q) = RefSide(prose, modes, Max(history))
      BY <1>5, <2>2, HistoryFacts
    <2>4. LastNameAt(prose, modes, Max(history))
      BY <1>2, <1>4, <1>5, <2>3
    <2>5. RefSide(prose, modes, q) = RefSide(prose, modes, Max(history))
      <3>1. RefSide(prose, modes, Max(history)) # None
        BY <1>2, <2>3, NamesAreTurns
      <3>2. \/ LastPlayer(prose, modes, q) = RefSide(prose, modes, q)
            \/ /\ NearestPlayer(prose, modes, q) = RefSide(prose, modes, q)
               /\ NearestPlayer(prose, modes, q) # None
        BY <1>5, <1>7, <2>3, <3>1, UnnamedTurn
      <3>3. NearestPlayer(prose, modes, q) # None
               => NearestPlayer(prose, modes, q) = RefSide(prose, modes, Max(history))
        BY <1>5, NearestFacts
      <3> QED BY <2>3, <3>2, <3>3
    <2> QED BY <1>5, <2>2, <2>4, <2>5 DEF LastNameAt
  <1> QED BY <1>6, <1>7

\* Before a figure that prints no name, the name printed last is the last player's.
LEMMA LastNameBefore ==
    ASSUME NEW prose, NEW modes, NEW n, ReadsOn(prose, modes, n), NEW i \in 1 .. n,
           Says(Rendered(prose, modes), i) # "name",
           NamesUpTo(Rendered(prose, modes), i) # {}
    PROVE  LET read == Rendered(prose, modes) IN
           /\ History(prose, modes, i) # {}
           /\ read[Max(NamesUpTo(read, i))][1].of = LastPlayer(prose, modes, i)
           /\ LastPlayer(prose, modes, i) # None
  <1> DEFINE read == Rendered(prose, modes)
             history == History(prose, modes, i)
  <1>1. history # {} /\ NamesUpTo(read, i) = NamesUpTo(read, Max(history))
    BY NamesUpToTheLast
  <1>2. /\ Max(history) \in Turns(prose, modes) /\ Max(history) \in 1 .. n
        /\ LastPlayer(prose, modes, i) = RefSide(prose, modes, Max(history))
    BY <1>1, HistoryFacts
  <1>3. LastNameAt(prose, modes, Max(history)) /\ RefSide(prose, modes, Max(history)) # None
    BY <1>2, LastNameHolds, NamesAreTurns
  <1> QED BY <1>1, <1>2, <1>3 DEF LastNameAt

\* The player of a figure has been named in its sentence, or a figure of his
\* that prints no name stands there before it.
IntroducedAt(prose, modes, i) ==
    LET read == Rendered(prose, modes) IN
    \E j \in 1 .. i : /\ \/ j \in NamesUpTo(read, i)
                         \/ j < i /\ StandsFor(prose, modes, j, RefSide(prose, modes, i))
                      /\ ~Parted(read, j, i)

\* By least counterexample: a figure that prints no name is near to a place the
\* walk remembers for its player, and what is true of that place is true of it.
LEMMA IntroducedHolds ==
    ASSUME NEW prose, NEW modes, NEW n, ReadsOn(prose, modes, n), NEW i \in 1 .. n,
           i \in Turns(prose, modes), modes[prose[i].of].mode = "name", prose[i].is = "slot"
    PROVE  IntroducedAt(prose, modes, i)
  <1> DEFINE read == Rendered(prose, modes)
             Figure(q) == /\ q \in Turns(prose, modes)
                          /\ modes[prose[q].of].mode = "name"
                          /\ prose[q].is = "slot"
             Bad == {q \in 1 .. n : Figure(q) /\ ~IntroducedAt(prose, modes, q)}
  <1>1. n \in Nat
    BY DEF ReadsOn
  <1>2. SUFFICES ASSUME Bad # {} PROVE FALSE
    OBVIOUS
  <1>3. PICK q \in Bad : \A r \in Bad : q <= r
    <2>1. Bad \subseteq Nat
      BY <1>1
    <2> HIDE DEF Bad
    <2> QED BY <1>2, <2>1, LeastOf
  <1>4. q \in 1 .. n /\ Figure(q) /\ ~IntroducedAt(prose, modes, q)
    OBVIOUS
  <1>5. ~(Says(read, q) = "break")
    BY <1>4, NamesAreTurns
  <1>6. Says(read, q) # "name"
    <2>1. SUFFICES ASSUME Says(read, q) = "name" PROVE FALSE
      OBVIOUS
    <2>2. q \in NamesUpTo(read, q) /\ q \in 1 .. q
      BY <1>1, <1>4, <2>1 DEF NamesUpTo
    <2>3. ~Parted(read, q, q)
      BY <1>1, <1>4, <1>5 DEF Parted
    <2> QED BY <1>4, <2>2, <2>3 DEF IntroducedAt
  <1> DEFINE p == Max(History(prose, modes, q))
             side == RefSide(prose, modes, q)
  <1>7. NearestPlayer(prose, modes, q) = side /\ side # None
    BY <1>4, <1>6, UnnamedTurn
  <1>8. /\ p \in Turns(prose, modes) /\ p \in 1 .. n /\ p < q /\ p \in Int /\ q \in Int
        /\ RefSide(prose, modes, p) = side
        /\ \A k \in 1 .. n : p < k /\ k < q => prose[k].is # "break"
    <2>1. /\ History(prose, modes, q) # {}
          /\ NearestPlayer(prose, modes, q) = RefSide(prose, modes, p)
          /\ \A k \in 1 .. n : p < k /\ k < q => prose[k].is # "break"
      BY <1>4, <1>7, NearestFacts
    <2>2. p \in Turns(prose, modes) /\ p < q /\ p \in 1 .. n
      BY <1>4, <2>1, HistoryFacts
    <2> QED BY <1>1, <1>4, <1>7, <2>1, <2>2
  <1>9. ASSUME NEW j \in 1 .. p, ~Parted(read, j, p)
        PROVE  ~Parted(read, j, q)
    <2>1. SUFFICES ASSUME NEW k \in j .. q, Says(read, k) = "break" PROVE FALSE
      BY DEF Parted
    <2>2. k \in 1 .. n /\ k # q
      BY <1>1, <1>4, <1>5, <1>8, <1>9, <2>1
    <2>3. prose[k].is = "break"
      BY <2>1, <2>2, NamesAreTurns
    <2>4. k \in j .. p
      BY <1>8, <2>1, <2>2, <2>3
    <2> QED BY <1>9, <2>1, <2>4 DEF Parted
  <1>10. PICK j \in 1 .. p : /\ j \in NamesUpTo(read, p) \/ StandsFor(prose, modes, j, side)
                             /\ ~Parted(read, j, p)
    <2>1. CASE Says(read, p) = "name"
      <3>1. p \in NamesUpTo(read, p) /\ p \in 1 .. p
        BY <1>8, <2>1 DEF NamesUpTo
      <3>2. ~Parted(read, p, p)
        BY <1>8, <2>1 DEF Parted
      <3> QED BY <3>1, <3>2
    <2>2. CASE Says(read, p) # "name" /\ modes[prose[p].of].mode = "name"
      <3>1. IntroducedAt(prose, modes, p)
        <4>1. prose[p].is = "slot"
          BY <1>8, <2>2, UnnamedTurn
        <4>2. p \notin Bad
          BY <1>3, <1>8
        <4> QED BY <1>8, <2>2, <4>1, <4>2
      <3> QED BY <1>8, <3>1 DEF IntroducedAt
    <2>3. CASE Says(read, p) # "name" /\ modes[prose[p].of].mode # "name"
      <3> DEFINE c == modes[prose[p].of]
      <3>1. /\ prose[p].is = "slot" /\ c.side = side /\ c.kind # "margin" /\ c.mode = "attributed"
        BY <1>8, <2>3, UnnamedTurn
      <3>2. ClaimAt(prose, modes, p) = {c}
        BY <1>8, <3>1, ClaimFacts
      <3>3. StandsFor(prose, modes, p, side)
        BY <3>1, <3>2 DEF StandsFor
      <3>4. ~Parted(read, p, p)
        <4>1. ~(Says(read, p) = "break")
          BY <1>8, <3>1, NamesAreTurns
        <4> QED BY <1>8, <4>1 DEF Parted
      <3> QED BY <1>8, <3>3, <3>4
    <2> QED BY <2>1, <2>2, <2>3
  <1>11. ~Parted(read, j, q) /\ j \in 1 .. q /\ j < q
    BY <1>8, <1>9, <1>10
  <1>12. j \in NamesUpTo(read, p) => j \in NamesUpTo(read, q)
    BY <1>11 DEF NamesUpTo
  <1>13. IntroducedAt(prose, modes, q)
    BY <1>10, <1>11, <1>12 DEF IntroducedAt
  <1> QED BY <1>4, <1>13

\* A margin that no word turns around is the last player's.
LEMMA MarginIsTheLastPlayers ==
    ASSUME NEW prose, NEW modes, NEW n, ReadsOn(prose, modes, n), NEW i \in 1 .. n,
           Says(Rendered(prose, modes), i) # "name",
           NamesUpTo(Rendered(prose, modes), i) # {},
           ~Turned(Rendered(prose, modes), i, Max(NamesUpTo(Rendered(prose, modes), i)))
    PROVE  Holder(prose, modes, i) = LastPlayer(prose, modes, i)
  <1> DEFINE read == Rendered(prose, modes)
             history == History(prose, modes, i)
             at == Max(history)
             names == NamesUpTo(read, i)
             name == Max(names)
             left == Left(prose, i, Clause)
             ends == {0} \cup {j \in Before(prose, i) : prose[j].is \in Clause}
  <1>1. n \in Nat /\ DOMAIN prose = 1 .. n /\ DOMAIN read = 1 .. n
    BY DEF ReadsOn, Rendered
  <1>2. history # {} /\ names = NamesUpTo(read, at)
    BY NamesUpToTheLast
  <1>3. /\ history \subseteq 1 .. n /\ at \in history /\ at < i
        /\ LastPlayer(prose, modes, i) = RefSide(prose, modes, at)
    BY <1>2, HistoryFacts
  <1>4. at \in 1 .. n /\ at \in Int
    BY <1>1, <1>3
  <1>5. name \in Int /\ name <= at
    <2>1. names \subseteq 0 .. n /\ \A j \in names : j \in Int /\ j <= at
      BY <1>1, <1>2, <1>4 DEF NamesUpTo
    <2>2. name \in names
      <3>1. names # {}
        OBVIOUS
      <3> HIDE DEF names
      <3> QED BY <1>1, <2>1, <3>1, GreatestOf
    <2> QED BY <2>1, <2>2
  <1>6. \A j \in 1 .. n : at - 1 <= j /\ j <= i + 1 => prose[j].is \notin {"beats", "over", "trail"}
    <2>1. SUFFICES ASSUME NEW j \in 1 .. n, at - 1 <= j, j <= i + 1,
                          prose[j].is \in {"beats", "over", "trail"}
                   PROVE  FALSE
      OBVIOUS
    <2>2. Says(read, j) \in {"beats", "over", "trail"}
      BY <2>1, NamesAreTurns
    <2>3. name - 1 <= j
      BY <1>1, <1>4, <1>5, <2>1
    <2> HIDE DEF read, names, name
    <2>4. Turned(read, i, name)
      BY <1>1, <2>1, <2>2, <2>3 DEF Turned
    <2> QED BY <2>4 DEF name, names, read
  <1>7. ~At(prose, at - 1, {"beats", "over"})
    BY <1>1, <1>3, <1>4, <1>6 DEF At
  <1>8. ~At(prose, i + 1, {"trail"})
    BY <1>1, <1>3, <1>4, <1>6 DEF At
  <1>9. Max({at, left}) \in Int /\ at <= Max({at, left})
    <2>1. left \in ends
      <3>1. ends \subseteq 0 .. n /\ ends # {}
        BY <1>1 DEF Before
      <3>2. left = Max(ends)
        BY DEF Left
      <3> HIDE DEF ends, left
      <3> QED BY <1>1, <3>1, <3>2, GreatestOf
    <2>2. {at, left} \subseteq 0 .. n
      BY <1>1, <1>4, <2>1 DEF Before
    <2> HIDE DEF at, left
    <2>3. Max({at, left}) \in {at, left} /\ at <= Max({at, left})
      BY <1>1, <2>2, GreatestOf
    <2> QED BY <1>1, <2>2, <2>3
  <1>10. ~ \E j \in Before(prose, i) : prose[j].is = "trail" /\ j > Max({at, left})
    <2>1. SUFFICES ASSUME NEW j \in Before(prose, i), prose[j].is = "trail", j > Max({at, left})
                   PROVE  FALSE
      OBVIOUS
    <2>2. j \in 1 .. n /\ j < i
      BY <1>1 DEF Before
    <2>3. at - 1 <= j /\ j <= i + 1
      BY <1>1, <1>4, <1>9, <2>1, <2>2
    <2> QED BY <1>6, <2>1, <2>2, <2>3
  <1>11. Holder(prose, modes, i) = RefSide(prose, modes, at)
    BY <1>2, <1>7, <1>8, <1>10 DEF Holder
  <1> QED BY <1>3, <1>11

\* Every figure of a text the check lets through reads as its player's.
LEMMA FiguresReadOn ==
    ASSUME NEW prose, NEW modes, NEW n, ReadsOn(prose, modes, n)
    PROVE  FiguresRead(prose, modes, Rendered(prose, modes))
  <1> DEFINE read == Rendered(prose, modes)
  <1>1. n \in Nat /\ DOMAIN prose = 1 .. n /\ DOMAIN read = 1 .. n
    BY DEF ReadsOn, Rendered
  <1>2. SUFFICES ASSUME NEW i \in 1 .. n, ShowsFigure(read, i)
                 PROVE  ReadsAsItsPlayer(prose, modes, read, i, modes[prose[i].of])
    BY <1>1 DEF FiguresRead
  <1> DEFINE c == modes[prose[i].of]
             names == NamesUpTo(read, i)
             his == names # {} => read[Max(names)][1].of = c.side
  <1>3. prose[i].is = "slot" /\ c.kind # "winner"
    BY <1>2, PrintedFacts
  <1>4. ClaimAt(prose, modes, i) = {c} /\ ModeIsOfASide(c) /\ ~WrongPlayer(prose, modes, i)
    BY <1>3, ClaimFacts DEF ReadsOn
  <1>5. RefSide(prose, modes, i) = c.side
    BY <1>3 DEF RefSide
  <1>6. c.side # None /\ c.kind # "margin" => i \in Turns(prose, modes)
    BY <1>1, <1>3, <1>4 DEF Turns, OfAPlayer, HasKind
  <1>7. c.mode \in {"name", "attributed"} /\ c.kind # "margin" => his
    <2>1. SUFFICES ASSUME c.mode \in {"name", "attributed"}, c.kind # "margin" PROVE his
      OBVIOUS
    <2>2. i \in Turns(prose, modes)
      BY <1>4, <1>6, <2>1 DEF ModeIsOfASide
    <2>3. LastNameAt(prose, modes, i)
      BY <2>2, LastNameHolds
    <2> QED BY <1>5, <2>3 DEF LastNameAt
  <1>8. c.mode = "name" => IntroducedAt(prose, modes, i)
    <2>1. SUFFICES ASSUME c.mode = "name" PROVE IntroducedAt(prose, modes, i)
      OBVIOUS
    <2>2. i \in Turns(prose, modes)
      BY <1>4, <1>6, <2>1 DEF ModeIsOfASide
    <2> QED BY <1>3, <2>1, <2>2, IntroducedHolds
  <1>9. c.mode = "name" => c.kind # "margin"
    BY <1>4 DEF ModeIsOfASide
  <1>10. c.kind = "margin" /\ names # {} /\ ~Turned(read, i, Max(names)) => his
    <2>1. SUFFICES ASSUME c.kind = "margin", names # {}, ~Turned(read, i, Max(names)) PROVE his
      OBVIOUS
    <2>2. Says(read, i) # "name" /\ c.side # None
      <3>1. ~MustName(prose, modes, i)
        BY <1>4, <1>9, <2>1 DEF MustName
      <3>2. read[i][1] = Piece("figure", prose[i].of)
        BY <1>3, <3>1, PrintedFacts
      <3> QED BY <1>4, <2>1, <3>2 DEF Says, Piece, ModeIsOfASide
    <2>3. Holder(prose, modes, i) \in {None, c.side}
      BY <1>4, <2>1, <2>2 DEF WrongPlayer
    <2>4. Holder(prose, modes, i) = LastPlayer(prose, modes, i)
      BY <2>1, <2>2, MarginIsTheLastPlayers
    <2>5. /\ read[Max(names)][1].of = LastPlayer(prose, modes, i)
          /\ LastPlayer(prose, modes, i) # None
      BY <2>1, <2>2, LastNameBefore
    <2> QED BY <2>3, <2>4, <2>5
  <1> QED BY <1>5, <1>7, <1>8, <1>9, <1>10 DEF ReadsAsItsPlayer, IntroducedAt

-----------------------------------------------------------------------------
(* The narration *)

\* What is shown is a text that the check of the open block accepted.
QbInv ==
    /\ text \in Seq(Vocabulary)
    /\ text # <<>> => style \in Styles
    /\ shown # <<>> => block # <<>> /\ Accepted(text, shown[1], block[1])

\* Nothing is shown at first.
LEMMA QbInitHolds == QbInit => QbInv
BY DEF QbInit, QbInv

\* Once a text is shown nothing is asked or written, and until then only Submit
\* shows one.
LEMMA QbStepHolds == QbInv /\ [QbNext]_qvars => QbInv'
  <1> SUFFICES ASSUME QbInv, [QbNext]_qvars PROVE QbInv'
    OBVIOUS
  <1>1. CASE Ingest
    BY <1>1 DEF Ingest, QbInv
  <1>2. CASE Ask
    BY <1>2 DEF Ask, QbInv
  <1>3. CASE Write
    <2>1. PICK s \in IF text = <<>> THEN Styles ELSE {style} :
             \E token \in s : text' = Append(text, token) /\ style' = s
      BY <1>3 DEF Write
    <2>2. PICK token \in s : text' = Append(text, token) /\ style' = s
      BY <2>1
    <2>3. s \in Styles
      BY <2>1 DEF QbInv
    <2>4. token \in Vocabulary
      BY <2>2, <2>3 DEF Vocabulary
    <2>5. text' \in Seq(Vocabulary)
      BY <2>2, <2>4 DEF QbInv
    <2> QED BY <1>3, <2>2, <2>3, <2>5 DEF Write, QbInv
  <1>4. CASE Submit
    <2>1. PICK closing \in Closings :
             LET said == text \o closing
                 claims == [id \in Used(said) |-> Palette[id]]
             IN  Accepted(said, claims, block[1]) /\ text' = said /\ shown' = <<claims>>
      BY <1>4 DEF Submit
    <2> DEFINE claims == [id \in Used(text \o closing) |-> Palette[id]]
    <2>2. text' \in Seq(Vocabulary)
      BY <2>1, QbAssumption DEF QbInv
    <2>3. shown'[1] = claims /\ block' = block /\ block # <<>>
      BY <1>4, <2>1 DEF Submit
    <2> HIDE DEF claims
    <2>4. Accepted(text', shown'[1], block'[1])
      BY <2>1, <2>3 DEF claims
    <2>5. style' \in Styles
      BY <1>4 DEF Submit, QbInv
    <2> QED BY <2>2, <2>3, <2>4, <2>5 DEF QbInv
  <1>5. CASE UNCHANGED qvars
    BY <1>5 DEF qvars, QbInv
  <1> QED BY <1>1, <1>2, <1>3, <1>4, <1>5 DEF QbNext

\* What is shown was accepted by the check, at every step.
LEMMA QbInvHolds == QbSpec => []QbInv
  <1> QED BY QbInitHolds, QbStepHolds, PTL DEF QbSpec

\* An accepted text is one the walk reads on: its slots' claims all resolve, and
\* none of them is another player's.
LEMMA AcceptedReadsOn ==
    ASSUME NEW prose \in Seq(Vocabulary), NEW cl, NEW b, Accepted(prose, cl, b)
    PROVE  ReadsOn(prose, Modes(cl, b), Len(prose))
  <1> DEFINE modes == Modes(cl, b)
             n == Len(prose)
  <1>1. n \in Nat /\ DOMAIN prose = 1 .. n
    OBVIOUS
  <1>2. \A i \in 1 .. n :
           prose[i].is \in TokenKinds /\ (prose[i].is = "name" => prose[i].of # None)
    <2>1. SUFFICES ASSUME NEW i \in 1 .. n
                   PROVE  prose[i].is \in TokenKinds /\ (prose[i].is = "name" => prose[i].of # None)
      OBVIOUS
    <2>2. prose[i] \in Vocabulary
      BY <2>1
    <2> QED BY <2>2, QbAssumption
  <1>3. Used(prose) = DOMAIN modes
    BY DEF Accepted, Modes
  <1>4. \A i \in 1 .. n : prose[i].is = "slot" => prose[i].of \in DOMAIN modes
    BY <1>1, <1>3 DEF Used
  <1>5. \A i \in 1 .. n : ~WrongPlayer(prose, modes, i)
    BY <1>1 DEF Accepted, ProseErrors
  <1>6. \A id \in DOMAIN modes : ModeIsOfASide(modes[id])
    <2>1. SUFFICES ASSUME NEW id \in DOMAIN cl PROVE ModeIsOfASide(ModeOf(cl[id], b))
      BY DEF Modes
    <2>2. Answers(cl[id], b) # {}
      BY DEF Accepted
    <2> QED BY <2>2, AnsweredHasASide
  <1> HIDE DEF modes, n
  <1>7. ReadsOn(prose, modes, n)
    BY <1>1, <1>2, <1>4, <1>5, <1>6 DEF ReadsOn
  <1> QED BY <1>7 DEF modes, n

\* Every figure of a quarterback narration reads as its player's, for any
\* players, seasons, palette of claims and length of text.
THEOREM QbFiguresReadSafe == QbSpec => []QbFiguresReadAsTheirPlayer
  <1>1. QbInv => QbFiguresReadAsTheirPlayer
    BY AcceptedReadsOn, FiguresReadOn DEF QbInv, QbFiguresReadAsTheirPlayer
  <1> QED BY <1>1, QbInvHolds, PTL

-----------------------------------------------------------------------------
(* Sums of whole numbers over finite sets, and the best of them *)

\* A function that sums w over the subsets of S as the library's fold does.
First(s) == CHOOSE x \in s : TRUE
Sums(w, S, iter) ==
    iter = [s \in SUBSET S |-> IF s = {} THEN 0 ELSE w[First(s)] + iter[s \ {First(s)}]]

\* Once there is one, the library's total is one's.
LEMMA TotalIs ==
    ASSUME NEW w, NEW S, NEW f, Sums(w, S, f)
    PROVE  \E g : Sums(w, S, g) /\ Sum(w, S) = g[S]
  <1> DEFINE R(g) == g = [s \in SUBSET S |-> IF s = {} THEN 0
                             ELSE LET x == CHOOSE x \in s : TRUE IN w[x] + g[s \ {x}]]
  <1>1. R(f)
    BY DEF Sums, First
  <1>2. R(CHOOSE g : R(g))
    BY <1>1, Zenon
  <1>3. Sum(w, S) = (CHOOSE g : R(g))[S]
    BY Zenon DEF Sum, MapThenSumSet, MapThenFoldSet
  <1> QED BY <1>2, <1>3 DEF Sums, First

\* Every subset of a finite set has a size, and one less without a member.
LEMMA Smaller ==
    ASSUME NEW S, IsFiniteSet(S), NEW s \in SUBSET S
    PROVE  /\ IsFiniteSet(s) /\ Cardinality(s) \in Nat /\ Cardinality(s) <= Cardinality(S)
           /\ Cardinality(s) = 0 <=> s = {}
           /\ \A x \in s : s \ {x} \in SUBSET S /\ Cardinality(s \ {x}) = Cardinality(s) - 1
           /\ s # {} => First(s) \in s
  <1>1. IsFiniteSet(s) /\ Cardinality(s) <= Cardinality(S)
    BY FS_Subset
  <1>2. Cardinality(s) \in Nat /\ (Cardinality(s) = 0 <=> s = {})
    BY <1>1, FS_CardinalityType, FS_EmptySet
  <1>3. \A x \in s : Cardinality(s \ {x}) = Cardinality(s) - 1
    BY <1>1, FS_RemoveElement
  <1>4. s # {} => First(s) \in s
    BY Zenon DEF First
  <1> QED BY <1>1, <1>2, <1>3, <1>4

\* The recursion has a solution: by least counterexample, over the subsets of a size.
LEMMA SumsExist ==
    ASSUME NEW w, NEW S, IsFiniteSet(S)
    PROVE  \E f : Sums(w, S, f)
  <1> DEFINE Sub(n) == {s \in SUBSET S : Cardinality(s) <= n}
             Unfold(g, s) == IF s = {} THEN 0 ELSE w[First(s)] + g[s \ {First(s)}]
             On(n) == \E g : g = [s \in Sub(n) |-> Unfold(g, s)]
             Bad == {n \in Nat : ~On(n)}
  <1>1. On(0)
    <2> DEFINE g == [s \in Sub(0) |-> 0]
    <2>1. \A s \in Sub(0) : s = {}
      BY Smaller
    <2>2. g = [s \in Sub(0) |-> Unfold(g, s)]
      BY <2>1
    <2> QED BY <2>2
  <1>2. ASSUME NEW n \in Nat, On(n) PROVE On(n + 1)
    <2>1. PICK g : g = [s \in Sub(n) |-> Unfold(g, s)]
      BY <1>2
    <2> DEFINE h == [s \in Sub(n + 1) |-> Unfold(g, s)]
    <2>2. ASSUME NEW s \in Sub(n + 1), s # {}
          PROVE  s \ {First(s)} \in Sub(n) /\ s \ {First(s)} \in Sub(n + 1)
      BY <2>2, Smaller
    <2>3. ASSUME NEW s \in Sub(n), s \in Sub(n + 1) PROVE h[s] = g[s]
      <3>1. h[s] = Unfold(g, s)
        BY <2>3
      <3>2. g[s] = Unfold(g, s)
        BY <2>1
      <3> QED BY <3>1, <3>2
    <2>4. ASSUME NEW s \in Sub(n + 1) PROVE h[s] = Unfold(h, s)
      <3>1. h[s] = Unfold(g, s)
        OBVIOUS
      <3>2. s # {} => h[s \ {First(s)}] = g[s \ {First(s)}]
        BY <2>2, <2>3
      <3> HIDE DEF h
      <3> QED BY <3>1, <3>2
    <2>5. h = [s \in Sub(n + 1) |-> h[s]]
      OBVIOUS
    <2> HIDE DEF h, Sub, Unfold
    <2>6. h = [s \in Sub(n + 1) |-> Unfold(h, s)]
      BY <2>4, <2>5
    <2> QED BY <2>6 DEF Unfold
  <1> HIDE DEF On
  <1>3. Bad = {}
    <2>1. SUFFICES ASSUME Bad # {} PROVE FALSE
      OBVIOUS
    <2>2. PICK n \in Bad : \A m \in Bad : n <= m
      <3> HIDE DEF Bad
      <3>1. Bad \subseteq Nat
        BY DEF Bad
      <3> QED BY <3>1, <2>1, LeastOf
    <2>3. n # 0 /\ n - 1 \in Nat /\ n - 1 \notin Bad
      BY <1>1, <2>2
    <2> QED BY <1>2, <2>2, <2>3
  <1>4. On(Cardinality(S)) /\ Sub(Cardinality(S)) = SUBSET S
    BY <1>3, Smaller, FS_CardinalityType
  <1>5. PICK g : g = [s \in SUBSET S |-> Unfold(g, s)]
    BY <1>4 DEF On
  <1> QED BY <1>5 DEF Sums

\* What it says of a set depends on the values in that set alone.
LEMMA SumsAgree ==
    ASSUME NEW w, NEW v, NEW S, NEW T, NEW g, NEW h, Sums(w, S, g), Sums(v, T, h),
           NEW U \in SUBSET (S \cap T), IsFiniteSet(U), \A x \in U : w[x] = v[x]
    PROVE  g[U] = h[U]
  <1> DEFINE Bad == {n \in Nat : \E s \in SUBSET U : Cardinality(s) = n /\ g[s] # h[s]}
  <1>1. SUFFICES Bad = {}
    <2>1. Cardinality(U) \in Nat /\ U \in SUBSET U
      BY FS_CardinalityType
    <2> QED BY <2>1
  <1>2. SUFFICES ASSUME Bad # {} PROVE FALSE
    OBVIOUS
  <1>3. PICK n \in Bad : \A m \in Bad : n <= m
    <2> HIDE DEF Bad
    <2>1. Bad \subseteq Nat
      BY DEF Bad
    <2> QED BY <2>1, <1>2, LeastOf
  <1>4. PICK s \in SUBSET U : Cardinality(s) = n /\ g[s] # h[s]
    BY <1>3
  <1>5. /\ g[s] = IF s = {} THEN 0 ELSE w[First(s)] + g[s \ {First(s)}]
        /\ h[s] = IF s = {} THEN 0 ELSE v[First(s)] + h[s \ {First(s)}]
    BY <1>4 DEF Sums
  <1>6. s # {} /\ First(s) \in s
    BY <1>4, <1>5, Smaller
  <1>7. s \ {First(s)} \in SUBSET U /\ Cardinality(s \ {First(s)}) = n - 1 /\ n \in Nat /\ n - 1 \in Nat
    BY <1>3, <1>4, <1>6, Smaller
  <1>8. n - 1 \notin Bad
    BY <1>3, <1>7
  <1>9. g[s \ {First(s)}] = h[s \ {First(s)}]
    BY <1>7, <1>8
  <1> QED BY <1>4, <1>5, <1>6, <1>9

\* Any member may be taken out first.
LEMMA SumsTakeAny ==
    ASSUME NEW w, NEW S, IsFiniteSet(S), \A x \in S : w[x] \in Int, NEW g, Sums(w, S, g)
    PROVE  \A s \in SUBSET S : g[s] \in Int /\ \A x \in s : g[s] = w[x] + g[s \ {x}]
  <1> DEFINE Good(s) == g[s] \in Int /\ \A x \in s : g[s] = w[x] + g[s \ {x}]
             Bad == {n \in Nat : \E s \in SUBSET S : Cardinality(s) = n /\ ~Good(s)}
  <1>1. SUFFICES Bad = {}
    BY Smaller
  <1>2. SUFFICES ASSUME Bad # {} PROVE FALSE
    OBVIOUS
  <1> HIDE DEF Good
  <1>3. PICK n \in Bad : \A m \in Bad : n <= m
    <2> HIDE DEF Bad
    <2>1. Bad \subseteq Nat
      BY DEF Bad
    <2> QED BY <2>1, <1>2, LeastOf
  <1>4. PICK s \in SUBSET S : Cardinality(s) = n /\ ~Good(s)
    BY <1>3
  <1>5. \A t \in SUBSET S : Cardinality(t) < n => Good(t)
    BY <1>3, Smaller
  <1> DEFINE y == First(s)
  <1>6. g[s] = IF s = {} THEN 0 ELSE w[y] + g[s \ {y}]
    BY DEF Sums
  <1>7. CASE s = {}
    BY <1>4, <1>6, <1>7 DEF Good
  <1>8. CASE s # {}
    <2>1. y \in s /\ Good(s \ {y}) /\ s \ {y} \in SUBSET S
      BY <1>4, <1>5, <1>8, Smaller
    <2>2. g[s] \in Int
      BY <1>6, <1>8, <2>1 DEF Good
    <2>3. ASSUME NEW x \in s, x # y PROVE g[s] = w[x] + g[s \ {x}]
      <3>1. Good(s \ {x}) /\ y \in s \ {x} /\ x \in s \ {y}
        BY <1>4, <1>5, <2>1, <2>3, Smaller
      <3>2. g[s \ {y}] = w[x] + g[(s \ {y}) \ {x}]
        BY <2>1, <3>1 DEF Good
      <3>3. g[s \ {x}] = w[y] + g[(s \ {x}) \ {y}]
        BY <3>1 DEF Good
      <3>4. (s \ {y}) \ {x} = (s \ {x}) \ {y} /\ (s \ {x}) \ {y} \in SUBSET S
        OBVIOUS
      <3>5. Good((s \ {x}) \ {y})
        <4>1. Cardinality(s \ {x}) = n - 1 /\ IsFiniteSet(s \ {x}) /\ n \in Nat
          BY <1>3, <1>4, Smaller
        <4>2. Cardinality((s \ {x}) \ {y}) <= Cardinality(s \ {x})
          BY <4>1, FS_Subset
        <4>3. Cardinality((s \ {x}) \ {y}) < n
          BY <4>1, <4>2, <3>4, Smaller
        <4> QED BY <1>5, <3>4, <4>3
      <3>6. g[(s \ {x}) \ {y}] \in Int /\ w[x] \in Int /\ w[y] \in Int
        BY <3>5, <2>1 DEF Good
      <3> HIDE DEF y
      <3> QED BY <1>6, <1>8, <3>2, <3>3, <3>4, <3>6
    <2>4. \A x \in s : g[s] = w[x] + g[s \ {x}]
      BY <1>6, <1>8, <2>3
    <2> QED BY <1>4, <2>2, <2>4 DEF Good
  <1> QED BY <1>7, <1>8

\* Sums of whole numbers: nothing is none, any member may be taken out.
LEMMA TotalFacts ==
    ASSUME NEW w, NEW S, IsFiniteSet(S), \A x \in S : w[x] \in Int
    PROVE  /\ Sum(w, S) \in Int
           /\ S = {} => Sum(w, S) = 0
           /\ \A x \in S : Sum(w, S) = w[x] + Sum(w, S \ {x})
  <1>1. PICK f : Sums(w, S, f)
    BY SumsExist
  <1>2. PICK g : Sums(w, S, g) /\ Sum(w, S) = g[S]
    BY <1>1, TotalIs
  <1>3. g[S] \in Int /\ \A x \in S : g[S] = w[x] + g[S \ {x}]
    BY <1>2, SumsTakeAny
  <1>4. S = {} => g[S] = 0
    BY <1>2 DEF Sums
  <1>5. ASSUME NEW x \in S PROVE Sum(w, S \ {x}) = g[S \ {x}]
    <2>1. IsFiniteSet(S \ {x})
      BY FS_Subset
    <2>2. PICK f1 : Sums(w, S \ {x}, f1)
      BY <2>1, SumsExist
    <2>3. PICK h : Sums(w, S \ {x}, h) /\ Sum(w, S \ {x}) = h[S \ {x}]
      BY <2>2, TotalIs
    <2>4. h[S \ {x}] = g[S \ {x}]
      BY <1>2, <2>1, <2>3, SumsAgree
    <2> QED BY <2>3, <2>4
  <1> QED BY <1>2, <1>3, <1>4, <1>5

\* A non-empty family of subsets has a smallest: what an induction over a
\* finite set takes the counterexample from.
LEMMA SmallestOf ==
    ASSUME NEW S, IsFiniteSet(S), NEW F, F \subseteq SUBSET S, F # {}
    PROVE  \E T \in F : \A U \in F : Cardinality(T) <= Cardinality(U)
  <1> DEFINE sizes == {n \in Nat : \E T \in F : Cardinality(T) = n}
  <1>1. sizes \subseteq Nat /\ sizes # {}
    BY Smaller
  <1> HIDE DEF sizes
  <1>2. PICK n \in sizes : \A m \in sizes : n <= m
    BY <1>1, LeastOf
  <1>3. \A U \in F : Cardinality(U) \in sizes
    BY Smaller DEF sizes
  <1> QED BY <1>2, <1>3 DEF sizes

\* A sum over two parts.
LEMMA SumSplits ==
    ASSUME NEW w, NEW S, IsFiniteSet(S), \A x \in S : w[x] \in Int, NEW T \in SUBSET S
    PROVE  Sum(w, S) = Sum(w, T) + Sum(w, S \ T)
  <1> DEFINE Bad == {U \in SUBSET T : Sum(w, S) # Sum(w, U) + Sum(w, S \ U)}
  <1>1. SUFFICES ASSUME Bad # {} PROVE FALSE
    OBVIOUS
  <1>2. PICK U \in Bad : \A V \in Bad : Cardinality(U) <= Cardinality(V)
    <2>1. Bad \subseteq SUBSET S
      OBVIOUS
    <2> HIDE DEF Bad
    <2> QED BY <1>1, <2>1, SmallestOf
  <1>3. U \in SUBSET S /\ IsFiniteSet(U) /\ IsFiniteSet(S \ U) /\ Cardinality(U) \in Nat
    BY <1>2, Smaller, FS_Subset
  <1>4. CASE U = {}
    <2>1. S \ U = S /\ Sum(w, U) = 0 /\ Sum(w, S) \in Int
      BY <1>3, <1>4, TotalFacts
    <2>2. Sum(w, S) = Sum(w, U) + Sum(w, S \ U)
      BY <2>1
    <2> QED BY <1>2, <2>2
  <1>5. CASE U # {}
    <2>1. PICK x : x \in U
      BY <1>5
    <2> DEFINE V == U \ {x}
    <2>2. V \in SUBSET T /\ Cardinality(V) < Cardinality(U) /\ IsFiniteSet(V)
      BY <1>2, <1>3, <2>1, Smaller
    <2>3. V \notin Bad
      BY <1>2, <1>3, <2>2, Smaller
    <2>4. Sum(w, S) = Sum(w, V) + Sum(w, S \ V)
      BY <2>2, <2>3
    <2>5. Sum(w, U) = w[x] + Sum(w, V)
      BY <1>3, <2>1, TotalFacts
    <2>6. (S \ V) \ {x} = S \ U /\ x \in S \ V /\ IsFiniteSet(S \ V)
      BY <1>3, <2>1, FS_Subset
    <2>7. Sum(w, S \ V) = w[x] + Sum(w, (S \ V) \ {x})
      BY <2>6, TotalFacts
    <2>8. Sum(w, V) \in Int /\ Sum(w, S \ U) \in Int /\ w[x] \in Int
      BY <1>3, <2>1, <2>2, TotalFacts
    <2> HIDE DEF V
    <2> QED BY <1>2, <2>4, <2>5, <2>6, <2>7, <2>8
  <1> QED BY <1>4, <1>5

\* Of two sets of one size, the one whose members are at least the other's has
\* at least its sum.
LEMMA SumDominates ==
    ASSUME NEW w, NEW S, IsFiniteSet(S), \A x \in S : w[x] \in Int,
           NEW A \in SUBSET S, NEW B \in SUBSET S, Cardinality(A) = Cardinality(B),
           \A a \in A, b \in B : w[a] <= w[b]
    PROVE  Sum(w, A) <= Sum(w, B)
  <1> DEFINE Bad == {U \in SUBSET A : \E V \in SUBSET B :
                        Cardinality(U) = Cardinality(V) /\ ~(Sum(w, U) <= Sum(w, V))}
  <1>1. SUFFICES ASSUME Bad # {} PROVE FALSE
    OBVIOUS
  <1>2. PICK U \in Bad : \A V \in Bad : Cardinality(U) <= Cardinality(V)
    <2>1. Bad \subseteq SUBSET S
      OBVIOUS
    <2> HIDE DEF Bad
    <2> QED BY <1>1, <2>1, SmallestOf
  <1>3. PICK V \in SUBSET B : Cardinality(U) = Cardinality(V) /\ ~(Sum(w, U) <= Sum(w, V))
    BY <1>2
  <1>4. /\ U \in SUBSET S /\ IsFiniteSet(U) /\ Cardinality(U) \in Nat
        /\ V \in SUBSET S /\ IsFiniteSet(V)
    BY <1>2, Smaller
  <1>5. CASE U = {}
    <2>1. V = {}
      BY <1>3, <1>4, <1>5, Smaller
    <2>2. Sum(w, U) = 0 /\ Sum(w, V) = 0
      BY <1>4, <1>5, <2>1, TotalFacts
    <2> QED BY <1>3, <2>2
  <1>6. CASE U # {}
    <2>1. PICK x, y : x \in U /\ y \in V
      BY <1>3, <1>4, <1>6, Smaller
    <2>2. /\ U \ {x} \in SUBSET A /\ V \ {y} \in SUBSET B
          /\ Cardinality(U \ {x}) = Cardinality(U) - 1
          /\ Cardinality(V \ {y}) = Cardinality(U) - 1
          /\ IsFiniteSet(U \ {x}) /\ IsFiniteSet(V \ {y})
      BY <1>2, <1>3, <1>4, <2>1, Smaller, FS_Subset
    <2>3. U \ {x} \notin Bad
      BY <1>2, <1>4, <2>2
    <2>4. Sum(w, U \ {x}) <= Sum(w, V \ {y})
      BY <2>2, <2>3
    <2>5. Sum(w, U) = w[x] + Sum(w, U \ {x}) /\ Sum(w, V) = w[y] + Sum(w, V \ {y})
      BY <1>4, <2>1, TotalFacts
    <2>6. w[x] <= w[y] /\ w[x] \in Int /\ w[y] \in Int
      BY <1>2, <1>3, <1>4, <2>1
    <2>7. Sum(w, U \ {x}) \in Int /\ Sum(w, V \ {y}) \in Int
      BY <1>4, <2>2, TotalFacts
    <2> QED BY <1>3, <2>4, <2>5, <2>6, <2>7
  <1> QED BY <1>5, <1>6

\* The same values under other names, and as many of them.
LEMMA SumRenamed ==
    ASSUME NEW w, NEW v, NEW key, NEW S, IsFiniteSet(S),
           \A x \in S : w[x] \in Int /\ v[key[x]] = w[x],
           \A x, y \in S : key[x] = key[y] => x = y,
           NEW image, image = {key[x] : x \in S}
    PROVE  /\ IsFiniteSet(image) /\ Cardinality(image) = Cardinality(S)
           /\ Sum(w, S) = Sum(v, image)
  <1> DEFINE Image(U) == {key[x] : x \in U}
             Good(U) == /\ IsFiniteSet(Image(U)) /\ Cardinality(Image(U)) = Cardinality(U)
                        /\ Sum(w, U) = Sum(v, Image(U))
             Bad == {U \in SUBSET S : ~Good(U)}
  <1>1. SUFFICES ASSUME Bad # {} PROVE FALSE
    OBVIOUS
  <1> HIDE DEF Good
  <1>2. PICK U \in Bad : \A V \in Bad : Cardinality(U) <= Cardinality(V)
    <2>1. Bad \subseteq SUBSET S
      OBVIOUS
    <2> HIDE DEF Bad
    <2> QED BY <1>1, <2>1, SmallestOf
  <1>3. IsFiniteSet(U) /\ Cardinality(U) \in Nat /\ ~Good(U) /\ U \in SUBSET S
    BY <1>2, Smaller
  <1>4. CASE U = {}
    <2>1. Image(U) = {} /\ IsFiniteSet({}) /\ Cardinality({}) = 0
      BY <1>4, FS_EmptySet
    <2>2. Sum(w, {}) = 0 /\ Sum(v, {}) = 0
      BY <2>1, TotalFacts
    <2> QED BY <1>3, <1>4, <2>1, <2>2 DEF Good
  <1>5. CASE U # {}
    <2>1. PICK x : x \in U
      BY <1>5
    <2> DEFINE V == U \ {x}
    <2>2. V \in SUBSET S /\ Cardinality(V) = Cardinality(U) - 1
      BY <1>3, <2>1, Smaller
    <2>3. Good(V)
      BY <1>2, <1>3, <2>2
    <2>4. Image(U) = Image(V) \cup {key[x]} /\ key[x] \notin Image(V) /\ Image(U) \ {key[x]} = Image(V)
      BY <1>3, <2>1
    <2>5. IsFiniteSet(Image(U)) /\ Cardinality(Image(U)) = Cardinality(Image(V)) + 1
      <3> DEFINE I == Image(V)
      <3>1. IsFiniteSet(I) /\ Cardinality(I) = Cardinality(V)
        BY <2>3 DEF Good
      <3>2. Image(U) = I \cup {key[x]} /\ key[x] \notin I
        BY <2>4
      <3> HIDE DEF I
      <3>3. IsFiniteSet(I \cup {key[x]}) /\ Cardinality(I \cup {key[x]}) = Cardinality(I) + 1
        BY <3>1, <3>2, FS_AddElement
      <3> QED BY <3>2, <3>3 DEF I
    <2>6. \A z \in Image(U) : v[z] \in Int
      BY <1>3
    <2>7. Sum(v, Image(U)) = v[key[x]] + Sum(v, Image(V))
      <3>1. key[x] \in Image(U)
        BY <2>1
      <3> DEFINE I == Image(U)
      <3>2. key[x] \in I /\ IsFiniteSet(I) /\ (\A z \in I : v[z] \in Int) /\ I \ {key[x]} = Image(V)
        BY <3>1, <2>4, <2>5, <2>6
      <3> HIDE DEF I
      <3>3. Sum(v, I) = v[key[x]] + Sum(v, I \ {key[x]})
        BY <3>2, TotalFacts
      <3> QED BY <3>2, <3>3 DEF I
    <2>8. Sum(w, U) = w[x] + Sum(w, V)
      BY <1>3, <2>1, TotalFacts
    <2>9. v[key[x]] = w[x] /\ Cardinality(Image(U)) = Cardinality(U)
      BY <1>3, <2>1, <2>2, <2>3, <2>5 DEF Good
    <2> HIDE DEF V, Image
    <2>10. Good(U)
      BY <2>3, <2>5, <2>7, <2>8, <2>9 DEF Good
    <2> QED BY <1>3, <2>10
  <1> QED BY <1>4, <1>5
\* The seasons ahead of one of them: every set of them has them.
Ahead(f, s) ==
    {t \in DOMAIN f :
        \/ f[t] > f[s]
        \/ f[t] = f[s] /\ t < s}

\* A season that is ahead of another has fewer ahead of it; of two, one is ahead.
LEMMA AheadIsAnOrder ==
    ASSUME NEW f, IsFiniteSet(DOMAIN f), \A s \in DOMAIN f : s \in Int /\ f[s] \in Int
    PROVE  /\ \A s \in DOMAIN f : Cardinality(Ahead(f, s)) \in Nat
           /\ \A s \in DOMAIN f : \A t \in Ahead(f, s) :
                 /\ Ahead(f, t) \subseteq Ahead(f, s) /\ f[s] <= f[t]
                 /\ Cardinality(Ahead(f, t)) < Cardinality(Ahead(f, s))
           /\ \A s, t \in DOMAIN f : s # t => s \in Ahead(f, t) \/ t \in Ahead(f, s)
  <1>1. \A s \in DOMAIN f : /\ Ahead(f, s) \in SUBSET DOMAIN f /\ IsFiniteSet(Ahead(f, s))
                            /\ Cardinality(Ahead(f, s)) \in Nat
    <2>1. \A s : Ahead(f, s) \in SUBSET DOMAIN f
      BY DEF Ahead
    <2> QED BY <2>1, Smaller
  <1>2. ASSUME NEW s \in DOMAIN f, NEW t \in Ahead(f, s)
        PROVE  /\ Ahead(f, t) \subseteq Ahead(f, s) /\ f[s] <= f[t]
               /\ Cardinality(Ahead(f, t)) < Cardinality(Ahead(f, s))
    <2>1. Ahead(f, t) \subseteq Ahead(f, s) /\ t \notin Ahead(f, t) /\ f[s] <= f[t] /\ t \in DOMAIN f
      BY DEF Ahead
    <2>2. Cardinality(Ahead(f, t)) <= Cardinality(Ahead(f, s))
             /\ (Cardinality(Ahead(f, s)) = Cardinality(Ahead(f, t)) => Ahead(f, s) = Ahead(f, t))
      BY <1>1, <2>1, FS_Subset
    <2> QED BY <1>1, <2>1, <2>2
  <1>3. \A s, t \in DOMAIN f : s # t => s \in Ahead(f, t) \/ t \in Ahead(f, s)
    BY DEF Ahead
  <1> QED BY <1>1, <1>2, <1>3

\* The peak has as many seasons as it may, and each of them is at least any
\* season outside it.
LEMMA PeakSize ==
    ASSUME NEW f, IsFiniteSet(DOMAIN f), \A s \in DOMAIN f : s \in Int /\ f[s] \in Int,
           QB_SCORE_PEAK_SEASONS \in Nat \ {0}
    PROVE  LET peak == PeakSeasons(f) all == Cardinality(DOMAIN f) IN
           /\ peak \in SUBSET DOMAIN f
           /\ Cardinality(peak) = IF all < QB_SCORE_PEAK_SEASONS THEN all ELSE QB_SCORE_PEAK_SEASONS
           /\ \A s \in peak, t \in DOMAIN f \ peak : f[t] <= f[s]
  <1> DEFINE P == PeakSeasons(f)
             D == DOMAIN f
             size(s) == Cardinality(Ahead(f, s))
  <1>1. P = {s \in D : size(s) < QB_SCORE_PEAK_SEASONS}
    BY DEF PeakSeasons, Ahead
  <1>2. /\ \A s \in D : size(s) \in Nat
        /\ \A s \in D : \A t \in Ahead(f, s) : t \in D /\ size(t) < size(s) /\ f[s] <= f[t]
        /\ \A s, t \in D : s # t => s \in Ahead(f, t) \/ t \in Ahead(f, s)
    BY AheadIsAnOrder DEF Ahead
  <1> HIDE DEF P, size
  <1>3. IsFiniteSet(P) /\ Cardinality(P) \in Nat /\ Cardinality(P) <= Cardinality(D)
           /\ Cardinality(D) \in Nat /\ P \in SUBSET D
    BY <1>1, FS_Subset, FS_CardinalityType
  <1>4. \A s \in P, t \in D \ P : f[t] <= f[s]
    <2>1. SUFFICES ASSUME NEW s \in P, NEW t \in D \ P PROVE f[t] <= f[s]
      OBVIOUS
    <2>2. ~(t \in Ahead(f, s))
      BY <1>1, <1>2, <2>1
    <2> QED BY <1>1, <1>2, <2>1, <2>2
  <1>5. Cardinality(P) <= QB_SCORE_PEAK_SEASONS
    <2>1. CASE P = {}
      BY <2>1, FS_EmptySet
    <2>2. CASE P # {}
      <3> DEFINE sizes == {size(s) : s \in P}
      <3>1. sizes \subseteq 0 .. QB_SCORE_PEAK_SEASONS /\ sizes # {}
        BY <1>1, <1>2, <2>2
      <3> HIDE DEF sizes
      <3>2. Max(sizes) \in sizes /\ \A n \in sizes : n <= Max(sizes)
        BY <3>1, GreatestOf
      <3>3. PICK m \in P : \A s \in P : size(s) <= size(m)
        BY <3>2 DEF sizes
      <3>4. P \subseteq Ahead(f, m) \cup {m}
        <4>1. ASSUME NEW s \in P, s # m PROVE s \in Ahead(f, m)
          <5>1. ~(m \in Ahead(f, s))
            BY <1>1, <1>2, <3>3
          <5> QED BY <1>1, <1>2, <4>1, <5>1
        <4> QED BY <4>1
      <3>5. IsFiniteSet(Ahead(f, m)) /\ m \in D
        <4>1. Ahead(f, m) \in SUBSET D
          BY DEF Ahead
        <4> QED BY <1>1, <4>1, FS_Subset
      <3>6. IsFiniteSet(Ahead(f, m) \cup {m}) /\ Cardinality(Ahead(f, m) \cup {m}) <= size(m) + 1
        <4> DEFINE A == Ahead(f, m)
        <4>1. IsFiniteSet(A) /\ Cardinality(A) \in Nat /\ size(m) = Cardinality(A)
          BY <1>2, <3>5 DEF size
        <4> HIDE DEF A
        <4>2. IsFiniteSet(A \cup {m}) /\ Cardinality(A \cup {m}) <= Cardinality(A) + 1
          BY <4>1, FS_AddElement
        <4> QED BY <4>1, <4>2 DEF A
      <3>7. Cardinality(P) <= Cardinality(Ahead(f, m) \cup {m})
        BY <3>4, <3>6, FS_Subset
      <3>8. Cardinality(Ahead(f, m) \cup {m}) \in Nat /\ size(m) < QB_SCORE_PEAK_SEASONS /\ size(m) \in Nat
        BY <1>1, <1>2, <3>5, <3>6, FS_CardinalityType
      <3> QED BY <1>3, <3>6, <3>7, <3>8
    <2> QED BY <2>1, <2>2
  <1>6. P # D => Cardinality(P) >= QB_SCORE_PEAK_SEASONS
    <2>1. SUFFICES ASSUME P # D PROVE Cardinality(P) >= QB_SCORE_PEAK_SEASONS
      OBVIOUS
    <2> DEFINE sizes == {size(s) : s \in D \ P}
    <2>2. sizes \subseteq Nat /\ sizes # {}
      BY <1>1, <1>2, <2>1
    <2> HIDE DEF sizes
    <2>3. PICK n \in sizes : \A k \in sizes : n <= k
      BY <2>2, LeastOf
    <2>4. PICK u \in D \ P : \A s \in D \ P : size(u) <= size(s)
      BY <2>3 DEF sizes
    <2>5. Ahead(f, u) \in SUBSET P
      <3>1. ASSUME NEW t \in Ahead(f, u) PROVE t \in P
        <4>1. t \in D /\ size(t) < size(u) /\ size(t) \in Nat /\ size(u) \in Nat
          BY <1>2, <2>4
        <4> QED BY <2>4, <4>1
      <3> QED BY <3>1
    <2>6. size(u) <= Cardinality(P)
      BY <1>3, <2>5, FS_Subset DEF size
    <2> QED BY <1>1, <1>2, <1>3, <2>4, <2>6
  <1>7. Cardinality(P) = Cardinality(D) => P = D
    BY <1>3, FS_Subset
  <1> QED BY <1>1, <1>3, <1>4, <1>5, <1>6, <1>7 DEF P

\* No choice of as many seasons sums to more than the peak.
LEMMA PeakIsBest ==
    ASSUME NEW f, IsFiniteSet(DOMAIN f), \A s \in DOMAIN f : s \in Int /\ f[s] \in Int,
           QB_SCORE_PEAK_SEASONS \in Nat \ {0},
           NEW T \in SUBSET DOMAIN f, Cardinality(T) = Cardinality(PeakSeasons(f))
    PROVE  Sum(f, T) <= Sum(f, PeakSeasons(f))
  <1> DEFINE D == DOMAIN f
  <1>1. PICK P : P = PeakSeasons(f)
    OBVIOUS
  <1>2. P \in SUBSET D /\ \A s \in P, t \in D \ P : f[t] <= f[s]
    BY <1>1, PeakSize
  <1>3. /\ IsFiniteSet(T) /\ IsFiniteSet(P) /\ T \ P \in SUBSET D /\ P \ T \in SUBSET D
        /\ IsFiniteSet(T \ P) /\ IsFiniteSet(P \ T) /\ IsFiniteSet(T \cap P)
        /\ \A s \in T \cup P : f[s] \in Int
    BY <1>2, FS_Subset, FS_Intersection, FS_Difference
  <1>4. Cardinality(T \ P) = Cardinality(P \ T)
    <2>1. Cardinality(T \ P) = Cardinality(T) - Cardinality(T \cap P)
             /\ Cardinality(P \ T) = Cardinality(P) - Cardinality(P \cap T) /\ T \cap P = P \cap T
      BY <1>3, FS_Difference
    <2> QED BY <1>1, <2>1
  <1>5. \A t \in T \ P, s \in P \ T : f[t] <= f[s]
    BY <1>2
  <1>6. Sum(f, T \ P) <= Sum(f, P \ T)
    BY <1>3, <1>4, <1>5, SumDominates
  <1>7. Sum(f, T) = Sum(f, T \cap P) + Sum(f, T \ P)
    <2>1. T \cap P \in SUBSET T /\ T \ (T \cap P) = T \ P
      OBVIOUS
    <2> QED BY <1>3, <2>1, SumSplits
  <1>8. Sum(f, P) = Sum(f, T \cap P) + Sum(f, P \ T)
    <2>1. T \cap P \in SUBSET P /\ P \ (T \cap P) = P \ T
      OBVIOUS
    <2> QED BY <1>3, <2>1, SumSplits
  <1>9. Sum(f, T \cap P) \in Int /\ Sum(f, T \ P) \in Int /\ Sum(f, P \ T) \in Int
    BY <1>3, TotalFacts
  <1> QED BY <1>1, <1>6, <1>7, <1>8, <1>9

-----------------------------------------------------------------------------
(* The data a verdict is asked of *)

\* The tables keep their keys and references, a game is of some build, and an
\* open block is what the tables still say of two quarterbacks.
TablesInv ==
    /\ DOMAIN db = {"players", "rows", "starts", "games"} /\ db.players = Players
    /\ TablesHold(db.rows, db.starts, db.games)
    /\ \A g \in db.games : \E b \in Builds : g \in b.games
BlockInv ==
    block # <<>> => \E a, b \in PlayerIds(db) :
        /\ a # b
        /\ ~ScoreFails(db, a) /\ ~ScoreFails(db, b) /\ IsQb(db, a) /\ IsQb(db, b)
        /\ block[1] = Block(db, a, b)

\* A season built again leaves the other seasons' rows, and their starts, whose
\* games are theirs.
LEMMA IngestKeepsTables == ASSUME TablesInv, Ingest PROVE TablesInv'
  <1>1. PICK new \in Builds :
           LET old(r) == r.season = new.season
               gone == {g.id : g \in {x \in db.games : old(x)}}
           IN  db' = [db EXCEPT
                         !.rows = {r \in @ : ~old(r)} \cup new.rows,
                         !.starts = {s \in @ : s.game \notin gone} \cup new.starts,
                         !.games = {g \in @ : ~old(g)} \cup new.games]
    BY DEF Ingest
  <1> DEFINE rows == {r \in db.rows : r.season # new.season}
             kept == {g \in db.games : g.season # new.season}
             gone == {g.id : g \in {x \in db.games : x.season = new.season}}
             starts == {s \in db.starts : s.game \notin gone}
  <1>2. /\ db'.rows = rows \cup new.rows /\ db'.starts = starts \cup new.starts
        /\ db'.games = kept \cup new.games
        /\ DOMAIN db' = {"players", "rows", "starts", "games"} /\ db'.players = Players
    BY <1>1 DEF TablesInv
  <1>3. /\ TablesHold(db.rows, db.starts, db.games)
        /\ TablesHold(new.rows, new.starts, new.games)
        /\ \A r \in new.rows : r.season = new.season
        /\ \A g \in new.games : g.season = new.season
    BY BuildsAssumption DEF TablesInv
  <1>4. \A g \in kept, h \in new.games : g.id # h.id
    <2>1. SUFFICES ASSUME NEW g \in kept, NEW h \in new.games, g.id = h.id PROVE FALSE
      OBVIOUS
    <2>2. PICK b \in Builds : g \in b.games
      BY DEF TablesInv
    <2>3. b.season = new.season /\ g.season = b.season
      BY <2>1, <2>2, BuildsAssumption
    <2> QED BY <2>3
  <1>5. \A s \in starts : StartHolds(s, kept)
    <2>1. SUFFICES ASSUME NEW s \in starts PROVE StartHolds(s, kept)
      OBVIOUS
    <2>2. PICK g \in db.games : g.id = s.game /\ s.team \in {g.home, g.away}
      BY <1>3 DEF TablesHold, StartHolds
    <2>3. g \in kept
      BY <2>2
    <2> QED BY <2>2, <2>3 DEF StartHolds
  <1>6. \A s \in starts, t \in new.starts : s.game # t.game
    BY <1>3, <1>4, <1>5 DEF TablesHold, StartHolds
  <1>7. /\ IsFiniteSet(db'.rows) /\ IsFiniteSet(db'.starts) /\ IsFiniteSet(db'.games)
    <2>1. IsFiniteSet(rows) /\ IsFiniteSet(starts) /\ IsFiniteSet(kept)
      BY <1>3, FS_Subset DEF TablesHold
    <2>2. IsFiniteSet(new.rows) /\ IsFiniteSet(new.starts) /\ IsFiniteSet(new.games)
      BY <1>3 DEF TablesHold
    <2> HIDE DEF rows, starts, kept
    <2>3. IsFiniteSet(rows \cup new.rows)
      BY <2>1, <2>2, FS_Union
    <2>4. IsFiniteSet(starts \cup new.starts)
      BY <2>1, <2>2, FS_Union
    <2>5. IsFiniteSet(kept \cup new.games)
      BY <2>1, <2>2, FS_Union
    <2> QED BY <1>2, <2>3, <2>4, <2>5
  <1>8. /\ \A r \in db'.rows : RowHolds(r)
        /\ \A r, x \in db'.rows : <<r.player, r.season, r.type>> = <<x.player, x.season, x.type>> => r = x
    BY <1>2, <1>3 DEF TablesHold
  <1>9. /\ \A g \in db'.games : /\ g.id \in Int /\ g.season \in Int /\ g.type \in SeasonTypes
                                /\ g.home # g.away /\ Whole(g.hp) /\ Whole(g.ap)
                                /\ GameColumns \subseteq DOMAIN g
        /\ \A g, h \in db'.games : g.id = h.id => g = h
    BY <1>2, <1>3, <1>4 DEF TablesHold
  <1>10. /\ \A s \in db'.starts : StartHolds(s, db'.games)
         /\ \A s, t \in db'.starts : <<s.player, s.game>> = <<t.player, t.game>> => s = t
    BY <1>2, <1>3, <1>5, <1>6 DEF TablesHold, StartHolds
  <1>11. \A g \in db'.games : \E b \in Builds : g \in b.games
    BY <1>2 DEF TablesInv
  <1> QED BY <1>2, <1>7, <1>8, <1>9, <1>10, <1>11 DEF TablesInv, TablesHold

\* The tables and the block, at every step.
LEMMA DataHolds == QbSpec => [](TablesInv /\ BlockInv)
  <1>1. QbInit => TablesInv /\ BlockInv
    BY FS_EmptySet DEF QbInit, TablesInv, BlockInv, TablesHold
  <1>2. TablesInv /\ BlockInv /\ [QbNext]_qvars => TablesInv' /\ BlockInv'
    <2> SUFFICES ASSUME TablesInv, BlockInv, [QbNext]_qvars PROVE TablesInv' /\ BlockInv'
      OBVIOUS
    <2>1. CASE Ingest
      <3>1. BlockInv'
        BY <2>1 DEF Ingest, BlockInv
      <3> QED BY <2>1, <3>1, IngestKeepsTables
    <2>2. CASE Ask
      <3>1. db' = db
        BY <2>2 DEF Ask
      <3>2. PICK a, b \in {p \in PlayerIds(db) : IsQb(db, p)} :
                /\ a # b
                /\ ~ScoreFails(db, a) /\ ~ScoreFails(db, b)
                /\ block' = <<Block(db, a, b)>>
        BY <2>2 DEF Ask
      <3>3. block'[1] = Block(db, a, b)
        BY <3>2
      <3>4. BlockInv'
        BY <3>1, <3>2, <3>3 DEF BlockInv
      <3>5. TablesInv'
        BY <3>1 DEF TablesInv
      <3> QED BY <3>4, <3>5
    <2>3. CASE UNCHANGED <<db, block>>
      BY <2>3 DEF TablesInv, BlockInv
    <2>4. Write \/ Submit \/ UNCHANGED qvars => UNCHANGED <<db, block>>
      BY DEF Write, Submit, qvars
    <2> QED BY <2>1, <2>2, <2>3, <2>4 DEF QbNext
  <1> QED BY <1>1, <1>2, PTL DEF QbSpec

-----------------------------------------------------------------------------
(* Scores *)

\* The largest of whole numbers that has one, and that a finite set has.
LEMMA MaxIs ==
    ASSUME NEW S, S \subseteq Int, NEW m \in S, \A x \in S : x <= m
    PROVE  Max(S) = m
  <1>1. \E k \in S : \A x \in S : k >= x
    OBVIOUS
  <1>2. Max(S) \in S /\ \A x \in S : Max(S) >= x
    BY <1>1 DEF Max
  <1>3. Max(S) >= m /\ Max(S) <= m /\ Max(S) \in Int
    BY <1>2
  <1> QED BY <1>3

\* A finite set of whole numbers has a largest and a smallest.
LEMMA MaxMinOfFinite ==
    ASSUME NEW S, IsFiniteSet(S), S # {}, S \subseteq Int
    PROVE  /\ Max(S) \in S /\ \A x \in S : x <= Max(S)
           /\ Min(S) \in S /\ \A x \in S : Min(S) <= x
  <1> DEFINE Has(U) == (\E m \in U : \A x \in U : x <= m) /\ (\E m \in U : \A x \in U : m <= x)
             Bad == {U \in SUBSET S : U # {} /\ ~Has(U)}
  <1> HIDE DEF Has
  <1>1. Bad = {}
    <2>1. SUFFICES ASSUME Bad # {} PROVE FALSE
      OBVIOUS
    <2>2. PICK U \in Bad : \A V \in Bad : Cardinality(U) <= Cardinality(V)
      <3>1. Bad \subseteq SUBSET S
        OBVIOUS
      <3> HIDE DEF Bad
      <3> QED BY <2>1, <3>1, SmallestOf
    <2>3. PICK y : y \in U
      BY <2>2
    <2>4. U \ {y} \notin Bad
      <3>1. U \in SUBSET S
        BY <2>2
      <3>2. Cardinality(U) \in Nat /\ Cardinality(U \ {y}) = Cardinality(U) - 1
        BY <2>3, <3>1, Smaller
      <3> HIDE DEF Bad
      <3> QED BY <2>2, <3>2
    <2>5. CASE U \ {y} = {}
      <3>1. U = {y} /\ y \in Int
        BY <2>3, <2>5
      <3>2. Has(U)
        BY <3>1 DEF Has
      <3> QED BY <2>2, <3>2
    <2>6. CASE Has(U \ {y})
      <3>1. PICK m \in U \ {y} : \A x \in U \ {y} : x <= m
        BY <2>6 DEF Has
      <3>2. PICK n \in U \ {y} : \A x \in U \ {y} : n <= x
        BY <2>6 DEF Has
      <3>3. y \in Int /\ m \in Int /\ n \in Int /\ m \in U /\ n \in U /\ U \subseteq Int
        BY <2>2, <2>3, <3>1, <3>2
      <3>4. \E k \in U : \A x \in U : x <= k
        <4>1. CASE y <= m
          <5>1. \A x \in U : x <= m
            BY <3>1, <3>3, <4>1
          <5> QED BY <3>3, <5>1
        <4>2. CASE ~(y <= m)
          <5>1. \A x \in U : x <= y
            BY <3>1, <3>3, <4>2
          <5> QED BY <2>3, <5>1
        <4> QED BY <4>1, <4>2
      <3>5. \E k \in U : \A x \in U : k <= x
        <4>1. CASE n <= y
          <5>1. \A x \in U : n <= x
            BY <3>2, <3>3, <4>1
          <5> QED BY <3>3, <5>1
        <4>2. CASE ~(n <= y)
          <5>1. \A x \in U : y <= x
            BY <3>2, <3>3, <4>2
          <5> QED BY <2>3, <5>1
        <4> QED BY <4>1, <4>2
      <3>6. Has(U)
        BY <3>4, <3>5 DEF Has
      <3> QED BY <2>2, <3>6
    <2> QED BY <2>2, <2>4, <2>5, <2>6
  <1>2. Has(S)
    BY <1>1
  <1>3. PICK m, n \in S : (\A x \in S : x <= m) /\ (\A x \in S : n <= x)
    BY <1>2 DEF Has
  <1>4. Max(S) \in S /\ \A x \in S : Max(S) >= x
    BY <1>3 DEF Max
  <1>5. Min(S) \in S /\ \A x \in S : Min(S) =< x
    BY <1>3 DEF Min
  <1> QED BY <1>4, <1>5

\* The values of a finite set are finitely many.
LEMMA ImageIsFinite ==
    ASSUME NEW w, NEW S, IsFiniteSet(S)
    PROVE  IsFiniteSet({w[x] : x \in S})
  <1> DEFINE T == {w[x] : x \in S}
             f == [x \in S |-> w[x]]
  <1>1. f \in [S -> T] /\ \A t \in T : \E x \in S : f[x] = t
    OBVIOUS
  <1> HIDE DEF T, f
  <1>2. f \in Surjection(S, T)
    BY <1>1 DEF Surjection
  <1>3. IsFiniteSet(T)
    BY <1>2, FS_Surjection
  <1> QED BY <1>3 DEF T

\* A rate of a row that counts: it has its EPA and a dropback to divide by.
LEMMA RateIsInt ==
    ASSUME NEW r, RowHolds(r), Qualifies(r), ~Broken(r), NEW metric
    PROVE  Rate(r, metric) \in Int
  <1>1. r.passing_epa \in Int /\ r.rushing_epa \in Int
    BY DEF Broken, RowHolds, Whole
  <1>2. Dropbacks(r) \in Nat /\ Or0(r.carries) \in Nat
    BY DEF RowHolds, Dropbacks, Or0
  <1>3. Dropbacks(r) > 0
    BY <1>2, ScoreAssumption DEF Qualifies
  <1>4. \A a, n \in Int : n > 0 => (1000 * a) \div n \in Int
    OBVIOUS
  <1>5. Dropbacks(r) + Or0(r.carries) \in Int /\ Dropbacks(r) + Or0(r.carries) > 0
    BY <1>2, <1>3
  <1> QED BY <1>1, <1>2, <1>3, <1>4, <1>5 DEF Rate

\* A season with a spread divides by it.
LEMMA ZIsInt ==
    ASSUME NEW year, IsFiniteSet(year), NEW r \in year, NEW metric,
           \A x \in year : RowHolds(x) /\ Qualifies(x) /\ ~Broken(x)
    PROVE  Z(r, metric, year) \in Int
  <1> DEFINE w == [x \in year |-> Rate(x, metric)]
             rates == {Rate(x, metric) : x \in year}
             n == Cardinality(year)
             spread == Max(rates) - Min(rates)
             up == 2000 * (n * Rate(r, metric) - Sum(w, year))
  <1>1. \A x \in year : w[x] \in Int /\ w[x] = Rate(x, metric)
    BY RateIsInt
  <1>2. Sum(w, year) \in Int /\ Rate(r, metric) \in Int
    BY <1>1, TotalFacts
  <1>3. IsFiniteSet(rates) /\ rates # {} /\ rates \subseteq Int
    <2>1. IsFiniteSet({w[x] : x \in year})
      <3> HIDE DEF w
      <3> QED BY ImageIsFinite
    <2> QED BY <1>1, <2>1
  <1> HIDE DEF w, rates
  <1>4. Max(rates) \in Int /\ Min(rates) \in Int /\ Min(rates) <= Max(rates)
    BY <1>3, MaxMinOfFinite
  <1>5. n \in Nat /\ n > 0
    BY FS_CardinalityType, FS_EmptySet
  <1>6. up \in Int /\ spread \in Int /\ spread >= 0
    BY <1>2, <1>4, <1>5
  <1>7. Z(r, metric, year) = IF spread = 0 THEN 0 ELSE up \div (n * spread)
    BY DEF Z, w, rates
  <1> HIDE DEF n, spread, up
  <1>8. spread # 0 => n * spread \in Int /\ n * spread > 0
    BY <1>5, <1>6
  <1>9. spread # 0 => up \div (n * spread) \in Int
    BY <1>6, <1>8
  <1> QED BY <1>7, <1>9

\* A season's score adds two weighted places.
LEMMA CompositeIsInt ==
    ASSUME NEW year, IsFiniteSet(year), NEW r \in year,
           \A x \in year : RowHolds(x) /\ Qualifies(x) /\ ~Broken(x)
    PROVE  Composite(r, year) \in Int
  <1> DEFINE w == [m \in Metrics |-> QB_SCORE_WEIGHTS[m] * Z(r, m, year)]
  <1>1. \A m \in Metrics : w[m] \in Int
    <2>1. SUFFICES ASSUME NEW m \in Metrics PROVE w[m] \in Int
      OBVIOUS
    <2>2. QB_SCORE_WEIGHTS[m] \in Int
      BY ScoreAssumption
    <2>3. Z(r, m, year) \in Int
      BY ZIsInt
    <2> QED BY <2>2, <2>3
  <1>2. IsFiniteSet(Metrics)
    <2>1. IsFiniteSet({"epa_per_dropback"} \cup {"rush_epa_per_play"})
      BY FS_Singleton, FS_Union
    <2>2. Metrics = {"epa_per_dropback"} \cup {"rush_epa_per_play"}
      BY DEF Metrics
    <2> QED BY <2>1, <2>2
  <1>3. Composite(r, year) = Sum(w, Metrics) \div 100
    BY DEF Composite
  <1> HIDE DEF w
  <1>4. Sum(w, Metrics) \in Int
    BY <1>1, <1>2, TotalFacts
  <1> QED BY <1>3, <1>4

\* A sum is of the values alone.
LEMMA SumSame ==
    ASSUME NEW w, NEW v, NEW U, IsFiniteSet(U), \A x \in U : w[x] = v[x]
    PROVE  Sum(w, U) = Sum(v, U)
  <1>1. PICK f : Sums(w, U, f)
    BY SumsExist
  <1>2. PICK g : Sums(v, U, g)
    BY SumsExist
  <1>3. PICK f1 : Sums(w, U, f1) /\ Sum(w, U) = f1[U]
    BY <1>1, TotalIs
  <1>4. PICK g1 : Sums(v, U, g1) /\ Sum(v, U) = g1[U]
    BY <1>2, TotalIs
  <1>5. U \in SUBSET (U \cap U)
    OBVIOUS
  <1>6. f1[U] = g1[U]
    BY <1>3, <1>4, <1>5, SumsAgree
  <1> QED BY <1>3, <1>4, <1>6

\* The composites of a career are its seasons', each judged against everybody
\* who qualified in its year.
LEMMA SeasonFacts ==
    ASSUME TablesInv, NEW p, ~ScoreFails(db, p)
    PROVE  LET T == TrueSeasons(p) f == Composites(db, p) IN
           /\ IsFiniteSet(T)
           /\ \A r \in T : /\ r.season \in Int
                           /\ Composite(r, InYear(r.season)) \in Int
                           /\ f[r.season] = Composite(r, InYear(r.season))
           /\ DOMAIN f = {r.season : r \in T}
           /\ \A r, x \in T : r.season = x.season => r = x
  <1> DEFINE T == TrueSeasons(p)
             f == Composites(db, p)
             scored == {r \in OwnRows(db, p) : Qualifies(r)}
             base(r) == {x \in BaselineRows(db, p) : x.season = r.season}
  <1>1. /\ IsFiniteSet(db.rows) /\ \A r \in db.rows : RowHolds(r)
        /\ \A r, x \in db.rows : <<r.player, r.season, r.type>> = <<x.player, x.season, x.type>> => r = x
    BY DEF TablesInv, TablesHold
  <1>2. T = scored
    BY DEF TrueSeasons, OwnRows
  <1>3. IsFiniteSet(T)
    <2>1. T \in SUBSET db.rows
      BY DEF TrueSeasons, QbRows
    <2> HIDE DEF T
    <2> QED BY <1>1, <2>1, FS_Subset
  <1>4. ASSUME NEW r \in T, NEW x \in T, r.season = x.season PROVE r = x
    <2>1. r \in db.rows /\ x \in db.rows /\ r.player = p /\ x.player = p
             /\ r.type = "regular" /\ x.type = "regular"
      BY DEF TrueSeasons, QbRows
    <2> QED BY <1>1, <1>4, <2>1
  <1>5. ASSUME NEW r \in T PROVE base(r) = InYear(r.season)
    <2>1. r \in OwnRows(db, p)
      BY <1>2
    <2> QED BY <2>1 DEF BaselineRows, InYear
  <1>6. ASSUME NEW r \in T PROVE r.season \in Int /\ Composite(r, InYear(r.season)) \in Int
    <2> DEFINE Y == InYear(r.season)
    <2>1. r \in db.rows /\ r \in Y /\ Y \in SUBSET db.rows
      BY DEF TrueSeasons, InYear, QbRows
    <2>2. \A x \in Y : RowHolds(x) /\ Qualifies(x)
      BY <1>1, <2>1 DEF InYear
    <2>3. \A x \in Y : ~Broken(x)
      BY <1>5 DEF ScoreFails
    <2> HIDE DEF Y
    <2>4. IsFiniteSet(Y)
      BY <1>1, <2>1, FS_Subset
    <2>5. Composite(r, Y) \in Int
      BY <2>1, <2>2, <2>3, <2>4, CompositeIsInt
    <2> QED BY <1>1, <2>1, <2>5 DEF Y, RowHolds
  <1>7. f = [s \in {r.season : r \in scored} |->
                LET r == CHOOSE r \in scored : r.season = s IN Composite(r, base(r))]
    BY DEF Composites
  <1>8. DOMAIN f = {r.season : r \in T}
    BY <1>2, <1>7
  <1>9. ASSUME NEW r \in T PROVE f[r.season] = Composite(r, InYear(r.season))
    <2> DEFINE q == CHOOSE q \in scored : q.season = r.season
    <2>1. q \in scored /\ q.season = r.season
      BY <1>2
    <2>2. q = r
      BY <1>2, <1>4, <2>1
    <2>3. f[r.season] = Composite(q, base(q))
      BY <1>2, <1>7
    <2> QED BY <1>5, <2>2, <2>3
  <1> QED BY <1>3, <1>4, <1>6, <1>8, <1>9

\* As composites: a set of seasons sums to what its years do.
LEMMA ComposedIs ==
    ASSUME TablesInv, NEW p, ~ScoreFails(db, p), NEW U \in SUBSET TrueSeasons(p)
    PROVE  LET f == Composites(db, p) years == {r.season : r \in U} IN
           /\ IsFiniteSet(U) /\ IsFiniteSet(years) /\ years \in SUBSET DOMAIN f
           /\ Cardinality(years) = Cardinality(U)
           /\ Composed(U) = Sum(f, years)
  <1> DEFINE T == TrueSeasons(p)
             w == [r \in U |-> Composite(r, InYear(r.season))]
             key == [r \in U |-> r.season]
             years == {r.season : r \in U}
  <1>1. PICK f : f = Composites(db, p)
    OBVIOUS
  <1>2. /\ IsFiniteSet(T) /\ DOMAIN f = {r.season : r \in T}
        /\ \A r \in T : /\ Composite(r, InYear(r.season)) \in Int
                        /\ f[r.season] = Composite(r, InYear(r.season))
        /\ \A r, x \in T : r.season = x.season => r = x
    BY <1>1, SeasonFacts
  <1>3. IsFiniteSet(U)
    BY <1>2, FS_Subset
  <1>4. years = {key[x] : x \in U} /\ years \in SUBSET DOMAIN f
    BY <1>2
  <1>5. \A x \in U : w[x] \in Int /\ f[key[x]] = w[x]
    BY <1>2
  <1>6. \A x, y \in U : key[x] = key[y] => x = y
    BY <1>2
  <1>7. Composed(U) = Sum(w, U)
    BY DEF Composed
  <1> HIDE DEF w, key, T, years
  <1>8. IsFiniteSet(years) /\ Cardinality(years) = Cardinality(U) /\ Sum(w, U) = Sum(f, years)
    BY <1>3, <1>4, <1>5, <1>6, SumRenamed
  <1> QED BY <1>1, <1>3, <1>4, <1>7, <1>8 DEF years

\* get_qb_score gives the true score: the career is the sum of the seasons, the
\* peak the best choice of them.
LEMMA ScoreIsTrue ==
    ASSUME TablesInv, NEW p, ~ScoreFails(db, p)
    PROVE  LET T == TrueSeasons(p)
               s == Score(db, p)
               career == QB_SCORE_PEAK_SEASONS * Composed(T)
           IN  /\ s.qualifying_seasons = Cardinality(T) /\ IsFiniteSet(T)
               /\ career \in Int /\ BestOf(T) \in Int
               /\ s.career \in {None, career} /\ s.peak \in {None, BestOf(T)}
               /\ T # {} => s.career = career /\ s.peak = BestOf(T)
  <1> DEFINE T == TrueSeasons(p)
  <1>1. PICK f, D, P : f = Composites(db, p) /\ D = DOMAIN f /\ P = PeakSeasons(f)
    OBVIOUS
  <1>2. /\ IsFiniteSet(T) /\ DOMAIN f = {r.season : r \in T}
        /\ \A r \in T : /\ r.season \in Int /\ f[r.season] \in Int
        /\ \A r, x \in T : r.season = x.season => r = x
    BY <1>1, SeasonFacts
  <1>3. \A U \in SUBSET T : LET years == {r.season : r \in U} IN
           /\ IsFiniteSet(U) /\ IsFiniteSet(years) /\ years \in SUBSET DOMAIN f
           /\ Cardinality(years) = Cardinality(U)
           /\ Composed(U) = Sum(f, years)
    BY <1>1, ComposedIs
  <1>4. IsFiniteSet(D) /\ Cardinality(D) = Cardinality(T) /\ Composed(T) = Sum(f, D)
    BY <1>1, <1>2, <1>3
  <1>5. \A s \in D : s \in Int /\ f[s] \in Int
    BY <1>1, <1>2
  <1>6. QB_SCORE_PEAK_SEASONS \in Nat \ {0}
    BY ScoreAssumption
  <1> DEFINE few == IF Cardinality(D) < QB_SCORE_PEAK_SEASONS THEN Cardinality(D) ELSE QB_SCORE_PEAK_SEASONS
  <1>7. P \in SUBSET D /\ Cardinality(P) = few
    BY <1>1, <1>4, <1>5, <1>6, PeakSize
  <1>8. Min({QB_SCORE_PEAK_SEASONS, Cardinality(T)}) = few
    <2>1. Cardinality(T) \in Nat
      BY <1>2, FS_CardinalityType
    <2>2. few \in {QB_SCORE_PEAK_SEASONS, Cardinality(T)} /\ few <= QB_SCORE_PEAK_SEASONS /\ few <= Cardinality(T)
             /\ few \in Nat
      BY <1>4, <1>6, <2>1
    <2> HIDE DEF few
    <2>3. \E k \in {QB_SCORE_PEAK_SEASONS, Cardinality(T)} :
             \A x \in {QB_SCORE_PEAK_SEASONS, Cardinality(T)} : k <= x
      BY <2>2
    <2>4. LET m == Min({QB_SCORE_PEAK_SEASONS, Cardinality(T)}) IN
          /\ m \in {QB_SCORE_PEAK_SEASONS, Cardinality(T)}
          /\ \A x \in {QB_SCORE_PEAK_SEASONS, Cardinality(T)} : m <= x
      BY <2>3 DEF Min
    <2> QED BY <1>6, <2>1, <2>2, <2>4
  <1> DEFINE choices == {U \in SUBSET T : Cardinality(U) = few}
             sums == {Composed(U) : U \in choices}
  <1>9. BestOf(T) = Max(sums)
    BY <1>8 DEF BestOf
  <1> HIDE DEF few
  <1>10. Sum(f, P) \in sums
    <2> DEFINE U == {r \in T : r.season \in P}
    <2>1. {r.season : r \in U} = P
      BY <1>1, <1>2, <1>7
    <2>2. U \in SUBSET T /\ Cardinality(U) = few /\ Composed(U) = Sum(f, P)
      BY <1>3, <1>7, <2>1
    <2> QED BY <2>2
  <1>11. ASSUME NEW U \in choices PROVE Composed(U) \in Int /\ Composed(U) <= Sum(f, P)
    <2> DEFINE years == {r.season : r \in U}
    <2>1. /\ IsFiniteSet(years) /\ years \in SUBSET D
          /\ Cardinality(years) = Cardinality(P)
          /\ Composed(U) = Sum(f, years)
      BY <1>1, <1>3, <1>7
    <2> HIDE DEF years
    <2>2. Sum(f, years) <= Sum(f, P)
      BY <1>1, <1>4, <1>5, <1>6, <2>1, PeakIsBest
    <2>3. Sum(f, years) \in Int
      BY <1>5, <2>1, TotalFacts
    <2> QED BY <2>1, <2>2, <2>3
  <1>12. Max(sums) = Sum(f, P) /\ Sum(f, P) \in Int
    <2>1. sums \subseteq Int /\ \A x \in sums : x <= Sum(f, P)
      BY <1>11
    <2> HIDE DEF sums
    <2> QED BY <1>10, <2>1, MaxIs
  <1>13. Sum(f, D) \in Int
    BY <1>4, <1>5, TotalFacts
  <1>14. Score(db, p) = [qualifying_seasons |-> Cardinality(D),
                         career |-> IF f = <<>> THEN None ELSE QB_SCORE_PEAK_SEASONS * Sum(f, D),
                         peak |-> IF f = <<>> THEN None ELSE Sum(f, P)]
    BY <1>1 DEF Score
  <1>15. T # {} => f # <<>>
    BY <1>2
  <1> HIDE DEF T, sums
  <1> QED BY <1>2, <1>4, <1>6, <1>9, <1>12, <1>13, <1>14, <1>15 DEF T

-----------------------------------------------------------------------------
(* The fact block *)

\* What an open block states of its two players, and that it could be built.
LEMMA BlockFacts ==
    ASSUME TablesInv, BlockInv, block # <<>>
    PROVE  LET b == block[1] p(s) == PlayerOf(s) score(s) == Score(db, p(s)) IN
           /\ p("a") # p("b") /\ \A s \in Sides : ~ScoreFails(db, p(s))
           /\ \A s \in Sides : \A m \in Measures : b.scores[s][m] = score(s)[m]
           /\ \A s \in Sides : b.qualifying_seasons[s] = score(s).qualifying_seasons
           /\ \A s \in Sides : \A t \in SeasonTypes : b.records[s][t] = CareerRecord(db, p(s), t)
           /\ \A t \in SeasonTypes :
                 /\ b.head_to_head["a"][t] = HeadToHead(db, p("a"), p("b"), t)
                 /\ b.head_to_head["b"][t] = Flipped(HeadToHead(db, p("a"), p("b"), t))
           /\ b.inconclusive <=> \E s \in Sides : score(s).qualifying_seasons = 0
           /\ \A m \in Measures : b.winners[m] =
                 IF ~b.inconclusive THEN Winner(score("a")[m], score("b")[m]) ELSE None
           /\ b.data_first = DataFirst(db)
  <1>1. PICK x, y \in PlayerIds(db) :
            x # y /\ ~ScoreFails(db, x) /\ ~ScoreFails(db, y) /\ block[1] = Block(db, x, y)
    BY DEF BlockInv
  <1> DEFINE b == block[1]
             id == [side \in Sides |-> IF side = "a" THEN x ELSE y]
             score == [side \in Sides |-> Score(db, id[side])]
             decided == ~Inconclusive(score)
  <1>2. /\ b.ids = id
        /\ b.scores = [side \in Sides |-> [m \in Measures |-> score[side][m]]]
        /\ b.qualifying_seasons = [side \in Sides |-> score[side].qualifying_seasons]
        /\ b.records = [side \in Sides |-> [t \in SeasonTypes |-> CareerRecord(db, id[side], t)]]
        /\ b.head_to_head = [side \in Sides |-> [t \in SeasonTypes |->
                IF side = "a" THEN HeadToHead(db, x, y, t) ELSE Flipped(HeadToHead(db, x, y, t))]]
        /\ b.winners = [m \in Measures |->
                IF decided THEN Winner(score["a"][m], score["b"][m]) ELSE None]
        /\ b.inconclusive = ~decided
        /\ b.data_first = DataFirst(db)
    BY <1>1 DEF Block
  <1>3. PlayerOf("a") = x /\ PlayerOf("b") = y /\ Sides = {"a", "b"}
    BY <1>2 DEF PlayerOf, Sides
  <1>4. \A s \in Sides : score[s] = Score(db, PlayerOf(s)) /\ PlayerOf(s) = id[s]
    BY <1>2 DEF PlayerOf
  <1>5. Inconclusive(score) <=> \E s \in Sides : score[s].qualifying_seasons = 0
    BY DEF Inconclusive
  <1> HIDE DEF score, id
  <1>6. PlayerOf("a") # PlayerOf("b") /\ \A s \in Sides : ~ScoreFails(db, PlayerOf(s))
    BY <1>1, <1>3
  <1>7. \A s \in Sides : /\ \A m \in Measures : b.scores[s][m] = Score(db, PlayerOf(s))[m]
                         /\ b.qualifying_seasons[s] = Score(db, PlayerOf(s)).qualifying_seasons
    BY <1>2, <1>4
  <1>8. \A s \in Sides : \A t \in SeasonTypes : b.records[s][t] = CareerRecord(db, PlayerOf(s), t)
    BY <1>2, <1>4
  <1>9. \A t \in SeasonTypes :
           /\ b.head_to_head["a"][t] = HeadToHead(db, PlayerOf("a"), PlayerOf("b"), t)
           /\ b.head_to_head["b"][t] = Flipped(HeadToHead(db, PlayerOf("a"), PlayerOf("b"), t))
    BY <1>2, <1>3
  <1>10. b.inconclusive <=> \E s \in Sides : Score(db, PlayerOf(s)).qualifying_seasons = 0
    BY <1>2, <1>4, <1>5
  <1>11. \A m \in Measures : b.winners[m] =
            IF ~b.inconclusive THEN Winner(Score(db, PlayerOf("a"))[m], Score(db, PlayerOf("b"))[m]) ELSE None
    BY <1>2, <1>3, <1>4
  <1> QED BY <1>2, <1>6, <1>7, <1>8, <1>9, <1>10, <1>11

\* The scores and the winners of an open block are the true ones.
LEMMA VerdictFacts ==
    ASSUME TablesInv, BlockInv, block # <<>>
    PROVE  LET b == block[1] IN
           /\ \A s \in Sides : b.qualifying_seasons[s] = Cardinality(TrueSeasons(PlayerOf(s)))
           /\ \A s \in Sides : \A m \in Measures :
                 /\ TrueScore(s, m) \in Int
                 /\ b.scores[s][m] \in {None, TrueScore(s, m)}
                 /\ Rankable => b.scores[s][m] = TrueScore(s, m)
           /\ b.inconclusive <=> ~Rankable
           /\ \A m \in Measures : /\ b.winners[m] \in Sides \cup {None}
                                  /\ \A s \in Sides : b.winners[m] = s <=> Leads(s, m)
  <1> DEFINE b == block[1]
             T(s) == TrueSeasons(PlayerOf(s))
             score(s) == Score(db, PlayerOf(s))
  <1>1. /\ \A s \in Sides : ~ScoreFails(db, PlayerOf(s))
        /\ \A s \in Sides : \A m \in Measures : b.scores[s][m] = score(s)[m]
        /\ \A s \in Sides : b.qualifying_seasons[s] = score(s).qualifying_seasons
        /\ b.inconclusive <=> \E s \in Sides : score(s).qualifying_seasons = 0
        /\ \A m \in Measures : b.winners[m] =
              IF ~b.inconclusive THEN Winner(score("a")[m], score("b")[m]) ELSE None
    BY BlockFacts
  <1>2. ASSUME NEW s \in Sides
        PROVE  /\ score(s).qualifying_seasons = Cardinality(T(s)) /\ IsFiniteSet(T(s))
               /\ \A m \in Measures : /\ TrueScore(s, m) \in Int
                                      /\ score(s)[m] \in {None, TrueScore(s, m)}
                                      /\ T(s) # {} => score(s)[m] = TrueScore(s, m)
    <2>1. ~ScoreFails(db, PlayerOf(s))
      BY <1>1
    <2>2. PICK p : p = PlayerOf(s)
      OBVIOUS
    <2>3. LET c == QB_SCORE_PEAK_SEASONS * Composed(TrueSeasons(p)) IN
          /\ Score(db, p).qualifying_seasons = Cardinality(TrueSeasons(p)) /\ IsFiniteSet(TrueSeasons(p))
          /\ c \in Int /\ BestOf(TrueSeasons(p)) \in Int
          /\ Score(db, p).career \in {None, c} /\ Score(db, p).peak \in {None, BestOf(TrueSeasons(p))}
          /\ TrueSeasons(p) # {} => Score(db, p).career = c /\ Score(db, p).peak = BestOf(TrueSeasons(p))
      BY <2>1, <2>2, ScoreIsTrue
    <2>4. /\ TrueScore(s, "career") = QB_SCORE_PEAK_SEASONS * Composed(TrueSeasons(p))
          /\ TrueScore(s, "peak") = BestOf(TrueSeasons(p))
      BY <2>2 DEF TrueScore
    <2>5. \A m \in Measures : m = "career" \/ m = "peak"
      BY DEF Measures
    <2> QED BY <2>2, <2>3, <2>4, <2>5
  <1>3. \A s \in Sides : score(s).qualifying_seasons = 0 <=> T(s) = {}
    BY <1>2, FS_EmptySet
  <1>4. b.inconclusive <=> ~Rankable
    BY <1>1, <1>3 DEF Rankable
  <1>5. Rankable => \A s \in Sides : \A m \in Measures : score(s)[m] = TrueScore(s, m)
    BY <1>2 DEF Rankable
  <1>6. ASSUME NEW m \in Measures
        PROVE  b.winners[m] \in Sides \cup {None} /\ \A s \in Sides : b.winners[m] = s <=> Leads(s, m)
    <2>1. None \notin Sides /\ None \notin Int /\ Sides = {"a", "b"}
      BY QbAssumption, ScoreAssumption DEF Sides
    <2>2. CASE ~Rankable
      BY <1>1, <1>4, <2>1, <2>2 DEF Leads
    <2>3. CASE Rankable
      <3>1. b.winners[m] = Winner(TrueScore("a", m), TrueScore("b", m))
        BY <1>1, <1>4, <1>5, <2>1, <2>3
      <3>2. TrueScore("a", m) \in Int /\ TrueScore("b", m) \in Int
        BY <1>2, <2>1
      <3>3. Other("a") = "b" /\ Other("b") = "a"
        BY DEF Other
      <3>4. b.winners[m] = IF TrueScore("a", m) = TrueScore("b", m) THEN None
                           ELSE IF TrueScore("a", m) > TrueScore("b", m) THEN "a" ELSE "b"
        BY <2>1, <3>1, <3>2 DEF Winner
      <3>5. Leads("a", m) <=> TrueScore("a", m) > TrueScore("b", m)
        BY <2>3, <3>3 DEF Leads
      <3>6. Leads("b", m) <=> TrueScore("b", m) > TrueScore("a", m)
        BY <2>3, <3>3 DEF Leads
      <3> QED BY <2>1, <3>2, <3>4, <3>5, <3>6
    <2> QED BY <2>2, <2>3
  <1> QED BY <1>1, <1>2, <1>4, <1>5, <1>6 DEF Rankable

\* A quotient grows with what is divided.
LEMMA DivGrows ==
    ASSUME NEW x \in Int, NEW y \in Int, NEW d \in Int, d > 0, x <= y
    PROVE  /\ x \div d \in Int /\ x \div d <= y \div d
           /\ x >= 0 => x \div d >= 0
  <1>1. PICK q, r \in Int : q = x \div d /\ r = y \div d
    OBVIOUS
  <1>2. d * q <= x /\ x < d * q + d
    BY <1>1
  <1>3. d * r <= y /\ y < d * r + d
    BY <1>1
  <1>4. q <= r
    <2>1. SUFFICES ASSUME r + 1 <= q PROVE FALSE
      OBVIOUS
    <2>2. d * (r + 1) <= d * q
      BY <2>1
    <2>3. d * (r + 1) = d * r + d
      OBVIOUS
    <2> QED BY <1>2, <1>3, <2>2, <2>3
  <1>5. x >= 0 => q >= 0
    <2>1. SUFFICES ASSUME x >= 0, q + 1 <= 0 PROVE FALSE
      OBVIOUS
    <2>2. d * (q + 1) <= 0
      BY <2>1
    <2>3. d * (q + 1) = d * q + d
      OBVIOUS
    <2> QED BY <1>2, <2>1, <2>2, <2>3
  <1> QED BY <1>1, <1>4, <1>5

\* A printed score keeps the order of the scores.
LEMMA ShownGrows ==
    ASSUME NEW v \in Int, NEW w \in Int, v <= w
    PROVE  Shown(v) \in Int /\ Shown(w) \in Int /\ Shown(v) <= Shown(w)
  <1> DEFINE unit == 10 * QB_SCORE_PEAK_SEASONS
             up(x) == (2 * x + unit) \div (2 * unit)
  <1>1. unit \in Int /\ unit > 0
    BY ScoreAssumption
  <1>2. \A x : Shown(x) = IF x >= 0 THEN up(x) ELSE -up(-x)
    BY DEF Shown
  <1> HIDE DEF unit
  <1>3. ASSUME NEW x \in Int, NEW y \in Int, x >= 0, x <= y
        PROVE  up(x) \in Int /\ up(x) >= 0 /\ up(x) <= up(y) /\ up(y) \in Int
    <2>1. PICK p, q, d \in Int : p = 2 * x + unit /\ q = 2 * y + unit /\ d = 2 * unit
      BY <1>1
    <2>2. d > 0 /\ p <= q /\ p >= 0 /\ q <= q
      BY <1>1, <1>3, <2>1
    <2>3. p \div d \in Int /\ p \div d <= q \div d /\ p \div d >= 0
      BY <2>2, DivGrows
    <2>4. q \div d \in Int
      BY <2>2, DivGrows
    <2> QED BY <2>1, <2>3, <2>4
  <1>4. \A x \in Int : x >= 0 => up(x) \in Int /\ up(x) >= 0
    BY <1>3
  <1>5. \A x \in Int : x < 0 => -x \in Int /\ -x >= 0
    OBVIOUS
  <1> HIDE DEF up
  <1>6. CASE v >= 0
    <2>1. up(v) \in Int /\ up(v) <= up(w) /\ up(w) \in Int /\ w >= 0
      BY <1>3, <1>6
    <2> QED BY <1>2, <1>6, <2>1
  <1>7. CASE v < 0 /\ w >= 0
    <2>1. up(-v) \in Int /\ up(-v) >= 0 /\ up(w) \in Int /\ up(w) >= 0
      BY <1>4, <1>5, <1>7
    <2> QED BY <1>2, <1>7, <2>1
  <1>8. CASE v < 0 /\ w < 0
    <2>1. -w \in Int /\ -w >= 0 /\ -v \in Int /\ -w <= -v
      BY <1>8
    <2>2. up(-w) \in Int /\ up(-w) <= up(-v) /\ up(-v) \in Int
      BY <1>3, <2>1
    <2> QED BY <1>2, <1>8, <2>2
  <1> QED BY <1>6, <1>7, <1>8

\* A margin that is stated is its leader's, and positive; the band is of the
\* two scores as they are printed.
LEMMA MarginFacts ==
    ASSUME TablesInv, BlockInv, block # <<>>,
           NEW m \in Measures, NEW s \in Sides, Leads(s, m)
    PROVE  /\ ShownMargin(block[1], m) = Shown(TrueScore(s, m)) - Shown(TrueScore(Other(s), m))
           /\ ShownMargin(block[1], m) \in Nat
  <1>1. Other(s) \in Sides
    BY DEF Other, Sides
  <1>2. Rankable /\ TrueScore(s, m) > TrueScore(Other(s), m)
    BY DEF Leads
  <1>3. /\ block[1].winners[m] = s
        /\ \A x \in Sides : TrueScore(x, m) \in Int /\ block[1].scores[x][m] = TrueScore(x, m)
    BY <1>2, VerdictFacts
  <1>4. ShownMargin(block[1], m) = Shown(TrueScore(s, m)) - Shown(TrueScore(Other(s), m))
    BY <1>1, <1>3 DEF ShownMargin
  <1>5. PICK v, w \in Int : v = TrueScore(Other(s), m) /\ w = TrueScore(s, m) /\ v <= w
    BY <1>1, <1>2, <1>3
  <1>6. Shown(v) \in Int /\ Shown(w) \in Int /\ Shown(v) <= Shown(w)
    BY <1>5, ShownGrows
  <1> QED BY <1>4, <1>5, <1>6

-----------------------------------------------------------------------------
(* Records and head to heads *)

\* As many under other names.
LEMMA SameCount ==
    ASSUME NEW S, IsFiniteSet(S), NEW key, \A x, y \in S : key[x] = key[y] => x = y,
           NEW image, image = {key[x] : x \in S}
    PROVE  IsFiniteSet(image) /\ Cardinality(image) = Cardinality(S)
  <1>1. PICK w : w = [x \in S |-> 0]
    OBVIOUS
  <1>2. PICK v : v = [z \in image |-> 0]
    OBVIOUS
  <1>3. \A x \in S : w[x] \in Int /\ v[key[x]] = w[x]
    BY <1>1, <1>2
  <1> QED BY <1>3, SumRenamed

\* A start's game, and the team its player had in it.
LEMMA GameFacts ==
    ASSUME TablesInv, NEW s \in db.starts
    PROVE  /\ GameOf(db, s) \in db.games /\ GameOf(db, s).id = s.game
           /\ \A g \in db.games : g.id = s.game => g = GameOf(db, s)
           /\ s.team \in {GameOf(db, s).home, GameOf(db, s).away}
           /\ \A p : s.player = p => TeamIn(p, GameOf(db, s)) = s.team
  <1>1. /\ \A g, h \in db.games : g.id = h.id => g = h
        /\ StartHolds(s, db.games)
        /\ \A t, u \in db.starts : <<t.player, t.game>> = <<u.player, u.game>> => t = u
    BY DEF TablesInv, TablesHold
  <1>2. PICK g \in db.games : g.id = s.game /\ s.team \in {g.home, g.away}
    BY <1>1 DEF StartHolds
  <1>3. GameOf(db, s) \in db.games /\ GameOf(db, s).id = s.game
    BY <1>2 DEF GameOf
  <1>4. GameOf(db, s) = g
    BY <1>1, <1>2, <1>3
  <1>5. ASSUME NEW p, s.player = p PROVE TeamIn(p, g) = s.team
    <2> DEFINE t == CHOOSE t \in db.starts : t.player = p /\ t.game = g.id
    <2>1. t \in db.starts /\ t.player = p /\ t.game = g.id
      BY <1>2, <1>5
    <2>2. t = s
      BY <1>1, <1>2, <1>5, <2>1
    <2> QED BY <2>2 DEF TeamIn
  <1> QED BY <1>1, <1>2, <1>3, <1>4, <1>5

\* The record of some of a player's starts is that of the games they were.
LEMMA RecordIs ==
    ASSUME TablesInv, NEW p, NEW S, S \subseteq {s \in db.starts : s.player = p},
           NEW told, told = {GameOf(db, s) : s \in {x \in S : Counted(GameOf(db, x))}}
    PROVE  LET r == Record(db, S) IN
           /\ r.wins = Beaten(p, told) /\ r.wins \in Nat
           /\ r.losses = Cardinality({g \in told : Mine(g, TeamIn(p, g)) < Theirs(g, TeamIn(p, g))})
           /\ r.losses \in Nat /\ r.ties \in Nat
           /\ Started(r) = Cardinality(told)
  <1> DEFINE C == {s \in S : Counted(GameOf(db, s))}
             my(s) == Mine(GameOf(db, s), s.team)
             their(s) == Theirs(GameOf(db, s), s.team)
             W == {s \in C : my(s) > their(s)}
             L == {s \in C : my(s) < their(s)}
             E == {s \in C : my(s) = their(s)}
             r == Record(db, S)
  <1>1. r.wins = Cardinality(W) /\ r.losses = Cardinality(L) /\ r.ties = Cardinality(E)
    <2>1. r = [wins |-> Cardinality({s \in S : Counted(GameOf(db, s)) /\ my(s) > their(s)}),
               losses |-> Cardinality({s \in S : Counted(GameOf(db, s)) /\ my(s) < their(s)}),
               ties |-> Cardinality({s \in S : Counted(GameOf(db, s)) /\ my(s) = their(s)})]
      BY DEF Record
    <2>2. /\ {s \in S : Counted(GameOf(db, s)) /\ my(s) > their(s)} = W
          /\ {s \in S : Counted(GameOf(db, s)) /\ my(s) < their(s)} = L
          /\ {s \in S : Counted(GameOf(db, s)) /\ my(s) = their(s)} = E
      OBVIOUS
    <2> HIDE DEF W, L, E, r
    <2> QED BY <2>1, <2>2
  <1>2. \A s \in S : /\ s \in db.starts /\ s.player = p
                     /\ GameOf(db, s) \in db.games /\ GameOf(db, s).id = s.game
                     /\ TeamIn(p, GameOf(db, s)) = s.team
    BY GameFacts
  <1>3. \A s, t \in S : GameOf(db, s) = GameOf(db, t) => s = t
    BY <1>2 DEF TablesInv, TablesHold
  <1>4. ASSUME NEW s \in C PROVE my(s) \in Int /\ their(s) \in Int
    <2>1. Whole(GameOf(db, s).hp) /\ Whole(GameOf(db, s).ap)
      BY <1>2 DEF TablesInv, TablesHold
    <2> QED BY <2>1 DEF Whole, Counted, Mine, Theirs
  <1>5. IsFiniteSet(S)
    <2>1. S \in SUBSET db.starts /\ IsFiniteSet(db.starts)
      BY DEF TablesInv, TablesHold
    <2> QED BY <2>1, FS_Subset
  <1>6. W \in SUBSET S /\ L \in SUBSET S /\ E \in SUBSET S /\ C \in SUBSET S
    OBVIOUS
  <1>7. W \cup (L \cup E) = C /\ W \cap (L \cup E) = {} /\ L \cap E = {}
    BY <1>4
  <1>8. \A U \in SUBSET S : LET image == {GameOf(db, s) : s \in U} IN
           IsFiniteSet(U) /\ Cardinality(U) \in Nat /\ Cardinality(image) = Cardinality(U)
    <2>1. SUFFICES ASSUME NEW U \in SUBSET S
                   PROVE  /\ IsFiniteSet(U) /\ Cardinality(U) \in Nat
                          /\ Cardinality({GameOf(db, s) : s \in U}) = Cardinality(U)
      OBVIOUS
    <2>2. IsFiniteSet(U) /\ Cardinality(U) \in Nat
      BY <1>5, Smaller
    <2>3. PICK key : key = [s \in U |-> GameOf(db, s)]
      OBVIOUS
    <2>4. PICK image : image = {key[s] : s \in U} /\ image = {GameOf(db, s) : s \in U}
      BY <2>3
    <2>5. \A x, y \in U : key[x] = key[y] => x = y
      BY <1>3, <2>3
    <2>6. Cardinality(image) = Cardinality(U)
      BY <2>2, <2>4, <2>5, SameCount
    <2> QED BY <2>2, <2>4, <2>6
  <1>9. {GameOf(db, s) : s \in W} = {g \in told : Mine(g, TeamIn(p, g)) > Theirs(g, TeamIn(p, g))}
    BY <1>2
  <1>10. {GameOf(db, s) : s \in L} = {g \in told : Mine(g, TeamIn(p, g)) < Theirs(g, TeamIn(p, g))}
    BY <1>2
  <1>11. {GameOf(db, s) : s \in C} = told
    OBVIOUS
  <1> HIDE DEF W, L, E, C
  <1>12. Cardinality(C) = Cardinality(W) + Cardinality(L) + Cardinality(E)
    <2>1. IsFiniteSet(W) /\ IsFiniteSet(L) /\ IsFiniteSet(E)
      BY <1>6, <1>8
    <2>2. Cardinality(L \cap E) = 0 /\ Cardinality(W \cap (L \cup E)) = 0
      BY <1>7, FS_EmptySet
    <2>3. IsFiniteSet(L \cup E) /\ Cardinality(L \cup E) = Cardinality(L) + Cardinality(E) - Cardinality(L \cap E)
      BY <2>1, FS_Union
    <2>4. Cardinality(W \cup (L \cup E)) = Cardinality(W) + Cardinality(L \cup E) - Cardinality(W \cap (L \cup E))
      BY <2>1, <2>3, FS_Union
    <2>5. Cardinality(W) \in Nat /\ Cardinality(L) \in Nat /\ Cardinality(E) \in Nat
      BY <1>6, <1>8
    <2>6. Cardinality(L \cup E) = Cardinality(L) + Cardinality(E)
      BY <2>2, <2>3, <2>5
    <2>7. Cardinality(W \cup (L \cup E)) = Cardinality(W) + (Cardinality(L) + Cardinality(E))
      BY <2>2, <2>4, <2>5, <2>6
    <2>8. Cardinality(C) = Cardinality(W) + (Cardinality(L) + Cardinality(E))
      BY <1>7, <2>7
    <2> QED BY <2>5, <2>8
  <1>13. /\ r.wins \in Nat /\ r.losses \in Nat /\ r.ties \in Nat
         /\ Started(r) = Cardinality(C)
    BY <1>1, <1>6, <1>8, <1>12 DEF Started
  <1>14. Cardinality({GameOf(db, s) : s \in W}) = Cardinality(W)
         /\ Cardinality({GameOf(db, s) : s \in L}) = Cardinality(L)
         /\ Cardinality({GameOf(db, s) : s \in C}) = Cardinality(C)
    BY <1>6, <1>8
  <1> HIDE DEF r
  <1>15. r.wins = Beaten(p, told)
    BY <1>1, <1>9, <1>14 DEF Beaten
  <1> QED BY <1>1, <1>10, <1>11, <1>13, <1>14, <1>15 DEF r

\* The career record of a season type is of every game he started in it.
LEMMA CareerRecordIs ==
    ASSUME TablesInv, NEW p, NEW type \in SeasonTypes, CareerRecord(db, p, type) # None
    PROVE  LET r == CareerRecord(db, p, type) told == Played(p, type) IN
           r.wins = Beaten(p, told) /\ Started(r) = Cardinality(told)
  <1> DEFINE lines == LinesIn(db, p, type)
             S == {s \in StartsOf(db, p) : GameOf(db, s).type = type}
             told == {GameOf(db, s) : s \in {x \in S : Counted(GameOf(db, x))}}
  <1>1. CareerRecord(db, p, type) = Record(db, UNION {l.starts : l \in lines})
    BY DEF CareerRecord
  <1>2. UNION {l.starts : l \in lines} = S
    <2>1. ASSUME NEW l \in lines, NEW s \in l.starts PROVE s \in S
      <3>1. PICK key \in LineKeys(db, p) : l = Line(db, p, key)
        BY DEF LinesIn, Lines
      <3>2. l.type = type /\ l.type = key[2]
        BY <3>1 DEF LinesIn, Line
      <3>3. s \in StartsOf(db, p) /\ <<GameOf(db, s).season, GameOf(db, s).type>> = key
        BY <2>1, <3>1 DEF Line
      <3> QED BY <3>2, <3>3
    <2>2. ASSUME NEW s \in S PROVE \E l \in lines : s \in l.starts
      <3> DEFINE key == <<GameOf(db, s).season, GameOf(db, s).type>>
      <3>1. key \in LineKeys(db, p)
        BY DEF LineKeys
      <3>2. Line(db, p, key) \in Lines(db, p)
        BY <3>1 DEF Lines
      <3>3. Line(db, p, key).type = type /\ s \in Line(db, p, key).starts
        BY DEF Line
      <3> QED BY <3>2, <3>3 DEF LinesIn
    <2> QED BY <2>1, <2>2
  <1>3. S \subseteq {s \in db.starts : s.player = p}
    BY DEF StartsOf
  <1>4. told = Played(p, type)
    <2>1. ASSUME NEW g \in told PROVE g \in Played(p, type)
      <3>1. PICK s \in S : g = GameOf(db, s) /\ Counted(g)
        OBVIOUS
      <3>2. s \in db.starts /\ s.player = p /\ g.type = type
        BY <3>1 DEF StartsOf
      <3>3. g \in db.games /\ g.id = s.game
        BY <3>1, <3>2, GameFacts
      <3> QED BY <3>1, <3>2, <3>3 DEF Played
    <2>2. ASSUME NEW g \in Played(p, type) PROVE g \in told
      <3>1. g \in db.games /\ g.type = type /\ Counted(g)
        BY DEF Played
      <3>2. PICK s \in db.starts : s.player = p /\ s.game = g.id
        BY DEF Played
      <3>3. g = GameOf(db, s)
        BY <3>1, <3>2, GameFacts
      <3>4. s \in S
        BY <3>1, <3>2, <3>3 DEF StartsOf
      <3> QED BY <3>1, <3>3, <3>4
    <2> QED BY <2>1, <2>2
  <1> HIDE DEF S, told
  <1>5. told = {GameOf(db, s) : s \in {x \in S : Counted(GameOf(db, x))}}
    BY DEF told
  <1>6. Record(db, S).wins = Beaten(p, told) /\ Started(Record(db, S)) = Cardinality(told)
    BY <1>3, <1>5, RecordIs
  <1> QED BY <1>1, <1>2, <1>4, <1>6

\* A head to head is of the games both started for two teams: what one won of
\* them, the other lost.
LEMMA HeadToHeadIs ==
    ASSUME TablesInv, NEW type \in SeasonTypes
    PROVE  LET a == PlayerOf("a") b == PlayerOf("b") r == HeadToHead(db, a, b, type) met == Met(type) IN
           /\ r.wins = Beaten(a, met) /\ r.losses = Beaten(b, met)
           /\ Started(r) = Cardinality(met) /\ Started(Flipped(r)) = Cardinality(met)
  <1>1. PICK a, b : a = PlayerOf("a") /\ b = PlayerOf("b")
    OBVIOUS
  <1> DEFINE S == {s \in StartsOf(db, a) :
                     /\ GameOf(db, s).type = type
                     /\ \E t \in StartsOf(db, b) : t.game = s.game /\ t.team # s.team}
             told == {GameOf(db, s) : s \in {x \in S : Counted(GameOf(db, x))}}
             r == HeadToHead(db, a, b, type)
  <1>2. r = Record(db, S)
    BY DEF HeadToHead
  <1>3. S \subseteq {s \in db.starts : s.player = a}
    BY DEF StartsOf
  <1>4. Met(type) = {g \in Played(a, type) \cap Played(b, type) : TeamIn(a, g) # TeamIn(b, g)}
    BY <1>1 DEF Met
  <1>5. told = Met(type)
    <2>1. ASSUME NEW g \in told PROVE g \in Met(type)
      <3>1. PICK s \in S : g = GameOf(db, s) /\ Counted(g)
        OBVIOUS
      <3>2. s \in db.starts /\ s.player = a /\ g.type = type
        BY <3>1 DEF StartsOf
      <3>3. PICK t \in db.starts : t.player = b /\ t.game = s.game /\ t.team # s.team
        BY <3>1 DEF StartsOf
      <3>4. g \in db.games /\ g.id = s.game /\ TeamIn(a, g) = s.team
        BY <3>1, <3>2, GameFacts
      <3>5. g = GameOf(db, t)
        BY <3>3, <3>4, GameFacts
      <3>6. TeamIn(b, g) = t.team
        BY <3>3, <3>5, GameFacts
      <3> QED BY <1>4, <3>1, <3>2, <3>3, <3>4, <3>6 DEF Played
    <2>2. ASSUME NEW g \in Met(type) PROVE g \in told
      <3>1. g \in db.games /\ g.type = type /\ Counted(g) /\ TeamIn(a, g) # TeamIn(b, g)
        BY <1>4 DEF Played
      <3>2. PICK s \in db.starts : s.player = a /\ s.game = g.id
        BY <1>4 DEF Played
      <3>3. PICK t \in db.starts : t.player = b /\ t.game = g.id
        BY <1>4 DEF Played
      <3>4. g = GameOf(db, s) /\ g = GameOf(db, t)
        BY <3>1, <3>2, <3>3, GameFacts
      <3>5. TeamIn(a, g) = s.team /\ TeamIn(b, g) = t.team
        BY <3>2, <3>3, <3>4, GameFacts
      <3>6. s \in S
        BY <3>1, <3>2, <3>3, <3>4, <3>5 DEF StartsOf
      <3> QED BY <3>1, <3>4, <3>6
    <2> QED BY <2>1, <2>2
  <1>6. ASSUME NEW g \in Met(type)
        PROVE  Mine(g, TeamIn(b, g)) = Theirs(g, TeamIn(a, g)) /\ Theirs(g, TeamIn(b, g)) = Mine(g, TeamIn(a, g))
    <2>1. g \in db.games /\ TeamIn(a, g) # TeamIn(b, g)
      BY <1>4 DEF Played
    <2>2. PICK s \in db.starts : s.player = a /\ s.game = g.id
      BY <1>4 DEF Played
    <2>3. PICK t \in db.starts : t.player = b /\ t.game = g.id
      BY <1>4 DEF Played
    <2>4. g = GameOf(db, s) /\ g = GameOf(db, t)
      BY <2>1, <2>2, <2>3, GameFacts
    <2>5. TeamIn(a, g) \in {g.home, g.away}
      BY <2>2, <2>4, GameFacts
    <2>6. TeamIn(b, g) \in {g.home, g.away}
      BY <2>3, <2>4, GameFacts
    <2>7. g.home # g.away
      BY <2>1 DEF TablesInv, TablesHold
    <2> QED BY <2>1, <2>5, <2>6, <2>7 DEF Mine, Theirs
  <1> DEFINE lost == {g \in told : Mine(g, TeamIn(a, g)) < Theirs(g, TeamIn(a, g))}
  <1>7. lost = {g \in told : Mine(g, TeamIn(b, g)) > Theirs(g, TeamIn(b, g))}
    BY <1>5, <1>6
  <1> HIDE DEF S, told
  <1>8. told = {GameOf(db, s) : s \in {x \in S : Counted(GameOf(db, x))}}
    BY DEF told
  <1>9. /\ r.wins = Beaten(a, told) /\ r.wins \in Nat
        /\ r.losses = Cardinality(lost) /\ r.losses \in Nat /\ r.ties \in Nat
        /\ Started(r) = Cardinality(told)
    <2>1. LET q == Record(db, S) IN
          /\ q.wins = Beaten(a, told) /\ q.wins \in Nat
          /\ q.losses = Cardinality({g \in told : Mine(g, TeamIn(a, g)) < Theirs(g, TeamIn(a, g))})
          /\ q.losses \in Nat /\ q.ties \in Nat
          /\ Started(q) = Cardinality(told)
      BY <1>3, <1>8, RecordIs
    <2> QED BY <1>2, <2>1
  <1>10. r.losses = Beaten(b, told)
    BY <1>7, <1>9 DEF Beaten
  <1>11. Started(Flipped(r)) = Started(r)
    BY <1>9 DEF Started, Flipped
  <1> QED BY <1>1, <1>5, <1>9, <1>10, <1>11

-----------------------------------------------------------------------------
(* Every claim *)

\* A score is printed of the true one, a margin of the leader's two.
LEMMA ScoreAnswerIsTrue ==
    ASSUME TablesInv, BlockInv, block # <<>>,
           NEW c \in [kind : {"score", "margin"}, player : Sides \cup {"c"}, measure : Measures],
           NEW v \in Answers(c, block[1])
    PROVE  FigureIsTrue(c, v)
  <1> DEFINE b == block[1]
             s == c.player
             m == c.measure
  <1>1. m \in Measures /\ c.kind \in {"score", "margin"} /\ "player" \in DOMAIN c
    OBVIOUS
  <1>2. CASE c.kind = "score"
    <2>1. v \in {Shown(x) : x \in UNION {{b.scores[t][m]} \ {None} : t \in {s} \cap Sides}}
      BY <1>1, <1>2 DEF Answers
    <2>2. s \in Sides /\ b.scores[s][m] # None /\ v = Shown(b.scores[s][m])
      BY <2>1
    <2>3. b.scores[s][m] = TrueScore(s, m)
      BY <1>1, <2>2, VerdictFacts
    <2> QED BY <1>2, <2>2, <2>3 DEF FigureIsTrue
  <1>3. CASE c.kind = "margin"
    <2>1. v \in MarginAnswers(c, b)
      BY <1>1, <1>3 DEF Answers
    <2>2. s \in Sides /\ b.winners[m] = s /\ v = ShownMargin(b, m) /\ v # 0
      BY <2>1 DEF MarginAnswers
    <2>3. Leads(s, m)
      BY <1>1, <2>2, VerdictFacts
    <2>4. v = Shown(TrueScore(s, m)) - Shown(TrueScore(Other(s), m)) /\ v \in Nat
      BY <1>1, <2>2, <2>3, MarginFacts
    <2> QED BY <1>3, <2>2, <2>3, <2>4 DEF FigureIsTrue
  <1> QED BY <1>1, <1>2, <1>3

\* A winner leads each measure he is said to win.
LEMMA WinnerAnswerIsTrue ==
    ASSUME TablesInv, BlockInv, block # <<>>,
           NEW c \in [kind : {"winner"}, measure : Measures \cup {"both"}],
           NEW v \in Answers(c, block[1])
    PROVE  FigureIsTrue(c, v)
  <1> DEFINE b == block[1]
             m == c.measure
  <1>1. c.kind = "winner" /\ m \in Measures \cup {"both"}
    OBVIOUS
  <1>2. v \in WinnerAnswers(c, b)
    BY <1>1 DEF Answers
  <1>3. \A k \in Measures : \A s \in Sides : b.winners[k] = s => Leads(s, k)
    BY VerdictFacts
  <1>4. \A k \in Measures : b.winners[k] \in Sides \cup {None}
    BY VerdictFacts
  <1>5. Measures = {"career", "peak"}
    BY DEF Measures
  <1>6. CASE m # "both"
    <2>1. m \in Measures /\ v = b.winners[m] /\ v # None
      BY <1>1, <1>2, <1>6 DEF WinnerAnswers
    <2>2. Leads(v, m)
      BY <1>3, <1>4, <2>1
    <2> QED BY <1>1, <1>6, <2>2 DEF FigureIsTrue
  <1>7. CASE m = "both"
    <2>1. v = b.winners["career"] /\ v = b.winners["peak"] /\ v # None
      BY <1>2, <1>7 DEF WinnerAnswers
    <2>2. \A k \in Measures : Leads(v, k)
      BY <1>3, <1>4, <1>5, <2>1
    <2> QED BY <1>1, <1>7, <2>2 DEF FigureIsTrue
  <1> QED BY <1>6, <1>7

\* The data starts with its first regular season.
LEMMA YearAnswerIsTrue ==
    ASSUME TablesInv, BlockInv, block # <<>>, NEW c \in [kind : {"year"}],
           NEW v \in Answers(c, block[1])
    PROVE  FigureIsTrue(c, v)
  <1> DEFINE own == {x \in db.rows : x.type = "regular"}
             seasons == {r.season : r \in own}
  <1>1. v = DataFirst(db) /\ v # None
    <2>1. v \in {block[1].data_first} \ {None}
      BY DEF Answers
    <2> QED BY <2>1, BlockFacts
  <1>2. seasons # {} /\ v = Min(seasons)
    BY <1>1 DEF DataFirst
  <1>3. IsFiniteSet(seasons) /\ seasons \subseteq Int
    <2>1. own \in SUBSET db.rows /\ IsFiniteSet(db.rows) /\ \A r \in db.rows : r.season \in Int
      BY DEF TablesInv, TablesHold, RowHolds
    <2> HIDE DEF own
    <2>2. IsFiniteSet(own)
      BY <2>1, FS_Subset
    <2>3. PICK w : w = [r \in own |-> r.season]
      OBVIOUS
    <2>4. {w[r] : r \in own} = seasons
      BY <2>3
    <2>5. IsFiniteSet({w[r] : r \in own})
      BY <2>2, ImageIsFinite
    <2> QED BY <2>1, <2>4, <2>5
  <1> HIDE DEF seasons
  <1>4. \A x \in seasons : v <= x /\ v \in Int /\ x \in Int
    BY <1>2, <1>3, MaxMinOfFinite
  <1>5. \A r \in db.rows : r.type = "regular" => r.season \in seasons
    BY DEF seasons
  <1>6. \A r \in db.rows : r.type = "regular" => r.season >= v
    BY <1>4, <1>5
  <1> QED BY <1>6 DEF FigureIsTrue

\* A season count is of the seasons that qualify.
LEMMA CountAnswerIsTrue ==
    ASSUME TablesInv, BlockInv, block # <<>>,
           NEW c \in [kind : {"count"}, of : {"qualifying_seasons"}, player : Sides \cup {"c"}],
           NEW v \in Answers(c, block[1])
    PROVE  FigureIsTrue(c, v)
  <1>1. c.kind = "count" /\ c.of = "qualifying_seasons" /\ "player" \in DOMAIN c
    OBVIOUS
  <1>2. v \in CountAnswers(c, block[1])
    BY <1>1 DEF Answers
  <1>3. c.player \in Sides /\ v = block[1].qualifying_seasons[c.player]
    BY <1>1, <1>2 DEF CountAnswers
  <1>4. v = Cardinality(TrueSeasons(PlayerOf(c.player)))
    BY <1>3, VerdictFacts
  <1> QED BY <1>1, <1>4 DEF FigureIsTrue

\* A record, or one against the other player, recounts from the games.
LEMMA RecordAnswerIsTrue ==
    ASSUME TablesInv, BlockInv, block # <<>>,
           NEW c \in [kind : {"record", "head_to_head"}, player : Sides \cup {"c"}, season_type : SeasonTypes],
           NEW v \in Answers(c, block[1])
    PROVE  FigureIsTrue(c, v)
  <1> DEFINE b == block[1]
             s == c.player
             t == c.season_type
             played(r) == IF r = None THEN {} ELSE {x \in {r} : Started(x) > 0}
  <1>1. t \in SeasonTypes /\ c.kind \in {"record", "head_to_head"} /\ "player" \in DOMAIN c
    OBVIOUS
  <1>2. CASE c.kind = "record"
    <2>1. v \in UNION {played(b.records[x][t]) : x \in {s} \cap Sides}
      BY <1>1, <1>2 DEF Answers
    <2>2. s \in Sides /\ v = b.records[s][t] /\ v # None
      BY <2>1
    <2>3. v = CareerRecord(db, PlayerOf(s), t)
      BY <1>1, <2>2, BlockFacts
    <2>4. /\ v.wins = Beaten(PlayerOf(s), Played(PlayerOf(s), t))
          /\ Started(v) = Cardinality(Played(PlayerOf(s), t))
      BY <1>1, <2>2, <2>3, CareerRecordIs
    <2> QED BY <1>2, <2>4 DEF FigureIsTrue
  <1>3. CASE c.kind = "head_to_head"
    <2>1. v \in UNION {played(b.head_to_head[x][t]) : x \in {s} \cap Sides}
      BY <1>1, <1>3 DEF Answers
    <2>2. s \in Sides /\ v = b.head_to_head[s][t]
      BY <2>1
    <2>3. PICK r : r = HeadToHead(db, PlayerOf("a"), PlayerOf("b"), t)
      OBVIOUS
    <2>4. /\ r.wins = Beaten(PlayerOf("a"), Met(t)) /\ r.losses = Beaten(PlayerOf("b"), Met(t))
          /\ Started(r) = Cardinality(Met(t)) /\ Started(Flipped(r)) = Cardinality(Met(t))
      BY <1>1, <2>3, HeadToHeadIs
    <2>5. b.head_to_head["a"][t] = r /\ b.head_to_head["b"][t] = Flipped(r)
      BY <1>1, <2>3, BlockFacts
    <2>6. Flipped(r).wins = r.losses /\ Flipped(r).losses = r.wins
      BY DEF Flipped
    <2>7. Other("a") = "b" /\ Other("b") = "a" /\ Sides = {"a", "b"}
      BY DEF Other, Sides
    <2>8. /\ v.wins = Beaten(PlayerOf(s), Met(t)) /\ v.losses = Beaten(PlayerOf(Other(s)), Met(t))
          /\ Started(v) = Cardinality(Met(t))
      BY <2>2, <2>4, <2>5, <2>6, <2>7
    <2> QED BY <1>3, <2>8 DEF FigureIsTrue
  <1> QED BY <1>1, <1>2, <1>3

\* Every figure the check lets through is true of the database, whatever the
\* seasons' sources hold that keeps the tables' keys.
THEOREM QbFiguresSafe == QbSpec => []QbFiguresAreTrue
  <1>1. TablesInv /\ BlockInv => QbFiguresAreTrue
    <2>1. SUFFICES ASSUME TablesInv, BlockInv, block # <<>>,
                          NEW c \in ClaimSpace, NEW v \in Answers(c, block[1])
                   PROVE  FigureIsTrue(c, v)
      BY DEF QbFiguresAreTrue
    <2>2. \/ c \in [kind : {"score", "margin"}, player : Sides \cup {"c"}, measure : Measures]
          \/ c \in [kind : {"winner"}, measure : Measures \cup {"both"}]
          \/ c \in [kind : {"year"}]
          \/ c \in [kind : {"count"}, of : {"qualifying_seasons"}, player : Sides \cup {"c"}]
          \/ c \in [kind : {"record", "head_to_head"}, player : Sides \cup {"c"}, season_type : SeasonTypes]
      BY DEF ClaimSpace
    <2> QED BY <2>1, <2>2, ScoreAnswerIsTrue, WinnerAnswerIsTrue, YearAnswerIsTrue,
               CountAnswerIsTrue, RecordAnswerIsTrue
  <1> QED BY <1>1, DataHolds, PTL

-----------------------------------------------------------------------------
(* Sentences and clauses of a text *)

\* Where a sentence or a clause begins: the last of its ends before a place.
LEMMA LeftFacts ==
    ASSUME NEW prose, NEW n \in Nat, DOMAIN prose = 1 .. n, NEW i \in 1 .. n, NEW ends
    PROVE  LET l == Left(prose, i, ends) IN
           /\ l \in 0 .. n /\ l < i
           /\ l # 0 => prose[l].is \in ends
           /\ \A j \in 1 .. n : j < i /\ prose[j].is \in ends => j <= l
  <1> DEFINE S == {0} \cup {j \in Before(prose, i) : prose[j].is \in ends}
  <1>1. S \subseteq 0 .. n /\ S # {} /\ \A j \in S : j < i
    BY DEF Before
  <1>2. \A j \in 1 .. n : j < i /\ prose[j].is \in ends => j \in S
    BY DEF Before
  <1>3. \A j \in S : j # 0 => prose[j].is \in ends
    OBVIOUS
  <1>4. Left(prose, i, ends) = Max(S)
    BY DEF Left
  <1> HIDE DEF S
  <1>5. Max(S) \in S /\ \A j \in S : j <= Max(S)
    BY <1>1, GreatestOf
  <1> QED BY <1>1, <1>2, <1>3, <1>4, <1>5

\* The smallest of whole numbers that has one.
LEMMA MinOfNaturals ==
    ASSUME NEW S, S \subseteq Nat, S # {}
    PROVE  Min(S) \in S /\ \A x \in S : Min(S) <= x
  <1>1. PICK m \in S : \A x \in S : m <= x
    BY LeastOf
  <1> QED BY <1>1 DEF Min

\* And where it ends: the next of its ends.
LEMMA RightFacts ==
    ASSUME NEW prose, NEW n \in Nat, DOMAIN prose = 1 .. n, Len(prose) = n, NEW i \in 1 .. n, NEW ends
    PROVE  LET r == Right(prose, i, ends) IN
           /\ r \in 1 .. (n + 1) /\ i < r
           /\ r # n + 1 => prose[r].is \in ends
           /\ \A j \in 1 .. n : i < j /\ prose[j].is \in ends => r <= j
  <1> DEFINE S == {n + 1} \cup {j \in After(prose, i) : prose[j].is \in ends}
  <1>1. S \subseteq 1 .. (n + 1) /\ S # {} /\ \A j \in S : i < j
    BY DEF After
  <1>2. \A j \in 1 .. n : i < j /\ prose[j].is \in ends => j \in S
    BY DEF After
  <1>3. \A j \in S : j # n + 1 => prose[j].is \in ends
    OBVIOUS
  <1>4. Right(prose, i, ends) = Min(S)
    BY DEF Right
  <1> HIDE DEF S
  <1>5. Min(S) \in S /\ \A j \in S : Min(S) <= j
    <2>1. S \subseteq Nat
      BY <1>1
    <2> QED BY <1>1, <2>1, MinOfNaturals
  <1> QED BY <1>1, <1>2, <1>3, <1>4, <1>5

\* Two places are in one sentence when no break parts them.
LEMMA InOneSentence ==
    ASSUME NEW prose, NEW n \in Nat, DOMAIN prose = 1 .. n, NEW i \in 1 .. n, NEW j \in 1 .. n,
           \A k \in 1 .. n : prose[k].is = "break" => (k < i <=> k < j)
    PROVE  SameSentence(prose, j, i)
  <1>1. {k \in Before(prose, i) : prose[k].is \in Sentence} = {k \in Before(prose, j) : prose[k].is \in Sentence}
    BY DEF Before, Sentence
  <1> QED BY <1>1 DEF SameSentence, Left

\* What a size is said of is what its own sentence mentions, if it mentions any
\* measure.
LEMMA PhraseStaysInItsSentence ==
    ASSUME NEW prose, NEW n \in Nat, DOMAIN prose = 1 .. n, Len(prose) = n, NEW modes,
           NEW i \in 1 .. n, prose[i].is \in DOMAIN Fits,
           NEW m \in Measures,
           \A j \in 1 .. n : \A k \in Mentioned(prose, modes, j) : SameSentence(prose, j, i) => k = m
    PROVE  m \in PhraseMeasures(prose, modes, i)
  <1> DEFINE verbs == {j \in DOMAIN prose : prose[j].is = "and" /\ At(prose, j + 1, {"verb", "beats"})}
             lefts == {Left(prose, i, Clause)} \cup {j \in verbs : j < i}
             left == Max(lefts)
             cuts == {j \in verbs : i < j /\ j < Right(prose, i, Clause)}
             rights == {Right(prose, i, Clause)} \cup cuts
             right == Min(rights)
             listEnd == Right(prose, right, {"comma", "break"})
             list == {j \in DOMAIN prose : right < j /\ j < listEnd}
             apposed == IF /\ cuts = {} /\ At(prose, right, {"comma"})
                           /\ \A j \in list : prose[j].is \in {"measure", "and"}
                        THEN {prose[j].of : j \in {k \in list : prose[k].is = "measure"}} ELSE {}
             near == Nearest(prose, modes, i, left, right)
             sLeft == Left(prose, i, Sentence)
             sRight == Right(prose, i, Sentence)
  <1>1. PhraseMeasures(prose, modes, i) = IF near \cup apposed = {} THEN Measures ELSE near \cup apposed
    BY DEF PhraseMeasures
  <1>2. prose[i].is # "break" /\ prose[i].is # "comma"
    BY DEF Fits
  <1>3. /\ sLeft \in 0 .. n /\ sLeft < i
        /\ \A k \in 1 .. n : k < i /\ prose[k].is = "break" => k <= sLeft
    BY LeftFacts DEF Sentence
  <1>4. /\ sRight \in 1 .. (n + 1) /\ i < sRight
        /\ \A k \in 1 .. n : i < k /\ prose[k].is = "break" => sRight <= k
        /\ sRight # n + 1 => prose[sRight].is = "break"
    BY RightFacts DEF Sentence
  <1>5. /\ Left(prose, i, Clause) \in 0 .. n /\ Left(prose, i, Clause) < i
        /\ \A k \in 1 .. n : k < i /\ prose[k].is \in Clause => k <= Left(prose, i, Clause)
    BY LeftFacts
  <1>6. /\ Right(prose, i, Clause) \in 1 .. (n + 1) /\ i < Right(prose, i, Clause)
        /\ \A k \in 1 .. n : i < k /\ prose[k].is \in Clause => Right(prose, i, Clause) <= k
    BY RightFacts
  <1>7. /\ left \in 0 .. n /\ left < i /\ Left(prose, i, Clause) <= left
    <2>1. lefts \subseteq 0 .. n /\ lefts # {} /\ Left(prose, i, Clause) \in lefts /\ \A k \in lefts : k < i
      BY <1>5
    <2> HIDE DEF lefts
    <2>2. left \in lefts /\ \A k \in lefts : k <= left
      BY <2>1, GreatestOf
    <2> QED BY <2>1, <2>2
  <1>8. /\ right \in 1 .. (n + 1) /\ i < right /\ right <= Right(prose, i, Clause)
        /\ cuts = {} => right = Right(prose, i, Clause)
    <2>1. rights \subseteq 1 .. (n + 1) /\ rights # {} /\ Right(prose, i, Clause) \in rights /\ rights \subseteq Nat
             /\ (\A k \in rights : i < k) /\ (cuts = {} => rights = {Right(prose, i, Clause)})
      BY <1>6
    <2> HIDE DEF rights, cuts
    <2>2. right \in rights /\ \A k \in rights : right <= k
      BY <2>1, MinOfNaturals
    <2> QED BY <2>1, <2>2
  <1>9. sLeft <= left
    <2>1. sLeft # 0 => prose[sLeft].is \in Clause
      BY LeftFacts DEF Sentence, Clause
    <2> QED BY <1>3, <1>5, <1>7, <2>1
  <1>10. right <= sRight
    <2>1. sRight # n + 1 => prose[sRight].is \in Clause
      BY <1>4 DEF Clause
    <2> QED BY <1>4, <1>6, <1>8, <2>1
  <1>11. ASSUME NEW j \in 1 .. n, sLeft < j, j < sRight PROVE SameSentence(prose, j, i)
    <2>1. \A k \in 1 .. n : prose[k].is = "break" => (k < i <=> k < j)
      BY <1>2, <1>3, <1>4, <1>11
    <2> QED BY <2>1, InOneSentence
  <1>12. \A j \in 1 .. n : sLeft < j /\ j < sRight => Mentioned(prose, modes, j) \subseteq {m}
    BY <1>11
  <1>13. near \subseteq {m}
    <2> DEFINE before(l) == {j \in Mentions(prose, modes) : l < j /\ j < i}
               after(r) == {j \in Mentions(prose, modes) : i < j /\ j < r}
    <2>1. \A l : before(l) \subseteq 0 .. n /\ before(l) # {} => Max(before(l)) \in before(l)
      <3>1. \A S : S \subseteq 0 .. n /\ S # {} => Max(S) \in S
        BY GreatestOf
      <3> QED BY <3>1
    <2>2. \A r : after(r) \subseteq Nat /\ after(r) # {} => Min(after(r)) \in after(r)
      <3>1. \A S : S \subseteq Nat /\ S # {} => Min(S) \in S
        BY MinOfNaturals
      <3> QED BY <3>1
    <2>3. (\A l : before(l) \subseteq 0 .. n) /\ (\A r : after(r) \subseteq Nat)
      BY DEF Mentions
    <2>4. \A l, j : l \in Int /\ sLeft <= l /\ j \in before(l) => Mentioned(prose, modes, j) \subseteq {m}
      BY <1>3, <1>4, <1>12 DEF Mentions
    <2>5. \A r, j : r \in Int /\ r <= sRight /\ j \in after(r) => Mentioned(prose, modes, j) \subseteq {m}
      BY <1>3, <1>4, <1>12 DEF Mentions
    <2>6. near = IF after(right) # {} /\ (before(left) = {} \/ Min(after(right)) - i <= i - Max(before(left)))
                 THEN UNION {Mentioned(prose, modes, j) : j \in after(right)}
                 ELSE IF before(left) # {} THEN Mentioned(prose, modes, Max(before(left)))
                 ELSE IF before(sLeft) # {} THEN Mentioned(prose, modes, Max(before(sLeft)))
                 ELSE IF after(sRight) # {} THEN Mentioned(prose, modes, Min(after(sRight)))
                 ELSE {}
      BY DEF Nearest
    <2>7. left \in Int /\ right \in Int /\ sLeft \in Int /\ sRight \in Int
      BY <1>3, <1>4, <1>7, <1>8
    <2> HIDE DEF before, after, left, right, sLeft, sRight, near
    <2>8. UNION {Mentioned(prose, modes, j) : j \in after(right)} \subseteq {m}
      BY <1>10, <2>5, <2>7
    <2>9. before(left) # {} => Mentioned(prose, modes, Max(before(left))) \subseteq {m}
      BY <1>9, <2>1, <2>3, <2>4, <2>7
    <2>10. before(sLeft) # {} => Mentioned(prose, modes, Max(before(sLeft))) \subseteq {m}
      BY <2>1, <2>3, <2>4, <2>7
    <2>11. after(sRight) # {} => Mentioned(prose, modes, Min(after(sRight))) \subseteq {m}
      BY <2>2, <2>3, <2>5, <2>7
    <2> QED BY <2>6, <2>8, <2>9, <2>10, <2>11
  <1>14. apposed \subseteq {m}
    <2>1. SUFFICES ASSUME cuts = {}, At(prose, right, {"comma"}),
                          NEW j \in list, prose[j].is = "measure"
                   PROVE  prose[j].of = m
      OBVIOUS
    <2>2. right \in 1 .. n /\ prose[right].is = "comma" /\ right = Right(prose, i, Clause)
      BY <1>8, <2>1 DEF At
    <2>3. \A k \in 1 .. n : right < k /\ prose[k].is \in {"comma", "break"} => listEnd <= k
      <3>1. PICK r \in 1 .. n : r = right
        BY <2>2
      <3>2. \A k \in 1 .. n : r < k /\ prose[k].is \in {"comma", "break"} => Right(prose, r, {"comma", "break"}) <= k
        BY RightFacts
      <3> QED BY <3>1, <3>2
    <2>4. listEnd \in 1 .. (n + 1)
      <3>1. PICK r \in 1 .. n : r = right
        BY <2>2
      <3>2. Right(prose, r, {"comma", "break"}) \in 1 .. (n + 1)
        BY RightFacts
      <3> QED BY <3>1, <3>2
    <2>5. j \in 1 .. n /\ right < j /\ j < listEnd
      BY <2>1
    <2>6. \A k \in 1 .. n : prose[k].is = "break" => (k < i <=> k < j)
      <3>1. ASSUME NEW k \in 1 .. n, prose[k].is = "break", i <= k, k < j PROVE FALSE
        <4>1. k # i /\ k # right
          BY <1>2, <2>2, <3>1
        <4>2. ~(k < right)
          BY <1>6, <2>2, <3>1, <4>1 DEF Clause
        <4>3. right < k
          BY <2>2, <4>1, <4>2
        <4> QED BY <2>3, <2>4, <2>5, <3>1, <4>3
      <3>2. \A k \in 1 .. n : k < i => k < j
        BY <1>8, <2>5
      <3> QED BY <2>5, <3>1, <3>2
    <2>7. SameSentence(prose, j, i)
      BY <2>5, <2>6, InOneSentence
    <2>8. prose[j].of \in Mentioned(prose, modes, j)
      BY <2>1 DEF Mentioned
    <2> QED BY <2>5, <2>7, <2>8
  <1> HIDE DEF near, apposed
  <1> QED BY <1>1, <1>13, <1>14

-----------------------------------------------------------------------------
(* What an accepted narration says *)

\* What the check accepted of a text: its claims are those its slots use, each
\* answers, the winners are named, and no place of it says a wrong verdict or size.
LEMMA AcceptedFacts ==
    ASSUME QbInv, shown # <<>>
    PROVE  LET cl == shown[1] b == block[1] modes == Modes(cl, b) n == Len(text) IN
           /\ block # <<>>
           /\ n \in Nat /\ DOMAIN text = 1 .. n
           /\ \A i \in 1 .. n : text[i] \in Vocabulary
           /\ DOMAIN modes = DOMAIN cl /\ \A id \in DOMAIN cl : modes[id] = ModeOf(cl[id], b)
           /\ \A id \in DOMAIN cl : /\ Answers(cl[id], b) # {}
                                    /\ \E i \in 1 .. n : text[i].is = "slot" /\ text[i].of = id
           /\ \A m \in Measures : b.winners[m] # None =>
                 \E id \in DOMAIN cl : cl[id].kind = "winner" /\ cl[id].measure \in {m, "both"}
           /\ \A i \in 1 .. n : ~WrongVerdict(text, modes, b, i) /\ ~WrongSize(text, modes, b, i)
  <1> DEFINE cl == shown[1]
             b == block[1]
             modes == Modes(cl, b)
             n == Len(text)
  <1>1. block # <<>> /\ Accepted(text, cl, b) /\ text \in Seq(Vocabulary)
    BY DEF QbInv
  <1>2. n \in Nat /\ DOMAIN text = 1 .. n /\ \A i \in 1 .. n : text[i] \in Vocabulary
    BY <1>1
  <1>3. DOMAIN modes = DOMAIN cl /\ \A id \in DOMAIN cl : modes[id] = ModeOf(cl[id], b)
    BY DEF Modes
  <1>4. \A id \in DOMAIN cl : Answers(cl[id], b) # {}
    BY <1>1 DEF Accepted
  <1>5. \A id \in DOMAIN cl : \E i \in 1 .. n : text[i].is = "slot" /\ text[i].of = id
    <2>1. Used(text) = DOMAIN cl
      BY <1>1 DEF Accepted
    <2> QED BY <1>2, <2>1 DEF Used
  <1>6. ASSUME NEW m \in Measures, b.winners[m] # None
        PROVE  \E id \in DOMAIN cl : cl[id].kind = "winner" /\ cl[id].measure \in {m, "both"}
    <2> DEFINE claims == {cl[id] : id \in DOMAIN cl}
    <2>1. NamesTheVerdict(claims, b)
      BY <1>1 DEF Accepted
    <2>2. {c.measure : c \in {x \in claims : x.kind = "winner"}} \cap {m, "both"} # {}
      BY <1>6, <2>1 DEF NamesTheVerdict
    <2>3. PICK c \in claims : c.kind = "winner" /\ c.measure \in {m, "both"}
      BY <2>2
    <2> QED BY <2>3
  <1>7. \A i \in 1 .. n : ~WrongVerdict(text, modes, b, i) /\ ~WrongSize(text, modes, b, i)
    <2>1. ProseErrors(text, modes, b) = {}
      BY <1>1 DEF Accepted
    <2> HIDE DEF modes, b
    <2> QED BY <1>2, <2>1 DEF ProseErrors
  <1> HIDE DEF modes, n
  <1> QED BY <1>1, <1>2, <1>3, <1>4, <1>5, <1>6, <1>7 DEF modes, n

\* The claim that names a measure's winner names its leader.
LEMMA WinnerIsNamed ==
    ASSUME TablesInv, BlockInv, block # <<>>, NEW m \in Measures, NEW s \in Sides, Leads(s, m),
           NEW c, c.kind = "winner", c.measure \in {m, "both"}, Answers(c, block[1]) # {}
    PROVE  LET mode == ModeOf(c, block[1]) IN mode.kind = "winner" /\ m \in mode.measures /\ mode.side = s
  <1> DEFINE b == block[1]
  <1>1. b.winners[m] = s /\ s # None
    BY VerdictFacts, QbAssumption
  <1>2. Answers(c, b) = WinnerAnswers(c, b)
    BY DEF Answers
  <1>3. WinnerAnswers(c, b) = {s}
    <2>1. CASE c.measure = "both"
      <3>1. b.winners["career"] = b.winners["peak"]
        BY <1>2, <2>1 DEF WinnerAnswers
      <3>2. m \in {"career", "peak"}
        BY DEF Measures
      <3>3. b.winners["career"] = s
        BY <1>1, <3>1, <3>2
      <3> QED BY <1>1, <1>2, <2>1, <3>1, <3>3 DEF WinnerAnswers
    <2>2. CASE c.measure = m /\ c.measure # "both"
      BY <1>1, <1>2, <2>2 DEF WinnerAnswers
    <2> QED BY <2>1, <2>2
  <1>4. Mode(c) = "reference"
    BY DEF Mode
  <1>5. SideOf(c, b) = s
    <2>1. SideOf(c, b) = CHOOSE x \in Answers(c, b) : TRUE
      BY <1>4 DEF SideOf
    <2>2. Answers(c, b) = {s}
      BY <1>2, <1>3
    <2>3. (CHOOSE x \in {s} : TRUE) \in {s}
      OBVIOUS
    <2> QED BY <2>1, <2>2, <2>3
  <1>6. m \in MeasuresOf(c, b)
    BY DEF MeasuresOf
  <1> QED BY <1>5, <1>6 DEF ModeOf

\* A player typed to win a measure leads it.
LEMMA TypedWinnerLeads ==
    ASSUME TablesInv, BlockInv, QbInv, shown # <<>>,
           NEW i \in DOMAIN text, text[i].is = "name",
           At(text, i + 1, {"verb", "beats"}), At(text, i + 2, {"measure"})
    PROVE  Leads(text[i].of, text[i + 2].of) /\ text[i].of \in Sides
  <1> DEFINE cl == shown[1]
             b == block[1]
             modes == Modes(cl, b)
  <1>1. PICK n \in Nat : n = Len(text) /\ DOMAIN text = 1 .. n
    BY AcceptedFacts
  <1>2. /\ block # <<>>
        /\ \A j \in 1 .. n : text[j] \in Vocabulary
        /\ \A j \in 1 .. n : ~WrongVerdict(text, modes, b, j)
    BY <1>1, AcceptedFacts
  <1>3. /\ i \in 1 .. n /\ i + 1 \in 1 .. n /\ i + 2 \in 1 .. n
        /\ text[i + 1].is \in {"verb", "beats"} /\ text[i + 2].is = "measure"
    BY <1>1 DEF At
  <1>4. text[i].of \in Sides /\ text[i + 2].of \in Measures
    BY <1>2, <1>3, QbAssumption
  <1> DEFINE v == i + 1
             side == text[i].of
             m == text[i + 2].of
             left == Left(text, v, Sentence)
             before == {j \in Refs(text, modes) : left < j /\ j < v}
  <1> HIDE DEF modes, b
  <1>5. SubjectsOf(text, modes, v) = {side}
    <2>1. left \in 0 .. n /\ left < v /\ (left # 0 => text[left].is = "break")
      BY <1>1, <1>3, LeftFacts DEF Sentence
    <2>2. left < i
      BY <1>3, <2>1
    <2>3. i \in before /\ before \subseteq 0 .. n /\ \A j \in before : j <= i
      BY <1>1, <1>3, <2>2 DEF Refs
    <2>4. RefSide(text, modes, i) = side
      BY DEF RefSide
    <2>5. SubjectsOf(text, modes, v) = IF before # {} THEN {RefSide(text, modes, Max(before))}
             ELSE IF v = left + 2 /\ At(text, v - 1, {"he"}) THEN PreviousSubjects(text, modes, left) ELSE {}
      BY DEF SubjectsOf
    <2> HIDE DEF before, v
    <2>6. Max(before) = i
      <3>1. Max(before) \in before /\ \A j \in before : j <= Max(before)
        BY <2>3, GreatestOf
      <3> QED BY <1>3, <2>3, <3>1
    <2> QED BY <2>3, <2>4, <2>5, <2>6
  <1>6. m \in TakenBy(text, modes, v)
    <2> DEFINE gapped == {j \in Refs(text, modes) : j > v /\ At(text, j - 1, {"and"})}
               stops == {Right(text, v, Clause), v + MEASURE_WINDOW + 1} \cup gapped
               window == {j \in After(text, v) : j < Min(stops)}
    <2>1. Right(text, v, Clause) \in Nat /\ Right(text, v, Clause) > i + 2
      <3>1. PICK k \in 1 .. n : k = v
        BY <1>3
      <3>2. LET r == Right(text, k, Clause) IN
            r \in 1 .. (n + 1) /\ k < r /\ (r # n + 1 => text[r].is \in Clause)
        BY <1>1, RightFacts
      <3>3. text[i + 2].is \notin Clause
        BY <1>3 DEF Clause
      <3> QED BY <1>3, <3>1, <3>2, <3>3
    <2>2. v + MEASURE_WINDOW + 1 \in Nat /\ v + MEASURE_WINDOW + 1 > i + 2
      BY <1>3, WindowIsPositive
    <2>3. \A j \in gapped : j \in Nat /\ j > i + 2
      <3>1. SUFFICES ASSUME NEW j \in gapped PROVE j \in Nat /\ j > i + 2
        OBVIOUS
      <3>2. j \in 1 .. n /\ j > v /\ text[j - 1].is = "and"
        BY <1>1 DEF Refs, At
      <3>3. j # i + 2
        BY <1>3, <3>2
      <3> QED BY <1>3, <3>2, <3>3
    <2>4. stops \subseteq Nat /\ stops # {} /\ \A j \in stops : j > i + 2
      BY <2>1, <2>2, <2>3
    <2> HIDE DEF stops
    <2>5. Min(stops) \in stops
      BY <2>4, MinOfNaturals
    <2>6. i + 2 \in window
      <3>1. i + 2 \in After(text, v)
        <4>1. i + 2 \in DOMAIN text /\ i + 2 > v
          BY <1>1, <1>3
        <4> QED BY <4>1 DEF After
      <3>2. Min(stops) > i + 2
        BY <2>4, <2>5
      <3>3. Min(stops) \in Nat
        BY <2>4, <2>5
      <3> HIDE DEF v
      <3> QED BY <1>1, <1>3, <3>1, <3>2, <3>3
    <2>7. {text[j].of : j \in {k \in window : text[k].is \in {"measure", "goes"}}}
             \subseteq TakenBy(text, modes, v)
      BY DEF TakenBy, stops
    <2> HIDE DEF window
    <2> QED BY <1>3, <2>6, <2>7
  <1>7. Wins(b, side, m)
    <2>1. ~WrongVerdict(text, modes, b, v) /\ text[v].is \in {"verb", "beats"}
      BY <1>2, <1>3
    <2> HIDE DEF v, side, m
    <2> QED BY <1>5, <1>6, <2>1 DEF WrongVerdict
  <1>8. block[1].winners[m] = side
    BY <1>7 DEF Wins, b
  <1> QED BY <1>2, <1>4, <1>8, VerdictFacts

\* The margin of a measure that is led is the one its band is of.
LEMMA SizeIsTrue ==
    ASSUME TablesInv, BlockInv, block # <<>>, NEW m \in Measures, NEW s \in Sides, Leads(s, m),
           NEW size \in DOMAIN Fits, Band(block[1], m) \in Fits[size]
    PROVE  SizeFits(size, TrueMargin(m), MARGIN_BANDS[m])
  <1> DEFINE margin == ShownMargin(block[1], m)
             bounds == MARGIN_BANDS[m]
  <1>1. /\ Rankable /\ TrueScore(s, m) > TrueScore(Other(s), m)
        /\ Other(s) \in Sides /\ Other(Other(s)) = s /\ \A x \in Sides : x = s \/ x = Other(s)
    BY DEF Leads, Other, Sides
  <1>2. \A x \in Sides : TrueScore(x, m) \in Int
    BY VerdictFacts
  <1>3. ~Leads(Other(s), m)
    BY <1>1, <1>2 DEF Leads
  <1>4. (CHOOSE x \in Sides : Leads(x, m)) = s
    <2>1. \A x \in Sides : Leads(x, m) <=> x = s
      BY <1>1, <1>3
    <2>2. (CHOOSE x \in Sides : Leads(x, m)) \in Sides /\ Leads(CHOOSE x \in Sides : Leads(x, m), m)
      OBVIOUS
    <2> QED BY <2>1, <2>2
  <1>5. (CHOOSE x \in Sides : ~Leads(x, m)) = Other(s)
    <2>1. \A x \in Sides : ~Leads(x, m) <=> x = Other(s)
      BY <1>1, <1>3
    <2>2. (CHOOSE x \in Sides : ~Leads(x, m)) \in Sides /\ ~Leads(CHOOSE x \in Sides : ~Leads(x, m), m)
      BY <1>1, <1>3
    <2> QED BY <2>1, <2>2
  <1>6. margin = Shown(TrueScore(s, m)) - Shown(TrueScore(Other(s), m)) /\ margin \in Nat
    BY MarginFacts
  <1>7. TrueMargin(m) = margin
    BY <1>4, <1>5, <1>6 DEF TrueMargin
  <1>8. ~block[1].inconclusive /\ block[1].winners[m] = s /\ s # None
    BY <1>1, VerdictFacts, QbAssumption
  <1>9. Band(block[1], m) = IF margin < bounds[1] THEN "close"
                            ELSE IF margin < bounds[2] THEN "clear" ELSE "decisive"
    BY <1>8 DEF Band
  <1>10. bounds[1] \in Int /\ bounds[2] \in Int
    BY BandsAssumption
  <1> HIDE DEF margin, bounds
  <1>11. \/ size = "photo" /\ margin < bounds[1]
         \/ size = "mild" /\ ~(margin < bounds[1])
         \/ size = "hard" /\ ~(margin < bounds[2])
    BY <1>9 DEF Fits
  <1>12. \/ size = "photo" /\ margin < bounds[1]
         \/ size = "mild" /\ margin >= bounds[1]
         \/ size = "hard" /\ margin >= bounds[2]
    BY <1>6, <1>10, <1>11 DEF margin
  <1>13. SizeFits(size, margin, bounds)
    BY <1>12 DEF SizeFits
  <1> QED BY <1>7, <1>13 DEF bounds

\* An accepted narration names the leaders, types no other winner and calls a
\* margin no other size, for any players, seasons, claims and length of text.
THEOREM QbVerdictSafe == QbSpec => []QbVerdictIsTheWinner
  <1>1. TablesInv /\ BlockInv /\ QbInv => QbVerdictIsTheWinner
    <2> SUFFICES ASSUME TablesInv, BlockInv, QbInv, shown # <<>>
                 PROVE  TellsTheWinners(Modes(shown[1], block[1]), Leaders)
      BY DEF QbVerdictIsTheWinner
    <2> DEFINE cl == shown[1]
               b == block[1]
    <2>1. PICK modes, n : modes = Modes(cl, b) /\ n = Len(text)
      OBVIOUS
    <2>2. /\ block # <<>>
          /\ n \in Nat /\ DOMAIN text = 1 .. n
          /\ DOMAIN modes = DOMAIN cl /\ \A id \in DOMAIN cl : modes[id] = ModeOf(cl[id], b)
          /\ \A id \in DOMAIN cl : /\ Answers(cl[id], b) # {}
                                   /\ \E i \in 1 .. n : text[i].is = "slot" /\ text[i].of = id
          /\ \A m \in Measures : b.winners[m] # None =>
                \E id \in DOMAIN cl : cl[id].kind = "winner" /\ cl[id].measure \in {m, "both"}
          /\ \A i \in 1 .. n : ~WrongSize(text, modes, b, i)
      BY <2>1, AcceptedFacts
    <2>3. \A m \in Measures : \A s : s \in Leaders[m] <=> s \in Sides /\ Leads(s, m)
      BY DEF Leaders
    <2>4. ASSUME NEW m \in Measures, NEW s \in Leaders[m]
          PROVE  \E i \in DOMAIN text : \E c \in ClaimAt(text, modes, i) :
                    c.kind = "winner" /\ m \in c.measures /\ c.side = s
      <3>1. s \in Sides /\ Leads(s, m)
        BY <2>3
      <3>2. b.winners[m] # None
        BY <2>2, <3>1, VerdictFacts, QbAssumption
      <3>3. PICK id \in DOMAIN cl : cl[id].kind = "winner" /\ cl[id].measure \in {m, "both"}
        BY <2>2, <3>2
      <3>4. PICK i \in 1 .. n : text[i].is = "slot" /\ text[i].of = id
        BY <2>2
      <3>5. modes[id] \in ClaimAt(text, modes, i)
        BY <2>2, <3>4 DEF ClaimAt, At
      <3>6. PICK c : c = cl[id] /\ Answers(c, b) # {}
        BY <2>2
      <3>7. LET mode == ModeOf(c, b) IN mode.kind = "winner" /\ m \in mode.measures /\ mode.side = s
        BY <2>2, <3>1, <3>3, <3>6, WinnerIsNamed
      <3> QED BY <2>2, <3>4, <3>5, <3>6, <3>7
    <2>5. ASSUME NEW i \in DOMAIN text, text[i].is = "name",
                 At(text, i + 1, {"verb", "beats"}), At(text, i + 2, {"measure"})
          PROVE  text[i].of \in Leaders[text[i + 2].of]
      <3>1. Leads(text[i].of, text[i + 2].of) /\ text[i].of \in Sides
        BY <2>5, TypedWinnerLeads
      <3>2. text[i + 2].of \in Measures
        <4>1. text[i + 2] \in Vocabulary /\ text[i + 2].is = "measure"
          BY <2>5 DEF QbInv, At
        <4> QED BY <4>1, QbAssumption
      <3> QED BY <2>3, <3>1, <3>2
    <2>6. ASSUME NEW i \in DOMAIN text, text[i].is \in DOMAIN Fits, ~At(text, i - 1, {"not"}),
                 NEW m \in Measures, SaidOf(i, modes) = {m}, Leaders[m] # {}
          PROVE  SizeFits(text[i].is, TrueMargin(m), MARGIN_BANDS[m])
      <3>1. PICK s \in Sides : Leads(s, m)
        BY <2>3, <2>6
      <3>2. \A j \in 1 .. n : \A k \in Mentioned(text, modes, j) : SameSentence(text, j, i) => k = m
        BY <2>2, <2>6 DEF SaidOf
      <3>3. m \in PhraseMeasures(text, modes, i)
        BY <2>1, <2>2, <2>6, <3>2, PhraseStaysInItsSentence
      <3>4. ~b.inconclusive
        BY <2>2, <3>1, VerdictFacts DEF Leads
      <3>5. Band(b, m) \in Fits[text[i].is]
        BY <2>2, <2>6, <3>3, <3>4 DEF WrongSize
      <3> QED BY <2>2, <2>6, <3>1, <3>5, SizeIsTrue
    <2> QED BY <2>1, <2>4, <2>5, <2>6 DEF TellsTheWinners
  <1> QED BY <1>1, DataHolds, QbInvHolds, PTL

-----------------------------------------------------------------------------
(* What a season is rated with: its games, once each, in order *)

\* What comes before x in S, in an order given as its pairs.
Preceding(S, R, x) == {y \in S : <<y, x>> \in R}
IsOrderOf(S, R) ==
    /\ \A x \in S : <<x, x>> \notin R
    /\ \A x, y, z \in S : <<x, y>> \in R /\ <<y, z>> \in R => <<x, z>> \in R
    /\ \A x, y \in S : x # y => <<x, y>> \in R \/ <<y, x>> \in R
\* f lists S once, in the order of R.
Lists(f, S, R) ==
    /\ DOMAIN f = 1 .. Cardinality(S)
    /\ \A i \in DOMAIN f : f[i] \in S
    /\ \A x \in S : \E i \in DOMAIN f : f[i] = x
    /\ \A i, j \in DOMAIN f : i < j => f[i] # f[j] /\ <<f[i], f[j]>> \in R
    /\ \A i \in DOMAIN f : Cardinality(Preceding(S, R, f[i])) = i - 1

\* The members of a finite set, each at one place more than come before it, are
\* its list in order.
LEMMA PlacesList ==
    ASSUME NEW S, IsFiniteSet(S), NEW R, IsOrderOf(S, R),
           NEW f, f = [i \in 1 .. Cardinality(S) |->
                          CHOOSE x \in S : 1 + Cardinality(Preceding(S, R, x)) = i]
    PROVE  Lists(f, S, R)
  <1> DEFINE n == Cardinality(S)
             place == [x \in S |-> 1 + Cardinality(Preceding(S, R, x))]
  <1>1. n \in Nat
    BY FS_CardinalityType
  <1>2. \A x \in S : Preceding(S, R, x) \in SUBSET S /\ Cardinality(Preceding(S, R, x)) \in Nat
    <2>1. \A x \in S : Preceding(S, R, x) \in SUBSET S
      BY DEF Preceding
    <2> QED BY <2>1, Smaller
  <1>3. \A x \in S : place[x] \in 1 .. n
    <2>1. SUFFICES ASSUME NEW x \in S PROVE place[x] \in 1 .. n
      OBVIOUS
    <2>2. Preceding(S, R, x) \in SUBSET (S \ {x})
      BY DEF Preceding, IsOrderOf
    <2>3. IsFiniteSet(S \ {x}) /\ Cardinality(S \ {x}) = n - 1
      BY FS_RemoveElement
    <2>4. Cardinality(Preceding(S, R, x)) <= n - 1
      BY <2>2, <2>3, FS_Subset
    <2> QED BY <1>1, <1>2, <2>4
  <1>4. \A x, y \in S : <<x, y>> \in R => place[x] < place[y]
    <2>1. SUFFICES ASSUME NEW x \in S, NEW y \in S, <<x, y>> \in R PROVE place[x] < place[y]
      OBVIOUS
    <2>2. /\ Preceding(S, R, x) \subseteq Preceding(S, R, y)
          /\ x \in Preceding(S, R, y) /\ x \notin Preceding(S, R, x)
      BY <2>1 DEF Preceding, IsOrderOf
    <2>3. IsFiniteSet(Preceding(S, R, y))
      BY <1>2, Smaller
    <2>4. /\ Cardinality(Preceding(S, R, x)) <= Cardinality(Preceding(S, R, y))
          /\ Cardinality(Preceding(S, R, y)) # Cardinality(Preceding(S, R, x))
      BY <2>2, <2>3, FS_Subset
    <2> QED BY <1>2, <2>4
  <1>5. \A x, y \in S : place[x] = place[y] => x = y
    <2> HIDE DEF place, n
    <2>1. \A x, y \in S : x # y => place[x] < place[y] \/ place[y] < place[x]
      BY <1>4 DEF IsOrderOf
    <2>2. \A x \in S : place[x] \in Int
      BY <1>1, <1>3
    <2> QED BY <2>1, <2>2
  <1>6. \A i \in 1 .. n : \E x \in S : place[x] = i
    <2>1. place \in Injection(S, 1 .. n)
      <3>1. place \in [S -> 1 .. n]
        BY <1>3
      <3> HIDE DEF place
      <3> QED BY <1>5, <3>1 DEF Injection, IsInjective
    <2>2. IsFiniteSet(1 .. n) /\ Cardinality(1 .. n) = n
      BY <1>1, FS_Interval
    <2> HIDE DEF place, n
    <2>3. place \in Surjection(S, 1 .. n)
      BY <2>1, <2>2, FS_Injection DEF n
    <2> QED BY <2>3 DEF Surjection
  <1>7. \A i \in 1 .. n : f[i] \in S /\ place[f[i]] = i
    <2>1. \A i \in 1 .. n : f[i] = CHOOSE x \in S : place[x] = i
      OBVIOUS
    <2> HIDE DEF place, n
    <2> QED BY <1>6, <2>1
  <1>8. DOMAIN f = 1 .. n
    OBVIOUS
  <1> HIDE DEF place, n
  <1>9. \A x \in S : f[place[x]] = x /\ place[x] \in 1 .. n
    BY <1>3, <1>5, <1>7
  <1>10. \A i, j \in 1 .. n : i < j => f[i] # f[j] /\ <<f[i], f[j]>> \in R
    <2>1. SUFFICES ASSUME NEW i \in 1 .. n, NEW j \in 1 .. n, i < j
                   PROVE  f[i] # f[j] /\ <<f[i], f[j]>> \in R
      OBVIOUS
    <2>2. f[i] \in S /\ f[j] \in S /\ place[f[i]] = i /\ place[f[j]] = j
      BY <1>7, Zenon
    <2>3. i \in Int /\ j \in Int /\ ~(j < i)
      BY <1>1, <2>1
    <2>4. f[i] # f[j]
      BY <2>1, <2>2, <2>3
    <2>5. <<f[j], f[i]>> \in R => j < i
      BY <1>4, <2>2, Zenon
    <2> QED BY <2>2, <2>3, <2>4, <2>5 DEF IsOrderOf
  <1>11. n = Cardinality(S)
    BY DEF n
  <1>12. \A i \in 1 .. n : Cardinality(Preceding(S, R, f[i])) = i - 1
    <2>1. SUFFICES ASSUME NEW i \in 1 .. n PROVE Cardinality(Preceding(S, R, f[i])) = i - 1
      OBVIOUS
    <2>2. PICK x : x = f[i] /\ x \in S /\ place[x] = i
      BY <1>7, Zenon
    <2>3. 1 + Cardinality(Preceding(S, R, x)) = i
      BY <2>2 DEF place
    <2>4. Cardinality(Preceding(S, R, x)) \in Nat
      BY <1>2, <2>2
    <2> QED BY <2>2, <2>3, <2>4
  <1> QED BY <1>7, <1>8, <1>9, <1>10, <1>11, <1>12 DEF Lists

\* The games a season's rating, or a career's, is computed from.
GamesOf(gs, year, all) ==
    {g \in gs : Loadable(g) /\ IF all THEN g.season <= year ELSE g.season = year}
GameOrder(gs) == {p \in gs \X gs : EloOrder(p[1], p[2])}
Dated(gs) ==
    /\ IsFiniteSet(gs)
    /\ \A g \in gs : g.id \in Int /\ g.season \in Int /\ g.type \in SeasonTypes
    /\ \A g, h \in gs : g.id = h.id => g = h
GamesHold(gs) ==
    /\ Dated(gs)
    /\ \A g \in gs : g.home # g.away /\ GameColumns \subseteq DOMAIN g

\* Games have one chronological order: two of a season and a type differ in
\* their ids.
LEMMA ChronologyIsAnOrder ==
    ASSUME NEW gs, Dated(gs), NEW U \in SUBSET gs
    PROVE  IsOrderOf(U, GameOrder(U))
  <1>1. \A g \in U : ~EloOrder(g, g)
    BY DEF EloOrder, Dated
  <1>2. \A g, h, k \in U : EloOrder(g, h) /\ EloOrder(h, k) => EloOrder(g, k)
    <2>1. SUFFICES ASSUME NEW g \in U, NEW h \in U, NEW k \in U, EloOrder(g, h), EloOrder(h, k)
                   PROVE  EloOrder(g, k)
      OBVIOUS
    <2>2. \A x \in {g, h, k} : x.id \in Int /\ x.season \in Int /\ x.type \in SeasonTypes
      BY DEF Dated
    <2> QED BY <2>1, <2>2 DEF EloOrder, SeasonTypes
  <1>3. \A g, h \in U : g # h => EloOrder(g, h) \/ EloOrder(h, g)
    <2>1. SUFFICES ASSUME NEW g \in U, NEW h \in U, g # h PROVE EloOrder(g, h) \/ EloOrder(h, g)
      OBVIOUS
    <2>2. \A x \in {g, h} : x.id \in Int /\ x.season \in Int /\ x.type \in SeasonTypes
      BY DEF Dated
    <2>3. g.id # h.id
      BY <2>1 DEF Dated
    <2> QED BY <2>2, <2>3 DEF EloOrder, SeasonTypes
  <1>4. \A g, h \in U : <<g, h>> \in GameOrder(U) <=> EloOrder(g, h)
    BY DEF GameOrder
  <1> QED BY <1>1, <1>2, <1>3, <1>4 DEF IsOrderOf

\* What is loaded is a list of those games in that order.
LEMMA LoadedInOrder ==
    ASSUME NEW gs, Dated(gs), NEW year, NEW all
    PROVE  LET loaded == GamesOf(gs, year, all) IN
           Lists(LoadGames(gs, year, all), loaded, GameOrder(loaded))
  <1> DEFINE loaded == GamesOf(gs, year, all)
             R == GameOrder(loaded)
             f == LoadGames(gs, year, all)
  <1>1. loaded \in SUBSET gs
    BY DEF GamesOf
  <1>2. IsFiniteSet(loaded) /\ IsOrderOf(loaded, R)
    BY <1>1, ChronologyIsAnOrder, FS_Subset DEF Dated
  <1>3. \A g \in loaded : Preceding(loaded, R, g) = {h \in loaded : EloOrder(h, g)}
    BY DEF Preceding, GameOrder
  <1>4. f = [i \in 1 .. Cardinality(loaded) |->
                CHOOSE g \in loaded : 1 + Cardinality({h \in loaded : EloOrder(h, g)}) = i]
    BY DEF LoadGames, GamesOf
  <1> HIDE DEF loaded, R, f
  <1> DEFINE Here(i) == CHOOSE g \in loaded : 1 + Cardinality({h \in loaded : EloOrder(h, g)}) = i
             There(i) == CHOOSE g \in loaded : 1 + Cardinality(Preceding(loaded, R, g)) = i
  <1>5. \A i : Here(i) = There(i)
    <2>1. \A i : \A g : g \in loaded /\ 1 + Cardinality({h \in loaded : EloOrder(h, g)}) = i
                   <=> g \in loaded /\ 1 + Cardinality(Preceding(loaded, R, g)) = i
      BY <1>3
    <2> QED BY <2>1, Zenon
  <1>6. f = [i \in 1 .. Cardinality(loaded) |-> There(i)]
    <2>1. f = [i \in 1 .. Cardinality(loaded) |-> Here(i)]
      BY <1>4
    <2> HIDE DEF Here, There
    <2> QED BY <1>5, <2>1
  <1>7. Lists(f, loaded, R)
    BY <1>2, <1>6, PlacesList
  <1> QED BY <1>7 DEF loaded, R, f

-----------------------------------------------------------------------------
(* The walk, game by game *)

NoGames == [elo |-> <<>>, last_season |-> <<>>, participants |-> <<>>, records |-> <<>>,
            steps |-> <<>>, overlap |-> FALSE]
\* w[i]: where the walk is after i games.
Walks(w, gs, n, roots, career, year) ==
    /\ w[0] = NoGames
    /\ \A i \in 1 .. n : w[i] = EloStep(w[i - 1], gs[i], roots, career, year)

Stepwise(gs, n, roots, career, year) ==
    \E w : Walks(w, gs, n, roots, career, year) /\ EloWalk(gs, roots, career, year) = w[n]

\* What is left of the games, last first, as the library's fold takes them.
FoldsGames(f, gs, n, roots, career, year) ==
    f = [s \in SUBSET (1 .. n) |->
            IF s = {} THEN NoGames
            ELSE EloStep(f[s \ {Max(s)}], gs[Max(s)], roots, career, year)]

\* The recursion has a solution: by least counterexample, over the subsets of a size.
LEMMA FoldsExist ==
    ASSUME NEW gs, NEW n \in Nat, NEW roots, NEW career, NEW year
    PROVE  \E f : FoldsGames(f, gs, n, roots, career, year)
  <1> DEFINE S == 1 .. n
             Sub(k) == {s \in SUBSET S : Cardinality(s) <= k}
             Unfold(g, s) == IF s = {} THEN NoGames
                             ELSE EloStep(g[s \ {Max(s)}], gs[Max(s)], roots, career, year)
             On(k) == \E g : g = [s \in Sub(k) |-> Unfold(g, s)]
             Bad == {k \in Nat : ~On(k)}
  <1>0. /\ IsFiniteSet(S)
        /\ \A s \in SUBSET S : s # {} => Max(s) \in s
    <2>1. \A s \in SUBSET S : s \subseteq 0 .. n
      OBVIOUS
    <2>2. \A s \in SUBSET S : s # {} => Max(s) \in s
      BY <2>1, GreatestOf
    <2> QED BY <2>2, FS_Interval
  <1> HIDE DEF S
  <1>1. On(0)
    <2> DEFINE g == [s \in Sub(0) |-> NoGames]
    <2>1. \A s \in Sub(0) : s = {}
      BY <1>0, Smaller
    <2>2. g = [s \in Sub(0) |-> Unfold(g, s)]
      BY <2>1
    <2> QED BY <2>2
  <1>2. ASSUME NEW k \in Nat, On(k) PROVE On(k + 1)
    <2>1. PICK g : g = [s \in Sub(k) |-> Unfold(g, s)]
      BY <1>2
    <2> DEFINE h == [s \in Sub(k + 1) |-> Unfold(g, s)]
    <2>2. ASSUME NEW s \in Sub(k + 1), s # {}
          PROVE  s \ {Max(s)} \in Sub(k) /\ s \ {Max(s)} \in Sub(k + 1)
      <3>1. Max(s) \in s
        BY <1>0, <2>2
      <3>2. s \ {Max(s)} \in SUBSET S /\ Cardinality(s \ {Max(s)}) = Cardinality(s) - 1 /\ Cardinality(s) \in Nat
        BY <1>0, <3>1, Smaller
      <3> QED BY <3>2
    <2>3. ASSUME NEW s \in Sub(k), s \in Sub(k + 1) PROVE h[s] = g[s]
      <3>1. h[s] = Unfold(g, s)
        BY <2>3
      <3>2. g[s] = Unfold(g, s)
        BY <2>1
      <3> QED BY <3>1, <3>2
    <2>4. ASSUME NEW s \in Sub(k + 1) PROVE h[s] = Unfold(h, s)
      <3>1. h[s] = Unfold(g, s)
        OBVIOUS
      <3>2. s # {} => h[s \ {Max(s)}] = g[s \ {Max(s)}]
        BY <2>2, <2>3
      <3> HIDE DEF h
      <3> QED BY <3>1, <3>2
    <2>5. h = [s \in Sub(k + 1) |-> h[s]]
      OBVIOUS
    <2> HIDE DEF h, Sub, Unfold
    <2>6. h = [s \in Sub(k + 1) |-> Unfold(h, s)]
      BY <2>4, <2>5
    <2> QED BY <2>6 DEF Unfold
  <1> HIDE DEF On
  <1>3. Bad = {}
    <2>1. SUFFICES ASSUME Bad # {} PROVE FALSE
      OBVIOUS
    <2>2. PICK k \in Bad : \A m \in Bad : k <= m
      <3> HIDE DEF Bad
      <3>1. Bad \subseteq Nat
        BY DEF Bad
      <3> QED BY <3>1, <2>1, LeastOf
    <2>3. k # 0 /\ k - 1 \in Nat /\ k - 1 \notin Bad
      BY <1>1, <2>2
    <2> QED BY <1>2, <2>2, <2>3
  <1>4. On(Cardinality(S)) /\ Sub(Cardinality(S)) = SUBSET S
    BY <1>0, <1>3, Smaller, FS_CardinalityType
  <1>5. PICK g : g = [s \in SUBSET S |-> Unfold(g, s)]
    BY <1>4 DEF On
  <1> QED BY <1>5 DEF FoldsGames, S

\* A walk is its steps, one per game.
LEMMA WalkIsItsSteps ==
    ASSUME NEW gs, NEW n \in Nat, DOMAIN gs = 1 .. n, NEW roots, NEW career, NEW year
    PROVE  Stepwise(gs, n, roots, career, year)
  <1> DEFINE R(g) == g = [s \in SUBSET (DOMAIN gs) |->
                             IF s = {} THEN NoGames
                             ELSE LET x == Max(s)
                                  IN  EloStep(g[s \ {x}], gs[x], roots, career, year)]
  <1>1. PICK f : R(f)
    <2>1. PICK f : FoldsGames(f, gs, n, roots, career, year)
      BY FoldsExist
    <2>2. R(f)
      BY <2>1 DEF FoldsGames
    <2> QED BY <2>2
  <1>2. R(CHOOSE g : R(g))
    BY <1>1, Zenon
  <1>3. EloWalk(gs, roots, career, year) = (CHOOSE g : R(g))[DOMAIN gs]
    BY Zenon DEF EloWalk, FoldLeft, MapThenFoldSet, NoGames
  <1>4. PICK g : R(g) /\ EloWalk(gs, roots, career, year) = g[DOMAIN gs]
    BY <1>2, <1>3
  <1>5. PICK w : w = [i \in 0 .. n |-> g[1 .. i]]
    OBVIOUS
  <1>6. ASSUME NEW i \in 1 .. n PROVE w[i] = EloStep(w[i - 1], gs[i], roots, career, year)
    <2>1. Max(1 .. i) = i
      <3>1. 1 .. i \subseteq Int /\ i \in 1 .. i /\ \A x \in 1 .. i : x <= i
        OBVIOUS
      <3> QED BY <3>1, MaxIs
    <2>2. (1 .. i) \ {i} = 1 .. (i - 1) /\ 1 .. i # {} /\ 1 .. i \in SUBSET (DOMAIN gs)
      <3>1. i \in 1 .. i /\ 1 .. i \subseteq 1 .. n
        OBVIOUS
      <3>2. \A x : x \in (1 .. i) \ {i} <=> x \in 1 .. (i - 1)
        OBVIOUS
      <3>3. (1 .. i) \ {i} = 1 .. (i - 1)
        BY <3>2
      <3> QED BY <3>1, <3>3
    <2>3. g[1 .. i] = EloStep(g[1 .. (i - 1)], gs[i], roots, career, year)
      BY <1>4, <2>1, <2>2
    <2>4. w[i] = g[1 .. i] /\ w[i - 1] = g[1 .. (i - 1)]
      BY <1>5
    <2> QED BY <2>3, <2>4
  <1>7. w[0] = NoGames
    <2>1. 1 .. 0 = {} /\ 1 .. 0 \in SUBSET (DOMAIN gs)
      OBVIOUS
    <2>2. w[0] = g[1 .. 0]
      BY <1>5
    <2> QED BY <1>4, <2>1, <2>2
  <1>8. w[n] = g[DOMAIN gs]
    BY <1>5
  <1> QED BY <1>4, <1>6, <1>7, <1>8 DEF Walks, Stepwise

\* Without moves a team is its own franchise.
LEMMA NoMoves == \A t : Root(<<>>, t) = t
  <1>1. SUFFICES ASSUME NEW t PROVE Root(<<>>, t) = t
    OBVIOUS
  <1> DEFINE seq == [i \in 1 .. Cardinality(DOMAIN <<>>) |-> i]
             R(g) == g = [s \in SUBSET (DOMAIN seq) |->
                             IF s = {} THEN t
                             ELSE LET x == Max(s)
                                      u == g[s \ {x}]
                                  IN  IF u \in DOMAIN <<>> THEN <<>>[u] ELSE u]
  <1>2. DOMAIN <<>> = {} /\ DOMAIN seq = {}
    <2>1. DOMAIN <<>> = {}
      OBVIOUS
    <2>2. Cardinality(DOMAIN <<>>) = 0
      BY <2>1, FS_EmptySet
    <2> QED BY <2>1, <2>2
  <1>3. Root(<<>>, t) = (CHOOSE g : R(g))[DOMAIN seq]
    BY Zenon DEF Root, FoldLeft, MapThenFoldSet
  <1>4. R([s \in SUBSET {} |-> t])
    <2>1. \A s \in SUBSET (DOMAIN seq) : s = {}
      BY <1>2
    <2> QED BY <1>2, <2>1
  <1>5. R(CHOOSE g : R(g))
    BY <1>4, Zenon
  <1>6. PICK g : R(g) /\ Root(<<>>, t) = g[DOMAIN seq]
    BY <1>3, <1>5
  <1> QED BY <1>2, <1>6

\* The larger and the smaller of two whole numbers.
LEMMA MaxMinOfTwo ==
    ASSUME NEW x \in Int, NEW y \in Int
    PROVE  /\ Max({x, y}) \in {x, y} /\ x <= Max({x, y}) /\ y <= Max({x, y})
           /\ Min({x, y}) \in {x, y} /\ Min({x, y}) <= x /\ Min({x, y}) <= y
  <1>1. IsFiniteSet({x} \cup {y}) /\ {x} \cup {y} = {x, y}
    BY FS_Singleton, FS_AddElement
  <1>2. {x, y} # {} /\ {x, y} \subseteq Int
    OBVIOUS
  <1> QED BY <1>1, <1>2, MaxMinOfFinite

\* One game's numbers: a win is expected with a chance strictly between none and
\* certain, and moves no rating the wrong way.
LEMMA UpdateFacts ==
    ASSUME NEW home \in Int, NEW away \in Int, NEW g, g.hp \in Int, g.ap \in Int
    PROVE  LET update == GameUpdate(home, away, g) IN
           /\ update.rating_gap \in Int /\ update.win_expectancy \in Int /\ update.shift \in Int
           /\ g.hp > g.ap => update.shift >= 0
           /\ g.hp < g.ap => update.shift <= 0
  <1> DEFINE adjustment == IF g.neutral THEN 0 ELSE ELO.hfa
             gap == home - away + adjustment
             expected == ExpectedScore(gap)
             log == LogMargin(g.hp - g.ap)
             edge == IF GameResult(g) = 1000 THEN gap ELSE -gap
             floor == ELO.mov_scale \div 2
             damped == (edge * ELO.mov_autocorr) \div 10 + ELO.mov_scale
             denom == IF GameResult(g) = 500 THEN 100 ELSE Max({damped, floor})
             multiplier == MovMultiplier(g.hp - g.ap, gap, GameResult(g))
             scaled == ELO.k * multiplier * (GameResult(g) - expected)
  <1>1. /\ ELO.k \in Nat /\ ELO.scale \in Nat \ {0} /\ ELO.mov_scale \in Nat \ {0, 1}
        /\ ELO.hfa \in Int /\ ELO.mov_autocorr \in Int
    BY EloAssumption
  <1>2. gap \in Int
    BY <1>1
  <1>3. expected \in 1 .. 999
    <2> DEFINE x == 500 + (500 * gap) \div ELO.scale
               low == Min({999, x})
    <2>1. x \in Int
      <3>1. 500 * gap \in Int /\ ELO.scale \in Int /\ ELO.scale > 0
        BY <1>1, <1>2
      <3> HIDE DEF gap
      <3>2. (500 * gap) \div ELO.scale \in Int
        BY <3>1, DivGrows
      <3> QED BY <3>2
    <2> HIDE DEF x
    <2>2. 999 \in Int /\ 1 \in Int
      OBVIOUS
    <2>3. \A y \in Int : Min({y, x}) \in {y, x} /\ Min({y, x}) <= y
      BY <2>1, MaxMinOfTwo, Zenon
    <2> HIDE DEF low
    <2>4. low \in Int /\ low <= 999
      BY <2>1, <2>3 DEF low
    <2>6. Max({1, low}) \in {1, low} /\ 1 <= Max({1, low})
      BY <2>2, <2>4, MaxMinOfTwo, Zenon
    <2>7. expected = Max({1, low})
      BY DEF ExpectedScore, x, low
    <2> QED BY <2>4, <2>6, <2>7
  <1>4. log \in 1 .. 7
    <2> DEFINE S == {n \in 1 .. 7 : n = 1 \/ 2^n <= 1 + (IF g.hp - g.ap < 0 THEN -(g.hp - g.ap) ELSE g.hp - g.ap)}
    <2>1. S \subseteq 0 .. 7 /\ 1 \in S
      OBVIOUS
    <2>2. Max(S) \in S
      BY <2>1, GreatestOf
    <2> QED BY <2>2 DEF LogMargin
  <1>5. GameResult(g) \in {0, 500, 1000}
    BY DEF GameResult
  <1>6. denom \in Int /\ denom > 0
    <2>1. floor \in Int /\ floor > 0
      BY <1>1
    <2>2. edge \in Int
      BY <1>2
    <2>3. damped \in Int
      <3> HIDE DEF edge
      <3>1. edge * ELO.mov_autocorr \in Int
        BY <1>1, <2>2
      <3>2. (edge * ELO.mov_autocorr) \div 10 \in Int
        BY <3>1
      <3> QED BY <1>1, <3>2
    <2> HIDE DEF floor, damped
    <2>5. Max({damped, floor}) \in {damped, floor} /\ floor <= Max({damped, floor})
      BY <2>1, <2>3, MaxMinOfTwo
    <2> QED BY <2>1, <2>3, <2>5
  <1>7. multiplier \in Int /\ multiplier >= 0
    <2>1. multiplier = (100 * log * ELO.mov_scale) \div denom
      BY DEF MovMultiplier
    <2> HIDE DEF log, denom, multiplier
    <2>2. 100 * log * ELO.mov_scale \in Int /\ 100 * log * ELO.mov_scale >= 0
      BY <1>1, <1>4
    <2> QED BY <1>6, <2>1, <2>2, DivGrows
  <1>8. GameUpdate(home, away, g).shift = scaled \div 100000
    BY DEF GameUpdate
  <1>9. /\ scaled \in Int
        /\ GameResult(g) = 1000 => scaled >= 0
        /\ GameResult(g) = 0 => scaled <= 0
    <2> HIDE DEF multiplier, expected
    <2>1. ELO.k * multiplier \in Int /\ ELO.k * multiplier >= 0
      BY <1>1, <1>7
    <2>2. GameResult(g) - expected \in Int
      BY <1>3, <1>5
    <2>3. GameResult(g) = 1000 => GameResult(g) - expected >= 0
      BY <1>3
    <2>4. GameResult(g) = 0 => GameResult(g) - expected <= 0
      BY <1>3
    <2>5. \A x, y \in Int : /\ x * y \in Int
                            /\ x >= 0 /\ y >= 0 => x * y >= 0
                            /\ x >= 0 /\ y <= 0 => x * y <= 0
      OBVIOUS
    <2> QED BY <2>1, <2>2, <2>3, <2>4, <2>5
  <1>10. \A x \in Int : /\ x \div 100000 \in Int
                        /\ x >= 0 => x \div 100000 >= 0
                        /\ x <= 0 => x \div 100000 <= 0
    OBVIOUS
  <1>11. /\ g.hp > g.ap => GameResult(g) = 1000
         /\ g.hp < g.ap => GameResult(g) = 0
    BY DEF GameResult
  <1>12. /\ GameUpdate(home, away, g).rating_gap = gap
         /\ GameUpdate(home, away, g).win_expectancy = expected
    BY DEF GameUpdate
  <1> HIDE DEF gap, expected, scaled
  <1> QED BY <1>2, <1>3, <1>8, <1>9, <1>10, <1>11, <1>12

Shape(walk) ==
    DOMAIN walk = {"elo", "last_season", "participants", "records", "steps", "overlap"}
Moved(elo, h, a, home, away, shift) ==
    [[Put(Put(elo, a, away), h, home) EXCEPT ![h] = @ + shift] EXCEPT ![a] = @ - shift]
\* Whether a game is one whose participants are recorded, and whether it cannot be.
Counts(g, career, year) == career => g.season = year
Overlapping(walk, g, h, a) ==
    \/ Clash(walk.participants, h, g.home)
    \/ Clash(Put(walk.participants, h, g.home), a, g.away)
StepOf(walk, g, t, own, other, update) ==
    Append(Letters(walk.steps, t), EloGameStep(g, t, own, other, update))
LetterOf(walk, t, own, other) == Append(Letters(walk.records, t), ResultLetter(own, other))

Stepped(new, walk, g, h, a, home, away, update, career, year) ==
    /\ new.overlap = FALSE
    /\ new.elo = Moved(walk.elo, h, a, home, away, update.shift)
    /\ new.last_season = Put(Put(walk.last_season, a, g.season), h, g.season)
    /\ career => new.steps = walk.steps
    /\ ~career => new.steps =
          Put(Put(walk.steps, g.away, StepOf(walk, g, g.away, away, home, update)),
              g.home, StepOf(walk, g, g.home, home, away, update))
    /\ Counts(g, career, year) =>
          /\ new.participants = Put(Put(walk.participants, h, g.home), a, g.away)
          /\ new.records =
                Put(Put(walk.records, g.away, LetterOf(walk, g.away, g.ap, g.hp)),
                    g.home, LetterOf(walk, g.home, g.hp, g.ap))
    /\ ~Counts(g, career, year) =>
          /\ new.participants = walk.participants
          /\ new.records = walk.records

\* What one game makes of a walk, field by field.
LEMMA StepFields ==
    ASSUME NEW walk, Shape(walk), walk.overlap = FALSE, NEW g, NEW roots, NEW career, NEW year,
           NEW h, h = Root(roots, g.home), NEW a, a = Root(roots, g.away),
           NEW home, home = Entered(walk, h, g.season, career),
           NEW away, away = Entered(walk, a, g.season, career),
           NEW update, update = GameUpdate(home, away, g),
           NEW new, new = EloStep(walk, g, roots, career, year)
    PROVE  /\ Shape(new)
           /\ Counts(g, career, year) /\ Overlapping(walk, g, h, a) =>
                 new = [walk EXCEPT !.overlap = TRUE]
           /\ ~(Counts(g, career, year) /\ Overlapping(walk, g, h, a)) =>
                 Stepped(new, walk, g, h, a, home, away, update, career, year)
  <1> DEFINE steps == IF career THEN walk.steps
                      ELSE Put(Put(walk.steps, g.away, StepOf(walk, g, g.away, away, home, update)),
                               g.home, StepOf(walk, g, g.home, home, away, update))
             played == [walk EXCEPT
                 !.elo = Moved(walk.elo, h, a, home, away, update.shift),
                 !.last_season = Put(Put(walk.last_season, a, g.season), h, g.season),
                 !.steps = steps]
             counted == [played EXCEPT
                 !.participants = Put(Put(walk.participants, h, g.home), a, g.away),
                 !.records = Put(Put(walk.records, g.away, LetterOf(walk, g.away, g.ap, g.hp)),
                                 g.home, LetterOf(walk, g.home, g.hp, g.ap))]
  <1>1. new = IF walk.overlap THEN walk
              ELSE IF ~(career => g.season = year) THEN played
              ELSE IF Overlapping(walk, g, h, a) THEN [walk EXCEPT !.overlap = TRUE]
              ELSE counted
    BY DEF EloStep, Moved, Overlapping, StepOf, LetterOf
  <1>2. /\ Shape(played) /\ played.overlap = FALSE
        /\ played.elo = Moved(walk.elo, h, a, home, away, update.shift)
        /\ played.last_season = Put(Put(walk.last_season, a, g.season), h, g.season)
        /\ played.steps = steps
        /\ played.participants = walk.participants /\ played.records = walk.records
    <2> HIDE DEF steps
    <2> QED BY DEF Shape
  <1>3. /\ Shape(counted) /\ counted.overlap = played.overlap
        /\ counted.elo = played.elo /\ counted.last_season = played.last_season
        /\ counted.steps = played.steps
        /\ counted.participants = Put(Put(walk.participants, h, g.home), a, g.away)
        /\ counted.records = Put(Put(walk.records, g.away, LetterOf(walk, g.away, g.ap, g.hp)),
                                 g.home, LetterOf(walk, g.home, g.hp, g.ap))
    <2> HIDE DEF played
    <2> QED BY <1>2 DEF Shape
  <1>4. CASE Counts(g, career, year) /\ Overlapping(walk, g, h, a)
    <2>1. new = [walk EXCEPT !.overlap = TRUE]
      BY <1>1, <1>4, Zenon DEF Counts
    <2> QED BY <1>4, <2>1 DEF Shape
  <1>5. CASE Counts(g, career, year) /\ ~Overlapping(walk, g, h, a)
    <2>1. new = counted
      BY <1>1, <1>5, Zenon DEF Counts
    <2> HIDE DEF played, counted
    <2> QED BY <1>2, <1>3, <1>5, <2>1 DEF Stepped
  <1>6. CASE ~Counts(g, career, year)
    <2> HIDE DEF played, counted
    <2>0. ~(career => g.season = year) /\ ~walk.overlap
      BY <1>6 DEF Counts
    <2>1. new = played
      BY <1>1, <2>0, Zenon
    <2> QED BY <1>2, <1>6, <2>1 DEF Stepped
  <1> QED BY <1>4, <1>5, <1>6

-----------------------------------------------------------------------------
(* A season on its own *)

IsSeq(s) == \E X : s \in Seq(X)
OfLetter(s, l) == {i \in DOMAIN s : s[i] = l}
LetterFor(g, t) == IF g.home = t THEN ResultLetter(g.hp, g.ap) ELSE ResultLetter(g.ap, g.hp)
Ended(gs, t, l) == {g \in OwnGames(gs, t) : LetterFor(g, t) = l}

Chained(s, rating) ==
    /\ Len(s) > 0 /\ s[1].rating_before = ELO.initial
    /\ \A i \in 2 .. Len(s) : s[i].rating_before = s[i - 1].rating_after
    /\ s[Len(s)].rating_after = rating
\* A win takes no points from the winner, a loss gives none to the loser.
PaysNoWinner(x) == /\ x.result = "W" => x.shift >= 0
                   /\ x.result = "L" => x.shift <= 0
StepTold(steps, t, x) ==
    /\ x.opponent \in DOMAIN steps
    /\ \E j \in DOMAIN steps[x.opponent] : Mirrors(x, steps[x.opponent][j], t)
    /\ PaysNoWinner(x)
Lettered(records, gs) ==
    \A t \in DOMAIN records :
        /\ IsSeq(records[t])
        /\ \A l \in {"W", "L", "T"} :
              Cardinality(OfLetter(records[t], l)) = Cardinality(Ended(gs, t, l))
LedgersTold(steps, elo) ==
    \A t \in DOMAIN steps :
        /\ IsSeq(steps[t]) /\ Chained(steps[t], elo[t])
        /\ \A i \in DOMAIN steps[t] : StepTold(steps, t, steps[t][i])
\* A walk over the games gs of one season has one entry for each of their teams,
\* its ledgers chain and mirror each other, and its points are where they were.
SeasonTold(walk, gs) ==
    /\ Shape(walk) /\ walk.overlap = FALSE
    /\ DOMAIN walk.elo = Teams(gs) /\ DOMAIN walk.participants = Teams(gs)
    /\ DOMAIN walk.records = Teams(gs) /\ DOMAIN walk.steps = Teams(gs)
    /\ \A t \in Teams(gs) : walk.elo[t] \in Int /\ walk.participants[t] = t
    /\ Lettered(walk.records, gs)
    /\ LedgersTold(walk.steps, walk.elo)
    /\ Sum(walk.elo, Teams(gs)) = ELO.initial * Cardinality(Teams(gs))

LEMMA AppendTo ==
    ASSUME NEW s, IsSeq(s), NEW e
    PROVE  /\ IsSeq(Append(s, e)) /\ Len(s) \in Nat /\ DOMAIN s = 1 .. Len(s)
           /\ Len(Append(s, e)) = Len(s) + 1 /\ DOMAIN Append(s, e) = 1 .. (Len(s) + 1)
           /\ Append(s, e)[Len(s) + 1] = e
           /\ \A i \in 1 .. Len(s) : Append(s, e)[i] = s[i]
  <1>1. PICK X : s \in Seq(X)
    BY DEF IsSeq
  <1>2. s \in Seq(X \cup {e}) /\ e \in X \cup {e}
    BY <1>1
  <1>3. Append(s, e) \in Seq(X \cup {e})
    BY <1>2
  <1> QED BY <1>2, <1>3 DEF IsSeq

\* A letter more.
LEMMA AppendLetter ==
    ASSUME NEW s, IsSeq(s), NEW e, NEW l
    PROVE  /\ IsFiniteSet(OfLetter(s, l))
           /\ Cardinality(OfLetter(Append(s, e), l))
                 = IF e = l THEN Cardinality(OfLetter(s, l)) + 1 ELSE Cardinality(OfLetter(s, l))
  <1>1. /\ Len(s) \in Nat /\ DOMAIN s = 1 .. Len(s)
        /\ DOMAIN Append(s, e) = 1 .. (Len(s) + 1)
        /\ Append(s, e)[Len(s) + 1] = e
        /\ \A i \in 1 .. Len(s) : Append(s, e)[i] = s[i]
    BY AppendTo
  <1>2. IsFiniteSet(1 .. Len(s)) /\ OfLetter(s, l) \in SUBSET (1 .. Len(s))
    BY <1>1, FS_Interval DEF OfLetter
  <1>3. IsFiniteSet(OfLetter(s, l)) /\ Cardinality(OfLetter(s, l)) \in Nat
    BY <1>2, Smaller
  <1>4. OfLetter(Append(s, e), l)
          = IF e = l THEN OfLetter(s, l) \cup {Len(s) + 1} ELSE OfLetter(s, l)
    BY <1>1 DEF OfLetter
  <1>5. Len(s) + 1 \notin OfLetter(s, l)
    BY <1>1 DEF OfLetter
  <1> QED BY <1>3, <1>4, <1>5, FS_AddElement

\* What setting one value does to a sum.
SumMoves(w, x, y, v) ==
    /\ x \in DOMAIN w => Sum(v, DOMAIN v) = Sum(w, DOMAIN w) + y - w[x]
    /\ x \notin DOMAIN w => Sum(v, DOMAIN v) = Sum(w, DOMAIN w) + y
LEMMA SumPut ==
    ASSUME NEW w, IsFiniteSet(DOMAIN w), \A t \in DOMAIN w : w[t] \in Int, NEW x, NEW y \in Int,
           NEW v, v = Put(w, x, y)
    PROVE  /\ IsFiniteSet(DOMAIN v) /\ DOMAIN v = DOMAIN w \cup {x}
           /\ \A t \in DOMAIN v : v[t] \in Int
           /\ Sum(w, DOMAIN w) \in Int
           /\ SumMoves(w, x, y, v)
  <1>1. /\ DOMAIN v = DOMAIN w \cup {x} /\ v[x] = y
        /\ \A t \in DOMAIN w : t # x => v[t] = w[t]
    BY DEF Put
  <1>2. IsFiniteSet(DOMAIN v) /\ \A t \in DOMAIN v : v[t] \in Int
    BY <1>1, FS_AddElement
  <1> DEFINE U == DOMAIN w \ {x}
  <1>3. IsFiniteSet(U) /\ DOMAIN v \ {x} = U
    BY <1>1, FS_RemoveElement
  <1>4. Sum(v, DOMAIN v) = y + Sum(v, U)
    BY <1>1, <1>2, <1>3, TotalFacts
  <1>5. Sum(v, U) = Sum(w, U)
    BY <1>1, <1>3, SumSame
  <1>6. Sum(w, U) \in Int /\ Sum(w, DOMAIN w) \in Int
    BY <1>3, TotalFacts
  <1>7. Sum(w, DOMAIN w) = Sum(w, U) + (IF x \in DOMAIN w THEN w[x] ELSE 0)
    <2>1. CASE x \in DOMAIN w
      BY <1>6, <2>1, TotalFacts
    <2>2. CASE x \notin DOMAIN w
      <3>1. U = DOMAIN w
        BY <2>2
      <3> QED BY <1>6, <2>2, <3>1
    <2> QED BY <2>1, <2>2
  <1>8. x \in DOMAIN w => w[x] \in Int
    OBVIOUS
  <1>9. SumMoves(w, x, y, v)
    BY <1>1, <1>4, <1>5, <1>6, <1>7, <1>8 DEF SumMoves
  <1> QED BY <1>1, <1>2, <1>6, <1>9

\* The teams and the results of one game more.
LEMMA OneGameMore ==
    ASSUME NEW gs, IsFiniteSet(gs), NEW g, g \notin gs
    PROVE  /\ Teams(gs \cup {g}) = Teams(gs) \cup {g.home, g.away}
           /\ IsFiniteSet(Teams(gs))
           /\ \A t, l : /\ IsFiniteSet(Ended(gs, t, l))
                        /\ Cardinality(Ended(gs \cup {g}, t, l))
                              = IF t \in {g.home, g.away} /\ LetterFor(g, t) = l
                                THEN Cardinality(Ended(gs, t, l)) + 1 ELSE Cardinality(Ended(gs, t, l))
  <1>1. Teams(gs \cup {g}) = Teams(gs) \cup {g.home, g.away}
    BY DEF Teams
  <1>2. IsFiniteSet(Teams(gs))
    <2>1. PICK home, away : home = [x \in gs |-> x.home] /\ away = [x \in gs |-> x.away]
      OBVIOUS
    <2>2. IsFiniteSet({home[x] : x \in gs}) /\ IsFiniteSet({away[x] : x \in gs})
      BY ImageIsFinite
    <2>3. Teams(gs) = {home[x] : x \in gs} \cup {away[x] : x \in gs}
      BY <2>1 DEF Teams
    <2> QED BY <2>2, <2>3, FS_Union
  <1>3. ASSUME NEW t, NEW l
        PROVE  /\ IsFiniteSet(Ended(gs, t, l))
               /\ Cardinality(Ended(gs \cup {g}, t, l))
                     = IF t \in {g.home, g.away} /\ LetterFor(g, t) = l
                       THEN Cardinality(Ended(gs, t, l)) + 1 ELSE Cardinality(Ended(gs, t, l))
    <2>1. Ended(gs, t, l) \in SUBSET gs /\ g \notin Ended(gs, t, l)
      BY DEF Ended, OwnGames
    <2>2. IsFiniteSet(Ended(gs, t, l)) /\ Cardinality(Ended(gs, t, l)) \in Nat
      BY <2>1, Smaller
    <2>3. Ended(gs \cup {g}, t, l) = IF t \in {g.home, g.away} /\ LetterFor(g, t) = l
                                   THEN Ended(gs, t, l) \cup {g} ELSE Ended(gs, t, l)
      BY DEF Ended, OwnGames
    <2>4. /\ IsFiniteSet(Ended(gs, t, l) \cup {g})
          /\ Cardinality(Ended(gs, t, l) \cup {g}) = Cardinality(Ended(gs, t, l)) + 1
      BY <2>1, <2>2, FS_AddElement
    <2>5. CASE t \in {g.home, g.away} /\ LetterFor(g, t) = l
      BY <2>2, <2>3, <2>4, <2>5
    <2>6. CASE ~(t \in {g.home, g.away} /\ LetterFor(g, t) = l)
      BY <2>2, <2>3, <2>6
    <2> QED BY <2>5, <2>6
  <1> QED BY <1>1, <1>2, <1>3

\* A team's ledger with a step more.
Grown(steps, t, x, new) ==
    /\ IsSeq(new) /\ Chained(new, x.rating_after)
    /\ Len(new) \in DOMAIN new /\ new[Len(new)] = x
    /\ \A i \in DOMAIN new :
          \/ new[i] = x
          \/ t \in DOMAIN steps /\ i \in DOMAIN steps[t] /\ new[i] = steps[t][i]
    /\ t \in DOMAIN steps =>
          \A i \in DOMAIN steps[t] : i \in DOMAIN new /\ new[i] = steps[t][i]
Continues(steps, t, before) ==
    IF t \in DOMAIN steps THEN IsSeq(steps[t]) /\ Chained(steps[t], before)
    ELSE before = ELO.initial

\* What a team's step adds to its own ledger.
LEMMA ChainGoesOn ==
    ASSUME NEW steps, NEW t, NEW x, NEW before, before = x.rating_before, Continues(steps, t, before),
           NEW new, new = Append(Letters(steps, t), x)
    PROVE  Grown(steps, t, x, new)
  <1>0. /\ t \in DOMAIN steps => IsSeq(steps[t]) /\ Chained(steps[t], before)
        /\ t \notin DOMAIN steps => before = ELO.initial
    BY DEF Continues
  <1> DEFINE old == Letters(steps, t)
  <1>1. IsSeq(old)
    <2>1. IsSeq(<<>>)
      <3>1. <<>> \in Seq({})
        OBVIOUS
      <3> QED BY <3>1 DEF IsSeq
    <2> QED BY <1>0, <2>1 DEF Letters
  <1> DEFINE n == Len(old)
  <1>2. /\ IsSeq(new) /\ n \in Nat /\ DOMAIN old = 1 .. n
        /\ Len(new) = n + 1 /\ DOMAIN new = 1 .. (n + 1)
        /\ new[n + 1] = x /\ \A i \in 1 .. n : new[i] = old[i]
    BY <1>1, AppendTo
  <1>3. t \in DOMAIN steps => old = steps[t]
    BY DEF Letters
  <1>4. t \notin DOMAIN steps => n = 0
    BY DEF Letters
  <1>5. Chained(new, x.rating_after)
    <2>1. CASE t \in DOMAIN steps
      <3>1. /\ n > 0 /\ old[1].rating_before = ELO.initial
            /\ \A i \in 2 .. n : old[i].rating_before = old[i - 1].rating_after
            /\ old[n].rating_after = before
        BY <1>0, <1>3, <2>1 DEF Chained
      <3> HIDE DEF old, n
      <3>2. new[1].rating_before = ELO.initial /\ new[Len(new)].rating_after = x.rating_after
        BY <1>2, <3>1
      <3>3. ASSUME NEW i \in 2 .. (n + 1) PROVE new[i].rating_before = new[i - 1].rating_after
        <4>1. CASE i = n + 1
          BY <1>2, <3>1, <4>1
        <4>2. CASE i # n + 1
          <5>1. i \in 2 .. n /\ i \in 1 .. n /\ i - 1 \in 1 .. n
            BY <1>2, <4>2
          <5> QED BY <1>2, <3>1, <5>1
        <4> QED BY <4>1, <4>2
      <3> QED BY <1>2, <3>2, <3>3 DEF Chained
    <2>2. CASE t \notin DOMAIN steps
      <3>1. n = 0
        BY <1>4, <2>2
      <3> HIDE DEF old, n
      <3> QED BY <1>0, <1>2, <2>2, <3>1 DEF Chained
    <2> QED BY <2>1, <2>2
  <1> HIDE DEF old
  <1> QED BY <1>2, <1>3, <1>4, <1>5 DEF Grown

\* The two sides of one game, each in the other's words.
LEMMA SidesMirror ==
    ASSUME NEW g, g.hp \in Int, g.ap \in Int, g.home # g.away,
           NEW home \in Int, NEW away \in Int,
           NEW update, update = GameUpdate(home, away, g),
           NEW x, x = EloGameStep(g, g.home, home, away, update),
           NEW y, y = EloGameStep(g, g.away, away, home, update)
    PROVE  /\ x.opponent = g.away /\ y.opponent = g.home
           /\ Mirrors(x, y, g.home) /\ Mirrors(y, x, g.away)
           /\ x.rating_before = home /\ x.rating_after = home + update.shift
           /\ y.rating_before = away /\ y.rating_after = away - update.shift
           /\ PaysNoWinner(x) /\ PaysNoWinner(y)
  <1>1. /\ update.rating_gap \in Int /\ update.win_expectancy \in Int /\ update.shift \in Int
        /\ g.hp > g.ap => update.shift >= 0
        /\ g.hp < g.ap => update.shift <= 0
    BY UpdateFacts
  <1>2. /\ x.opponent = g.away /\ x.rating_before = home /\ x.opponent_rating_before = away
        /\ x.shift = update.shift /\ x.rating_gap = update.rating_gap
        /\ x.win_expectancy = update.win_expectancy /\ x.rating_after = home + update.shift
        /\ x.result = ResultLetter(g.hp, g.ap)
    BY DEF EloGameStep
  <1>3. /\ y.opponent = g.home /\ y.rating_before = away /\ y.opponent_rating_before = home
        /\ y.shift = -update.shift /\ y.rating_gap = -update.rating_gap
        /\ y.win_expectancy = 1000 - update.win_expectancy /\ y.rating_after = away + (-update.shift)
        /\ y.result = ResultLetter(g.ap, g.hp)
    BY DEF EloGameStep
  <1>4. Mirrors(x, y, g.home) /\ Mirrors(y, x, g.away)
    BY <1>1, <1>2, <1>3 DEF Mirrors
  <1>5. /\ x.result = "W" => g.hp > g.ap
        /\ x.result = "L" => g.hp < g.ap
        /\ y.result = "W" => g.ap > g.hp
        /\ y.result = "L" => g.ap < g.hp
    BY <1>2, <1>3 DEF ResultLetter
  <1>6. PaysNoWinner(x) /\ PaysNoWinner(y)
    BY <1>1, <1>2, <1>3, <1>5 DEF PaysNoWinner
  <1>7. y.rating_after = away - update.shift
    BY <1>1, <1>3
  <1> QED BY <1>2, <1>3, <1>4, <1>6, <1>7

\* A team's points change, from those it had or from those it enters with.
LEMMA PointsAreAdded ==
    ASSUME NEW w, IsFiniteSet(DOMAIN w), \A t \in DOMAIN w : w[t] \in Int, NEW x, NEW y \in Int,
           NEW v, v = Put(w, x, y)
    PROVE  \A c, d, s \in Int :
              /\ y = (IF x \in DOMAIN w THEN w[x] ELSE c) + s
              /\ Sum(w, DOMAIN w) = c * Cardinality(DOMAIN w) + d
              => Sum(v, DOMAIN v) = c * Cardinality(DOMAIN v) + d + s
  <1>1. /\ IsFiniteSet(DOMAIN v) /\ DOMAIN v = DOMAIN w \cup {x}
        /\ Sum(w, DOMAIN w) \in Int
        /\ x \in DOMAIN w => Sum(v, DOMAIN v) = Sum(w, DOMAIN w) + y - w[x]
        /\ x \notin DOMAIN w => Sum(v, DOMAIN v) = Sum(w, DOMAIN w) + y
    <2>1. IsFiniteSet(DOMAIN v) /\ DOMAIN v = DOMAIN w \cup {x} /\ Sum(w, DOMAIN w) \in Int
      BY SumPut
    <2>2. SumMoves(w, x, y, v)
      BY SumPut
    <2> QED BY <2>1, <2>2 DEF SumMoves
  <1>2. /\ Cardinality(DOMAIN w) \in Nat
        /\ x \notin DOMAIN w => Cardinality(DOMAIN w \cup {x}) = Cardinality(DOMAIN w) + 1
    BY FS_AddElement, FS_CardinalityType
  <1>3. ASSUME NEW c \in Int, NEW d \in Int, NEW s \in Int,
               y = (IF x \in DOMAIN w THEN w[x] ELSE c) + s,
               Sum(w, DOMAIN w) = c * Cardinality(DOMAIN w) + d
        PROVE  Sum(v, DOMAIN v) = c * Cardinality(DOMAIN v) + d + s
    <2>1. PICK m, p : m = Cardinality(DOMAIN w) /\ p = Sum(w, DOMAIN w)
      OBVIOUS
    <2>2. m \in Int /\ p \in Int /\ p = c * m + d /\ c * m \in Int
      BY <1>1, <1>2, <1>3, <2>1
    <2>3. CASE x \in DOMAIN w
      <3>1. DOMAIN v = DOMAIN w /\ Sum(v, DOMAIN v) = p + y - w[x] /\ y = w[x] + s /\ w[x] \in Int
        BY <1>1, <1>3, <2>1, <2>3
      <3>2. p + y - w[x] = p + s
        BY <2>2, <3>1
      <3>3. p + s = c * m + d + s
        BY <2>2
      <3> QED BY <2>1, <3>1, <3>2, <3>3
    <2>4. CASE x \notin DOMAIN w
      <3>1. /\ Cardinality(DOMAIN v) = m + 1 /\ Sum(v, DOMAIN v) = p + y /\ y = c + s
        BY <1>1, <1>2, <1>3, <2>1, <2>4
      <3>2. c * (m + 1) = c * m + c
        BY <2>2
      <3>3. p + (c + s) = (c * m + c) + d + s
        BY <2>2
      <3> QED BY <3>1, <3>2, <3>3
    <2> QED BY <2>3, <2>4
  <1> QED BY <1>3

PointsOf(w, t, c) == IF t \in DOMAIN w THEN w[t] ELSE c
WholePoints(w, c) ==
    /\ \A t \in DOMAIN w : w[t] \in Int
    /\ Sum(w, DOMAIN w) = c * Cardinality(DOMAIN w)

\* Points move from one side to the other and are neither made nor lost.
LEMMA PointsAreMoved ==
    ASSUME NEW w, NEW c \in Int, IsFiniteSet(DOMAIN w), WholePoints(w, c),
           NEW h, NEW a, h # a, NEW s \in Int,
           NEW y \in Int, y = PointsOf(w, a, c) - s, NEW x \in Int, x = PointsOf(w, h, c) + s,
           NEW u, u = Put(w, a, y), NEW v, v = Put(u, h, x)
    PROVE  WholePoints(v, c)
  <1> USE DEF WholePoints
  <1>1. /\ IsFiniteSet(DOMAIN u) /\ DOMAIN u = DOMAIN w \cup {a} /\ \A t \in DOMAIN u : u[t] \in Int
    BY SumPut
  <1>2. \A t \in DOMAIN v : v[t] \in Int
    BY <1>1, SumPut
  <1>3. Sum(w, DOMAIN w) = c * Cardinality(DOMAIN w) + 0 /\ -s \in Int /\ 0 \in Int
    BY FS_CardinalityType
  <1>4. y = (IF a \in DOMAIN w THEN w[a] ELSE c) + (-s)
    BY DEF PointsOf
  <1>5. Sum(u, DOMAIN u) = c * Cardinality(DOMAIN u) + 0 + (-s)
    BY <1>3, <1>4, PointsAreAdded
  <1>6. Sum(u, DOMAIN u) = c * Cardinality(DOMAIN u) + (-s)
    BY <1>1, <1>5, FS_CardinalityType
  <1>7. x = (IF h \in DOMAIN u THEN u[h] ELSE c) + s
    BY <1>1 DEF Put, PointsOf
  <1>8. Sum(v, DOMAIN v) = c * Cardinality(DOMAIN v) + (-s) + s
    BY <1>1, <1>3, <1>6, <1>7, PointsAreAdded
  <1>9. Cardinality(DOMAIN v) \in Nat
    BY <1>1, SumPut, FS_CardinalityType
  <1>10. Sum(v, DOMAIN v) = c * Cardinality(DOMAIN v)
    BY <1>8, <1>9
  <1> QED BY <1>2, <1>10

\* A game adds its result to each of its teams' records.
LEMMA LettersAdd ==
    ASSUME NEW records, NEW gs, IsFiniteSet(gs), DOMAIN records = Teams(gs), Lettered(records, gs),
           NEW g, g \notin gs, g.home # g.away,
           NEW new, new = Put(Put(records, g.away, Append(Letters(records, g.away), LetterFor(g, g.away))),
                              g.home, Append(Letters(records, g.home), LetterFor(g, g.home)))
    PROVE  Lettered(new, gs \cup {g})
  <1>1. DOMAIN new = Teams(gs) \cup {g.home, g.away}
    BY DEF Put
  <1>2. \A t, l : /\ Cardinality(Ended(gs, t, l)) \in Nat
                  /\ Cardinality(Ended(gs \cup {g}, t, l))
                        = IF t \in {g.home, g.away} /\ LetterFor(g, t) = l
                          THEN Cardinality(Ended(gs, t, l)) + 1 ELSE Cardinality(Ended(gs, t, l))
    <2>1. \A t, l : IsFiniteSet(Ended(gs, t, l))
      BY OneGameMore
    <2>2. \A t, l : Cardinality(Ended(gs, t, l)) \in Nat
      BY <2>1, FS_CardinalityType
    <2>3. \A t, l : Cardinality(Ended(gs \cup {g}, t, l))
                       = IF t \in {g.home, g.away} /\ LetterFor(g, t) = l
                         THEN Cardinality(Ended(gs, t, l)) + 1 ELSE Cardinality(Ended(gs, t, l))
      BY OneGameMore
    <2> QED BY <2>2, <2>3
  <1>3. ASSUME NEW t \in {g.home, g.away}
        PROVE  /\ IsSeq(new[t])
               /\ \A l \in {"W", "L", "T"} :
                     Cardinality(OfLetter(new[t], l)) = Cardinality(Ended(gs \cup {g}, t, l))
    <2>1. PICK old, e : old = Letters(records, t) /\ e = LetterFor(g, t)
      OBVIOUS
    <2>2. new[t] = Append(old, e)
      BY <1>3, <2>1 DEF Put
    <2>3. IsSeq(old) /\ \A l \in {"W", "L", "T"} :
              Cardinality(OfLetter(old, l)) = Cardinality(Ended(gs, t, l))
      <3>1. CASE t \in Teams(gs)
        BY <2>1, <3>1 DEF Letters, Lettered
      <3>2. CASE t \notin Teams(gs)
        <4>1. old = <<>>
          BY <2>1, <3>2 DEF Letters
        <4>2. \A l : Ended(gs, t, l) = {}
          BY <3>2 DEF Ended, OwnGames, Teams
        <4>3. <<>> \in Seq({}) /\ \A l : OfLetter(<<>>, l) = {}
          BY DEF OfLetter
        <4>4. IsSeq(<<>>)
          BY <4>3 DEF IsSeq
        <4> QED BY <4>1, <4>2, <4>3, <4>4
      <3> QED BY <3>1, <3>2
    <2>4. IsSeq(new[t])
      BY <2>2, <2>3, AppendTo
    <2>5. ASSUME NEW l \in {"W", "L", "T"}
          PROVE  Cardinality(OfLetter(new[t], l)) = Cardinality(Ended(gs \cup {g}, t, l))
      <3>1. Cardinality(OfLetter(new[t], l)) = IF e = l THEN Cardinality(OfLetter(old, l)) + 1 ELSE Cardinality(OfLetter(old, l))
        BY <2>2, <2>3, AppendLetter
      <3> QED BY <1>2, <1>3, <2>1, <2>3, <3>1
    <2> QED BY <2>4, <2>5
  <1>4. ASSUME NEW t \in Teams(gs), t \notin {g.home, g.away}
        PROVE  /\ IsSeq(new[t])
               /\ \A l \in {"W", "L", "T"} :
                     Cardinality(OfLetter(new[t], l)) = Cardinality(Ended(gs \cup {g}, t, l))
    <2>1. new[t] = records[t]
      BY <1>4 DEF Put
    <2>2. \A l : Cardinality(Ended(gs \cup {g}, t, l)) = Cardinality(Ended(gs, t, l))
      BY <1>2, <1>4
    <2> QED BY <2>1, <2>2 DEF Lettered
  <1> QED BY <1>1, <1>3, <1>4 DEF Lettered

\* The step of the side h and the step of the side a, of one game.
TwoSides(x, y, h, a) ==
    /\ h # a /\ x.opponent = a /\ y.opponent = h
    /\ Mirrors(x, y, h) /\ Mirrors(y, x, a)
    /\ PaysNoWinner(x) /\ PaysNoWinner(y)
EnteringWith(steps, elo, t) == IF t \in DOMAIN steps THEN elo[t] ELSE ELO.initial

\* A step told from both sides keeps every ledger chained and told.
LEMMA LedgersGrow ==
    ASSUME NEW steps, NEW elo, LedgersTold(steps, elo), NEW h, NEW a, NEW x, NEW y,
           TwoSides(x, y, h, a), x.rating_before = EnteringWith(steps, elo, h),
           y.rating_before = EnteringWith(steps, elo, a),
           NEW new, new = Put(Put(steps, a, Append(Letters(steps, a), y)),
                              h, Append(Letters(steps, h), x)),
           NEW after, after[h] = x.rating_after, after[a] = y.rating_after,
           \A t \in DOMAIN steps : t \notin {h, a} => after[t] = elo[t]
    PROVE  LedgersTold(new, after)
  <1>1. /\ DOMAIN new = DOMAIN steps \cup {h, a}
        /\ new[h] = Append(Letters(steps, h), x) /\ new[a] = Append(Letters(steps, a), y)
        /\ \A t \in DOMAIN steps : t \notin {h, a} => new[t] = steps[t]
    BY DEF Put, TwoSides
  <1>2. \A t \in DOMAIN steps : IsSeq(steps[t]) /\ Chained(steps[t], elo[t])
    BY DEF LedgersTold
  <1>3. /\ IsSeq(new[h]) /\ Chained(new[h], after[h])
        /\ \E i \in DOMAIN new[h] : new[h][i] = x
        /\ \A i \in DOMAIN new[h] :
              \/ new[h][i] = x
              \/ h \in DOMAIN steps /\ i \in DOMAIN steps[h] /\ new[h][i] = steps[h][i]
        /\ h \in DOMAIN steps => \A i \in DOMAIN steps[h] : i \in DOMAIN new[h] /\ new[h][i] = steps[h][i]
    <2>1. PICK b : b = x.rating_before
      OBVIOUS
    <2>2. Continues(steps, h, b)
      BY <1>2, <2>1 DEF Continues, EnteringWith
    <2>3. Grown(steps, h, x, new[h])
      BY <1>1, <2>1, <2>2, ChainGoesOn
    <2> QED BY <2>3 DEF Grown
  <1>4. /\ IsSeq(new[a]) /\ Chained(new[a], after[a])
        /\ \E i \in DOMAIN new[a] : new[a][i] = y
        /\ \A i \in DOMAIN new[a] :
              \/ new[a][i] = y
              \/ a \in DOMAIN steps /\ i \in DOMAIN steps[a] /\ new[a][i] = steps[a][i]
        /\ a \in DOMAIN steps => \A i \in DOMAIN steps[a] : i \in DOMAIN new[a] /\ new[a][i] = steps[a][i]
    <2>1. PICK b : b = y.rating_before
      OBVIOUS
    <2>2. Continues(steps, a, b)
      BY <1>2, <2>1 DEF Continues, EnteringWith
    <2>3. Grown(steps, a, y, new[a])
      BY <1>1, <2>1, <2>2, ChainGoesOn
    <2> QED BY <2>3 DEF Grown
  <1>5. \A t \in DOMAIN steps : \A i \in DOMAIN steps[t] :
            i \in DOMAIN new[t] /\ new[t][i] = steps[t][i]
    BY <1>1, <1>3, <1>4
  <1>6. \A t \in DOMAIN new : \A i \in DOMAIN new[t] :
            \/ t = h /\ new[t][i] = x
            \/ t = a /\ new[t][i] = y
            \/ t \in DOMAIN steps /\ i \in DOMAIN steps[t] /\ new[t][i] = steps[t][i]
    <2>1. ASSUME NEW t \in DOMAIN new, NEW i \in DOMAIN new[t]
          PROVE  \/ t = h /\ new[t][i] = x
                 \/ t = a /\ new[t][i] = y
                 \/ t \in DOMAIN steps /\ i \in DOMAIN steps[t] /\ new[t][i] = steps[t][i]
      <3>1. CASE t = h
        BY <1>3, <3>1
      <3>2. CASE t = a
        BY <1>4, <3>2
      <3>3. CASE t \notin {h, a}
        BY <1>1, <3>3
      <3> QED BY <3>1, <3>2, <3>3
    <2> QED BY <2>1
  <1>7. StepTold(new, h, x) /\ StepTold(new, a, y)
    <2>1. PICK i \in DOMAIN new[h] : new[h][i] = x
      BY <1>3
    <2>2. PICK j \in DOMAIN new[a] : new[a][j] = y
      BY <1>4
    <2> QED BY <1>1, <2>1, <2>2 DEF StepTold, TwoSides
  <1>8. ASSUME NEW t \in DOMAIN steps, NEW i \in DOMAIN steps[t]
        PROVE  StepTold(new, t, steps[t][i])
    <2>1. PICK z : z = steps[t][i]
      OBVIOUS
    <2>2. StepTold(steps, t, z)
      BY <2>1 DEF LedgersTold
    <2>3. z.opponent \in DOMAIN steps /\ z.opponent \in DOMAIN new
      BY <1>1, <2>2 DEF StepTold
    <2>4. PICK j \in DOMAIN steps[z.opponent] : Mirrors(z, steps[z.opponent][j], t)
      BY <2>2 DEF StepTold
    <2>5. j \in DOMAIN new[z.opponent] /\ new[z.opponent][j] = steps[z.opponent][j]
      BY <1>5, <2>3
    <2>6. \E k \in DOMAIN new[z.opponent] : Mirrors(z, new[z.opponent][k], t)
      BY <2>4, <2>5
    <2>7. StepTold(new, t, z)
      BY <2>2, <2>3, <2>6 DEF StepTold
    <2> QED BY <2>1, <2>7
  <1>9. ASSUME NEW t \in DOMAIN new PROVE IsSeq(new[t]) /\ Chained(new[t], after[t])
    <2>1. CASE t \in {h, a}
      BY <1>3, <1>4, <2>1
    <2>2. CASE t \notin {h, a}
      BY <1>1, <1>2, <2>2
    <2> QED BY <2>1, <2>2
  <1>10. ASSUME NEW t \in DOMAIN new, NEW i \in DOMAIN new[t] PROVE StepTold(new, t, new[t][i])
    BY <1>6, <1>7, <1>8
  <1> QED BY <1>9, <1>10 DEF LedgersTold

\* A game told by both its teams.
LEMMA SeasonStepHolds ==
    ASSUME NEW walk, NEW gs, SeasonTold(walk, gs), IsFiniteSet(gs), NEW g, g \notin gs,
           g.hp \in Int, g.ap \in Int, g.home # g.away, NEW year,
           NEW new, new = EloStep(walk, g, <<>>, FALSE, year)
    PROVE  SeasonTold(new, gs \cup {g})
  <1>1. PICK h, a : h = g.home /\ a = g.away
    OBVIOUS
  <1>2. PICK home, away : home = Entered(walk, h, g.season, FALSE) /\ away = Entered(walk, a, g.season, FALSE)
    OBVIOUS
  <1>3. PICK update : update = GameUpdate(home, away, g)
    OBVIOUS
  <1>4. PICK x, y : x = EloGameStep(g, h, home, away, update) /\ y = EloGameStep(g, a, away, home, update)
    OBVIOUS
  <1>5. PICK T, s : T = Teams(gs) /\ s = update.shift
    OBVIOUS
  <1>6. /\ DOMAIN walk.elo = T /\ DOMAIN walk.participants = T
        /\ DOMAIN walk.records = T /\ DOMAIN walk.steps = T
        /\ \A t \in T : walk.elo[t] \in Int /\ walk.participants[t] = t
        /\ Lettered(walk.records, gs) /\ LedgersTold(walk.steps, walk.elo)
        /\ Sum(walk.elo, DOMAIN walk.elo) = ELO.initial * Cardinality(DOMAIN walk.elo)
        /\ Shape(walk) /\ walk.overlap = FALSE /\ h # a
    BY <1>1, <1>5 DEF SeasonTold
  <1>7. /\ home = IF h \in T THEN walk.elo[h] ELSE ELO.initial
        /\ away = IF a \in T THEN walk.elo[a] ELSE ELO.initial
    BY <1>2, <1>6 DEF Entered
  <1>8. ELO.initial \in Int /\ home \in Int /\ away \in Int
    BY <1>6, <1>7, EloAssumption
  <1>9. /\ s \in Int /\ x.opponent = a /\ y.opponent = h
        /\ Mirrors(x, y, h) /\ Mirrors(y, x, a)
        /\ x.rating_before = home /\ x.rating_after = home + s
        /\ y.rating_before = away /\ y.rating_after = away - s
        /\ PaysNoWinner(x) /\ PaysNoWinner(y)
    <2>1. s \in Int
      BY <1>3, <1>5, <1>8, UpdateFacts
    <2> QED BY <1>1, <1>3, <1>4, <1>5, <1>8, <2>1, SidesMirror
  <1>10. h = Root(<<>>, g.home) /\ a = Root(<<>>, g.away)
    BY <1>1, NoMoves
  <1>11. Counts(g, FALSE, year) /\ ~Overlapping(walk, g, h, a)
    BY <1>1, <1>6 DEF Counts, Overlapping, Clash, Put
  <1>12. /\ Shape(new) /\ new.overlap = FALSE
         /\ new.elo = Moved(walk.elo, h, a, home, away, s)
         /\ new.steps = Put(Put(walk.steps, g.away, StepOf(walk, g, g.away, away, home, update)),
                            g.home, StepOf(walk, g, g.home, home, away, update))
         /\ new.participants = Put(Put(walk.participants, h, g.home), a, g.away)
         /\ new.records = Put(Put(walk.records, g.away, LetterOf(walk, g.away, g.ap, g.hp)),
                              g.home, LetterOf(walk, g.home, g.hp, g.ap))
    <2>1. Shape(new) /\ Stepped(new, walk, g, h, a, home, away, update, FALSE, year)
      BY <1>2, <1>3, <1>6, <1>10, <1>11, StepFields
    <2> QED BY <1>5, <1>11, <2>1 DEF Stepped
  <1>13. /\ Teams(gs \cup {g}) = T \cup {h, a} /\ IsFiniteSet(T)
    BY <1>1, <1>5, OneGameMore
  <1>14. PICK p, q : p = away - s /\ q = home + s
    OBVIOUS
  <1>15. PICK u : u = Put(walk.elo, a, p)
    OBVIOUS
  <1>16. DOMAIN u = T \cup {a} /\ u[a] = p /\ \A t \in T : t # a => u[t] = walk.elo[t]
    BY <1>6, <1>15 DEF Put
  <1>17. new.elo = Put(u, h, q)
    <2>1. PICK e : e = Put(Put(walk.elo, a, away), h, home)
      OBVIOUS
    <2>2. /\ DOMAIN e = T \cup {h, a} /\ e[h] = home /\ e[a] = away
          /\ \A t \in T : t \notin {h, a} => e[t] = walk.elo[t]
          /\ e = [t \in T \cup {h, a} |-> e[t]]
      BY <1>6, <2>1 DEF Put
    <2>3. PICK e1 : e1 = [e EXCEPT ![h] = @ + s]
      OBVIOUS
    <2>4. e1 = [t \in T \cup {h, a} |-> IF t = h THEN q ELSE e[t]]
      BY <1>14, <2>2, <2>3
    <2>5. new.elo = [e1 EXCEPT ![a] = @ - s]
      BY <1>12, <2>1, <2>3 DEF Moved
    <2>6. new.elo = [t \in T \cup {h, a} |-> IF t = a THEN p ELSE e1[t]]
      BY <1>6, <1>14, <2>2, <2>4, <2>5
    <2>7. Put(u, h, q) = [t \in T \cup {h, a} |-> IF t = h THEN q ELSE u[t]]
      BY <1>16 DEF Put
    <2>8. \A t \in T \cup {h, a} : (IF t = a THEN p ELSE e1[t]) = (IF t = h THEN q ELSE u[t])
      <3>1. \A t \in T \cup {h, a} : e1[t] = IF t = h THEN q ELSE e[t]
        BY <2>4
      <3> QED BY <1>6, <1>16, <2>2, <3>1
    <2> QED BY <2>6, <2>7, <2>8
  <1>18. /\ DOMAIN new.elo = T \cup {h, a} /\ new.elo[h] = q /\ new.elo[a] = p
         /\ \A t \in T : t \notin {h, a} => new.elo[t] = walk.elo[t]
    BY <1>6, <1>16, <1>17 DEF Put
  <1>19. /\ \A t \in DOMAIN new.elo : new.elo[t] \in Int
         /\ Sum(new.elo, DOMAIN new.elo) = ELO.initial * Cardinality(DOMAIN new.elo)
    <2>1. PICK w, v, c : w = walk.elo /\ v = new.elo /\ c = ELO.initial
      OBVIOUS
    <2>2. IsFiniteSet(DOMAIN w) /\ c \in Int /\ p \in Int /\ q \in Int
      BY <1>6, <1>8, <1>9, <1>13, <1>14, <2>1
    <2>3. p = PointsOf(w, a, c) - s /\ q = PointsOf(w, h, c) + s
      BY <1>6, <1>7, <1>14, <2>1 DEF PointsOf
    <2>4. u = Put(w, a, p) /\ v = Put(u, h, q)
      BY <1>15, <1>17, <2>1
    <2>5. WholePoints(w, c)
      BY <1>6, <2>1 DEF WholePoints
    <2>6. WholePoints(v, c)
      BY <1>6, <1>9, <2>2, <2>3, <2>4, <2>5, PointsAreMoved
    <2> QED BY <2>1, <2>6 DEF WholePoints
  <1>20. /\ DOMAIN new.participants = T \cup {h, a} /\ DOMAIN new.records = T \cup {h, a}
         /\ DOMAIN new.steps = T \cup {h, a}
         /\ \A t \in T \cup {h, a} : new.participants[t] = t
    <2>1. /\ DOMAIN new.participants = T \cup {h, a}
          /\ \A t \in T \cup {h, a} : new.participants[t] = t
      <3>1. new.participants = Put(Put(walk.participants, h, h), a, a)
        BY <1>1, <1>12
      <3>2. PICK f : f = walk.participants
        OBVIOUS
      <3>3. DOMAIN f = T /\ (\A t \in T : f[t] = t) /\ new.participants = Put(Put(f, h, h), a, a)
        BY <1>6, <3>1, <3>2
      <3> QED BY <3>3 DEF Put
    <2>2. DOMAIN new.records = T \cup {h, a} /\ DOMAIN new.steps = T \cup {h, a}
      BY <1>1, <1>6, <1>12 DEF Put
    <2> QED BY <2>1, <2>2
  <1>21. Lettered(new.records, gs \cup {g})
    <2>1. LetterFor(g, g.away) = ResultLetter(g.ap, g.hp) /\ LetterFor(g, g.home) = ResultLetter(g.hp, g.ap)
      BY DEF LetterFor
    <2>2. new.records = Put(Put(walk.records, g.away, Append(Letters(walk.records, g.away), LetterFor(g, g.away))),
                            g.home, Append(Letters(walk.records, g.home), LetterFor(g, g.home)))
      BY <1>12, <2>1 DEF LetterOf
    <2> QED BY <1>5, <1>6, <2>2, LettersAdd
  <1>22. LedgersTold(new.steps, new.elo)
    <2>1. new.steps = Put(Put(walk.steps, a, Append(Letters(walk.steps, a), y)),
                          h, Append(Letters(walk.steps, h), x))
      BY <1>1, <1>4, <1>12 DEF StepOf
    <2>2. /\ x.rating_before = EnteringWith(walk.steps, walk.elo, h)
          /\ y.rating_before = EnteringWith(walk.steps, walk.elo, a)
      BY <1>6, <1>7, <1>9 DEF EnteringWith
    <2>3. /\ new.elo[h] = x.rating_after /\ new.elo[a] = y.rating_after
          /\ \A t \in DOMAIN walk.steps : t \notin {h, a} => new.elo[t] = walk.elo[t]
      BY <1>6, <1>7, <1>9, <1>14, <1>18
    <2>4. TwoSides(x, y, h, a)
      BY <1>6, <1>9, Zenon DEF TwoSides
    <2>5. PICK old, elo, led, after :
              old = walk.steps /\ elo = walk.elo /\ led = new.steps /\ after = new.elo
      OBVIOUS
    <2>6. LedgersTold(led, after)
      <3>1. LedgersTold(old, elo)
        BY <1>6, <2>5
      <3>2. x.rating_before = EnteringWith(old, elo, h) /\ y.rating_before = EnteringWith(old, elo, a)
        BY <2>2, <2>5
      <3>3. led = Put(Put(old, a, Append(Letters(old, a), y)), h, Append(Letters(old, h), x))
        BY <2>1, <2>5
      <3>4. /\ after[h] = x.rating_after /\ after[a] = y.rating_after
            /\ \A t \in DOMAIN old : t \notin {h, a} => after[t] = elo[t]
        BY <2>3, <2>5
      <3> QED BY <2>4, <3>1, <3>2, <3>3, <3>4, LedgersGrow
    <2> QED BY <2>5, <2>6
  <1> QED BY <1>12, <1>13, <1>18, <1>19, <1>20, <1>21, <1>22 DEF SeasonTold

\* Before its first game a season has no team.
LEMMA SeasonStarts == SeasonTold(NoGames, {})
  <1>1. /\ NoGames.elo = <<>> /\ NoGames.participants = <<>> /\ NoGames.records = <<>>
        /\ NoGames.steps = <<>> /\ NoGames.overlap = FALSE /\ Shape(NoGames)
    BY DEF NoGames, Shape
  <1>2. DOMAIN <<>> = {} /\ Teams({}) = {}
    BY DEF Teams
  <1>3. Lettered(<<>>, {}) /\ LedgersTold(<<>>, <<>>)
    BY <1>2 DEF Lettered, LedgersTold
  <1>4. Sum(<<>>, {}) = 0
    <2>1. IsFiniteSet({}) /\ \A x \in {} : <<>>[x] \in Int
      BY FS_EmptySet
    <2> QED BY <2>1, TotalFacts
  <1>5. ELO.initial * Cardinality({}) = 0
    BY FS_EmptySet, EloAssumption
  <1> QED BY <1>1, <1>2, <1>3, <1>4, <1>5 DEF SeasonTold

SeasonHolds(S) ==
    /\ IsFiniteSet(S)
    /\ \A g \in S : g.hp \in Int /\ g.ap \in Int /\ g.home # g.away

\* A season walked game by game, each game once, by least counterexample.
LEMMA SeasonIsWalked ==
    ASSUME NEW S, SeasonHolds(S), NEW n \in Nat, NEW f, DOMAIN f = 1 .. n,
           \A i \in 1 .. n : f[i] \in S, \A x \in S : \E i \in 1 .. n : f[i] = x,
           \A i, j \in 1 .. n : i < j => f[i] # f[j],
           NEW year, NEW w, Walks(w, f, n, <<>>, FALSE, year)
    PROVE  SeasonTold(w[n], S)
  <1> DEFINE Walked(i) == {f[j] : j \in 1 .. i}
             Bad == {i \in 0 .. n : ~SeasonTold(w[i], Walked(i))}
  <1>1. SeasonTold(w[0], Walked(0))
    <2>1. Walked(0) = {} /\ w[0] = NoGames
      BY DEF Walks
    <2> QED BY <2>1, SeasonStarts
  <1>2. ASSUME NEW i \in 1 .. n, SeasonTold(w[i - 1], Walked(i - 1))
        PROVE  SeasonTold(w[i], Walked(i))
    <2>1. w[i] = EloStep(w[i - 1], f[i], <<>>, FALSE, year)
      BY DEF Walks
    <2>2. /\ i \in 1 .. i /\ i - 1 \in Nat
          /\ \A j : j \in 1 .. i <=> j \in 1 .. (i - 1) \/ j = i
      OBVIOUS
    <2>3. Walked(i) = Walked(i - 1) \cup {f[i]}
      BY <2>2
    <2>4. \A j \in 1 .. (i - 1) : j \in 1 .. n /\ j < i
      OBVIOUS
    <2>5. f[i] \notin Walked(i - 1)
      BY <2>4
    <2>6. Walked(i - 1) \subseteq S
      BY <2>4
    <2>7. PICK g, gs : g = f[i] /\ gs = Walked(i - 1)
      OBVIOUS
    <2> HIDE DEF Walked
    <2>8. g \in S /\ g \notin gs /\ gs \subseteq S
      BY <2>5, <2>6, <2>7
    <2>9. IsFiniteSet(gs) /\ g.hp \in Int /\ g.ap \in Int /\ g.home # g.away
      BY <2>8, FS_Subset DEF SeasonHolds
    <2>10. SeasonTold(w[i - 1], gs) /\ w[i] = EloStep(w[i - 1], g, <<>>, FALSE, year)
      BY <1>2, <2>1, <2>7
    <2>11. SeasonTold(w[i], gs \cup {g})
      BY <2>8, <2>9, <2>10, SeasonStepHolds
    <2> QED BY <2>3, <2>7, <2>11
  <1>3. Bad = {}
    <2>1. SUFFICES ASSUME Bad # {} PROVE FALSE
      OBVIOUS
    <2> HIDE DEF Walked
    <2>2. PICK k \in Bad : \A m \in Bad : k <= m
      <3>1. Bad \subseteq Nat
        OBVIOUS
      <3> HIDE DEF Bad
      <3> QED BY <2>1, <3>1, LeastOf
    <2>3. k \in 0 .. n /\ ~SeasonTold(w[k], Walked(k)) /\ k # 0
      BY <1>1, <2>2
    <2>4. k \in 1 .. n /\ k - 1 \in 0 .. n /\ k - 1 \notin Bad
      BY <2>2, <2>3
    <2> QED BY <1>2, <2>3, <2>4
  <1>4. SeasonTold(w[n], Walked(n))
    <2>1. n \in 0 .. n
      OBVIOUS
    <2> HIDE DEF Walked
    <2> QED BY <1>3, <2>1
  <1>5. Walked(n) = S
    OBVIOUS
  <1> QED BY <1>4, <1>5

\* A team's results by letter are its games by who scored more.
LEMMA EndedIsGained ==
    ASSUME NEW S, SeasonHolds(S), NEW t
    PROVE  /\ Ended(S, t, "W") = {g \in OwnGames(S, t) : GainedBy(g, t) > 0}
           /\ Ended(S, t, "L") = {g \in OwnGames(S, t) : GainedBy(g, t) < 0}
           /\ Ended(S, t, "T") = {g \in OwnGames(S, t) : GainedBy(g, t) = 0}
  <1>1. ASSUME NEW g \in S
        PROVE  /\ LetterFor(g, t) = "W" <=> GainedBy(g, t) > 0
               /\ LetterFor(g, t) = "L" <=> GainedBy(g, t) < 0
               /\ LetterFor(g, t) = "T" <=> GainedBy(g, t) = 0
    <2>1. g.hp \in Int /\ g.ap \in Int
      BY DEF SeasonHolds
    <2> QED BY <2>1 DEF LetterFor, GainedBy, ResultLetter
  <1>2. OwnGames(S, t) \subseteq S
    BY DEF OwnGames
  <1> QED BY <1>1, <1>2 DEF Ended

\* What the ranking makes of a season that was walked.
LEMMA SeasonIsPlaced ==
    ASSUME NEW S, SeasonHolds(S), NEW walk, SeasonTold(walk, S)
    PROVE  SeasonIsTold(Outcome(walk), S)
  <1>1. PICK T, elo, steps : T = Teams(S) /\ elo = walk.elo /\ steps = walk.steps
    OBVIOUS
  <1>2. /\ walk.overlap = FALSE /\ DOMAIN elo = T /\ DOMAIN walk.participants = T
        /\ DOMAIN walk.records = T /\ DOMAIN steps = T
        /\ \A t \in T : elo[t] \in Int /\ walk.participants[t] = t
        /\ Lettered(walk.records, S) /\ LedgersTold(steps, elo)
        /\ Sum(elo, T) = ELO.initial * Cardinality(T)
    BY <1>1 DEF SeasonTold
  <1>3. PICK ratings : ratings = Placed(walk)
    OBVIOUS
  <1>4. Outcome(walk).refused = FALSE /\ Outcome(walk).ratings = ratings
    BY <1>2, <1>3 DEF Outcome
  <1>5. \A t \in T : (CHOOSE r \in DOMAIN walk.participants : walk.participants[r] = t) = t
    BY <1>2
  <1>6. /\ DOMAIN ratings = T
        /\ \A t \in T :
              /\ ratings[t].rating = walk.elo[CHOOSE r \in DOMAIN walk.participants :
                                                 walk.participants[r] = t]
              /\ ratings[t].elo_ledger = Letters(walk.steps, t)
              /\ ratings[t].wins = Cardinality(OfLetter(walk.records[t], "W"))
              /\ ratings[t].losses = Cardinality(OfLetter(walk.records[t], "L"))
              /\ ratings[t].ties = Cardinality(OfLetter(walk.records[t], "T"))
    BY <1>2, <1>3 DEF Placed, OfLetter
  <1>7. \A t \in T : ratings[t].rating = elo[t] /\ ratings[t].elo_ledger = steps[t]
    <2>1. ASSUME NEW t \in T PROVE ratings[t].rating = elo[t] /\ ratings[t].elo_ledger = steps[t]
      <3>1. ratings[t].rating = walk.elo[t] /\ ratings[t].elo_ledger = Letters(walk.steps, t)
        BY <1>5, <1>6
      <3> QED BY <1>1, <1>2, <3>1 DEF Letters
    <2> QED BY <2>1
  <1>8. RecordsRecount(ratings, S)
    <2>1. ASSUME NEW t \in T
          PROVE  LET own == OwnGames(S, t) IN
                 /\ ratings[t].wins = Cardinality({g \in own : GainedBy(g, t) > 0})
                 /\ ratings[t].losses = Cardinality({g \in own : GainedBy(g, t) < 0})
                 /\ ratings[t].ties = Cardinality({g \in own : GainedBy(g, t) = 0})
      <3>1. /\ ratings[t].wins = Cardinality(Ended(S, t, "W"))
            /\ ratings[t].losses = Cardinality(Ended(S, t, "L"))
            /\ ratings[t].ties = Cardinality(Ended(S, t, "T"))
        BY <1>2, <1>6 DEF Lettered
      <3> QED BY <3>1, EndedIsGained
    <2> QED BY <1>1, <1>6, <2>1 DEF RecordsRecount
  <1>9. ASSUME NEW t \in T PROVE LedgerIsWhole(ratings, t)
    <2>1. PICK s : s = steps[t]
      OBVIOUS
    <2>2. /\ Chained(s, elo[t]) /\ IsSeq(s)
          /\ \A i \in DOMAIN s : StepTold(steps, t, s[i])
      BY <1>2, <2>1 DEF LedgersTold
    <2>3. ratings[t].elo_ledger = s /\ ratings[t].rating = elo[t]
      BY <1>7, <2>1
    <2>4. ASSUME NEW i \in DOMAIN s
          PROVE  /\ \E j \in DOMAIN ratings[s[i].opponent].elo_ledger :
                        Mirrors(s[i], ratings[s[i].opponent].elo_ledger[j], t)
                 /\ PaysNoWinner(s[i])
      <3>1. PICK x : x = s[i]
        OBVIOUS
      <3>2. StepTold(steps, t, x)
        BY <2>2, <3>1
      <3>3. x.opponent \in T
        BY <1>2, <3>2 DEF StepTold
      <3>4. ratings[x.opponent].elo_ledger = steps[x.opponent]
        BY <1>7, <3>3
      <3>5. \E j \in DOMAIN steps[x.opponent] : Mirrors(x, steps[x.opponent][j], t)
        BY <3>2 DEF StepTold
      <3>6. PaysNoWinner(x)
        BY <3>2 DEF StepTold
      <3> QED BY <3>1, <3>4, <3>5, <3>6
    <2> QED BY <2>2, <2>3, <2>4 DEF LedgerIsWhole, Chained, PaysNoWinner
  <1>10. Sum([t \in DOMAIN ratings |-> ratings[t].rating], DOMAIN ratings)
            = ELO.initial * Cardinality(DOMAIN ratings)
    <2>1. PICK v : v = [t \in T |-> ratings[t].rating]
      OBVIOUS
    <2>2. \A t \in T : v[t] = elo[t]
      BY <1>7, <2>1
    <2>3. IsFiniteSet(T)
      <3>1. PICK home, away : home = [x \in S |-> x.home] /\ away = [x \in S |-> x.away]
        OBVIOUS
      <3>2. IsFiniteSet({home[x] : x \in S}) /\ IsFiniteSet({away[x] : x \in S})
        BY ImageIsFinite DEF SeasonHolds
      <3>3. T = {home[x] : x \in S} \cup {away[x] : x \in S}
        BY <1>1, <3>1 DEF Teams
      <3> QED BY <3>2, <3>3, FS_Union
    <2>4. Sum(v, T) = Sum(elo, T)
      BY <2>2, <2>3, SumSame
    <2> QED BY <1>2, <1>6, <2>1, <2>4
  <1> QED BY <1>4, <1>6, <1>8, <1>9, <1>10 DEF SeasonIsTold

\* A season's ratings, whatever else is in the tables.
LEMMA SeasonIsRated ==
    ASSUME NEW gs, GamesHold(gs), NEW year
    PROVE  SeasonIsTold(EloRating(gs, year), SeasonGames(gs, year))
  <1>1. PICK S : S = GamesOf(gs, year, FALSE)
    OBVIOUS
  <1>2. S = SeasonGames(gs, year)
    BY <1>1 DEF GamesOf, SeasonGames
  <1>3. SeasonHolds(S)
    <2>1. S \subseteq gs /\ \A g \in S : g.hp \in Int /\ g.ap \in Int
      BY <1>2 DEF SeasonGames, Loadable
    <2> QED BY <2>1, FS_Subset DEF SeasonHolds, GamesHold, Dated
  <1>4. PICK f : f = LoadGames(gs, year, FALSE)
    OBVIOUS
  <1>5. Lists(f, S, GameOrder(S))
    BY <1>1, <1>4, LoadedInOrder DEF GamesHold
  <1>6. PICK n : n = Cardinality(S)
    OBVIOUS
  <1>7. /\ n \in Nat /\ DOMAIN f = 1 .. n
        /\ \A i \in 1 .. n : f[i] \in S
        /\ \A x \in S : \E i \in 1 .. n : f[i] = x
        /\ \A i, j \in 1 .. n : i < j => f[i] # f[j]
    BY <1>3, <1>5, <1>6, FS_CardinalityType DEF Lists, SeasonHolds
  <1>8. PICK w : Walks(w, f, n, <<>>, FALSE, year) /\ EloWalk(f, <<>>, FALSE, year) = w[n]
    <2>1. n \in Nat /\ DOMAIN f = 1 .. n
      BY <1>7
    <2>2. Stepwise(f, n, <<>>, FALSE, year)
      BY <2>1, WalkIsItsSteps
    <2> QED BY <2>2 DEF Stepwise
  <1>9. SeasonTold(w[n], S)
    BY <1>3, <1>7, <1>8, SeasonIsWalked
  <1>10. EloRating(gs, year) = Outcome(w[n])
    BY <1>4, <1>8 DEF EloRating
  <1> QED BY <1>2, <1>3, <1>9, <1>10, SeasonIsPlaced

\* The ledgers of a season tell one story, for any games, teams, builds and Elo
\* configuration.
THEOREM LedgersSafe == QbSpec => []LedgersTellOneStory
  <1>1. TablesInv => LedgersTellOneStory
    <2>1. TablesInv => GamesHold(db.games)
      BY DEF TablesInv, TablesHold, GamesHold, Dated
    <2> QED BY <2>1, SeasonIsRated DEF LedgersTellOneStory
  <1> QED BY <1>1, DataHolds, PTL

-----------------------------------------------------------------------------
(* A board's order, and the ranks along it *)

\* Fractions with positive denominators, compared crosswise.
LEMMA FractionsCompare ==
    ASSUME NEW a \in Int, NEW b \in Int, NEW c \in Int, NEW d \in Int, NEW e \in Int, NEW f \in Int,
           b > 0, d > 0, f > 0, a * d <= c * b, c * f <= e * d
    PROVE  a * f <= e * b
  <1>1. \A x, y, z \in Int : z > 0 /\ x <= y => x * z <= y * z
    OBVIOUS
  <1>2. /\ a * d \in Int /\ c * b \in Int /\ c * f \in Int /\ e * d \in Int
        /\ a * f \in Int /\ e * b \in Int
    OBVIOUS
  <1>3. (a * d) * f <= (c * b) * f
    BY <1>1, <1>2
  <1>4. (c * f) * b <= (e * d) * b
    BY <1>1, <1>2
  <1>5. (c * b) * f = (c * f) * b
    OBVIOUS
  <1>6. (a * d) * f = (a * f) * d /\ (e * d) * b = (e * b) * d
    OBVIOUS
  <1>7. (a * f) * d <= (e * b) * d
    <2>1. (a * d) * f \in Int /\ (c * b) * f \in Int /\ (e * d) * b \in Int
      BY <1>2
    <2> QED BY <1>3, <1>4, <1>5, <1>6, <2>1
  <1>8. \A x, y, z \in Int : z > 0 /\ x > y => x * z > y * z
    OBVIOUS
  <1>9. \A x, y \in Int : x * d <= y * d => x <= y
    <2>1. SUFFICES ASSUME NEW x \in Int, NEW y \in Int, x * d <= y * d, x > y PROVE FALSE
      OBVIOUS
    <2>2. x * d > y * d
      BY <1>8, <2>1
    <2>3. x * d \in Int /\ y * d \in Int
      OBVIOUS
    <2> QED BY <2>1, <2>2, <2>3
  <1> QED BY <1>2, <1>7, <1>9

Sortable(v) == v = None \/ (v[1] \in Int /\ v[2] \in Int /\ v[2] > 0)

\* A value that is above none of a second, which is above none of a third, is
\* above none of the third.
LEMMA AboveIsWeakOrder ==
    ASSUME NEW u, NEW v, NEW w, Sortable(u), Sortable(v), Sortable(w)
    PROVE  /\ Above(u, v) => ~Above(v, u)
           /\ ~Above(u, v) /\ ~Above(v, w) => ~Above(u, w)
  <1>1. Above(u, v) => ~Above(v, u)
    <2>1. CASE u = None \/ v = None
      BY <2>1 DEF Above
    <2>2. CASE u # None /\ v # None
      <3>1. PICK a, b, c, d : a = u[1] /\ b = u[2] /\ c = v[1] /\ d = v[2]
        OBVIOUS
      <3>2. a * d \in Int /\ c * b \in Int
        BY <2>2, <3>1 DEF Sortable
      <3>3. /\ Above(u, v) => a * d > c * b
            /\ Above(v, u) => c * b > a * d
        BY <2>2, <3>1 DEF Above
      <3> QED BY <3>2, <3>3
    <2> QED BY <2>1, <2>2
  <1>2. ASSUME ~Above(u, v), ~Above(v, w) PROVE ~Above(u, w)
    <2>1. CASE u = None
      BY <2>1 DEF Above
    <2>2. CASE u # None
      <3>1. v # None
        BY <1>2, <2>2 DEF Above
      <3>2. w # None
        BY <1>2, <3>1 DEF Above
      <3>3. PICK a, b, c, d, e, f : /\ a = u[1] /\ b = u[2] /\ c = v[1] /\ d = v[2]
                                    /\ e = w[1] /\ f = w[2]
        OBVIOUS
      <3>4. /\ a \in Int /\ b \in Int /\ c \in Int /\ d \in Int /\ e \in Int /\ f \in Int
            /\ b > 0 /\ d > 0 /\ f > 0
        BY <2>2, <3>1, <3>2, <3>3 DEF Sortable
      <3>5. ~(a * d > c * b) /\ ~(c * f > e * d)
        BY <1>2, <2>2, <3>1, <3>2, <3>3 DEF Above
      <3>6. a * d \in Int /\ c * b \in Int /\ c * f \in Int /\ e * d \in Int /\ a * f \in Int /\ e * b \in Int
        BY <3>4
      <3>7. a * f <= e * b
        <4>1. a * d <= c * b /\ c * f <= e * d
          BY <3>5, <3>6
        <4> QED BY <3>4, <4>1, FractionsCompare
      <3>8. ~(a * f > e * b)
        BY <3>6, <3>7
      <3> QED BY <2>2, <3>2, <3>3, <3>8 DEF Above
    <2> QED BY <2>1, <2>2
  <1> QED BY <1>1, <1>2

\* A board's order: the value, then the name.
StandsBefore(value, p, q) ==
    \/ Above(value[p], value[q])
    \/ ~Above(value[q], value[p]) /\ p < q
BoardOrder(value) == {pair \in (DOMAIN value) \X (DOMAIN value) : StandsBefore(value, pair[1], pair[2])}
BoardHolds(value) ==
    /\ IsFiniteSet(DOMAIN value)
    /\ \A p \in DOMAIN value : p \in Int /\ Sortable(value[p])

LEMMA PairIsOrdered ==
    ASSUME NEW value, NEW p \in DOMAIN value, NEW q \in DOMAIN value
    PROVE  <<p, q>> \in BoardOrder(value) <=> StandsBefore(value, p, q)
  <1>1. PICK D : D = DOMAIN value
    OBVIOUS
  <1>2. <<p, q>>[1] = p /\ <<p, q>>[2] = q
    OBVIOUS
  <1>3. <<p, q>> \in D \X D
    BY <1>1
  <1>4. BoardOrder(value) = {pair \in D \X D : StandsBefore(value, pair[1], pair[2])}
    BY <1>1 DEF BoardOrder
  <1>5. <<p, q>> \in BoardOrder(value) <=> StandsBefore(value, <<p, q>>[1], <<p, q>>[2])
    BY <1>3, <1>4, Zenon
  <1> QED BY <1>2, <1>5, Zenon

LEMMA BoardOrderIsAnOrder ==
    ASSUME NEW value, BoardHolds(value)
    PROVE  IsOrderOf(DOMAIN value, BoardOrder(value))
  <1>1. PICK D : D = DOMAIN value
    OBVIOUS
  <1>2. /\ \A p, q \in D : Above(value[p], value[q]) => ~Above(value[q], value[p])
        /\ \A p, q, r \in D : ~Above(value[p], value[q]) /\ ~Above(value[q], value[r])
                                 => ~Above(value[p], value[r])
    BY <1>1, AboveIsWeakOrder DEF BoardHolds
  <1>3. \A p, q \in D : <<p, q>> \in BoardOrder(value) <=> StandsBefore(value, p, q)
    BY <1>1, PairIsOrdered
  <1>4. \A p \in D : p \in Int
    BY <1>1 DEF BoardHolds
  <1>5. \A p \in D : ~StandsBefore(value, p, p)
    BY <1>2, <1>4 DEF StandsBefore
  <1>6. ASSUME NEW p \in D, NEW q \in D, NEW r \in D,
               StandsBefore(value, p, q), StandsBefore(value, q, r)
        PROVE  StandsBefore(value, p, r)
    <2>1. ~Above(value[q], value[p]) /\ ~Above(value[r], value[q])
      BY <1>2, <1>6 DEF StandsBefore
    <2>2. ~Above(value[r], value[p])
      BY <1>2, <2>1
    <2>3. Above(value[p], value[q]) \/ Above(value[q], value[r]) => Above(value[p], value[r])
      BY <1>2, <2>1
    <2>4. p < q /\ q < r => p < r
      BY <1>4
    <2> QED BY <1>6, <2>2, <2>3, <2>4 DEF StandsBefore
  <1>7. \A p, q \in D : p # q => StandsBefore(value, p, q) \/ StandsBefore(value, q, p)
    BY <1>2, <1>4 DEF StandsBefore
  <1> QED BY <1>1, <1>3, <1>5, <1>6, <1>7 DEF IsOrderOf

LEMMA BoardIsListed ==
    ASSUME NEW value, BoardHolds(value)
    PROVE  Lists(InOrder(value), DOMAIN value, BoardOrder(value))
  <1>1. PICK D, R, f : D = DOMAIN value /\ R = BoardOrder(value) /\ f = InOrder(value)
    OBVIOUS
  <1>2. IsFiniteSet(D) /\ IsOrderOf(D, R)
    BY <1>1, BoardOrderIsAnOrder DEF BoardHolds
  <1>3. \A p \in D : Preceding(D, R, p) = {q \in D : StandsBefore(value, q, p)}
    BY <1>1, PairIsOrdered DEF Preceding
  <1> DEFINE Here(i) == CHOOSE p \in D : 1 + Cardinality({q \in D : StandsBefore(value, q, p)}) = i
             There(i) == CHOOSE p \in D : 1 + Cardinality(Preceding(D, R, p)) = i
  <1>4. f = [i \in 1 .. Cardinality(D) |-> Here(i)]
    BY <1>1 DEF InOrder, StandsBefore
  <1>5. \A i : Here(i) = There(i)
    <2>1. \A i : \A p : p \in D /\ 1 + Cardinality({q \in D : StandsBefore(value, q, p)}) = i
                   <=> p \in D /\ 1 + Cardinality(Preceding(D, R, p)) = i
      BY <1>3
    <2> QED BY <2>1, Zenon
  <1>6. f = [i \in 1 .. Cardinality(D) |-> There(i)]
    <2> HIDE DEF Here, There
    <2> QED BY <1>4, <1>5
  <1>7. Lists(f, D, R)
    BY <1>2, <1>6, PlacesList
  <1> QED BY <1>1, <1>7

\* A rank is at most the place, and is the place or the rank before it.
LEMMA RanksFollow ==
    ASSUME NEW value, BoardHolds(value), NEW f, f = InOrder(value),
           NEW k \in DOMAIN f, RankOn(value, f[k]) # None
    PROVE  /\ RankOn(value, f[k]) <= k
           /\ k > 1 => RankOn(value, f[k]) \in {k, RankOn(value, f[k - 1])}
  <1>1. PICK D, R : D = DOMAIN value /\ R = BoardOrder(value)
    OBVIOUS
  <1>2. Lists(f, D, R) /\ IsOrderOf(D, R) /\ IsFiniteSet(D)
    BY <1>1, BoardIsListed, BoardOrderIsAnOrder DEF BoardHolds
  <1>3. /\ DOMAIN f = 1 .. Cardinality(D) /\ Cardinality(D) \in Nat
        /\ \A i \in DOMAIN f : f[i] \in D
        /\ Cardinality(Preceding(D, R, f[k])) = k - 1
    BY <1>2, FS_CardinalityType DEF Lists
  <1>4. PICK cur : cur = f[k] /\ cur \in D
    BY <1>3
  <1>5. \A p, q \in D : <<p, q>> \in R <=> StandsBefore(value, p, q)
    BY <1>1, PairIsOrdered
  <1>6. /\ \A p, q \in D : Above(value[p], value[q]) => ~Above(value[q], value[p])
        /\ \A p, q, r \in D : ~Above(value[p], value[q]) /\ ~Above(value[q], value[r])
                                 => ~Above(value[p], value[r])
    BY <1>1, AboveIsWeakOrder DEF BoardHolds
  <1> DEFINE A(p) == {q \in D : Above(value[q], value[p])}
  <1>7. value[cur] # None /\ RankOn(value, cur) = 1 + Cardinality(A(cur))
    BY <1>1, <1>4 DEF RankOn
  <1>8. A(cur) \in SUBSET Preceding(D, R, cur) /\ Preceding(D, R, cur) \in SUBSET D
    BY <1>4, <1>5 DEF StandsBefore, Preceding
  <1>9. IsFiniteSet(Preceding(D, R, cur)) /\ IsFiniteSet(A(cur)) /\ Cardinality(A(cur)) \in Nat
    BY <1>2, <1>8, FS_Subset, FS_CardinalityType
  <1>10. Cardinality(A(cur)) <= k - 1
    BY <1>3, <1>4, <1>8, <1>9, FS_Subset
  <1>11. k \in Nat /\ k >= 1
    BY <1>3
  <1>12. ASSUME k > 1 PROVE RankOn(value, cur) \in {k, RankOn(value, f[k - 1])}
    <2>1. k - 1 \in DOMAIN f /\ k - 1 < k
      BY <1>3, <1>12
    <2>2. PICK prev : prev = f[k - 1] /\ prev \in D
      BY <1>3, <2>1
    <2>3. StandsBefore(value, prev, cur)
      BY <1>2, <1>4, <1>5, <2>1, <2>2 DEF Lists
    <2>4. CASE Above(value[prev], value[cur])
      <3>1. ASSUME NEW q \in Preceding(D, R, cur) PROVE q \in A(cur)
        <4>1. q \in D /\ <<q, cur>> \in R
          BY DEF Preceding
        <4>2. PICK j \in DOMAIN f : f[j] = q
          BY <1>2, <4>1 DEF Lists
        <4>3. ~(j > k) /\ j # k
          BY <1>2, <1>4, <4>1, <4>2 DEF Lists, IsOrderOf
        <4>4. CASE j = k - 1
          BY <2>2, <2>4, <4>1, <4>2, <4>4
        <4>5. CASE j < k - 1
          <5>1. StandsBefore(value, q, prev)
            BY <1>2, <1>5, <2>1, <2>2, <4>1, <4>2, <4>5 DEF Lists
          <5>2. ~Above(value[prev], value[q])
            BY <1>6, <2>2, <4>1, <5>1 DEF StandsBefore
          <5> QED BY <1>4, <1>6, <2>2, <2>4, <4>1, <5>2
        <4> QED BY <1>3, <4>3, <4>4, <4>5
      <3>2. A(cur) = Preceding(D, R, cur)
        BY <1>8, <3>1
      <3>3. Cardinality(A(cur)) = k - 1
        BY <1>3, <1>4, <3>2
      <3> HIDE DEF A
      <3> QED BY <1>7, <1>11, <3>3
    <2>5. CASE ~Above(value[prev], value[cur])
      <3>1. ~Above(value[cur], value[prev])
        BY <2>3, <2>5 DEF StandsBefore
      <3>2. A(prev) = A(cur)
        BY <1>4, <1>6, <2>2, <2>5, <3>1
      <3>3. value[prev] # None
        BY <1>7, <3>1 DEF Above
      <3>4. RankOn(value, prev) = 1 + Cardinality(A(prev))
        BY <1>1, <3>3 DEF RankOn
      <3> HIDE DEF A
      <3> QED BY <1>7, <2>2, <3>2, <3>4
    <2> QED BY <2>4, <2>5
  <1> HIDE DEF A
  <1> QED BY <1>4, <1>7, <1>9, <1>10, <1>11, <1>12

-----------------------------------------------------------------------------
(* The pages of a board *)

\* What a page holds: the rows at its places, and the length of the board.
PageHolds(page, board, n, limit, o) ==
    /\ page.total = n
    /\ DOMAIN page.rows = {i \in 1 .. limit : o + i <= n}
    /\ \A i \in 1 .. limit : o + i <= n => page.rows[i] = board[o + i]
LEMMA PageFacts ==
    ASSUME NEW S, NEW board \in Seq(S), NEW n \in Nat, Len(board) = n,
           NEW limit \in Nat \ {0}, NEW o \in Nat,
           NEW page, page = PageOf(board, n, limit, o)
    PROVE  PageHolds(page, board, n, limit, o)
  <1>1. PICK m : m = Min({o + limit, n})
    OBVIOUS
  <1>2. m \in {o + limit, n} /\ m <= o + limit /\ m <= n
    <2>1. {o + limit, n} \subseteq Nat /\ {o + limit, n} # {}
      OBVIOUS
    <2> QED BY <1>1, <2>1, MinOfNaturals
  <1>3. page = [rows |-> SubSeq(board, o + 1, m),
                total |-> IF SubSeq(board, o + 1, m) # <<>> THEN n ELSE n]
    BY <1>1 DEF PageOf
  <1>4. page.total = n /\ page.rows = SubSeq(board, o + 1, m)
    <2>1. PICK rows : rows = SubSeq(board, o + 1, m)
      OBVIOUS
    <2>2. page = [rows |-> rows, total |-> n]
      BY <1>3, <2>1
    <2>3. page.total = n
      BY <2>2
    <2>4. page.rows = rows
      BY <2>2
    <2> QED BY <2>1, <2>3, <2>4
  <1>5. DOMAIN SubSeq(board, o + 1, m) = {i \in 1 .. limit : o + i <= n}
    BY <1>2
  <1>6. \A i \in 1 .. limit : o + i <= n => SubSeq(board, o + 1, m)[i] = board[o + i]
    BY <1>2
  <1> QED BY <1>4, <1>5, <1>6 DEF PageHolds

\* The page and the row of a place.
LEMMA PlaceOnAPage ==
    ASSUME NEW k \in Nat, k >= 1, NEW limit \in Nat \ {0}
    PROVE  /\ (k - 1) \div limit \in Nat /\ (k - 1) \div limit <= k - 1
           /\ 1 + ((k - 1) % limit) \in 1 .. limit
           /\ limit * ((k - 1) \div limit) \in Nat
           /\ limit * ((k - 1) \div limit) + (1 + ((k - 1) % limit)) = k
  <1>1. PICK a \in Nat : a = k - 1
    OBVIOUS
  <1>2. /\ a \div limit \in Nat /\ a % limit \in 0 .. (limit - 1)
        /\ a = limit * (a \div limit) + (a % limit)
    OBVIOUS
  <1>3. PICK q, r \in Nat : q = a \div limit /\ r = a % limit
    BY <1>2
  <1>4. limit * q \in Nat /\ q <= limit * q
    OBVIOUS
  <1> QED BY <1>1, <1>2, <1>3, <1>4

\* A ranked board: its rows are the players in their order, with their ranks.
LEMMA RankedFacts ==
    ASSUME NEW value, BoardHolds(value)
    PROVE  LET board == Ranked(value) order == InOrder(value) n == Cardinality(DOMAIN value) IN
           /\ n \in Nat /\ DOMAIN order = 1 .. n /\ DOMAIN board = 1 .. n /\ Len(board) = n
           /\ \E S : board \in Seq(S)
           /\ \A k \in 1 .. n : board[k] = [player |-> order[k], rank |-> RankOn(value, order[k])]
  <1>1. PICK order : order = InOrder(value)
    OBVIOUS
  <1>2. PICK n : n = Cardinality(DOMAIN value)
    OBVIOUS
  <1>3. n \in Nat /\ DOMAIN order = 1 .. n
    BY <1>1, <1>2, BoardIsListed, FS_CardinalityType DEF Lists, BoardHolds
  <1>4. PICK row : row = [k \in 1 .. n |-> [player |-> order[k], rank |-> RankOn(value, order[k])]]
    OBVIOUS
  <1>5. Ranked(value) = row
    BY <1>1, <1>3, <1>4 DEF Ranked
  <1>6. \A k \in 1 .. n : row[k] = [player |-> order[k], rank |-> RankOn(value, order[k])]
    BY <1>4
  <1>7. row = [k \in 1 .. n |-> row[k]]
    BY <1>4
  <1>8. row \in Seq({row[k] : k \in 1 .. n}) /\ Len(row) = n /\ DOMAIN row = 1 .. n
    BY <1>3, <1>7
  <1> QED BY <1>1, <1>2, <1>3, <1>5, <1>6, <1>8

\* The pages of a board, by what each of them answers.
LEMMA PagesTurn ==
    ASSUME NEW value, BoardHolds(value), NEW limit \in Nat \ {0},
           NEW last \in Nat, Cardinality(DOMAIN value) <= last,
           NEW page, DOMAIN page = 0 .. last,
           \A m \in 0 .. last :
              page[m] = PageOf(Ranked(value), Cardinality(DOMAIN value), limit, limit * m)
    PROVE  PagesAreWhole(page, limit, DOMAIN value)
  <1>1. PICK D, f, n, board : D = DOMAIN value /\ f = InOrder(value) /\ n = Cardinality(D) /\ board = Ranked(value)
    OBVIOUS
  <1>2. /\ n \in Nat /\ DOMAIN f = 1 .. n /\ Len(board) = n
        /\ \E S : board \in Seq(S)
        /\ \A k \in 1 .. n : board[k] = [player |-> f[k], rank |-> RankOn(value, f[k])]
    BY <1>1, RankedFacts
  <1>3. ASSUME NEW m \in 0 .. last
        PROVE  /\ page[m].total = n
               /\ DOMAIN page[m].rows = {i \in 1 .. limit : limit * m + i <= n}
               /\ \A i \in 1 .. limit : limit * m + i <= n => page[m].rows[i] = board[limit * m + i]
    <2>1. PICK o : o = limit * m /\ o \in Nat
      OBVIOUS
    <2>3. PICK p : p = page[m]
      OBVIOUS
    <2>2. p = PageOf(board, n, limit, o)
      BY <1>1, <2>1, <2>3
    <2>4. PICK S : board \in Seq(S)
      BY <1>2
    <2>5. PageHolds(p, board, n, limit, o)
      BY <1>2, <2>1, <2>2, <2>4, PageFacts
    <2> QED BY <2>1, <2>3, <2>5 DEF PageHolds
  <1>4. ASSUME NEW k \in 1 .. n
        PROVE  page[(k - 1) \div limit].rows[1 + ((k - 1) % limit)] = board[k]
    <2>1. PICK q, r : q = (k - 1) \div limit /\ r = 1 + ((k - 1) % limit)
      OBVIOUS
    <2>2. /\ q \in Nat /\ q <= k - 1 /\ r \in 1 .. limit
          /\ limit * q \in Nat /\ limit * q + r = k
      <3>1. k \in Nat /\ k >= 1
        BY <1>2
      <3> QED BY <2>1, <3>1, PlaceOnAPage
    <2>3. q \in 0 .. last
      BY <1>1, <1>2, <2>2
    <2>4. page[q].rows[r] = board[limit * q + r]
      BY <1>2, <1>3, <2>2, <2>3
    <2> QED BY <2>1, <2>2, <2>4
  <1>5. PICK read : read = [k \in 1 .. n |-> page[(k - 1) \div limit].rows[1 + ((k - 1) % limit)]]
    OBVIOUS
  <1>6. ASSUME NEW k \in 1 .. n PROVE read[k].player = f[k] /\ read[k].rank = RankOn(value, f[k])
    <2>1. PICK x, y : x = f[k] /\ y = RankOn(value, f[k])
      OBVIOUS
    <2>2. PICK z : z = read[k]
      OBVIOUS
    <2>3. z = [player |-> x, rank |-> y]
      BY <1>2, <1>4, <1>5, <2>1, <2>2
    <2>4. z.player = x
      BY <2>3
    <2>5. z.rank = y
      BY <2>3
    <2> QED BY <2>1, <2>2, <2>4, <2>5
  <1>7. DOMAIN read = 1 .. n
    BY <1>5
  <1>8. {read[k].player : k \in 1 .. n} = D
    <2>1. Lists(f, D, BoardOrder(value))
      BY <1>1, BoardIsListed
    <2>2. (\A k \in 1 .. n : f[k] \in D) /\ \A p \in D : \E k \in 1 .. n : f[k] = p
      BY <1>2, <2>1 DEF Lists
    <2> QED BY <1>6, <2>2
  <1>9. ASSUME NEW k \in 1 .. n, read[k].rank # None
        PROVE  read[k].rank <= k /\ (k > 1 => read[k].rank \in {k, read[k - 1].rank})
    <2>1. RankOn(value, f[k]) <= k /\ (k > 1 => RankOn(value, f[k]) \in {k, RankOn(value, f[k - 1])})
      BY <1>1, <1>2, <1>6, <1>9, RanksFollow
    <2>2. k > 1 => k - 1 \in 1 .. n
      BY <1>2
    <2> QED BY <1>6, <2>1, <2>2
  <1>10. MeetsInOrder(read, D)
    BY <1>1, <1>7, <1>8, <1>9 DEF MeetsInOrder
  <1>11. \A m \in DOMAIN page : /\ page[m].total = n
                               /\ DOMAIN page[m].rows = {i \in 1 .. limit : limit * m + i <= n}
    BY <1>3
  <1> QED BY <1>1, <1>5, <1>10, <1>11 DEF PagesAreWhole

-----------------------------------------------------------------------------
(* What a board is sorted by *)

\* A total of whole numbers is one.
LEMMA SumOfIsInt ==
    ASSUME NEW lines, NEW column, IsFiniteSet(Tracked(lines, column)),
           \A l \in Tracked(lines, column) : Stat(l, column) \in Int
    PROVE  SumOf(lines, column) \in Int
  <1>1. PICK T : T = Tracked(lines, column)
    OBVIOUS
  <1>2. PICK w : w = [l \in T |-> Stat(l, column)]
    OBVIOUS
  <1>3. PICK f : Sums(w, T, f)
    BY <1>1, SumsExist
  <1> DEFINE R(g) == g = [s \in SUBSET T |-> IF s = {} THEN 0
                             ELSE LET x == CHOOSE x \in s : TRUE IN Stat(x, column) + g[s \ {x}]]
  <1>4. ASSUME NEW g PROVE R(g) <=> Sums(w, T, g)
    <2> DEFINE A(s) == IF s = {} THEN 0 ELSE Stat(First(s), column) + g[s \ {First(s)}]
               B(s) == IF s = {} THEN 0 ELSE w[First(s)] + g[s \ {First(s)}]
    <2>1. R(g) <=> g = [s \in SUBSET T |-> A(s)]
      BY Zenon DEF First
    <2>2. Sums(w, T, g) <=> g = [s \in SUBSET T |-> B(s)]
      BY DEF Sums
    <2>3. \A s \in SUBSET T : A(s) = B(s)
      <3>1. \A s \in SUBSET T : s # {} => First(s) \in s
        BY Zenon DEF First
      <3>2. \A s \in SUBSET T : s # {} => w[First(s)] = Stat(First(s), column)
        BY <1>2, <3>1
      <3> QED BY <3>2
    <2> HIDE DEF A, B, R
    <2>4. [s \in SUBSET T |-> A(s)] = [s \in SUBSET T |-> B(s)]
      BY <2>3
    <2> QED BY <2>1, <2>2, <2>4
  <1>5. R(f)
    BY <1>3, <1>4
  <1>6. R(CHOOSE g : R(g))
    BY <1>5, Zenon
  <1>7. SumOf(lines, column) = (CHOOSE g : R(g))[T]
    BY <1>1, Zenon DEF SumOf, MapThenSumSet, MapThenFoldSet
  <1>8. PICK g : Sums(w, T, g) /\ SumOf(lines, column) = g[T]
    <2> HIDE DEF R
    <2> QED BY <1>4, <1>6, <1>7
  <1>9. \A l \in T : w[l] \in Int
    BY <1>1, <1>2
  <1>10. g[T] \in Int
    BY <1>1, <1>8, <1>9, SumsTakeAny
  <1> QED BY <1>8, <1>10

\* A total of lines whose values are whole numbers or none is one or none.
LEMMA StatTotalIsWhole ==
    ASSUME NEW lines, NEW column, IsFiniteSet(lines), \A l \in lines : Whole(Stat(l, column))
    PROVE  Whole(StatTotal(lines, column))
  <1>1. PICK T : T = Tracked(lines, column)
    OBVIOUS
  <1>2. T \in SUBSET lines /\ \A l \in T : Stat(l, column) \in Int
    BY <1>1 DEF Tracked, Whole
  <1>3. IsFiniteSet(T)
    BY <1>2, FS_Subset
  <1>4. SumOf(lines, column) \in Int
    BY <1>1, <1>2, <1>3, SumOfIsInt
  <1>5. T # {} => Max({Stat(l, column) : l \in T}) \in Int
    <2>1. PICK w : w = [l \in T |-> Stat(l, column)]
      OBVIOUS
    <2>2. PICK values : values = {w[l] : l \in T}
      OBVIOUS
    <2>3. values = {Stat(l, column) : l \in T} /\ values \subseteq Int /\ (T # {} => values # {})
      BY <1>2, <2>1, <2>2
    <2>4. IsFiniteSet(values)
      BY <1>3, <2>2, ImageIsFinite
    <2> QED BY <2>3, <2>4, MaxMinOfFinite
  <1>6. \/ StatTotal(lines, column) = None
        \/ T # {} /\ StatTotal(lines, column) = Max({Stat(l, column) : l \in T})
        \/ StatTotal(lines, column) = SumOf(lines, column)
    BY <1>1 DEF StatTotal
  <1> QED BY <1>4, <1>5, <1>6 DEF Whole

\* A player's lines are finitely many, and of the season types.
LEMMA LinesFacts ==
    ASSUME TablesInv, NEW p
    PROVE  /\ IsFiniteSet(LineKeys(db, p)) /\ IsFiniteSet(Lines(db, p))
           /\ \A key \in LineKeys(db, p) : key[1] \in Int /\ key[2] \in SeasonTypes
           /\ \A l \in Lines(db, p) : l.type \in SeasonTypes /\ l.row \subseteq db.rows
  <1>1. PICK own : own = {x \in db.rows : x.player = p}
    OBVIOUS
  <1>2. PICK st : st = StartsOf(db, p)
    OBVIOUS
  <1>3. IsFiniteSet(own) /\ IsFiniteSet(st)
    <2>1. own \in SUBSET db.rows /\ st \in SUBSET db.starts
      BY <1>1, <1>2 DEF StartsOf
    <2>2. IsFiniteSet(db.rows) /\ IsFiniteSet(db.starts)
      BY DEF TablesInv, TablesHold
    <2> QED BY <2>1, <2>2, FS_Subset
  <1>4. PICK w, v : /\ w = [r \in own |-> <<r.season, r.type>>]
                    /\ v = [s \in st |-> <<GameOf(db, s).season, GameOf(db, s).type>>]
    OBVIOUS
  <1>5. PICK W, V : W = {w[r] : r \in own} /\ V = {v[s] : s \in st}
    OBVIOUS
  <1>6. IsFiniteSet(W) /\ IsFiniteSet(V)
    BY <1>3, <1>5, ImageIsFinite
  <1>7. LineKeys(db, p) = W \cup V
    BY <1>1, <1>2, <1>4, <1>5 DEF LineKeys
  <1>8. IsFiniteSet(LineKeys(db, p))
    BY <1>6, <1>7, FS_Union
  <1>9. PICK K, u : K = LineKeys(db, p) /\ u = [key \in K |-> Line(db, p, key)]
    OBVIOUS
  <1>10. PICK L : L = {u[key] : key \in K}
    OBVIOUS
  <1>11. IsFiniteSet(L)
    BY <1>8, <1>9, <1>10, ImageIsFinite
  <1>12. L = Lines(db, p)
    BY <1>9, <1>10 DEF Lines
  <1>13. \A key \in W : key[1] \in Int /\ key[2] \in SeasonTypes
    <2>1. \A r \in own : r.season \in Int /\ r.type \in SeasonTypes
      BY <1>1 DEF TablesInv, TablesHold, RowHolds
    <2> QED BY <1>4, <1>5, <2>1
  <1>14. \A key \in V : key[1] \in Int /\ key[2] \in SeasonTypes
    <2>1. \A s \in st : GameOf(db, s).season \in Int /\ GameOf(db, s).type \in SeasonTypes
      <3>1. \A s \in st : s \in db.starts
        BY <1>2 DEF StartsOf
      <3>2. \A s \in st : GameOf(db, s) \in db.games
        BY <3>1, GameFacts
      <3> QED BY <3>2 DEF TablesInv, TablesHold
    <2> QED BY <1>4, <1>5, <2>1
  <1>15. \A l \in Lines(db, p) : l.type \in SeasonTypes /\ l.row \subseteq db.rows
    <2>1. ASSUME NEW key \in LineKeys(db, p)
          PROVE  Line(db, p, key).type \in SeasonTypes /\ Line(db, p, key).row \subseteq db.rows
      <3>1. Line(db, p, key).type = key[2]
        BY DEF Line
      <3>2. Line(db, p, key).row \subseteq db.rows
        BY DEF Line
      <3> QED BY <1>7, <1>13, <1>14, <3>1, <3>2
    <2> QED BY <2>1 DEF Lines
  <1> QED BY <1>7, <1>8, <1>11, <1>12, <1>13, <1>14, <1>15

Columns == {"attempts", "sacks", "carries", "passing_epa", "fg_long", "games"}

\* A line's value of a column, and the total of a player's lines of a type.
LEMMA StatsAreWhole ==
    ASSUME TablesInv, NEW p, NEW type, NEW column \in Columns
    PROVE  LET lines == LinesIn(db, p, type) IN
           /\ IsFiniteSet(lines)
           /\ Whole(StatTotal(lines, column))
  <1>1. PICK lines : lines = LinesIn(db, p, type)
    OBVIOUS
  <1>2. lines \in SUBSET Lines(db, p)
    BY <1>1 DEF LinesIn
  <1>3. IsFiniteSet(lines)
    BY <1>2, LinesFacts, FS_Subset
  <1>4. ASSUME NEW l \in lines PROVE Whole(Stat(l, column))
    <2>1. l.row \subseteq db.rows
      BY <1>2, LinesFacts
    <2>2. CASE l.row = {}
      BY <2>2 DEF Stat, Whole
    <2>3. CASE l.row # {}
      <3>1. PICK r : r = CHOOSE one \in l.row : TRUE
        OBVIOUS
      <3>2. r \in db.rows
        BY <2>1, <2>3, <3>1
      <3>3. RowHolds(r)
        BY <3>2 DEF TablesInv, TablesHold
      <3>4. Whole(r[column])
        BY <3>3 DEF RowHolds, Whole, Columns
      <3> QED BY <2>3, <3>1, <3>4 DEF Stat
    <2> QED BY <2>2, <2>3
  <1>5. Whole(StatTotal(lines, column))
    BY <1>3, <1>4, StatTotalIsWhole
  <1> QED BY <1>1, <1>3, <1>5

\* What a board's sort orders its players by.
LEMMA SortValueHolds ==
    ASSUME TablesInv, NEW c \in Categories, NEW s \in Sorts[c], NEW t \in SeasonTypes,
           NEW p \in Population(db, c, s, t)
    PROVE  Sortable(SortValue(db, p, s, t))
  <1>1. PICK lines : lines = LinesIn(db, p, t)
    OBVIOUS
  <1>2. \A column \in Columns : Whole(StatTotal(lines, column))
    BY <1>1, StatsAreWhole
  <1>3. s \in {"attempts", "wins", "epa_per_dropback", "carries", "fg_long"}
    BY DEF Sorts, Categories
  <1>4. CASE s = "wins"
    <2>1. PICK S : S = UNION {l.starts : l \in lines}
      OBVIOUS
    <2>2. S \subseteq {x \in db.starts : x.player = p}
      <3>1. \A l \in lines : l.starts \subseteq StartsOf(db, p)
        BY <1>1 DEF LinesIn, Lines, Line
      <3> QED BY <2>1, <3>1 DEF StartsOf
    <2>3. PICK told : told = {GameOf(db, x) : x \in {y \in S : Counted(GameOf(db, y))}}
      OBVIOUS
    <2>4. Record(db, S).wins \in Nat
      BY <2>2, <2>3, RecordIs
    <2>5. SortValue(db, p, s, t) = <<Record(db, S).wins, 1>>
      BY <1>1, <1>4, <2>1 DEF SortValue
    <2> QED BY <2>4, <2>5 DEF Sortable
  <1>5. CASE s = "epa_per_dropback"
    <2>1. PICK n, d : n = StatTotal(lines, "passing_epa") /\ d = DropbacksOf(lines)
      OBVIOUS
    <2>2. Whole(n)
      BY <1>2, <2>1 DEF Columns
    <2>3. d # None /\ d >= EPA_PER_DROPBACK_MIN_DROPBACKS[t]
      BY <1>1, <1>5, <2>1 DEF Population, Gated
    <2>4. d \in Int
      <3>1. PICK x, y : x = StatTotal(lines, "attempts") /\ y = StatTotal(lines, "sacks")
        OBVIOUS
      <3>2. Whole(x) /\ Whole(y)
        BY <1>2, <3>1 DEF Columns
      <3>3. d = Plus(x, y)
        BY <2>1, <3>1 DEF DropbacksOf
      <3> QED BY <2>3, <3>2, <3>3 DEF Plus, Whole
    <2>5. d > 0
      BY <2>3, <2>4, LeadersAssumption
    <2>6. SortValue(db, p, s, t) = IF n = None THEN None ELSE <<n, d>>
      BY <1>1, <1>5, <2>1 DEF SortValue
    <2> QED BY <2>2, <2>4, <2>5, <2>6 DEF Sortable, Whole
  <1>6. CASE s \in {"attempts", "carries", "fg_long"}
    <2>1. PICK n : n = StatTotal(lines, s)
      OBVIOUS
    <2>2. Whole(n)
      BY <1>2, <1>6, <2>1 DEF Columns
    <2>3. SortValue(db, p, s, t) = IF n = None THEN None ELSE <<n, 1>>
      BY <1>1, <1>6, <2>1 DEF SortValue
    <2> QED BY <2>2, <2>3 DEF Sortable, Whole
  <1> QED BY <1>3, <1>4, <1>5, <1>6

\* The players have finitely many ids, whole numbers, and no more than they are.
LEMMA PlayerIdsFacts ==
    ASSUME TablesInv
    PROVE  /\ IsFiniteSet(PlayerIds(db)) /\ PlayerIds(db) \subseteq Int
           /\ Cardinality(PlayerIds(db)) <= Cardinality(Players)
           /\ Cardinality(PlayerIds(db)) \in Nat /\ Cardinality(Players) \in Nat
  <1>1. PICK D : D = PlayerIds(db) /\ D = {p.id : p \in Players}
    BY DEF TablesInv, PlayerIds
  <1>2. PICK w : w = [p \in Players |-> p.id]
    OBVIOUS
  <1>3. w \in Surjection(Players, D)
    BY <1>1, <1>2 DEF Surjection
  <1>4. IsFiniteSet(D) /\ Cardinality(D) <= Cardinality(Players)
    BY <1>3, PlayersAssumption, FS_Surjection
  <1>5. D \subseteq Int
    BY <1>1, PlayersAssumption
  <1> QED BY <1>1, <1>4, <1>5, PlayersAssumption, FS_CardinalityType

LEMMA BoardValuesHold ==
    ASSUME TablesInv, NEW c \in Categories, NEW s \in Sorts[c], NEW t \in SeasonTypes,
           NEW value, value = [p \in Population(db, c, s, t) |-> SortValue(db, p, s, t)]
    PROVE  BoardHolds(value) /\ Cardinality(DOMAIN value) <= Cardinality(Players)
  <1>1. PICK D, I : D = DOMAIN value /\ D = Population(db, c, s, t) /\ I = PlayerIds(db)
    OBVIOUS
  <1>2. D \in SUBSET I
    BY <1>1 DEF Population
  <1>3. IsFiniteSet(D) /\ Cardinality(D) <= Cardinality(I) /\ Cardinality(D) \in Nat
    BY <1>1, <1>2, PlayerIdsFacts, FS_Subset, FS_CardinalityType
  <1>4. \A p \in D : p \in Int /\ Sortable(value[p])
    BY <1>1, <1>2, PlayerIdsFacts, SortValueHolds
  <1>5. Cardinality(D) <= Cardinality(Players)
    BY <1>1, <1>3, PlayerIdsFacts
  <1> QED BY <1>1, <1>3, <1>4, <1>5 DEF BoardHolds

-----------------------------------------------------------------------------
(* The search, and the boards *)

\* Who the search finds: the players of the boards that gate nobody.
Found == {p \in PlayerIds(db) : \E c \in Categories : \E l \in Lines(db, p) : QualifyingLine(c, l)}
GamesOfPlayer(p) ==
    IF LinesIn(db, p, "regular") = {} THEN None ELSE StatTotal(LinesIn(db, p, "regular"), "games")
FoundValue == [p \in Found |-> IF GamesOfPlayer(p) = None THEN None ELSE <<GamesOfPlayer(p), 1>>]
Hit(p) == LET seasons == {key[1] : key \in LineKeys(db, p)} IN
          [player |-> p, first |-> Min(seasons), last |-> Max(seasons)]

LEMMA SearchFinds ==
    ASSUME TablesInv
    PROVE  /\ Search(db, None) = [i \in DOMAIN InOrder(FoundValue) |-> Hit(InOrder(FoundValue)[i])]
           /\ BoardHolds(FoundValue) /\ DOMAIN FoundValue = Found
  <1>1. PICK S : S = {p \in PlayerIds(db) :
                        /\ \E c \in Categories : \E l \in Lines(db, p) : QualifyingLine(c, l)
                        /\ None # None => \E q \in db.players : q.id = p /\ q.group = None}
    OBVIOUS
  <1>2. S = Found
    BY <1>1 DEF Found
  <1>3. Search(db, None) =
           LET order == InOrder([p \in S |-> IF GamesOfPlayer(p) = None THEN None ELSE <<GamesOfPlayer(p), 1>>])
           IN  [i \in DOMAIN order |-> Hit(order[i])]
    BY <1>1, Zenon DEF Search, GamesOfPlayer, Hit
  <1>4. Search(db, None) = [i \in DOMAIN InOrder(FoundValue) |-> Hit(InOrder(FoundValue)[i])]
    BY <1>2, <1>3, Zenon DEF FoundValue
  <1>5. DOMAIN FoundValue = Found
    BY DEF FoundValue
  <1>6. PICK D, I : D = Found /\ I = PlayerIds(db)
    OBVIOUS
  <1>7. D \in SUBSET I
    BY <1>6 DEF Found
  <1>8. IsFiniteSet(D) /\ D \subseteq Int
    BY <1>6, <1>7, PlayerIdsFacts, FS_Subset
  <1>9. ASSUME NEW p \in D PROVE Sortable(FoundValue[p])
    <2>1. PICK n : n = GamesOfPlayer(p)
      OBVIOUS
    <2>2. Whole(n)
      <3>1. Whole(StatTotal(LinesIn(db, p, "regular"), "games"))
        BY StatsAreWhole DEF Columns
      <3> QED BY <2>1, <3>1 DEF GamesOfPlayer, Whole
    <2>3. FoundValue[p] = IF n = None THEN None ELSE <<n, 1>>
      BY <1>6, <2>1 DEF FoundValue
    <2> QED BY <2>2, <2>3 DEF Sortable, Whole
  <1>10. BoardHolds(FoundValue)
    BY <1>5, <1>6, <1>8, <1>9 DEF BoardHolds
  <1> QED BY <1>4, <1>5, <1>10

OnBoards(free) == UNION {Population(db, c, s, t) : c \in Categories, s \in free, t \in SeasonTypes}
LEMMA FoundAreTheFree ==
    ASSUME TablesInv, NEW free, free = (UNION {Sorts[c] : c \in Categories}) \ {"epa_per_dropback"}
    PROVE  Found = OnBoards(free)
  <1>1. "wins" \in free
    <2>1. "passing" \in Categories
      BY DEF Sorts, Categories
    <2>2. "wins" \in Sorts["passing"]
      BY DEF Sorts
    <2>3. "wins" # "epa_per_dropback"
      OBVIOUS
    <2> QED BY <2>1, <2>2, <2>3
  <1>2. ASSUME NEW p \in Found
        PROVE  \E c \in Categories : \E t \in SeasonTypes : p \in Population(db, c, "wins", t)
    <2>1. PICK c \in Categories, l \in Lines(db, p) : QualifyingLine(c, l)
      BY DEF Found
    <2>2. PICK t : t = l.type
      OBVIOUS
    <2>3. t \in SeasonTypes /\ l \in LinesIn(db, p, t)
      BY <2>2, LinesFacts DEF LinesIn
    <2>4. p \in PlayerIds(db) /\ Gated(LinesIn(db, p, t), "wins", t)
      BY DEF Found, Gated
    <2>5. p \in Population(db, c, "wins", t)
      BY <2>1, <2>3, <2>4 DEF Population
    <2> QED BY <2>3, <2>5
  <1>3. ASSUME NEW c \in Categories, NEW s \in free, NEW t \in SeasonTypes, NEW p \in Population(db, c, s, t)
        PROVE  p \in Found
    BY DEF Population, LinesIn, Found
  <1> QED BY <1>1, <1>2, <1>3 DEF OnBoards

LEMMA SearchHolds == ASSUME TablesInv PROVE SearchIsWhole(Search(db, None))
  <1>1. PICK found, f : found = Search(db, None) /\ f = InOrder(FoundValue)
    OBVIOUS
  <1>2. found = [i \in DOMAIN f |-> Hit(f[i])] /\ Lists(f, Found, BoardOrder(FoundValue))
    BY <1>1, SearchFinds, BoardIsListed
  <1>3. DOMAIN found = DOMAIN f /\ \A i \in DOMAIN f : found[i] = Hit(f[i])
    BY <1>2
  <1>4. \A p : {key[1] : key \in LineKeys(db, p)} = Covered(db, p)
    <2>1. SUFFICES ASSUME NEW p PROVE {key[1] : key \in LineKeys(db, p)} = Covered(db, p)
      OBVIOUS
    <2>2. PICK own, st : own = {x \in db.rows : x.player = p} /\ st = StartsOf(db, p)
      OBVIOUS
    <2>3. LineKeys(db, p) = {<<r.season, r.type>> : r \in own}
                               \cup {<<GameOf(db, s).season, GameOf(db, s).type>> : s \in st}
      BY <2>2 DEF LineKeys
    <2>4. Covered(db, p) = {r.season : r \in own} \cup {GameOf(db, s).season : s \in st}
      BY <2>2 DEF Covered
    <2>5. \A key \in LineKeys(db, p) : key[1] \in Covered(db, p)
      BY <2>3, <2>4
    <2>6. \A x \in Covered(db, p) : \E key \in LineKeys(db, p) : key[1] = x
      <3>1. ASSUME NEW r \in own PROVE \E key \in LineKeys(db, p) : key[1] = r.season
        <4>1. <<r.season, r.type>> \in LineKeys(db, p) /\ <<r.season, r.type>>[1] = r.season
          BY <2>3
        <4> QED BY <4>1, Zenon
      <3>2. ASSUME NEW s \in st PROVE \E key \in LineKeys(db, p) : key[1] = GameOf(db, s).season
        <4>1. PICK g : g = GameOf(db, s)
          OBVIOUS
        <4>2. <<g.season, g.type>> \in LineKeys(db, p) /\ <<g.season, g.type>>[1] = g.season
          BY <2>3, <4>1
        <4> QED BY <4>1, <4>2, Zenon
      <3> QED BY <2>4, <3>1, <3>2
    <2> QED BY <2>5, <2>6
  <1>5. ASSUME NEW i \in DOMAIN f
        PROVE  /\ found[i].player = f[i]
               /\ found[i].first = Min(Covered(db, f[i])) /\ found[i].last = Max(Covered(db, f[i]))
    <2>1. PICK h, x, y, z : h = found[i] /\ x = f[i] /\ y = Min(Covered(db, f[i])) /\ z = Max(Covered(db, f[i]))
      OBVIOUS
    <2>2. Hit(f[i]) = [player |-> x, first |-> y, last |-> z]
      BY <1>4, <2>1 DEF Hit
    <2>3. h = [player |-> x, first |-> y, last |-> z]
      BY <1>3, <2>1, <2>2
    <2>4. h.player = x
      BY <2>3
    <2>5. h.first = y
      BY <2>3
    <2>6. h.last = z
      BY <2>3
    <2> QED BY <2>1, <2>4, <2>5, <2>6
  <1>6. {found[i].player : i \in DOMAIN found} = Found
    <2>1. (\A i \in DOMAIN f : f[i] \in Found) /\ \A p \in Found : \E i \in DOMAIN f : f[i] = p
      BY <1>2 DEF Lists
    <2> QED BY <1>3, <1>5, <2>1
  <1>7. PICK free : free = (UNION {Sorts[c] : c \in Categories}) \ {"epa_per_dropback"}
    OBVIOUS
  <1>8. Found = OnBoards(free)
    BY <1>7, FoundAreTheFree
  <1>9. \A i \in DOMAIN found :
           /\ found[i].first = Min(Covered(db, found[i].player))
           /\ found[i].last = Max(Covered(db, found[i].player))
    BY <1>3, <1>5
  <1>10. SearchIsWhole(found)
    BY <1>6, <1>7, <1>8, <1>9 DEF SearchIsWhole, OnBoards
  <1> QED BY <1>1, <1>10

\* Turning the pages of a leaderboard meets each player of its population once,
\* in an order his rank follows, every page states the one total, and the search
\* finds the players of the boards that gate nobody and dates them as their
\* coverage does (get_player_leaders, _count_sql, search_players).
THEOREM BoardsSafe == QbSpec => []BoardsAreWhole
  <1>1. TablesInv => BoardsAreWhole
    <2> SUFFICES ASSUME TablesInv PROVE BoardsAreWhole
      OBVIOUS
    <2>1. ASSUME NEW c \in Categories, NEW s \in Sorts[c], NEW t \in SeasonTypes, NEW limit \in Limits
          PROVE  PagesAreWhole([n \in 0 .. Cardinality(Players) |-> Page(db, c, s, t, limit, limit * n)],
                               limit, Population(db, c, s, t))
      <3>1. PICK value : value = [p \in Population(db, c, s, t) |-> SortValue(db, p, s, t)]
        OBVIOUS
      <3>2. PICK last, page : /\ last = Cardinality(Players)
                              /\ page = [n \in 0 .. last |-> Page(db, c, s, t, limit, limit * n)]
        OBVIOUS
      <3>3. DOMAIN value = Population(db, c, s, t)
        BY <3>1
      <3>4. BoardHolds(value) /\ Cardinality(DOMAIN value) <= last /\ last \in Nat
        BY <3>1, <3>2, BoardValuesHold, PlayerIdsFacts
      <3>5. limit \in Nat \ {0}
        BY PlayersAssumption
      <3>6. DOMAIN page = 0 .. last
        BY <3>2
      <3>7. \A m \in 0 .. last :
               page[m] = PageOf(Ranked(value), Cardinality(DOMAIN value), limit, limit * m)
        <4>1. \A m : Page(db, c, s, t, limit, limit * m)
                        = PageOf(Ranked(value), Cardinality(DOMAIN value), limit, limit * m)
          BY <3>1, <3>3, Zenon DEF Page, Board, Count
        <4> QED BY <3>2, <4>1
      <3>8. PagesAreWhole(page, limit, DOMAIN value)
        BY <3>4, <3>5, <3>6, <3>7, PagesTurn
      <3> QED BY <3>2, <3>3, <3>8
    <2>2. SearchIsWhole(Search(db, None))
      BY SearchHolds
    <2> QED BY <2>1, <2>2 DEF BoardsAreWhole
  <1> QED BY <1>1, DataHolds, PTL

-----------------------------------------------------------------------------
(* What a chain of moves and a power come to *)

\* The values x, next of x, next of that, and so on.
Iterates(it, next, x, n) == it[0] = x /\ \A i \in 1 .. n : it[i] = next[it[i - 1]]

\* There are as many as one asks for: by least counterexample.
LEMMA IteratesExist ==
    ASSUME NEW S, NEW next \in [S -> S], NEW x \in S, NEW n \in Nat
    PROVE  \E it \in [0 .. n -> S] : Iterates(it, next, x, n)
  <1> DEFINE On(k) == \E it \in [0 .. k -> S] : Iterates(it, next, x, k)
             Bad == {k \in Nat : ~On(k)}
  <1>1. On(0)
    <2>1. PICK it : it = [i \in 0 .. 0 |-> x]
      OBVIOUS
    <2>2. it \in [0 .. 0 -> S] /\ Iterates(it, next, x, 0)
      BY <2>1 DEF Iterates
    <2> QED BY <2>2
  <1>2. ASSUME NEW k \in Nat, On(k) PROVE On(k + 1)
    <2>1. PICK it \in [0 .. k -> S] : Iterates(it, next, x, k)
      BY <1>2
    <2>2. PICK u : u = next[it[k]]
      OBVIOUS
    <2>3. u \in S
      BY <2>2
    <2>4. PICK to : to = [i \in 0 .. (k + 1) |-> IF i = k + 1 THEN u ELSE it[i]]
      OBVIOUS
    <2>5. to \in [0 .. (k + 1) -> S]
      BY <2>3, <2>4
    <2>6. to[0] = x
      BY <2>1, <2>4 DEF Iterates
    <2>7. ASSUME NEW i \in 1 .. (k + 1) PROVE to[i] = next[to[i - 1]]
      <3>1. to[i - 1] = it[i - 1]
        BY <2>4
      <3>2. CASE i = k + 1
        BY <2>2, <2>4, <3>1, <3>2
      <3>3. CASE i # k + 1
        BY <2>1, <2>4, <3>1, <3>3 DEF Iterates
      <3> QED BY <3>2, <3>3
    <2> QED BY <2>5, <2>6, <2>7 DEF Iterates
  <1> HIDE DEF On
  <1>3. Bad = {}
    <2>1. SUFFICES ASSUME Bad # {} PROVE FALSE
      OBVIOUS
    <2>2. PICK k \in Bad : \A m \in Bad : k <= m
      <3>1. Bad \subseteq Nat
        OBVIOUS
      <3> HIDE DEF Bad
      <3> QED BY <2>1, <3>1, LeastOf
    <2>3. k # 0 /\ k - 1 \in Nat /\ k - 1 \notin Bad
      BY <1>1, <2>2
    <2> QED BY <1>2, <2>2, <2>3
  <1> QED BY <1>3 DEF On

\* What the library's fold takes from, at each number of steps.
EndsAt(n, i) ==
    /\ 1 .. i \in SUBSET (1 .. n) /\ 1 .. i # {} /\ Max(1 .. i) = i
    /\ (1 .. i) \ {Max(1 .. i)} = 1 .. (i - 1)
ShrinksBy(n, s) ==
    /\ Cardinality(s) \in 0 .. n
    /\ s = {} => Cardinality(s) = 0
    /\ s # {} => /\ s \ {Max(s)} \in SUBSET (1 .. n)
                 /\ Cardinality(s) \in 1 .. n
                 /\ Cardinality(s \ {Max(s)}) = Cardinality(s) - 1
LEMMA StepsOfAFold ==
    ASSUME NEW n \in Nat
    PROVE  /\ 1 .. 0 = {} /\ Cardinality(1 .. n) = n
           /\ \A i \in 1 .. n : EndsAt(n, i)
           /\ \A s \in SUBSET (1 .. n) : ShrinksBy(n, s)
  <1>1. ASSUME NEW i \in 1 .. n PROVE EndsAt(n, i)
    <2>1. i \in 1 .. i /\ 1 .. i \subseteq 1 .. n
      OBVIOUS
    <2>2. Max(1 .. i) = i
      <3>1. 1 .. i \subseteq Int /\ \A x \in 1 .. i : x <= i
        OBVIOUS
      <3> QED BY <2>1, <3>1, MaxIs
    <2>3. \A x : x \in (1 .. i) \ {i} <=> x \in 1 .. (i - 1)
      OBVIOUS
    <2>4. (1 .. i) \ {i} = 1 .. (i - 1)
      BY <2>3
    <2> QED BY <2>1, <2>2, <2>4 DEF EndsAt
  <1>2. IsFiniteSet(1 .. n) /\ Cardinality(1 .. n) = n
    BY FS_Interval
  <1>3. ASSUME NEW s \in SUBSET (1 .. n)
        PROVE  ShrinksBy(n, s)
    <2>1. IsFiniteSet(s) /\ Cardinality(s) \in Nat /\ Cardinality(s) <= n
      BY <1>2, FS_Subset, FS_CardinalityType
    <2>2. s = {} => Cardinality(s) = 0
      BY FS_EmptySet
    <2>3. ASSUME s # {}
          PROVE  /\ s \ {Max(s)} \in SUBSET (1 .. n)
                 /\ Cardinality(s) \in 1 .. n
                 /\ Cardinality(s \ {Max(s)}) = Cardinality(s) - 1
      <3>1. Max(s) \in s
        <4>1. s \subseteq 0 .. n
          OBVIOUS
        <4> QED BY <2>3, <4>1, GreatestOf
      <3>2. IsFiniteSet(s \ {Max(s)}) /\ Cardinality(s \ {Max(s)}) = Cardinality(s) - 1
        BY <2>1, <3>1, FS_RemoveElement
      <3>3. Cardinality(s \ {Max(s)}) \in Nat
        BY <3>2, FS_CardinalityType
      <3>4. \A c, d \in Nat : c <= n /\ d = c - 1 => c \in 1 .. n
        OBVIOUS
      <3>5. Cardinality(s) \in 1 .. n
        BY <2>1, <3>2, <3>3, <3>4
      <3>6. s \ {Max(s)} \in SUBSET (1 .. n)
        OBVIOUS
      <3> QED BY <3>2, <3>5, <3>6
    <2> QED BY <2>1, <2>2, <2>3 DEF ShrinksBy
  <1>4. 1 .. 0 = {}
    OBVIOUS
  <1>5. \A i \in 1 .. n : EndsAt(n, i)
    BY <1>1
  <1>6. \A s \in SUBSET (1 .. n) : ShrinksBy(n, s)
    BY <1>3
  <1> QED BY <1>2, <1>4, <1>5, <1>6, Zenon

\* The fold's recursion has a solution: at a set, the value after as many steps.
FoldsAt(f, s, S, next, x) ==
    /\ f[s] \in S
    /\ s = {} => f[s] = x
    /\ s # {} => f[s \ {Max(s)}] \in S /\ f[s] = next[f[s \ {Max(s)}]]
LEMMA FoldIsIterated ==
    ASSUME NEW S, NEW next \in [S -> S], NEW x \in S, NEW n \in Nat,
           NEW it \in [0 .. n -> S], Iterates(it, next, x, n),
           NEW f, f = [s \in SUBSET (1 .. n) |-> it[Cardinality(s)]]
    PROVE  \A s \in SUBSET (1 .. n) : FoldsAt(f, s, S, next, x)
  <1>1. ASSUME NEW s \in SUBSET (1 .. n) PROVE FoldsAt(f, s, S, next, x)
    <2>1. PICK k : k = Cardinality(s)
      OBVIOUS
    <2>0. ShrinksBy(n, s)
      BY StepsOfAFold, Zenon
    <2>2. /\ k \in 0 .. n
          /\ s = {} => k = 0
          /\ s # {} => /\ s \ {Max(s)} \in SUBSET (1 .. n)
                       /\ k \in 1 .. n
                       /\ Cardinality(s \ {Max(s)}) = k - 1
      BY <2>0, <2>1 DEF ShrinksBy
    <2>3. f[s] = it[k]
      BY <2>1
    <2>4. s = {} => f[s] = x
      BY <2>2, <2>3 DEF Iterates
    <2>5. s # {} => f[s \ {Max(s)}] = it[k - 1]
      BY <2>2
    <2>6. s # {} => it[k] = next[it[k - 1]] /\ it[k - 1] \in S
      BY <2>2 DEF Iterates
    <2>7. it[k] \in S
      BY <2>2
    <2> QED BY <2>3, <2>4, <2>5, <2>6, <2>7 DEF FoldsAt
  <1> QED BY <1>1

\* A power of a whole number that is not negative is one.
LEMMA PowerFacts ==
    ASSUME NEW b \in Nat, NEW n \in Nat
    PROVE  Power(b, n) \in Nat /\ (b > 0 => Power(b, n) > 0)
  <1>1. PICK S : S = {x \in Nat : b > 0 => x > 0}
    OBVIOUS
  <1>2. PICK next : next = [x \in S |-> x * b]
    OBVIOUS
  <1>3. next \in [S -> S] /\ 1 \in S
    <2>1. ASSUME NEW x \in S PROVE x * b \in S
      <3>1. x \in Nat /\ (b > 0 => x > 0)
        BY <1>1
      <3>2. x * b \in Nat
        BY <3>1
      <3>3. b > 0 => x * b > 0
        BY <3>1
      <3> QED BY <1>1, <3>2, <3>3
    <2> QED BY <1>1, <1>2, <2>1
  <1>4. PICK it \in [0 .. n -> S] : Iterates(it, next, 1, n)
    BY <1>3, IteratesExist
  <1> DEFINE seq == [i \in 1 .. n |-> i]
             R(g) == g = [s \in SUBSET (DOMAIN seq) |->
                             IF s = {} THEN 1
                             ELSE LET x == Max(s) IN g[s \ {x}] * b]
  <1>5. DOMAIN seq = 1 .. n
    OBVIOUS
  <1>6. Power(b, n) = (CHOOSE g : R(g))[DOMAIN seq]
    BY Zenon DEF Power, FoldLeft, MapThenFoldSet
  <1> HIDE DEF seq
  <1>7. PICK f : f = [s \in SUBSET (1 .. n) |-> it[Cardinality(s)]]
    OBVIOUS
  <1>8. \A s \in SUBSET (1 .. n) : FoldsAt(f, s, S, next, 1)
    BY <1>3, <1>4, <1>7, FoldIsIterated
  <1>9. R(f)
    <2>1. \A s \in SUBSET (1 .. n) : f[s] = IF s = {} THEN 1 ELSE f[s \ {Max(s)}] * b
      BY <1>2, <1>8 DEF FoldsAt
    <2>2. f = [s \in SUBSET (1 .. n) |-> f[s]]
      BY <1>7
    <2>3. f = [s \in SUBSET (1 .. n) |-> IF s = {} THEN 1 ELSE f[s \ {Max(s)}] * b]
      BY <2>1, <2>2
    <2> QED BY <1>5, <2>3
  <1>10. R(CHOOSE g : R(g))
    BY <1>9, Zenon
  <1>11. PICK g : R(g) /\ Power(b, n) = g[1 .. n]
    BY <1>5, <1>6, <1>10
  <1>12. g[{}] = 1 /\ \A i \in 1 .. n : g[1 .. i] = g[1 .. (i - 1)] * b
    <2>1. \A s \in SUBSET (1 .. n) : g[s] = IF s = {} THEN 1 ELSE g[s \ {Max(s)}] * b
      BY <1>5, <1>11
    <2>2. ASSUME NEW i \in 1 .. n PROVE g[1 .. i] = g[1 .. (i - 1)] * b
      <3>1. EndsAt(n, i)
        BY StepsOfAFold, Zenon
      <3> QED BY <2>1, <3>1 DEF EndsAt
    <2> QED BY <2>1, <2>2
  <1> DEFINE Bad == {i \in 0 .. n : g[1 .. i] \notin S}
  <1>13. Bad = {}
    <2>1. SUFFICES ASSUME Bad # {} PROVE FALSE
      OBVIOUS
    <2>2. PICK k \in Bad : \A m \in Bad : k <= m
      <3>1. Bad \subseteq Nat
        OBVIOUS
      <3> HIDE DEF Bad
      <3> QED BY <2>1, <3>1, LeastOf
    <2>3. k # 0
      <3>1. 1 .. 0 = {}
        OBVIOUS
      <3> QED BY <1>3, <1>12, <2>2, <3>1
    <2>4. k \in 1 .. n /\ k - 1 \in 0 .. n /\ k - 1 \notin Bad
      BY <2>2, <2>3
    <2>5. g[1 .. (k - 1)] \in S
      BY <2>4
    <2>6. g[1 .. k] = next[g[1 .. (k - 1)]]
      BY <1>2, <1>12, <2>4, <2>5
    <2> QED BY <1>3, <2>2, <2>5, <2>6
  <1>14. Power(b, n) \in S
    <2>1. n \in 0 .. n
      OBVIOUS
    <2> QED BY <1>11, <1>13, <2>1
  <1> QED BY <1>1, <1>14

\* A rating reverted over some offseasons is a rating.
LEMMA RevertedIsWhole ==
    ASSUME NEW elo \in Int, NEW n \in Nat
    PROVE  Reverted(elo, n) \in Int
  <1>1. /\ ELO.revert[2] \in Nat \ {0} /\ ELO.revert[1] \in 0 .. ELO.revert[2] /\ ELO.mean \in Int
    BY EloAssumption
  <1>2. PICK rest, kept, whole : /\ rest = ELO.revert[2] - ELO.revert[1]
                                 /\ kept = Power(rest, n) /\ whole = Power(ELO.revert[2], n)
    OBVIOUS
  <1>3. rest \in Nat
    BY <1>1, <1>2
  <1>4. kept \in Int /\ whole \in Int /\ whole > 0
    <2>1. kept \in Nat
      BY <1>2, <1>3, PowerFacts
    <2>2. whole \in Nat /\ whole > 0
      <3>1. PICK b : b = ELO.revert[2]
        OBVIOUS
      <3>2. b \in Nat /\ b > 0
        BY <1>1, <3>1
      <3> QED BY <1>2, <3>1, <3>2, PowerFacts
    <2> QED BY <2>1, <2>2
  <1>5. PICK x : x = (elo - ELO.mean) * kept
    OBVIOUS
  <1>6. x \in Int
    <2>1. elo - ELO.mean \in Int
      BY <1>1
    <2> QED BY <1>4, <1>5, <2>1
  <1>7. x \div whole \in Int
    BY <1>4, <1>6, DivGrows
  <1>8. Reverted(elo, n) = ELO.mean + x \div whole
    BY <1>2, <1>5 DEF Reverted
  <1> QED BY <1>1, <1>7, <1>8

\* Where a team is after each of as many moves as there are pairs.
Move(successors, u) == IF u \in DOMAIN successors THEN successors[u] ELSE u
Moves(it, successors, t, n) ==
    /\ n = Cardinality(DOMAIN successors)
    /\ it[0] = t /\ \A i \in 1 .. n : it[i] = Move(successors, it[i - 1])

LEMMA RootIsItsMoves ==
    ASSUME NEW successors, IsFiniteSet(DOMAIN successors), NEW t
    PROVE  \E it, n : n \in Nat /\ Moves(it, successors, t, n) /\ Root(successors, t) = it[n]
  <1>1. PICK n : n = Cardinality(DOMAIN successors) /\ n \in Nat
    BY FS_CardinalityType
  <1>2. PICK S : S = {t} \cup DOMAIN successors \cup {successors[u] : u \in DOMAIN successors}
    OBVIOUS
  <1>3. PICK next : next = [u \in S |-> Move(successors, u)]
    OBVIOUS
  <1>4. next \in [S -> S] /\ t \in S
    BY <1>2, <1>3 DEF Move
  <1>5. PICK it \in [0 .. n -> S] : Iterates(it, next, t, n)
    BY <1>1, <1>4, IteratesExist
  <1> DEFINE seq == [i \in 1 .. Cardinality(DOMAIN successors) |-> i]
             R(g) == g = [s \in SUBSET (DOMAIN seq) |->
                             IF s = {} THEN t
                             ELSE LET x == Max(s)
                                      u == g[s \ {x}]
                                  IN  IF u \in DOMAIN successors THEN successors[u] ELSE u]
  <1>6. DOMAIN seq = 1 .. n
    BY <1>1
  <1>7. Root(successors, t) = (CHOOSE g : R(g))[DOMAIN seq]
    BY Zenon DEF Root, FoldLeft, MapThenFoldSet
  <1> HIDE DEF seq
  <1>8. PICK f : f = [s \in SUBSET (1 .. n) |-> it[Cardinality(s)]]
    OBVIOUS
  <1>9. \A s \in SUBSET (1 .. n) : FoldsAt(f, s, S, next, t)
    BY <1>1, <1>4, <1>5, <1>8, FoldIsIterated
  <1>10. R(f)
    <2>1. \A s \in SUBSET (1 .. n) : f[s] = IF s = {} THEN t ELSE Move(successors, f[s \ {Max(s)}])
      BY <1>3, <1>9 DEF FoldsAt
    <2>2. f = [s \in SUBSET (1 .. n) |-> f[s]]
      BY <1>8
    <2>3. f = [s \in SUBSET (1 .. n) |-> IF s = {} THEN t ELSE Move(successors, f[s \ {Max(s)}])]
      BY <2>1, <2>2
    <2> QED BY <1>6, <2>3 DEF Move
  <1>11. R(CHOOSE g : R(g))
    BY <1>10, Zenon
  <1>12. PICK g : R(g) /\ Root(successors, t) = g[1 .. n]
    BY <1>6, <1>7, <1>11
  <1>13. \A s \in SUBSET (1 .. n) : g[s] = IF s = {} THEN t ELSE Move(successors, g[s \ {Max(s)}])
    BY <1>6, <1>12 DEF Move
  <1>14. PICK to : to = [i \in 0 .. n |-> g[1 .. i]]
    OBVIOUS
  <1>15. to[0] = t
    <2>1. 1 .. 0 = {} /\ 0 \in 0 .. n
      BY <1>1
    <2> QED BY <1>13, <1>14, <2>1
  <1>16. ASSUME NEW i \in 1 .. n PROVE to[i] = Move(successors, to[i - 1])
    <2>1. EndsAt(n, i)
      BY <1>1, StepsOfAFold, Zenon
    <2>2. g[1 .. i] = Move(successors, g[1 .. (i - 1)])
      BY <1>13, <2>1 DEF EndsAt
    <2>3. to[i] = g[1 .. i] /\ to[i - 1] = g[1 .. (i - 1)]
      BY <1>1, <1>14
    <2> QED BY <2>2, <2>3
  <1>17. Root(successors, t) = to[n]
    BY <1>1, <1>12, <1>14
  <1>18. Moves(to, successors, t, n)
    BY <1>1, <1>15, <1>16 DEF Moves
  <1> QED BY <1>1, <1>17, <1>18

\* A chain that has not ended after as many moves as there are pairs never does:
\* it has been somewhere twice, and goes round from there.
LEMMA CyclicNeverEnds ==
    ASSUME NEW successors, IsFiniteSet(DOMAIN successors)
    PROVE  Cyclic(successors) <=> NeverEnds(successors)
  <1> DEFINE D == DOMAIN successors
  <1>1. ASSUME Cyclic(successors) PROVE NeverEnds(successors)
    <2>1. PICK t \in D : Root(successors, t) \in D
      BY <1>1 DEF Cyclic
    <2>2. PICK it, n : n \in Nat /\ Moves(it, successors, t, n) /\ Root(successors, t) = it[n]
      BY RootIsItsMoves
    <2>3. n = Cardinality(D) /\ it[n] \in D
      BY <2>1, <2>2 DEF Moves
    <2>4. ASSUME NEW i \in 1 .. n, it[i] \in D PROVE it[i - 1] \in D /\ it[i] = successors[it[i - 1]]
      BY <2>2, <2>4 DEF Moves, Move
    <2> DEFINE Bad == {k \in 0 .. n : it[n - k] \notin D}
    <2>5. Bad = {}
      <3>1. SUFFICES ASSUME Bad # {} PROVE FALSE
        OBVIOUS
      <3>2. PICK k \in Bad : \A m \in Bad : k <= m
        <4>1. Bad \subseteq Nat
          OBVIOUS
        <4> HIDE DEF Bad
        <4> QED BY <3>1, <4>1, LeastOf
      <3>3. k # 0
        BY <2>2, <2>3, <3>2
      <3>4. k \in 1 .. n /\ k - 1 \in 0 .. n /\ k - 1 \notin Bad
        BY <2>2, <3>2, <3>3
      <3>5. it[n - (k - 1)] \in D
        BY <3>4
      <3>6. PICK i : i = n - (k - 1)
        OBVIOUS
      <3>7. i \in 1 .. n /\ i - 1 = n - k
        BY <2>2, <3>4, <3>6
      <3>8. it[i - 1] \in D
        BY <2>4, <3>5, <3>6, <3>7
      <3> QED BY <3>2, <3>7, <3>8
    <2>6. \A i \in 0 .. n : it[i] \in D
      <3>1. ASSUME NEW i \in 0 .. n PROVE it[i] \in D
        <4>1. n - i \in 0 .. n /\ n - (n - i) = i
          BY <2>2
        <4> QED BY <2>5, <4>1
      <3> QED BY <3>1
    <2>7. PICK i, j \in 0 .. n : i < j /\ it[i] = it[j]
      <3>1. PICK f : f = [k \in 0 .. n |-> it[k]]
        OBVIOUS
      <3>2. f \in [0 .. n -> D]
        BY <2>6, <3>1
      <3>3. IsFiniteSet(0 .. n) /\ Cardinality(0 .. n) = n + 1
        BY <2>2, FS_Interval
      <3>4. Cardinality(0 .. n) > Cardinality(D)
        BY <2>2, <2>3, <3>3
      <3>5. PICK x, y \in 0 .. n : x # y /\ f[x] = f[y]
        <4>1. \E x, y \in 0 .. n : x # y /\ f[x] = f[y]
          BY <3>2, <3>3, <3>4, FS_PigeonHole
        <4> QED BY <4>1
      <3>6. it[x] = it[y] /\ (x < y \/ y < x)
        BY <2>2, <3>1, <3>5
      <3> QED BY <3>5, <3>6
    <2>8. PICK S : S = {it[k] : k \in i .. j}
      OBVIOUS
    <2>9. S \in SUBSET D /\ S # {}
      BY <2>2, <2>6, <2>7, <2>8
    <2>10. ASSUME NEW u \in S PROVE successors[u] \in S
      <3>1. \E k \in i .. (j - 1) : u = it[k]
        <4>1. PICK k \in i .. j : u = it[k]
          BY <2>8
        <4>2. CASE k = j
          BY <2>2, <2>7, <4>1, <4>2
        <4>3. CASE k # j
          BY <2>2, <2>7, <4>1, <4>3
        <4> QED BY <4>2, <4>3
      <3>2. PICK k \in i .. (j - 1) : u = it[k]
        BY <3>1
      <3>3. k + 1 \in 1 .. n /\ k + 1 \in i .. j /\ (k + 1) - 1 = k /\ k + 1 \in 0 .. n
        BY <2>2, <2>7, <3>2
      <3>4. it[k + 1] = successors[it[(k + 1) - 1]]
        BY <2>4, <2>6, <3>3
      <3> QED BY <2>8, <3>2, <3>3, <3>4
    <2> QED BY <2>9, <2>10 DEF NeverEnds
  <1>2. ASSUME NeverEnds(successors) PROVE Cyclic(successors)
    <2>1. PICK S \in SUBSET D : S # {} /\ \A t \in S : successors[t] \in S
      BY <1>2 DEF NeverEnds
    <2>2. PICK t \in S : TRUE
      BY <2>1
    <2>3. PICK it, n : n \in Nat /\ Moves(it, successors, t, n) /\ Root(successors, t) = it[n]
      BY RootIsItsMoves
    <2> DEFINE Bad == {i \in 0 .. n : it[i] \notin S}
    <2>4. Bad = {}
      <3>1. SUFFICES ASSUME Bad # {} PROVE FALSE
        OBVIOUS
      <3>2. PICK k \in Bad : \A m \in Bad : k <= m
        <4>1. Bad \subseteq Nat
          OBVIOUS
        <4> HIDE DEF Bad
        <4> QED BY <3>1, <4>1, LeastOf
      <3>3. k # 0
        BY <2>2, <2>3, <3>2 DEF Moves
      <3>4. k \in 1 .. n /\ k - 1 \in 0 .. n /\ k - 1 \notin Bad
        BY <2>3, <3>2, <3>3
      <3>5. it[k - 1] \in S
        BY <3>4
      <3>6. it[k] = successors[it[k - 1]]
        BY <2>1, <2>3, <3>4, <3>5 DEF Moves, Move
      <3> QED BY <2>1, <3>2, <3>5, <3>6
    <2>5. Root(successors, t) \in D
      <3>1. n \in 0 .. n
        BY <2>3
      <3> QED BY <2>1, <2>3, <2>4, <3>1
    <2> QED BY <2>1, <2>2, <2>5 DEF Cyclic
  <1> QED BY <1>1, <1>2

-----------------------------------------------------------------------------
(* What a franchise carries from game to game *)

\* The points of a game between two franchises.
Given(new, elo, h, a, home, away, s) ==
    /\ DOMAIN new = DOMAIN elo \cup {h, a}
    /\ new[h] = home + s /\ new[a] = away - s
    /\ \A t \in DOMAIN elo : t \notin {h, a} => new[t] = elo[t]
LEMMA PointsOfAGame ==
    ASSUME NEW elo, NEW h, NEW a, h # a, NEW home \in Int, NEW away \in Int, NEW s \in Int,
           NEW new, new = Moved(elo, h, a, home, away, s)
    PROVE  Given(new, elo, h, a, home, away, s)
  <1>1. PICK T : T = DOMAIN elo
    OBVIOUS
  <1>2. PICK e : e = Put(Put(elo, a, away), h, home)
    OBVIOUS
  <1>3. /\ DOMAIN e = T \cup {h, a} /\ e[h] = home /\ e[a] = away
        /\ \A t \in T : t \notin {h, a} => e[t] = elo[t]
    BY <1>1, <1>2 DEF Put
  <1>4. PICK e1 : e1 = [e EXCEPT ![h] = @ + s]
    OBVIOUS
  <1>5. /\ DOMAIN e1 = T \cup {h, a} /\ e1[h] = home + s /\ e1[a] = away
        /\ \A t \in T : t \notin {h, a} => e1[t] = elo[t]
    BY <1>3, <1>4
  <1>6. new = [e1 EXCEPT ![a] = @ - s]
    BY <1>2, <1>4 DEF Moved
  <1> QED BY <1>1, <1>5, <1>6 DEF Given

\* The games that t played among the first i.
Appearances(f, i, t) == {j \in 1 .. i : t \in {f[j].home, f[j].away}}
\* What is kept of a franchise's last game.
FromItsLast(w, f, i, t) ==
    /\ w[i].elo[t] \in Int
    /\ w[i].last_season[t] = f[Max(Appearances(f, i, t))].season
    /\ w[i].elo[t] = w[Max(Appearances(f, i, t))].elo[t]
CarriedTold(w, f, i) ==
    /\ Shape(w[i]) /\ w[i].overlap = FALSE
    /\ \A r \in DOMAIN w[i].participants : w[i].participants[r] = r
    /\ DOMAIN w[i].last_season = DOMAIN w[i].elo
    /\ \A t : t \in DOMAIN w[i].elo <=> Appearances(f, i, t) # {}
    /\ \A t \in DOMAIN w[i].elo : FromItsLast(w, f, i, t)
\* The games of a walk: played in the order of their seasons.
WalkHolds(f, n) ==
    /\ n \in Nat /\ DOMAIN f = 1 .. n
    /\ \A i \in 1 .. n : /\ f[i].hp \in Int /\ f[i].ap \in Int /\ f[i].season \in Int
                         /\ f[i].home # f[i].away
    /\ \A i, j \in 1 .. n : i < j => f[i].season <= f[j].season

LEMMA AppearancesFacts ==
    ASSUME NEW f, NEW i \in Nat, NEW t
    PROVE  Appearances(f, i, t) # {} => Max(Appearances(f, i, t)) \in Appearances(f, i, t)
  <1>1. Appearances(f, i, t) \subseteq 0 .. i
    BY DEF Appearances
  <1> QED BY <1>1, GreatestOf

\* A game enters with what the walk remembers of the franchise, which is what its
\* last game left.
LEMMA EnteredIsCarried ==
    ASSUME NEW f, NEW n, WalkHolds(f, n), NEW i \in 1 .. n, NEW w, CarriedTold(w, f, i - 1),
           NEW after, \A j \in 1 .. n : after[j] = w[j].elo, NEW t
    PROVE  /\ Entered(w[i - 1], t, f[i].season, TRUE) = Carried(f, after, i, t)
           /\ Carried(f, after, i, t) \in Int
  <1>1. PICK P : P = Appearances(f, i - 1, t)
    OBVIOUS
  <1>2. n \in Nat /\ i - 1 \in Nat
    BY DEF WalkHolds
  <1>3. t \in DOMAIN w[i - 1].elo <=> P # {}
    BY <1>1 DEF CarriedTold
  <1>4. Carried(f, after, i, t)
           = IF P = {} THEN ELO.initial
             ELSE Reverted(after[Max(P)][t], f[i].season - f[Max(P)].season)
    BY <1>1 DEF Carried, Appearances
  <1>5. Entered(w[i - 1], t, f[i].season, TRUE)
           = IF P = {} THEN ELO.initial
             ELSE Reverted(w[i - 1].elo[t], f[i].season - w[i - 1].last_season[t])
    BY <1>3 DEF Entered
  <1>6. CASE P = {}
    BY <1>4, <1>5, <1>6, EloAssumption
  <1>7. CASE P # {}
    <2>1. PICK m : m = Max(P)
      OBVIOUS
    <2>2. m \in P
      BY <1>1, <1>2, <1>7, <2>1, AppearancesFacts
    <2>3. m \in 1 .. n /\ m < i
      BY <1>1, <1>2, <2>2 DEF Appearances
    <2>4. FromItsLast(w, f, i - 1, t)
      BY <1>3, <1>7 DEF CarriedTold
    <2>5. PICK x, d : x = w[i - 1].elo[t] /\ d = f[i].season - f[m].season
      OBVIOUS
    <2>6. x \in Int /\ w[i - 1].last_season[t] = f[m].season /\ after[m][t] = x
      BY <1>1, <2>1, <2>3, <2>4, <2>5 DEF FromItsLast
    <2>7. d \in Nat
      <3>1. f[i].season \in Int /\ f[m].season \in Int /\ f[m].season <= f[i].season
        BY <2>3 DEF WalkHolds
      <3> QED BY <2>5, <3>1
    <2>8. Reverted(x, d) \in Int
      BY <2>6, <2>7, RevertedIsWhole
    <2>9. Entered(w[i - 1], t, f[i].season, TRUE) = Reverted(x, d)
      BY <1>5, <1>7, <2>5, <2>6
    <2>10. Carried(f, after, i, t) = Reverted(x, d)
      BY <1>4, <1>7, <2>1, <2>5, <2>6
    <2> QED BY <2>8, <2>9, <2>10
  <1> QED BY <1>6, <1>7

Entering(w, f, i, t) == Entered(w[i - 1], t, f[i].season, TRUE)
\* What a game does to the points of the two franchises that play it.
PointsFollow(w, f, i) ==
    LET home == Entering(w, f, i, f[i].home)
        away == Entering(w, f, i, f[i].away)
        s == GameUpdate(home, away, f[i]).shift
    IN  w[i].elo[f[i].home] = home + s /\ w[i].elo[f[i].away] = away - s /\ s \in Int

\* A game more leaves both its franchises a last game, and the others theirs.
LEMMA CarriedStep ==
    ASSUME NEW f, NEW n, WalkHolds(f, n), NEW i \in 1 .. n, NEW w, CarriedTold(w, f, i - 1),
           NEW year, w[i] = EloStep(w[i - 1], f[i], <<>>, TRUE, year)
    PROVE  CarriedTold(w, f, i) /\ PointsFollow(w, f, i)
  <1>1. PICK g, h, a : g = f[i] /\ h = g.home /\ a = g.away
    OBVIOUS
  <1>2. PICK walk, new : walk = w[i - 1] /\ new = w[i]
    OBVIOUS
  <1>3. PICK home, away : home = Entered(walk, h, g.season, TRUE) /\ away = Entered(walk, a, g.season, TRUE)
    OBVIOUS
  <1>4. PICK update : update = GameUpdate(home, away, g)
    OBVIOUS
  <1>5. PICK s : s = update.shift
    OBVIOUS
  <1>6. /\ n \in Nat /\ i - 1 \in Nat /\ i \in Nat
        /\ g.hp \in Int /\ g.ap \in Int /\ g.season \in Int /\ h # a
    BY <1>1 DEF WalkHolds
  <1>7. home \in Int /\ away \in Int
    <2>1. PICK after : after = [j \in 1 .. n |-> w[j].elo]
      OBVIOUS
    <2>2. \A j \in 1 .. n : after[j] = w[j].elo
      BY <2>1
    <2>3. ASSUME NEW t PROVE Entered(w[i - 1], t, f[i].season, TRUE) \in Int
      <3>1. /\ Entered(w[i - 1], t, f[i].season, TRUE) = Carried(f, after, i, t)
            /\ Carried(f, after, i, t) \in Int
        BY <2>2, EnteredIsCarried
      <3> QED BY <3>1
    <2> QED BY <1>1, <1>2, <1>3, <2>3
  <1>8. s \in Int
    BY <1>4, <1>5, <1>6, <1>7, UpdateFacts
  <1>9. /\ Shape(walk) /\ walk.overlap = FALSE
        /\ \A r \in DOMAIN walk.participants : walk.participants[r] = r
    BY <1>2 DEF CarriedTold
  <1>10. h = Root(<<>>, g.home) /\ a = Root(<<>>, g.away)
    BY <1>1, NoMoves
  <1>11. ~Overlapping(walk, g, h, a)
    BY <1>1, <1>9 DEF Overlapping, Clash, Put
  <1>12. Shape(new) /\ Stepped(new, walk, g, h, a, home, away, update, TRUE, year)
    <2>1. new = EloStep(walk, g, <<>>, TRUE, year)
      BY <1>1, <1>2
    <2> QED BY <1>3, <1>4, <1>9, <1>10, <1>11, <2>1, StepFields
  <1>13. /\ DOMAIN new.elo = DOMAIN walk.elo \cup {h, a}
         /\ new.elo[h] = home + s /\ new.elo[a] = away - s
         /\ \A t \in DOMAIN walk.elo : t \notin {h, a} => new.elo[t] = walk.elo[t]
    <2>1. PICK old, elo : old = walk.elo /\ elo = new.elo
      OBVIOUS
    <2>2. elo = Moved(old, h, a, home, away, s)
      BY <1>5, <1>12, <2>1 DEF Stepped
    <2>3. Given(elo, old, h, a, home, away, s)
      BY <1>6, <1>7, <1>8, <2>2, PointsOfAGame
    <2> QED BY <2>1, <2>3 DEF Given
  <1>14. /\ DOMAIN new.last_season = DOMAIN walk.last_season \cup {h, a}
         /\ new.last_season[h] = g.season /\ new.last_season[a] = g.season
         /\ \A t : t \notin {h, a} /\ t \in DOMAIN walk.last_season =>
               new.last_season[t] = walk.last_season[t]
    <2>1. PICK old : old = walk.last_season
      OBVIOUS
    <2>2. new.last_season = Put(Put(old, a, g.season), h, g.season)
      BY <1>12, <2>1 DEF Stepped
    <2>3. PICK last : last = new.last_season
      OBVIOUS
    <2>4. /\ DOMAIN last = DOMAIN old \cup {h, a}
          /\ last[h] = g.season /\ last[a] = g.season
          /\ \A t : t \notin {h, a} /\ t \in DOMAIN old => last[t] = old[t]
      BY <2>2, <2>3 DEF Put
    <2> QED BY <2>1, <2>3, <2>4
  <1>15. \A r \in DOMAIN new.participants : new.participants[r] = r
    <2>1. CASE Counts(g, TRUE, year)
      <3>1. PICK old : old = walk.participants
        OBVIOUS
      <3>2. new.participants = Put(Put(old, h, h), a, a)
        BY <1>1, <1>12, <2>1, <3>1 DEF Stepped
      <3>3. \A r \in DOMAIN old : old[r] = r
        BY <1>9, <3>1
      <3> QED BY <3>2, <3>3 DEF Put
    <2>2. CASE ~Counts(g, TRUE, year)
      BY <1>9, <1>12, <2>2 DEF Stepped
    <2> QED BY <2>1, <2>2
  <1>16. ASSUME NEW t
         PROVE  Appearances(f, i, t)
                   = IF t \in {h, a} THEN Appearances(f, i - 1, t) \cup {i} ELSE Appearances(f, i - 1, t)
    <2>1. \A j : j \in 1 .. i <=> j \in 1 .. (i - 1) \/ j = i
      BY <1>6
    <2> QED BY <1>1, <2>1 DEF Appearances
  <1>17. \A t : t \in DOMAIN new.elo <=> Appearances(f, i, t) # {}
    BY <1>2, <1>13, <1>16 DEF CarriedTold
  <1>18. ASSUME NEW t \in {h, a} PROVE FromItsLast(w, f, i, t)
    <2>1. Max(Appearances(f, i, t)) = i
      <3>1. /\ Appearances(f, i, t) \subseteq Int /\ i \in Appearances(f, i, t)
            /\ \A j \in Appearances(f, i, t) : j <= i
        BY <1>1, <1>6, <1>18 DEF Appearances
      <3> QED BY <3>1, MaxIs
    <2>2. new.elo[t] \in Int
      BY <1>7, <1>8, <1>13, <1>18
    <2>3. new.last_season[t] = g.season
      BY <1>14, <1>18
    <2> QED BY <1>1, <1>2, <2>1, <2>2, <2>3 DEF FromItsLast
  <1>19. ASSUME NEW t \in DOMAIN new.elo, t \notin {h, a} PROVE FromItsLast(w, f, i, t)
    <2>1. t \in DOMAIN walk.elo /\ new.elo[t] = walk.elo[t]
      BY <1>13, <1>19
    <2>2. FromItsLast(w, f, i - 1, t)
      BY <1>2, <2>1 DEF CarriedTold
    <2>3. Appearances(f, i, t) = Appearances(f, i - 1, t)
      BY <1>16, <1>19
    <2>4. new.last_season[t] = walk.last_season[t]
      BY <1>2, <1>14, <1>19, <2>1 DEF CarriedTold
    <2> QED BY <1>2, <2>1, <2>2, <2>3, <2>4 DEF FromItsLast
  <1>20. CarriedTold(w, f, i)
    <2>1. new.overlap = FALSE
      BY <1>12 DEF Stepped
    <2>2. DOMAIN new.last_season = DOMAIN new.elo
      BY <1>2, <1>13, <1>14 DEF CarriedTold
    <2> QED BY <1>2, <1>12, <1>15, <1>17, <1>18, <1>19, <2>1, <2>2 DEF CarriedTold
  <1>21. PointsFollow(w, f, i)
    BY <1>1, <1>2, <1>3, <1>4, <1>5, <1>8, <1>13 DEF PointsFollow, Entering
  <1> QED BY <1>20, <1>21

\* A walk over the first games of a list is where the walk over the list was.
LEMMA PrefixWalks ==
    ASSUME NEW X, NEW f \in Seq(X), NEW n, n = Len(f), NEW roots, NEW career, NEW year,
           NEW w, Walks(w, f, n, roots, career, year), NEW i \in 1 .. n
    PROVE  EloWalk(SubSeq(f, 1, i), roots, career, year) = w[i]
  <1>1. PICK g : g = SubSeq(f, 1, i)
    OBVIOUS
  <1>2. n \in Nat /\ i \in Nat /\ DOMAIN g = 1 .. i /\ \A k \in 1 .. i : g[k] = f[k]
    BY <1>1
  <1>3. PICK v : Walks(v, g, i, roots, career, year) /\ EloWalk(g, roots, career, year) = v[i]
    <2>1. Stepwise(g, i, roots, career, year)
      BY <1>2, WalkIsItsSteps
    <2> QED BY <2>1 DEF Stepwise
  <1> DEFINE Bad == {k \in 0 .. i : v[k] # w[k]}
  <1>4. Bad = {}
    <2>1. SUFFICES ASSUME Bad # {} PROVE FALSE
      OBVIOUS
    <2>2. PICK k \in Bad : \A m \in Bad : k <= m
      <3>1. Bad \subseteq Nat
        OBVIOUS
      <3> HIDE DEF Bad
      <3> QED BY <2>1, <3>1, LeastOf
    <2>3. k # 0
      BY <1>3, <2>2 DEF Walks
    <2>4. k \in 1 .. i /\ k \in 1 .. n /\ k - 1 \in 0 .. i /\ k - 1 \notin Bad
      BY <1>2, <2>2, <2>3
    <2>5. v[k - 1] = w[k - 1]
      BY <2>4
    <2>6. v[k] = EloStep(v[k - 1], g[k], roots, career, year)
      BY <1>3, <2>4 DEF Walks
    <2>7. w[k] = EloStep(w[k - 1], f[k], roots, career, year)
      BY <2>4 DEF Walks
    <2>8. g[k] = f[k]
      BY <1>2, <2>4
    <2>9. v[k] = w[k]
      BY <2>5, <2>6, <2>7, <2>8
    <2> QED BY <2>2, <2>9
  <1>5. v[i] = w[i]
    BY <1>2, <1>4
  <1> QED BY <1>1, <1>3, <1>5

\* What is loaded for a career is a walk in the order of its seasons.
LEMMA CareerIsLoaded ==
    ASSUME NEW gs, GamesHold(gs), NEW year, NEW history, NEW f, f = LoadGames(gs, year, history),
           NEW n, n = Cardinality(GamesOf(gs, year, history))
    PROVE  WalkHolds(f, n) /\ f \in Seq(gs) /\ n = Len(f)
  <1>1. PICK S : S = GamesOf(gs, year, history)
    OBVIOUS
  <1>2. Lists(f, S, GameOrder(S))
    BY <1>1, LoadedInOrder DEF GamesHold
  <1>3. S \subseteq gs /\ \A g \in S : g.hp \in Int /\ g.ap \in Int
    BY <1>1 DEF GamesOf, Loadable
  <1>4. n \in Nat
    BY <1>1, <1>3, FS_Subset, FS_CardinalityType DEF GamesHold, Dated
  <1>5. DOMAIN f = 1 .. n /\ \A i \in 1 .. n : f[i] \in S
    BY <1>1, <1>2 DEF Lists
  <1>6. f = [i \in 1 .. n |-> f[i]]
    <2> DEFINE Here(i) == CHOOSE g \in S : 1 + Cardinality({h \in S : EloOrder(h, g)}) = i
    <2>0. f = [i \in 1 .. n |-> Here(i)]
      BY <1>1 DEF LoadGames, GamesOf
    <2> HIDE DEF Here
    <2>1. f = [i \in DOMAIN f |-> f[i]]
      BY <2>0
    <2> QED BY <1>5, <2>1
  <1>7. f \in Seq(gs) /\ n = Len(f)
    <2>1. \A i \in 1 .. n : f[i] \in gs
      BY <1>3, <1>5
    <2>2. f \in [1 .. n -> gs]
      BY <1>6, <2>1
    <2>3. f \in Seq(gs)
      BY <1>4, <2>2
    <2>4. Len(f) \in Nat /\ DOMAIN f = 1 .. Len(f)
      BY <2>3
    <2> QED BY <1>4, <1>5, <2>3, <2>4
  <1>8. ASSUME NEW i \in 1 .. n
        PROVE  /\ f[i].hp \in Int /\ f[i].ap \in Int /\ f[i].season \in Int
               /\ f[i].home # f[i].away
    BY <1>3, <1>5 DEF GamesHold, Dated
  <1>9. ASSUME NEW i \in 1 .. n, NEW j \in 1 .. n, i < j PROVE f[i].season <= f[j].season
    <2>1. <<f[i], f[j]>> \in GameOrder(S)
      BY <1>2, <1>5, <1>9 DEF Lists
    <2>2. EloOrder(f[i], f[j])
      BY <2>1 DEF GameOrder
    <2>3. PICK g, h : g = f[i] /\ h = f[j]
      OBVIOUS
    <2>4. g.season \in Int /\ h.season \in Int /\ EloOrder(g, h)
      BY <1>8, <2>2, <2>3
    <2>5. g.season <= h.season
      BY <2>4 DEF EloOrder
    <2> QED BY <2>3, <2>5
  <1> QED BY <1>4, <1>5, <1>7, <1>8, <1>9 DEF WalkHolds

\* Every game of a career starts from what the last ones left.
LEMMA CareerCarriesOver ==
    ASSUME NEW X, NEW f \in Seq(X), NEW n, n = Len(f), WalkHolds(f, n), NEW year
    PROVE  GamesCarryOver(f, AfterEach(f, year))
  <1>1. n \in Nat /\ DOMAIN f = 1 .. n
    BY DEF WalkHolds
  <1>2. PICK w : Walks(w, f, n, <<>>, TRUE, year)
    <2>1. Stepwise(f, n, <<>>, TRUE, year)
      BY <1>1, WalkIsItsSteps
    <2> QED BY <2>1 DEF Stepwise
  <1>3. PICK after : after = AfterEach(f, year)
    OBVIOUS
  <1>4. ASSUME NEW i \in 1 .. n PROVE after[i] = w[i].elo
    <2>1. after[i] = EloWalk(SubSeq(f, 1, i), <<>>, TRUE, year).elo
      BY <1>1, <1>3 DEF AfterEach
    <2>2. EloWalk(SubSeq(f, 1, i), <<>>, TRUE, year) = w[i]
      <3>1. PICK roots, career : roots = <<>> /\ career = TRUE
        OBVIOUS
      <3>2. Walks(w, f, n, roots, career, year)
        BY <1>2, <3>1
      <3>3. EloWalk(SubSeq(f, 1, i), roots, career, year) = w[i]
        BY <3>2, PrefixWalks
      <3> QED BY <3>1, <3>3
    <2> QED BY <2>1, <2>2
  <1>5. CarriedTold(w, f, 0)
    <2>1. w[0] = NoGames
      BY <1>2 DEF Walks
    <2>2. DOMAIN <<>> = {} /\ \A t : Appearances(f, 0, t) = {}
      BY DEF Appearances
    <2>3. /\ w[0].elo = <<>> /\ w[0].last_season = <<>> /\ w[0].participants = <<>>
          /\ w[0].overlap = FALSE /\ Shape(w[0])
      BY <2>1 DEF NoGames, Shape
    <2> QED BY <2>2, <2>3 DEF CarriedTold
  <1>6. ASSUME NEW i \in 1 .. n, CarriedTold(w, f, i - 1)
        PROVE  CarriedTold(w, f, i) /\ PointsFollow(w, f, i)
    <2>1. w[i] = EloStep(w[i - 1], f[i], <<>>, TRUE, year)
      BY <1>2 DEF Walks
    <2> QED BY <1>6, <2>1, CarriedStep
  <1> DEFINE Bad == {i \in 0 .. n : ~CarriedTold(w, f, i)}
  <1>7. Bad = {}
    <2>1. SUFFICES ASSUME Bad # {} PROVE FALSE
      OBVIOUS
    <2>2. PICK k \in Bad : \A m \in Bad : k <= m
      <3>1. Bad \subseteq Nat
        OBVIOUS
      <3> HIDE DEF Bad
      <3> QED BY <2>1, <3>1, LeastOf
    <2>3. k # 0
      BY <1>5, <2>2
    <2>4. k \in 1 .. n /\ k - 1 \in 0 .. n /\ k - 1 \notin Bad
      BY <1>1, <2>2, <2>3
    <2> QED BY <1>6, <2>2, <2>4
  <1>8. ASSUME NEW i \in DOMAIN f
        PROVE  LET g == f[i]
                   home == Carried(f, after, i, g.home)
                   away == Carried(f, after, i, g.away)
               IN  /\ after[i][g.home] + after[i][g.away] = home + away
                   /\ after[i][g.home] - home = GameUpdate(home, away, g).shift
    <2>1. i \in 1 .. n /\ i - 1 \in 0 .. n
      BY <1>1, <1>8
    <2>2. CarriedTold(w, f, i - 1) /\ PointsFollow(w, f, i)
      BY <1>6, <1>7, <2>1
    <2>3. PICK g, home, away : /\ g = f[i] /\ home = Carried(f, after, i, g.home)
                               /\ away = Carried(f, after, i, g.away)
      OBVIOUS
    <2>4. ASSUME NEW t
          PROVE  /\ Entered(w[i - 1], t, f[i].season, TRUE) = Carried(f, after, i, t)
                 /\ Carried(f, after, i, t) \in Int
      BY <1>4, <2>1, <2>2, EnteredIsCarried
    <2>5. /\ home \in Int /\ away \in Int
          /\ Entering(w, f, i, g.home) = home /\ Entering(w, f, i, g.away) = away
      BY <2>3, <2>4 DEF Entering
    <2>6. PICK s : s = GameUpdate(home, away, g).shift
      OBVIOUS
    <2>7. w[i].elo[g.home] = home + s /\ w[i].elo[g.away] = away - s /\ s \in Int
      BY <2>2, <2>3, <2>5, <2>6 DEF PointsFollow
    <2>8. after[i][g.home] = home + s /\ after[i][g.away] = away - s
      BY <1>4, <2>1, <2>7
    <2>9. /\ after[i][g.home] + after[i][g.away] = home + away
          /\ after[i][g.home] - home = s
      BY <2>5, <2>7, <2>8
    <2> QED BY <2>3, <2>6, <2>9
  <1> QED BY <1>3, <1>8 DEF GamesCarryOver

-----------------------------------------------------------------------------
(* The games of a franchise under its last name *)

Rename(successors, g) ==
    [g EXCEPT !.home = Root(successors, @), !.away = Root(successors, @)]
SameBut(successors, r, g) ==
    /\ r.id = g.id /\ r.season = g.season /\ r.type = g.type /\ r.hp = g.hp /\ r.ap = g.ap
    /\ r.completed = g.completed /\ r.neutral = g.neutral
    /\ r.home = Root(successors, g.home) /\ r.away = Root(successors, g.away)

LEMMA RenameFacts ==
    ASSUME NEW successors, NEW g, GameColumns \subseteq DOMAIN g,
           NEW r, r = Rename(successors, g)
    PROVE  SameBut(successors, r, g)
  <1>1. PICK h, a : h = Root(successors, g.home) /\ a = Root(successors, g.away)
    OBVIOUS
  <1>2. r = [[g EXCEPT !.home = h] EXCEPT !.away = a]
    BY <1>1 DEF Rename, GameColumns
  <1>3. /\ "home" \in DOMAIN g /\ "away" \in DOMAIN g /\ "id" \in DOMAIN g
        /\ "season" \in DOMAIN g /\ "type" \in DOMAIN g /\ "hp" \in DOMAIN g /\ "ap" \in DOMAIN g
        /\ "completed" \in DOMAIN g /\ "neutral" \in DOMAIN g
    BY DEF GameColumns
  <1>4. PICK e : e = [g EXCEPT !.home = h]
    OBVIOUS
  <1>5. /\ DOMAIN e = DOMAIN g /\ e.home = h
        /\ \A x \in DOMAIN g : x # "home" => e[x] = g[x]
    BY <1>3, <1>4
  <1>6. /\ r.away = a /\ \A x \in DOMAIN g : x # "away" => r[x] = e[x]
    BY <1>2, <1>3, <1>4, <1>5
  <1> QED BY <1>1, <1>3, <1>5, <1>6 DEF SameBut

\* They are as many, in the same order.
LEMMA RenamedList ==
    ASSUME NEW successors, NEW gs, GamesHold(gs), NEW year, NEW history,
           NEW f, f = LoadGames(gs, year, history),
           NEW to, to = LoadGames(Renamed(gs, successors), year, history)
    PROVE  /\ DOMAIN to = DOMAIN f
           /\ \A i \in DOMAIN f : to[i] = Rename(successors, f[i])
  <1>1. PICK all : all = Renamed(gs, successors)
    OBVIOUS
  <1>2. PICK U, V : U = GamesOf(gs, year, history) /\ V = GamesOf(all, year, history)
    OBVIOUS
  <1>3. PICK key : key = [g \in gs |-> Rename(successors, g)]
    OBVIOUS
  <1>4. ASSUME NEW g \in gs PROVE SameBut(successors, key[g], g)
    BY <1>3, RenameFacts DEF GamesHold
  <1>5. all = {key[g] : g \in gs}
    BY <1>1, <1>3 DEF Renamed, Rename
  <1>6. Dated(all)
    <2>1. IsFiniteSet(all)
      BY <1>5, ImageIsFinite DEF GamesHold, Dated
    <2> QED BY <1>4, <1>5, <2>1 DEF GamesHold, Dated, SameBut
  <1>7. U \subseteq gs /\ IsFiniteSet(U) /\ \A g, h \in U : g.id = h.id => g = h
    BY <1>2, FS_Subset DEF GamesOf, GamesHold, Dated
  <1>8. \A g \in gs : g \in U <=> key[g] \in V
    <2>1. ASSUME NEW g \in gs PROVE g \in U <=> key[g] \in V
      <3>1. PICK r : r = key[g]
        OBVIOUS
      <3>2. SameBut(successors, r, g) /\ r \in all
        BY <1>4, <1>5, <3>1
      <3>3. Loadable(r) <=> Loadable(g)
        BY <3>2 DEF SameBut, Loadable
      <3> QED BY <1>2, <3>1, <3>2, <3>3 DEF GamesOf, SameBut
    <2> QED BY <2>1
  <1>9. V = {key[g] : g \in U}
    <2>1. V \subseteq all
      BY <1>2 DEF GamesOf
    <2> QED BY <1>5, <1>7, <1>8, <2>1
  <1>10. \A g, h \in U : key[g] = key[h] => g = h
    BY <1>4, <1>7 DEF SameBut
  <1>11. Cardinality(V) = Cardinality(U)
    BY <1>7, <1>9, <1>10, SameCount
  <1>12. Lists(f, U, GameOrder(U)) /\ Lists(to, V, GameOrder(V))
    <2>1. Lists(f, U, GameOrder(U))
      BY <1>2, LoadedInOrder DEF GamesHold
    <2>2. to = LoadGames(all, year, history)
      BY <1>1
    <2>3. Lists(to, V, GameOrder(V))
      BY <1>2, <1>6, <2>2, LoadedInOrder
    <2> QED BY <2>1, <2>3
  <1>13. \A g, h \in U : EloOrder(key[h], key[g]) <=> EloOrder(h, g)
    <2>1. SUFFICES ASSUME NEW g \in U, NEW h \in U PROVE EloOrder(key[h], key[g]) <=> EloOrder(h, g)
      OBVIOUS
    <2>2. PICK r, x : r = key[g] /\ x = key[h]
      OBVIOUS
    <2>3. SameBut(successors, r, g) /\ SameBut(successors, x, h)
      BY <1>4, <1>7, <2>2
    <2> QED BY <2>2, <2>3 DEF EloOrder, SameBut
  <1>14. ASSUME NEW g \in U
         PROVE  Cardinality(Preceding(V, GameOrder(V), key[g])) = Cardinality(Preceding(U, GameOrder(U), g))
    <2>1. PICK P, Q : P = Preceding(U, GameOrder(U), g) /\ Q = Preceding(V, GameOrder(V), key[g])
      OBVIOUS
    <2>2. P = {h \in U : EloOrder(h, g)}
      BY <2>1 DEF Preceding, GameOrder
    <2>3. Q = {y \in V : EloOrder(y, key[g])}
      BY <1>9, <2>1 DEF Preceding, GameOrder
    <2>4. Q = {key[h] : h \in P}
      BY <1>9, <1>13, <2>2, <2>3
    <2>5. P \subseteq U /\ IsFiniteSet(P)
      BY <1>7, <2>2, FS_Subset
    <2>6. \A x, y \in P : key[x] = key[y] => x = y
      BY <1>10, <2>5
    <2>7. Cardinality(Q) = Cardinality(P)
      BY <2>4, <2>5, <2>6, SameCount
    <2> QED BY <2>1, <2>7
  <1>15. PICK n : n = Cardinality(U) /\ n \in Nat
    BY <1>7, FS_CardinalityType
  <1>16. DOMAIN f = 1 .. n /\ DOMAIN to = 1 .. n
    BY <1>11, <1>12, <1>15 DEF Lists
  <1>17. ASSUME NEW i \in 1 .. n PROVE to[i] = Rename(successors, f[i])
    <2>1. PICK g : g = f[i]
      OBVIOUS
    <2>2. g \in U /\ Cardinality(Preceding(U, GameOrder(U), g)) = i - 1
      BY <1>12, <1>16, <2>1 DEF Lists
    <2>3. key[g] \in V
      BY <1>9, <2>2
    <2>4. PICK j \in 1 .. n : to[j] = key[g]
      BY <1>12, <1>16, <2>3 DEF Lists
    <2>5. Cardinality(Preceding(V, GameOrder(V), key[g])) = j - 1
      BY <1>12, <1>16, <2>4 DEF Lists
    <2>6. j - 1 = i - 1
      BY <1>14, <2>2, <2>5
    <2>7. j = i
      BY <1>15, <2>6
    <2> QED BY <1>3, <1>7, <2>1, <2>2, <2>4, <2>7
  <1> QED BY <1>16, <1>17

-----------------------------------------------------------------------------
(* A career: one slot per franchise, and the franchise as one team *)

\* The slots of a season's walk are the franchises of the teams it has had.
Slots(slots, gs, roots) ==
    \A r : r \in DOMAIN slots <=> \E t \in Teams(gs) : r = Root(roots, t)
CareerTold(walk, gs, roots) ==
    /\ Shape(walk) /\ walk.overlap = FALSE
    /\ DOMAIN walk.records = Teams(gs) /\ Lettered(walk.records, gs)
    /\ Slots(walk.participants, gs, roots)
    /\ \A t \in Teams(gs) : walk.participants[Root(roots, t)] = t
\* A season's games so far, and one more when it is one of them.
Among(gs, g, year) == IF g.season = year THEN gs \cup {g} ELSE gs

\* A game keeps the slots, or finds two teams in one.
LEMMA CareerStep ==
    ASSUME NEW walk, NEW gs, NEW roots, CareerTold(walk, gs, roots), IsFiniteSet(gs),
           NEW g, g \notin gs, g.home # g.away, NEW year, NEW career, career = TRUE,
           NEW new, new = EloStep(walk, g, roots, career, year)
    PROVE  \/ CareerTold(new, Among(gs, g, year), roots)
           \/ new.overlap = TRUE /\ g.season = year /\ Overlaps(gs \cup {g}, roots)
  <1>1. PICK h, a : h = Root(roots, g.home) /\ a = Root(roots, g.away)
    OBVIOUS
  <1>2. PICK home, away : home = Entered(walk, h, g.season, career) /\ away = Entered(walk, a, g.season, career)
    OBVIOUS
  <1>3. PICK update : update = GameUpdate(home, away, g)
    OBVIOUS
  <1>4. PICK slots, records : slots = walk.participants /\ records = walk.records
    OBVIOUS
  <1>5. /\ Shape(walk) /\ walk.overlap = FALSE
        /\ DOMAIN records = Teams(gs) /\ Lettered(records, gs)
        /\ Slots(slots, gs, roots)
        /\ \A t \in Teams(gs) : slots[Root(roots, t)] = t
    BY <1>4 DEF CareerTold
  <1>6. /\ Shape(new)
        /\ Counts(g, career, year) /\ Overlapping(walk, g, h, a) =>
                 new = [walk EXCEPT !.overlap = TRUE]
        /\ ~(Counts(g, career, year) /\ Overlapping(walk, g, h, a)) =>
                 Stepped(new, walk, g, h, a, home, away, update, career, year)
    BY <1>1, <1>2, <1>3, <1>5, StepFields
  <1>7. Counts(g, career, year) <=> g.season = year
    BY DEF Counts
  <1>8. Teams(gs \cup {g}) = Teams(gs) \cup {g.home, g.away}
    BY DEF Teams
  <1>9. CASE g.season # year
    <2>1. Stepped(new, walk, g, h, a, home, away, update, career, year)
      BY <1>6, <1>7, <1>9
    <2>2. new.overlap = FALSE /\ new.participants = slots /\ new.records = records
      BY <1>4, <1>7, <1>9, <2>1 DEF Stepped
    <2>3. CareerTold(new, gs, roots)
      BY <1>5, <1>6, <2>2 DEF CareerTold
    <2> QED BY <1>9, <2>3 DEF Among
  <1>10. CASE g.season = year /\ Overlapping(walk, g, h, a)
    <2>1. new.overlap = TRUE
      BY <1>5, <1>6, <1>7, <1>10 DEF Shape
    <2>2. \E t \in Teams(gs \cup {g}), u \in Teams(gs \cup {g}) : t # u /\ Root(roots, t) = Root(roots, u)
      <3>1. CASE Clash(slots, h, g.home)
        <4>1. PICK t \in Teams(gs) : h = Root(roots, t)
          BY <1>5, <3>1 DEF Clash, Slots
        <4>2. slots[h] = t
          BY <1>5, <4>1
        <4>3. t # g.home
          BY <3>1, <4>2 DEF Clash
        <4> QED BY <1>1, <1>8, <4>1, <4>3
      <3>2. CASE Clash(Put(slots, h, g.home), a, g.away) /\ a = h
        BY <1>1, <1>8, <3>2
      <3>3. CASE Clash(Put(slots, h, g.home), a, g.away) /\ a # h
        <4>1. a \in DOMAIN slots /\ slots[a] # g.away
          BY <3>3 DEF Clash, Put
        <4>2. PICK t \in Teams(gs) : a = Root(roots, t)
          BY <1>5, <4>1 DEF Slots
        <4>3. slots[a] = t
          BY <1>5, <4>2
        <4>4. t # g.away
          BY <4>1, <4>3
        <4> QED BY <1>1, <1>8, <4>2, <4>4
      <3> QED BY <1>4, <1>10, <3>1, <3>2, <3>3 DEF Overlapping
    <2>3. Overlaps(gs \cup {g}, roots)
      BY <2>2 DEF Overlaps
    <2> QED BY <1>10, <2>1, <2>3
  <1>11. CASE g.season = year /\ ~Overlapping(walk, g, h, a)
    <2>1. Stepped(new, walk, g, h, a, home, away, update, career, year)
      BY <1>6, <1>11
    <2>2. /\ new.overlap = FALSE
          /\ new.participants = Put(Put(slots, h, g.home), a, g.away)
          /\ new.records = Put(Put(records, g.away, LetterOf(walk, g.away, g.ap, g.hp)),
                               g.home, LetterOf(walk, g.home, g.hp, g.ap))
      BY <1>4, <1>7, <1>11, <2>1 DEF Stepped
    <2>3. Lettered(new.records, gs \cup {g})
      <3>1. LetterFor(g, g.away) = ResultLetter(g.ap, g.hp) /\ LetterFor(g, g.home) = ResultLetter(g.hp, g.ap)
        BY DEF LetterFor
      <3>2. new.records = Put(Put(records, g.away, Append(Letters(records, g.away), LetterFor(g, g.away))),
                              g.home, Append(Letters(records, g.home), LetterFor(g, g.home)))
        BY <1>4, <2>2, <3>1 DEF LetterOf
      <3> QED BY <1>5, <3>2, LettersAdd
    <2>4. DOMAIN new.records = Teams(gs \cup {g})
      BY <1>5, <1>8, <2>2 DEF Put
    <2>5. ~Clash(slots, h, g.home) /\ ~Clash(Put(slots, h, g.home), a, g.away)
      BY <1>4, <1>11 DEF Overlapping
    <2>6. a # h
      BY <2>5 DEF Clash, Put
    <2>7. PICK to : to = new.participants
      OBVIOUS
    <2>8. /\ DOMAIN to = DOMAIN slots \cup {h, a} /\ to[h] = g.home /\ to[a] = g.away
          /\ \A r \in DOMAIN slots : r \notin {h, a} => to[r] = slots[r]
      BY <2>2, <2>6, <2>7 DEF Put
    <2>9. Slots(to, gs \cup {g}, roots)
      BY <1>1, <1>5, <1>8, <2>8 DEF Slots
    <2>10. ASSUME NEW t \in Teams(gs \cup {g}) PROVE to[Root(roots, t)] = t
      <3>1. PICK r : r = Root(roots, t)
        OBVIOUS
      <3>2. CASE t \in {g.home, g.away}
        BY <1>1, <2>8, <3>2
      <3>3. CASE t \in Teams(gs)
        <4>1. r \in DOMAIN slots /\ slots[r] = t
          BY <1>5, <3>1, <3>3 DEF Slots
        <4>2. r = h => t = g.home
          BY <2>5, <4>1 DEF Clash
        <4>3. r = a => t = g.away
          BY <2>5, <2>6, <4>1 DEF Clash, Put
        <4> QED BY <2>8, <3>1, <4>1, <4>2, <4>3
      <3> QED BY <1>8, <3>2, <3>3
    <2>11. CareerTold(new, gs \cup {g}, roots)
      BY <1>6, <2>2, <2>3, <2>4, <2>7, <2>9, <2>10 DEF CareerTold
    <2> QED BY <1>11, <2>11 DEF Among
  <1> QED BY <1>9, <1>10, <1>11

\* The walk of the franchises, beside the walk of the teams.
AsOneTeam(plain, walk, gs, roots) ==
    /\ Shape(plain) /\ plain.overlap = FALSE
    /\ plain.elo = walk.elo /\ plain.last_season = walk.last_season
    /\ \A r \in DOMAIN plain.participants : plain.participants[r] = r
    /\ Slots(plain.participants, gs, roots)
    /\ DOMAIN plain.records = DOMAIN plain.participants

LEMMA FranchiseStep ==
    ASSUME NEW walk, NEW plain, NEW gs, NEW roots, Shape(walk), walk.overlap = FALSE,
           AsOneTeam(plain, walk, gs, roots),
           NEW g, NEW r, SameBut(roots, r, g), NEW year, NEW career, career = TRUE,
           NEW new, new = EloStep(walk, g, roots, career, year), new.overlap = FALSE,
           NEW next, next = EloStep(plain, r, <<>>, career, year)
    PROVE  AsOneTeam(next, new, Among(gs, g, year), roots)
  <1>1. PICK h, a : h = Root(roots, g.home) /\ a = Root(roots, g.away)
    OBVIOUS
  <1>2. PICK home, away : home = Entered(walk, h, g.season, career) /\ away = Entered(walk, a, g.season, career)
    OBVIOUS
  <1>3. PICK update : update = GameUpdate(home, away, g)
    OBVIOUS
  <1>4. PICK slots, records : slots = plain.participants /\ records = plain.records
    OBVIOUS
  <1>5. /\ Shape(plain) /\ plain.overlap = FALSE
        /\ plain.elo = walk.elo /\ plain.last_season = walk.last_season
        /\ \A s \in DOMAIN slots : slots[s] = s
        /\ Slots(slots, gs, roots) /\ DOMAIN records = DOMAIN slots
    BY <1>4 DEF AsOneTeam
  <1>6. r.home = h /\ r.away = a /\ r.season = g.season
    BY <1>1 DEF SameBut
  <1>7. h = Root(<<>>, r.home) /\ a = Root(<<>>, r.away)
    BY <1>6, NoMoves
  <1>8. home = Entered(plain, h, r.season, career) /\ away = Entered(plain, a, r.season, career)
    BY <1>2, <1>5, <1>6 DEF Entered
  <1>9. update = GameUpdate(home, away, r)
    BY <1>3 DEF GameUpdate, GameResult, SameBut
  <1>10. Stepped(new, walk, g, h, a, home, away, update, career, year)
    <2>1. /\ Counts(g, career, year) /\ Overlapping(walk, g, h, a) =>
                 new = [walk EXCEPT !.overlap = TRUE]
          /\ ~(Counts(g, career, year) /\ Overlapping(walk, g, h, a)) =>
                 Stepped(new, walk, g, h, a, home, away, update, career, year)
      BY <1>1, <1>2, <1>3, StepFields
    <2>2. new # [walk EXCEPT !.overlap = TRUE]
      BY DEF Shape
    <2> QED BY <2>1, <2>2
  <1>11. ~Overlapping(plain, r, h, a)
    BY <1>4, <1>5, <1>6 DEF Overlapping, Clash, Put
  <1>12. Shape(next) /\ Stepped(next, plain, r, h, a, home, away, update, career, year)
    <2>1. PICK roots0 : roots0 = <<>>
      OBVIOUS
    <2>2. h = Root(roots0, r.home) /\ a = Root(roots0, r.away)
      BY <1>7, <2>1
    <2>3. next = EloStep(plain, r, roots0, career, year)
      BY <2>1
    <2>4. /\ Shape(next)
          /\ Counts(r, career, year) /\ Overlapping(plain, r, h, a) =>
                 next = [plain EXCEPT !.overlap = TRUE]
          /\ ~(Counts(r, career, year) /\ Overlapping(plain, r, h, a)) =>
                 Stepped(next, plain, r, h, a, home, away, update, career, year)
      <3>1. Shape(plain) /\ plain.overlap = FALSE
        BY <1>5
      <3> QED BY <1>8, <1>9, <2>2, <2>3, <3>1, StepFields
    <2> QED BY <1>11, <2>4
  <1>13. next.overlap = FALSE /\ next.elo = new.elo /\ next.last_season = new.last_season
    BY <1>5, <1>6, <1>10, <1>12 DEF Stepped
  <1>14. Counts(r, career, year) <=> g.season = year
    BY <1>6 DEF Counts
  <1>15. CASE g.season # year
    <2>1. next.participants = slots /\ next.records = records
      BY <1>4, <1>12, <1>14, <1>15 DEF Stepped
    <2> QED BY <1>5, <1>12, <1>13, <1>15, <2>1 DEF AsOneTeam, Among
  <1>16. CASE g.season = year
    <2>1. /\ next.participants = Put(Put(slots, h, h), a, a)
          /\ next.records = Put(Put(records, a, LetterOf(plain, a, r.ap, r.hp)),
                                h, LetterOf(plain, h, r.hp, r.ap))
      BY <1>4, <1>6, <1>12, <1>14, <1>16 DEF Stepped
    <2>2. PICK to, rec : to = next.participants /\ rec = next.records
      OBVIOUS
    <2>3. /\ DOMAIN to = DOMAIN slots \cup {h, a} /\ DOMAIN rec = DOMAIN records \cup {h, a}
          /\ \A s \in DOMAIN to : to[s] = s
      BY <1>5, <2>1, <2>2 DEF Put
    <2>4. Teams(gs \cup {g}) = Teams(gs) \cup {g.home, g.away}
      BY DEF Teams
    <2>5. Slots(to, gs \cup {g}, roots)
      BY <1>1, <1>5, <2>3, <2>4 DEF Slots
    <2> QED BY <1>5, <1>12, <1>13, <1>16, <2>2, <2>3, <2>5 DEF AsOneTeam, Among
  <1> QED BY <1>15, <1>16

BothTold(walk, plain, gs, roots) ==
    \/ CareerTold(walk, gs, roots) /\ AsOneTeam(plain, walk, gs, roots)
    \/ walk.overlap = TRUE /\ Overlaps(gs, roots)

LEMMA BothStep ==
    ASSUME NEW walk, NEW plain, NEW gs, NEW roots, BothTold(walk, plain, gs, roots), IsFiniteSet(gs),
           NEW g, g \notin gs, g.home # g.away, NEW r, SameBut(roots, r, g),
           NEW year, NEW career, career = TRUE,
           NEW new, new = EloStep(walk, g, roots, career, year),
           NEW next, next = EloStep(plain, r, <<>>, career, year)
    PROVE  BothTold(new, next, Among(gs, g, year), roots)
  <1>1. CASE CareerTold(walk, gs, roots) /\ AsOneTeam(plain, walk, gs, roots)
    <2>1. \/ CareerTold(new, Among(gs, g, year), roots)
          \/ new.overlap = TRUE /\ g.season = year /\ Overlaps(gs \cup {g}, roots)
      BY <1>1, CareerStep
    <2>2. CASE CareerTold(new, Among(gs, g, year), roots)
      <3>1. Shape(walk) /\ walk.overlap = FALSE /\ new.overlap = FALSE
        BY <1>1, <2>2 DEF CareerTold
      <3>2. AsOneTeam(next, new, Among(gs, g, year), roots)
        BY <1>1, <3>1, FranchiseStep
      <3> QED BY <2>2, <3>2 DEF BothTold
    <2>3. CASE new.overlap = TRUE /\ g.season = year /\ Overlaps(gs \cup {g}, roots)
      BY <2>3 DEF BothTold, Among
    <2> QED BY <2>1, <2>2, <2>3
  <1>2. CASE walk.overlap = TRUE /\ Overlaps(gs, roots)
    <2>1. new = walk
      BY <1>2 DEF EloStep
    <2>2. gs \subseteq Among(gs, g, year)
      BY DEF Among
    <2>3. Teams(gs) \subseteq Teams(Among(gs, g, year))
      BY <2>2 DEF Teams
    <2>4. Overlaps(Among(gs, g, year), roots)
      BY <1>2, <2>3 DEF Overlaps
    <2> QED BY <1>2, <2>1, <2>4 DEF BothTold
  <1> QED BY <1>1, <1>2 DEF BothTold

\* Each game of S is one of the n of f.
Enumerates(f, n, S) ==
    /\ n \in Nat /\ DOMAIN f = 1 .. n
    /\ \A i \in 1 .. n : f[i] \in S
    /\ \A x \in S : \E i \in 1 .. n : f[i] = x
    /\ \A i, j \in 1 .. n : i < j => f[i] # f[j]
InSeason(S, year) == {g \in S : g.season = year}

\* A career walked game by game, by its teams and by its franchises.
LEMMA CareerIsWalked ==
    ASSUME NEW S, IsFiniteSet(S), \A g \in S : g.home # g.away,
           NEW n, NEW f, Enumerates(f, n, S),
           NEW roots, NEW to, \A i \in 1 .. n : SameBut(roots, to[i], f[i]),
           NEW year, NEW career, career = TRUE,
           NEW w, Walks(w, f, n, roots, career, year),
           NEW v, Walks(v, to, n, <<>>, career, year)
    PROVE  BothTold(w[n], v[n], InSeason(S, year), roots)
  <1> DEFINE Seen(i) == InSeason({f[j] : j \in 1 .. i}, year)
             Bad == {i \in 0 .. n : ~BothTold(w[i], v[i], Seen(i), roots)}
  <1>1. BothTold(w[0], v[0], Seen(0), roots)
    <2>1. Seen(0) = {} /\ w[0] = NoGames /\ v[0] = NoGames
      BY DEF InSeason, Walks
    <2>2. /\ NoGames.participants = <<>> /\ NoGames.records = <<>>
          /\ NoGames.overlap = FALSE /\ Shape(NoGames)
      BY DEF NoGames, Shape
    <2>3. DOMAIN <<>> = {} /\ Teams({}) = {}
      BY DEF Teams
    <2>4. Lettered(<<>>, {}) /\ Slots(<<>>, {}, roots)
      BY <2>3 DEF Lettered, Slots
    <2>5. CareerTold(NoGames, {}, roots) /\ AsOneTeam(NoGames, NoGames, {}, roots)
      BY <2>2, <2>3, <2>4 DEF CareerTold, AsOneTeam
    <2> QED BY <2>1, <2>5 DEF BothTold
  <1>2. ASSUME NEW i \in 1 .. n, BothTold(w[i - 1], v[i - 1], Seen(i - 1), roots)
        PROVE  BothTold(w[i], v[i], Seen(i), roots)
    <2>1. w[i] = EloStep(w[i - 1], f[i], roots, career, year) /\ v[i] = EloStep(v[i - 1], to[i], <<>>, career, year)
      BY DEF Walks
    <2>2. /\ n \in Nat /\ i - 1 \in Nat
          /\ \A j : j \in 1 .. i <=> j \in 1 .. (i - 1) \/ j = i
          /\ \A j \in 1 .. (i - 1) : j \in 1 .. n /\ j < i
      BY DEF Enumerates
    <2>3. Seen(i) = Among(Seen(i - 1), f[i], year)
      BY <2>2 DEF InSeason, Among
    <2>4. f[i] \notin Seen(i - 1) /\ Seen(i - 1) \subseteq S
      BY <2>2 DEF InSeason, Enumerates
    <2>5. PICK g, r, gs : g = f[i] /\ r = to[i] /\ gs = Seen(i - 1)
      OBVIOUS
    <2> HIDE DEF Seen
    <2>6. g \in S /\ g \notin gs /\ IsFiniteSet(gs) /\ g.home # g.away /\ SameBut(roots, r, g)
      BY <2>4, <2>5, FS_Subset DEF Enumerates
    <2>7. PICK walk, plain : walk = w[i - 1] /\ plain = v[i - 1]
      OBVIOUS
    <2>8. BothTold(walk, plain, gs, roots)
      BY <1>2, <2>5, <2>7
    <2>9. w[i] = EloStep(walk, g, roots, career, year) /\ v[i] = EloStep(plain, r, <<>>, career, year)
      BY <2>1, <2>5, <2>7
    <2>10. BothTold(w[i], v[i], Among(gs, g, year), roots)
      BY <2>6, <2>8, <2>9, BothStep
    <2> QED BY <2>3, <2>5, <2>10
  <1>3. Bad = {}
    <2>1. SUFFICES ASSUME Bad # {} PROVE FALSE
      OBVIOUS
    <2> HIDE DEF Seen
    <2>2. PICK k \in Bad : \A m \in Bad : k <= m
      <3>1. Bad \subseteq Nat
        OBVIOUS
      <3> HIDE DEF Bad
      <3> QED BY <2>1, <3>1, LeastOf
    <2>3. k # 0
      BY <1>1, <2>2
    <2>4. k \in 1 .. n /\ k - 1 \in 0 .. n /\ k - 1 \notin Bad
      BY <2>2, <2>3 DEF Enumerates
    <2> QED BY <1>2, <2>2, <2>4
  <1>4. BothTold(w[n], v[n], Seen(n), roots)
    <2>1. n \in 0 .. n
      BY DEF Enumerates
    <2> HIDE DEF Seen
    <2> QED BY <1>3, <2>1
  <1>5. Seen(n) = InSeason(S, year)
    BY DEF Enumerates, InSeason
  <1> QED BY <1>4, <1>5

\* What a ranking is told of a franchise.
Franchised(career, plain, Y, roots) ==
    /\ career.refused = FALSE
    /\ RecordsRecount(career.ratings, Y)
    /\ \A t \in DOMAIN career.ratings :
          career.ratings[t].rating = plain.ratings[Root(roots, t)].rating

LEMMA CareerIsPlaced ==
    ASSUME NEW Y, SeasonHolds(Y), NEW roots, NEW walk, CareerTold(walk, Y, roots),
           NEW plain, AsOneTeam(plain, walk, Y, roots)
    PROVE  Franchised(Outcome(walk), Outcome(plain), Y, roots) /\ ~Overlaps(Y, roots)
  <1>1. PICK T, elo, slots, own : /\ T = Teams(Y) /\ elo = walk.elo /\ slots = walk.participants
                                  /\ own = plain.participants
    OBVIOUS
  <1>2. /\ walk.overlap = FALSE /\ DOMAIN walk.records = T /\ Lettered(walk.records, Y)
        /\ \A r : r \in DOMAIN slots <=> \E t \in T : r = Root(roots, t)
        /\ \A t \in T : slots[Root(roots, t)] = t
    BY <1>1 DEF CareerTold, Slots
  <1>3. /\ plain.overlap = FALSE /\ plain.elo = elo /\ DOMAIN plain.records = DOMAIN own
        /\ \A r \in DOMAIN own : own[r] = r
        /\ \A r : r \in DOMAIN own <=> \E t \in T : r = Root(roots, t)
    BY <1>1 DEF AsOneTeam, Slots
  <1>4. PICK ratings, under : ratings = Placed(walk) /\ under = Placed(plain)
    OBVIOUS
  <1>5. /\ Outcome(walk).refused = FALSE /\ Outcome(walk).ratings = ratings
        /\ Outcome(plain).ratings = under
    BY <1>2, <1>3, <1>4 DEF Outcome
  <1>6. /\ DOMAIN ratings = T
        /\ \A t \in T :
              /\ ratings[t].rating = walk.elo[CHOOSE r \in DOMAIN walk.participants :
                                                 walk.participants[r] = t]
              /\ ratings[t].wins = Cardinality(OfLetter(walk.records[t], "W"))
              /\ ratings[t].losses = Cardinality(OfLetter(walk.records[t], "L"))
              /\ ratings[t].ties = Cardinality(OfLetter(walk.records[t], "T"))
    BY <1>2, <1>4 DEF Placed, OfLetter
  <1>7. \A r \in DOMAIN own :
            under[r].rating = plain.elo[CHOOSE s \in DOMAIN plain.participants : plain.participants[s] = r]
    BY <1>3, <1>4 DEF Placed
  <1>8. ASSUME NEW t \in T PROVE ratings[t].rating = elo[Root(roots, t)]
    <2>1. PICK r : r = CHOOSE one \in DOMAIN slots : slots[one] = t
      OBVIOUS
    <2>2. r \in DOMAIN slots /\ slots[r] = t
      BY <1>2, <2>1
    <2>3. PICK u \in T : r = Root(roots, u)
      BY <1>2, <2>2
    <2>4. r = Root(roots, t)
      BY <1>2, <2>2, <2>3
    <2> QED BY <1>1, <1>6, <2>1, <2>4
  <1>9. ASSUME NEW t \in T PROVE under[Root(roots, t)].rating = elo[Root(roots, t)]
    <2>1. PICK r : r = Root(roots, t)
      OBVIOUS
    <2>2. r \in DOMAIN own
      BY <1>3, <2>1
    <2>3. (CHOOSE s \in DOMAIN own : own[s] = r) = r
      BY <1>3, <2>2
    <2> QED BY <1>1, <1>3, <1>7, <2>1, <2>2, <2>3
  <1>10. RecordsRecount(ratings, Y)
    <2>1. ASSUME NEW t \in T
          PROVE  LET mine == OwnGames(Y, t) IN
                 /\ ratings[t].wins = Cardinality({g \in mine : GainedBy(g, t) > 0})
                 /\ ratings[t].losses = Cardinality({g \in mine : GainedBy(g, t) < 0})
                 /\ ratings[t].ties = Cardinality({g \in mine : GainedBy(g, t) = 0})
      <3>1. /\ ratings[t].wins = Cardinality(Ended(Y, t, "W"))
            /\ ratings[t].losses = Cardinality(Ended(Y, t, "L"))
            /\ ratings[t].ties = Cardinality(Ended(Y, t, "T"))
        BY <1>2, <1>6 DEF Lettered
      <3> QED BY <3>1, EndedIsGained
    <2> QED BY <1>1, <1>6, <2>1 DEF RecordsRecount
  <1>11. ~Overlaps(Y, roots)
    BY <1>1, <1>2 DEF Overlaps
  <1> QED BY <1>5, <1>6, <1>8, <1>9, <1>10, <1>11 DEF Franchised

LEMMA TeamsAreFinite ==
    ASSUME NEW gs, IsFiniteSet(gs) PROVE IsFiniteSet(Teams(gs))
  <1>1. PICK home, away : home = [x \in gs |-> x.home] /\ away = [x \in gs |-> x.away]
    OBVIOUS
  <1>2. IsFiniteSet({home[x] : x \in gs}) /\ IsFiniteSet({away[x] : x \in gs})
    BY ImageIsFinite
  <1>3. Teams(gs) = {home[x] : x \in gs} \cup {away[x] : x \in gs}
    BY <1>1 DEF Teams
  <1> QED BY <1>2, <1>3, FS_Union

\* A career under a table of moves, whatever else is in the tables.
LEMMA CareerIsRated ==
    ASSUME NEW gs, GamesHold(gs), NEW year, NEW successors, IsFiniteSet(DOMAIN successors)
    PROVE  CareerUnder(successors, gs, year)
  <1>1. PICK history : history = TRUE
    OBVIOUS
  <1>2. PICK S, Y : S = GamesOf(gs, year, history) /\ Y = SeasonGames(gs, year)
    OBVIOUS
  <1>3. PICK all, f, to : /\ all = Renamed(gs, successors) /\ f = LoadGames(gs, year, history)
                          /\ to = LoadGames(all, year, history)
    OBVIOUS
  <1>4. PICK n : n = Cardinality(S)
    OBVIOUS
  <1>5. S \subseteq gs /\ IsFiniteSet(S) /\ (\A g \in S : g.home # g.away) /\ n \in Nat
    BY <1>2, <1>4, FS_Subset, FS_CardinalityType DEF GamesOf, GamesHold, Dated
  <1>6. Y = InSeason(S, year)
    BY <1>1, <1>2 DEF SeasonGames, GamesOf, InSeason, GamesHold, Dated
  <1>7. SeasonHolds(Y)
    <2>1. Y \subseteq gs /\ \A g \in Y : g.hp \in Int /\ g.ap \in Int
      BY <1>2 DEF SeasonGames, Loadable
    <2> QED BY <2>1, FS_Subset DEF SeasonHolds, GamesHold, Dated
  <1>8. Enumerates(f, n, S)
    <2>1. Lists(f, S, GameOrder(S))
      BY <1>2, <1>3, LoadedInOrder DEF GamesHold
    <2> QED BY <1>4, <1>5, <2>1 DEF Lists, Enumerates
  <1>9. DOMAIN to = 1 .. n /\ \A i \in 1 .. n : SameBut(successors, to[i], f[i])
    <2>1. DOMAIN to = DOMAIN f /\ \A i \in DOMAIN f : to[i] = Rename(successors, f[i])
      BY <1>3, RenamedList
    <2>2. ASSUME NEW i \in 1 .. n PROVE SameBut(successors, to[i], f[i])
      <3>1. i \in DOMAIN f /\ f[i] \in gs
        BY <1>5, <1>8 DEF Enumerates
      <3>2. GameColumns \subseteq DOMAIN (f[i])
        BY <3>1 DEF GamesHold
      <3>3. to[i] = Rename(successors, f[i])
        BY <2>1, <3>1
      <3> QED BY <3>2, <3>3, RenameFacts
    <2> QED BY <1>8, <2>1, <2>2 DEF Enumerates
  <1>10. PICK w : Walks(w, f, n, successors, history, year) /\ EloWalk(f, successors, history, year) = w[n]
    <2>1. Stepwise(f, n, successors, history, year)
      BY <1>5, <1>8, WalkIsItsSteps DEF Enumerates
    <2> QED BY <2>1 DEF Stepwise
  <1>11. PICK v : Walks(v, to, n, <<>>, history, year) /\ EloWalk(to, <<>>, history, year) = v[n]
    <2>1. PICK none : none = <<>>
      OBVIOUS
    <2>2. Stepwise(to, n, none, history, year)
      BY <1>5, <1>9, WalkIsItsSteps
    <2> QED BY <2>1, <2>2 DEF Stepwise
  <1>12. BothTold(w[n], v[n], Y, successors)
    BY <1>1, <1>5, <1>6, <1>8, <1>9, <1>10, <1>11, CareerIsWalked
  <1>13. PICK career, plain : /\ career = EloCareerRating(gs, year, successors)
                              /\ plain = EloCareerRating(all, year, <<>>)
    OBVIOUS
  <1>14. plain = Outcome(v[n])
    <2>1. DOMAIN <<>> = {}
      OBVIOUS
    <2>2. ~Cyclic(<<>>)
      BY <2>1 DEF Cyclic
    <2> QED BY <1>1, <1>3, <1>11, <1>13, <2>2 DEF EloCareerRating
  <1>15. Cyclic(successors) <=> NeverEnds(successors)
    BY CyclicNeverEnds
  <1>16. /\ career.refused <=> NeverEnds(successors) \/ Overlaps(Y, successors)
         /\ ~career.refused => Franchised(career, plain, Y, successors)
    <2>1. CASE Cyclic(successors)
      <3>1. career.refused = TRUE
        BY <1>13, <2>1 DEF EloCareerRating
      <3> QED BY <1>15, <2>1, <3>1
    <2>2. CASE ~Cyclic(successors)
      <3>1. career = Outcome(w[n])
        BY <1>1, <1>3, <1>10, <1>13, <2>2 DEF EloCareerRating
      <3>2. CASE CareerTold(w[n], Y, successors) /\ AsOneTeam(v[n], w[n], Y, successors)
        <4>1. Franchised(Outcome(w[n]), Outcome(v[n]), Y, successors) /\ ~Overlaps(Y, successors)
          BY <1>7, <3>2, CareerIsPlaced
        <4>2. career.refused = FALSE
          BY <3>1, <4>1 DEF Franchised
        <4> QED BY <1>14, <1>15, <2>2, <3>1, <4>1, <4>2
      <3>3. CASE w[n].overlap = TRUE /\ Overlaps(Y, successors)
        <4>1. career.refused = TRUE
          BY <3>1, <3>3 DEF Outcome
        <4> QED BY <3>3, <4>1
      <3> QED BY <1>12, <3>2, <3>3 DEF BothTold
    <2> QED BY <2>1, <2>2
  <1>17. CareerIsTold(career, plain, gs, year, successors)
    BY <1>2, <1>16 DEF CareerIsTold, Franchised
  <1> QED BY <1>3, <1>13, <1>17 DEF CareerUnder

\* A career rating belongs to the franchise, for any games, lineages, builds and
\* Elo configuration.
THEOREM CareerSafe == QbSpec => []CareerFollowsTheFranchise
  <1>1. TablesInv => CareerFollowsTheFranchise
    <2>1. SUFFICES ASSUME TablesInv, NEW year \in {g.season : g \in db.games}
                   PROVE  LET walked == LoadGames(db.games, year, TRUE) IN
                          /\ GamesCarryOver(walked, AfterEach(walked, year))
                          /\ \A lineage \in Lineages :
                                CareerUnder(FranchiseSuccessors(lineage, Teams(db.games)), db.games, year)
      BY DEF CareerFollowsTheFranchise
    <2>2. GamesHold(db.games)
      BY <2>1 DEF TablesInv, TablesHold, GamesHold, Dated
    <2>3. PICK gs : gs = db.games
      OBVIOUS
    <2>4. ASSUME NEW lineage \in Lineages
          PROVE  CareerUnder(FranchiseSuccessors(lineage, Teams(gs)), gs, year)
      <3>1. PICK successors : successors = FranchiseSuccessors(lineage, Teams(gs))
        OBVIOUS
      <3>2. DOMAIN successors \subseteq Teams(gs)
        BY <3>1 DEF FranchiseSuccessors
      <3>3. IsFiniteSet(DOMAIN successors)
        BY <2>2, <2>3, <3>2, TeamsAreFinite, FS_Subset DEF GamesHold, Dated
      <3>4. CareerUnder(successors, gs, year)
        BY <2>2, <2>3, <3>3, CareerIsRated
      <3> QED BY <3>1, <3>4
    <2>5. PICK history, walked : history = TRUE /\ walked = LoadGames(gs, year, history)
      OBVIOUS
    <2>6. GamesCarryOver(walked, AfterEach(walked, year))
      <3>1. PICK n : n = Cardinality(GamesOf(gs, year, history))
        OBVIOUS
      <3>2. GamesHold(gs)
        BY <2>2, <2>3
      <3>3. WalkHolds(walked, n) /\ walked \in Seq(gs) /\ n = Len(walked)
        BY <2>5, <3>1, <3>2, CareerIsLoaded
      <3> QED BY <3>3, CareerCarriesOver
    <2> QED BY <2>3, <2>4, <2>5, <2>6
  <1> QED BY <1>1, DataHolds, PTL
=============================================================================
