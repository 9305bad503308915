----------------------------- MODULE Build_proofs -----------------------------
(***************************************************************************)
(* Proofs about Schema and Build: for any window of seasons, any processes *)
(* on the file, any database and cache a build starts from, and any builds *)
(* killed and commands run alone before it.                                *)
(*                                                                         *)
(* The argument: every unit of the build leaves something done (Done), of  *)
(* the file or for want of a file of the cache, which no later unit of the *)
(* build undoes -- an ingest drops only ratings, and no rating comes       *)
(* before an ingest; so at the doctor everything is done (AllDone), and it *)
(* finds no problem exactly when no file of the cache was wanting.  That a *)
(* unit comes once, and after which others, is computed from Commands      *)
(* (Placed, PassedFacts, AllPassed).                                       *)
(***************************************************************************)
EXTENDS Build, SequenceTheorems, TLAPS

(* The schema *)

\* What a process has passed is in the file, but for the log.
PassedBy(p) == \A i \in DOMAIN Statements :
                 i < at[p] /\ Statements[i].on \notin Log => Statements[i].on \in schema
SInv == /\ at \in [Procs -> Nat]
        /\ todo \in [Procs -> {"check", "run", "recreate"}]
        /\ \A p \in Procs : PassedBy(p)

LEMMA ScriptLength == Len(Statements) \in Nat /\ DOMAIN Statements = 1 .. Len(Statements)
  BY ScriptAssumption DEF ScriptAssumption

\* A step that keeps every object outside the log, and moves no process past a
\* statement whose object is missing, keeps SInv.
LEMMA PassedKept ==
    ASSUME SInv, NEW p \in Procs, at' \in [Procs -> Nat],
           todo' \in [Procs -> {"check", "run", "recreate"}],
           \A q \in Procs \ {p} : at'[q] = at[q],
           schema \ Log \subseteq schema',
           \/ at'[p] \in {0, 1} \/ at'[p] = at[p]
           \/ at'[p] = at[p] + 1 /\ Statements[at[p]].on \in schema'
    PROVE  SInv'
  <1> USE ScriptLength
  <1>1. SUFFICES ASSUME NEW q \in Procs, NEW i \in DOMAIN Statements,
                        i < at'[q], Statements[i].on \notin Log
                 PROVE  Statements[i].on \in schema'
    BY DEF SInv, PassedBy
  <1>2. CASE i < at[q]
    BY <1>1, <1>2 DEF SInv, PassedBy
  <1>3. CASE ~(i < at[q])
    <2>1. q = p /\ at'[p] = at[p] + 1 /\ i = at[p] /\ Statements[at[p]].on \in schema'
      BY <1>1, <1>3 DEF SInv
    <2> QED BY <2>1
  <1> QED BY <1>2, <1>3

LEMMA InitSInv == (\E shape \in SUBSET Reference : SchemaInit(shape)) => SInv
  BY ScriptLength DEF SchemaInit, SInv, PassedBy

LEMMA NextSInv == SInv /\ [SchemaNext]_svars => SInv'
  <1> SUFFICES ASSUME SInv, [SchemaNext]_svars PROVE SInv'
    OBVIOUS
  <1> USE ScriptLength
  <1>1. CASE UNCHANGED svars
    BY <1>1 DEF svars, SInv, PassedBy
  <1>2. ASSUME NEW p \in Procs, SchemaStep(p) \/ Die(p) PROVE SInv'
    <2>1. CASE Open(p)
      BY <2>1, PassedKept DEF Open, SInv
    <2>2. CASE Present(p)
      BY <2>2, PassedKept DEF Present, Proceed, Statement, SInv
    <2>3. CASE Create(p)
      <3>1. Statements[at[p]].on \in schema'
        BY <2>3, ScriptAssumption DEF Create, Adds, Running, Statement, ScriptAssumption
      <3> QED BY <2>3, <3>1, PassedKept DEF Create, Adds, Proceed, SInv
    <2>4. CASE Missing(p)
      BY <2>4, PassedKept DEF Missing, SInv
    <2>5. CASE Alter(p)
      <3>1. Statements[at[p]].on \in schema'
        BY <2>5, ScriptAssumption DEF Alter, Adds, Running, Statement, ScriptAssumption
      <3> QED BY <2>5, <3>1, PassedKept DEF Alter, Adds, Proceed, SInv
    <2>6. CASE Drop(p)
      BY <2>6, PassedKept DEF Drop, SInv
    <2>7. CASE Recreate(p)
      <3>1. Statements[at[p]].on \in schema'
        BY <2>7, ScriptAssumption DEF Recreate, Adds, Running, Statement, ScriptAssumption
      <3>2. schema \ Log \subseteq schema'
        BY <2>7 DEF Recreate, Adds
      <3>3. /\ at' = [at EXCEPT ![p] = @ + 1]
            /\ todo' = [todo EXCEPT ![p] = "check"]
        BY <2>7 DEF Recreate, Adds, Proceed
      <3> QED BY <3>1, <3>2, <3>3, PassedKept DEF SInv
    <2>8. CASE Die(p)
      BY <2>8, PassedKept DEF Die, Close, SInv
    <2> QED BY <1>2, <2>1, <2>2, <2>3, <2>4, <2>5, <2>6, <2>7, <2>8 DEF SchemaStep
  <1> QED BY <1>1, <1>2 DEF SchemaNext

LEMMA SInvCurrent == SInv => OpenedIsCurrent
  <1> SUFFICES ASSUME SInv, NEW p \in Procs, at[p] = Opened, NEW o \in Reference \ Log
               PROVE  o \in schema
    BY DEF OpenedIsCurrent
  <1>1. PICK i \in DOMAIN Statements : Statements[i].on = o
    BY ScriptAssumption DEF ScriptAssumption
  <1>2. i < at[p]
    BY ScriptLength DEF Opened
  <1> QED BY <1>1, <1>2 DEF SInv, PassedBy


\* A process past ensure_schema finds every object of the present schema but the
\* log's, for any processes, shapes, deaths and races.
THEOREM OpenedFindsAll == SchemaSpec => []OpenedIsCurrent
  <1>1. SchemaSpec => []SInv
    BY InitSInv, NextSInv, PTL DEF SchemaSpec
  <1> QED BY <1>1, SInvCurrent, PTL

-----------------------------------------------------------------------------
(* The commands *)

\* The n-th unit for the seasons, one or two for each.
LEMMA SeasonFacts ==
    /\ Years \in Nat /\ Years > 0
    /\ \A i \in 1 .. Years : MinYear + i - 1 \in Seasons
    /\ \A i \in 1 .. 2 * Years : MinYear + (i - 1) \div 2 \in Seasons
    /\ \A s \in Seasons : s - MinYear + 1 \in 1 .. Years
  BY DoctorAssumption DEF DoctorAssumption, Years, Seasons

Units ==
    {Unit(does) : does \in {"open", "enrich", "games.csv", "players.csv", "doctor"}}
    \cup {UnitOf("batch", b) : b \in Batches}
    \cup {UnitOf("stats", <<s>>) : s \in Seasons}
    \cup {UnitOf("rate", r) : r \in Leagues \X Seasons \X Methods}
    \cup {UnitOf("ledger", r) : r \in Leagues \X Seasons}

BatchAt(l, i) == UnitOf("batch", <<l, MinYear + (i - 1) \div 2,
                                   IF i % 2 = 1 THEN "regular" ELSE "postseason">>)
StatsAt(i) == UnitOf("stats", <<MinYear + i - 1>>)
RateAt(l, m, i) == UnitOf("rate", <<l, MinYear + i - 1, m>>)
RatedAt(l, m, i) == IF i % 2 = 1 THEN UnitOf("rate", <<l, MinYear + (i - 1) \div 2, m>>)
                    ELSE UnitOf("ledger", <<l, MinYear + (i - 1) \div 2>>)

LEMMA UnitsAt ==
    /\ \A l \in Leagues, i \in 1 .. 2 * Years : BatchAt(l, i) \in Units
    /\ \A i \in 1 .. Years : StatsAt(i) \in Units
    /\ \A l \in Leagues, m \in Methods :
          /\ \A i \in 1 .. Years : RateAt(l, m, i) \in Units
          /\ \A i \in 1 .. 2 * Years : RatedAt(l, m, i) \in Units
    /\ Unit("open") \in Units /\ Unit("enrich") \in Units /\ Unit("games.csv") \in Units
    /\ Unit("players.csv") \in Units /\ Unit("doctor") \in Units
  <1>1. \A l \in Leagues, i \in 1 .. 2 * Years : BatchAt(l, i) \in Units
    BY SeasonFacts DEF BatchAt, Units, Batches, Types
  <1>2. \A i \in 1 .. Years : StatsAt(i) \in Units
    BY SeasonFacts DEF StatsAt, Units
  <1>3. \A l \in Leagues, m \in Methods : \A i \in 1 .. Years : RateAt(l, m, i) \in Units
    BY SeasonFacts DEF RateAt, Units
  <1>4. \A l \in Leagues, m \in Methods : \A i \in 1 .. 2 * Years : RatedAt(l, m, i) \in Units
    BY SeasonFacts DEF RatedAt, Units
  <1> QED BY <1>1, <1>2, <1>3, <1>4 DEF Units

\* A first unit, or two, then a sequence, then what may come after it.
LEMMA HeadOf ==
    ASSUME NEW x \in Units, NEW s \in Seq(Units)
    PROVE  /\ <<x>> \o s \in Seq(Units) /\ Len(<<x>> \o s) = Len(s) + 1
           /\ (<<x>> \o s)[1] = x
           /\ \A i \in 1 .. Len(s) : (<<x>> \o s)[i + 1] = s[i]
  OBVIOUS

LEMMA HeadsOf ==
    ASSUME NEW x \in Units, NEW y \in Units, NEW s \in Seq(Units)
    PROVE  /\ <<x, y>> \o s \in Seq(Units) /\ Len(<<x, y>> \o s) = Len(s) + 2
           /\ (<<x, y>> \o s)[1] = x /\ (<<x, y>> \o s)[2] = y
           /\ \A i \in 1 .. Len(s) : (<<x, y>> \o s)[i + 2] = s[i]
  OBVIOUS

LEMMA TailOf ==
    ASSUME NEW s \in Seq(Units), NEW x \in Units
    PROVE  /\ s \o <<x>> \in Seq(Units) /\ Len(s \o <<x>>) = Len(s) + 1
           /\ (s \o <<x>>)[Len(s) + 1] = x
           /\ \A i \in 1 .. Len(s) : (s \o <<x>>)[i] = s[i]
  OBVIOUS

LEMMA BatchesOfFacts ==
    ASSUME NEW l \in Leagues
    PROVE  /\ BatchesOf(l) \in Seq(Units) /\ Len(BatchesOf(l)) = 2 * Years
           /\ \A i \in 1 .. 2 * Years : BatchesOf(l)[i] = BatchAt(l, i)
  <1>1. BatchesOf(l) = [i \in 1 .. 2 * Years |-> BatchAt(l, i)]
    BY SeasonFacts DEF BatchesOf, TwoASeason, BatchAt
  <1> QED BY <1>1, UnitsAt, SeasonFacts

LEMMA IngestCfb ==
    /\ Ingest("cfb") \in Seq(Units) /\ Len(Ingest("cfb")) = 2 * Years + 2
    /\ Ingest("cfb")[1] = Unit("open") /\ Ingest("cfb")[2 * Years + 2] = Unit("enrich")
    /\ \A i \in 1 .. 2 * Years : Ingest("cfb")[i + 1] = BatchAt("cfb", i)
  <1> DEFINE b == BatchesOf("cfb")
             h == <<Unit("open")>> \o b
  <1>1. b \in Seq(Units) /\ Len(b) = 2 * Years /\ \A i \in 1 .. 2 * Years : b[i] = BatchAt("cfb", i)
    BY BatchesOfFacts DEF Leagues
  <1> HIDE DEF b
  <1>2. /\ h \in Seq(Units) /\ Len(h) = 2 * Years + 1 /\ h[1] = Unit("open")
        /\ \A i \in 1 .. 2 * Years : h[i + 1] = BatchAt("cfb", i)
    BY <1>1, HeadOf, UnitsAt
  <1>3. Ingest("cfb") = h \o <<Unit("enrich")>>
    BY DEF Ingest, h, b
  <1> HIDE DEF h
  <1>4. /\ h \o <<Unit("enrich")>> \in Seq(Units) /\ Len(h \o <<Unit("enrich")>>) = Len(h) + 1
        /\ (h \o <<Unit("enrich")>>)[Len(h) + 1] = Unit("enrich")
        /\ \A i \in 1 .. Len(h) : (h \o <<Unit("enrich")>>)[i] = h[i]
    BY <1>2, TailOf, UnitsAt
  <1>5. 2 * Years \in Nat /\ 2 * Years + 1 + 1 = 2 * Years + 2 /\ 1 \in 1 .. 2 * Years + 1
        /\ \A i \in 1 .. 2 * Years : i + 1 \in 1 .. 2 * Years + 1
    BY SeasonFacts
  <1>6. \A i \in 1 .. Len(h) : Ingest("cfb")[i] = h[i]
    BY <1>3, <1>4
  <1>7. /\ Ingest("cfb") \in Seq(Units) /\ Len(Ingest("cfb")) = Len(h) + 1
        /\ Ingest("cfb")[Len(h) + 1] = Unit("enrich")
    BY <1>3, <1>4
  <1> QED BY <1>2, <1>5, <1>6, <1>7

LEMMA IngestNfl ==
    /\ Ingest("nfl") \in Seq(Units) /\ Len(Ingest("nfl")) = 2 * Years + 2
    /\ Ingest("nfl")[1] = Unit("games.csv") /\ Ingest("nfl")[2] = Unit("open")
    /\ \A i \in 1 .. 2 * Years : Ingest("nfl")[i + 2] = BatchAt("nfl", i)
  <1>1. BatchesOf("nfl") \in Seq(Units) /\ Len(BatchesOf("nfl")) = 2 * Years
        /\ \A i \in 1 .. 2 * Years : BatchesOf("nfl")[i] = BatchAt("nfl", i)
    BY BatchesOfFacts DEF Leagues
  <1>2. Ingest("nfl") = <<Unit("games.csv"), Unit("open")>> \o BatchesOf("nfl")
    BY DEF Ingest
  <1>3. Unit("games.csv") \in Units /\ Unit("open") \in Units
    BY UnitsAt
  <1>4. /\ <<Unit("games.csv"), Unit("open")>> \o BatchesOf("nfl") \in Seq(Units)
        /\ Len(<<Unit("games.csv"), Unit("open")>> \o BatchesOf("nfl")) = 2 * Years + 2
        /\ (<<Unit("games.csv"), Unit("open")>> \o BatchesOf("nfl"))[1] = Unit("games.csv")
        /\ (<<Unit("games.csv"), Unit("open")>> \o BatchesOf("nfl"))[2] = Unit("open")
        /\ \A i \in 1 .. 2 * Years :
              (<<Unit("games.csv"), Unit("open")>> \o BatchesOf("nfl"))[i + 2] = BatchesOf("nfl")[i]
    BY <1>1, <1>3, HeadsOf
  <1> QED BY <1>1, <1>2, <1>4

LEMMA IngestPlayersFacts ==
    /\ IngestPlayers \in Seq(Units) /\ Len(IngestPlayers) = Years + 2
    /\ IngestPlayers[1] = Unit("open") /\ IngestPlayers[2] = Unit("players.csv")
    /\ \A i \in 1 .. Years : IngestPlayers[i + 2] = StatsAt(i)
  <1> DEFINE b == EachSeason(LAMBDA s : UnitOf("stats", <<s>>))
  <1>1. b = [i \in 1 .. Years |-> StatsAt(i)]
    BY DEF EachSeason, StatsAt
  <1>2. IngestPlayers = <<Unit("open"), Unit("players.csv")>> \o b
    BY DEF IngestPlayers
  <1> HIDE DEF b
  <1>3. b \in Seq(Units) /\ Len(b) = Years /\ \A i \in 1 .. Years : b[i] = StatsAt(i)
    BY <1>1, UnitsAt, SeasonFacts
  <1> QED BY <1>2, <1>3, HeadsOf, UnitsAt

LEMMA RateFacts ==
    ASSUME NEW l \in Leagues, NEW m \in Methods
    PROVE  /\ Rate(l, m) \in Seq(Units) /\ Rate(l, m)[1] = Unit("open")
           /\ m \notin LedgerMethods => /\ Len(Rate(l, m)) = Years + 1
                                      /\ \A i \in 1 .. Years : Rate(l, m)[i + 1] = RateAt(l, m, i)
           /\ m \in LedgerMethods => /\ Len(Rate(l, m)) = 2 * Years + 1
                                   /\ \A i \in 1 .. 2 * Years : Rate(l, m)[i + 1] = RatedAt(l, m, i)
  <1>1. CASE m \notin LedgerMethods
    <2> DEFINE b == EachSeason(LAMBDA s : UnitOf("rate", <<l, s, m>>))
    <2>1. b = [i \in 1 .. Years |-> RateAt(l, m, i)]
      BY DEF EachSeason, RateAt
    <2>2. Rate(l, m) = <<Unit("open")>> \o b
      BY <1>1 DEF Rate
    <2> HIDE DEF b
    <2>3. b \in Seq(Units) /\ Len(b) = Years /\ \A i \in 1 .. Years : b[i] = RateAt(l, m, i)
      BY <2>1, UnitsAt, SeasonFacts
    <2> QED BY <1>1, <2>2, <2>3, HeadOf, UnitsAt
  <1>2. CASE m \in LedgerMethods
    <2> DEFINE b == TwoASeason(LAMBDA s : UnitOf("rate", <<l, s, m>>), LAMBDA s : UnitOf("ledger", <<l, s>>))
    <2>1. b = [i \in 1 .. 2 * Years |-> RatedAt(l, m, i)]
      BY SeasonFacts DEF TwoASeason, RatedAt
    <2>2. Rate(l, m) = <<Unit("open")>> \o b
      BY <1>2 DEF Rate
    <2> HIDE DEF b
    <2>3. b \in Seq(Units) /\ Len(b) = 2 * Years /\ \A i \in 1 .. 2 * Years : b[i] = RatedAt(l, m, i)
      BY <2>1, UnitsAt, SeasonFacts
    <2> QED BY <1>2, <2>2, <2>3, HeadOf, UnitsAt
  <1> QED BY <1>1, <1>2

\* Each command's units, and the place of each unit in the build.
Length(c) == Len(Commands[c])
PlaceOf(b) == 2 * (b[2] - MinYear) + IF b[3] = "regular" THEN 0 ELSE 1

LEMMA CommandsAre ==
    /\ Len(Commands) = 10
    /\ Commands[1] = Ingest("cfb") /\ Commands[2] = Ingest("nfl") /\ Commands[3] = IngestPlayers
    /\ Commands[4] = Rate("cfb", "keener") /\ Commands[5] = Rate("cfb", "elo")
    /\ Commands[6] = Rate("cfb", "elo_career") /\ Commands[7] = Rate("nfl", "keener")
    /\ Commands[8] = Rate("nfl", "elo") /\ Commands[9] = Rate("nfl", "elo_career")
    /\ Commands[10] = <<Unit("doctor")>>
  BY DEF Commands

LEMMA BatchPlaces ==
    \A l \in Leagues, i \in 1 .. 2 * Years :
        /\ BatchAt(l, i).does = "batch" /\ BatchAt(l, i).of \in Batches
        /\ BatchAt(l, i).of[1] = l /\ PlaceOf(BatchAt(l, i).of) = i - 1
  <1>1. SUFFICES ASSUME NEW l \in Leagues, NEW i \in 1 .. 2 * Years
                 PROVE  /\ BatchAt(l, i).does = "batch" /\ BatchAt(l, i).of \in Batches
                        /\ BatchAt(l, i).of[1] = l /\ PlaceOf(BatchAt(l, i).of) = i - 1
    OBVIOUS
  <1> DEFINE s == MinYear + (i - 1) \div 2
             t == IF i % 2 = 1 THEN "regular" ELSE "postseason"
  <1>2. s \in Seasons /\ t \in Types /\ 2 * (s - MinYear) + (IF t = "regular" THEN 0 ELSE 1) = i - 1
    <2>1. s \in Seasons /\ t \in Types
      BY SeasonFacts DEF Types
    <2>2. MinYear \in Int /\ i \in Int /\ (i - 1) \div 2 \in Int
      BY SeasonFacts, DoctorAssumption DEF DoctorAssumption
    <2>3. CASE i % 2 = 1
      <3>1. t = "regular"
        BY <2>3
      <3>2. 2 * (s - MinYear) = i - 1
        BY <2>2, <2>3
      <3> QED BY <2>1, <3>1, <3>2
    <2>4. CASE i % 2 # 1
      <3>1. t = "postseason"
        BY <2>4
      <3>2. 2 * (s - MinYear) + 1 = i - 1
        BY <2>2, <2>4
      <3> QED BY <2>1, <3>1, <3>2
    <2> QED BY <2>3, <2>4
  <1>3. BatchAt(l, i) = [does |-> "batch", of |-> <<l, s, t>>]
    BY DEF BatchAt, UnitOf
  <1> HIDE DEF s, t
  <1> QED BY <1>2, <1>3 DEF Batches, PlaceOf

LEMMA BatchPlaced ==
    \A b \in Batches : /\ PlaceOf(b) + 1 \in 1 .. 2 * Years
                       /\ BatchAt(b[1], PlaceOf(b) + 1) = UnitOf("batch", b)
  <1>1. SUFFICES ASSUME NEW l \in Leagues, NEW s \in Seasons, NEW t \in Types
                 PROVE  /\ PlaceOf(<<l, s, t>>) + 1 \in 1 .. 2 * Years
                        /\ BatchAt(l, PlaceOf(<<l, s, t>>) + 1) = UnitOf("batch", <<l, s, t>>)
    BY DEF Batches
  <1> DEFINE i == PlaceOf(<<l, s, t>>) + 1
  <1>2. i = 2 * (s - MinYear) + (IF t = "regular" THEN 0 ELSE 1) + 1
    BY DEF PlaceOf
  <1> HIDE DEF i
  <1>3. i \in 1 .. 2 * Years /\ MinYear + (i - 1) \div 2 = s
    BY <1>2, DoctorAssumption DEF DoctorAssumption, Seasons, Years
  <1>4. (IF i % 2 = 1 THEN "regular" ELSE "postseason") = t
    BY <1>2, DoctorAssumption DEF DoctorAssumption, Seasons, Types
  <1> QED BY <1>3, <1>4 DEF BatchAt, i

\* What a unit of each command may be.
Placed(c, u, x) ==
    /\ x \in Units
    /\ x.does = "batch" => /\ c = IF x.of[1] = "cfb" THEN 1 ELSE 2
                           /\ x.of \in Batches /\ u = c + 1 + PlaceOf(x.of)
    /\ x.does = "enrich" => c = 1 /\ u = Length(1)
    /\ x.does = "games.csv" => c = 2 /\ u = 1
    /\ x.does = "players.csv" => c = 3
    /\ x.does = "stats" => c = 3 /\ u = 3 + x.of[1] - MinYear
    /\ x.does \in {"rate", "ledger"} => c \in 4 .. 9
    /\ x.does = "doctor" => c = 10

LEMMA IngestPlaces ==
    /\ \A u \in 1 .. Length(1) : Placed(1, u, Commands[1][u])
    /\ \A u \in 1 .. Length(2) : Placed(2, u, Commands[2][u])
  <1> USE SeasonFacts, CommandsAre
  <1>1. ASSUME NEW u \in 1 .. Length(1) PROVE Placed(1, u, Commands[1][u])
    <2>1. Length(1) = 2 * Years + 2
      BY IngestCfb DEF Length
    <2>2. CASE u \in {1, Length(1)}
      BY <2>1, <2>2, IngestCfb, UnitsAt DEF Placed, Unit
    <2>3. CASE u \notin {1, Length(1)}
      <3>1. u - 1 \in 1 .. 2 * Years /\ u - 1 + 1 = u
        BY <2>1, <2>3
      <3>2. Commands[1][u] = BatchAt("cfb", u - 1)
        BY <3>1, IngestCfb
      <3> QED BY <3>1, <3>2, BatchPlaces, UnitsAt DEF Placed, Leagues
    <2> QED BY <2>2, <2>3
  <1>2. ASSUME NEW u \in 1 .. Length(2) PROVE Placed(2, u, Commands[2][u])
    <2>1. Length(2) = 2 * Years + 2
      BY IngestNfl DEF Length
    <2>2. CASE u \in {1, 2}
      BY <2>2, IngestNfl, UnitsAt DEF Placed, Unit
    <2>3. CASE u \notin {1, 2}
      <3>1. u - 2 \in 1 .. 2 * Years /\ u - 2 + 2 = u
        BY <2>1, <2>3
      <3>2. Commands[2][u] = BatchAt("nfl", u - 2)
        BY <3>1, IngestNfl
      <3>3. /\ Commands[2][u] \in Units /\ Commands[2][u].does = "batch"
            /\ Commands[2][u].of \in Batches /\ Commands[2][u].of[1] = "nfl"
            /\ PlaceOf(Commands[2][u].of) = u - 2 - 1
        BY <3>1, <3>2, BatchPlaces, UnitsAt DEF Leagues
      <3>4. u - 2 - 1 = u - 3 /\ u = 2 + 1 + (u - 3)
        OBVIOUS
      <3> QED BY <3>3, <3>4 DEF Placed
    <2> QED BY <2>2, <2>3
  <1> QED BY <1>1, <1>2

LEMMA PlayersPlaces == \A u \in 1 .. Length(3) : Placed(3, u, Commands[3][u])
  <1> USE SeasonFacts, CommandsAre
  <1>1. SUFFICES ASSUME NEW u \in 1 .. Length(3) PROVE Placed(3, u, Commands[3][u])
    OBVIOUS
  <1>2. Length(3) = Years + 2
    BY IngestPlayersFacts DEF Length
  <1>3. CASE u \in {1, 2}
    BY <1>3, IngestPlayersFacts, UnitsAt DEF Placed, Unit
  <1>4. CASE u \notin {1, 2}
    <2>1. u - 2 \in 1 .. Years /\ u - 2 + 2 = u
      BY <1>2, <1>4
    <2>2. Commands[3][u] = StatsAt(u - 2)
      BY <2>1, IngestPlayersFacts
    <2>3. StatsAt(u - 2) \in Units
      BY <2>1, UnitsAt
    <2>4. StatsAt(u - 2).does = "stats" /\ StatsAt(u - 2).of[1] = MinYear + (u - 2) - 1
      BY DEF StatsAt, UnitOf
    <2> QED BY <2>2, <2>3, <2>4, DoctorAssumption DEF Placed, DoctorAssumption
  <1> QED BY <1>3, <1>4

LEMMA RatePlaces ==
    ASSUME NEW c \in 4 .. 9, NEW l \in Leagues, NEW m \in Methods, Commands[c] = Rate(l, m)
    PROVE  \A u \in 1 .. Length(c) : Placed(c, u, Commands[c][u])
  <1> USE SeasonFacts
  <1>1. SUFFICES ASSUME NEW u \in 1 .. Length(c)
                 PROVE  Placed(c, u, Commands[c][u])
    OBVIOUS
  <1>2. CASE u = 1
    BY <1>2, RateFacts, UnitsAt DEF Placed, Unit
  <1>3. CASE u # 1 /\ m \notin LedgerMethods
    <2>1. u - 1 \in 1 .. Years /\ u - 1 + 1 = u
      BY <1>3, RateFacts DEF Length
    <2>2. Commands[c][u] = RateAt(l, m, u - 1) /\ RateAt(l, m, u - 1) \in Units
      BY <1>3, <2>1, RateFacts, UnitsAt
    <2>3. RateAt(l, m, u - 1).does = "rate"
      BY DEF RateAt, UnitOf
    <2> QED BY <2>2, <2>3 DEF Placed
  <1>4. CASE u # 1 /\ m \in LedgerMethods
    <2>1. u - 1 \in 1 .. 2 * Years /\ u - 1 + 1 = u
      BY <1>4, RateFacts DEF Length
    <2>2. Commands[c][u] = RatedAt(l, m, u - 1) /\ RatedAt(l, m, u - 1) \in Units
      BY <1>4, <2>1, RateFacts, UnitsAt
    <2>3. RatedAt(l, m, u - 1).does \in {"rate", "ledger"}
      BY DEF RatedAt, UnitOf
    <2> QED BY <2>2, <2>3 DEF Placed
  <1> QED BY <1>2, <1>3, <1>4

LEMMA Places ==
    \A c \in 1 .. 10 : \A u \in 1 .. Length(c) : Placed(c, u, Commands[c][u])
  <1>1. \A c \in 4 .. 9 : \E l \in Leagues, m \in Methods : Commands[c] = Rate(l, m)
    BY CommandsAre DEF Leagues, Methods
  <1>2. \A c \in 4 .. 9 : \A u \in 1 .. Length(c) : Placed(c, u, Commands[c][u])
    BY <1>1, RatePlaces
  <1>3. \A u \in 1 .. Length(10) : Placed(10, u, Commands[10][u])
    BY CommandsAre, UnitsAt DEF Length, Placed, Unit
  <1>4. \A c \in 1 .. 10 : c \in {1, 2, 3, 10} \/ c \in 4 .. 9
    OBVIOUS
  <1> QED BY <1>2, <1>3, <1>4, IngestPlaces, PlayersPlaces

LEMMA Lengths == \A c \in 1 .. 10 : Length(c) \in Nat /\ Length(c) > 0
  <1>1. \A c \in 4 .. 9 : \E l \in Leagues, m \in Methods : Commands[c] = Rate(l, m)
    BY CommandsAre DEF Leagues, Methods
  <1>2. \A c \in 4 .. 9 : Length(c) \in Nat /\ Length(c) > 0
    <2>1. \A l \in Leagues, m \in Methods : Len(Rate(l, m)) \in Nat /\ Len(Rate(l, m)) > 0
      <3>1. 2 * Years + 1 \in Nat /\ 2 * Years + 1 > 0 /\ Years + 1 \in Nat /\ Years + 1 > 0
        BY SeasonFacts
      <3> QED BY <3>1, RateFacts
    <2> QED BY <1>1, <2>1 DEF Length
  <1>3. \A c \in {1, 2, 3, 10} : Length(c) \in Nat /\ Length(c) > 0
    <2>1. Length(1) = 2 * Years + 2
      BY CommandsAre, IngestCfb DEF Length
    <2>2. Length(2) = 2 * Years + 2
      BY CommandsAre, IngestNfl DEF Length
    <2>3. Length(3) = Years + 2
      BY CommandsAre, IngestPlayersFacts DEF Length
    <2>4. Length(10) = 1
      BY CommandsAre DEF Length
    <2> QED BY <2>1, <2>2, <2>3, <2>4, SeasonFacts
  <1>4. \A c \in 1 .. 10 : c \in {1, 2, 3, 10} \/ c \in 4 .. 9
    OBVIOUS
  <1> QED BY <1>2, <1>3, <1>4

-----------------------------------------------------------------------------
(* Where a build is: the unit it is at, and those it has passed.           *)

AtAUnit == cmd \in 1 .. 10 /\ unit \in 1 .. Length(cmd)
Now == Commands[cmd][unit]

Before(k, n) == {x \in Units : \E c \in 1 .. 10 : \E u \in 1 .. Length(c) :
                                 (c < k \/ (c = k /\ u < n)) /\ x = Commands[c][u]}
Passed == Before(cmd, unit)

LEMMA NowFacts == AtAUnit => Now \in Units /\ Placed(cmd, unit, Now)
  BY Places DEF AtAUnit, Now, Placed

LEMMA PassedPlaces ==
    \A x \in Passed : \E c \in 1 .. 10 : \E u \in 1 .. Length(c) :
        (c < cmd \/ (c = cmd /\ u < unit)) /\ Placed(c, u, x)
  BY Places DEF Passed, Before

LEMMA UnitKinds ==
    ASSUME NEW x \in Units
    PROVE  /\ x.does \in {"open", "enrich", "games.csv", "players.csv", "doctor", "batch", "stats",
                           "rate", "ledger"}
           /\ x.does = "batch" => x.of \in Batches
           /\ x.does = "stats" => x.of[1] \in Seasons
           /\ x.does = "rate" => x.of \in Leagues \X Seasons \X Methods
           /\ x.does = "ledger" => x.of \in Leagues \X Seasons
  BY DEF Units, Unit, UnitOf

LEMMA PassedFacts ==
    ASSUME AtAUnit, NEW x \in Passed
    PROVE  /\ Now.does = "batch" =>
                  /\ x.does \in {"open", "batch", "enrich", "games.csv"}
                  /\ x.does = "batch" => x.of # Now.of
                  /\ x.does = "enrich" => Now.of[1] = "nfl"
           /\ Now.does = "enrich" => x.does \in {"open", "batch"}
           /\ Now.does = "games.csv" =>
                  /\ x.does \in {"open", "batch", "enrich"}
                  /\ x.does = "batch" => x.of[1] = "cfb"
           /\ Now.does = "stats" /\ x.does = "stats" => x.of[1] # Now.of[1]
  <1>0. PICK c \in 1 .. 10 : \E u \in 1 .. Length(c) : (c < cmd \/ (c = cmd /\ u < unit)) /\ Placed(c, u, x)
    BY PassedPlaces
  <1>1. PICK u \in 1 .. Length(c) : (c < cmd \/ (c = cmd /\ u < unit)) /\ Placed(c, u, x)
    BY <1>0
  <1>2. Now \in Units /\ Placed(cmd, unit, Now)
    BY NowFacts
  <1>3. /\ c \in Int /\ u \in Int /\ cmd \in Int /\ unit \in Int /\ c <= cmd /\ u <= Length(c)
        /\ c = cmd => u < unit
    BY <1>1 DEF AtAUnit
  <1>4. x \in Units
    BY DEF Passed, Before
  <1>5. /\ x.does \in {"open", "enrich", "games.csv", "players.csv", "doctor", "batch", "stats",
                        "rate", "ledger"}
    BY <1>4, UnitKinds
  <1>6. unit <= Length(cmd) /\ Length(cmd) \in Int
    BY Lengths DEF AtAUnit
  <1>7. ASSUME Now.does = "batch"
        PROVE  /\ x.does \in {"open", "batch", "enrich", "games.csv"}
               /\ x.does = "batch" => x.of # Now.of
               /\ x.does = "enrich" => Now.of[1] = "nfl"
    <2>1. cmd \in {1, 2} /\ (cmd = 1 <=> Now.of[1] = "cfb") /\ unit = cmd + 1 + PlaceOf(Now.of)
      BY <1>2, <1>7 DEF Placed
    <2>2. c \in {1, 2}
      BY <1>3, <2>1
    <2>3. x.does \notin {"players.csv", "doctor", "stats", "rate", "ledger"}
      BY <1>1, <2>2 DEF Placed
    <2>4. x.does = "batch" => x.of # Now.of
      BY <1>1, <1>3, <2>1 DEF Placed
    <2>5. x.does = "enrich" => cmd = 2
      BY <1>1, <1>3, <1>6, <2>1 DEF Placed
    <2>6. Now.of[1] \in Leagues
      BY <1>2, <1>7, UnitKinds DEF Batches
    <2> QED BY <1>5, <2>1, <2>3, <2>4, <2>5, <2>6 DEF Leagues
  <1>8. ASSUME Now.does = "enrich" PROVE x.does \in {"open", "batch"}
    <2>1. cmd = 1 /\ c = 1 /\ u < Length(1)
      BY <1>2, <1>3, <1>8 DEF Placed
    <2> QED BY <1>1, <1>5, <2>1 DEF Placed
  <1>9. ASSUME Now.does = "games.csv"
        PROVE  /\ x.does \in {"open", "batch", "enrich"}
               /\ x.does = "batch" => x.of[1] = "cfb"
    <2>1. cmd = 2 /\ unit = 1 /\ c = 1
      BY <1>2, <1>3, <1>9 DEF Placed
    <2> QED BY <1>1, <1>5, <2>1 DEF Placed
  <1>10. ASSUME Now.does = "stats", x.does = "stats" PROVE x.of[1] # Now.of[1]
    <2>1. cmd = 3 /\ unit = 3 + Now.of[1] - MinYear /\ c = 3 /\ u = 3 + x.of[1] - MinYear
      BY <1>1, <1>2, <1>10 DEF Placed
    <2> QED BY <1>3, <2>1
  <1> QED BY <1>7, <1>8, <1>9, <1>10

LEMMA Reached ==
    ASSUME AtAUnit, NEW c \in 1 .. 10, c < cmd, NEW u \in 1 .. Length(c)
    PROVE  Commands[c][u] \in Passed
  <1>1. Commands[c][u] \in Units
    BY Places DEF Placed
  <1> QED BY <1>1 DEF Passed, Before

LEMMA BatchesPassed ==
    ASSUME AtAUnit, cmd > 2, NEW b \in Batches
    PROVE  UnitOf("batch", b) \in Passed
  <1>1. PlaceOf(b) + 1 \in 1 .. 2 * Years /\ BatchAt(b[1], PlaceOf(b) + 1) = UnitOf("batch", b)
    BY BatchPlaced
  <1>2. b[1] \in {"cfb", "nfl"}
    BY DEF Batches, Leagues
  <1>3. CASE b[1] = "cfb"
    <2>1. PlaceOf(b) + 1 + 1 \in 1 .. Length(1) /\ Commands[1][PlaceOf(b) + 1 + 1] = UnitOf("batch", b)
      BY <1>1, <1>3, IngestCfb, CommandsAre, SeasonFacts DEF Length
    <2> QED BY <2>1, Reached DEF AtAUnit
  <1>4. CASE b[1] = "nfl"
    <2>1. PlaceOf(b) + 1 + 2 \in 1 .. Length(2) /\ Commands[2][PlaceOf(b) + 1 + 2] = UnitOf("batch", b)
      BY <1>1, <1>4, IngestNfl, CommandsAre, SeasonFacts DEF Length
    <2> QED BY <2>1, Reached DEF AtAUnit
  <1> QED BY <1>2, <1>3, <1>4

LEMMA AllPassed ==
    ASSUME AtAUnit, cmd = 10
    PROVE  /\ Unit("open") \in Passed /\ Unit("enrich") \in Passed
           /\ \A s \in Seasons : UnitOf("stats", <<s>>) \in Passed
           /\ \A r \in Leagues \X Seasons \X Methods : UnitOf("rate", r) \in Passed
           /\ \A r \in Leagues \X Seasons : UnitOf("ledger", r) \in Passed
  <1>1. Unit("open") \in Passed /\ Unit("enrich") \in Passed
    <2>1. 1 \in 1 .. Length(1) /\ Length(1) \in 1 .. Length(1) /\ Length(1) = 2 * Years + 2
      BY IngestCfb, CommandsAre, SeasonFacts DEF Length
    <2> QED BY <2>1, IngestCfb, CommandsAre, Reached
  <1>2. ASSUME NEW s \in Seasons PROVE UnitOf("stats", <<s>>) \in Passed
    <2>1. s - MinYear + 1 \in 1 .. Years /\ MinYear + (s - MinYear + 1) - 1 = s
      BY SeasonFacts, DoctorAssumption DEF DoctorAssumption, Seasons
    <2>2. StatsAt(s - MinYear + 1) = UnitOf("stats", <<s>>)
      BY <2>1 DEF StatsAt
    <2>3. s - MinYear + 1 + 2 \in 1 .. Length(3)
      BY <2>1, IngestPlayersFacts, CommandsAre, SeasonFacts DEF Length
    <2> QED BY <2>1, <2>2, <2>3, IngestPlayersFacts, CommandsAre, Reached
  <1>3. ASSUME NEW l \in Leagues, NEW s \in Seasons, NEW m \in Methods,
               NEW c \in 4 .. 9, Commands[c] = Rate(l, m)
        PROVE  /\ UnitOf("rate", <<l, s, m>>) \in Passed
               /\ m \in LedgerMethods => UnitOf("ledger", <<l, s>>) \in Passed
    <2> DEFINE i == s - MinYear + 1
    <2>1. /\ i \in 1 .. Years /\ MinYear + i - 1 = s
          /\ 2 * i - 1 \in 1 .. 2 * Years /\ 2 * i \in 1 .. 2 * Years
          /\ (2 * i - 1) % 2 = 1 /\ (2 * i) % 2 # 1
          /\ MinYear + (2 * i - 1 - 1) \div 2 = s /\ MinYear + (2 * i - 1) \div 2 = s
      BY SeasonFacts, DoctorAssumption DEF DoctorAssumption, Seasons
    <2> HIDE DEF i
    <2>2. CASE m \notin LedgerMethods
      <3>1. i + 1 \in 1 .. Length(c) /\ Commands[c][i + 1] = RateAt(l, m, i)
        BY <1>3, <2>1, <2>2, RateFacts, SeasonFacts DEF Length
      <3>2. RateAt(l, m, i) = UnitOf("rate", <<l, s, m>>)
        BY <2>1 DEF RateAt
      <3> QED BY <2>2, <3>1, <3>2, Reached
    <2>3. CASE m \in LedgerMethods
      <3>1. /\ 2 * i - 1 + 1 \in 1 .. Length(c) /\ Commands[c][2 * i - 1 + 1] = RatedAt(l, m, 2 * i - 1)
            /\ 2 * i + 1 \in 1 .. Length(c) /\ Commands[c][2 * i + 1] = RatedAt(l, m, 2 * i)
        <4>1. Length(c) = 2 * Years + 1 /\ 2 * Years \in Nat
          BY <1>3, <2>3, RateFacts, SeasonFacts DEF Length
        <4>2. 2 * i - 1 + 1 \in 1 .. Length(c) /\ 2 * i + 1 \in 1 .. Length(c)
          BY <2>1, <4>1
        <4>3. \A j \in 1 .. 2 * Years : Commands[c][j + 1] = RatedAt(l, m, j)
          BY <1>3, <2>3, RateFacts
        <4> QED BY <2>1, <4>2, <4>3
      <3>2. RatedAt(l, m, 2 * i - 1) = UnitOf("rate", <<l, s, m>>)
        BY <2>1 DEF RatedAt
      <3>3. RatedAt(l, m, 2 * i) = UnitOf("ledger", <<l, s>>)
        BY <2>1 DEF RatedAt
      <3> QED BY <2>3, <3>1, <3>2, <3>3, Reached
    <2> QED BY <2>2, <2>3
  <1>4. \A l \in Leagues, m \in Methods : \E c \in 4 .. 9 : Commands[c] = Rate(l, m)
    BY CommandsAre DEF Leagues, Methods
  <1>5. "elo" \in Methods /\ "elo" \in LedgerMethods
    BY DEF Methods, LedgerMethods
  <1>6. \A l \in Leagues, s \in Seasons, m \in Methods : UnitOf("rate", <<l, s, m>>) \in Passed
    BY <1>3, <1>4
  <1>7. \A l \in Leagues, s \in Seasons : UnitOf("ledger", <<l, s>>) \in Passed
    BY <1>3, <1>4, <1>5
  <1> QED BY <1>1, <1>2, <1>6, <1>7

-----------------------------------------------------------------------------
(* What a unit has done once the build is past it, and what made one fail. *)

Done(x) ==
    /\ x.does = "open" => Reference \ Log \subseteq schema
    /\ x.does = "batch" => \/ cache.games[x.of] \in {"none", "empty"}
                         \/ x.of \in db.games \ old
    /\ x.does = "enrich" => (cache.teams = "none" \/ db.mascots \/ "cfb" \notin db.teams)
    /\ x.does = "stats" => (errors \/ x.of[1] \in db.player_season_stats)
    /\ x.does = "rate" /\ HasGames(x.of[1], x.of[2]) => x.of \in fresh \cap db.ratings
    /\ x.does = "ledger" /\ HasGames(x.of[1], x.of[2]) =>
                               x.of \in db.elo_ledger_configs \cap db.elo_ledger_steps

\* Of the cache, a file it lacks; of a season's stats, the games too.
Failed(x) ==
    \/ x.does = "batch" /\ cache.games[x.of] = "none"
    \/ x.does = "enrich" /\ cache.teams = "none"
    \/ /\ x.does = "stats"
       /\ \/ x.of[1] \notin cache.stats
          \/ cache.games[<<"nfl", x.of[1], "regular">>] # "full"

TypeOK ==
    /\ schema \subseteq Reference /\ at \in [Procs -> Nat]
    /\ todo \in [Procs -> {"check", "run", "recreate"}]
    /\ cache \in Caches /\ db \in Databases
    /\ old \subseteq Batches /\ fresh \subseteq Leagues \X Seasons \X Methods
    /\ cmd \in 0 .. 10 /\ (cmd # 0 => unit \in 1 .. Length(cmd))
    /\ chained \in BOOLEAN /\ writing \in BOOLEAN /\ errors \in BOOLEAN /\ collided \in BOOLEAN
    /\ types \in {Types, {"regular"}} /\ last \in {"none", "green", "red"}
    /\ jobs \in 0 .. MaxJobs /\ pulls \in 0 .. MaxPulls

\* A process is in the middle of a statement only while it runs it.
AtAStatement == \A p \in Procs : todo[p] # "check" => Running(p)
\* Games reference their teams.
TeamsKnown == \A b \in db.games : b[1] \in db.teams
\* Errors are a command's own.
NewCommand == cmd = 0 \/ unit = 1 => ~errors
\* In a build, every unit before the present one has done its part, and what it
\* could not do is for want of a file.
Building == cmd # 0 /\ chained
PassedAreDone == Building => types = Types /\ \A x \in Passed : Done(x)
ErrorsHaveACause == Building /\ errors => \E x \in Passed : Failed(x)
\* How a build ended is forgotten with the next command.
RunningHasNoEnd == cmd # 0 => last = "none"

BuildInv == /\ TypeOK /\ SInv /\ AtAStatement /\ TeamsKnown /\ NewCommand /\ PassedAreDone
            /\ ErrorsHaveACause /\ RunningHasNoEnd /\ GreenBuildIsWhole /\ RedHasACause

-----------------------------------------------------------------------------
(* The schema under a build *)

LEMMA JoinOf ==
    ASSUME NEW S, NEW a \in Seq(S), NEW b \in Seq(S)
    PROVE  /\ a \o b \in Seq(S) /\ Len(a \o b) = Len(a) + Len(b)
           /\ \A i \in 1 .. Len(a) : (a \o b)[i] = a[i]
  OBVIOUS

\* Some of the objects the script adds.
LEMMA ReferenceHas ==
    /\ LateAdded \subseteq Reference
    /\ \A t \in {"games", "ratings", "elo_ledger_configs", "elo_ledger_steps",
                "player_season_stats", "teams"} : <<t, "">> \in Reference
  <1>1. \A i \in 1 .. 11 : i \in DOMAIN Statements /\ Statements[i] = Table(i)
    <2> DEFINE S == {Script[i] : i \in 1 .. 11} \cup {SportColumns[i] : i \in 1 .. 10}
                    \cup {LaterColumns[i] : i \in 1 .. 10}
    <2>1. Script = [i \in 1 .. 11 |-> Script[i]] /\ \A i \in 1 .. 11 : Script[i] = Table(i)
      BY DEF Script
    <2>2. SportColumns = [i \in 1 .. 10 |-> SportColumns[i]]
      BY DEF SportColumns
    <2>3. LaterColumns = [i \in 1 .. 10 |-> LaterColumns[i]]
      BY DEF LaterColumns
    <2>4. /\ Script \in Seq(S) /\ Len(Script) = 11
          /\ SportColumns \in Seq(S) /\ Len(SportColumns) = 10
          /\ LaterColumns \in Seq(S) /\ Len(LaterColumns) = 10
      BY <2>1, <2>2, <2>3
    <2> HIDE DEF S
    <2>5. PICK first \in Seq(S) : /\ Statements = first \o LaterColumns
                                 /\ Len(first) = Len(Script) + Len(SportColumns)
                                 /\ \A i \in 1 .. Len(Script) : first[i] = Script[i]
      <3>1. /\ Script \o SportColumns \in Seq(S)
            /\ Len(Script \o SportColumns) = Len(Script) + Len(SportColumns)
            /\ \A i \in 1 .. Len(Script) : (Script \o SportColumns)[i] = Script[i]
        BY <2>4, JoinOf, Zenon
      <3> QED BY <3>1, Zenon DEF Statements
    <2>6. /\ first \o LaterColumns \in Seq(S)
          /\ Len(first \o LaterColumns) = Len(first) + Len(LaterColumns)
          /\ \A i \in 1 .. Len(first) : (first \o LaterColumns)[i] = first[i]
      BY <2>4, JoinOf, Zenon
    <2>7. /\ Len(Statements) = Len(first) + Len(LaterColumns)
          /\ \A i \in 1 .. Len(first) : Statements[i] = first[i]
      BY <2>5, <2>6, Zenon
    <2>8. Len(first) = 21 /\ Len(Statements) = 31
      BY <2>4, <2>5, <2>7
    <2>9. \A i \in 1 .. 11 : Statements[i] = Script[i]
      <3>1. \A i \in 1 .. 11 : i \in 1 .. 21
        OBVIOUS
      <3> QED BY <2>4, <2>5, <2>7, <2>8, <3>1
    <2>10. DOMAIN Statements = 1 .. 31
      BY <2>8, ScriptLength
    <2> QED BY <2>1, <2>9, <2>10
  <1>2. \A i \in 1 .. 11 : Table(i).adds \subseteq Reference
    BY <1>1 DEF Reference
  <1>3. \A i \in 1 .. 11 : <<Tables[i].name, "">> \in Reference
                         /\ \A c \in Tables[i].late : <<Tables[i].name, c>> \in Reference
    BY <1>2 DEF Table
  <1>4. ASSUME NEW i \in 1 .. 11, NEW n, Tables[i].name = n
        PROVE  <<n, "">> \in Reference /\ \A c \in Tables[i].late : <<n, c>> \in Reference
    BY <1>3, <1>4
  <1>0. 1 \in 1 .. 11 /\ 3 \in 1 .. 11 /\ 4 \in 1 .. 11 /\ 5 \in 1 .. 11 /\ 6 \in 1 .. 11
        /\ 7 \in 1 .. 11 /\ 10 \in 1 .. 11
    OBVIOUS
  <1>5. /\ <<"teams", "">> \in Reference
        /\ <<"teams", "sport">> \in Reference /\ <<"teams", "alternate_names">> \in Reference
    <2>1. Tables[1].name = "teams" /\ "sport" \in Tables[1].late /\ "alternate_names" \in Tables[1].late
      BY DEF Tables
    <2> QED BY <1>4, <1>0, <2>1, Zenon
  <1>6. /\ <<"games", "">> \in Reference
        /\ <<"games", "sport">> \in Reference /\ <<"games", "conference_championship">> \in Reference
    <2>1. Tables[3].name = "games" /\ "sport" \in Tables[3].late /\ "conference_championship" \in Tables[3].late
      BY DEF Tables
    <2> QED BY <1>4, <1>0, <2>1, Zenon
  <1>7. /\ <<"ratings", "">> \in Reference
        /\ <<"ratings", "sport">> \in Reference /\ <<"ratings", "ties">> \in Reference
    <2>1. Tables[4].name = "ratings" /\ "sport" \in Tables[4].late /\ "ties" \in Tables[4].late
      BY DEF Tables
    <2> QED BY <1>4, <1>0, <2>1, Zenon
  <1>8. /\ <<"rating_breakdowns", "">> \in Reference /\ <<"rating_breakdowns", "sport">> \in Reference
        /\ <<"elo_ledger_steps", "">> \in Reference
    <2>1. /\ Tables[5].name = "rating_breakdowns" /\ "sport" \in Tables[5].late
          /\ Tables[6].name = "elo_ledger_steps"
      BY DEF Tables
    <2> QED BY <1>4, <1>0, <2>1, Zenon
  <1>9. /\ <<"elo_ledger_configs", "">> \in Reference
        /\ <<"elo_ledger_configs", "mov_denom_floor_fraction">> \in Reference
        /\ <<"player_season_stats", "">> \in Reference
    <2>1. /\ Tables[7].name = "elo_ledger_configs" /\ "mov_denom_floor_fraction" \in Tables[7].late
          /\ Tables[10].name = "player_season_stats"
      BY DEF Tables
    <2> QED BY <1>4, <1>0, <2>1, Zenon
  <1> QED BY <1>5, <1>6, <1>7, <1>8, <1>9 DEF LateAdded

\* A step of the schema takes away nothing but the log.
LEMMA SchemaKept ==
    ASSUME [SchemaNext]_svars, SInv, AtAStatement, schema \subseteq Reference
    PROVE  schema \ Log \subseteq schema' /\ schema' \subseteq Reference /\ AtAStatement'
  <1>1. CASE UNCHANGED svars
    BY <1>1 DEF svars, AtAStatement, Running
  <1>2. ASSUME NEW p \in Procs, SchemaStep(p) \/ Die(p)
        PROVE  schema \ Log \subseteq schema' /\ schema' \subseteq Reference /\ AtAStatement'
    <2>1. Running(p) => Statement(p).adds \subseteq Reference
      BY DEF Running, Statement, Reference
    <2>2. schema \ Log \subseteq schema' /\ schema' \subseteq Reference
      <3>1. CASE Adds(p) /\ Running(p)
        BY <2>1, <3>1 DEF Adds
      <3>2. CASE Drop(p)
        BY <3>2 DEF Drop
      <3>3. CASE Recreate(p)
        BY <2>1, <3>3 DEF Recreate, Adds, AtAStatement
      <3>4. CASE UNCHANGED schema
        BY <3>4
      <3> QED BY <1>2, <3>1, <3>2, <3>3, <3>4
          DEF SchemaStep, Open, Present, Create, Missing, Alter, Die
    <2>3. CASE Open(p)
      BY <2>2, <2>3, ScriptLength DEF Open, AtAStatement, Running, SInv
    <2>4. CASE Proceed(p) \/ Close(p)
      BY <2>2, <2>4 DEF Proceed, Close, AtAStatement, Running, SInv
    <2>5. CASE Missing(p) \/ Drop(p)
      BY <2>2, <2>5 DEF Missing, Drop, AtAStatement, Running, SInv
    <2> QED BY <1>2, <2>3, <2>4, <2>5
        DEF SchemaStep, Present, Create, Alter, Recreate, Adds, Die
  <1> QED BY <1>1, <1>2 DEF SchemaNext

-----------------------------------------------------------------------------
(* How a command goes on and how it ends *)

LEMMA ExitFacts ==
    ASSUME NEW ok \in BOOLEAN, Exit(ok)
    PROVE  /\ schema' = schema /\ [SchemaNext]_svars
           /\ writing' = FALSE /\ errors' = FALSE /\ UNCHANGED <<jobs, pulls, types, chained>>
           /\ \/ /\ ok /\ chained /\ cmd < 10
                 /\ cmd' = cmd + 1 /\ unit' = 1 /\ last' = last
              \/ /\ ~(ok /\ chained /\ cmd < 10)
                 /\ cmd' = 0
                 /\ last' = IF ~chained THEN "none" ELSE IF ok THEN "green" ELSE "red"
  <1>1. schema' = schema /\ [SchemaNext]_svars
    <2>1. CASE at["job"] # 0
      <3>1. Die("job")
        BY <2>1 DEF Exit, CloseFile, Die
      <3> QED BY <3>1, BuildAssumption DEF BuildAssumption, SchemaNext, Exit
    <2>2. CASE at["job"] = 0
      BY <2>2 DEF Exit, CloseFile, svars
    <2> QED BY <2>1, <2>2
  <1> QED BY <1>1, CommandsAre DEF Exit

\* The unit's end is the next one's start, in the command or the build, or the end.
LEMMA AdvanceFacts ==
    ASSUME TypeOK, RunningHasNoEnd, cmd # 0, Now.does # "doctor",
           NEW failed \in BOOLEAN, Advance(failed)
    PROVE  /\ schema' = schema /\ [SchemaNext]_svars
           /\ cmd' \in 0 .. 10 /\ (cmd' # 0 => unit' \in 1 .. Length(cmd'))
           /\ writing' \in BOOLEAN /\ errors' \in BOOLEAN
           /\ UNCHANGED <<chained, types, collided, jobs, pulls>>
           /\ last' \in {"none", "red"} /\ RunningHasNoEnd' /\ NewCommand'
           /\ last' = "red" => chained /\ (errors \/ failed)
           /\ Building' => /\ Building /\ Passed' = Passed \cup {Now}
                           /\ errors' = (errors \/ failed)
  <1>1. AtAUnit
    BY DEF TypeOK, AtAUnit
  <1>2. cmd # 10
    BY <1>1, CommandsAre DEF AtAUnit, Now, Length, Unit
  <1>3. last = "none" /\ cmd \in 1 .. 9 /\ unit \in Nat
    BY <1>1, <1>2, Lengths DEF RunningHasNoEnd, AtAUnit
  <1>0. writing \in BOOLEAN /\ errors \in BOOLEAN /\ chained \in BOOLEAN
    BY DEF TypeOK
  <1>4. CASE unit < Length(cmd)
    <2>1. /\ unit' = unit + 1 /\ errors' = (errors \/ failed)
          /\ UNCHANGED <<svars, cmd, chained, types, writing, last, collided, jobs, pulls>>
      BY <1>4 DEF Advance, Length, HistoryUnchanged
    <2>2. Before(cmd, unit + 1) = Before(cmd, unit) \cup {Now}
      BY <1>1, <1>3, NowFacts DEF Before, Now, AtAUnit
    <2>3. Passed' = Before(cmd, unit + 1) /\ Passed = Before(cmd, unit)
      BY <2>1 DEF Passed
    <2>4. unit + 1 \in 1 .. Length(cmd) /\ unit + 1 # 1
      BY <1>1, <1>3, <1>4, Lengths DEF AtAUnit
    <2> QED BY <1>3, <2>1, <2>2, <2>3, <2>4
            DEF TypeOK, RunningHasNoEnd, NewCommand, Building, svars
  <1>5. CASE ~(unit < Length(cmd))
    <2>1. Exit(~errors /\ ~failed) /\ UNCHANGED collided
      BY <1>5 DEF Advance, Length
    <2>2. /\ schema' = schema /\ [SchemaNext]_svars
          /\ writing' = FALSE /\ errors' = FALSE /\ UNCHANGED <<jobs, pulls, types, chained>>
          /\ \/ /\ ~errors /\ ~failed /\ chained
                /\ cmd' = cmd + 1 /\ unit' = 1 /\ last' = last
             \/ /\ ~(~errors /\ ~failed /\ chained)
                /\ cmd' = 0 /\ last' = IF ~chained THEN "none" ELSE "red"
      <3>1. (~errors /\ ~failed) \in BOOLEAN /\ cmd < 10
        BY <1>3
      <3> QED BY <2>1, <3>1, ExitFacts
    <2>3. CASE cmd' = 0 /\ last' = IF ~chained THEN "none" ELSE "red"
      <3>1. ~errors' /\ cmd' \in 0 .. 10 /\ last' \in {"none", "red"}
        BY <1>0, <2>2, <2>3
      <3> QED BY <1>0, <2>1, <2>2, <2>3, <3>1 DEF RunningHasNoEnd, NewCommand, Building
    <2>4. CASE ~errors /\ ~failed /\ chained /\ cmd' = cmd + 1 /\ unit' = 1 /\ last' = last
      <3>1. unit = Length(cmd)
        BY <1>1, <1>5, Lengths DEF AtAUnit
      <3>2. Before(cmd + 1, 1) = Before(cmd, unit) \cup {Now}
        BY <1>1, <1>3, <3>1, Lengths, NowFacts DEF Before, Now, AtAUnit
      <3>3. Passed' = Before(cmd + 1, 1) /\ Passed = Before(cmd, unit)
        BY <2>4 DEF Passed
      <3>4. cmd + 1 \in 1 .. 10 /\ 1 \in 1 .. Length(cmd + 1)
        BY <1>3, Lengths
      <3>5. errors' = FALSE /\ errors' = (errors \/ failed) /\ cmd' \in 1 .. 10 /\ unit' = 1
        BY <1>0, <2>2, <2>4, <3>4
      <3>6. Passed' = Passed \cup {Now}
        BY <3>2, <3>3
      <3>7. cmd' # 0 /\ cmd' \in 0 .. 10 /\ unit' \in 1 .. Length(cmd') /\ last' = "none"
        BY <1>3, <2>4, <3>4
      <3>8. Building /\ RunningHasNoEnd' /\ NewCommand'
        BY <2>4, <3>5, <3>7 DEF Building, RunningHasNoEnd, NewCommand
      <3> QED BY <2>1, <2>2, <3>5, <3>6, <3>7, <3>8
    <2> QED BY <2>2, <2>3, <2>4
  <1> QED BY <1>4, <1>5

LEMMA FailedNotWhole ==
    ASSUME NEW x \in Units
    PROVE  (Failed(x) => ~Whole) /\ (Failed(x)' => ~Whole')
  <1>1. x.does = "batch" => x.of \in Batches
    BY UnitKinds
  <1>2. x.does = "stats" => x.of[1] \in Seasons /\ <<"nfl", x.of[1], "regular">> \in Batches
    BY UnitKinds DEF Batches, Leagues, Types
  <1>3. Failed(x) => ~Whole
    BY <1>1, <1>2 DEF Failed, Whole
  <1>4. Failed(x)' => ~Whole'
    BY <1>1, <1>2 DEF Failed, Whole
  <1> QED BY <1>3, <1>4

-----------------------------------------------------------------------------
(* The inductive invariant, kind of step by kind of step *)

\* A step that ends a unit.
LEMMA AdvanceKeeps ==
    ASSUME BuildInv, cmd # 0, Now.does # "doctor", NEW failed \in BOOLEAN, Advance(failed),
           cache' \in Caches, db' \in Databases, old' \subseteq Batches,
           fresh' \subseteq Leagues \X Seasons \X Methods, TeamsKnown',
           Building /\ errors' = (errors \/ failed) /\ schema' = schema =>
               \A x \in Passed \cup {Now} : Done(x)',
           Building /\ failed => \A x \in {Now} : Failed(x)',
           Building => \A x \in Passed : Failed(x) => Failed(x)'
    PROVE  BuildInv'
  <1>1. /\ schema' = schema /\ [SchemaNext]_svars
        /\ cmd' \in 0 .. 10 /\ (cmd' # 0 => unit' \in 1 .. Length(cmd'))
        /\ writing' \in BOOLEAN /\ errors' \in BOOLEAN
        /\ UNCHANGED <<chained, types, collided, jobs, pulls>>
        /\ last' \in {"none", "red"} /\ RunningHasNoEnd' /\ NewCommand'
        /\ last' = "red" => chained /\ (errors \/ failed)
        /\ Building' => /\ Building /\ Passed' = Passed \cup {Now}
                        /\ errors' = (errors \/ failed)
    BY AdvanceFacts DEF BuildInv
  <1>2. SInv' /\ AtAStatement' /\ schema' \subseteq Reference
    BY <1>1, NextSInv, SchemaKept DEF BuildInv, TypeOK
  <1>3. TypeOK'
    <2>1. /\ types' \in {Types, {"regular"}} /\ chained' \in BOOLEAN /\ collided' \in BOOLEAN
          /\ jobs' \in 0 .. MaxJobs /\ pulls' \in 0 .. MaxPulls
      BY <1>1 DEF BuildInv, TypeOK
    <2>2. last' \in {"none", "green", "red"}
      BY <1>1
    <2>3. at' \in [Procs -> Nat] /\ todo' \in [Procs -> {"check", "run", "recreate"}]
      BY <1>2 DEF SInv
    <2> QED BY <1>1, <1>2, <2>1, <2>2, <2>3 DEF TypeOK
  <1>4. PassedAreDone'
    BY <1>1 DEF BuildInv, PassedAreDone
  <1>5. Building /\ (errors \/ failed) => \E x \in Passed \cup {Now} : Failed(x)'
    <2> SUFFICES ASSUME Building, errors \/ failed PROVE \E x \in Passed \cup {Now} : Failed(x)'
      OBVIOUS
    <2>1. CASE failed
      BY <2>1
    <2>2. CASE ~failed
      <3>1. PICK x \in Passed : Failed(x)
        BY <2>2 DEF BuildInv, ErrorsHaveACause
      <3> QED BY <3>1
    <2> QED BY <2>1, <2>2
  <1>6. ErrorsHaveACause'
    BY <1>1, <1>5 DEF ErrorsHaveACause
  <1>7. \A x \in Passed \cup {Now} : x \in Units
    BY NowFacts DEF BuildInv, TypeOK, AtAUnit, Passed, Before
  <1>8. RedHasACause'
    BY <1>1, <1>5, <1>7, FailedNotWhole DEF RedHasACause, Building
  <1>9. GreenBuildIsWhole'
    BY <1>1 DEF GreenBuildIsWhole
  <1> QED BY <1>1, <1>2, <1>3, <1>4, <1>6, <1>8, <1>9 DEF BuildInv

\* A step within a unit.
LEMMA StayKeeps ==
    ASSUME BuildInv, cmd # 0, SInv', AtAStatement', schema' \subseteq Reference,
           UNCHANGED <<cmd, unit, chained, types, errors, db, old, fresh, last, collided, jobs, pulls>>,
           cache' \in Caches, writing' \in BOOLEAN,
           Building => \A x \in Passed : /\ Done(x) => Done(x)'
                                         /\ Failed(x) => Failed(x)'
    PROVE  BuildInv'
  <1>1. last' = "none" /\ RunningHasNoEnd' /\ NewCommand' /\ TeamsKnown'
    BY DEF BuildInv, RunningHasNoEnd, NewCommand, TeamsKnown
  <1>2. TypeOK'
    BY DEF BuildInv, TypeOK, SInv
  <1>3. Passed' = Passed /\ Building' = Building
    BY DEF Passed, Building
  <1>4. PassedAreDone' /\ ErrorsHaveACause'
    BY <1>3 DEF BuildInv, PassedAreDone, ErrorsHaveACause
  <1> QED BY <1>1, <1>2, <1>4 DEF BuildInv, RedHasACause, GreenBuildIsWhole

\* A step that ends the command, and with it the build.
LEMMA EndKeeps ==
    ASSUME BuildInv, cmd' = 0, errors' = FALSE, SInv', AtAStatement', schema' \subseteq Reference,
           UNCHANGED <<db, old, fresh, types, chained, jobs, pulls>>,
           cache' \in Caches, writing' \in BOOLEAN, collided' \in BOOLEAN,
           last' \in {"none", "green", "red"}, GreenBuildIsWhole', RedHasACause'
    PROVE  BuildInv'
  <1>1. RunningHasNoEnd' /\ NewCommand' /\ TeamsKnown'
    BY DEF BuildInv, RunningHasNoEnd, NewCommand, TeamsKnown
  <1>2. TypeOK'
    <2>1. TypeOK
      BY DEF BuildInv
    <2>2. errors' \in BOOLEAN
      BY Zenon
    <2>3. cmd' \in 0 .. 10
      OBVIOUS
    <2> QED BY <2>1, <2>2, <2>3 DEF TypeOK, SInv
  <1> QED BY <1>1, <1>2 DEF BuildInv, PassedAreDone, ErrorsHaveACause, Building

-----------------------------------------------------------------------------
(* The actions *)

LEMMA NowIs ==
    ASSUME TypeOK, NEW w, Does(w)
    PROVE  cmd # 0 /\ AtAUnit /\ Now \in Units /\ Now.does = w /\ Of = Now.of
  <1>1. cmd # 0 /\ Now.does = w /\ Of = Now.of
    BY DEF Does, Of, Now
  <1>2. AtAUnit
    BY <1>1 DEF TypeOK, AtAUnit
  <1> QED BY <1>1, <1>2, NowFacts

\* A unit's end that leaves the files as they are.
LEMMA IdleAdvance ==
    ASSUME BuildInv, NEW w, w # "doctor", Does(w), NEW failed \in BOOLEAN, Advance(failed),
           UNCHANGED cache, DataUnchanged,
           Building /\ errors' = (errors \/ failed) /\ schema' = schema =>
               \A x \in {Now} : Done(x)',
           Building /\ failed => \A x \in {Now} : Failed(x)'
    PROVE  BuildInv'
  <1>1. cmd # 0 /\ Now.does # "doctor"
    BY NowIs DEF BuildInv
  <1>2. /\ cache' \in Caches /\ db' \in Databases /\ old' \subseteq Batches
        /\ fresh' \subseteq Leagues \X Seasons \X Methods /\ TeamsKnown'
    BY DEF BuildInv, TypeOK, DataUnchanged, TeamsKnown
  <1>3. ASSUME Building, errors' = (errors \/ failed), schema' = schema, NEW x \in Passed
        PROVE  Done(x)'
    <2>1. Done(x)
      BY <1>3 DEF BuildInv, PassedAreDone
    <2> QED BY <2>1, <1>3 DEF Done, DataUnchanged, HasGames
  <1>4. \A x : Failed(x) => Failed(x)'
    BY DEF Failed
  <1> QED BY <1>1, <1>2, <1>3, <1>4, AdvanceKeeps

LEMMA OpenDoneKeeps == ASSUME BuildInv, OpenDone PROVE BuildInv'
  <1>1. Does("open") /\ at["job"] = Opened /\ Advance(FALSE) /\ UNCHANGED cache /\ DataUnchanged
    BY DEF OpenDone
  <1>2. Reference \ Log \subseteq schema
    BY <1>1, SInvCurrent, BuildAssumption DEF BuildInv, OpenedIsCurrent, BuildAssumption
  <1>3. Now.does = "open"
    BY <1>1, NowIs DEF BuildInv
  <1>4. schema' = schema => \A x \in {Now} : Done(x)'
    BY <1>2, <1>3 DEF Done
  <1> QED BY <1>1, <1>4, IdleAdvance

LEMMA FetchBatchFailsKeeps == ASSUME BuildInv, FetchBatchFails PROVE BuildInv'
  <1>1. /\ Does("batch") /\ cache.games[Of] = "none"
        /\ Advance(TRUE) /\ UNCHANGED cache /\ DataUnchanged
    BY DEF FetchBatchFails, BatchDue, FetchFails
  <1>2. Now.does = "batch" /\ Of = Now.of
    BY <1>1, NowIs DEF BuildInv
  <1>3. \A x \in {Now} : Done(x)' /\ Failed(x)'
    BY <1>1, <1>2 DEF Done, Failed
  <1> QED BY <1>1, <1>3, IdleAdvance

LEMMA FetchTeamsFailsKeeps == ASSUME BuildInv, FetchTeamsFails PROVE BuildInv'
  <1>1. /\ Does("enrich") /\ cache.teams = "none"
        /\ Advance(TRUE) /\ UNCHANGED cache /\ DataUnchanged
    BY DEF FetchTeamsFails, FetchFails
  <1>2. Now.does = "enrich"
    BY <1>1, NowIs DEF BuildInv
  <1>3. \A x \in {Now} : Done(x)' /\ Failed(x)'
    BY <1>1, <1>2 DEF Done, Failed
  <1> QED BY <1>1, <1>3, IdleAdvance

LEMMA CsvThereKeeps == ASSUME BuildInv, CsvThere PROVE BuildInv'
  <1>1. Does("games.csv") /\ Advance(FALSE) /\ UNCHANGED cache /\ DataUnchanged
    BY DEF CsvThere
  <1>2. Now.does = "games.csv"
    BY <1>1, NowIs DEF BuildInv
  <1>3. \A x \in {Now} : Done(x)'
    BY <1>2 DEF Done
  <1> QED BY <1>1, <1>3, IdleAdvance

\* The build leaves no season type out.
LEMMA BatchSkippedKeeps == ASSUME BuildInv, BatchSkipped PROVE BuildInv'
  <1>1. Does("batch") /\ Of[3] \notin types /\ Advance(FALSE) /\ UNCHANGED cache /\ DataUnchanged
    BY DEF BatchSkipped, Skipped
  <1>2. Of \in Batches
    BY <1>1, NowIs, UnitKinds DEF BuildInv
  <1>3. ~Building
    BY <1>1, <1>2 DEF BuildInv, PassedAreDone, Batches
  <1> QED BY <1>1, <1>3, IdleAdvance

LEMMA SeasonStatsFailsKeeps == ASSUME BuildInv, SeasonStatsFails PROVE BuildInv'
  <1>1. /\ Does("stats") /\ (~HasGames("nfl", Of[1]) \/ Of[1] \notin cache.stats)
        /\ Advance(TRUE) /\ UNCHANGED cache /\ DataUnchanged
    BY DEF SeasonStatsFails, FetchFails
  <1>2. AtAUnit /\ Now.does = "stats" /\ Now \in Units /\ Of = Now.of /\ Of[1] \in Seasons
    BY <1>1, NowIs, UnitKinds DEF BuildInv
  <1>3. errors' = (errors \/ TRUE) => \A x \in {Now} : Done(x)'
    BY <1>2 DEF Done
  <1>4. ASSUME Building PROVE \A x \in {Now} : Failed(x)'
    <2> DEFINE b == <<"nfl", Of[1], "regular">>
    <2>1. b \in Batches
      BY <1>2 DEF Batches, Leagues, Types
    <2>2. cmd > 2
      BY <1>2, NowFacts DEF Placed
    <2>3. UnitOf("batch", b) \in Passed
      BY <1>2, <2>1, <2>2, BatchesPassed
    <2>4. cache.games[b] \in {"none", "empty"} \/ b \in db.games
      BY <1>4, <2>3 DEF BuildInv, PassedAreDone, Done, UnitOf
    <2>5. HasGames("nfl", Of[1]) \/ cache.games[b] # "full"
      BY <2>4 DEF HasGames, Types
    <2> QED BY <1>1, <1>2, <2>5 DEF Failed
  <1> QED BY <1>1, <1>3, <1>4, IdleAdvance

LEMMA RosterKeeps == ASSUME BuildInv, Roster PROVE BuildInv'
  <1>1. /\ Does("players.csv") /\ cache' = [cache EXCEPT !.roster = TRUE]
        /\ Advance(FALSE) /\ DataUnchanged
    BY DEF Roster
  <1>2. Now.does = "players.csv" /\ cmd # 0
    BY <1>1, NowIs DEF BuildInv
  <1>3. /\ cache' \in Caches /\ cache'.games = cache.games /\ cache'.teams = cache.teams
        /\ cache'.stats = cache.stats
    BY <1>1 DEF BuildInv, TypeOK, Caches
  <1>4. /\ db' \in Databases /\ old' \subseteq Batches
        /\ fresh' \subseteq Leagues \X Seasons \X Methods /\ TeamsKnown'
    BY <1>1 DEF BuildInv, TypeOK, DataUnchanged, TeamsKnown
  <1>5. ASSUME Building, errors' = (errors \/ FALSE), schema' = schema, NEW x \in Passed \cup {Now}
        PROVE  Done(x)'
    <2>1. CASE x = Now
      BY <1>2, <2>1 DEF Done
    <2>2. CASE x \in Passed
      <3>1. Done(x)
        BY <1>5, <2>2 DEF BuildInv, PassedAreDone
      <3> QED BY <1>1, <1>3, <1>5, <3>1 DEF Done, DataUnchanged, HasGames
    <2> QED BY <2>1, <2>2
  <1>6. \A x : Failed(x) => Failed(x)'
    BY <1>3 DEF Failed
  <1> QED BY <1>1, <1>2, <1>3, <1>4, <1>5, <1>6, AdvanceKeeps

\* Only a batch of its own can come before a batch, and of the rest what no games
\* can undo.
LEMMA BatchKeeps == ASSUME BuildInv, Batch PROVE BuildInv'
  <1>1. /\ Does("batch") /\ Of[3] \in types /\ Advance(FALSE) /\ UNCHANGED cache
        /\ IF cache.games[Of] \in {"none", "empty"} THEN DataUnchanged
           ELSE /\ db' = [db EXCEPT !.games = @ \cup {Of}, !.teams = @ \cup {Of[1]}]
                /\ old' = old \ {Of}
                /\ fresh' = IF Of \in db.games \ old THEN fresh ELSE fresh \ Affected(Of[1], Of[2])
    BY DEF Batch, Skipped
  <1>2. /\ AtAUnit /\ Now.does = "batch" /\ Now \in Units /\ Of = Now.of /\ cmd # 0
        /\ Of \in Batches /\ Of[1] \in Leagues
    <2>1. AtAUnit /\ Now.does = "batch" /\ Now \in Units /\ Of = Now.of /\ cmd # 0
      BY <1>1, NowIs DEF BuildInv
    <2> QED BY <2>1, UnitKinds DEF Batches
  <1>3. CASE cache.games[Of] \in {"none", "empty"}
    <2>1. \A x \in {Now} : Done(x)'
      BY <1>1, <1>2, <1>3 DEF Done
    <2> QED BY <1>1, <1>3, <2>1, IdleAdvance
  <1>4. CASE cache.games[Of] \notin {"none", "empty"}
    <2>1. /\ db' \in Databases /\ db'.games = db.games \cup {Of} /\ db'.teams = db.teams \cup {Of[1]}
          /\ db'.mascots = db.mascots
      <3>1. db \in Databases /\ db' = [db EXCEPT !.games = @ \cup {Of}, !.teams = @ \cup {Of[1]}]
        BY <1>1, <1>4 DEF BuildInv, TypeOK
      <3>2. db.games \cup {Of} \subseteq Batches /\ db.teams \cup {Of[1]} \subseteq Leagues
        BY <1>2, <3>1 DEF Databases
      <3> QED BY <3>1, <3>2 DEF Databases
    <2>2. /\ cache' \in Caches /\ old' \subseteq Batches
          /\ fresh' \subseteq Leagues \X Seasons \X Methods /\ TeamsKnown'
      <3>1. /\ cache \in Caches /\ old \subseteq Batches
            /\ fresh \subseteq Leagues \X Seasons \X Methods /\ TeamsKnown
        BY DEF BuildInv, TypeOK
      <3>2. fresh' \subseteq fresh /\ old' \subseteq old /\ cache' = cache
        BY <1>1, <1>4
      <3>3. TeamsKnown'
        BY <2>1, <3>1 DEF TeamsKnown
      <3> QED BY <3>1, <3>2, <3>3
    <2>3. ASSUME Building, schema' = schema, NEW x \in Passed \cup {Now}
          PROVE  Done(x)'
      <3>1. CASE x = Now
        BY <1>1, <1>2, <1>4, <2>1, <3>1 DEF Done
      <3>2. CASE x \in Passed
        <4>1. Done(x)
          BY <2>3, <3>2 DEF BuildInv, PassedAreDone
        <4>2. /\ x.does \in {"open", "batch", "enrich", "games.csv"}
              /\ x.does = "enrich" => Of[1] = "nfl"
          BY <1>2, <3>2, PassedFacts
        <4> QED BY <1>1, <1>4, <2>1, <2>3, <4>1, <4>2 DEF Done
      <3> QED BY <3>1, <3>2
    <2>4. \A x : Failed(x) => Failed(x)'
      BY <1>1 DEF Failed
    <2> QED BY <1>1, <1>2, <2>1, <2>2, <2>3, <2>4, AdvanceKeeps
  <1> QED BY <1>3, <1>4

LEMMA EnrichKeeps == ASSUME BuildInv, Enrich PROVE BuildInv'
  <1>1. /\ Does("enrich") /\ Advance(FALSE) /\ UNCHANGED <<cache, old, fresh>>
        /\ db' = [db EXCEPT !.mascots = @ \/ "cfb" \in db.teams]
    BY DEF Enrich
  <1>2. AtAUnit /\ Now.does = "enrich" /\ cmd # 0
    BY <1>1, NowIs DEF BuildInv
  <1>3. db'.games = db.games /\ db'.teams = db.teams /\ db'.mascots = (db.mascots \/ "cfb" \in db.teams)
    BY <1>1 DEF BuildInv, TypeOK, Databases
  <1>4. db' \in Databases
    <2>1. (db.mascots \/ "cfb" \in db.teams) \in BOOLEAN
      OBVIOUS
    <2> QED BY <1>1, <2>1 DEF BuildInv, TypeOK, Databases
  <1>5. /\ cache' \in Caches /\ old' \subseteq Batches
        /\ fresh' \subseteq Leagues \X Seasons \X Methods /\ TeamsKnown'
    BY <1>1, <1>3 DEF BuildInv, TypeOK, TeamsKnown
  <1>6. ASSUME Building, schema' = schema, NEW x \in Passed \cup {Now}
        PROVE  Done(x)'
    <2>1. CASE x = Now
      BY <1>2, <1>3, <2>1 DEF Done
    <2>2. CASE x \in Passed
      <3>1. Done(x) /\ x.does \in {"open", "batch"}
        BY <1>2, <1>6, <2>2, PassedFacts DEF BuildInv, PassedAreDone
      <3> QED BY <1>1, <1>3, <1>6, <3>1 DEF Done
    <2> QED BY <2>1, <2>2
  <1>7. \A x : Failed(x) => Failed(x)'
    BY <1>1 DEF Failed
  <1> QED BY <1>1, <1>2, <1>4, <1>5, <1>6, <1>7, AdvanceKeeps

LEMMA SeasonStatsKeeps == ASSUME BuildInv, SeasonStats PROVE BuildInv'
  <1>1. /\ Does("stats") /\ cache' = [cache EXCEPT !.stats = @ \cup {Of[1]}]
        /\ db' = [db EXCEPT !.player_season_stats = @ \cup {Of[1]}]
        /\ Advance(FALSE) /\ UNCHANGED <<old, fresh>>
    BY DEF SeasonStats
  <1>2. AtAUnit /\ Now.does = "stats" /\ cmd # 0 /\ Of = Now.of /\ Of[1] \in Seasons
    BY <1>1, NowIs, UnitKinds DEF BuildInv
  <1>3. /\ cache' \in Caches /\ cache'.games = cache.games /\ cache'.teams = cache.teams
        /\ cache'.stats = cache.stats \cup {Of[1]}
    BY <1>1, <1>2 DEF BuildInv, TypeOK, Caches
  <1>4. /\ db' \in Databases /\ db'.games = db.games /\ db'.teams = db.teams
        /\ db'.mascots = db.mascots /\ db'.ratings = db.ratings
        /\ db'.player_season_stats = db.player_season_stats \cup {Of[1]}
        /\ db'.elo_ledger_configs = db.elo_ledger_configs
        /\ db'.elo_ledger_steps = db.elo_ledger_steps
    BY <1>1, <1>2 DEF BuildInv, TypeOK, Databases
  <1>5. /\ old' \subseteq Batches /\ fresh' \subseteq Leagues \X Seasons \X Methods /\ TeamsKnown'
    BY <1>1, <1>4 DEF BuildInv, TypeOK, TeamsKnown
  <1>6. ASSUME Building, errors' = (errors \/ FALSE), schema' = schema, NEW x \in Passed \cup {Now}
        PROVE  Done(x)'
    <2>1. CASE x = Now
      BY <1>2, <1>4, <2>1 DEF Done
    <2>2. CASE x \in Passed
      <3>1. Done(x)
        BY <1>6, <2>2 DEF BuildInv, PassedAreDone
      <3> QED BY <1>1, <1>3, <1>4, <1>6, <3>1 DEF Done, HasGames
    <2> QED BY <2>1, <2>2
  <1>7. ASSUME NEW x \in Passed, Failed(x) PROVE Failed(x)'
    <2>1. x.does = "stats" => x.of[1] # Of[1]
      BY <1>2, PassedFacts
    <2> QED BY <1>3, <1>7, <2>1 DEF Failed
  <1> QED BY <1>1, <1>2, <1>3, <1>4, <1>5, <1>6, <1>7, AdvanceKeeps

LEMMA RateSeasonKeeps == ASSUME BuildInv, RateSeason PROVE BuildInv'
  <1>1. /\ Does("rate") /\ Advance(FALSE) /\ UNCHANGED <<cache, old>>
        /\ IF HasGames(Of[1], Of[2])
           THEN db' = [db EXCEPT !.ratings = @ \cup {Of}] /\ fresh' = fresh \cup {Of}
           ELSE db' = [db EXCEPT !.ratings = @ \ {Of}] /\ fresh' = fresh \ {Of}
    BY DEF RateSeason
  <1>2. AtAUnit /\ Now.does = "rate" /\ cmd # 0 /\ Of = Now.of /\ Of \in Leagues \X Seasons \X Methods
    BY <1>1, NowIs, UnitKinds DEF BuildInv
  <1>3. /\ db'.games = db.games /\ db'.teams = db.teams /\ db'.mascots = db.mascots
        /\ db'.player_season_stats = db.player_season_stats
        /\ db'.elo_ledger_configs = db.elo_ledger_configs
        /\ db'.elo_ledger_steps = db.elo_ledger_steps
        /\ db'.ratings = IF HasGames(Of[1], Of[2]) THEN db.ratings \cup {Of} ELSE db.ratings \ {Of}
        /\ fresh' = IF HasGames(Of[1], Of[2]) THEN fresh \cup {Of} ELSE fresh \ {Of}
    BY <1>1 DEF BuildInv, TypeOK, Databases
  <1>4. db' \in Databases
    BY <1>1, <1>2 DEF BuildInv, TypeOK, Databases
  <1>5. /\ cache' \in Caches /\ old' \subseteq Batches
        /\ fresh' \subseteq Leagues \X Seasons \X Methods /\ TeamsKnown'
    BY <1>1, <1>2, <1>3 DEF BuildInv, TypeOK, TeamsKnown
  <1>6. ASSUME Building, errors' = (errors \/ FALSE), schema' = schema, NEW x \in Passed \cup {Now}
        PROVE  Done(x)'
    <2>1. CASE x = Now
      BY <1>2, <1>3, <2>1 DEF Done, HasGames
    <2>2. CASE x \in Passed
      <3>1. Done(x)
        BY <1>6, <2>2 DEF BuildInv, PassedAreDone
      <3>2. x.of = Of => x.of[1] = Of[1] /\ x.of[2] = Of[2]
        OBVIOUS
      <3> QED BY <1>1, <1>3, <1>6, <3>1, <3>2 DEF Done, HasGames
    <2> QED BY <2>1, <2>2
  <1>7. \A x : Failed(x) => Failed(x)'
    BY <1>1 DEF Failed
  <1> QED BY <1>1, <1>2, <1>4, <1>5, <1>6, <1>7, AdvanceKeeps

LEMMA StoreLedgerKeeps == ASSUME BuildInv, StoreLedger PROVE BuildInv'
  <1> DEFINE rows(S) == IF HasGames(Of[1], Of[2]) THEN S \cup {Of} ELSE S \ {Of}
  <1>1. /\ Does("ledger") /\ Advance(FALSE) /\ UNCHANGED <<cache, old, fresh>>
        /\ db' = [db EXCEPT !.elo_ledger_configs = rows(@), !.elo_ledger_steps = rows(@)]
    BY DEF StoreLedger
  <1>2. AtAUnit /\ Now.does = "ledger" /\ cmd # 0 /\ Of = Now.of /\ Of \in Leagues \X Seasons
    BY <1>1, NowIs, UnitKinds DEF BuildInv
  <1>3. /\ db'.games = db.games /\ db'.teams = db.teams /\ db'.mascots = db.mascots
        /\ db'.player_season_stats = db.player_season_stats /\ db'.ratings = db.ratings
        /\ db'.elo_ledger_configs = rows(db.elo_ledger_configs)
        /\ db'.elo_ledger_steps = rows(db.elo_ledger_steps)
    BY <1>1 DEF BuildInv, TypeOK, Databases
  <1>4. db' \in Databases
    BY <1>1, <1>2 DEF BuildInv, TypeOK, Databases
  <1>5. /\ cache' \in Caches /\ old' \subseteq Batches
        /\ fresh' \subseteq Leagues \X Seasons \X Methods /\ TeamsKnown'
    BY <1>1, <1>3 DEF BuildInv, TypeOK, TeamsKnown
  <1>6. ASSUME Building, errors' = (errors \/ FALSE), schema' = schema, NEW x \in Passed \cup {Now}
        PROVE  Done(x)'
    <2>1. CASE x = Now
      BY <1>2, <1>3, <2>1 DEF Done, HasGames
    <2>2. CASE x \in Passed
      <3>1. Done(x)
        BY <1>6, <2>2 DEF BuildInv, PassedAreDone
      <3>2. x.of = Of => x.of[1] = Of[1] /\ x.of[2] = Of[2]
        OBVIOUS
      <3>3. /\ HasGames(x.of[1], x.of[2])' = HasGames(x.of[1], x.of[2])
            /\ x.of \in db.elo_ledger_configs /\ x.of \in db.elo_ledger_steps
               /\ HasGames(x.of[1], x.of[2]) =>
                   x.of \in db'.elo_ledger_configs /\ x.of \in db'.elo_ledger_steps
        BY <1>3, <3>2 DEF HasGames
      <3> QED BY <1>1, <1>3, <1>6, <3>1, <3>3 DEF Done
    <2> QED BY <2>1, <2>2
  <1>7. \A x : Failed(x) => Failed(x)'
    BY <1>1 DEF Failed
  <1> QED BY <1>1, <1>2, <1>4, <1>5, <1>6, <1>7, AdvanceKeeps

\* A step of the schema alone.
LEMMA SchemaOnlyKeeps ==
    ASSUME BuildInv, SInv', AtAStatement', schema' \subseteq Reference, schema \ Log \subseteq schema',
           UNCHANGED <<cache, jobVars, last, collided, jobs, pulls>>, DataUnchanged
    PROVE  BuildInv'
  <1>1. UNCHANGED <<cache, db, old, fresh, cmd, unit, chained, types, writing, errors,
                    last, collided, jobs, pulls>>
    BY DEF jobVars, DataUnchanged
  <1>2. TypeOK'
    BY <1>1 DEF BuildInv, TypeOK, SInv
  <1>3. TeamsKnown' /\ NewCommand' /\ RunningHasNoEnd'
    BY <1>1 DEF BuildInv, TeamsKnown, NewCommand, RunningHasNoEnd
  <1>4. RedHasACause' /\ GreenBuildIsWhole'
    <2>1. RedHasACause'
      BY <1>1 DEF BuildInv, RedHasACause, Whole, FinishedBeyond
    <2>2. GreenBuildIsWhole'
      BY <1>1 DEF BuildInv, GreenBuildIsWhole, CachedPairs, HoldsNoGames
    <2> QED BY <2>1, <2>2
  <1>5. Passed' = Passed /\ Building' = Building
    BY <1>1 DEF Passed, Building
  <1>6. \A x : (Done(x) => Done(x)') /\ (Failed(x) => Failed(x)')
    BY <1>1 DEF Done, Failed, HasGames
  <1>7. PassedAreDone' /\ ErrorsHaveACause'
    BY <1>1, <1>5, <1>6 DEF BuildInv, PassedAreDone, ErrorsHaveACause
  <1> QED BY <1>2, <1>3, <1>4, <1>7 DEF BuildInv

LEMMA OpenCurrentKeeps == ASSUME BuildInv, OpenCurrent PROVE BuildInv'
  <1>1. /\ at["job"] = 0 /\ Reference \subseteq schema
        /\ at' = [at EXCEPT !["job"] = Opened] /\ schema' = schema /\ todo' = todo
        /\ UNCHANGED <<cache, jobVars, last, collided, jobs, pulls>> /\ DataUnchanged
    BY DEF OpenCurrent, NothingToAdd, HistoryUnchanged
  <1>2. "job" \in Procs /\ Opened \in Nat
    BY BuildAssumption, ScriptLength DEF BuildAssumption, Opened
  <1>3. todo["job"] = "check"
    BY <1>1, <1>2, ScriptLength DEF BuildInv, AtAStatement, Running
  <1>4. AtAStatement'
    BY <1>1, <1>2, <1>3 DEF BuildInv, AtAStatement, Running, SInv
  <1>5. SInv'
    <2>1. \A i \in DOMAIN Statements : Statements[i].on \in schema
      BY <1>1, ScriptAssumption DEF ScriptAssumption, Reference
    <2>2. \A p \in Procs : PassedBy(p)'
      BY <1>1, <2>1 DEF PassedBy
    <2> QED BY <1>1, <1>2, <2>2 DEF BuildInv, SInv
  <1> QED BY <1>1, <1>4, <1>5, SchemaOnlyKeeps DEF BuildInv, TypeOK

LEMMA MigrateKeeps == ASSUME BuildInv, Migrate PROVE BuildInv'
  <1>1. SchemaStep("job") /\ UNCHANGED <<cache, jobVars, last, collided, jobs, pulls>> /\ DataUnchanged
    BY DEF Migrate, HistoryUnchanged
  <1>2. [SchemaNext]_svars
    BY <1>1, BuildAssumption DEF BuildAssumption, SchemaNext
  <1> QED BY <1>1, <1>2, NextSInv, SchemaKept, SchemaOnlyKeeps DEF BuildInv, TypeOK

LEMMA OtherKeeps == ASSUME BuildInv, Other PROVE BuildInv'
  <1>1. UNCHANGED <<cache, jobVars, last, collided, jobs, pulls>> /\ DataUnchanged
    BY DEF Other
  <1>2. [SchemaNext]_svars
    BY DEF Other, SchemaNext
  <1> QED BY <1>1, <1>2, NextSInv, SchemaKept, SchemaOnlyKeeps DEF BuildInv, TypeOK

\* A step that writes a file of the cache: the units before it do not read it.
LEMMA WriteKeeps ==
    ASSUME BuildInv, cmd # 0, cache' \in Caches, writing' \in BOOLEAN,
           UNCHANGED <<svars, cmd, unit, chained, types, errors, last, collided, jobs, pulls>>,
           DataUnchanged,
           Building => \A x \in Passed :
               /\ x.does = "batch" => cache'.games[x.of] = cache.games[x.of]
               /\ x.does = "enrich" => cache'.teams = cache.teams
               /\ x.does # "stats"
    PROVE  BuildInv'
  <1>1. UNCHANGED <<db, old, fresh>> /\ schema' = schema
    BY DEF DataUnchanged, svars
  <1>2. SInv' /\ AtAStatement' /\ schema' \subseteq Reference
    <2>1. [SchemaNext]_svars
      OBVIOUS
    <2> QED BY <2>1, NextSInv, SchemaKept DEF BuildInv, TypeOK
  <1>3. ASSUME Building, NEW x \in Passed
        PROVE  (Done(x) => Done(x)') /\ (Failed(x) => Failed(x)')
    BY <1>1, <1>3 DEF Done, Failed, HasGames
  <1> QED BY <1>1, <1>2, <1>3, StayKeeps

LEMMA FetchBatchKeeps == ASSUME BuildInv, FetchBatch \/ BatchFetched PROVE BuildInv'
  <1>1. PICK c \in Contents : /\ Does("batch") /\ cache' = [cache EXCEPT !.games[Of] = c]
                              /\ writing' \in BOOLEAN
    BY DEF FetchBatch, BatchFetched, BatchDue, StartWriting, Written, Contents
  <1>2. /\ UNCHANGED <<svars, cmd, unit, chained, types, errors, last, collided, jobs, pulls>>
        /\ DataUnchanged
    BY DEF FetchBatch, BatchFetched, StartWriting, Written, HistoryUnchanged
  <1>3. AtAUnit /\ cmd # 0 /\ Now.does = "batch" /\ Of = Now.of /\ Of \in Batches
    BY <1>1, NowIs, UnitKinds DEF BuildInv
  <1>4. cache' \in Caches
    BY <1>1, <1>3 DEF BuildInv, TypeOK, Caches, Batches
  <1>5. cache'.teams = cache.teams /\ \A b : b # Of => cache'.games[b] = cache.games[b]
    BY <1>1 DEF BuildInv, TypeOK, Caches
  <1>6. \A x \in Passed : x.does # "stats" /\ (x.does = "batch" => x.of # Of)
    BY <1>3, PassedFacts
  <1> QED BY <1>1, <1>2, <1>3, <1>4, <1>5, <1>6, WriteKeeps

LEMMA FetchTeamsKeeps == ASSUME BuildInv, FetchTeams \/ TeamsFetched PROVE BuildInv'
  <1>1. PICK c \in {"torn", "full"} : /\ Does("enrich") /\ cache' = [cache EXCEPT !.teams = c]
                                      /\ writing' \in BOOLEAN
    BY DEF FetchTeams, TeamsFetched, StartWriting, Written
  <1>2. /\ UNCHANGED <<svars, cmd, unit, chained, types, errors, last, collided, jobs, pulls>>
        /\ DataUnchanged
    BY DEF FetchTeams, TeamsFetched, StartWriting, Written, HistoryUnchanged
  <1>3. AtAUnit /\ cmd # 0 /\ Now.does = "enrich"
    BY <1>1, NowIs DEF BuildInv
  <1>4. cache' \in Caches /\ cache'.games = cache.games
    BY <1>1 DEF BuildInv, TypeOK, Caches
  <1>5. \A x \in Passed : x.does \in {"open", "batch"}
    BY <1>3, PassedFacts
  <1> QED BY <1>1, <1>2, <1>3, <1>4, <1>5, WriteKeeps

LEMMA FetchCsvKeeps == ASSUME BuildInv, FetchCsv \/ CsvFetched PROVE BuildInv'
  <1>1. PICK n \in Nat : Does("games.csv") /\ cache' = WithRows(n) /\ writing' \in BOOLEAN
    <2>1. Len(NflBatches) = 2 * Years /\ Len(NflBatches) \in Nat
      BY SeasonFacts DEF NflBatches, TwoASeason
    <2>2. CASE FetchCsv
      <3>1. PICK n \in 0 .. Len(NflBatches) - 1 : StartWriting(WithRows(n))
        BY <2>2 DEF FetchCsv
      <3>2. n \in Nat
        BY <2>1
      <3> QED BY <2>2, <3>1, <3>2 DEF FetchCsv, StartWriting
    <2>3. CASE CsvFetched
      BY <2>1, <2>3 DEF CsvFetched, Written
    <2> QED BY <2>2, <2>3
  <1>2. /\ UNCHANGED <<svars, cmd, unit, chained, types, errors, last, collided, jobs, pulls>>
        /\ DataUnchanged
    BY DEF FetchCsv, CsvFetched, StartWriting, Written, HistoryUnchanged
  <1>3. AtAUnit /\ cmd # 0 /\ Now.does = "games.csv"
    BY <1>1, NowIs DEF BuildInv
  <1>4. /\ cache' \in Caches /\ cache'.teams = cache.teams
        /\ \A b \in DOMAIN cache.games : b[1] = "cfb" => cache'.games[b] = cache.games[b]
    <2> DEFINE g == [b \in DOMAIN cache.games |->
                        IF b[1] = "cfb" THEN cache.games[b]
                        ELSE IF \E i \in 1 .. n : NflBatches[i] = b THEN "full" ELSE "none"]
               c == IF n = 0 THEN "headless" ELSE "rows"
    <2>1. cache \in Caches /\ cache' = [cache EXCEPT !.csv = c, !.games = g]
      BY <1>1 DEF BuildInv, TypeOK, WithRows
    <2>2. /\ g \in [Leagues \X (Seasons \cup {Beyond}) \X Types -> Contents]
          /\ \A b \in DOMAIN cache.games : b[1] = "cfb" => g[b] = cache.games[b]
      BY <2>1 DEF Caches, Contents
    <2>3. c \in {"none", "headless", "rows"}
      OBVIOUS
    <2> HIDE DEF g, c
    <2>4. cache' \in Caches /\ cache'.games = g /\ cache'.teams = cache.teams
      BY <2>1, <2>2, <2>3 DEF Caches
    <2> QED BY <2>2, <2>4
  <1>5. \A x \in Passed : /\ x.does \in {"open", "batch", "enrich"}
                          /\ x.does = "batch" => x.of[1] = "cfb" /\ x.of \in DOMAIN cache.games
    <2>1. \A x \in Passed : x \in Units
      BY DEF Passed, Before
    <2>2. Batches \subseteq DOMAIN cache.games
      BY DEF BuildInv, TypeOK, Caches, Batches
    <2> QED BY <1>3, <2>1, <2>2, PassedFacts, UnitKinds
  <1> QED BY <1>1, <1>2, <1>3, <1>4, <1>5, WriteKeeps

\* A step that ends the process, with the files as they are.
LEMMA ExitKeeps ==
    ASSUME BuildInv, NEW ok \in BOOLEAN, Exit(ok), ok /\ chained => ~(cmd < 10),
           collided' \in BOOLEAN, UNCHANGED cache, DataUnchanged,
           chained /\ ~ok => collided' \/ ~Whole,
           chained /\ ok /\ last' = "green" => GreenBuildIsWhole'
    PROVE  BuildInv'
  <1>1. /\ schema' = schema /\ [SchemaNext]_svars
        /\ writing' = FALSE /\ errors' = FALSE /\ UNCHANGED <<jobs, pulls, types, chained>>
        /\ cmd' = 0 /\ last' = IF ~chained THEN "none" ELSE IF ok THEN "green" ELSE "red"
    BY ExitFacts
  <1>2. SInv' /\ AtAStatement' /\ schema' \subseteq Reference
    BY <1>1, NextSInv, SchemaKept DEF BuildInv, TypeOK
  <1>3. UNCHANGED <<db, old, fresh>> /\ cache' \in Caches /\ writing' \in BOOLEAN
    BY <1>1 DEF DataUnchanged, BuildInv, TypeOK
  <1>4. last' \in {"none", "green", "red"}
    BY <1>1
  <1>5. GreenBuildIsWhole'
    BY <1>1 DEF GreenBuildIsWhole
  <1>6. RedHasACause'
    BY <1>1 DEF RedHasACause, Whole, FinishedBeyond
  <1> QED BY <1>1, <1>2, <1>3, <1>4, <1>5, <1>6, EndKeeps

LEMMA FailKeeps == ASSUME BuildInv, OpenFails \/ BatchFails PROVE BuildInv'
  <1>1. Exit(FALSE) /\ collided' = TRUE /\ UNCHANGED cache /\ DataUnchanged
    BY DEF OpenFails, BatchFails, Fail
  <1> QED BY <1>1, ExitKeeps

LEMMA BreakKeeps ==
    ASSUME BuildInv, FetchCsvFails \/ FetchRosterFails \/ BatchTorn \/ EnrichTorn
    PROVE  BuildInv'
  <1>1. Exit(FALSE) /\ UNCHANGED <<cache, collided>> /\ DataUnchanged
    BY DEF FetchCsvFails, FetchRosterFails, BatchTorn, EnrichTorn, Break
  <1>2. ~Whole
    <2>1. CASE FetchCsvFails \/ FetchRosterFails \/ EnrichTorn
      BY <2>1 DEF FetchCsvFails, FetchRosterFails, EnrichTorn, Whole
    <2>2. CASE BatchTorn
      <3>1. Does("batch") /\ cache.games[Of] = "torn"
        BY <2>2 DEF BatchTorn, BatchDue
      <3>2. Of \in Batches
        BY <3>1, NowIs, UnitKinds DEF BuildInv
      <3> QED BY <3>1, <3>2 DEF Whole
    <2> QED BY <2>1, <2>2
  <1>3. collided' \in BOOLEAN
    BY <1>1 DEF BuildInv, TypeOK
  <1> QED BY <1>1, <1>2, <1>3, ExitKeeps

LEMMA KillKeeps == ASSUME BuildInv, Kill PROVE BuildInv'
  <1>1. /\ CloseFile /\ schema' = schema /\ cmd' = 0 /\ writing' = FALSE /\ errors' = FALSE
        /\ last' = "none" /\ UNCHANGED <<chained, types, cache, collided, jobs, pulls>>
        /\ UNCHANGED <<db, old, fresh>>
    BY DEF Kill, DataUnchanged
  <1>2. [SchemaNext]_svars
    <2>1. CASE at["job"] # 0
      <3>1. Die("job")
        BY <1>1, <2>1 DEF CloseFile, Die
      <3> QED BY <3>1, BuildAssumption DEF BuildAssumption, SchemaNext
    <2>2. CASE at["job"] = 0
      BY <1>1, <2>2 DEF CloseFile, svars
    <2> QED BY <2>1, <2>2
  <1>3. SInv' /\ AtAStatement' /\ schema' \subseteq Reference
    BY <1>2, NextSInv, SchemaKept DEF BuildInv, TypeOK
  <1>4. cache' \in Caches /\ writing' \in BOOLEAN /\ collided' \in BOOLEAN
    BY <1>1 DEF BuildInv, TypeOK
  <1>5. GreenBuildIsWhole' /\ RedHasACause'
    BY <1>1 DEF GreenBuildIsWhole, RedHasACause
  <1> QED BY <1>1, <1>3, <1>4, <1>5, EndKeeps

LEMMA StartKeeps ==
    ASSUME BuildInv, NEW c \in 1 .. 10, NEW b \in BOOLEAN, NEW ts \in {Types, {"regular"}},
           Start(c, b, ts), b => c = 1 /\ ts = Types
    PROVE  BuildInv'
  <1>1. /\ cmd = 0 /\ jobs < MaxJobs /\ jobs' = jobs + 1
        /\ cmd' = c /\ unit' = 1 /\ chained' = b /\ types' = ts /\ last' = "none" /\ collided' = FALSE
        /\ old' = db.games
        /\ UNCHANGED <<schema, at, todo, cache, db, fresh, writing, errors, pulls>>
    BY DEF Start, svars
  <1>2. ~errors
    BY <1>1 DEF BuildInv, NewCommand
  <1>3. SInv' /\ AtAStatement' /\ TeamsKnown' /\ NewCommand' /\ RunningHasNoEnd'
    <2>1. SInv' /\ AtAStatement'
      BY <1>1 DEF BuildInv, SInv, PassedBy, AtAStatement, Running
    <2> QED BY <1>1, <1>2, <2>1 DEF BuildInv, TeamsKnown, NewCommand, RunningHasNoEnd
  <1>4. TypeOK'
    <2>1. jobs' \in 0 .. MaxJobs /\ cmd' \in 0 .. 10 /\ unit' \in 1 .. Length(cmd')
      BY <1>1, Lengths, BuildAssumption DEF BuildInv, TypeOK, BuildAssumption
    <2>2. TypeOK /\ collided' \in BOOLEAN /\ last' \in {"none", "green", "red"}
      BY <1>1 DEF BuildInv
    <2>3. old' \subseteq Batches
      BY <1>1, <2>2 DEF TypeOK, Databases
    <2> QED BY <1>1, <2>1, <2>2, <2>3 DEF TypeOK
  <1>5. ErrorsHaveACause'
    BY <1>1, <1>2 DEF ErrorsHaveACause
  <1>6. PassedAreDone'
    <2>1. Before(1, 1) = {}
      BY DEF Before
    <2>2. c = 1 => Passed' = Before(1, 1)
      BY <1>1 DEF Passed
    <2> QED BY <1>1, <2>1, <2>2 DEF PassedAreDone, Building
  <1> QED BY <1>1, <1>3, <1>4, <1>5, <1>6 DEF BuildInv, GreenBuildIsWhole, RedHasACause

LEMMA StartsKeep == ASSUME BuildInv, StartBuild \/ StartAlone PROVE BuildInv'
  <1>1. CASE StartBuild
    <2>1. Start(1, TRUE, Types)
      BY <1>1, Zenon DEF StartBuild
    <2>2. 1 \in 1 .. 10
      OBVIOUS
    <2> QED BY <2>1, <2>2, StartKeeps, Zenon
  <1>2. CASE StartAlone
    <2>1. Alone \subseteq 1 .. 10
      BY BuildAssumption DEF BuildAssumption
    <2>2. PICK c \in Alone, ts \in {Types, {"regular"}} : Start(c, FALSE, ts)
      BY <1>2 DEF StartAlone
    <2> QED BY <2>1, <2>2, StartKeeps
  <1> QED BY <1>1, <1>2

LEMMA PullKeeps == ASSUME BuildInv, Pull PROVE BuildInv'
  <1>1. PICK beyond \in {"none", "open", "full"} :
            cache' = [games |-> [b \in DOMAIN cache.games |->
                          IF b[2] # Beyond THEN "full" ELSE IF b[3] = "regular" THEN "full" ELSE beyond],
                      csv |-> "rows", teams |-> "full", roster |-> TRUE, stats |-> Seasons]
    BY DEF Pull
  <1>2. /\ cmd = 0 /\ pulls < MaxPulls /\ pulls' = pulls + 1 /\ last' = "none"
        /\ UNCHANGED <<schema, at, todo, cmd, unit, chained, types, writing, errors, collided, jobs>>
        /\ UNCHANGED <<db, old, fresh>>
    BY DEF Pull, svars, jobVars, DataUnchanged
  <1>3. cache' \in Caches
    BY <1>1 DEF BuildInv, TypeOK, Caches, Contents
  <1>4. TypeOK'
    <2>1. pulls' \in 0 .. MaxPulls
      BY <1>2, BuildAssumption DEF BuildInv, TypeOK, BuildAssumption
    <2>2. last' \in {"none", "green", "red"} /\ TypeOK
      BY <1>2 DEF BuildInv
    <2> QED BY <1>2, <1>3, <2>1, <2>2 DEF TypeOK
  <1>5. SInv' /\ AtAStatement' /\ TeamsKnown' /\ NewCommand' /\ RunningHasNoEnd'
    <2>1. SInv' /\ AtAStatement'
      BY <1>2 DEF BuildInv, SInv, PassedBy, AtAStatement, Running
    <2> QED BY <1>2, <2>1 DEF BuildInv, TeamsKnown, NewCommand, RunningHasNoEnd
  <1> QED BY <1>2, <1>4, <1>5 DEF BuildInv, PassedAreDone, ErrorsHaveACause, Building,
                                   GreenBuildIsWhole, RedHasACause

-----------------------------------------------------------------------------
(* The doctor at the end of the build *)

\* What the commands before it have made.
LEMMA AllDone ==
    ASSUME BuildInv, Building, Now.does = "doctor"
    PROVE  /\ Reference \ Log \subseteq schema
           /\ \A b \in Batches : cache.games[b] \in {"none", "empty"} \/ b \in db.games \ old
           /\ cache.teams = "none" \/ db.mascots \/ "cfb" \notin db.teams
           /\ Seasons \subseteq db.player_season_stats
           /\ \A r \in Leagues \X Seasons \X Methods :
                  HasGames(r[1], r[2]) => r \in fresh \cap db.ratings
           /\ \A r \in Leagues \X Seasons :
                  HasGames(r[1], r[2]) => r \in db.elo_ledger_configs \cap db.elo_ledger_steps
  <1>1. AtAUnit
    BY DEF BuildInv, TypeOK, AtAUnit, Building
  <1>2. cmd = 10
    BY <1>1, NowFacts DEF Placed
  <1>3. unit = 1 /\ ~errors
    <2>1. Length(10) = 1
      BY CommandsAre DEF Length
    <2>2. unit = 1
      BY <1>1, <1>2, <2>1 DEF AtAUnit
    <2> QED BY <2>2 DEF BuildInv, NewCommand
  <1>4. \A x \in Passed : Done(x)
    BY DEF BuildInv, PassedAreDone
  <1>5. Reference \ Log \subseteq schema /\ (cache.teams = "none" \/ db.mascots \/ "cfb" \notin db.teams)
    BY <1>1, <1>2, <1>4, AllPassed DEF Done, Unit
  <1>6. ASSUME NEW b \in Batches PROVE cache.games[b] \in {"none", "empty"} \/ b \in db.games \ old
    <2>1. Done(UnitOf("batch", b))
      BY <1>1, <1>2, <1>4, BatchesPassed
    <2> QED BY <2>1 DEF Done, UnitOf
  <1>7. ASSUME NEW s \in Seasons PROVE s \in db.player_season_stats
    <2>1. Done(UnitOf("stats", <<s>>))
      BY <1>1, <1>2, <1>4, AllPassed
    <2> QED BY <1>3, <2>1 DEF Done, UnitOf
  <1>8. ASSUME NEW r \in Leagues \X Seasons \X Methods, HasGames(r[1], r[2])
        PROVE  r \in fresh \cap db.ratings
    <2>1. Done(UnitOf("rate", r))
      BY <1>1, <1>2, <1>4, AllPassed
    <2> QED BY <1>8, <2>1 DEF Done, UnitOf
  <1>9. ASSUME NEW r \in Leagues \X Seasons, HasGames(r[1], r[2])
        PROVE  r \in db.elo_ledger_configs \cap db.elo_ledger_steps
    <2>1. Done(UnitOf("ledger", r))
      BY <1>1, <1>2, <1>4, AllPassed
    <2> QED BY <1>9, <2>1 DEF Done, UnitOf
  <1> QED BY <1>5, <1>6, <1>7, <1>8, <1>9

\* What a database without problems shows.
LEMMA NoProblems ==
    ASSUME IsCurrent(db, schema, cache)
    PROVE  /\ Reference \subseteq schema /\ RawDir(cache)
           /\ \A l \in Leagues : ~Unrecognized(cache, l) /\ GameSeasons(db, schema, l) # {}
           /\ ~("cfb" \in RowsOf(db, schema, "teams") /\ cache.teams # "none" /\ ~db.mascots)
  <1>1. \A p : p \notin Problems(db, schema, cache)
    BY DEF IsCurrent
  <1>2. Reference \subseteq schema
    <2>1. \A o \in Reference \ schema : <<"schema_not_current", o>> \in Problems(db, schema, cache)
      BY DEF Problems
    <2> QED BY <1>1, <2>1
  <1>3. RawDir(cache)
    <2>1. ~RawDir(cache) => <<"raw_cache_missing">> \in Problems(db, schema, cache)
      BY DEF Problems, When
    <2> QED BY <1>1, <2>1
  <1>4. ~("cfb" \in RowsOf(db, schema, "teams") /\ cache.teams # "none" /\ ~db.mascots)
    <2>1. ("cfb" \in RowsOf(db, schema, "teams") /\ cache.teams # "none" /\ ~db.mascots) =>
             <<"no_cfb_mascots">> \in Problems(db, schema, cache)
      BY DEF Problems, When
    <2> QED BY <1>1, <2>1
  <1>5. ASSUME NEW l \in Leagues PROVE ~Unrecognized(cache, l) /\ GameSeasons(db, schema, l) # {}
    <2>1. LeagueProblems(db, schema, cache, l) \subseteq Problems(db, schema, cache)
      BY DEF Problems
    <2>2. Unrecognized(cache, l) => <<"raw_cache_unrecognized", l>> \in LeagueProblems(db, schema, cache, l)
      BY <1>3 DEF LeagueProblems, When
    <2>3. GameSeasons(db, schema, l) = {} => <<"league_has_no_games", l>> \in LeagueProblems(db, schema, cache, l)
      BY DEF LeagueProblems, When
    <2> QED BY <1>1, <2>1, <2>2, <2>3
  <1> QED BY <1>2, <1>3, <1>4, <1>5

\* Every season with games is rated by every method, and a league has one.
LEMMA NoneUnrated ==
    ASSUME IsCurrent(db, schema, cache), NEW l \in Leagues, NEW m \in Methods
    PROVE  GameSeasons(db, schema, l) \subseteq Rated(db, schema, l, m)
  <1> SUFFICES ASSUME NEW s \in GameSeasons(db, schema, l), s \notin Rated(db, schema, l, m)
               PROVE  FALSE
    OBVIOUS
  <1> DEFINE problem == <<"season_missing_ratings", l, s, m>>
  <1>1. problem \in UNION {{<<"season_missing_ratings", l, t, n>> :
                               t \in GameSeasons(db, schema, l) \ Rated(db, schema, l, n)} : n \in Methods}
    OBVIOUS
  <1>2. problem \in LeagueProblems(db, schema, cache, l)
    BY <1>1 DEF LeagueProblems
  <1> HIDE DEF problem
  <1>3. problem \in Problems(db, schema, cache)
    BY <1>2 DEF Problems
  <1> QED BY <1>3 DEF IsCurrent

LEMMA CurrentServes ==
    ASSUME BuildInv, IsCurrent(db, schema, cache)
    PROVE  /\ ~Refused(schema)
           /\ \A l \in Leagues, m \in Methods : AvailableYears(l, m) # {}
           /\ \A b \in db.games, m \in Methods : b[2] \in AvailableYears(b[1], m)
  <1>1. Reference \subseteq schema /\ \A l \in Leagues : GameSeasons(db, schema, l) # {}
    BY NoProblems
  <1>2. ~Refused(schema)
    BY <1>1, ReferenceHas DEF Refused
  <1>3. \A l \in Leagues, m \in Methods : GameSeasons(db, schema, l) \subseteq AvailableYears(l, m)
    BY NoneUnrated DEF Rated, AvailableYears
  <1>4. ASSUME NEW b \in db.games, NEW m \in Methods PROVE b[2] \in AvailableYears(b[1], m)
    <2>1. RowsOf(db, schema, "games") = db.games
      BY <1>1, ReferenceHas DEF RowsOf
    <2>2. db \in Databases
      BY DEF BuildInv, TypeOK
    <2>3. b \in Leagues \X Seasons \X Types
      BY <2>2 DEF Databases, Batches
    <2>4. b[1] \in Leagues /\ <<b[2], b[3]>> \in GamePairs(db, schema, b[1])
      BY <2>1, <2>3 DEF GamePairs
    <2>5. b[2] \in GameSeasons(db, schema, b[1])
      BY <2>4 DEF GameSeasons
    <2> QED BY <1>3, <2>4, <2>5
  <1> QED BY <1>1, <1>2, <1>3, <1>4

LEMMA GreenIsWhole ==
    ASSUME BuildInv, Building, Now.does = "doctor", IsCurrent(db, schema, cache)
    PROVE  /\ Reference \ Log \subseteq schema
           /\ \A l \in Leagues : \A p \in CachedPairs(cache, l) : <<l, p[1], p[2]>> \in db.games \ old
           /\ \A b \in db.games, m \in Methods : <<b[1], b[2], m>> \in fresh
           /\ \A b \in db.games : /\ <<b[1], b[2]>> \in db.elo_ledger_steps
                                  /\ b[1] = "nfl" => b[2] \in db.player_season_stats
           /\ db.mascots
  <1>1. ASSUME NEW l \in Leagues, NEW p \in CachedPairs(cache, l)
        PROVE  <<l, p[1], p[2]>> \in db.games \ old
    <2>1. /\ p \in Seasons \X Types /\ cache.games[<<l, p[1], p[2]>>] \notin {"none", "empty"}
      BY DEF CachedPairs, HoldsNoGames
    <2>2. <<l, p[1], p[2]>> \in Batches
      BY <2>1 DEF Batches
    <2> QED BY <2>1, <2>2, AllDone
  <1>2. ASSUME NEW b \in db.games
        PROVE  /\ b[1] \in Leagues /\ b[2] \in Seasons /\ HasGames(b[1], b[2])
    <2>1. db \in Databases
      BY DEF BuildInv, TypeOK
    <2>2. b \in Leagues \X Seasons \X Types
      BY <2>1 DEF Databases, Batches
    <2>3. b = <<b[1], b[2], b[3]>> /\ b[3] \in Types
      BY <2>2
    <2> QED BY <2>2, <2>3 DEF HasGames
  <1>3. ASSUME NEW b \in db.games, NEW m \in Methods PROVE <<b[1], b[2], m>> \in fresh
    <2>1. <<b[1], b[2], m>> \in Leagues \X Seasons \X Methods
      BY <1>2
    <2> QED BY <1>2, <2>1, AllDone
  <1>4. ASSUME NEW b \in db.games
        PROVE  <<b[1], b[2]>> \in db.elo_ledger_steps /\ b[2] \in db.player_season_stats
    <2>1. <<b[1], b[2]>> \in Leagues \X Seasons
      BY <1>2
    <2> QED BY <1>2, <2>1, AllDone
  <1>5. db.mascots
    <2>1. cache.teams # "none" /\ GameSeasons(db, schema, "cfb") # {} /\ Reference \subseteq schema
      BY NoProblems DEF Leagues, Unrecognized
    <2>2. PICK b \in RowsOf(db, schema, "games") : b[1] = "cfb"
      BY <2>1 DEF GameSeasons, GamePairs
    <2>3. <<"games", "">> \in schema /\ <<"teams", "">> \in schema
      BY <2>1, ReferenceHas
    <2>4. b \in db.games /\ RowsOf(db, schema, "teams") = db.teams
      BY <2>2, <2>3 DEF RowsOf
    <2>5. "cfb" \in RowsOf(db, schema, "teams")
      BY <2>2, <2>4 DEF BuildInv, TeamsKnown
    <2> QED BY <2>1, <2>5, NoProblems
  <1> QED BY <1>1, <1>3, <1>4, <1>5, AllDone

LEMMA WholeIsGreen ==
    ASSUME BuildInv, Building, Now.does = "doctor", Whole, Log \subseteq schema
    PROVE  IsCurrent(db, schema, cache)
  <1>1. Reference \subseteq schema
    BY AllDone
  <1>2. /\ RowsOf(db, schema, "games") = db.games /\ RowsOf(db, schema, "ratings") = db.ratings
        /\ RowsOf(db, schema, "elo_ledger_configs") = db.elo_ledger_configs
        /\ RowsOf(db, schema, "elo_ledger_steps") = db.elo_ledger_steps
        /\ RowsOf(db, schema, "player_season_stats") = db.player_season_stats
        /\ RowsOf(db, schema, "teams") = db.teams
    BY <1>1, ReferenceHas DEF RowsOf
  <1>3. /\ cache.csv = "rows" /\ cache.teams = "full" /\ \A b \in Batches : cache.games[b] = "full"
        /\ \A l \in Leagues : FinishedBeyond(cache, l) = {}
    BY DEF Whole
  <1>4. db.games = Batches
    <2>1. db.games \subseteq Batches
      BY DEF BuildInv, TypeOK, Databases
    <2>2. \A b \in Batches : b \in db.games
      BY <1>3, AllDone
    <2> QED BY <2>1, <2>2
  <1>5. \A l \in Leagues, s \in Seasons : HasGames(l, s)
    BY <1>4 DEF HasGames, Batches, Types
  <1>6. RawDir(cache)
    BY <1>3 DEF RawDir
  <1>7. MinYear \in Seasons
    BY DoctorAssumption DEF DoctorAssumption, Seasons
  <1>8. ASSUME NEW l \in Leagues PROVE LeagueProblems(db, schema, cache, l) = {}
    <2>1. ~Unrecognized(cache, l)
      <3>1. <<l, MinYear, "regular">> \in Batches /\ <<MinYear, "regular">> \in Seasons \X Types
        BY <1>7 DEF Batches, Types
      <3>2. <<MinYear, "regular">> \in CachedPairs(cache, l)
        BY <1>3, <3>1 DEF CachedPairs, HoldsNoGames
      <3> QED BY <1>3, <3>2 DEF Unrecognized
    <2>2. \A p \in Seasons \X Types : p \in GamePairs(db, schema, l)
      <3>1. ASSUME NEW s \in Seasons, NEW t \in Types PROVE <<s, t>> \in GamePairs(db, schema, l)
        <4> DEFINE b == <<l, s, t>>
        <4>1. b \in RowsOf(db, schema, "games") /\ b[1] = l /\ b[2] = s /\ b[3] = t
          BY <1>2, <1>4 DEF Batches
        <4> HIDE DEF b
        <4> QED BY <4>1 DEF GamePairs
      <3> QED BY <3>1
    <2>3. CachedPairs(cache, l) \ GamePairs(db, schema, l) = {}
      BY <2>2 DEF CachedPairs
    <2>4. GameSeasons(db, schema, l) # {}
      <3>1. <<MinYear, "regular">> \in GamePairs(db, schema, l)
        BY <1>7, <2>2 DEF Types
      <3> QED BY <3>1 DEF GameSeasons
    <2>5. GameSeasons(db, schema, l) \subseteq Seasons
      BY <1>2, <1>4 DEF GameSeasons, GamePairs, Batches
    <2>6. \A m \in Methods, s \in Seasons : s \in Rated(db, schema, l, m)
      <3>1. ASSUME NEW m \in Methods, NEW s \in Seasons PROVE <<l, s, m>> \in db.ratings
        <4>1. <<l, s, m>> \in Leagues \X Seasons \X Methods
          OBVIOUS
        <4> QED BY <1>5, <4>1, AllDone
      <3> QED BY <1>2, <3>1 DEF Rated
    <2>7. \A s \in Seasons : s \in Ledgered(db, schema, l)
      <3>1. ASSUME NEW s \in Seasons
            PROVE  <<l, s>> \in db.elo_ledger_configs /\ <<l, s>> \in db.elo_ledger_steps
        <4>1. <<l, s>> \in Leagues \X Seasons
          OBVIOUS
        <4> QED BY <1>5, <4>1, AllDone
      <3> QED BY <1>2, <3>1 DEF Ledgered
    <2>8. \A s \in Seasons : s \in RowsOf(db, schema, "player_season_stats")
      BY <1>2, AllDone
    <2>9. \A m : Rated(db, schema, l, m) \subseteq Seasons
      BY DEF Rated
    <2>10. FinishedBeyond(cache, l) = {}
      BY <1>3
    <2> HIDE DEF LeagueProblems
    <2> QED BY <2>1, <2>3, <2>4, <2>5, <2>6, <2>7, <2>8, <2>9, <2>10 DEF LeagueProblems, When
  <1>9. cache.teams = "none" \/ db.mascots \/ "cfb" \notin RowsOf(db, schema, "teams")
    BY <1>2, AllDone
  <1> QED BY <1>1, <1>6, <1>8, <1>9 DEF IsCurrent, Problems, When

LEMMA ExamineKeeps == ASSUME BuildInv, Examine PROVE BuildInv'
  <1> DEFINE ok == IsCurrent(db, schema, cache)
  <1>1. /\ Does("doctor") /\ Exit(ok) /\ UNCHANGED cache /\ DataUnchanged
        /\ collided' = (collided \/ ~(Log \subseteq schema))
    BY DEF Examine
  <1>2. AtAUnit /\ cmd # 0 /\ Now.does = "doctor"
    BY <1>1, NowIs DEF BuildInv
  <1>3. cmd = 10
    BY <1>2, NowFacts DEF Placed
  <1>4. ok \in BOOLEAN
    BY DEF IsCurrent
  <1>5. collided' \in BOOLEAN /\ (collided' \/ Log \subseteq schema)
    BY <1>1 DEF BuildInv, TypeOK
  <1>6. chained /\ ~ok => collided' \/ ~Whole
    BY <1>2, <1>5, WholeIsGreen DEF Building
  <1>7. schema' = schema /\ UNCHANGED <<db, old, fresh>>
    BY <1>1, <1>4, ExitFacts DEF DataUnchanged
  <1>8. chained /\ ok => GreenBuildIsWhole'
    BY <1>1, <1>2, <1>7, GreenIsWhole DEF GreenBuildIsWhole, Building, CachedPairs, HoldsNoGames
  <1> HIDE DEF ok
  <1> QED BY <1>1, <1>3, <1>4, <1>5, <1>6, <1>8, ExitKeeps

LEMMA InitBuildInv == Init => BuildInv
  <1> SUFFICES ASSUME Init PROVE BuildInv
    OBVIOUS
  <1>1. PICK f \in Starts : SchemaInit(f.schema) /\ cache = f.cache /\ db = f.db /\ old = f.db.games
    BY DEF Init
  <1>2. /\ fresh = {} /\ cmd = 0 /\ unit = 0 /\ chained = FALSE /\ types = Types
        /\ writing = FALSE /\ errors = FALSE
        /\ last = "none" /\ collided = FALSE /\ jobs = 0 /\ pulls = 0
    BY DEF Init
  <1>3. /\ schema \subseteq Reference /\ cache \in Caches /\ db \in Databases /\ TeamsKnown
    BY <1>1, BuildAssumption DEF BuildAssumption, SchemaInit, TeamsKnown
  <1>4. SInv
    BY <1>1, <1>3, InitSInv DEF SchemaInit
  <1>5. AtAStatement
    BY <1>1, ScriptLength DEF SchemaInit, AtAStatement
  <1>6. TypeOK
    <2>1. old \subseteq Batches
      BY <1>1, <1>3 DEF Databases
    <2>2. jobs \in 0 .. MaxJobs /\ pulls \in 0 .. MaxPulls /\ cmd \in 0 .. 10
      BY <1>2, BuildAssumption DEF BuildAssumption
    <2> QED BY <1>2, <1>3, <1>4, <2>1, <2>2 DEF TypeOK, SInv
  <1> QED BY <1>2, <1>3, <1>4, <1>5, <1>6
          DEF BuildInv, NewCommand, PassedAreDone, ErrorsHaveACause, Building, RunningHasNoEnd,
              GreenBuildIsWhole, RedHasACause

LEMMA NextBuildInv == BuildInv /\ [Next]_vars => BuildInv'
  <1> SUFFICES ASSUME BuildInv, [Next]_vars PROVE BuildInv'
    OBVIOUS
  <1>1. CASE UNCHANGED vars
    <2>1. /\ UNCHANGED svars /\ UNCHANGED <<cache, jobVars, last, collided, jobs, pulls>>
          /\ DataUnchanged
      BY <1>1 DEF vars, DataUnchanged
    <2>2. [SchemaNext]_svars
      BY <2>1
    <2> QED BY <2>1, <2>2, NextSInv, SchemaKept, SchemaOnlyKeeps DEF BuildInv, TypeOK
  <1>2. CASE StartBuild \/ StartAlone
    BY <1>2, StartsKeep
  <1>3. CASE OpenCurrent \/ Migrate \/ OpenFails \/ OpenDone
    BY <1>3, OpenCurrentKeeps, MigrateKeeps, FailKeeps, OpenDoneKeeps
  <1>4. CASE FetchBatch \/ BatchFetched \/ FetchBatchFails
    BY <1>4, FetchBatchKeeps, FetchBatchFailsKeeps
  <1>5. CASE FetchTeams \/ TeamsFetched \/ FetchTeamsFails
    BY <1>5, FetchTeamsKeeps, FetchTeamsFailsKeeps
  <1>6. CASE FetchCsv \/ CsvFetched \/ FetchCsvFails \/ CsvThere
    BY <1>6, FetchCsvKeeps, BreakKeeps, CsvThereKeeps
  <1>7. CASE Roster \/ FetchRosterFails
    BY <1>7, RosterKeeps, BreakKeeps
  <1>8. CASE Batch \/ BatchSkipped \/ BatchTorn \/ BatchFails \/ Enrich \/ EnrichTorn
    BY <1>8, BatchKeeps, BatchSkippedKeeps, BreakKeeps, FailKeeps, EnrichKeeps
  <1>9. CASE SeasonStats \/ SeasonStatsFails \/ RateSeason \/ StoreLedger \/ Examine
    BY <1>9, SeasonStatsKeeps, SeasonStatsFailsKeeps, RateSeasonKeeps, StoreLedgerKeeps, ExamineKeeps
  <1>10. CASE Kill \/ Pull \/ Other
    BY <1>10, KillKeeps, PullKeeps, OtherKeeps
  <1> QED BY <1>1, <1>2, <1>3, <1>4, <1>5, <1>6, <1>7, <1>8, <1>9, <1>10 DEF Next, JobStep

LEMMA Invariance == Spec => []BuildInv
  BY InitBuildInv, NextBuildInv, PTL DEF Spec

-----------------------------------------------------------------------------
(* The theorems *)

\* The files, the running command's place in the build and its flags keep their
\* types, for any window of seasons.
THEOREM BuildTypes == Spec => []TypeOK
  BY Invariance, PTL DEF BuildInv

\* A command past ensure_schema finds the whole schema but the log, whatever
\* builds, kills and other processes there were before it.
THEOREM BuildOpensCurrent == Spec => []OpenedIsCurrent
  <1>1. BuildInv => OpenedIsCurrent
    BY SInvCurrent DEF BuildInv
  <1> QED BY <1>1, Invariance, PTL

\* A build that ended with exit code 0 has made of the file what the cache says,
\* from any file and any cache, after any killed builds and any commands run alone.
THEOREM GreenBuilds == Spec => []GreenBuildIsWhole
  BY Invariance, PTL DEF BuildInv

\* A build that ended with another exit code wanted a file of the cache, or had
\* its schema changed under it.
THEOREM RedBuilds == Spec => []RedHasACause
  BY Invariance, PTL DEF BuildInv

\* What the evidence layer refuses the doctor reports, everything it asks for being
\* of the present schema, and so it does a picker that lacks a season.
THEOREM RefusedReported == Spec => []RefusedIsReported
  <1>1. BuildInv => RefusedIsReported
    BY CurrentServes DEF RefusedIsReported
  <1> QED BY <1>1, Invariance, PTL

=============================================================================
