--------------------------- MODULE Persona_proofs --------------------------
(***************************************************************************)
(* Proofs about the two parts that keep a narration affordable and true:   *)
(* the call budget (CallBudget), for every Limit, Window, MaxClock and set *)
(* of threads, and the grounding of a team narration (Grounding), for      *)
(* every schedule, palette of claims and length of text: that a figure     *)
(* reads as its team's, and that every claim the fact block answers is     *)
(* true of the games and ratings it was taken from.  The two share no      *)
(* state, so what is proved of one holds whatever the other does.          *)
(***************************************************************************)
EXTENDS CallBudget, Grounding, FiniteSetTheorems, WellFoundedInduction, TLAPS

(* The call budget *)

\* A thread is between Lock and its return exactly while it owns the lock.
HolderInside ==
    \A t \in Threads : lock = t <=> pc[t] \in {"clock", "pop", "append"}

\* The clock is monotonic, so no unit is younger than the clock, and none is
\* younger than the reading of a thread that still holds the lock.
NothingFromTheFuture ==
    /\ \A i \in 1..Len(granted) : granted[i] <= clock
    /\ \A t \in Threads : pc[t] \in {"pop", "append"} =>
          /\ now[t] <= clock
          /\ \A i \in 1..Len(granted) : granted[i] <= now[t]

\* A unit leaves the deque only once it has left the window.
PoppedHaveExpired ==
    /\ \A i \in 1..dropped : clock - granted[i] >= Window
    /\ \A t \in Threads : pc[t] \in {"pop", "append"} =>
          \A i \in 1..dropped : now[t] - granted[i] >= Window

\* The test of len(self._spent) still holds when the unit is appended.
RoomWhenAdmitted ==
    \A t \in Threads : pc[t] = "append" => Len(spent) < Limit

IInv ==
    /\ TypeOK
    /\ HolderInside
    /\ DequeIsTheUnexpiredHistory
    /\ NothingFromTheFuture
    /\ PoppedHaveExpired
    /\ RoomWhenAdmitted
    /\ AtMostLimitPerWindow

\* The deque starts empty, the lock free and every thread outside.
LEMMA InitEstablishesIInv == Init => IInv
BY LimitAssumption, WindowAssumption, ThreadAssumption
   DEF Init, IInv, TypeOK, Steps, HolderInside, DequeIsTheUnexpiredHistory,
       NothingFromTheFuture, PoppedHaveExpired, RoomWhenAdmitted,
       AtMostLimitPerWindow

\* A step that leaves the deque and the histories alone, and moves one thread
\* that holds neither a reading nor the lock, keeps the invariant.
LEMMA CallKeepsIInv ==
    ASSUME IInv, NEW t \in Threads, Call(t)
    PROVE  IInv'
BY DEF IInv, TypeOK, Steps, HolderInside, DequeIsTheUnexpiredHistory,
       NothingFromTheFuture, PoppedHaveExpired, RoomWhenAdmitted,
       AtMostLimitPerWindow, Call, Goto

LEMMA LockKeepsIInv ==
    ASSUME IInv, NEW t \in Threads, Lock(t)
    PROVE  IInv'
BY ThreadAssumption
   DEF IInv, TypeOK, Steps, HolderInside, DequeIsTheUnexpiredHistory,
       NothingFromTheFuture, PoppedHaveExpired, RoomWhenAdmitted,
       AtMostLimitPerWindow, Lock, Goto

\* The reading is the clock itself, so what holds of the clock holds of it.
LEMMA ReadClockKeepsIInv ==
    ASSUME IInv, NEW t \in Threads, ReadClock(t)
    PROVE  IInv'
<1> USE DEF IInv
<1>1. /\ pc[t] = "clock"  /\ pc' = [pc EXCEPT ![t] = "pop"]
      /\ now' = [now EXCEPT ![t] = clock]
      /\ UNCHANGED <<clock, spent, lock, granted, dropped>>
      /\ now'[t] = clock  /\ pc'[t] = "pop"  /\ clock \in Nat
  BY DEF ReadClock, Goto, TypeOK
<1>2. \A u \in Threads : pc'[u] \in {"pop", "append"} => u = t
  BY <1>1 DEF HolderInside, TypeOK
<1>3. TypeOK' /\ HolderInside'
  BY <1>1 DEF TypeOK, Steps, HolderInside
<1>4. NothingFromTheFuture'
  BY <1>1, <1>2 DEF NothingFromTheFuture
<1>5. PoppedHaveExpired'
  BY <1>1, <1>2 DEF PoppedHaveExpired
<1>6. RoomWhenAdmitted'
  BY <1>1, <1>2 DEF RoomWhenAdmitted
<1> QED
  BY <1>1, <1>3, <1>4, <1>5, <1>6
     DEF DequeIsTheUnexpiredHistory, AtMostLimitPerWindow

\* What popping the head does to a sequence.
LEMMA TailFacts ==
    ASSUME NEW s \in Seq(Nat), s # <<>>
    PROVE  /\ Tail(s) \in Seq(Nat)
           /\ Len(s) \in Nat \ {0}
           /\ Len(Tail(s)) = Len(s) - 1
           /\ Head(s) = s[1]
           /\ \A i \in 1..(Len(s) - 1) : Tail(s)[i] = s[i + 1]
OBVIOUS

\* The popped unit is the oldest the deque held, and has left the window.
LEMMA PopKeepsIInv ==
    ASSUME IInv, NEW t \in Threads, Pop(t)
    PROVE  IInv'
<1> USE DEF IInv
<1>1. /\ spent # <<>>  /\ now[t] - Head(spent) >= Window
      /\ spent' = Tail(spent)  /\ dropped' = dropped + 1
      /\ pc[t] = "pop"
      /\ UNCHANGED <<clock, lock, pc, now, granted>>
  BY DEF Pop, HeadExpired
<1>2. /\ spent' \in Seq(Nat)
      /\ Len(spent) \in Nat \ {0}
      /\ Len(spent') = Len(spent) - 1
      /\ Head(spent) = spent[1]
      /\ \A i \in 1..(Len(spent) - 1) : spent'[i] = spent[i + 1]
  BY <1>1, TailFacts DEF TypeOK
<1>3. TypeOK'
  BY <1>1, <1>2 DEF TypeOK
<1>4. HolderInside'
  BY <1>1 DEF HolderInside
<1>5. DequeIsTheUnexpiredHistory'
  <2>1. Len(granted') = dropped' + Len(spent')
    <3>1. Len(granted) = dropped + Len(spent) /\ dropped \in Nat
      BY DEF DequeIsTheUnexpiredHistory, TypeOK
    <3>2. granted' = granted /\ dropped' = dropped + 1
      BY <1>1
    <3>3. Len(granted') = Len(granted)
      BY <3>2
    <3>4. Len(spent') = Len(spent) - 1 /\ Len(spent) \in Nat
      BY <1>2
    <3> QED
      BY <3>1, <3>2, <3>3, <3>4
  <2>2. ASSUME NEW i \in 1..Len(spent')
        PROVE  spent'[i] = granted'[dropped' + i]
    <3>1. i \in 1..(Len(spent) - 1) /\ i + 1 \in 1..Len(spent)
      BY <1>2
    <3>2. spent'[i] = spent[i + 1] /\ spent[i + 1] = granted[dropped + (i + 1)]
      BY <1>2, <3>1 DEF DequeIsTheUnexpiredHistory
    <3>3. dropped + (i + 1) = dropped' + i
      BY <1>1, <3>1 DEF TypeOK
    <3> QED
      BY <1>1, <3>2, <3>3
  <2> QED
    BY <1>1, <2>1, <2>2 DEF DequeIsTheUnexpiredHistory
<1>6. granted[dropped + 1] = Head(spent) /\ dropped + 1 \in 1..Len(granted)
  BY <1>2 DEF DequeIsTheUnexpiredHistory, TypeOK
<1>7. NothingFromTheFuture'
  BY <1>1 DEF NothingFromTheFuture
<1>8. PoppedHaveExpired'
  <2>1. \A i \in 1..dropped' : now[t] - granted[i] >= Window
    BY <1>1, <1>6 DEF PoppedHaveExpired, TypeOK
  <2>2. now[t] <= clock /\ now[t] \in Nat /\ clock \in Nat
    BY <1>1 DEF NothingFromTheFuture, TypeOK
  <2>3. \A i \in 1..dropped' : granted[i] \in Nat
    BY <1>1, <1>6 DEF TypeOK, DequeIsTheUnexpiredHistory
  <2>4. \A u \in Threads : pc[u] \in {"pop", "append"} => u = t
    BY <1>1 DEF HolderInside
  <2> QED
    BY <1>1, <2>1, <2>2, <2>3, <2>4, WindowAssumption DEF PoppedHaveExpired
<1>9. RoomWhenAdmitted'
  BY <1>1, <1>2, LimitAssumption DEF RoomWhenAdmitted
<1>10. AtMostLimitPerWindow'
  BY <1>1 DEF AtMostLimitPerWindow
<1> QED
  BY <1>3, <1>4, <1>5, <1>7, <1>8, <1>9, <1>10

LEMMA RefuseKeepsIInv ==
    ASSUME IInv, NEW t \in Threads, Refuse(t)
    PROVE  IInv'
BY ThreadAssumption
   DEF IInv, TypeOK, Steps, HolderInside, DequeIsTheUnexpiredHistory,
       NothingFromTheFuture, PoppedHaveExpired, RoomWhenAdmitted,
       AtMostLimitPerWindow, Refuse, Goto

LEMMA AdmitKeepsIInv ==
    ASSUME IInv, NEW t \in Threads, Admit(t)
    PROVE  IInv'
BY DEF IInv, TypeOK, Steps, HolderInside, DequeIsTheUnexpiredHistory,
       NothingFromTheFuture, PoppedHaveExpired, RoomWhenAdmitted,
       AtMostLimitPerWindow, Admit, Goto

\* What appending does to a sequence of timestamps.
LEMMA AppendFacts ==
    ASSUME NEW s \in Seq(Nat), NEW x \in Nat
    PROVE  /\ Append(s, x) \in Seq(Nat)
           /\ Len(Append(s, x)) = Len(s) + 1
           /\ Append(s, x)[Len(s) + 1] = x
           /\ \A i \in 1..Len(s) : Append(s, x)[i] = s[i]
OBVIOUS

\* The appended unit is the youngest, and Limit units back lies one that was
\* popped, which means that it is older than Window.
LEMMA GrantKeepsIInv ==
    ASSUME IInv, NEW t \in Threads, Grant(t)
    PROVE  IInv'
<1> USE DEF IInv
<1>1. /\ pc[t] = "append"  /\ lock = t  /\ lock' = NoThread
      /\ pc' = [pc EXCEPT ![t] = "idle"]
      /\ spent' = Append(spent, now[t])  /\ granted' = Append(granted, now[t])
      /\ UNCHANGED <<clock, now, dropped>>
  BY DEF Grant, Goto, HolderInside
<1>2. /\ now[t] \in Nat  /\ Len(spent) \in Nat  /\ Len(granted) \in Nat
      /\ dropped \in Nat  /\ spent \in Seq(Nat)  /\ granted \in Seq(Nat)
  BY DEF TypeOK
<1>3. /\ spent' \in Seq(Nat)
      /\ Len(spent') = Len(spent) + 1
      /\ spent'[Len(spent) + 1] = now[t]
      /\ \A i \in 1..Len(spent) : spent'[i] = spent[i]
  BY <1>1, <1>2, AppendFacts
<1>4. /\ granted' \in Seq(Nat)
      /\ Len(granted') = Len(granted) + 1
      /\ granted'[Len(granted) + 1] = now[t]
      /\ \A i \in 1..Len(granted) : granted'[i] = granted[i]
  BY <1>1, <1>2, AppendFacts
<1>5. /\ now[t] <= clock
      /\ \A i \in 1..Len(granted) : granted[i] <= now[t]
  BY <1>1 DEF NothingFromTheFuture
<1>6. \A u \in Threads : pc'[u] \notin {"clock", "pop", "append"}
  BY <1>1 DEF HolderInside, TypeOK
<1>7. TypeOK'
  BY <1>1, <1>3, <1>4 DEF TypeOK, Steps
<1>8. HolderInside'
  BY <1>1, <1>6, ThreadAssumption DEF HolderInside
<1>9. DequeIsTheUnexpiredHistory'
  <2>1. Len(granted') = dropped' + Len(spent')
    BY <1>1, <1>2, <1>3, <1>4 DEF DequeIsTheUnexpiredHistory
  <2>2. ASSUME NEW i \in 1..Len(spent')
        PROVE  spent'[i] = granted'[dropped' + i]
    <3>1. CASE i \in 1..Len(spent)
      <4>1. dropped + i \in 1..Len(granted)
        BY <1>2, <3>1 DEF DequeIsTheUnexpiredHistory
      <4>2. spent[i] = granted[dropped + i]
        BY <3>1 DEF DequeIsTheUnexpiredHistory
      <4> QED
        BY <1>1, <1>3, <1>4, <3>1, <4>1, <4>2
    <3>2. CASE i = Len(spent) + 1
      <4>1. dropped + i = Len(granted) + 1
        BY <1>2, <3>2 DEF DequeIsTheUnexpiredHistory
      <4> QED
        BY <1>1, <1>3, <1>4, <3>2, <4>1
    <3> QED
      BY <1>2, <1>3, <3>1, <3>2
  <2>3. ASSUME NEW i \in 1..Len(granted'), NEW j \in i..Len(granted')
        PROVE  granted'[i] <= granted'[j]
    <3>1. CASE j \in 1..Len(granted)
      <4>1. i \in 1..Len(granted) /\ j \in i..Len(granted)
        BY <1>2, <3>1
      <4> QED
        BY <1>4, <3>1, <4>1 DEF DequeIsTheUnexpiredHistory
    <3>2. CASE j = Len(granted) + 1
      <4>1. CASE i \in 1..Len(granted)
        BY <1>2, <1>4, <1>5, <3>2, <4>1
      <4>2. CASE i = Len(granted) + 1
        BY <1>2, <1>4, <3>2, <4>2
      <4> QED
        BY <1>2, <1>4, <4>1, <4>2
    <3> QED
      BY <1>2, <1>4, <3>1, <3>2
  <2> QED
    BY <2>1, <2>2, <2>3 DEF DequeIsTheUnexpiredHistory
<1>10. NothingFromTheFuture'
  BY <1>1, <1>2, <1>4, <1>5, <1>6 DEF NothingFromTheFuture
<1>11. PoppedHaveExpired'
  <2>1. \A i \in 1..dropped : granted'[i] = granted[i]
    BY <1>2, <1>4 DEF DequeIsTheUnexpiredHistory
  <2> QED
    BY <1>1, <1>6, <2>1 DEF PoppedHaveExpired
<1>12. RoomWhenAdmitted'
  BY <1>6 DEF RoomWhenAdmitted
<1>13. AtMostLimitPerWindow'
  <2>1. Len(spent) < Limit
    BY <1>1 DEF RoomWhenAdmitted
  <2>2. Limit \in Nat /\ Limit > 0
    BY <1>2, <2>1, LimitAssumption
  <2>3. ASSUME NEW i \in 1..Len(granted'), i + Limit <= Len(granted')
        PROVE  granted'[i + Limit] - granted'[i] >= Window
    <3>1. CASE i + Limit <= Len(granted)
      <4>1. i \in 1..Len(granted) /\ i + Limit \in 1..Len(granted)
        BY <1>2, <2>2, <3>1
      <4>2. granted[i + Limit] - granted[i] >= Window
        BY <3>1, <4>1 DEF AtMostLimitPerWindow
      <4> QED
        BY <1>4, <4>1, <4>2
    <3>2. CASE i + Limit = Len(granted) + 1
      <4>1. i \in 1..dropped /\ i \in 1..Len(granted)
        BY <1>2, <2>1, <2>2, <3>2 DEF DequeIsTheUnexpiredHistory
      <4>2. now[t] - granted[i] >= Window
        BY <1>1, <4>1 DEF PoppedHaveExpired
      <4>3. granted'[i + Limit] = now[t] /\ granted'[i] = granted[i]
        BY <1>4, <3>2, <4>1
      <4> QED
        BY <4>2, <4>3
    <3>3. i + Limit <= Len(granted) \/ i + Limit = Len(granted) + 1
      <4>1. Len(granted') = Len(granted) + 1 /\ Len(granted) \in Nat
        BY <1>2, <1>4
      <4>2. i \in Nat /\ i + Limit <= Len(granted) + 1
        BY <2>3, <4>1
      <4> QED
        BY <2>2, <4>1, <4>2
    <3> QED
      BY <3>1, <3>2, <3>3
  <2>4. Limit # 0
    BY <2>2
  <2> QED
    BY <2>3, <2>4 DEF AtMostLimitPerWindow
<1> QED
  BY <1>7, <1>8, <1>9, <1>10, <1>11, <1>12, <1>13

LEMMA TickKeepsIInv ==
    ASSUME IInv, Tick
    PROVE  IInv'
<1> USE DEF IInv
<1>1. clock' = clock + 1 /\ UNCHANGED <<spent, lock, pc, now, granted, dropped>>
  BY DEF Tick
<1>2. /\ \A i \in 1..Len(granted) : granted[i] \in Nat
      /\ \A i \in 1..dropped : i \in 1..Len(granted)
      /\ clock \in Nat /\ now \in [Threads -> Nat]
  BY DEF TypeOK, DequeIsTheUnexpiredHistory
<1>3. TypeOK'
  BY <1>1 DEF TypeOK
<1>4. NothingFromTheFuture'
  BY <1>1, <1>2 DEF NothingFromTheFuture
<1>5. PoppedHaveExpired'
  BY <1>1, <1>2, WindowAssumption DEF PoppedHaveExpired
<1> QED
  BY <1>1, <1>3, <1>4, <1>5
     DEF HolderInside, DequeIsTheUnexpiredHistory, RoomWhenAdmitted,
         AtMostLimitPerWindow

LEMMA NextKeepsIInv == IInv /\ [Next]_vars => IInv'
<1> SUFFICES ASSUME IInv, [Next]_vars PROVE IInv'
  OBVIOUS
<1>1. CASE UNCHANGED vars
  BY <1>1 DEF vars, IInv, TypeOK, HolderInside, DequeIsTheUnexpiredHistory,
              NothingFromTheFuture, PoppedHaveExpired, RoomWhenAdmitted,
              AtMostLimitPerWindow
<1>2. ASSUME NEW t \in Threads, ThreadStep(t) PROVE IInv'
  BY <1>2, CallKeepsIInv, LockKeepsIInv, ReadClockKeepsIInv, PopKeepsIInv,
     RefuseKeepsIInv, AdmitKeepsIInv, GrantKeepsIInv DEF ThreadStep
<1> QED
  BY <1>1, <1>2, TickKeepsIInv DEF Next

-----------------------------------------------------------------------------
LEMMA IInvHolds == Spec => []IInv
BY InitEstablishesIInv, NextKeepsIInv, PTL DEF Spec

\* The variables keep their types.
THEOREM TypeCorrect == Spec => []TypeOK
BY IInvHolds, PTL DEF IInv

\* No window ever holds more than Limit granted units, whatever the threads do
\* between reading the clock and appending to the deque.
THEOREM WindowNeverOverspent == Spec => []AtMostLimitPerWindow
BY IInvHolds, PTL DEF IInv

\* The deque is exactly the part of the history not yet popped, oldest first.
THEOREM DequeMatchesHistory == Spec => []DequeIsTheUnexpiredHistory
BY IInvHolds, PTL DEF IInv

\* The last Limit units are all in the deque when a call is refused, and the
\* oldest of the deque is not expired.
LEMMA RefusalMeansFull ==
    ASSUME IInv, NEW t \in Threads, Refuse(t)
    PROVE  /\ Len(granted) >= Limit
           /\ Limit > 0 => now[t] - granted[Len(granted) + 1 - Limit] < Window
<1> USE DEF IInv
<1>1. /\ ~HeadExpired(now[t])  /\ Len(spent) >= Limit
      /\ Len(spent) \in Nat  /\ Len(granted) \in Nat  /\ dropped \in Nat
      /\ now[t] \in Nat  /\ Limit \in Nat  /\ Window \in Nat
      /\ Len(granted) = dropped + Len(spent)
      /\ spent \in Seq(Nat) /\ granted \in Seq(Nat)
  BY LimitAssumption, WindowAssumption
     DEF Refuse, TypeOK, DequeIsTheUnexpiredHistory
<1>2. ASSUME Limit > 0
      PROVE  now[t] - granted[Len(granted) + 1 - Limit] < Window
  <2>1. spent # <<>> /\ Head(spent) = spent[1] /\ 1 \in 1..Len(spent)
    BY <1>1, <1>2
  <2>2. now[t] - granted[dropped + 1] < Window
    BY <1>1, <2>1 DEF HeadExpired, DequeIsTheUnexpiredHistory
  <2> DEFINE k == Len(granted) + 1 - Limit
  <2>3. dropped + 1 \in 1..Len(granted) /\ k \in (dropped + 1)..Len(granted)
    BY <1>1, <1>2
  <2>4. granted[dropped + 1] <= granted[k]
    BY <2>3 DEF DequeIsTheUnexpiredHistory
  <2>5. granted[dropped + 1] \in Nat /\ granted[k] \in Nat
    BY <1>1, <2>3
  <2> QED
    BY <1>1, <2>2, <2>4, <2>5
<1> QED
  BY <1>1, <1>2

\* A call is refused only while Limit units are younger than the window: the
\* budget recovers by itself, and refused calls do not delay it.
THEOREM RefusalIsJustified == Spec => RefusedOnlyWhenSpent
<1>1. IInv /\ [Next]_vars =>
        [\A t \in Threads : Refuse(t) =>
            /\ Len(granted) >= Limit
            /\ Limit > 0 =>
                  now[t] - granted[Len(granted) + 1 - Limit] < Window]_vars
  BY RefusalMeansFull
<1> QED
  BY <1>1, IInvHolds, PTL DEF Spec, RefusedOnlyWhenSpent

-----------------------------------------------------------------------------
(* Least counterexamples *)

\* A set of naturals has a least element: what a proof by induction over data
\* takes the least counterexample of.
LEMMA LeastOf ==
    ASSUME NEW T, T \subseteq Nat, T # {}
    PROVE  \E x \in T : \A y \in T : x <= y
  <1>1. PICK x \in T : \A y \in T : <<y, x>> \notin OpToRel(<, Nat)
    BY NatLessThanWellFounded, WFMin
  <1>2. \A y \in T : y \in Nat /\ x \in Nat => ~(y < x)
    BY <1>1, Zenon DEF OpToRel
  <1> QED BY <1>2

\* A bounded one has a greatest, by the least bound.
LEMMA GreatestOf ==
    ASSUME NEW T, NEW n \in Nat, T \subseteq 0 .. n, T # {}
    PROVE  Max(T) \in T /\ \A y \in T : y <= Max(T)
  <1> DEFINE B == {m \in Nat : \A y \in T : y <= m}
  <1>1. PICK m \in B : \A k \in B : m <= k
    <2>1. n \in B
      OBVIOUS
    <2> HIDE DEF B
    <2> QED BY <2>1, LeastOf DEF B
  <1>2. m \in T
    <2>1. SUFFICES ASSUME m \notin T PROVE FALSE
      OBVIOUS
    <2>2. PICK z : z \in T
      OBVIOUS
    <2>3. \A y \in T : y <= m - 1 /\ y \in Nat
      BY <1>1, <2>1
    <2>4. m - 1 \in Nat
      BY <1>1, <2>2, <2>3
    <2>5. m - 1 \in B
      BY <2>3, <2>4
    <2> QED BY <1>1, <2>5
  <1> QED BY <1>1, <1>2 DEF Max

-----------------------------------------------------------------------------
(* What a reader takes a figure for *)

\* What a token shows: itself, a figure, or a figure with its team's name.
LEMMA ShownFacts ==
    ASSUME NEW said, NEW cl, NEW i, said[i].is \in TokenKinds
    PROVE  LET own == NameTeam(cl, said[i].id)
               figure == Piece("figure", own, said[i].id)
               name == Piece("team", own, None)
           IN  /\ said[i].is # "slot" => Shown(said, cl, i) = <<Piece(said[i].is, said[i].team, None)>>
               /\ said[i].is = "slot" /\ (own = None \/ Bare(said, cl, i)) => Shown(said, cl, i) = <<figure>>
               /\ said[i].is = "slot" /\ own # None /\ ~Bare(said, cl, i)
                     => Shown(said, cl, i) \in {<<name, figure>>, <<figure, name>>}
  BY DEF Shown

\* A token that does not turn the nearest reference shows nothing that distracts.
LEMMA OthersDoNotDistract ==
    ASSUME NEW n \in Nat, NEW said, DOMAIN said = 1 .. n, NEW cl,
           \A i \in 1 .. n : said[i].is \in TokenKinds,
           NEW r \in Places(Rendered(said, cl)), ~Turns(said, cl, r[1])
    PROVE  ~Distracts(cl, Rendered(said, cl), r)
  <1>1. r[1] \in 1 .. n /\ r[2] \in DOMAIN Shown(said, cl, r[1])
    BY DEF Places, Rendered
  <1>2. PieceAt(Rendered(said, cl), r) = Shown(said, cl, r[1])[r[2]]
    BY <1>1 DEF PieceAt, Rendered
  <1>3. CASE said[r[1]].is # "slot"
    <2>1. Shown(said, cl, r[1]) = <<Piece(said[r[1]].is, said[r[1]].team, None)>>
      BY <1>1, <1>3, ShownFacts
    <2>2. PieceAt(Rendered(said, cl), r) = Piece(said[r[1]].is, said[r[1]].team, None)
      BY <1>1, <1>2, <2>1
    <2> QED BY <1>1, <2>2 DEF Distracts, Turns, Says, NamesATeam, Refers, Piece, TokenKinds
  <1>4. CASE said[r[1]].is = "slot"
    <2>1. NameTeam(cl, said[r[1]].id) = None /\ Kind(cl, said[r[1]].id) \notin PairKinds
      BY <1>4 DEF Turns
    <2>2. Shown(said, cl, r[1]) = <<Piece("figure", None, said[r[1]].id)>>
      BY <1>1, <1>4, <2>1, ShownFacts
    <2>3. PieceAt(Rendered(said, cl), r) = Piece("figure", None, said[r[1]].id)
      BY <1>1, <1>2, <2>2
    <2> QED BY <2>1, <2>3 DEF Distracts, Says, NamesATeam, Refers, Piece
  <1> QED BY <1>3, <1>4

\* What the figure of token i, printed without its name, needs: its team named
\* before, and nothing since.
Introducing(said, cl, i, q) ==
    LET read == Rendered(said, cl) IN
    /\ q \in Places(read) /\ q[1] < i /\ NamesATeam(read, q)
    /\ PieceAt(read, q).team = NameTeam(cl, said[i].id)
    /\ \A r \in Places(read) : Precedes(q, r) /\ r[1] < i => ~Distracts(cl, read, r)

\* A place is a token and one of the pieces it shows.
LEMMA PlaceFacts ==
    ASSUME NEW n \in Nat, NEW said, DOMAIN said = 1 .. n, NEW cl, NEW p
    PROVE  /\ p \in Places(Rendered(said, cl))
                => /\ p[1] \in 1 .. n /\ p[2] \in DOMAIN Shown(said, cl, p[1]) /\ p = <<p[1], p[2]>>
                   /\ PieceAt(Rendered(said, cl), p) = Shown(said, cl, p[1])[p[2]]
           /\ \A i \in 1 .. n : \A k \in DOMAIN Shown(said, cl, i) :
                /\ <<i, k>> \in Places(Rendered(said, cl))
                /\ PieceAt(Rendered(said, cl), <<i, k>>) = Shown(said, cl, i)[k]
  BY DEF Places, Rendered, PieceAt

\* By induction: the reference before a bare figure is a name, or another bare
\* figure of the same team.
LEMMA BareIsIntroduced ==
    ASSUME NEW n \in Nat, NEW said, DOMAIN said = 1 .. n, NEW cl,
           \A i \in 1 .. n : said[i].is \in TokenKinds
    PROVE  \A i \in 1 .. n : Bare(said, cl, i) => \E q : Introducing(said, cl, i, q)
  <1> DEFINE read == Rendered(said, cl)
             T == {i \in 1 .. n : Bare(said, cl, i) /\ ~ \E q : Introducing(said, cl, i, q)}
  <1>1. SUFFICES ASSUME T # {} PROVE FALSE
    OBVIOUS
  <1>2. PICK i \in T : \A j \in T : i <= j
    <2>1. T \subseteq Nat
      OBVIOUS
    <2> HIDE DEF T
    <2> QED BY <1>1, <2>1, LeastOf
  <1> DEFINE own == NameTeam(cl, said[i].id)
             turns == {j \in 1 .. (i - 1) : Turns(said, cl, j)}
             m == Max(turns)
  <1>3. i \in 1 .. n /\ said[i].is = "slot" /\ own # None /\ turns # {} /\ TurnsTo(said, cl, m) = own
    BY <1>2 DEF Bare, Nearest
  <1>4. m \in turns /\ \A y \in turns : y <= m
    <2>1. turns \subseteq 0 .. n
      BY <1>3
    <2> HIDE DEF turns
    <2> QED BY <1>3, <2>1, GreatestOf
  <1>5. m \in 1 .. n /\ m < i /\ Turns(said, cl, m) /\ said[m].is \in TokenKinds
    BY <1>3, <1>4
  <1>6. \A r \in Places(read) : m < r[1] /\ r[1] < i => ~Distracts(cl, read, r)
    <2>1. TAKE r \in Places(read)
    <2>2. HAVE m < r[1] /\ r[1] < i
    <2>3. r[1] \in 1 .. n
      BY PlaceFacts
    <2>4. ~Turns(said, cl, r[1])
      BY <1>3, <1>4, <1>5, <2>2, <2>3
    <2> QED BY <2>4, OthersDoNotDistract
  <1> HIDE DEF turns, m
  <1>7. ASSUME NEW q, q \in Places(read), q[1] <= m, NamesATeam(read, q), PieceAt(read, q).team = own,
               \A r \in Places(read) : Precedes(q, r) /\ r[1] <= m => ~Distracts(cl, read, r)
        PROVE  FALSE
    <2>1. \A r \in Places(read) : r[1] \in Int
      BY PlaceFacts
    <2>2. Introducing(said, cl, i, q)
      BY <1>5, <1>6, <1>7, <2>1 DEF Introducing
    <2> QED BY <1>2, <2>2
  <1>8. CASE said[m].is # "slot"
    <2>1. Refers(said[m]) /\ said[m].team = own
      BY <1>3, <1>5, <1>8 DEF TurnsTo
    <2>2. Shown(said, cl, m) = <<Piece(said[m].is, said[m].team, None)>>
      BY <1>5, <1>8, ShownFacts
    <2>3. <<m, 1>> \in Places(read) /\ PieceAt(read, <<m, 1>>) = Piece(said[m].is, said[m].team, None)
      BY <1>5, <2>2, PlaceFacts
    <2>4. NamesATeam(read, <<m, 1>>) /\ PieceAt(read, <<m, 1>>).team = own
      BY <2>1, <2>3 DEF NamesATeam, Says, Piece, Refers
    <2>5. ASSUME NEW r \in Places(read), Precedes(<<m, 1>>, r), r[1] <= m PROVE FALSE
      <3>1. r[1] \in 1 .. n /\ r[2] \in DOMAIN Shown(said, cl, r[1])
        BY PlaceFacts
      <3>2. r[1] = m
        BY <1>5, <2>5, <3>1 DEF Precedes
      <3> QED BY <2>2, <2>5, <3>1, <3>2 DEF Precedes
    <2> QED BY <1>5, <1>7, <2>3, <2>4, <2>5
  <1>9. CASE said[m].is = "slot"
    <2>1. NameTeam(cl, said[m].id) = own /\ Kind(cl, said[m].id) \in NameKinds
      BY <1>3, <1>9 DEF TurnsTo, Refers, NameTeam
    <2>2. Kind(cl, said[m].id) \notin PairKinds
      BY <2>1 DEF NameKinds, PairKinds, GameKinds
    <2> DEFINE figure == Piece("figure", own, said[m].id)
               name == Piece("team", own, None)
    <2>3. ASSUME NEW r, PieceAt(read, r) = figure PROVE ~Distracts(cl, read, r)
      BY <2>2, <2>3 DEF Distracts, Says, NamesATeam, Refers, Piece
    <2>4. ASSUME NEW q, PieceAt(read, q) = name
          PROVE  NamesATeam(read, q) /\ PieceAt(read, q).team = own
      BY <2>4 DEF NamesATeam, Says, Piece
    <2>5. CASE Bare(said, cl, m)
      <3>1. PICK q : Introducing(said, cl, m, q)
        BY <1>2, <1>5, <2>5
      <3>2. Shown(said, cl, m) = <<figure>>
        BY <1>5, <1>9, <2>1, <2>5, ShownFacts
      <3>3. q \in Places(read) /\ q[1] <= m /\ NamesATeam(read, q) /\ PieceAt(read, q).team = own
        BY <1>5, <2>1, <3>1, PlaceFacts DEF Introducing
      <3>4. ASSUME NEW r \in Places(read), Precedes(q, r), r[1] <= m PROVE ~Distracts(cl, read, r)
        <4>1. r[1] \in 1 .. n /\ r[2] \in DOMAIN Shown(said, cl, r[1])
              /\ PieceAt(read, r) = Shown(said, cl, r[1])[r[2]]
          BY PlaceFacts
        <4>2. CASE r[1] < m
          BY <3>1, <3>4, <4>2 DEF Introducing
        <4>3. CASE r[1] = m
          <5>1. PieceAt(read, r) = figure
            BY <3>2, <4>1, <4>3
          <5> QED BY <2>3, <5>1
        <4> QED BY <1>5, <3>4, <4>1, <4>2, <4>3
      <3> QED BY <1>7, <3>3, <3>4
    <2>6. CASE ~Bare(said, cl, m)
      <3>1. Shown(said, cl, m) \in {<<name, figure>>, <<figure, name>>}
        BY <1>3, <1>5, <1>9, <2>1, <2>6, ShownFacts
      <3>2. PICK k \in {1, 2} : /\ Shown(said, cl, m)[k] = name
                                /\ \A j \in DOMAIN Shown(said, cl, m) : j > k => Shown(said, cl, m)[j] = figure
        BY <3>1
      <3>3. <<m, k>> \in Places(read) /\ PieceAt(read, <<m, k>>) = name
        BY <1>5, <3>1, <3>2, PlaceFacts
      <3>4. ASSUME NEW r \in Places(read), Precedes(<<m, k>>, r), r[1] <= m PROVE ~Distracts(cl, read, r)
        <4>1. r[1] \in 1 .. n /\ r[2] \in DOMAIN Shown(said, cl, r[1])
              /\ PieceAt(read, r) = Shown(said, cl, r[1])[r[2]]
          BY PlaceFacts
        <4>2. r[1] = m /\ r[2] > k
          BY <1>5, <3>4, <4>1 DEF Precedes
        <4>3. PieceAt(read, r) = figure
          BY <3>2, <4>1, <4>2
        <4> QED BY <2>3, <4>3
      <3> QED BY <1>5, <1>7, <2>4, <3>3, <3>4
    <2> QED BY <2>5, <2>6
  <1> QED BY <1>8, <1>9

\* Every text of any length: each figure of a team is read as that team's.
LEMMA RenderedReads ==
    ASSUME NEW n \in Nat, NEW said, DOMAIN said = 1 .. n, NEW cl,
           \A i \in 1 .. n : said[i].is \in TokenKinds
    PROVE  FiguresRead(cl, Rendered(said, cl))
  <1> DEFINE read == Rendered(said, cl)
  <1>1. SUFFICES ASSUME NEW p \in Places(read), Says(read, p) = "figure", PieceAt(read, p).team # None
                 PROVE  NamedAfter(read, p) \/ \E q \in Places(read) : GivesItsTeam(cl, read, q, p)
    BY DEF FiguresRead
  <1> DEFINE i == p[1]
             own == NameTeam(cl, said[i].id)
             figure == Piece("figure", own, said[i].id)
             name == Piece("team", own, None)
  <1>2. /\ i \in 1 .. n /\ p[2] \in DOMAIN Shown(said, cl, i) /\ p = <<i, p[2]>>
        /\ PieceAt(read, p) = Shown(said, cl, i)[p[2]]
    BY PlaceFacts
  <1>3. said[i].is = "slot"
    <2>1. SUFFICES ASSUME said[i].is # "slot" PROVE FALSE
      OBVIOUS
    <2>2. PieceAt(read, p) = Piece(said[i].is, said[i].team, None)
      BY <1>2, <2>1, ShownFacts
    <2> QED BY <1>1, <1>2, <2>2 DEF Says, Piece, TokenKinds
  <1>4. CASE own = None
    <2>1. PieceAt(read, p) = figure
      BY <1>2, <1>3, <1>4, ShownFacts
    <2> QED BY <1>1, <1>4, <2>1 DEF Piece
  <1>5. CASE own # None /\ Bare(said, cl, i)
    <2>1. Shown(said, cl, i) = <<figure>>
      BY <1>2, <1>3, <1>5, ShownFacts
    <2>2. p[2] = 1 /\ PieceAt(read, p).team = own
      BY <1>2, <2>1 DEF Piece
    <2>3. PICK q : Introducing(said, cl, i, q)
      BY <1>2, <1>5, BareIsIntroduced
    <2>4. \A r \in Places(read) : Precedes(r, p) => r[1] < i
      <3>1. TAKE r \in Places(read)
      <3>2. r[1] \in 1 .. n /\ r[2] \in DOMAIN Shown(said, cl, r[1])
        BY PlaceFacts
      <3>3. r[1] = i => r[2] = 1
        BY <2>1, <3>2
      <3> QED BY <2>2, <3>3 DEF Precedes
    <2> QED BY <2>2, <2>3, <2>4 DEF Introducing, GivesItsTeam, Precedes
  <1>6. CASE own # None /\ ~Bare(said, cl, i)
    <2>1. Shown(said, cl, i) \in {<<name, figure>>, <<figure, name>>}
      BY <1>2, <1>3, <1>6, ShownFacts
    <2>2. Shown(said, cl, i)[p[2]] = figure /\ PieceAt(read, p).team = own
      BY <1>1, <1>2, <2>1 DEF Piece, Says
    <2>3. CASE Shown(said, cl, i) = <<figure, name>>
      <3>1. p[2] = 1
        BY <1>2, <2>2, <2>3 DEF Piece
      <3>2. <<i, 2>> \in Places(read) /\ PieceAt(read, <<i, 2>>) = name
        BY <1>2, <2>3, PlaceFacts
      <3> QED BY <2>2, <3>1, <3>2 DEF NamedAfter, Says, Piece
    <2>4. CASE Shown(said, cl, i) = <<name, figure>>
      <3>1. p[2] = 2
        BY <1>2, <2>2, <2>4 DEF Piece
      <3>2. <<i, 1>> \in Places(read) /\ PieceAt(read, <<i, 1>>) = name
        BY <1>2, <2>4, PlaceFacts
      <3>3. ASSUME NEW r \in Places(read), Precedes(<<i, 1>>, r), Precedes(r, p) PROVE FALSE
        <4>1. r[1] \in 1 .. n /\ r[2] \in DOMAIN Shown(said, cl, r[1])
          BY PlaceFacts
        <4>2. r[1] = i => r[2] \in {1, 2}
          BY <2>4, <4>1
        <4> QED BY <1>2, <3>1, <3>3, <4>1, <4>2 DEF Precedes
      <3>4. NamesATeam(read, <<i, 1>>) /\ PieceAt(read, <<i, 1>>).team = own
        BY <3>2 DEF NamesATeam, Says, Piece
      <3>5. Precedes(<<i, 1>>, p)
        BY <1>2, <3>1 DEF Precedes
      <3> QED BY <2>2, <3>2, <3>3, <3>4, <3>5 DEF GivesItsTeam
    <2> QED BY <2>1, <2>3, <2>4
  <1> QED BY <1>4, <1>5, <1>6

-----------------------------------------------------------------------------
(* The texts of the narrator *)

\* The narrator's text is made of the tokens it may write (Write).
TextInv == text \in Seq(Vocabulary)

\* Which are of the kinds the patterns tell apart.
LEMMA VocabularyKinds == \A token \in Vocabulary : token.is \in TokenKinds
  BY GroundingAssumption DEF Vocabulary, Token, TokenKinds

\* It is empty at first, and only Write changes it.
LEMMA TextInvInit == GroundingInit => TextInv
  BY DEF GroundingInit, TextInv

\* Every step keeps it so.
LEMMA TextInvNext == TextInv /\ [GroundingNext]_gvars => TextInv'
  <1> SUFFICES ASSUME TextInv, [GroundingNext]_gvars PROVE TextInv'
    OBVIOUS
  <1>1. CASE Write
    BY <1>1 DEF TextInv, Write
  <1>2. CASE PlayGame \/ Rate \/ AskTeamCase \/ AskComparison \/ Submit \/ UNCHANGED gvars
    BY <1>2 DEF TextInv, PlayGame, Rate, AskTeamCase, AskComparison, Submit, gvars
  <1> QED BY <1>1, <1>2 DEF GroundingNext

\* An accepted narration of any length reads as its claims' teams.
THEOREM FiguresReadSafe == GroundingSpec => []FiguresReadAsTheirTeam
  <1>1. TextInv => FiguresReadAsTheirTeam
    <2>1. SUFFICES ASSUME TextInv PROVE FiguresRead(shown[1], Rendered(text, shown[1]))
      BY DEF FiguresReadAsTheirTeam
    <2>2. Len(text) \in Nat /\ DOMAIN text = 1 .. Len(text)
      BY <2>1 DEF TextInv
    <2>3. \A i \in 1 .. Len(text) : text[i].is \in TokenKinds
      BY <2>1, <2>2, VocabularyKinds DEF TextInv
    <2> QED BY <2>2, <2>3, RenderedReads
  <1> QED BY <1>1, TextInvInit, TextInvNext, PTL DEF GroundingSpec

-----------------------------------------------------------------------------
(* Orders *)

\* The pairs of a set are ordered strictly and totally.
StrictOn(S, order) ==
    /\ \A x \in S : <<x, x>> \notin order
    /\ \A x, y, z \in S : <<x, y>> \in order /\ <<y, z>> \in order => <<x, z>> \in order
    /\ \A x, y \in S : x = y \/ <<x, y>> \in order \/ <<y, x>> \in order

\* A sequence that has each member of S once.
Lists(w, S) ==
    /\ Cardinality(S) \in Nat /\ w \in [1 .. Cardinality(S) -> S]
    /\ \A x \in S : \E i \in 1 .. Cardinality(S) : w[i] = x
    /\ \A i, j \in 1 .. Cardinality(S) : w[i] = w[j] => i = j

\* Of two members of a finite set, fewer come before the earlier one.
LEMMA EarlierCounts ==
    ASSUME NEW S, IsFiniteSet(S), NEW order, StrictOn(S, order)
    PROVE  LET earlier(x) == {y \in S : <<y, x>> \in order} IN
           /\ \A x \in S : Cardinality(earlier(x)) \in 0 .. (Cardinality(S) - 1)
           /\ \A x, y \in S : <<x, y>> \in order
                                => Cardinality(earlier(x)) < Cardinality(earlier(y))
  <1> DEFINE n == Cardinality(S)
             earlier(x) == {y \in S : <<y, x>> \in order}
  <1>1. n \in Nat
    BY FS_CardinalityType
  <1>2. \A x \in S : IsFiniteSet(earlier(x)) /\ Cardinality(earlier(x)) \in 0 .. (n - 1)
    <2>1. TAKE x \in S
    <2>2. earlier(x) \subseteq S /\ earlier(x) # S
      BY DEF StrictOn
    <2>3. IsFiniteSet(earlier(x)) /\ Cardinality(earlier(x)) \in Nat /\ Cardinality(earlier(x)) < n
      <3> HIDE DEF earlier
      <3> QED BY <1>1, <2>2, FS_Subset, FS_CardinalityType
    <2> HIDE DEF earlier, n
    <2> QED BY <1>1, <2>3
  <1>3. ASSUME NEW x \in S, NEW y \in S, <<x, y>> \in order
        PROVE  Cardinality(earlier(x)) < Cardinality(earlier(y))
    <2>1. earlier(x) \subseteq earlier(y)
      BY <1>3 DEF StrictOn
    <2>2. x \in earlier(y) /\ x \notin earlier(x)
      BY <1>3 DEF StrictOn
    <2> HIDE DEF earlier
    <2>3. /\ IsFiniteSet(earlier(y)) /\ earlier(x) # earlier(y)
          /\ Cardinality(earlier(x)) \in Int /\ Cardinality(earlier(y)) \in Int
      BY <1>2, <2>2
    <2>4. earlier(x) \in SUBSET earlier(y)
      BY <2>1
    <2>5. Cardinality(earlier(x)) <= Cardinality(earlier(y))
          /\ Cardinality(earlier(x)) # Cardinality(earlier(y))
      BY <2>3, <2>4, FS_Subset
    <2> QED BY <2>3, <2>5
  <1> QED BY <1>2, <1>3

\* So a member is known by how many come before it.
LEMMA InOrderWalks ==
    ASSUME NEW S, IsFiniteSet(S), NEW order, StrictOn(S, order)
    PROVE  LET w == InOrder(S, order) IN
           /\ Lists(w, S)
           /\ \A i, j \in 1 .. Cardinality(S) : i < j => <<w[i], w[j]>> \in order
  <1> DEFINE n == Cardinality(S)
             earlier(x) == {y \in S : <<y, x>> \in order}
             rank == [x \in S |-> Cardinality(earlier(x))]
             w == InOrder(S, order)
  <1>1. n \in Nat
    BY FS_CardinalityType
  <1>2. \A x \in S : Cardinality(earlier(x)) \in 0 .. (n - 1)
    BY EarlierCounts
  <1>3. \A x, y \in S : <<x, y>> \in order => Cardinality(earlier(x)) < Cardinality(earlier(y))
    BY EarlierCounts
  <1>4. \A x, y \in S : Cardinality(earlier(x)) = Cardinality(earlier(y)) => x = y
    <2>1. SUFFICES ASSUME NEW x \in S, NEW y \in S, x # y
                   PROVE  Cardinality(earlier(x)) # Cardinality(earlier(y))
      OBVIOUS
    <2>2. <<x, y>> \in order \/ <<y, x>> \in order
      BY <2>1 DEF StrictOn
    <2>3. Cardinality(earlier(x)) \in Nat /\ Cardinality(earlier(y)) \in Nat
      BY <1>2
    <2> QED BY <1>3, <2>2, <2>3
  <1> HIDE DEF earlier
  <1>5. rank \in [S -> 0 .. (n - 1)] /\ \A x, y \in S : rank[x] = rank[y] => x = y
    BY <1>2, <1>4
  <1>6. \A i \in 0 .. (n - 1) : \E x \in S : rank[x] = i
    <2>1. IsFiniteSet(0 .. (n - 1)) /\ Cardinality(0 .. (n - 1)) = n
      BY <1>1, FS_Interval
    <2>2. rank \in Injection(S, 0 .. (n - 1))
      BY <1>5 DEF Injection, IsInjective
    <2>3. rank \in Surjection(S, 0 .. (n - 1))
      <3> HIDE DEF rank
      <3> QED BY <2>1, <2>2, FS_Injection
    <2> QED BY <2>3 DEF Surjection
  <1>7. w = [i \in 1 .. n |-> CHOOSE x \in S : Cardinality(earlier(x)) = i - 1]
    BY DEF InOrder, earlier
  <1> HIDE DEF n, w
  <1>8. \A i \in 1 .. n : w[i] \in S /\ rank[w[i]] = i - 1
    <2>1. TAKE i \in 1 .. n
    <2>2. i - 1 \in 0 .. (n - 1)
      BY <1>1
    <2>3. \E x \in S : Cardinality(earlier(x)) = i - 1
      BY <1>6, <2>2
    <2>4. w[i] = CHOOSE x \in S : Cardinality(earlier(x)) = i - 1
      BY <1>7
    <2> QED BY <2>3, <2>4
  <1>9. \A x \in S : rank[x] + 1 \in 1 .. n /\ w[rank[x] + 1] = x
    <2>1. TAKE x \in S
    <2>2. rank[x] \in 0 .. (n - 1)
      BY <1>5
    <2>3. rank[x] + 1 \in 1 .. n /\ (rank[x] + 1) - 1 = rank[x]
      BY <1>1, <2>2
    <2> HIDE DEF rank
    <2> QED BY <1>5, <1>8, <2>3
  <1>10. ASSUME NEW i \in 1 .. n, NEW j \in 1 .. n, i < j PROVE <<w[i], w[j]>> \in order
    <2>1. w[i] \in S /\ w[j] \in S /\ rank[w[i]] = i - 1 /\ rank[w[j]] = j - 1
      BY <1>8
    <2>2. w[i] # w[j] /\ ~(rank[w[j]] < rank[w[i]])
      BY <1>1, <1>10, <2>1
    <2>3. <<w[j], w[i]>> \notin order
      BY <1>3, <2>1, <2>2
    <2> QED BY <2>1, <2>2, <2>3 DEF StrictOn
  <1>11. \A i, j \in 1 .. n : w[i] = w[j] => i = j
    <2>1. SUFFICES ASSUME NEW i \in 1 .. n, NEW j \in 1 .. n, w[i] = w[j] PROVE i = j
      OBVIOUS
    <2>2. rank[w[i]] = i - 1 /\ rank[w[j]] = j - 1
      BY <1>8
    <2> HIDE DEF rank
    <2> QED BY <1>1, <2>1, <2>2
  <1>12. \A x \in S : \E i \in 1 .. n : w[i] = x
    BY <1>9
  <1>13. w \in [1 .. n -> S]
    BY <1>7, <1>8
  <1>14. Lists(w, S)
    BY <1>1, <1>11, <1>12, <1>13 DEF Lists, n
  <1> QED BY <1>10, <1>14 DEF n, w

\* The rows that are kept, each once.
LEMMA KeptRows ==
    ASSUME NEW R, NEW rows \in Seq(R), NEW places \in SUBSET (DOMAIN rows)
    PROVE  LET kept == Kept(rows, places) IN
           /\ kept \in Seq(R) /\ Len(kept) = Cardinality(places)
           /\ \A i \in 1 .. Len(kept) : \E p \in places : kept[i] = rows[p]
           /\ \A p \in places : \E i \in 1 .. Len(kept) : kept[i] = rows[p]
  <1> DEFINE order == {p \in places \X places : p[1] < p[2]}
             at == InOrder(places, order)
             m == Cardinality(places)
             kept == Kept(rows, places)
  <1>1. IsFiniteSet(places)
    <2>1. IsFiniteSet(1 .. Len(rows)) /\ DOMAIN rows = 1 .. Len(rows)
      BY FS_Interval
    <2> QED BY <2>1, FS_Subset
  <1>2. StrictOn(places, order)
    <2>1. places \subseteq Nat
      OBVIOUS
    <2> QED BY <2>1 DEF StrictOn
  <1>3. Lists(at, places)
    BY <1>1, <1>2, InOrderWalks
  <1>4. kept = [i \in DOMAIN at |-> rows[at[i]]]
    BY DEF Kept
  <1> HIDE DEF at, order, kept
  <1>5. m \in Nat /\ DOMAIN at = 1 .. m
    BY <1>3 DEF Lists
  <1>6. \A i \in 1 .. m : at[i] \in places
    BY <1>3 DEF Lists
  <1>7. \A p \in places : \E i \in 1 .. m : at[i] = p
    BY <1>3 DEF Lists
  <1>8. kept = [i \in 1 .. m |-> rows[at[i]]]
    BY <1>4, <1>5
  <1> HIDE DEF m
  <1>9. \A i \in 1 .. m : rows[at[i]] \in R
    BY <1>6
  <1>10. kept \in Seq(R) /\ Len(kept) = m
    BY <1>5, <1>8, <1>9
  <1>11. \A i \in 1 .. m : \E p \in places : kept[i] = rows[p]
    BY <1>6, <1>8
  <1>12. \A p \in places : \E i \in 1 .. m : kept[i] = rows[p]
    BY <1>7, <1>8
  <1> QED BY <1>10, <1>11, <1>12 DEF kept, m

-----------------------------------------------------------------------------
(* The order of a season *)

\* What is compared: m numbers.
Keys(m) == [1 .. m -> Int]

\* No key comes before itself.
LEMMA LexIrreflexive ==
    ASSUME NEW m \in Nat, NEW a \in Keys(m)
    PROVE  ~LexLess(a, a)
  BY DEF Keys, LexLess

\* The earlier of the two first differences decides.
LEMMA LexTransitive ==
    ASSUME NEW m \in Nat, NEW a \in Keys(m), NEW b \in Keys(m), NEW c \in Keys(m),
           LexLess(a, b), LexLess(b, c)
    PROVE  LexLess(a, c)
  <1>1. PICK i \in 1 .. m : a[i] < b[i] /\ \A j \in 1 .. (i - 1) : a[j] = b[j]
    BY DEF LexLess, Keys
  <1>2. PICK k \in 1 .. m : b[k] < c[k] /\ \A j \in 1 .. (k - 1) : b[j] = c[j]
    BY DEF LexLess, Keys
  <1>3. CASE i <= k
    <2>1. a[i] < c[i]
      BY <1>1, <1>2, <1>3 DEF Keys
    <2>2. \A j \in 1 .. (i - 1) : a[j] = c[j]
      BY <1>1, <1>2, <1>3
    <2> QED BY <2>1, <2>2 DEF LexLess, Keys
  <1>4. CASE k < i
    <2>1. a[k] < c[k]
      BY <1>1, <1>2, <1>4 DEF Keys
    <2>2. \A j \in 1 .. (k - 1) : a[j] = c[j]
      BY <1>1, <1>2, <1>4
    <2> QED BY <2>1, <2>2 DEF LexLess, Keys
  <1> QED BY <1>3, <1>4

\* Two keys that differ are ordered by the first place they differ at.
LEMMA LexTotal ==
    ASSUME NEW m \in Nat, NEW a \in Keys(m), NEW b \in Keys(m), a # b
    PROVE  LexLess(a, b) \/ LexLess(b, a)
  <1> DEFINE D == {i \in 1 .. m : a[i] # b[i]}
  <1>1. D # {} /\ D \subseteq Nat
    BY DEF Keys
  <1>2. PICK i \in D : \A j \in D : i <= j
    <2> HIDE DEF D
    <2> QED BY <1>1, LeastOf
  <1>3. \A j \in 1 .. (i - 1) : a[j] = b[j]
    BY <1>2
  <1>4. a[i] < b[i] \/ b[i] < a[i]
    BY <1>2 DEF Keys
  <1> QED BY <1>2, <1>3, <1>4 DEF LexLess, Keys

\* Sorting keeps the rows, whatever the keys: the place breaks every tie.
LEMMA SortedRows ==
    ASSUME NEW R, NEW rows \in Seq(R), NEW keys,
           \A i \in 1 .. Len(rows) : keys[i] \in Seq(Int),
           \A i, j \in 1 .. Len(rows) : Len(keys[i]) = Len(keys[j])
    PROVE  LET sorted == SortedBy(rows, keys) IN
           /\ sorted \in Seq(R) /\ Len(sorted) = Len(rows)
           /\ \A i \in 1 .. Len(rows) : \E p \in 1 .. Len(rows) : sorted[i] = rows[p]
           /\ \A p \in 1 .. Len(rows) : \E i \in 1 .. Len(rows) : sorted[i] = rows[p]
  <1> DEFINE n == Len(rows)
             key(i) == Append(keys[i], i)
             order == {p \in (1 .. n) \X (1 .. n) : LexLess(key(p[1]), key(p[2]))}
             at == InOrder(1 .. n, order)
             sorted == SortedBy(rows, keys)
             m == IF n = 0 THEN 0 ELSE Len(keys[1])
  <1>1. n \in Nat /\ DOMAIN rows = 1 .. n /\ IsFiniteSet(1 .. n) /\ Cardinality(1 .. n) = n
    <2>1. n \in Nat /\ DOMAIN rows = 1 .. n
      OBVIOUS
    <2> HIDE DEF n
    <2> QED BY <2>1, FS_Interval
  <1>2. m + 1 \in Nat /\ \A i \in 1 .. n : key(i) \in Keys(m + 1) /\ key(i)[m + 1] = i
    <2>0. m \in Nat
      <3>1. n # 0 => 1 \in 1 .. n
        BY <1>1
      <3> QED BY <3>1
    <2>1. m + 1 \in Nat
      <3> HIDE DEF m
      <3> QED BY <2>0
    <2> SUFFICES ASSUME NEW i \in 1 .. n PROVE key(i) \in Keys(m + 1) /\ key(i)[m + 1] = i
      <3> HIDE DEF key, m
      <3> QED BY <2>1
    <2>2. keys[i] \in Seq(Int) /\ Len(keys[i]) = m /\ i \in Int
      <3>1. n # 0 /\ 1 \in 1 .. n
        BY <1>1
      <3> QED BY <3>1
    <2> HIDE DEF order, at, m
    <2>3. key(i) \in Seq(Int) /\ Len(key(i)) = m + 1 /\ key(i)[m + 1] = i
      BY <2>0, <2>2
    <2> HIDE DEF key
    <2>4. key(i) \in [1 .. Len(key(i)) -> Int]
      BY <2>3
    <2> QED BY <2>1, <2>3, <2>4 DEF Keys
  <1>3. sorted = [i \in 1 .. n |-> rows[at[i]]]
    BY <1>1 DEF SortedBy, key
  <1> HIDE DEF key, n, m
  <1>4. StrictOn(1 .. n, order)
    <2>1. \A i \in 1 .. n : <<i, i>> \notin order
      BY <1>2, LexIrreflexive
    <2>2. \A i, j, k \in 1 .. n : <<i, j>> \in order /\ <<j, k>> \in order => <<i, k>> \in order
      BY <1>2, LexTransitive
    <2>3. \A i, j \in 1 .. n : i = j \/ <<i, j>> \in order \/ <<j, i>> \in order
      BY <1>2, LexTotal
    <2> HIDE DEF order
    <2> QED BY <2>1, <2>2, <2>3 DEF StrictOn
  <1>5. Lists(at, 1 .. n)
    BY <1>1, <1>4, InOrderWalks
  <1> HIDE DEF at, order, sorted
  <1>6. \A i \in 1 .. n : at[i] \in 1 .. n
    BY <1>1, <1>5 DEF Lists
  <1>7. \A p \in 1 .. n : \E i \in 1 .. n : at[i] = p
    BY <1>1, <1>5 DEF Lists
  <1>8. \A i \in 1 .. n : rows[i] \in R
    BY DEF n
  <1>9. sorted \in Seq(R) /\ Len(sorted) = n
    BY <1>1, <1>3, <1>6, <1>8
  <1>10. \A i \in 1 .. n : \E p \in 1 .. n : sorted[i] = rows[p]
    BY <1>3, <1>6
  <1>11. \A p \in 1 .. n : \E i \in 1 .. n : sorted[i] = rows[p]
    BY <1>3, <1>7
  <1> QED BY <1>9, <1>10, <1>11 DEF sorted, n

\* Games the schedule may hold together: one result to an id.
Season(games) == games \subseteq Schedule /\ \A g, h \in games : g.id = h.id => g = h

\* A game's key ends in its id.
LEMMA KeyOfAGame ==
    ASSUME NEW g \in Schedule
    PROVE  ChronologicalKey(g) \in Keys(8) /\ ChronologicalKey(g)[8] = g.id
  <1>1. g.week \in Int /\ g.start_date \in Int /\ g.id \in Int
    BY GroundingAssumption
  <1> QED BY <1>1 DEF ChronologicalKey, RegularWeek, Flag, None, Keys

\* ChronologicalKey breaks every tie by id, so the games of a season are walked
\* in one order, each exactly once.
LEMMA ChronologicalWalks ==
    ASSUME NEW games, Season(games)
    PROVE  /\ Lists(Chronological(games), games)
           /\ \A i, j \in 1 .. Cardinality(games) :
                 i < j => Before(Chronological(games)[i], Chronological(games)[j])
           /\ games # {} => Cardinality(games) > 0
  <1> DEFINE order == {p \in games \X games : Before(p[1], p[2])}
  <1>1. IsFiniteSet(games)
    BY GroundingAssumption, FS_Subset DEF Season
  <1>2. StrictOn(games, order)
    <2>1. \A g \in games : <<g, g>> \notin order
      BY LexIrreflexive, KeyOfAGame DEF Before, Season
    <2>2. ASSUME NEW g \in games, NEW h \in games, NEW k \in games, Before(g, h), Before(h, k)
          PROVE  Before(g, k)
      BY <2>2, LexTransitive, KeyOfAGame DEF Before, Season
    <2>3. ASSUME NEW g \in games, NEW h \in games, g # h PROVE Before(g, h) \/ Before(h, g)
      <3>1. ChronologicalKey(g) # ChronologicalKey(h)
        BY <2>3, KeyOfAGame DEF Season
      <3> QED BY <3>1, KeyOfAGame, LexTotal DEF Before, Season
    <2> QED BY <2>1, <2>2, <2>3 DEF StrictOn
  <1>3. Chronological(games) = InOrder(games, order)
    BY DEF Chronological
  <1>4. Lists(Chronological(games), games)
    BY <1>1, <1>2, <1>3, InOrderWalks
  <1>5. \A i, j \in 1 .. Cardinality(games) :
           i < j => <<Chronological(games)[i], Chronological(games)[j]>> \in order
    BY <1>1, <1>2, <1>3, InOrderWalks
  <1>6. Cardinality(games) \in Nat /\ games # {} => Cardinality(games) > 0
    BY <1>1, FS_EmptySet
  <1> QED BY <1>4, <1>5, <1>6 DEF Lists
-----------------------------------------------------------------------------
(* The ratings as they were stored *)

\* The ratings compute_and_store gives the games, by some method's strengths.
RatingsOf(games, ratings) ==
    \E strength \in Strengths :
        ratings = [t \in RatedTeams(games) |-> RatingRow(games, strength, t)]

\* The database holds a season's games, and the ratings of those that had been
\* seen: each team with what it was credited for, and its ledger.
Fields == {"sport", "season", "games", "ratings", "config", "steps"}
Stored ==
    \/ DOMAIN db.ratings = {}
    \/ /\ RatingsOf(seen, db.ratings)
       /\ db.config = TRUE
       /\ db.steps = [t \in RatedTeams(seen) |-> LedgerSteps(seen, t)]
LedgerInv == DOMAIN db = Fields /\ db.sport = "cfb" /\ Season(db.games) /\ Stored

\* Nothing is rated at first.
LEMMA LedgerInvInit == GroundingInit => LedgerInv
  BY DEF GroundingInit, LedgerInv, Season, Stored, Fields

\* Ingest adds one result to an id, and rating stores the three tables together.
LEMMA LedgerInvNext == LedgerInv /\ [GroundingNext]_gvars => LedgerInv'
  <1> SUFFICES ASSUME LedgerInv, [GroundingNext]_gvars PROVE LedgerInv'
    OBVIOUS
  <1>1. CASE PlayGame
    <2>1. PICK g \in Schedule : /\ \A h \in db.games : h.id # g.id
                                /\ db' = [db EXCEPT !.games = @ \cup {g}]
      BY <1>1 DEF PlayGame
    <2>2. seen' = seen
      BY <1>1 DEF PlayGame
    <2>3. /\ DOMAIN db' = Fields /\ db'.games = db.games \cup {g}
          /\ db'.sport = db.sport /\ db'.ratings = db.ratings /\ db'.config = db.config /\ db'.steps = db.steps
      BY <2>1 DEF LedgerInv, Fields
    <2>4. Season(db'.games)
      BY <2>1, <2>3 DEF LedgerInv, Season
    <2>5. Stored'
      BY <2>2, <2>3 DEF LedgerInv, Stored
    <2> QED BY <2>3, <2>4, <2>5 DEF LedgerInv
  <1>2. CASE Rate
    <2>1. PICK strength \in Strengths : db' = Rerated(strength)
      BY <1>2 DEF Rate
    <2>2. seen' = db.games
      BY <1>2 DEF Rate
    <2>3. /\ DOMAIN db' = Fields /\ db'.games = db.games /\ db'.sport = db.sport /\ db'.config = TRUE
          /\ db'.ratings = [t \in RatedTeams(db.games) |-> RatingRow(db.games, strength, t)]
          /\ db'.steps = [t \in RatedTeams(db.games) |-> LedgerSteps(db.games, t)]
      BY <2>1 DEF Rerated, LedgerInv, Fields
    <2>4. Stored'
      BY <2>2, <2>3 DEF Stored, RatingsOf
    <2> QED BY <2>3, <2>4 DEF LedgerInv
  <1>3. CASE AskTeamCase \/ AskComparison \/ Write \/ Submit \/ UNCHANGED gvars
    BY <1>3 DEF LedgerInv, Stored, AskTeamCase, AskComparison, Write, Submit, gvars
  <1> QED BY <1>1, <1>2, <1>3 DEF GroundingNext

\* A pair has one game on a date.
LEMMA OneOnADate ==
    ASSUME NEW games, Season(games), NEW g \in games, NEW h \in games,
           {g.home, g.away} = {h.home, h.away},
           g.start_date = h.start_date, g.start_date # None
    PROVE  g = h
  BY GroundingAssumption DEF Season

\* A team and its opponent are the two sides of a game.
LEMMA SidesOf ==
    ASSUME NEW g, NEW t, Plays(g, t)
    PROVE  {g.home, g.away} = {t, OpponentOf(g, t)}
  BY DEF Plays, OpponentOf

\* A neutral step finds the one game it was computed from.
LEMMA StepFindsItsGame ==
    ASSUME Season(db.games), Dated, NEW t, NEW g \in ScoredGames(db.games), Plays(g, t), NEW step,
           step.opponent = OpponentOf(g, t), step.start_date = g.start_date,
           step.venue = "neutral" <=> g.neutral_site
    PROVE  StepVenueReliable(db, t, step)
              = IF GameVenueReliable(db, g) THEN "reliable" ELSE "unreliable"
  <1> DEFINE known == VenueReliable(db, FALSE, None)
             found == {h \in db.games : /\ {h.home, h.away} = {t, step.opponent}
                                        /\ step.start_date # None
                                        /\ h.start_date = step.start_date}
  <1>1. CASE known
    BY <1>1 DEF StepVenueReliable, VenueReliable, GameVenueReliable
  <1>2. CASE ~known /\ ~g.neutral_site
    BY <1>2 DEF StepVenueReliable, VenueReliable, GameVenueReliable
  <1>3. CASE ~known /\ g.neutral_site
    <2>1. g.start_date # None /\ g \in db.games
      BY <1>3 DEF Dated, ScoredGames
    <2>2. {g.home, g.away} = {t, step.opponent}
      BY SidesOf
    <2>3. \A h \in found : h = g
      BY <2>1, <2>2, OneOnADate
    <2>4. found = {g}
      BY <2>1, <2>2, <2>3
    <2>5. Cardinality(found) = 1 /\ (CHOOSE h \in found : TRUE) = g
      BY <2>4, FS_Singleton
    <2>6. StepVenueReliable(db, t, step) =
            IF step.venue # "neutral" \/ known THEN IF known THEN "reliable" ELSE "unreliable"
            ELSE IF Cardinality(found) # 1 THEN "corrupt"
            ELSE IF GameVenueReliable(db, CHOOSE h \in found : TRUE) THEN "reliable" ELSE "unreliable"
      BY DEF StepVenueReliable
    <2> HIDE DEF found, known
    <2> QED BY <1>3, <2>5, <2>6
  <1> QED BY <1>1, <1>2, <1>3

\* A ledger has a step for each game of the walk.
LEMMA LedgerStepOf ==
    ASSUME NEW games, NEW t
    PROVE  LET walked == Chronological({g \in ScoredGames(games) : Plays(g, t)})
               step(g) == [opponent |-> OpponentOf(g, t),
                           venue |-> IF g.neutral_site THEN "neutral"
                                     ELSE IF g.home = t THEN "home" ELSE "away",
                           start_date |-> g.start_date,
                           result |-> Result(TeamScore(g, t), TeamScore(g, OpponentOf(g, t)))]
           IN  LedgerSteps(games, t) = [i \in DOMAIN walked |-> step(walked[i])]
  BY DEF LedgerSteps

\* While the ratings are fresh, the i-th step of a rated team's ledger is its
\* i-th game, and it finds that game again.
LEMMA StepIsItsGame ==
    ASSUME LedgerInv, Fresh, Dated, NEW t \in Rated
    PROVE  LET walked == TeamGames(db, t) rows == db.steps[t] IN
           \E n \in Nat \ {0} :
              /\ DOMAIN walked = 1 .. n /\ DOMAIN rows = 1 .. n
              /\ \A i \in 1 .. n :
                    /\ rows[i].opponent = OpponentOf(walked[i], t)
                    /\ rows[i].result = Result(TeamScore(walked[i], t),
                                               TeamScore(walked[i], OpponentOf(walked[i], t)))
                    /\ rows[i].venue = IF walked[i].neutral_site THEN "neutral"
                                       ELSE IF walked[i].home = t THEN "home" ELSE "away"
                    /\ StepVenueReliable(db, t, rows[i])
                          = IF GameVenueReliable(db, walked[i]) THEN "reliable" ELSE "unreliable"
  <1> DEFINE S == {g \in ScoredGames(db.games) : Plays(g, t)}
             n == Cardinality(S)
             walked == TeamGames(db, t)
             rows == db.steps[t]
  <1>1. t \in RatedTeams(db.games) /\ db.steps = [u \in RatedTeams(db.games) |-> LedgerSteps(db.games, u)]
    BY DEF LedgerInv, Stored, Fresh, Rated, RatingsOf
  <1>2. walked = Chronological(S)
    <2>1. S = {g \in Completed(db) : Scored(g) /\ Plays(g, t)}
      BY DEF ScoredGames, Completed
    <2> QED BY <2>1 DEF TeamGames
  <1>3. Season(S) /\ S # {}
    BY <1>1 DEF LedgerInv, Season, ScoredGames, RatedTeams
  <1>4. n \in Nat /\ n > 0 /\ DOMAIN walked = 1 .. n /\ \A i \in 1 .. n : walked[i] \in S
    <2> HIDE DEF S, walked
    <2> QED BY <1>2, <1>3, ChronologicalWalks DEF Lists
  <1>5. rows = LedgerSteps(db.games, t)
    BY <1>1
  <1>6. DOMAIN rows = 1 .. n
    <2>1. DOMAIN rows = DOMAIN Chronological(S)
      BY <1>5, LedgerStepOf
    <2> QED BY <1>2, <1>4, <2>1
  <1>7. ASSUME NEW i \in 1 .. n
        PROVE  /\ rows[i].opponent = OpponentOf(walked[i], t)
               /\ rows[i].result = Result(TeamScore(walked[i], t), TeamScore(walked[i], OpponentOf(walked[i], t)))
               /\ rows[i].start_date = walked[i].start_date
               /\ rows[i].venue = IF walked[i].neutral_site THEN "neutral"
                                  ELSE IF walked[i].home = t THEN "home" ELSE "away"
    <2> DEFINE g == walked[i]
    <2>1. i \in DOMAIN Chronological(S)
      BY <1>2, <1>4, <1>7
    <2>2. rows[i] = [opponent |-> OpponentOf(g, t),
                     venue |-> IF g.neutral_site THEN "neutral" ELSE IF g.home = t THEN "home" ELSE "away",
                     start_date |-> g.start_date,
                     result |-> Result(TeamScore(g, t), TeamScore(g, OpponentOf(g, t)))]
      BY <1>2, <1>5, <2>1, LedgerStepOf
    <2> HIDE DEF g, rows
    <2>3. /\ rows[i].opponent = OpponentOf(g, t) /\ rows[i].start_date = g.start_date
          /\ rows[i].result = Result(TeamScore(g, t), TeamScore(g, OpponentOf(g, t)))
          /\ rows[i].venue = IF g.neutral_site THEN "neutral" ELSE IF g.home = t THEN "home" ELSE "away"
      BY <2>2
    <2> QED BY <2>3 DEF g
  <1>8. ASSUME NEW i \in 1 .. n
        PROVE  StepVenueReliable(db, t, rows[i])
                  = IF GameVenueReliable(db, walked[i]) THEN "reliable" ELSE "unreliable"
    <2>1. walked[i] \in ScoredGames(db.games) /\ Plays(walked[i], t)
      BY <1>4, <1>8
    <2> HIDE DEF walked, rows, n
    <2>2. /\ rows[i].opponent = OpponentOf(walked[i], t) /\ rows[i].start_date = walked[i].start_date
          /\ rows[i].venue = "neutral" <=> walked[i].neutral_site
      BY <1>7, <1>8
    <2> QED BY <2>1, <2>2, StepFindsItsGame DEF LedgerInv
  <1> HIDE DEF n
  <1>9. n \in Nat \ {0}
    BY <1>4
  <1> SUFFICES
        /\ DOMAIN walked = 1 .. n /\ DOMAIN rows = 1 .. n
        /\ \A i \in 1 .. n :
              /\ rows[i].opponent = OpponentOf(walked[i], t)
              /\ rows[i].result = Result(TeamScore(walked[i], t), TeamScore(walked[i], OpponentOf(walked[i], t)))
              /\ rows[i].venue = IF walked[i].neutral_site THEN "neutral"
                                 ELSE IF walked[i].home = t THEN "home" ELSE "away"
              /\ StepVenueReliable(db, t, rows[i])
                    = IF GameVenueReliable(db, walked[i]) THEN "reliable" ELSE "unreliable"
    BY <1>9, Zenon
  <1> HIDE DEF walked, rows
  <1> QED BY <1>4, <1>6, <1>7, <1>8

\* What a rated team was credited for, it met as often.
LEMMA CreditsExplained ==
    ASSUME LedgerInv, Fresh, NEW t \in Rated, NEW e \in RatingBreakdown(db, t)
    PROVE  e.games_played = e.explained
  <1>1. RatingsOf(db.games, db.ratings)
    BY DEF LedgerInv, Stored, Fresh, Rated
  <1>2. PICK u \in DOMAIN db.ratings[t].faced :
            /\ e.games_played = db.ratings[t].faced[u]
            /\ e.explained = Len(ScoresVsOpponent(db, t, u))
    BY DEF RatingBreakdown
  <1>3. \E strength \in Strengths : db.ratings[t] = RatingRow(db.games, strength, t)
    BY <1>1 DEF RatingsOf, Rated
  <1> DEFINE S == Against(db.games, t, u)
  <1>4. db.ratings[t].faced[u] = Cardinality(S)
    BY <1>2, <1>3 DEF RatingRow
  <1>5. PairGames(db, t, u) = Chronological(S)
    <2>1. S = {g \in Completed(db) : Scored(g) /\ {g.home, g.away} = {t, u}}
      BY DEF Against, ScoredGames, Completed
    <2> QED BY <2>1 DEF PairGames
  <1>6. Cardinality(S) \in Nat /\ DOMAIN PairGames(db, t, u) = 1 .. Cardinality(S)
    <2>1. Season(S)
      BY DEF LedgerInv, Season, Against, ScoredGames
    <2> HIDE DEF S
    <2> QED BY <1>5, <2>1, ChronologicalWalks DEF Lists
  <1>7. Len(ScoresVsOpponent(db, t, u)) = Cardinality(S)
    <2> HIDE DEF S
    <2> QED BY <1>6 DEF ScoresVsOpponent
  <1> QED BY <1>2, <1>4, <1>7

\* Whatever is ingested and rated in whatever order: while the ratings are fresh
\* a verdict's ledger is its games, venues hedged alike, and explains its credits.
THEOREM LedgerInStepSafe == GroundingSpec => []LedgerInStep
  <1>1. LedgerInv => LedgerInStep
    <2>1. SUFFICES ASSUME LedgerInv, Fresh, Dated, NEW t \in Rated
                   PROVE  LET ledger == EloLedger(db, t) games == Results(db, t) IN
                          /\ ~ledger.corrupt
                          /\ Len(ledger.steps) = Len(games)
                          /\ \A i \in DOMAIN games :
                                /\ ledger.steps[i].opponent = games[i].opponent
                                /\ ledger.steps[i].result = games[i].result
                                /\ games[i].venue = ledger.steps[i].venue
                                /\ games[i].venue_reliable = (ledger.steps[i].venue_reliable = "reliable")
                          /\ \A e \in RatingBreakdown(db, t) : e.games_played = e.explained
      BY DEF LedgerInStep
    <2> DEFINE ledger == EloLedger(db, t)
               games == Results(db, t)
               walked == TeamGames(db, t)
               rows == db.steps[t]
    <2>2. PICK n \in Nat \ {0} :
              /\ DOMAIN walked = 1 .. n /\ DOMAIN rows = 1 .. n
              /\ \A i \in 1 .. n :
                    /\ rows[i].opponent = OpponentOf(walked[i], t)
                    /\ rows[i].result = Result(TeamScore(walked[i], t),
                                               TeamScore(walked[i], OpponentOf(walked[i], t)))
                    /\ rows[i].venue = IF walked[i].neutral_site THEN "neutral"
                                       ELSE IF walked[i].home = t THEN "home" ELSE "away"
                    /\ StepVenueReliable(db, t, rows[i])
                          = IF GameVenueReliable(db, walked[i]) THEN "reliable" ELSE "unreliable"
      BY <2>1, StepIsItsGame
    <2> HIDE DEF walked, rows
    <2>5. games = [i \in 1 .. n |-> OpponentResult(db, walked[i], t)]
      BY <2>2 DEF Results, walked
    <2>6. ledger.steps = [i \in 1 .. n |-> [opponent |-> rows[i].opponent, venue |-> rows[i].venue,
                                            result |-> rows[i].result,
                                            venue_reliable |-> StepVenueReliable(db, t, rows[i])]]
      BY <2>2 DEF EloLedger, rows
    <2>7. ~ledger.corrupt
      <3>1. rows # <<>>
        BY <2>2
      <3>2. db.config = TRUE
        BY <2>1 DEF LedgerInv, Stored, Rated
      <3>3. \A i \in DOMAIN rows : StepVenueReliable(db, t, rows[i]) # "corrupt"
        BY <2>2
      <3> QED BY <3>1, <3>2, <3>3 DEF EloLedger, rows
    <2>8. Len(ledger.steps) = n /\ Len(games) = n
      BY <2>2, <2>5, <2>6
    <2>9. ASSUME NEW i \in 1 .. n
          PROVE  /\ ledger.steps[i].opponent = games[i].opponent
                 /\ ledger.steps[i].result = games[i].result
                 /\ games[i].venue = ledger.steps[i].venue
                 /\ games[i].venue_reliable = (ledger.steps[i].venue_reliable = "reliable")
      <3>1. games[i] = OpponentResult(db, walked[i], t)
        BY <2>5
      <3>2. /\ ledger.steps[i].opponent = rows[i].opponent /\ ledger.steps[i].venue = rows[i].venue
            /\ ledger.steps[i].result = rows[i].result
            /\ ledger.steps[i].venue_reliable = StepVenueReliable(db, t, rows[i])
        BY <2>6
      <3>3. GameVenueReliable(db, walked[i]) \in BOOLEAN
        BY DEF GameVenueReliable, VenueReliable
      <3>4. /\ games[i].opponent = OpponentOf(walked[i], t)
            /\ games[i].result = Result(TeamScore(walked[i], t), TeamScore(walked[i], OpponentOf(walked[i], t)))
            /\ games[i].venue = IF walked[i].neutral_site THEN "neutral"
                                ELSE IF walked[i].home = t THEN "home" ELSE "away"
            /\ games[i].venue_reliable = GameVenueReliable(db, walked[i])
        BY <3>1 DEF OpponentResult
      <3> HIDE DEF ledger, games
      <3>5. games[i].venue_reliable = (ledger.steps[i].venue_reliable = "reliable")
        BY <2>2, <3>2, <3>3, <3>4
      <3> QED BY <2>2, <3>2, <3>4, <3>5
    <2> QED BY <2>1, <2>5, <2>7, <2>8, <2>9, CreditsExplained
  <1> QED BY <1>1, LedgerInvInit, LedgerInvNext, PTL DEF GroundingSpec

-----------------------------------------------------------------------------
(* Sizes and sequences *)

\* Two finite sets with a one-to-one map between them are as large.
LEMMA SameSize ==
    ASSUME NEW S, NEW T, IsFiniteSet(S), NEW f \in [S -> T],
           \A x, y \in S : f[x] = f[y] => x = y, \A z \in T : \E x \in S : f[x] = z
    PROVE  IsFiniteSet(T) /\ Cardinality(T) = Cardinality(S)
  <1>1. f \in Surjection(S, T)
    BY DEF Surjection
  <1>2. f \in Injection(S, T)
    BY DEF Injection, IsInjective
  <1> QED BY <1>1, <1>2, FS_Surjection

\* A sequence over a set is one over a larger set.
LEMMA Wider ==
    ASSUME NEW A, NEW B, A \subseteq B, NEW s \in Seq(A)
    PROVE  s \in Seq(B)
  <1>1. s = [i \in 1 .. Len(s) |-> s[i]] /\ Len(s) \in Nat /\ \A i \in 1 .. Len(s) : s[i] \in A
    OBVIOUS
  <1>2. \A i \in 1 .. Len(s) : s[i] \in B
    BY <1>1
  <1> QED BY <1>1, <1>2

\* Two sequences joined, and their items.
Joins(z, p, q) == z = p \o q
LEMMA Joined ==
    ASSUME NEW S, NEW p \in Seq(S), NEW q \in Seq(S), NEW z, Joins(z, p, q)
    PROVE  /\ z \in Seq(S) /\ Len(p) \in Nat /\ Len(q) \in Nat /\ Len(z) = Len(p) + Len(q)
           /\ \A i \in 1 .. Len(p) : z[i] = p[i]
           /\ \A i \in 1 .. Len(q) : z[Len(p) + i] = q[i]
  BY DEF Joins

\* An item of the first is somewhere in the two.
LEMMA JoinedLeft ==
    ASSUME NEW S, NEW p \in Seq(S), NEW q \in Seq(S), NEW z, Joins(z, p, q), NEW l \in 1 .. Len(p)
    PROVE  \E k \in DOMAIN z : z[k] = p[l]
  <1>1. z[l] = p[l] /\ Len(z) = Len(p) + Len(q) /\ Len(p) \in Nat /\ Len(q) \in Nat /\ z \in Seq(S)
    BY Joined
  <1>2. l \in DOMAIN z
    BY <1>1
  <1> QED BY <1>1, <1>2

\* So is one of the second.
LEMMA JoinedRight ==
    ASSUME NEW S, NEW p \in Seq(S), NEW q \in Seq(S), NEW z, Joins(z, p, q), NEW l \in 1 .. Len(q)
    PROVE  \E k \in DOMAIN z : z[k] = q[l]
  <1>1. z[Len(p) + l] = q[l] /\ Len(z) = Len(p) + Len(q) /\ Len(p) \in Nat /\ Len(q) \in Nat /\ z \in Seq(S)
    BY Joined
  <1>2. Len(p) + l \in DOMAIN z
    BY <1>1
  <1> QED BY <1>1, <1>2

-----------------------------------------------------------------------------
(* The lists of a block *)

\* What a list of lists holds.
Pieces(lists) == {PieceAt(lists, p) : p \in Places(lists)}

\* Its places, one by one.
LEMMA PlaceIn ==
    ASSUME NEW lists, NEW i \in DOMAIN lists, NEW j \in DOMAIN lists[i]
    PROVE  <<i, j>> \in Places(lists) /\ PieceAt(lists, <<i, j>>) = lists[i][j]
  BY DEF Places, PieceAt

\* Back from a place to the two.
LEMMA PlaceOf ==
    ASSUME NEW R, NEW lists \in Seq(Seq(R)), NEW p \in Places(lists)
    PROVE  /\ p[1] \in 1 .. Len(lists) /\ lists[p[1]] \in Seq(R)
           /\ p[2] \in 1 .. Len(lists[p[1]]) /\ p = <<p[1], p[2]>>
           /\ PieceAt(lists, p) = lists[p[1]][p[2]] /\ PieceAt(lists, p) \in R
  <1>1. PICK i \in DOMAIN lists : p \in {i} \X (DOMAIN lists[i])
    BY DEF Places
  <1>2. i \in 1 .. Len(lists) /\ lists[i] \in Seq(R)
    BY <1>1
  <1>3. p[1] = i /\ p[2] \in DOMAIN lists[i] /\ p = <<p[1], p[2]>>
    BY <1>1
  <1>4. DOMAIN lists[i] = 1 .. Len(lists[i]) /\ \A j \in 1 .. Len(lists[i]) : lists[i][j] \in R
    BY <1>2
  <1> QED BY <1>2, <1>3, <1>4 DEF PieceAt

\* Two lists of lists, one after the other.
LEMMA PiecesOfBoth ==
    ASSUME NEW R, NEW a \in Seq(Seq(R)), NEW b \in Seq(Seq(R))
    PROVE  /\ a \o b \in Seq(Seq(R))
           /\ Pieces(a) \subseteq Pieces(a \o b) /\ Pieces(b) \subseteq Pieces(a \o b)
  <1> DEFINE S == Seq(R)
  <1>1. /\ a \o b \in Seq(S) /\ Len(a) \in Nat /\ Len(b) \in Nat /\ Len(a \o b) = Len(a) + Len(b)
        /\ \A i \in 1 .. Len(a) : (a \o b)[i] = a[i]
        /\ \A i \in 1 .. Len(b) : (a \o b)[Len(a) + i] = b[i]
    OBVIOUS
  <1>2. ASSUME NEW p \in Places(a) PROVE PieceAt(a, p) \in Pieces(a \o b)
    <2>1. p[1] \in 1 .. Len(a) /\ a[p[1]] \in Seq(R) /\ p[2] \in DOMAIN a[p[1]]
          /\ PieceAt(a, p) = a[p[1]][p[2]]
      BY PlaceOf
    <2>2. p[1] \in DOMAIN (a \o b) /\ (a \o b)[p[1]] = a[p[1]]
      BY <1>1, <2>1
    <2>3. p[2] \in DOMAIN (a \o b)[p[1]]
      BY <2>1, <2>2
    <2>4. <<p[1], p[2]>> \in Places(a \o b) /\ PieceAt(a \o b, <<p[1], p[2]>>) = (a \o b)[p[1]][p[2]]
      BY <2>2, <2>3, PlaceIn
    <2>5. PieceAt(a, p) = PieceAt(a \o b, <<p[1], p[2]>>)
      BY <2>1, <2>2, <2>4
    <2> QED BY <2>4, <2>5 DEF Pieces
  <1>3. ASSUME NEW p \in Places(b) PROVE PieceAt(b, p) \in Pieces(a \o b)
    <2>1. p[1] \in 1 .. Len(b) /\ b[p[1]] \in Seq(R) /\ p[2] \in DOMAIN b[p[1]]
          /\ PieceAt(b, p) = b[p[1]][p[2]]
      BY PlaceOf
    <2>2. Len(a) + p[1] \in DOMAIN (a \o b) /\ (a \o b)[Len(a) + p[1]] = b[p[1]]
      BY <1>1, <2>1
    <2>3. p[2] \in DOMAIN (a \o b)[Len(a) + p[1]]
      BY <2>1, <2>2
    <2>4. <<Len(a) + p[1], p[2]>> \in Places(a \o b) /\ PieceAt(a \o b, <<Len(a) + p[1], p[2]>>) = (a \o b)[Len(a) + p[1]][p[2]]
      BY <2>2, <2>3, PlaceIn
    <2>5. PieceAt(b, p) = PieceAt(a \o b, <<Len(a) + p[1], p[2]>>)
      BY <2>1, <2>2, <2>4
    <2> QED BY <2>4, <2>5 DEF Pieces
  <1> QED BY <1>1, <1>2, <1>3 DEF Pieces

\* Some place of a set of places comes first.
LEMMA FirstPlace ==
    ASSUME NEW R, NEW lists \in Seq(Seq(R)), NEW at \in SUBSET Places(lists), at # {}
    PROVE  \E p \in at : \A q \in at : ~Precedes(q, p)
  <1>1. \A p \in at : p[1] \in Nat /\ p[2] \in Nat
    <2>1. TAKE p \in at
    <2>2. /\ p[1] \in 1 .. Len(lists) /\ lists[p[1]] \in Seq(R) /\ p[2] \in 1 .. Len(lists[p[1]])
      BY PlaceOf
    <2> QED BY <2>2
  <1> DEFINE rows == {p[1] : p \in at}
  <1>2. rows \subseteq Nat /\ rows # {}
    BY <1>1
  <1>3. PICK i \in rows : \A k \in rows : i <= k
    <2> HIDE DEF rows
    <2> QED BY <1>2, LeastOf
  <1> DEFINE cols == {p[2] : p \in {q \in at : q[1] = i}}
  <1>4. cols \subseteq Nat /\ cols # {}
    BY <1>1, <1>3
  <1>5. PICK j \in cols : \A k \in cols : j <= k
    <2> HIDE DEF cols
    <2> QED BY <1>4, LeastOf
  <1>6. PICK p \in at : p[1] = i /\ p[2] = j
    BY <1>5
  <1>7. ASSUME NEW q \in at PROVE ~Precedes(q, p)
    <2>1. q[1] \in rows /\ (q[1] = i => q[2] \in cols)
      OBVIOUS
    <2>2. i <= q[1] /\ (q[1] = i => j <= q[2])
      BY <1>3, <1>5, <2>1
    <2> QED BY <1>1, <1>6, <2>2 DEF Precedes
  <1> QED BY <1>7

\* What Known knows beyond its own is some row's.
LEMMA KnownFromARow ==
    ASSUME NEW own, NEW R, NEW lists \in Seq(Seq(R)), NEW field, NEW n \in DOMAIN Known(own, lists, field)
    PROVE  IF n \in DOMAIN own THEN Known(own, lists, field)[n] = own[n]
           ELSE \E r \in R : r.opponent = n /\ r[field] # None /\ Known(own, lists, field)[n] = r[field]
  <1> DEFINE at == {p \in Places(lists) : PieceAt(lists, p).opponent = n /\ PieceAt(lists, p)[field] # None}
  <1>1. /\ n \in DOMAIN own \/ at # {}
        /\ Known(own, lists, field)[n]
             = IF n \in DOMAIN own THEN own[n] ELSE PieceAt(lists, First(lists, at))[field]
    BY DEF Known
  <1>2. CASE n \in DOMAIN own
    BY <1>1, <1>2
  <1>3. CASE n \notin DOMAIN own
    <2>1. at # {} /\ at \subseteq Places(lists)
      BY <1>1, <1>3
    <2>2. First(lists, at) \in at
      <3> HIDE DEF at
      <3> QED BY <2>1, FirstPlace DEF First
    <2>3. PieceAt(lists, First(lists, at)) \in R
      BY <2>2, PlaceOf
    <2> QED BY <1>1, <1>3, <2>2, <2>3
  <1> QED BY <1>2, <1>3

-----------------------------------------------------------------------------
(* The sides of a game *)

\* The games a team has played, a game from a team's side as the evidence and as
\* the block has it, and all of these.
GamesOf(t) == {g \in ScoredGames(db.games) : Plays(g, t)}
SideOf(g, t) == Side(t, OpponentResult(db, g, t))
RowSet == UNION {{OpponentResult(db, g, t) : t \in {g.home, g.away}} : g \in ScoredGames(db.games)}
SideSet == UNION {{SideOf(g, t) : t \in {g.home, g.away}} : g \in ScoredGames(db.games)}

\* A scored game is a scheduled one between two teams.
LEMMA GameFacts ==
    ASSUME Season(db.games), NEW g \in ScoredGames(db.games), NEW t, Plays(g, t)
    PROVE  LET u == OpponentOf(g, t) IN
           /\ g \in Schedule /\ g \in db.games /\ g.season_type \in {"regular", "postseason"}
           /\ u # t /\ Plays(g, u) /\ OpponentOf(g, u) = t /\ {g.home, g.away} = {t, u}
           /\ TeamScore(g, t) \in Int /\ TeamScore(g, u) \in Int
           /\ {TeamScore(g, t), TeamScore(g, u)} = {g.home_points, g.away_points}
  <1>1. g \in Schedule /\ g \in db.games
    BY DEF Season, ScoredGames
  <1>2. g.home # g.away /\ g.home_points \in Int /\ g.away_points \in Int
        /\ g.season_type \in {"regular", "postseason"}
    BY <1>1, GroundingAssumption
  <1> QED BY <1>1, <1>2 DEF Plays, OpponentOf, TeamScore

\* What a side says.
LEMMA SideFields ==
    ASSUME NEW g, NEW t
    PROVE  LET s == SideOf(g, t) u == OpponentOf(g, t) IN
           /\ s = [team |-> t, opponent |-> u, result |-> Result(TeamScore(g, t), TeamScore(g, u)),
                   team_score |-> TeamScore(g, t), opponent_score |-> TeamScore(g, u),
                   week |-> g.week, season_type |-> g.season_type,
                   venue |-> IF g.neutral_site THEN "neutral" ELSE IF g.home = t THEN "home" ELSE "away",
                   title_game |-> g.conference_championship, venue_reliable |-> GameVenueReliable(db, g)]
           /\ Key(s) = <<t, u, g.week, g.season_type>>
  BY DEF SideOf, Side, OpponentResult, Key

\* The mirror of a side is the other side.
LEMMA MirrorOfASide ==
    ASSUME Season(db.games), NEW g \in ScoredGames(db.games), NEW t, Plays(g, t)
    PROVE  Mirrored(SideOf(g, t)) = SideOf(g, OpponentOf(g, t))
  <1> DEFINE u == OpponentOf(g, t)
             own == TeamScore(g, t)
             other == TeamScore(g, u)
             venue(x) == IF g.neutral_site THEN "neutral" ELSE IF g.home = x THEN "home" ELSE "away"
             s == SideOf(g, t)
  <1>1. u # t /\ OpponentOf(g, u) = t /\ own \in Int /\ other \in Int /\ {g.home, g.away} = {t, u}
    BY GameFacts
  <1>2. Flip[Result(own, other)] = Result(other, own)
    BY <1>1 DEF Flip, Result
  <1>3. FlipVenue[venue(t)] = venue(u)
    BY <1>1 DEF FlipVenue
  <1>4. s = [team |-> t, opponent |-> u, result |-> Result(own, other),
             team_score |-> own, opponent_score |-> other, week |-> g.week,
             season_type |-> g.season_type, venue |-> venue(t),
             title_game |-> g.conference_championship, venue_reliable |-> GameVenueReliable(db, g)]
    BY SideFields
  <1>5. SideOf(g, u) = [team |-> u, opponent |-> t, result |-> Result(other, own),
             team_score |-> other, opponent_score |-> own, week |-> g.week,
             season_type |-> g.season_type, venue |-> venue(u),
             title_game |-> g.conference_championship, venue_reliable |-> GameVenueReliable(db, g)]
    BY <1>1, SideFields
  <1> HIDE DEF s, venue, own, other, u
  <1> DEFINE m == Mirrored(s)
  <1>6. /\ m = [s EXCEPT !.team = s.opponent, !.opponent = s.team, !.result = Flip[s.result],
                         !.team_score = s.opponent_score, !.opponent_score = s.team_score,
                         !.venue = FlipVenue[s.venue]]
        /\ s.team = t /\ s.opponent = u /\ s.result = Result(own, other)
        /\ s.team_score = own /\ s.opponent_score = other /\ s.venue = venue(t)
    BY <1>4 DEF Mirrored
  <1>7. DOMAIN s = {"team", "opponent", "result", "team_score", "opponent_score", "week",
                    "season_type", "venue", "title_game", "venue_reliable"}
    BY <1>4
  <1>8. /\ m.team = u /\ m.opponent = t /\ m.result = Result(other, own) /\ m.team_score = other
        /\ m.opponent_score = own /\ m.venue = venue(u)
    BY <1>2, <1>3, <1>6, <1>7
  <1>9. /\ m.week = s.week /\ m.season_type = s.season_type /\ m.title_game = s.title_game
        /\ m.venue_reliable = s.venue_reliable
    BY <1>6, <1>7
  <1>10. /\ s.week = g.week /\ s.season_type = g.season_type
         /\ s.title_game = g.conference_championship /\ s.venue_reliable = GameVenueReliable(db, g)
    BY <1>4
  <1>11. m = [k \in DOMAIN s |-> m[k]]
    BY <1>6
  <1> HIDE DEF m
  <1>12. m = [team |-> u, opponent |-> t, result |-> Result(other, own),
             team_score |-> other, opponent_score |-> own, week |-> g.week,
             season_type |-> g.season_type, venue |-> venue(u),
             title_game |-> g.conference_championship, venue_reliable |-> GameVenueReliable(db, g)]
    BY <1>7, <1>8, <1>9, <1>10, <1>11
  <1> QED BY <1>5, <1>12 DEF m, s, u

\* One game of a pair in a week: a key is one game's, from one side.
LEMMA KeyDecides ==
    ASSUME Season(db.games), NEW g \in ScoredGames(db.games), NEW h \in ScoredGames(db.games),
           NEW t, NEW u, Plays(g, t), Plays(h, u), Key(SideOf(g, t)) = Key(SideOf(h, u))
    PROVE  g = h /\ t = u
  <1>1. t = u /\ OpponentOf(g, t) = OpponentOf(h, u) /\ g.week = h.week /\ g.season_type = h.season_type
    BY SideFields
  <1>2. {g.home, g.away} = {h.home, h.away}
    BY <1>1, SidesOf
  <1>3. g \in Schedule /\ h \in Schedule /\ (g.id = h.id => g = h)
    BY DEF Season, ScoredGames
  <1> QED BY <1>1, <1>2, <1>3, GroundingAssumption

\* A side is some game's.
LEMMA SideIn ==
    ASSUME NEW s
    PROVE  s \in SideSet <=> \E g \in ScoredGames(db.games) : \E t : Plays(g, t) /\ s = SideOf(g, t)
  BY DEF SideSet, Plays

\* A block holds nothing but sides, and both sides of every row it is built from:
\* the dedupe drops only what is held already.
LEMMA HeldSides ==
    ASSUME Season(db.games), NEW lists \in Seq(Seq(SideSet))
    PROVE  /\ Held(lists) \subseteq SideSet
           /\ \A s \in Pieces(lists) : s \in Held(lists) /\ Mirrored(s) \in Held(lists)
  <1> DEFINE both(p) == {PieceAt(lists, p), Mirrored(PieceAt(lists, p))}
             new(p, s) == \A q \in Places(lists) :
                             Precedes(q, p) => \A h \in both(q) : Key(h) # Key(s)
  <1>1. ASSUME NEW s \in SideSet PROVE Mirrored(s) \in SideSet
    <2>1. PICK g \in ScoredGames(db.games) : \E t : Plays(g, t) /\ s = SideOf(g, t)
      BY SideIn
    <2>2. PICK t : Plays(g, t) /\ s = SideOf(g, t)
      BY <2>1
    <2>3. Mirrored(s) = SideOf(g, OpponentOf(g, t)) /\ Plays(g, OpponentOf(g, t))
      BY <2>2, MirrorOfASide, GameFacts
    <2> QED BY <2>3, SideIn
  <1>2. \A p \in Places(lists) : both(p) \subseteq SideSet
    BY <1>1, PlaceOf
  <1>3. Held(lists) = UNION {{s \in both(p) : new(p, s)} : p \in Places(lists)}
    BY DEF Held
  <1>4. ASSUME NEW s \in SideSet, NEW h \in SideSet, Key(s) = Key(h) PROVE s = h
    <2>1. PICK g \in ScoredGames(db.games) : \E t : Plays(g, t) /\ s = SideOf(g, t)
      BY SideIn
    <2>2. PICK t : Plays(g, t) /\ s = SideOf(g, t)
      BY <2>1
    <2>3. PICK k \in ScoredGames(db.games) : \E u : Plays(k, u) /\ h = SideOf(k, u)
      BY SideIn
    <2>4. PICK u : Plays(k, u) /\ h = SideOf(k, u)
      BY <2>3
    <2> QED BY <1>4, <2>2, <2>4, KeyDecides
  <1>5. ASSUME NEW p \in Places(lists), NEW s \in both(p) PROVE s \in Held(lists)
    <2> DEFINE at == {q \in Places(lists) : \E h \in both(q) : Key(h) = Key(s)}
    <2>1. p \in at /\ at \in SUBSET Places(lists)
      OBVIOUS
    <2>2. PICK q \in at : \A r \in at : ~Precedes(r, q)
      <3> HIDE DEF at
      <3> QED BY <2>1, FirstPlace
    <2>3. PICK h \in both(q) : Key(h) = Key(s)
      BY <2>2
    <2>4. q \in Places(lists) /\ s \in SideSet /\ h \in SideSet
      BY <1>2, <2>1, <2>3
    <2>5. h = s
      BY <1>4, <2>3, <2>4
    <2>6. new(q, s)
      BY <2>2
    <2> HIDE DEF new, both, at
    <2> QED BY <1>3, <2>3, <2>4, <2>5, <2>6
  <1>6. Held(lists) \subseteq SideSet
    <2> HIDE DEF both, new
    <2> QED BY <1>2, <1>3
  <1>7. \A p \in Places(lists) : PieceAt(lists, p) \in both(p) /\ Mirrored(PieceAt(lists, p)) \in both(p)
    OBVIOUS
  <1> HIDE DEF both, new
  <1> QED BY <1>5, <1>6, <1>7 DEF Pieces

-----------------------------------------------------------------------------
(* The rows of a case *)

\* A team's games as its case has them, and its opponents.
RowsOf(t) == {OpponentResult(db, g, t) : g \in GamesOf(t)}

\* They are rows of the season.
LEMMA RowsOfIn ==
    ASSUME NEW t
    PROVE  RowsOf(t) \subseteq RowSet
  BY DEF RowsOf, RowSet, GamesOf, Plays

\* A listing has each member once: as many places as members, of any part.
LEMMA CountPlaces ==
    ASSUME NEW S, IsFiniteSet(S), NEW w, Lists(w, S), NEW T \in SUBSET S
    PROVE  Cardinality({i \in 1 .. Cardinality(S) : w[i] \in T}) = Cardinality(T)
  <1> DEFINE n == Cardinality(S)
             D == {i \in 1 .. n : w[i] \in T}
             f == [i \in D |-> w[i]]
  <1>1. n \in Nat /\ \A x \in S : \E i \in 1 .. n : w[i] = x
    BY DEF Lists
  <1>2. \A i, j \in 1 .. n : w[i] = w[j] => i = j
    BY DEF Lists
  <1>3. IsFiniteSet(D)
    <2> HIDE DEF n
    <2>1. IsFiniteSet(1 .. n)
      BY <1>1, FS_Interval
    <2> QED BY <2>1, FS_Subset
  <1> HIDE DEF n
  <1>4. f \in [D -> T] /\ \A i, j \in D : f[i] = f[j] => i = j
    BY <1>2
  <1>5. \A x \in T : \E i \in D : f[i] = x
    BY <1>1
  <1> HIDE DEF D, f
  <1>6. Cardinality(T) = Cardinality(D)
    BY <1>3, <1>4, <1>5, SameSize
  <1> QED BY <1>6 DEF D, n

\* A case's games are the team's, in the order they were played.
LEMMA ResultRows ==
    ASSUME Season(db.games), NEW t
    PROVE  LET walk == TeamGames(db, t) r == Results(db, t) n == Cardinality(GamesOf(t)) IN
           /\ IsFiniteSet(GamesOf(t)) /\ Lists(walk, GamesOf(t))
           /\ \A i, j \in 1 .. n : i < j => Before(walk[i], walk[j])
           /\ r \in Seq(RowsOf(t)) /\ Len(r) = n
           /\ \A i \in 1 .. n : r[i] = OpponentResult(db, walk[i], t)
  <1> DEFINE walk == TeamGames(db, t)
             r == Results(db, t)
             n == Cardinality(GamesOf(t))
  <1>1. walk = Chronological(GamesOf(t))
    <2>1. GamesOf(t) = {g \in Completed(db) : Scored(g) /\ Plays(g, t)}
      BY DEF GamesOf, ScoredGames, Completed
    <2> QED BY <2>1 DEF TeamGames
  <1>2. Season(GamesOf(t))
    BY DEF Season, GamesOf, ScoredGames
  <1>3. IsFiniteSet(GamesOf(t))
    BY <1>2, GroundingAssumption, FS_Subset DEF Season
  <1>4. Lists(walk, GamesOf(t)) /\ \A i, j \in 1 .. n : i < j => Before(walk[i], walk[j])
    BY <1>1, <1>2, ChronologicalWalks
  <1>5. n \in Nat /\ walk \in [1 .. n -> GamesOf(t)]
    BY <1>4 DEF Lists
  <1>6. r = [i \in 1 .. n |-> OpponentResult(db, walk[i], t)]
    <2> HIDE DEF walk, n
    <2> QED BY <1>5 DEF Results, walk
  <1> HIDE DEF walk, n
  <1>7. \A i \in 1 .. n : OpponentResult(db, walk[i], t) \in RowsOf(t)
    BY <1>5 DEF RowsOf
  <1>8. r \in Seq(RowsOf(t)) /\ Len(r) = n /\ \A i \in 1 .. n : r[i] = OpponentResult(db, walk[i], t)
    <2> HIDE DEF r
    <2> QED BY <1>5, <1>6, <1>7
  <1> QED BY <1>3, <1>4, <1>8 DEF walk, n

\* A block's sides of a case's rows are sides of the games.
LEMMA SidesOfRows ==
    ASSUME NEW t, NEW rows \in Seq(RowsOf(t))
    PROVE  /\ Sides(t, rows) \in Seq(SideSet) /\ Len(Sides(t, rows)) = Len(rows)
           /\ \A i \in 1 .. Len(rows) : Sides(t, rows)[i] = Side(t, rows[i])
  <1>1. Sides(t, rows) = [i \in 1 .. Len(rows) |-> Side(t, rows[i])] /\ Len(rows) \in Nat
    BY DEF Sides
  <1>2. ASSUME NEW i \in 1 .. Len(rows) PROVE Side(t, rows[i]) \in SideSet
    <2>1. PICK g \in GamesOf(t) : rows[i] = OpponentResult(db, g, t)
      BY DEF RowsOf
    <2> QED BY <2>1, SideIn DEF GamesOf, SideOf
  <1> QED BY <1>1, <1>2

\* The opponents of a case's games are the team's.
LEMMA FacedOpponents ==
    ASSUME Season(db.games), NEW t
    PROVE  Faced(Results(db, t)) = Opponents(t)
  <1> DEFINE walk == TeamGames(db, t)
             r == Results(db, t)
             n == Cardinality(GamesOf(t))
  <1>1. /\ Lists(walk, GamesOf(t)) /\ r \in Seq(RowsOf(t)) /\ Len(r) = n
        /\ \A i \in 1 .. n : r[i] = OpponentResult(db, walk[i], t)
    BY ResultRows
  <1>2. DOMAIN r = 1 .. n /\ \A i \in 1 .. n : walk[i] \in GamesOf(t)
    BY <1>1 DEF Lists
  <1>3. \A g \in GamesOf(t) : \E i \in 1 .. n : walk[i] = g
    BY <1>1 DEF Lists
  <1> HIDE DEF walk, r, n
  <1>4. \A i \in 1 .. n : r[i].opponent = OpponentOf(walk[i], t)
    BY <1>1 DEF OpponentResult
  <1>5. Faced(r) = {OpponentOf(g, t) : g \in GamesOf(t)}
    BY <1>2, <1>3, <1>4 DEF Faced
  <1> QED BY <1>5 DEF Opponents, GamesOf, r

\* The meetings with one opponent are all of them.
LEMMA MeetingRows ==
    ASSUME NEW t, NEW rows \in Seq(RowsOf(t)), NEW u
    PROVE  LET m == MeetingsByOpponent(rows, u) IN
           /\ m \in Seq(RowsOf(t))
           /\ \A i \in 1 .. Len(m) : m[i].opponent = u
           /\ \A p \in 1 .. Len(rows) : rows[p].opponent = u => \E i \in 1 .. Len(m) : m[i] = rows[p]
  <1> DEFINE places == {i \in DOMAIN rows : rows[i].opponent = u}
             m == MeetingsByOpponent(rows, u)
  <1>1. places \in SUBSET (DOMAIN rows) /\ m = Kept(rows, places) /\ DOMAIN rows = 1 .. Len(rows)
    BY DEF MeetingsByOpponent
  <1> HIDE DEF places, m
  <1>2. /\ m \in Seq(RowsOf(t))
        /\ \A i \in 1 .. Len(m) : \E p \in places : m[i] = rows[p]
        /\ \A p \in places : \E i \in 1 .. Len(m) : m[i] = rows[p]
    BY <1>1, KeptRows
  <1>3. \A p \in places : rows[p].opponent = u
    BY DEF places
  <1>4. \A p \in 1 .. Len(rows) : rows[p].opponent = u => p \in places
    BY <1>1 DEF places
  <1> QED BY <1>2, <1>3, <1>4 DEF m

\* The worst loss is one of the rows.
LEMMA WorstLossRows ==
    ASSUME NEW t, NEW rows \in Seq(RowsOf(t))
    PROVE  WorstLoss(rows) \in Seq(RowsOf(t))
  <1> DEFINE losses == {i \in DOMAIN rows : rows[i].result = "L"}
             less(i, j) == LexLess(LossKey(rows[i]), LossKey(rows[j]))
             places == {i \in losses : \A j \in losses : ~less(i, j) /\ (j < i => less(j, i))}
  <1>1. places \in SUBSET (DOMAIN rows) /\ WorstLoss(rows) = Kept(rows, places)
    BY DEF WorstLoss
  <1> HIDE DEF places
  <1> QED BY <1>1, KeptRows

\* Sorting rows by their opponents' ranks keeps them.
LEMMA SortedByRank ==
    ASSUME \A u : Rank(db, u) \in Int, NEW t, NEW rows \in Seq(RowsOf(t))
    PROVE  LET sorted == SortedBy(rows, [i \in DOMAIN rows |-> <<rows[i].opponent_rank>>]) IN
           sorted \in Seq(RowsOf(t)) /\ Len(sorted) = Len(rows)
  <1> DEFINE keys == [i \in DOMAIN rows |-> <<rows[i].opponent_rank>>]
  <1>1. \A o \in RowsOf(t) : o.opponent_rank \in Int
    BY DEF RowsOf, OpponentResult
  <1>2. /\ \A i \in 1 .. Len(rows) : keys[i] \in Seq(Int)
        /\ \A i, j \in 1 .. Len(rows) : Len(keys[i]) = Len(keys[j])
    BY <1>1
  <1> HIDE DEF keys
  <1>3. SortedBy(rows, keys) \in Seq(RowsOf(t)) /\ Len(SortedBy(rows, keys)) = Len(rows)
    BY <1>2, SortedRows
  <1> QED BY <1>3 DEF keys

\* The quality wins are rows, as many as there are games that are one.
LEMMA QualityWinRows ==
    ASSUME Season(db.games), \A u : Rank(db, u) \in Int, NEW t
    PROVE  LET wins == QualityWins(Results(db, t)) IN
           /\ wins \in Seq(RowsOf(t))
           /\ Len(wins) = Cardinality({g \in GamesOf(t) : IsQualityWin(OpponentResult(db, g, t))})
  <1> DEFINE walk == TeamGames(db, t)
             r == Results(db, t)
             n == Cardinality(GamesOf(t))
             places == {i \in DOMAIN r : IsQualityWin(r[i])}
             kept == Kept(r, places)
             keys == [i \in DOMAIN kept |-> <<kept[i].opponent_rank>>]
             good == {g \in GamesOf(t) : IsQualityWin(OpponentResult(db, g, t))}
  <1>1. /\ IsFiniteSet(GamesOf(t)) /\ Lists(walk, GamesOf(t)) /\ r \in Seq(RowsOf(t)) /\ Len(r) = n
        /\ \A i \in 1 .. n : r[i] = OpponentResult(db, walk[i], t)
    BY ResultRows
  <1>2. DOMAIN r = 1 .. n /\ \A i \in 1 .. n : walk[i] \in GamesOf(t)
    BY <1>1 DEF Lists
  <1>3. QualityWins(r) = SortedBy(kept, keys)
    BY DEF QualityWins
  <1>4. places = {i \in 1 .. n : walk[i] \in good}
    <2> HIDE DEF walk, r, n
    <2> QED BY <1>1, <1>2
  <1>5. Cardinality(places) = Cardinality(good)
    <2>1. good \in SUBSET GamesOf(t)
      OBVIOUS
    <2> HIDE DEF good, walk, places
    <2> QED BY <1>1, <1>4, <2>1, CountPlaces
  <1>6. kept \in Seq(RowsOf(t)) /\ Len(kept) = Cardinality(places)
    <2>1. places \in SUBSET (DOMAIN r)
      OBVIOUS
    <2> HIDE DEF places, r
    <2> QED BY <1>1, <2>1, KeptRows
  <1> HIDE DEF kept, r, places, good, walk, n
  <1>7. SortedBy(kept, keys) \in Seq(RowsOf(t)) /\ Len(SortedBy(kept, keys)) = Len(kept)
    BY <1>6, SortedByRank
  <1> QED BY <1>3, <1>5, <1>6, <1>7 DEF good, r

-----------------------------------------------------------------------------
(* The season a verdict is asked of *)

\* The block is what the database gave, and the database has not changed since:
\* games and ratings stop while a verdict is open.  Every stored game's neutral
\* flag is as right as the source's is.
Asked ==
    block # <<>> =>
        \/ \E t \in Rated : block = <<TeamCaseBlock(db.season, TeamCase(db, t))>>
        \/ \E a, b \in Rated : a # b /\ block = <<ComparisonBlock(db.season, Comparison(db, a, b))>>
GroundInv ==
    /\ LedgerInv
    /\ Season(seen)
    /\ db.season \in Int
    /\ \A g \in db.games : FlagIsRight(g)
    /\ Asked

\* Nothing is asked of an empty season.
LEMMA GroundInvInit == GroundingInit => GroundInv
  <1> SUFFICES ASSUME GroundingInit PROVE GroundInv
    OBVIOUS
  <1>1. LedgerInv
    BY LedgerInvInit
  <1>2. Season(seen) /\ block = <<>> /\ db.games = {}
    BY DEF GroundingInit, Season
  <1>3. db.season \in Int
    BY GroundingAssumption DEF GroundingInit
  <1> QED BY <1>1, <1>2, <1>3 DEF GroundInv, Asked

\* Ingest stores a game with a right flag, rating sees what is stored, and
\* neither happens while a verdict is open.
LEMMA GroundInvNext == GroundInv /\ [GroundingNext]_gvars => GroundInv'
  <1> SUFFICES ASSUME GroundInv, [GroundingNext]_gvars PROVE GroundInv'
    OBVIOUS
  <1>1. LedgerInv'
    BY LedgerInvNext DEF GroundInv
  <1>2. CASE PlayGame
    <2>1. PICK g \in Schedule : FlagIsRight(g) /\ db' = [db EXCEPT !.games = @ \cup {g}]
      BY <1>2 DEF PlayGame
    <2>2. db'.games = db.games \cup {g} /\ db'.season = db.season
      BY <2>1 DEF GroundInv, LedgerInv, Fields
    <2>3. \A h \in db'.games : FlagIsRight(h)'
      BY <2>1, <2>2 DEF GroundInv, FlagIsRight
    <2>4. block' = <<>> /\ seen' = seen
      BY <1>2 DEF PlayGame
    <2> QED BY <1>1, <2>2, <2>3, <2>4 DEF GroundInv, Asked, Season
  <1>3. CASE Rate
    <2>1. PICK strength \in Strengths : db' = Rerated(strength)
      BY <1>3 DEF Rate
    <2>2. db'.games = db.games /\ db'.season = db.season
      BY <2>1 DEF Rerated, GroundInv, LedgerInv, Fields
    <2>3. \A h \in db'.games : FlagIsRight(h)'
      BY <2>2 DEF GroundInv, FlagIsRight
    <2>4. block' = <<>> /\ seen' = db.games
      BY <1>3 DEF Rate
    <2>5. Season(seen')
      BY <2>4 DEF GroundInv, LedgerInv
    <2> QED BY <1>1, <2>2, <2>3, <2>4, <2>5 DEF GroundInv, Asked, Season
  <1>4. CASE AskTeamCase
    <2>1. PICK t \in Rated : block' = <<TeamCaseBlock(db.season, TeamCase(db, t))>>
      BY <1>4 DEF AskTeamCase
    <2>2. db' = db /\ seen' = seen
      BY <1>4 DEF AskTeamCase
    <2>3. Asked'
      BY <2>1, <2>2 DEF Asked, Rated
    <2> QED BY <1>1, <2>2, <2>3 DEF GroundInv, Season, FlagIsRight
  <1>5. CASE AskComparison
    <2>1. PICK a \in Rated, b \in Rated :
             a # b /\ block' = <<ComparisonBlock(db.season, Comparison(db, a, b))>>
      BY <1>5 DEF AskComparison
    <2>2. db' = db /\ seen' = seen
      BY <1>5 DEF AskComparison
    <2>3. Asked'
      BY <2>1, <2>2 DEF Asked, Rated
    <2> QED BY <1>1, <2>2, <2>3 DEF GroundInv, Season, FlagIsRight
  <1>6. CASE Write \/ Submit \/ UNCHANGED gvars
    <2>1. db' = db /\ seen' = seen /\ block' = block
      BY <1>6 DEF Write, Submit, gvars
    <2>2. Asked'
      BY <2>1 DEF GroundInv, Asked, Rated
    <2> QED BY <1>1, <2>1, <2>2 DEF GroundInv, Season, FlagIsRight
  <1> QED BY <1>2, <1>3, <1>4, <1>5, <1>6 DEF GroundingNext

-----------------------------------------------------------------------------
(* The ratings *)

\* The teams rated of a season are finitely many.
LEMMA FinitelyRated ==
    ASSUME NEW games, Season(games)
    PROVE  IsFiniteSet(RatedTeams(games))
  <1> DEFINE homes == {g.home : g \in games}
             aways == {g.away : g \in games}
             home == [g \in games |-> g.home]
             away == [g \in games |-> g.away]
  <1>1. IsFiniteSet(games)
    BY GroundingAssumption, FS_Subset DEF Season
  <1>2. home \in Surjection(games, homes) /\ away \in Surjection(games, aways)
    BY DEF Surjection
  <1> HIDE DEF home, away, homes, aways
  <1>3. IsFiniteSet(homes) /\ IsFiniteSet(aways)
    BY <1>1, <1>2, FS_Surjection
  <1>4. IsFiniteSet(homes \cup aways)
    BY <1>3, FS_Union
  <1>5. RatedTeams(games) \subseteq homes \cup aways
    BY DEF RatedTeams, ScoredGames, Plays, homes, aways
  <1> QED BY <1>4, <1>5, FS_Subset

\* A stored rank counts the teams ranked before it, and none of them is rated
\* less.
LEMMA RankedRows ==
    ASSUME LedgerInv, Season(seen), NEW t \in Rated
    PROVE  LET rank(u) == db.ratings[u].rank rating(u) == db.ratings[u].rating IN
           /\ rank(t) \in Nat /\ rank(t) > 0 /\ rating(t) \in Int
           /\ \A u \in Rated : rank(u) \in Nat /\ (rating(u) > rating(t) => rank(u) < rank(t))
           /\ rank(t) = 1 + Cardinality({u \in Rated : rank(u) < rank(t)})
  <1> DEFINE R == RatedTeams(seen)
             rank(u) == db.ratings[u].rank
             rating(u) == db.ratings[u].rating
  <1>1. Rated # {}
    OBVIOUS
  <1>2. PICK strength \in Strengths :
            db.ratings = [u \in R |-> RatingRow(seen, strength, u)]
    BY <1>1 DEF LedgerInv, Stored, RatingsOf, Rated
  <1> DEFINE order == {p \in R \X R : \/ strength[p[1]] > strength[p[2]]
                                      \/ strength[p[1]] = strength[p[2]] /\ p[1] < p[2]}
             earlier(x) == {y \in R : <<y, x>> \in order}
  <1>3. Rated = R
    BY <1>2 DEF Rated
  <1>4. \A u \in R : u \in Int /\ strength[u] \in Int
    <2>1. R \subseteq Displayed
      BY DEF RatedTeams
    <2> HIDE DEF R
    <2> QED BY <2>1, GroundingAssumption
  <1>5. \A u \in R : rating(u) = strength[u] /\ rank(u) = 1 + Cardinality(earlier(u))
    <2>1. TAKE u \in R
    <2>2. db.ratings[u] = RatingRow(seen, strength, u)
      BY <1>2
    <2>3. earlier(u) = {x \in R : \/ strength[x] > strength[u]
                                  \/ strength[x] = strength[u] /\ x < u}
      <3> HIDE DEF R
      <3> QED OBVIOUS
    <2> HIDE DEF earlier
    <2> QED BY <2>2, <2>3 DEF RatingRow
  <1>6. IsFiniteSet(R)
    BY FinitelyRated
  <1> HIDE DEF R
  <1>7. StrictOn(R, order)
    BY <1>4 DEF StrictOn
  <1>8. \A u \in R : Cardinality(earlier(u)) \in Nat
    <2>1. \A u \in R : Cardinality(earlier(u)) \in 0 .. (Cardinality(R) - 1)
      BY <1>6, <1>7, EarlierCounts
    <2> HIDE DEF earlier
    <2> QED BY <2>1
  <1>9. \A x, y \in R : <<x, y>> \in order => Cardinality(earlier(x)) < Cardinality(earlier(y))
    BY <1>6, <1>7, EarlierCounts
  <1>10. ASSUME NEW u \in R PROVE <<u, t>> \in order <=> rank(u) < rank(t)
    <2>1. t \in R
      BY <1>3
    <2>2. <<u, t>> \in order => Cardinality(earlier(u)) < Cardinality(earlier(t))
      BY <1>9, <2>1
    <2>3. u # t => <<u, t>> \in order \/ Cardinality(earlier(t)) < Cardinality(earlier(u))
      <3>1. u # t => <<u, t>> \in order \/ <<t, u>> \in order
        BY <1>7, <2>1 DEF StrictOn
      <3>2. <<t, u>> \in order => Cardinality(earlier(t)) < Cardinality(earlier(u))
        BY <1>9, <2>1
      <3> QED BY <3>1, <3>2
    <2>4. <<t, t>> \notin order
      BY <1>7, <2>1 DEF StrictOn
    <2>5. Cardinality(earlier(u)) \in Nat /\ Cardinality(earlier(t)) \in Nat
          /\ rank(u) = 1 + Cardinality(earlier(u)) /\ rank(t) = 1 + Cardinality(earlier(t))
      BY <1>5, <1>8, <2>1
    <2> HIDE DEF earlier, order, rank
    <2> QED BY <2>2, <2>3, <2>4, <2>5
  <1>11. {u \in Rated : rank(u) < rank(t)} = earlier(t)
    BY <1>3, <1>10
  <1>12. \A u \in R : rating(u) > rating(t) => rank(u) < rank(t)
    <2>1. TAKE u \in R
    <2>2. t \in R /\ (strength[u] > strength[t] => <<u, t>> \in order)
      BY <1>3
    <2>3. rating(u) = strength[u] /\ rating(t) = strength[t]
      BY <1>5, <2>2
    <2> HIDE DEF order, rating, rank
    <2> QED BY <1>10, <2>2, <2>3
  <1>13. \A u \in R : rank(u) \in Nat /\ rank(u) > 0 /\ rating(u) \in Int
    <2> HIDE DEF earlier, rating, rank
    <2> QED BY <1>4, <1>5, <1>8
  <1>14. rank(t) = 1 + Cardinality({u \in Rated : rank(u) < rank(t)})
    BY <1>3, <1>5, <1>11
  <1> HIDE DEF order, earlier
  <1> QED BY <1>3, <1>12, <1>13, <1>14

\* An unrated team has no rank.
LEMMA RanksAreNumbers ==
    ASSUME LedgerInv, Season(seen)
    PROVE  \A u : Rank(db, u) \in Int
  <1>1. \A u \in Rated : db.ratings[u].rank \in Int
    <2>1. TAKE u \in Rated
    <2>2. db.ratings[u].rank \in Nat
      BY RankedRows
    <2> QED BY <2>2
  <1> QED BY <1>1 DEF Rank, Rated, None

\* A record counts the games that had been seen.
LEMMA RecordRows ==
    ASSUME LedgerInv, Season(seen), NEW t \in Rated
    PROVE  /\ db.ratings[t].wins = Cardinality(With(seen, t, "W"))
           /\ db.ratings[t].losses = Cardinality(With(seen, t, "L"))
           /\ db.ratings[t].ties = Cardinality(With(seen, t, "T"))
           /\ IsFiniteSet(With(seen, t, "T"))
  <1>1. PICK strength \in Strengths :
            db.ratings = [u \in RatedTeams(seen) |-> RatingRow(seen, strength, u)]
    BY DEF LedgerInv, Stored, RatingsOf, Rated
  <1>2. db.ratings[t] = RatingRow(seen, strength, t)
    BY <1>1 DEF Rated
  <1>3. IsFiniteSet(seen) /\ With(seen, t, "T") \subseteq seen
    BY GroundingAssumption, FS_Subset DEF Season, With, ScoredGames
  <1>4. IsFiniteSet(With(seen, t, "T"))
    BY <1>3, FS_Subset
  <1> QED BY <1>2, <1>4 DEF RatingRow

-----------------------------------------------------------------------------
(* The common opponents *)

\* The teams both have met, but themselves, and what a comparison says of one.
CommonSet(a, b) == (Opponents(a) \cap Opponents(b)) \ {a, b}
CommonRow(a, b, u) ==
    [opponent |-> u, opponent_rank |-> MeetingsByOpponent(Results(db, a), u)[1].opponent_rank,
     team_a_meetings |-> MeetingsByOpponent(Results(db, a), u),
     team_b_meetings |-> MeetingsByOpponent(Results(db, b), u)]

\* A set written as a sequence has each member once.
LEMMA SetToSeqLists ==
    ASSUME NEW S, IsFiniteSet(S)
    PROVE  /\ SetToSeq(S) \in Seq(S) /\ Len(SetToSeq(S)) = Cardinality(S)
           /\ \A x \in S : \E i \in 1 .. Cardinality(S) : SetToSeq(S)[i] = x
  <1> DEFINE n == Cardinality(S)
             f == SetToSeq(S)
  <1>1. n \in Nat /\ \E g : g \in Bijection(1 .. n, S)
    BY FS_CardinalityType DEF ExistsBijection
  <1>2. \E g \in [1 .. n -> S] : IsInjective(g)
    BY <1>1 DEF Bijection, Injection
  <1>3. f \in [1 .. n -> S] /\ IsInjective(f)
    BY <1>2 DEF SetToSeq
  <1> HIDE DEF f
  <1>4. IsFiniteSet(1 .. n) /\ Cardinality(1 .. n) = n
    <2> HIDE DEF n
    <2> QED BY <1>1, FS_Interval
  <1>5. f \in Injection(1 .. n, S)
    BY <1>3 DEF Injection
  <1>6. f \in Surjection(1 .. n, S)
    BY <1>4, <1>5, FS_Injection
  <1>7. \A x \in S : \E i \in 1 .. n : f[i] = x
    BY <1>6 DEF Surjection
  <1> HIDE DEF n
  <1>8. f \in Seq(S) /\ Len(f) = n
    BY <1>1, <1>3
  <1> QED BY <1>7, <1>8 DEF f, n

\* A team's opponents are finitely many.
LEMMA FiniteOpponents ==
    ASSUME Season(db.games), NEW t
    PROVE  IsFiniteSet(Opponents(t))
  <1> DEFINE f == [g \in GamesOf(t) |-> OpponentOf(g, t)]
  <1>1. IsFiniteSet(GamesOf(t))
    BY ResultRows
  <1>2. f \in Surjection(GamesOf(t), Opponents(t))
    BY DEF Surjection, Opponents, GamesOf
  <1> HIDE DEF f
  <1> QED BY <1>1, <1>2, FS_Surjection

\* What a common row holds: its team's stored rank, and the two lists of meetings.
LEMMA CommonRowFacts ==
    ASSUME Season(db.games), NEW a, NEW b, NEW u \in CommonSet(a, b)
    PROVE  LET row == CommonRow(a, b, u) IN
           /\ row.opponent = u /\ row.opponent_rank = Rank(db, u)
           /\ row.team_a_meetings = MeetingsByOpponent(Results(db, a), u)
           /\ row.team_b_meetings = MeetingsByOpponent(Results(db, b), u)
  <1> DEFINE r == Results(db, a)
             m == MeetingsByOpponent(r, u)
  <1>1. r \in Seq(RowsOf(a))
    BY ResultRows
  <1>2. u \in Faced(r)
    BY FacedOpponents DEF CommonSet
  <1> HIDE DEF r
  <1>3. PICK p \in 1 .. Len(r) : r[p].opponent = u
    BY <1>1, <1>2 DEF Faced
  <1>4. /\ m \in Seq(RowsOf(a)) /\ \A i \in 1 .. Len(m) : m[i].opponent = u
        /\ \E i \in 1 .. Len(m) : m[i] = r[p]
    BY <1>1, <1>3, MeetingRows
  <1> HIDE DEF m
  <1>5. 1 \in 1 .. Len(m) /\ m[1] \in RowsOf(a)
    BY <1>4
  <1>6. m[1].opponent = u
    BY <1>4, <1>5
  <1>7. m[1].opponent_rank = Rank(db, m[1].opponent)
    BY <1>5 DEF RowsOf, OpponentResult
  <1> QED BY <1>6, <1>7 DEF CommonRow, m, r

\* A comparison has one row for each common opponent.
LEMMA CommonRows ==
    ASSUME Season(db.games), \A u : Rank(db, u) \in Int, NEW a, NEW b
    PROVE  LET common == CommonOpponents(TeamCase(db, a), TeamCase(db, b))
               S == {CommonRow(a, b, u) : u \in CommonSet(a, b)} IN
           /\ common \in Seq(S) /\ Len(common) = Cardinality(CommonSet(a, b))
           /\ \A u \in CommonSet(a, b) : \E i \in 1 .. Len(common) : common[i] = CommonRow(a, b, u)
  <1> DEFINE U == CommonSet(a, b)
             S == {CommonRow(a, b, u) : u \in U}
             list == SetToSeq(S)
             byloss == [i \in DOMAIN list |-> LossKey(list[i])]
             f == [u \in U |-> CommonRow(a, b, u)]
  <1>1. /\ TeamCase(db, a).team_name = a /\ TeamCase(db, a).games = Results(db, a)
        /\ TeamCase(db, b).team_name = b /\ TeamCase(db, b).games = Results(db, b)
    BY DEF TeamCase
  <1>2. (Faced(Results(db, a)) \cap Faced(Results(db, b))) \ {a, b} = U
    BY FacedOpponents DEF CommonSet
  <1>3. CommonOpponents(TeamCase(db, a), TeamCase(db, b)) = SortedBy(list, byloss)
    BY <1>1, <1>2, Zenon DEF CommonOpponents, CommonRow
  <1>4. IsFiniteSet(U)
    <2>1. IsFiniteSet(Opponents(a)) /\ U \in SUBSET Opponents(a)
      BY FiniteOpponents DEF CommonSet
    <2> QED BY <2>1, FS_Subset
  <1>5. f \in [U -> S] /\ \A z \in S : \E u \in U : f[u] = z
    OBVIOUS
  <1>6. \A u, v \in U : f[u] = f[v] => u = v
    BY CommonRowFacts
  <1> HIDE DEF f
  <1>7. IsFiniteSet(S) /\ Cardinality(S) = Cardinality(U)
    <2> HIDE DEF U, S
    <2> QED BY <1>4, <1>5, <1>6, SameSize
  <1>8. \A x \in S : x.opponent_rank \in Int
    BY CommonRowFacts
  <1>9. \A x \in S : LossKey(x) \in Seq(Int) /\ Len(LossKey(x)) = 2
    <2>1. TAKE x \in S
    <2>2. Max({0, x.opponent_rank}) \in Int
      <3>1. 0 \in {0, x.opponent_rank} /\ {0, x.opponent_rank} \subseteq Int
        BY <1>8
      <3>2. \E m \in {0, x.opponent_rank} : \A k \in {0, x.opponent_rank} : m >= k
        <4>1. x.opponent_rank \in Int
          BY <1>8
        <4> HIDE DEF S
        <4> QED BY <4>1
      <3> QED BY <3>1, <3>2 DEF Max
    <2> QED BY <2>2 DEF LossKey, Flag
  <1> HIDE DEF S
  <1>10. /\ list \in Seq(S) /\ Len(list) = Cardinality(S)
         /\ \A x \in S : \E i \in 1 .. Cardinality(S) : list[i] = x
    BY <1>7, SetToSeqLists
  <1> HIDE DEF list
  <1>11. /\ \A i \in 1 .. Len(list) : byloss[i] \in Seq(Int)
         /\ \A i, j \in 1 .. Len(list) : Len(byloss[i]) = Len(byloss[j])
    BY <1>9, <1>10
  <1> HIDE DEF byloss
  <1> DEFINE made == SortedBy(list, byloss)
  <1>12. /\ made \in Seq(S) /\ Len(made) = Len(list)
         /\ \A p \in 1 .. Len(list) : \E i \in 1 .. Len(list) : made[i] = list[p]
    <2>1. list \in Seq(S)
      BY <1>10
    <2>2. \A i \in 1 .. Len(list) : byloss[i] \in Seq(Int)
      BY <1>11
    <2>3. \A i, j \in 1 .. Len(list) : Len(byloss[i]) = Len(byloss[j])
      BY <1>11
    <2>4. made \in Seq(S)
      BY <2>1, <2>2, <2>3, SortedRows
    <2>5. Len(made) = Len(list)
      BY <2>1, <2>2, <2>3, SortedRows
    <2>6. \A p \in 1 .. Len(list) : \E i \in 1 .. Len(list) : made[i] = list[p]
      BY <2>1, <2>2, <2>3, SortedRows
    <2> HIDE DEF made
    <2> QED BY <2>4, <2>5, <2>6
  <1> HIDE DEF made
  <1>13. \A x \in S : \E i \in 1 .. Len(made) : made[i] = x
    BY <1>10, <1>12
  <1>14. \A u \in U : \E i \in 1 .. Len(made) : made[i] = CommonRow(a, b, u)
    BY <1>13 DEF S
  <1> QED BY <1>3, <1>7, <1>10, <1>12, <1>14 DEF S, made

-----------------------------------------------------------------------------
(* What a block holds *)

\* The games of a block are sides of games, and it holds every game of a pair
\* whose meetings it counts.
GamesAreSides(b) == b.games \subseteq SideSet
MeetingsAreHeld(b) ==
    \A t, u : t # u /\ HoldsEveryMeeting(b, t, u)
                => \A g \in Against(db.games, t, u) : SideOf(g, t) \in b.games
\* A subject is a rated team; its rating, its record and its ranked wins are the
\* stored ones, and a team case has all its games.
SubjectsAreRated(b) ==
    \A t \in Subjects(b) :
        LET s == b.subjects[t] row == db.ratings[t] IN
        /\ t \in Rated /\ s.rating = row.rating
        /\ s.wins = row.wins /\ s.losses = row.losses /\ s.ties = row.ties
        /\ s.quality_wins = Cardinality({g \in GamesOf(t) : IsQualityWin(OpponentResult(db, g, t))})
        /\ s.games = IF b.comparison THEN <<>> ELSE Sides(t, Results(db, t))
\* Whatever row a rank or a rating was read from, it is its team's.
RanksAreStored(b) ==
    /\ \A n \in DOMAIN b.ranks : n \in Rated /\ b.ranks[n] = db.ratings[n].rank
    /\ \A n \in DOMAIN b.ratings : n \in Rated /\ b.ratings[n] = db.ratings[n].rating
\* A comparison counts the common opponents of its two subjects.
CommonIsCounted(b) ==
    b.common_opponents # None
        => \E a, c : Subjects(b) = {a, c} /\ b.common_opponents = Cardinality(CommonSet(a, c))

\* What TeamCase reads, for a team.
LEMMA CaseRows ==
    ASSUME Season(db.games), \A u : Rank(db, u) \in Int, NEW t
    PROVE  LET case == TeamCase(db, t) row == db.ratings[t] IN
           /\ case.team_name = t /\ case.rank = row.rank /\ case.rating = row.rating
           /\ case.wins = row.wins /\ case.losses = row.losses /\ case.ties = row.ties
           /\ case.games = Results(db, t) /\ case.games \in Seq(RowsOf(t))
           /\ case.quality_wins \in Seq(RowsOf(t)) /\ case.worst_loss \in Seq(RowsOf(t))
           /\ Len(case.quality_wins)
                = Cardinality({g \in GamesOf(t) : IsQualityWin(OpponentResult(db, g, t))})
  <1> DEFINE case == TeamCase(db, t)
             row == db.ratings[t]
             r == Results(db, t)
  <1>1. /\ case.team_name = t /\ case.rank = row.rank /\ case.rating = row.rating
        /\ case.wins = row.wins /\ case.losses = row.losses /\ case.ties = row.ties
        /\ case.games = r /\ case.quality_wins = QualityWins(r) /\ case.worst_loss = WorstLoss(r)
    BY DEF TeamCase
  <1>2. r \in Seq(RowsOf(t))
    BY ResultRows
  <1> HIDE DEF case, r
  <1>3. WorstLoss(r) \in Seq(RowsOf(t))
    BY <1>2, WorstLossRows
  <1>4. /\ QualityWins(r) \in Seq(RowsOf(t))
        /\ Len(QualityWins(r))
             = Cardinality({g \in GamesOf(t) : IsQualityWin(OpponentResult(db, g, t))})
    BY QualityWinRows DEF r
  <1> QED BY <1>1, <1>2, <1>3, <1>4 DEF case, r

\* The subject's own rows are sides of its games.
LEMMA SubjectSides ==
    ASSUME NEW t, NEW case, case.quality_wins \in Seq(RowsOf(t)), case.worst_loss \in Seq(RowsOf(t))
    PROVE  SubjectLists(t, case) \in Seq(Seq(SideSet))
  <1>1. Sides(t, case.quality_wins) \in Seq(SideSet) /\ Sides(t, case.worst_loss) \in Seq(SideSet)
    BY SidesOfRows
  <1> DEFINE S == Seq(SideSet)
             p == Sides(t, case.quality_wins)
             q == Sides(t, case.worst_loss)
  <1>2. <<p, q>> \in Seq(S)
    <2>1. p \in S /\ q \in S
      BY <1>1
    <2> HIDE DEF S, p, q
    <2> QED BY <2>1
  <1> QED BY <1>2 DEF SubjectLists

\* Once one side of a game is a row, either side is held.
LEMMA EitherSideHeld ==
    ASSUME Season(db.games), NEW lists \in Seq(Seq(SideSet)), NEW g \in ScoredGames(db.games),
           NEW t, Plays(g, t), SideOf(g, t) \in Pieces(lists), NEW u, Plays(g, u)
    PROVE  SideOf(g, u) \in Held(lists)
  <1>1. SideOf(g, t) \in Held(lists) /\ Mirrored(SideOf(g, t)) \in Held(lists)
    BY HeldSides
  <1>2. Mirrored(SideOf(g, t)) = SideOf(g, OpponentOf(g, t))
    BY MirrorOfASide
  <1>3. u \in {t, OpponentOf(g, t)}
    BY SidesOf DEF Plays
  <1> QED BY <1>1, <1>2, <1>3

\* Ranks and ratings read from rows are the stored ones, when the rows' are.
LEMMA KnownIsStored ==
    ASSUME LedgerInv, Season(seen), NEW own, NEW R, NEW lists \in Seq(Seq(R)), DOMAIN own \subseteq Rated
    PROVE  /\ (/\ \A r \in R : r.opponent_rank = Rank(db, r.opponent)
               /\ \A n \in DOMAIN own : own[n] = db.ratings[n].rank)
              => \A n \in DOMAIN Known(own, lists, "opponent_rank") :
                    n \in Rated /\ Known(own, lists, "opponent_rank")[n] = db.ratings[n].rank
           /\ (/\ \A r \in R : r.opponent_rating = Rating(db, r.opponent)
               /\ \A n \in DOMAIN own : own[n] = db.ratings[n].rating)
              => \A n \in DOMAIN Known(own, lists, "opponent_rating") :
                    n \in Rated /\ Known(own, lists, "opponent_rating")[n] = db.ratings[n].rating
  <1>1. ASSUME \A r \in R : r.opponent_rank = Rank(db, r.opponent),
               \A n \in DOMAIN own : own[n] = db.ratings[n].rank,
               NEW n \in DOMAIN Known(own, lists, "opponent_rank")
        PROVE  n \in Rated /\ Known(own, lists, "opponent_rank")[n] = db.ratings[n].rank
    <2>1. CASE n \in DOMAIN own
      BY <1>1, <2>1, KnownFromARow
    <2>2. CASE n \notin DOMAIN own
      <3>1. PICK r \in R : /\ r.opponent = n /\ r["opponent_rank"] # None
                           /\ Known(own, lists, "opponent_rank")[n] = r["opponent_rank"]
        BY <2>2, KnownFromARow
      <3>2. r["opponent_rank"] = Rank(db, n)
        BY <1>1, <3>1
      <3> QED BY <3>1, <3>2 DEF Rank, Rated
    <2> QED BY <2>1, <2>2
  <1>2. ASSUME \A r \in R : r.opponent_rating = Rating(db, r.opponent),
               \A n \in DOMAIN own : own[n] = db.ratings[n].rating,
               NEW n \in DOMAIN Known(own, lists, "opponent_rating")
        PROVE  n \in Rated /\ Known(own, lists, "opponent_rating")[n] = db.ratings[n].rating
    <2>1. CASE n \in DOMAIN own
      BY <1>2, <2>1, KnownFromARow
    <2>2. CASE n \notin DOMAIN own
      <3>1. PICK r \in R : /\ r.opponent = n /\ r["opponent_rating"] # None
                           /\ Known(own, lists, "opponent_rating")[n] = r["opponent_rating"]
        BY <2>2, KnownFromARow
      <3>2. r["opponent_rating"] = Rating(db, n)
        BY <1>2, <3>1
      <3> QED BY <3>1, <3>2 DEF Rating, Rated
    <2> QED BY <2>1, <2>2
  <1> QED BY <1>1, <1>2

\* The rows of the evidence carry their opponents' stored rank and rating.
LEMMA RowsAreStored ==
    \A r \in RowSet : /\ r.opponent_rank = Rank(db, r.opponent)
                      /\ r.opponent_rating = Rating(db, r.opponent)
  BY DEF RowSet, OpponentResult

\* A team case's block.
LEMMA TeamCaseHolds ==
    ASSUME LedgerInv, Season(seen), NEW t \in Rated, NEW year
    PROVE  LET b == TeamCaseBlock(year, TeamCase(db, t)) IN
           /\ GamesAreSides(b) /\ MeetingsAreHeld(b) /\ SubjectsAreRated(b)
           /\ RanksAreStored(b) /\ CommonIsCounted(b)
  <1> DEFINE case == TeamCase(db, t)
             row == db.ratings[t]
             r == Results(db, t)
             own == Sides(t, r)
             lists == <<own>> \o SubjectLists(t, case)
             rows == <<case.games, case.quality_wins, case.worst_loss>>
             b == TeamCaseBlock(year, case)
  <1>1. Season(db.games) /\ \A u : Rank(db, u) \in Int
    BY RanksAreNumbers DEF LedgerInv
  <1>2. /\ case.team_name = t /\ case.rank = row.rank /\ case.rating = row.rating
        /\ case.wins = row.wins /\ case.losses = row.losses /\ case.ties = row.ties
        /\ case.games = r /\ case.games \in Seq(RowsOf(t))
        /\ case.quality_wins \in Seq(RowsOf(t)) /\ case.worst_loss \in Seq(RowsOf(t))
        /\ Len(case.quality_wins)
             = Cardinality({g \in GamesOf(t) : IsQualityWin(OpponentResult(db, g, t))})
    BY <1>1, CaseRows
  <1> HIDE DEF case
  <1>3. /\ b.comparison = FALSE /\ b.common_opponents = None
        /\ b.subjects = [u \in {t} |-> Subject(case, own)] /\ b.games = Held(lists)
        /\ b.ranks = Known([u \in {t} |-> case.rank], rows, "opponent_rank")
        /\ b.ratings = Known([u \in {t} |-> case.rating], rows, "opponent_rating")
    BY <1>2 DEF TeamCaseBlock
  <1> HIDE DEF b, row
  <1>4. own \in Seq(SideSet) /\ Len(own) = Len(r) /\ \A i \in 1 .. Len(r) : own[i] = Side(t, r[i])
    BY <1>2, SidesOfRows
  <1>5. <<own>> \in Seq(Seq(SideSet)) /\ SubjectLists(t, case) \in Seq(Seq(SideSet))
    <2>1. SubjectLists(t, case) \in Seq(Seq(SideSet))
      BY <1>2, SubjectSides
    <2> DEFINE S == Seq(SideSet)
    <2>2. own \in S
      BY <1>4
    <2>3. <<own>> \in Seq(S)
      <3> HIDE DEF own, S
      <3> QED BY <2>2
    <2> QED BY <2>1, <2>3
  <1>6. lists \in Seq(Seq(SideSet)) /\ Pieces(<<own>>) \subseteq Pieces(lists)
    <2> HIDE DEF own
    <2> QED BY <1>5, PiecesOfBoth
  <1>7. ASSUME NEW g \in GamesOf(t) PROVE SideOf(g, t) \in Pieces(lists)
    <2> DEFINE walk == TeamGames(db, t)
               n == Cardinality(GamesOf(t))
    <2>1. /\ Lists(walk, GamesOf(t)) /\ Len(r) = n
          /\ \A i \in 1 .. n : r[i] = OpponentResult(db, walk[i], t)
      BY <1>1, ResultRows
    <2>2. PICK i \in 1 .. n : walk[i] = g
      BY <2>1 DEF Lists
    <2>3. own[i] = SideOf(g, t) /\ i \in DOMAIN own
      BY <1>4, <2>1, <2>2 DEF SideOf
    <2>4. 1 \in DOMAIN <<own>> /\ <<own>>[1] = own
      OBVIOUS
    <2> HIDE DEF own
    <2>5. <<1, i>> \in Places(<<own>>) /\ PieceAt(<<own>>, <<1, i>>) = own[i]
      BY <2>3, <2>4, PlaceIn
    <2> QED BY <1>6, <2>3, <2>5 DEF Pieces
  <1> HIDE DEF lists, own
  <1>8. GamesAreSides(b)
    BY <1>1, <1>3, <1>6, HeldSides DEF GamesAreSides
  <1>9. MeetingsAreHeld(b)
    <2>1. SUFFICES ASSUME NEW v, NEW w, HoldsEveryMeeting(b, v, w), NEW g \in Against(db.games, v, w)
                   PROVE  SideOf(g, v) \in b.games
      BY DEF MeetingsAreHeld
    <2>2. t \in {v, w}
      BY <1>3, <2>1 DEF HoldsEveryMeeting, Subjects
    <2>3. g \in ScoredGames(db.games) /\ {g.home, g.away} = {v, w}
      BY DEF Against
    <2>4. Plays(g, t) /\ Plays(g, v) /\ g \in GamesOf(t)
      BY <2>2, <2>3 DEF Plays, GamesOf
    <2> QED BY <1>1, <1>3, <1>6, <1>7, <2>3, <2>4, EitherSideHeld
  <1>10. SubjectsAreRated(b)
    <2>1. Subjects(b) = {t} /\ b.subjects[t] = Subject(case, own)
      BY <1>3 DEF Subjects
    <2> QED BY <1>2, <1>3, <2>1 DEF SubjectsAreRated, Subject, own, row
  <1>11. RanksAreStored(b)
    <2> DEFINE S == Seq(RowSet)
    <2>1. case.games \in S /\ case.quality_wins \in S /\ case.worst_loss \in S
      BY <1>2, RowsOfIn, Wider
    <2>2. rows \in Seq(S)
      <3> HIDE DEF S
      <3> QED BY <2>1
    <2>3. rows \in Seq(Seq(RowSet))
      BY <2>2
    <2> HIDE DEF rows
    <2>4. \A n \in DOMAIN b.ranks : n \in Rated /\ b.ranks[n] = db.ratings[n].rank
      <3> DEFINE mine == [u \in {t} |-> case.rank]
      <3>1. DOMAIN mine \subseteq Rated /\ \A n \in DOMAIN mine : mine[n] = db.ratings[n].rank
        BY <1>2 DEF row
      <3> HIDE DEF mine
      <3>2. \A n \in DOMAIN Known(mine, rows, "opponent_rank") :
               n \in Rated /\ Known(mine, rows, "opponent_rank")[n] = db.ratings[n].rank
        BY <2>3, <3>1, KnownIsStored, RowsAreStored
      <3> QED BY <1>3, <3>2 DEF mine
    <2>5. \A n \in DOMAIN b.ratings : n \in Rated /\ b.ratings[n] = db.ratings[n].rating
      <3> DEFINE mine == [u \in {t} |-> case.rating]
      <3>1. DOMAIN mine \subseteq Rated /\ \A n \in DOMAIN mine : mine[n] = db.ratings[n].rating
        BY <1>2 DEF row
      <3> HIDE DEF mine
      <3>2. \A n \in DOMAIN Known(mine, rows, "opponent_rating") :
               n \in Rated /\ Known(mine, rows, "opponent_rating")[n] = db.ratings[n].rating
        BY <2>3, <3>1, KnownIsStored, RowsAreStored
      <3> QED BY <1>3, <3>2 DEF mine
    <2> QED BY <2>4, <2>5 DEF RanksAreStored
  <1>12. CommonIsCounted(b)
    BY <1>3 DEF CommonIsCounted
  <1> QED BY <1>8, <1>9, <1>10, <1>11, <1>12 DEF b, case

\* A comparison's two cases keep everything but the games.
LEMMA SummaryRows ==
    ASSUME Season(db.games), \A u : Rank(db, u) \in Int, NEW t
    PROVE  LET case == CaseSummary(TeamCase(db, t)) row == db.ratings[t] IN
           /\ case.team_name = t /\ case.rank = row.rank /\ case.rating = row.rating
           /\ case.wins = row.wins /\ case.losses = row.losses /\ case.ties = row.ties
           /\ case.quality_wins \in Seq(RowsOf(t)) /\ case.worst_loss \in Seq(RowsOf(t))
           /\ Len(case.quality_wins)
                = Cardinality({g \in GamesOf(t) : IsQualityWin(OpponentResult(db, g, t))})
  <1> DEFINE full == TeamCase(db, t)
             case == CaseSummary(full)
  <1>1. {"team_name", "rank", "rating", "wins", "losses", "ties", "quality_wins", "worst_loss"}
           \subseteq DOMAIN full
    BY DEF TeamCase
  <1> HIDE DEF full
  <1>2. \A k \in DOMAIN full \ {"games"} : case[k] = full[k]
    BY DEF CaseSummary
  <1> HIDE DEF case
  <1>3. /\ case.team_name = full.team_name /\ case.rank = full.rank /\ case.rating = full.rating
        /\ case.wins = full.wins /\ case.losses = full.losses /\ case.ties = full.ties
        /\ case.quality_wins = full.quality_wins /\ case.worst_loss = full.worst_loss
    BY <1>1, <1>2
  <1> QED BY <1>3, CaseRows DEF full, case

\* The head to head has every meeting of the two, from the home side.
LEMMA HeadToHeadSides ==
    ASSUME Season(db.games), NEW a, NEW c
    PROVE  LET m == HeadToHead(db, a, c)
               sides == [i \in DOMAIN m |-> HomeSide(m[i])] IN
           /\ sides \in Seq(SideSet)
           /\ \A g \in Against(db.games, a, c) : \E i \in DOMAIN sides : sides[i] = SideOf(g, g.home)
  <1> DEFINE S == Against(db.games, a, c)
             n == Cardinality(S)
             walk == PairGames(db, a, c)
             m == HeadToHead(db, a, c)
             sides == [i \in DOMAIN m |-> HomeSide(m[i])]
  <1>1. walk = Chronological(S)
    <2>1. S = {g \in Completed(db) : Scored(g) /\ {g.home, g.away} = {a, c}}
      BY DEF Against, ScoredGames, Completed
    <2> QED BY <2>1 DEF PairGames
  <1>2. Season(S) /\ S \subseteq ScoredGames(db.games)
    BY DEF Season, Against, ScoredGames
  <1> HIDE DEF S, walk
  <1>3. Lists(walk, S)
    BY <1>1, <1>2, ChronologicalWalks
  <1>4. n \in Nat /\ DOMAIN walk = 1 .. n /\ \A i \in 1 .. n : walk[i] \in S
    BY <1>3 DEF Lists
  <1>5. \A g \in S : \E i \in 1 .. n : walk[i] = g
    BY <1>3 DEF Lists
  <1>6. ASSUME NEW g \in S PROVE HomeSide(HeadToHeadMeeting(db, g, a, c)) = SideOf(g, g.home)
    <2>1. g.home # g.away
      BY <1>2, GroundingAssumption DEF Season
    <2>2. OpponentOf(g, g.home) = g.away /\ TeamScore(g, g.home) = g.home_points
          /\ TeamScore(g, g.away) = g.away_points
      BY <2>1 DEF OpponentOf, TeamScore
    <2> QED BY <2>2 DEF HomeSide, HeadToHeadMeeting, SideOf, Side, OpponentResult
  <1>7. m = [i \in 1 .. n |-> HeadToHeadMeeting(db, walk[i], a, c)]
    BY <1>4 DEF HeadToHead, walk
  <1> HIDE DEF n, m
  <1>8. sides = [i \in 1 .. n |-> SideOf(walk[i], walk[i].home)]
    BY <1>4, <1>6, <1>7
  <1>9. \A i \in 1 .. n : SideOf(walk[i], walk[i].home) \in SideSet
    BY <1>2, <1>4, SideIn DEF Plays
  <1> HIDE DEF sides
  <1>10. sides \in Seq(SideSet) /\ DOMAIN sides = 1 .. n
    BY <1>4, <1>8, <1>9
  <1>11. \A g \in S : \E i \in DOMAIN sides : sides[i] = SideOf(g, g.home)
    BY <1>5, <1>8, <1>10
  <1> QED BY <1>10, <1>11 DEF sides, m, S

\* The rows of the common opponents have every meeting of a subject with one.
LEMMA CommonSides ==
    ASSUME Season(db.games), \A u : Rank(db, u) \in Int, NEW a, NEW c
    PROVE  LET common == CommonOpponents(TeamCase(db, a), TeamCase(db, c))
               meetings == [i \in DOMAIN common |-> Sides(a, common[i].team_a_meetings)
                                                      \o Sides(c, common[i].team_b_meetings)] IN
           /\ meetings \in Seq(Seq(SideSet))
           /\ \A u \in CommonSet(a, c), t \in {a, c} : \A g \in Against(db.games, t, u) :
                 SideOf(g, t) \in Pieces(meetings)
  <1> DEFINE common == CommonOpponents(TeamCase(db, a), TeamCase(db, c))
             ofA(i) == Sides(a, common[i].team_a_meetings)
             ofC(i) == Sides(c, common[i].team_b_meetings)
             both(i) == ofA(i) \o ofC(i)
             meetings == [i \in DOMAIN common |-> both(i)]
             C == {CommonRow(a, c, u) : u \in CommonSet(a, c)}
             met(t, u) == MeetingsByOpponent(Results(db, t), u)
  <1>1. /\ common \in Seq(C)
        /\ \A u \in CommonSet(a, c) : \E i \in 1 .. Len(common) : common[i] = CommonRow(a, c, u)
    BY CommonRows
  <1>2. \A t, u : met(t, u) \in Seq(RowsOf(t))
    BY ResultRows, MeetingRows
  <1> HIDE DEF common, met
  <1>3. Len(common) \in Nat /\ DOMAIN common = 1 .. Len(common)
    BY <1>1
  <1>4. ASSUME NEW i \in 1 .. Len(common)
        PROVE  \E u \in CommonSet(a, c) : ofA(i) = Sides(a, met(a, u)) /\ ofC(i) = Sides(c, met(c, u))
    <2>1. common[i] \in C
      BY <1>1
    <2>2. PICK u \in CommonSet(a, c) : common[i] = CommonRow(a, c, u)
      BY <2>1
    <2> QED BY <2>2, CommonRowFacts DEF met
  <1>5. ASSUME NEW i \in 1 .. Len(common)
        PROVE  ofA(i) \in Seq(SideSet) /\ ofC(i) \in Seq(SideSet)
    <2>1. PICK u \in CommonSet(a, c) : ofA(i) = Sides(a, met(a, u)) /\ ofC(i) = Sides(c, met(c, u))
      BY <1>4
    <2>2. Sides(a, met(a, u)) \in Seq(SideSet) /\ Sides(c, met(c, u)) \in Seq(SideSet)
      BY <1>2, SidesOfRows
    <2> QED BY <2>1, <2>2
  <1> HIDE DEF ofA, ofC
  <1>6. \A i \in 1 .. Len(common) : Joins(both(i), ofA(i), ofC(i))
    BY DEF Joins
  <1> HIDE DEF both
  <1>7. meetings \in Seq(Seq(SideSet))
    <2> DEFINE S == Seq(SideSet)
    <2>1. \A i \in 1 .. Len(common) : both(i) \in S
      BY <1>5, <1>6, Joined
    <2> HIDE DEF S
    <2>2. meetings \in Seq(S)
      BY <1>3, <2>1
    <2> QED BY <2>2 DEF S
  <1>8. ASSUME NEW u \in CommonSet(a, c), NEW t \in {a, c}, NEW g \in Against(db.games, t, u)
        PROVE  SideOf(g, t) \in Pieces(meetings)
    <2> DEFINE r == Results(db, t)
               walk == TeamGames(db, t)
               n == Cardinality(GamesOf(t))
               m == met(t, u)
               s == SideOf(g, t)
    <2>1. g \in GamesOf(t) /\ OpponentOf(g, t) = u
      <3>1. g \in ScoredGames(db.games) /\ {g.home, g.away} = {t, u}
        BY DEF Against
      <3>2. Plays(g, t) /\ g.home # g.away
        BY <3>1, GroundingAssumption DEF Plays, Season, ScoredGames
      <3> QED BY <3>1, <3>2 DEF GamesOf, OpponentOf
    <2>2. /\ Lists(walk, GamesOf(t)) /\ r \in Seq(RowsOf(t)) /\ Len(r) = n
          /\ \A i \in 1 .. n : r[i] = OpponentResult(db, walk[i], t)
      BY ResultRows
    <2>3. PICK p \in 1 .. n : walk[p] = g
      BY <2>1, <2>2 DEF Lists
    <2>4. r[p] = OpponentResult(db, g, t) /\ r[p].opponent = u
      BY <2>1, <2>2, <2>3 DEF OpponentResult
    <2>5. PICK j \in 1 .. Len(m) : m[j] = r[p]
      <3> HIDE DEF walk, n, r
      <3> QED BY <2>2, <2>3, <2>4, MeetingRows DEF r, met
    <2>6. m \in Seq(RowsOf(t))
      BY <1>2
    <2>7. Sides(t, m) \in Seq(SideSet) /\ Len(Sides(t, m)) = Len(m) /\ Sides(t, m)[j] = s
      BY <2>4, <2>5, <2>6, SidesOfRows DEF SideOf
    <2> HIDE DEF r, walk, n, m, s
    <2>8. PICK i \in 1 .. Len(common) : common[i] = CommonRow(a, c, u)
      BY <1>1
    <2>9. ofA(i) = Sides(a, met(a, u)) /\ ofC(i) = Sides(c, met(c, u))
      BY <2>8, CommonRowFacts DEF ofA, ofC, met
    <2>10. \E k \in DOMAIN both(i) : both(i)[k] = s
      <3> DEFINE x == ofA(i)
                 y == ofC(i)
                 z == both(i)
      <3>1. x \in Seq(SideSet) /\ y \in Seq(SideSet) /\ Joins(z, x, y)
        BY <1>5, <1>6
      <3>2. \/ \E l \in 1 .. Len(x) : x[l] = s
            \/ \E l \in 1 .. Len(y) : y[l] = s
        BY <2>5, <2>7, <2>9 DEF m
      <3> HIDE DEF x, y, z
      <3>3. ASSUME NEW l \in 1 .. Len(x) PROVE \E k \in DOMAIN z : z[k] = x[l]
        BY <3>1, JoinedLeft
      <3>4. ASSUME NEW l \in 1 .. Len(y) PROVE \E k \in DOMAIN z : z[k] = y[l]
        BY <3>1, JoinedRight
      <3>5. \E k \in DOMAIN z : z[k] = s
        BY <3>2, <3>3, <3>4
      <3> QED BY <3>5 DEF z
    <2>11. PICK k \in DOMAIN both(i) : both(i)[k] = s
      BY <2>10
    <2>12. i \in DOMAIN meetings /\ meetings[i] = both(i) /\ k \in DOMAIN meetings[i]
      BY <1>3, <2>11
    <2> HIDE DEF meetings
    <2>13. <<i, k>> \in Places(meetings) /\ PieceAt(meetings, <<i, k>>) = s
      BY <2>11, <2>12, PlaceIn
    <2> QED BY <2>13 DEF Pieces, s
  <1> HIDE DEF meetings
  <1> QED BY <1>7, <1>8 DEF meetings, both, ofA, ofC, common

\* A comparison's block.
LEMMA ComparisonHolds ==
    ASSUME LedgerInv, Season(seen), NEW a \in Rated, NEW c \in Rated, a # c, NEW year
    PROVE  LET b == ComparisonBlock(year, Comparison(db, a, c)) IN
           /\ GamesAreSides(b) /\ MeetingsAreHeld(b) /\ SubjectsAreRated(b)
           /\ RanksAreStored(b) /\ CommonIsCounted(b)
  <1> DEFINE A == CaseSummary(TeamCase(db, a))
             C == CaseSummary(TeamCase(db, c))
             of(u) == IF u = a THEN A ELSE C
             common == CommonOpponents(TeamCase(db, a), TeamCase(db, c))
             m == HeadToHead(db, a, c)
             sides == [i \in DOMAIN m |-> HomeSide(m[i])]
             meetings == [i \in DOMAIN common |-> Sides(a, common[i].team_a_meetings)
                                                    \o Sides(c, common[i].team_b_meetings)]
             ofA == SubjectLists(a, A)
             ofC == SubjectLists(c, C)
             lists == ofA \o ofC \o <<sides>> \o meetings
             rows == <<A.quality_wins, A.worst_loss, C.quality_wins, C.worst_loss>>
             common_rows == {CommonRow(a, c, u) : u \in CommonSet(a, c)}
             b == ComparisonBlock(year, Comparison(db, a, c))
  <1>1. Season(db.games) /\ \A u : Rank(db, u) \in Int
    BY RanksAreNumbers DEF LedgerInv
  <1>2. /\ A.team_name = a /\ A.rank = db.ratings[a].rank /\ A.rating = db.ratings[a].rating
        /\ A.wins = db.ratings[a].wins /\ A.losses = db.ratings[a].losses /\ A.ties = db.ratings[a].ties
        /\ A.quality_wins \in Seq(RowsOf(a)) /\ A.worst_loss \in Seq(RowsOf(a))
        /\ Len(A.quality_wins)
             = Cardinality({g \in GamesOf(a) : IsQualityWin(OpponentResult(db, g, a))})
    BY <1>1, SummaryRows
  <1>3. /\ C.team_name = c /\ C.rank = db.ratings[c].rank /\ C.rating = db.ratings[c].rating
        /\ C.wins = db.ratings[c].wins /\ C.losses = db.ratings[c].losses /\ C.ties = db.ratings[c].ties
        /\ C.quality_wins \in Seq(RowsOf(c)) /\ C.worst_loss \in Seq(RowsOf(c))
        /\ Len(C.quality_wins)
             = Cardinality({g \in GamesOf(c) : IsQualityWin(OpponentResult(db, g, c))})
    BY <1>1, SummaryRows
  <1>4. /\ Comparison(db, a, c).team_a = A /\ Comparison(db, a, c).team_b = C
        /\ Comparison(db, a, c).head_to_head = m /\ Comparison(db, a, c).common_opponents = common
    BY DEF Comparison
  <1>5. /\ common \in Seq(common_rows) /\ Len(common) = Cardinality(CommonSet(a, c))
        /\ \A u \in CommonSet(a, c) : \E i \in 1 .. Len(common) : common[i] = CommonRow(a, c, u)
    BY <1>1, CommonRows
  <1>6. /\ sides \in Seq(SideSet)
        /\ \A g \in Against(db.games, a, c) : \E i \in DOMAIN sides : sides[i] = SideOf(g, g.home)
    BY <1>1, HeadToHeadSides
  <1>7. /\ meetings \in Seq(Seq(SideSet))
        /\ \A u \in CommonSet(a, c), t \in {a, c} : \A g \in Against(db.games, t, u) :
              SideOf(g, t) \in Pieces(meetings)
    BY <1>1, CommonSides
  <1> HIDE DEF A, C, common, m
  <1>8. /\ b.comparison = TRUE /\ b.common_opponents = Len(common)
        /\ b.common_names = {common[i].opponent : i \in DOMAIN common}
        /\ b.subjects = [u \in {a, c} |-> Subject(of(u), <<>>)]
        /\ b.games = Held(lists)
        /\ b.ranks = Known([u \in {a, c} |-> of(u)["rank"]], rows \o <<common>>, "opponent_rank")
        /\ b.ratings = Known([u \in {a, c} |-> of(u)["rating"]], rows, "opponent_rating")
    BY <1>2, <1>3, <1>4 DEF ComparisonBlock
  <1> HIDE DEF b, meetings, sides
  <1>9. /\ lists \in Seq(Seq(SideSet))
        /\ Pieces(<<sides>>) \subseteq Pieces(lists) /\ Pieces(meetings) \subseteq Pieces(lists)
    <2>1. ofA \in Seq(Seq(SideSet)) /\ ofC \in Seq(Seq(SideSet))
      BY <1>2, <1>3, SubjectSides
    <2>2. <<sides>> \in Seq(Seq(SideSet))
      <3> DEFINE S == Seq(SideSet)
      <3>1. sides \in S
        BY <1>6
      <3> HIDE DEF S
      <3>2. <<sides>> \in Seq(S)
        BY <3>1
      <3> QED BY <3>2 DEF S
    <2> HIDE DEF ofA, ofC
    <2> DEFINE l2 == ofA \o ofC
               l3 == l2 \o <<sides>>
               l4 == l3 \o meetings
    <2>3. l2 \in Seq(Seq(SideSet))
      BY <2>1, PiecesOfBoth
    <2> HIDE DEF l2
    <2>4. l3 \in Seq(Seq(SideSet)) /\ Pieces(<<sides>>) \subseteq Pieces(l3)
      BY <2>2, <2>3, PiecesOfBoth
    <2> HIDE DEF l3
    <2>5. /\ l4 \in Seq(Seq(SideSet)) /\ Pieces(l3) \subseteq Pieces(l4)
          /\ Pieces(meetings) \subseteq Pieces(l4)
      BY <1>7, <2>4, PiecesOfBoth
    <2>6. lists = l4
      BY DEF l4, l3, l2
    <2> HIDE DEF l4, lists
    <2> QED BY <2>4, <2>5, <2>6
  <1> HIDE DEF lists
  <1>10. GamesAreSides(b)
    BY <1>1, <1>8, <1>9, HeldSides DEF GamesAreSides
  <1>11. b.common_names = CommonSet(a, c)
    <2>1. DOMAIN common = 1 .. Len(common)
      BY <1>5
    <2>2. \A i \in DOMAIN common : common[i].opponent \in CommonSet(a, c)
      <3>1. TAKE i \in DOMAIN common
      <3>2. common[i] \in common_rows
        BY <1>5, <2>1
      <3>3. PICK u \in CommonSet(a, c) : common[i] = CommonRow(a, c, u)
        BY <3>2
      <3> QED BY <1>1, <3>3, CommonRowFacts
    <2>3. \A u \in CommonSet(a, c) : \E i \in DOMAIN common : common[i].opponent = u
      BY <1>1, <1>5, <2>1, CommonRowFacts
    <2> QED BY <1>8, <2>2, <2>3
  <1>12. Subjects(b) = {a, c}
    BY <1>8 DEF Subjects
  <1>13. MeetingsAreHeld(b)
    <2>1. SUFFICES ASSUME NEW v, NEW w, v # w, HoldsEveryMeeting(b, v, w),
                          NEW g \in Against(db.games, v, w)
                   PROVE  SideOf(g, v) \in b.games
      BY DEF MeetingsAreHeld
    <2>2. g \in ScoredGames(db.games) /\ {g.home, g.away} = {v, w}
      BY DEF Against
    <2>3. Plays(g, v) /\ Plays(g, w)
      BY <2>2 DEF Plays
    <2>4. CASE {v, w} = {a, c}
      <3>1. g \in Against(db.games, a, c)
        BY <2>2, <2>4 DEF Against
      <3>2. PICK i \in DOMAIN sides : sides[i] = SideOf(g, g.home)
        BY <1>6, <3>1
      <3>3. 1 \in DOMAIN <<sides>> /\ <<sides>>[1] = sides
        OBVIOUS
      <3>4. <<1, i>> \in Places(<<sides>>) /\ PieceAt(<<sides>>, <<1, i>>) = sides[i]
        BY <3>3, PlaceIn
      <3>5. SideOf(g, g.home) \in Pieces(lists)
        BY <1>9, <3>2, <3>4 DEF Pieces
      <3>6. Plays(g, g.home)
        BY DEF Plays
      <3> QED BY <1>1, <1>8, <1>9, <2>2, <2>3, <3>5, <3>6, EitherSideHeld
    <2>5. CASE {v, w} # {a, c}
      <3>1. Cardinality({v, w} \cap {a, c}) = 1 /\ {v, w} \cap CommonSet(a, c) # {}
        BY <1>8, <1>11, <1>12, <2>1, <2>5 DEF HoldsEveryMeeting
      <3>2. {v, w} \cap {a, c} # {}
        BY <3>1, FS_EmptySet
      <3>3. PICK t \in {v, w} : t \in {a, c}
        BY <3>2
      <3>4. PICK u \in {v, w} : u \in CommonSet(a, c)
        BY <3>1
      <3>5. u # t /\ {v, w} = {t, u}
        BY <3>3, <3>4 DEF CommonSet
      <3>6. g \in Against(db.games, t, u)
        BY <2>2, <3>5 DEF Against
      <3>7. SideOf(g, t) \in Pieces(lists)
        BY <1>7, <1>9, <3>3, <3>4, <3>6
      <3>8. Plays(g, t)
        BY <2>3, <3>3
      <3> QED BY <1>1, <1>8, <1>9, <2>2, <2>3, <3>7, <3>8, EitherSideHeld
    <2> QED BY <2>4, <2>5
  <1>14. SubjectsAreRated(b)
    <2>1. b.subjects[a] = Subject(A, <<>>) /\ b.subjects[c] = Subject(C, <<>>)
      BY <1>8
    <2>2. ASSUME NEW u, NEW case
          PROVE  LET s == Subject(case, <<>>) IN
                 /\ s.rating = case.rating /\ s.wins = case.wins /\ s.losses = case.losses
                 /\ s.ties = case.ties /\ s.quality_wins = Len(case.quality_wins) /\ s.games = <<>>
      BY DEF Subject
    <2>3. ASSUME NEW u \in {a, c}
          PROVE  LET s == b.subjects[u] row == db.ratings[u] IN
                 /\ u \in Rated /\ s.rating = row.rating
                 /\ s.wins = row.wins /\ s.losses = row.losses /\ s.ties = row.ties
                 /\ s.quality_wins = Cardinality({g \in GamesOf(u) : IsQualityWin(OpponentResult(db, g, u))})
                 /\ s.games = <<>>
      <3>1. CASE u = a
        BY <1>2, <2>1, <2>2, <3>1
      <3>2. CASE u = c
        BY <1>3, <2>1, <2>2, <3>2
      <3> QED BY <3>1, <3>2
    <2> QED BY <1>8, <1>12, <2>3 DEF SubjectsAreRated
  <1>15. RanksAreStored(b)
    <2> DEFINE R == RowSet \cup common_rows
               S == Seq(R)
               S0 == Seq(RowSet)
    <2>1. /\ A.quality_wins \in S0 /\ A.worst_loss \in S0
          /\ C.quality_wins \in S0 /\ C.worst_loss \in S0
      BY <1>2, <1>3, RowsOfIn, Wider
    <2>2. RowSet \subseteq R /\ common_rows \subseteq R
      OBVIOUS
    <2> HIDE DEF R
    <2>3. /\ A.quality_wins \in S /\ A.worst_loss \in S /\ C.quality_wins \in S /\ C.worst_loss \in S
          /\ common \in S
      BY <1>5, <2>1, <2>2, Wider
    <2>4. rows \in Seq(Seq(RowSet))
      <3>1. rows \in Seq(S0)
        <4> HIDE DEF S0
        <4> QED BY <2>1
      <3> QED BY <3>1
    <2>5. rows \o <<common>> \in Seq(Seq(R))
      <3>1. rows \o <<common>> \in Seq(S)
        <4> HIDE DEF S
        <4>1. rows \in Seq(S) /\ <<common>> \in Seq(S)
          BY <2>3
        <4> HIDE DEF rows
        <4> QED BY <4>1
      <3> QED BY <3>1
    <2> HIDE DEF rows
    <2>6. \A r \in R : r.opponent_rank = Rank(db, r.opponent)
      BY <1>1, RowsAreStored, CommonRowFacts DEF R
    <2>7. \A n \in DOMAIN b.ranks : n \in Rated /\ b.ranks[n] = db.ratings[n].rank
      <3> DEFINE own == [u \in {a, c} |-> of(u)["rank"]]
                 held == rows \o <<common>>
      <3>1. DOMAIN own \subseteq Rated /\ \A n \in DOMAIN own : own[n] = db.ratings[n].rank
        BY <1>2, <1>3
      <3> HIDE DEF own, held
      <3>2. \A n \in DOMAIN Known(own, held, "opponent_rank") :
               n \in Rated /\ Known(own, held, "opponent_rank")[n] = db.ratings[n].rank
        BY <2>5, <2>6, <3>1, KnownIsStored DEF held
      <3> QED BY <1>8, <3>2 DEF own, held
    <2>8. \A n \in DOMAIN b.ratings : n \in Rated /\ b.ratings[n] = db.ratings[n].rating
      <3> DEFINE own == [u \in {a, c} |-> of(u)["rating"]]
      <3>1. DOMAIN own \subseteq Rated /\ \A n \in DOMAIN own : own[n] = db.ratings[n].rating
        BY <1>2, <1>3
      <3> HIDE DEF own
      <3>2. \A n \in DOMAIN Known(own, rows, "opponent_rating") :
               n \in Rated /\ Known(own, rows, "opponent_rating")[n] = db.ratings[n].rating
        BY <2>4, <3>1, KnownIsStored, RowsAreStored
      <3> QED BY <1>8, <3>2 DEF own
    <2> QED BY <2>7, <2>8 DEF RanksAreStored
  <1>16. CommonIsCounted(b)
    BY <1>5, <1>8, <1>12 DEF CommonIsCounted
  <1> QED BY <1>10, <1>13, <1>14, <1>15, <1>16 DEF b

-----------------------------------------------------------------------------
(* What a claim prints *)

\* All of it, of the open verdict's block.
BlockHolds(b) ==
    /\ GamesAreSides(b) /\ MeetingsAreHeld(b) /\ SubjectsAreRated(b)
    /\ RanksAreStored(b) /\ CommonIsCounted(b)

\* Whichever verdict is open.
LEMMA OpenBlockHolds ==
    ASSUME GroundInv, block # <<>>
    PROVE  BlockHolds(block[1])
  <1>1. LedgerInv /\ Season(seen)
    BY DEF GroundInv
  <1>2. CASE \E t \in Rated : block = <<TeamCaseBlock(db.season, TeamCase(db, t))>>
    <2>1. PICK t \in Rated : block[1] = TeamCaseBlock(db.season, TeamCase(db, t))
      BY <1>2
    <2> QED BY <1>1, <2>1, TeamCaseHolds DEF BlockHolds
  <1>3. CASE \E a, c \in Rated : a # c /\ block = <<ComparisonBlock(db.season, Comparison(db, a, c))>>
    <2>1. PICK a \in Rated, c \in Rated :
             a # c /\ block[1] = ComparisonBlock(db.season, Comparison(db, a, c))
      BY <1>3
    <2> QED BY <1>1, <2>1, ComparisonHolds DEF BlockHolds
  <1> QED BY <1>2, <1>3 DEF GroundInv, Asked

\* The keys of a claim.
LEMMA ClaimShape ==
    ASSUME NEW c \in ClaimSpace
    PROVE  /\ c.kind \in GameKinds \cup {"record", "rating", "rank", "win_pct", "rating_gap", "count"}
           /\ c.kind \in GameKinds \cup {"record", "rating", "rank", "rating_gap"} => "team" \in DOMAIN c
           /\ c.kind \in GameKinds \cup {"rating_gap"} => "opponent" \in DOMAIN c
           /\ c.kind \in GameKinds => "result" \in DOMAIN c
           /\ c.kind = "count" => /\ "of" \in DOMAIN c /\ c.of \in CountOf
                                  /\ c.of # "common_opponents" => "team" \in DOMAIN c
                                  /\ c.of = "meetings" => "opponent" \in DOMAIN c
  BY DEF ClaimSpace, GameKinds, CountOf

\* A side that a game claim chooses is that of a game it may be about.
LEMMA ChosenIsMeant ==
    ASSUME GroundInv, NEW b, GamesAreSides(b), NEW c, {"team", "opponent"} \subseteq DOMAIN c,
           NEW s \in b.games, s.team \in Named(c, "team", b), s.opponent \in Named(c, "opponent", b),
           \A k \in {"week", "season_type"} \cap DOMAIN c : s[k] = c[k], c.result = s.result
    PROVE  \E g \in Meant(c) : g \in GamesOf(c.team) /\ s = SideOf(g, c.team)
  <1>1. s \in SideSet
    BY DEF GamesAreSides
  <1>2. PICK g \in ScoredGames(db.games) : \E t : Plays(g, t) /\ s = SideOf(g, t)
    BY <1>1, SideIn
  <1>3. PICK t : Plays(g, t) /\ s = SideOf(g, t)
    BY <1>2
  <1>4. s.team = t /\ s.opponent = OpponentOf(g, t) /\ s.week = g.week /\ s.season_type = g.season_type
        /\ s.result = Result(TeamScore(g, t), TeamScore(g, OpponentOf(g, t)))
    BY <1>3, SideFields
  <1>5. c.team = t /\ c.opponent = OpponentOf(g, t)
    BY <1>4 DEF Named
  <1>6. {g.home, g.away} = {c.team, c.opponent}
    BY <1>3, <1>5, SidesOf
  <1>7. "week" \in DOMAIN c => g.week = c.week
    BY <1>4
  <1>8. "season_type" \in DOMAIN c => g.season_type = c.season_type
    BY <1>4
  <1>9. g \in Meant(c)
    BY <1>4, <1>5, <1>6, <1>7, <1>8 DEF Meant, Against
  <1> QED BY <1>3, <1>5, <1>9 DEF GamesOf

\* A stated venue is the true one: the flag is the source's where that is right,
\* and else a curated correction.
LEMMA VenueIsTrue ==
    ASSUME GroundInv, NEW c, NEW g \in GamesOf(c.team), GameVenueReliable(db, g)
    PROVE  SideOf(g, c.team).venue = Ground(c, g)
  <1>1. g \in Schedule /\ FlagIsRight(g) /\ db.season \in Int /\ db.sport = "cfb"
    BY DEF GroundInv, LedgerInv, Season, GamesOf, ScoredGames
  <1>2. SideOf(g, c.team).venue
          = IF g.neutral_site THEN "neutral" ELSE IF g.home = c.team THEN "home" ELSE "away"
    BY SideFields
  <1>3. CASE db.season >= RELIABLE_CFB_VENUE_SINCE
    <2>1. g.neutral_site = g.truly_neutral
      BY <1>1, <1>3, GroundingAssumption DEF FlagIsRight
    <2> QED BY <1>2, <2>1 DEF Ground
  <1>4. CASE g.neutral_site /\ g.cfbd_neutral_site = 0
    <2>1. g.truly_neutral
      BY <1>1, <1>4, GroundingAssumption
    <2> QED BY <1>2, <1>4, <2>1 DEF Ground
  <1> QED BY <1>1, <1>3, <1>4 DEF GameVenueReliable, VenueReliable

\* What When calls the opener came before the team's other games, and the finale
\* after all but title games.
LEMMA OccasionHolds ==
    ASSUME GroundInv, NEW b, SubjectsAreRated(b), NEW c, NEW g \in GamesOf(c.team),
           NEW v \in When(SideOf(g, c.team), b)
    PROVE  Occasion(c, v, g)
  <1> DEFINE t == c.team
             s == SideOf(g, t)
             games == IF s.team \in Subjects(b) THEN b.subjects[s.team].games ELSE <<>>
             walk == TeamGames(db, t)
             r == Results(db, t)
             n == Cardinality(GamesOf(t))
             opens == games # <<>> /\ Key(s) = Key(games[1])
             closes == \E last \in Finale(games) : Key(s) = Key(last)
             others == {h \in ScoredGames(db.games) : Plays(h, t) /\ h # g /\ Regular(h)}
  <1>1. Season(db.games)
    BY DEF GroundInv, LedgerInv
  <1>2. /\ s.team = t /\ s.title_game = g.conference_championship
        /\ s.season_type = g.season_type /\ s.week = g.week
    BY SideFields
  <1>3. g.season_type \in {"regular", "postseason"} /\ Plays(g, t) /\ g \in ScoredGames(db.games)
    BY <1>1, GameFacts DEF GamesOf
  <1>4. /\ Lists(walk, GamesOf(t)) /\ r \in Seq(RowsOf(t)) /\ Len(r) = n
        /\ \A i, j \in 1 .. n : i < j => Before(walk[i], walk[j])
        /\ \A i \in 1 .. n : r[i] = OpponentResult(db, walk[i], t)
    BY <1>1, ResultRows
  <1>5. n \in Nat /\ \A i \in 1 .. n : walk[i] \in GamesOf(t)
    BY <1>4 DEF Lists
  <1>6. \A h \in GamesOf(t) : \E i \in 1 .. n : walk[i] = h
    BY <1>4 DEF Lists
  <1>7. \A i \in 1 .. n : /\ walk[i] \in ScoredGames(db.games) /\ Plays(walk[i], t)
                          /\ walk[i] \in Schedule /\ walk[i] \in db.games
    BY <1>1, <1>5, GameFacts DEF GamesOf
  <1>8. /\ Len(Sides(t, r)) = n /\ DOMAIN Sides(t, r) = 1 .. n
        /\ \A i \in 1 .. n : Sides(t, r)[i] = SideOf(walk[i], t)
    BY <1>4, SidesOfRows DEF SideOf
  <1>9. games # <<>> => games = Sides(t, r)
    BY <1>2 DEF SubjectsAreRated
  <1> HIDE DEF s, games, walk, r, n, others
  <1>10. v \in IF s.title_game THEN {<<"title game">>}
               ELSE IF s.season_type = "postseason" THEN {<<"postseason">>}
               ELSE IF opens THEN {<<"opener">>}
               ELSE IF closes THEN {<<"finale">>}
               ELSE {<<"week", w>> : w \in {s.week} \ {None}}
    BY DEF When, s, games
  <1>11. \A h \in others : h \in GamesOf(t) /\ h # g /\ Regular(h)
    BY DEF others, GamesOf
  <1>12. \A i, j \in 1 .. n : Regular(walk[i]) /\ Regular(walk[j]) /\ i < j
                                => ~NoLater(walk[j], walk[i])
    <2>1. TAKE i, j \in 1 .. n
    <2>2. HAVE Regular(walk[i]) /\ Regular(walk[j]) /\ i < j
    <2>3. Before(walk[i], walk[j]) /\ walk[i] # walk[j]
      BY <1>4, <1>5, <2>2 DEF Lists, n
    <2>4. walk[i].id # walk[j].id
      BY <1>1, <1>7, <2>3 DEF Season
    <2>5. t \in {walk[i].home, walk[i].away} \cap {walk[j].home, walk[j].away}
      BY <1>7 DEF Plays
    <2> QED BY <1>7, <2>2, <2>3, <2>4, <2>5, CalendarAssumption
  <1>13. CASE s.title_game
    <2>1. v = <<"title game">> /\ g.conference_championship
      BY <1>2, <1>10, <1>13
    <2>2. v[1] = "title game"
      BY <2>1
    <2> QED BY <2>1, <2>2 DEF Occasion
  <1>14. CASE ~s.title_game /\ s.season_type = "postseason"
    <2>1. v = <<"postseason">> /\ ~Regular(g) /\ ~g.conference_championship
      BY <1>2, <1>10, <1>14 DEF Regular
    <2>2. v[1] = "postseason"
      BY <2>1
    <2> QED BY <2>1, <2>2 DEF Occasion
  <1>15. CASE ~s.title_game /\ s.season_type # "postseason" /\ opens
    <2>1. v = <<"opener">> /\ Regular(g)
      BY <1>2, <1>3, <1>10, <1>15 DEF Regular
    <2>2. games = Sides(t, r) /\ 1 \in 1 .. n
      BY <1>5, <1>8, <1>9, <1>15
    <2>3. g = walk[1]
      BY <1>1, <1>3, <1>7, <1>8, <1>15, <2>2, KeyDecides DEF s
    <2>4. ASSUME NEW h \in others PROVE ~NoLater(h, g)
      <3>1. PICK j \in 1 .. n : walk[j] = h
        BY <1>6, <1>11
      <3>2. 1 < j
        BY <1>5, <1>11, <2>3, <3>1
      <3> QED BY <1>11, <1>12, <2>1, <2>2, <2>3, <3>1, <3>2
    <2> QED BY <2>1, <2>4 DEF Occasion, others
  <1>16. CASE ~s.title_game /\ s.season_type # "postseason" /\ ~opens /\ closes
    <2> DEFINE closing == {i \in DOMAIN games : games[i].season_type = "regular" /\ ~games[i].title_game}
    <2>1. v = <<"finale">> /\ Regular(g) /\ ~g.conference_championship
      BY <1>2, <1>3, <1>10, <1>16 DEF Regular
    <2>2. PICK last \in Finale(games) : Key(s) = Key(last)
      BY <1>16
    <2>3. PICK i \in closing : (\A k \in closing : k <= i) /\ last = games[i]
      BY <2>2 DEF Finale
    <2>4. games = Sides(t, r) /\ i \in 1 .. n
      <3>1. games # <<>>
        BY <2>3
      <3> QED BY <1>8, <1>9, <2>3, <3>1
    <2>5. g = walk[i]
      BY <1>1, <1>3, <1>7, <1>8, <2>2, <2>3, <2>4, KeyDecides DEF s
    <2>6. ASSUME NEW h \in others, ~h.conference_championship PROVE ~NoLater(g, h)
      <3>1. PICK j \in 1 .. n : walk[j] = h
        BY <1>6, <1>11
      <3>2. games[j].season_type = "regular" /\ ~games[j].title_game /\ j \in DOMAIN games
        BY <1>8, <1>11, <2>4, <2>6, <3>1, SideFields DEF Regular
      <3>3. j <= i
        BY <2>3, <3>2
      <3>4. j < i
        BY <1>5, <1>11, <2>4, <2>5, <3>1, <3>3
      <3> QED BY <1>11, <1>12, <2>1, <2>4, <2>5, <3>1, <3>4
    <2> QED BY <2>1, <2>6 DEF Occasion, others
  <1>17. CASE ~s.title_game /\ s.season_type # "postseason" /\ ~opens /\ ~closes
    <2>1. v = <<"week", s.week>>
      BY <1>10, <1>17
    <2> QED BY <1>2, <2>1 DEF Occasion
  <1> QED BY <1>13, <1>14, <1>15, <1>16, <1>17

\* A game claim prints the score, the margin, the time or the place of a game it
\* may be about.
LEMMA GameClaims ==
    ASSUME GroundInv, NEW b, GamesAreSides(b), SubjectsAreRated(b), NEW c \in ClaimSpace,
           c.kind \in GameKinds, NEW v \in GameAnswers(c, b)
    PROVE  FigureIsTrue(c, v) /\ OccasionIsTrue(c, v)
  <1> DEFINE asked == {"week", "season_type"} \cap DOMAIN c
             chosen == {s \in b.games : /\ s.team \in Named(c, "team", b)
                                        /\ s.opponent \in Named(c, "opponent", b)
                                        /\ \A k \in asked : s[k] = c[k]}
             told == {s \in chosen : /\ Cardinality(chosen) = 1
                                     /\ "result" \in DOMAIN c
                                     /\ c.result = s.result}
             scores(s) == {s.team_score, s.opponent_score}
  <1>1. {"team", "opponent"} \subseteq DOMAIN c
    BY ClaimShape
  <1>2. \A s \in told : \E g \in Meant(c) : g \in GamesOf(c.team) /\ s = SideOf(g, c.team)
    BY <1>1, ChosenIsMeant
  <1> HIDE DEF told
  <1>3. ASSUME NEW s \in told, NEW g \in GamesOf(c.team), s = SideOf(g, c.team)
        PROVE  Max(scores(s)) = Scores(g)[1] /\ Min(scores(s)) = Scores(g)[2]
               /\ s.venue_reliable = GameVenueReliable(db, g)
    <2>1. Season(db.games) /\ g \in ScoredGames(db.games) /\ Plays(g, c.team)
      BY DEF GroundInv, LedgerInv, GamesOf
    <2>2. {s.team_score, s.opponent_score} = {g.home_points, g.away_points}
          /\ s.venue_reliable = GameVenueReliable(db, g)
      BY <1>3, <2>1, GameFacts, SideFields
    <2> QED BY <2>2 DEF Scores
  <1>4. CASE c.kind = "game_score"
    <2>1. PICK s \in told : v = <<Max(scores(s)), Min(scores(s))>>
      BY <1>4 DEF GameAnswers, told
    <2>2. PICK g \in Meant(c) : g \in GamesOf(c.team) /\ s = SideOf(g, c.team)
      BY <1>2
    <2>3. v = <<Scores(g)[1], Scores(g)[2]>>
      BY <1>3, <2>1, <2>2
    <2>4. v = Scores(g)
      BY <2>3 DEF Scores
    <2> QED BY <1>4, <2>2, <2>4 DEF FigureIsTrue, OccasionIsTrue
  <1>5. CASE c.kind = "margin"
    <2>1. PICK s \in told : v = Max(scores(s)) - Min(scores(s))
      BY <1>5 DEF GameAnswers, told
    <2>2. PICK g \in Meant(c) : g \in GamesOf(c.team) /\ s = SideOf(g, c.team)
      BY <1>2
    <2>3. v = Scores(g)[1] - Scores(g)[2]
      BY <1>3, <2>1, <2>2
    <2> QED BY <1>5, <2>2, <2>3 DEF FigureIsTrue, OccasionIsTrue
  <1>6. CASE c.kind = "when"
    <2>1. PICK s \in told : v \in When(s, b)
      BY <1>6 DEF GameAnswers, told
    <2>2. PICK g \in Meant(c) : g \in GamesOf(c.team) /\ s = SideOf(g, c.team)
      BY <1>2
    <2>3. Occasion(c, v, g)
      BY <2>1, <2>2, OccasionHolds
    <2> QED BY <1>6, <2>2, <2>3 DEF FigureIsTrue, OccasionIsTrue
  <1>7. CASE c.kind = "where"
    <2>1. PICK s \in told : v = s.venue /\ s.venue_reliable
      BY <1>7 DEF GameAnswers, told
    <2>2. PICK g \in Meant(c) : g \in GamesOf(c.team) /\ s = SideOf(g, c.team)
      BY <1>2
    <2>3. v = Ground(c, g)
      BY <1>3, <2>1, <2>2, VenueIsTrue
    <2> QED BY <1>7, <2>2, <2>3 DEF FigureIsTrue, OccasionIsTrue
  <1> QED BY <1>4, <1>5, <1>6, <1>7 DEF GameKinds

\* A rank, a rating and a record are the stored ones, of the team the claim names.
LEMMA NameClaims ==
    ASSUME GroundInv, NEW b, SubjectsAreRated(b), RanksAreStored(b), NEW c \in ClaimSpace,
           c.kind \in NameKinds, NEW v \in Answers(c, b)
    PROVE  FigureIsTrue(c, v) /\ OccasionIsTrue(c, v)
  <1> DEFINE t == c.team
             s == b.subjects[t]
             record == IF s.ties = 0 THEN <<s.wins, s.losses>> ELSE <<s.wins, s.losses, s.ties>>
  <1>1. "team" \in DOMAIN c /\ LedgerInv /\ Season(seen)
    BY ClaimShape DEF NameKinds, GroundInv
  <1>2. Named(c, "team", b) \subseteq {t}
    BY DEF Named
  <1>3. OccasionIsTrue(c, v)
    BY DEF OccasionIsTrue, NameKinds
  <1>4. CASE c.kind = "rating"
    <2>1. v = DisplayValue(b.ratings[t]) /\ t \in DOMAIN b.ratings
      BY <1>2, <1>4 DEF Answers, GameKinds
    <2> QED BY <1>3, <1>4, <2>1 DEF RanksAreStored, FigureIsTrue
  <1>5. CASE c.kind = "rank"
    <2>1. v = b.ranks[t] /\ t \in DOMAIN b.ranks
      BY <1>2, <1>5 DEF Answers, GameKinds
    <2>2. v = db.ratings[t].rank /\ t \in Rated
      BY <2>1 DEF RanksAreStored
    <2>3. /\ v = 1 + Cardinality({u \in Rated : db.ratings[u].rank < v})
          /\ \A u \in Rated : db.ratings[u].rating > db.ratings[t].rating
                                => db.ratings[u].rank < v
      BY <1>1, <2>2, RankedRows
    <2> QED BY <1>3, <1>5, <2>2, <2>3 DEF FigureIsTrue
  <1>6. CASE c.kind = "record"
    <2>1. v = record /\ t \in Subjects(b)
      BY <1>2, <1>6 DEF Answers, GameKinds
    <2>2. /\ t \in Rated /\ s.wins = db.ratings[t].wins /\ s.losses = db.ratings[t].losses
          /\ s.ties = db.ratings[t].ties
      BY <2>1 DEF SubjectsAreRated
    <2>3. /\ s.wins = Cardinality(With(seen, t, "W")) /\ s.losses = Cardinality(With(seen, t, "L"))
          /\ s.ties = 0 <=> With(seen, t, "T") = {}
      BY <1>1, <2>2, RecordRows, FS_EmptySet
    <2>4. /\ v[1] = s.wins /\ v[2] = s.losses /\ (Len(v) = 3) = (s.ties # 0)
      <3> HIDE DEF s
      <3>1. CASE s.ties = 0
        BY <2>1, <3>1
      <3>2. CASE s.ties # 0
        BY <2>1, <3>2
      <3> QED BY <3>1, <3>2
    <2> HIDE DEF s
    <2>5. Fresh => /\ v[1] = Cardinality(With(db.games, t, "W"))
                   /\ v[2] = Cardinality(With(db.games, t, "L"))
                   /\ (Len(v) = 3) = (With(db.games, t, "T") # {})
      BY <2>3, <2>4 DEF Fresh
    <2> QED BY <1>3, <1>6, <2>5 DEF FigureIsTrue
  <1> QED BY <1>4, <1>5, <1>6 DEF NameKinds

\* Rounding to whole points keeps the order.
LEMMA GapFavours ==
    ASSUME NEW x \in Int, NEW y \in Int, DisplayValue(x) - DisplayValue(y) > 0
    PROVE  x > y
  BY DEF DisplayValue

\* A gap favours the team it names.
LEMMA GapClaims ==
    ASSUME GroundInv, NEW b, SubjectsAreRated(b), NEW c \in ClaimSpace,
           c.kind = "rating_gap", NEW v \in Answers(c, b)
    PROVE  FigureIsTrue(c, v) /\ OccasionIsTrue(c, v)
  <1> DEFINE t == c.team
             u == c.opponent
  <1>1. /\ v = DisplayValue(b.subjects[t].rating) - DisplayValue(b.subjects[u].rating) /\ v > 0
        /\ t \in Subjects(b) /\ u \in Subjects(b)
    <2>1. v \in GapAnswers(c, b)
      BY DEF Answers, GameKinds
    <2> QED BY <2>1 DEF GapAnswers
  <1>2. /\ t \in Rated /\ u \in Rated /\ b.subjects[t].rating = db.ratings[t].rating
        /\ b.subjects[u].rating = db.ratings[u].rating
    BY <1>1 DEF SubjectsAreRated
  <1>3. db.ratings[t].rating \in Int /\ db.ratings[u].rating \in Int
    BY <1>2, RankedRows DEF GroundInv
  <1>4. db.ratings[t].rating > db.ratings[u].rating
    BY <1>1, <1>2, <1>3, GapFavours
  <1> QED BY <1>1, <1>2, <1>4 DEF FigureIsTrue, OccasionIsTrue

\* A block that holds every meeting of a pair holds it once from each side.
LEMMA MeetingsCount ==
    ASSUME Season(db.games), NEW b, GamesAreSides(b), MeetingsAreHeld(b), NEW t, NEW u, t # u,
           HoldsEveryMeeting(b, t, u)
    PROVE  Cardinality(Meetings(b, t, u)) = Cardinality(Against(db.games, t, u))
  <1> DEFINE S == Against(db.games, t, u)
             T == Meetings(b, t, u)
             f == [g \in S |-> SideOf(g, t)]
  <1>1. IsFiniteSet(S)
    BY GroundingAssumption, FS_Subset DEF Season, Against, ScoredGames
  <1>2. \A g \in S : g \in ScoredGames(db.games) /\ Plays(g, t) /\ OpponentOf(g, t) = u
    <2>1. TAKE g \in S
    <2>2. g \in ScoredGames(db.games) /\ {g.home, g.away} = {t, u}
      BY DEF Against
    <2> QED BY <2>2 DEF Plays, OpponentOf
  <1>3. \A g \in S : SideOf(g, t) \in T
    BY <1>2, SideFields DEF MeetingsAreHeld, Meetings
  <1>4. ASSUME NEW s \in T PROVE \E g \in S : SideOf(g, t) = s
    <2>1. s \in SideSet /\ s.team = t /\ s.opponent = u
      BY DEF Meetings, GamesAreSides
    <2>2. PICK g \in ScoredGames(db.games) : \E w : Plays(g, w) /\ s = SideOf(g, w)
      BY <2>1, SideIn
    <2>3. PICK w : Plays(g, w) /\ s = SideOf(g, w)
      BY <2>2
    <2>4. w = t /\ OpponentOf(g, t) = u
      BY <2>1, <2>3, SideFields
    <2>5. g \in S
      BY <2>3, <2>4, SidesOf DEF Against
    <2> QED BY <2>3, <2>4, <2>5
  <1>5. \A g, h \in S : f[g] = f[h] => g = h
    BY <1>2, KeyDecides
  <1>6. f \in [S -> T] /\ \A s \in T : \E g \in S : f[g] = s
    BY <1>3, <1>4
  <1> HIDE DEF f, S, T
  <1>7. Cardinality(T) = Cardinality(S)
    BY <1>1, <1>5, <1>6, SameSize
  <1> QED BY <1>7 DEF S, T

\* The ranked wins are wins against teams ranked high enough.
LEMMA QualityWinsAreRanked ==
    ASSUME GroundInv, NEW t
    PROVE  {g \in GamesOf(t) : IsQualityWin(OpponentResult(db, g, t))}
             = {g \in With(db.games, t, "W") :
                   /\ OpponentOf(g, t) \in Rated
                   /\ db.ratings[OpponentOf(g, t)].rank <= QUALITY_WIN_RANK_THRESHOLD}
  <1>1. \A u \in Rated : db.ratings[u].rank # None
    <2>1. TAKE u \in Rated
    <2>2. db.ratings[u].rank \in Nat
      BY RankedRows DEF GroundInv
    <2> QED BY <2>2 DEF None
  <1>2. ASSUME NEW g \in GamesOf(t)
        PROVE  IsQualityWin(OpponentResult(db, g, t))
                 <=> /\ Result(TeamScore(g, t), TeamScore(g, OpponentOf(g, t))) = "W"
                     /\ OpponentOf(g, t) \in Rated
                     /\ db.ratings[OpponentOf(g, t)].rank <= QUALITY_WIN_RANK_THRESHOLD
    <2>1. /\ OpponentResult(db, g, t).result = Result(TeamScore(g, t), TeamScore(g, OpponentOf(g, t)))
          /\ OpponentResult(db, g, t).opponent_rank = Rank(db, OpponentOf(g, t))
      BY DEF OpponentResult
    <2> QED BY <1>1, <2>1 DEF IsQualityWin, Rank, Rated
  <1>3. With(db.games, t, "W")
          = {g \in GamesOf(t) : Result(TeamScore(g, t), TeamScore(g, OpponentOf(g, t))) = "W"}
    BY DEF With, GamesOf
  <1> QED BY <1>2, <1>3

\* A count is the games', whatever part of them the block holds.
LEMMA CountClaims ==
    ASSUME GroundInv, block # <<>>, NEW b, b = block[1], BlockHolds(b), NEW c \in ClaimSpace,
           c.kind = "count", NEW v \in Answers(c, b)
    PROVE  FigureIsTrue(c, v) /\ OccasionIsTrue(c, v)
  <1> DEFINE t == c.team
             s == b.subjects[t]
             row == db.ratings[t]
  <1>1. Season(db.games) /\ LedgerInv /\ Season(seen)
    BY DEF GroundInv, LedgerInv
  <1>2. /\ "of" \in DOMAIN c /\ c.of \in CountOf
        /\ Named(c, "team", b) \subseteq {t} /\ Named(c, "opponent", b) \subseteq {c.opponent}
    BY ClaimShape DEF Named
  <1>3. v \in CountAnswers(c, b)
    BY DEF Answers, GameKinds
  <1>4. OccasionIsTrue(c, v)
    BY DEF OccasionIsTrue
  <1>5. GamesAreSides(b) /\ MeetingsAreHeld(b) /\ SubjectsAreRated(b) /\ CommonIsCounted(b)
    BY DEF BlockHolds
  <1>6. CASE c.of = "common_opponents"
    <2>1. v = b.common_opponents /\ v # None
      BY <1>2, <1>3, <1>6 DEF CountAnswers
    <2>2. PICK a, d : Subjects(b) = {a, d} /\ v = Cardinality(CommonSet(a, d))
      BY <1>5, <2>1 DEF CommonIsCounted
    <2> DEFINE common == {u \in (UNION {Opponents(w) : w \in {a, d}}) \ {a, d} :
                             \A w \in {a, d} : u \in Opponents(w)}
    <2>3. common = CommonSet(a, d)
      <3>1. \A u : u \in common <=> u \in Opponents(a) /\ u \in Opponents(d) /\ u \notin {a, d}
        OBVIOUS
      <3> HIDE DEF common
      <3> QED BY <3>1 DEF CommonSet
    <2>4. TrueCount(c) = Cardinality(common)
      BY <1>6, <2>2 DEF TrueCount
    <2> QED BY <1>4, <2>2, <2>3, <2>4 DEF FigureIsTrue
  <1>7. CASE c.of = "meetings"
    <2>1. /\ v = Cardinality(Meetings(b, t, c.opponent)) /\ t # c.opponent
          /\ HoldsEveryMeeting(b, t, c.opponent)
      BY <1>2, <1>3, <1>7 DEF CountAnswers
    <2>2. v = Cardinality(Against(db.games, t, c.opponent))
      BY <1>1, <1>5, <2>1, MeetingsCount
    <2>3. TrueCount(c) = Cardinality(Against(db.games, t, c.opponent))
      BY <1>7 DEF TrueCount
    <2> QED BY <1>4, <2>2, <2>3 DEF FigureIsTrue
  <1>8. CASE c.of = "games"
    <2>1. v = Len(s.games) /\ t \in Subjects(b) /\ ~b.comparison
      BY <1>2, <1>3, <1>8 DEF CountAnswers
    <2>2. s.games = Sides(t, Results(db, t))
      BY <1>5, <2>1 DEF SubjectsAreRated
    <2>3. Results(db, t) \in Seq(RowsOf(t)) /\ Len(Results(db, t)) = Cardinality(GamesOf(t))
      BY <1>1, ResultRows
    <2>4. v = Cardinality(GamesOf(t))
      BY <2>1, <2>2, <2>3, SidesOfRows
    <2>5. TrueCount(c) = Cardinality(GamesOf(t))
      BY <1>8 DEF TrueCount, GamesOf
    <2> QED BY <1>4, <2>4, <2>5 DEF FigureIsTrue
  <1>9. CASE c.of \in {"wins", "losses", "ties", "quality_wins"}
    <2>1. v = b.subjects[t][c.of] /\ t \in Subjects(b)
      BY <1>2, <1>3, <1>9 DEF CountAnswers, CountOf
    <2>2. /\ t \in Rated /\ s.wins = row.wins /\ s.losses = row.losses /\ s.ties = row.ties
          /\ s.quality_wins = Cardinality({g \in GamesOf(t) : IsQualityWin(OpponentResult(db, g, t))})
      BY <1>5, <2>1 DEF SubjectsAreRated
    <2>3. /\ s.wins = Cardinality(With(seen, t, "W")) /\ s.losses = Cardinality(With(seen, t, "L"))
          /\ s.ties = Cardinality(With(seen, t, "T"))
      BY <1>1, <2>2, RecordRows
    <2> HIDE DEF row
    <2>4. CASE c.of = "wins"
      <3>1. TrueCount(c) = Cardinality(With(db.games, t, "W"))
        BY <2>4 DEF TrueCount
      <3>2. v = s.wins
        BY <2>1, <2>4
      <3> QED BY <1>4, <2>3, <2>4, <3>1, <3>2 DEF FigureIsTrue, Fresh
    <2>5. CASE c.of = "losses"
      <3>1. TrueCount(c) = Cardinality(With(db.games, t, "L"))
        BY <2>5 DEF TrueCount
      <3>2. v = s.losses
        BY <2>1, <2>5
      <3> QED BY <1>4, <2>3, <2>5, <3>1, <3>2 DEF FigureIsTrue, Fresh
    <2>6. CASE c.of = "ties"
      <3>1. TrueCount(c) = Cardinality(With(db.games, t, "T"))
        BY <2>6 DEF TrueCount
      <3>2. v = s.ties
        BY <2>1, <2>6
      <3> QED BY <1>4, <2>3, <2>6, <3>1, <3>2 DEF FigureIsTrue, Fresh
    <2>7. CASE c.of = "quality_wins"
      <3>1. v = s.quality_wins
        BY <2>1, <2>7
      <3>2. v = TrueCount(c)
        BY <2>2, <2>7, <3>1, QualityWinsAreRanked DEF TrueCount
      <3> QED BY <1>4, <3>2 DEF FigureIsTrue
    <2> QED BY <1>9, <2>4, <2>5, <2>6, <2>7
  <1> QED BY <1>2, <1>6, <1>7, <1>8, <1>9 DEF CountOf

\* What an open verdict's claims print is true of the season.
LEMMA GroundInvIsTrue == GroundInv => ClaimsAreTrue
  <1> SUFFICES ASSUME GroundInv, block # <<>>, NEW c \in ClaimSpace, NEW v \in Answers(c, block[1])
               PROVE  FigureIsTrue(c, v) /\ OccasionIsTrue(c, v)
    BY DEF ClaimsAreTrue
  <1> DEFINE b == block[1]
  <1>1. BlockHolds(b)
    BY OpenBlockHolds
  <1>2. GamesAreSides(b) /\ SubjectsAreRated(b) /\ RanksAreStored(b)
    BY <1>1 DEF BlockHolds
  <1>3. c.kind \in GameKinds \cup {"record", "rating", "rank", "win_pct", "rating_gap", "count"}
    BY ClaimShape
  <1> HIDE DEF b
  <1>4. v \in Answers(c, b)
    BY DEF b
  <1>5. CASE c.kind \in GameKinds
    <2>1. v \in GameAnswers(c, b)
      BY <1>4, <1>5 DEF Answers, GameKinds
    <2> QED BY <1>2, <1>5, <2>1, GameClaims
  <1>6. CASE c.kind \in NameKinds
    BY <1>2, <1>4, <1>6, NameClaims
  <1>7. CASE c.kind = "rating_gap"
    BY <1>2, <1>4, <1>7, GapClaims
  <1>8. CASE c.kind = "count"
    BY <1>1, <1>4, <1>8, CountClaims DEF b
  <1>9. CASE c.kind = "win_pct"
    BY <1>9 DEF FigureIsTrue, OccasionIsTrue
  <1> QED BY <1>3, <1>5, <1>6, <1>7, <1>8, <1>9 DEF NameKinds

\* Whatever was ingested and rated before, and of any schedule: each claim that
\* the check prints while a verdict is open is true of the stored season.
THEOREM ClaimsTrueSafe == GroundingSpec => []ClaimsAreTrue
  BY GroundInvInit, GroundInvNext, GroundInvIsTrue, PTL DEF GroundingSpec
=============================================================================
