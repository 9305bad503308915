----------------------------- MODULE CallBudget -----------------------------
(***************************************************************************)
(* api.persona.budget.RollingWindowCallBudget: the per-process cap on      *)
(* Claude calls.  The verdict routes are sync handlers on FastAPI's        *)
(* threadpool, so try_acquire is called by several threads; the counter is *)
(* a deque of timestamps behind a lock.                                    *)
(*                                                                         *)
(* Every statement of the critical section is a step of its own, so that   *)
(* what the lock is for can be checked: the clock may advance, and other   *)
(* threads may arrive, between any two of them.                            *)
(***************************************************************************)
EXTENDS Integers, Sequences

CONSTANTS
    Threads,    \* the threadpool's worker threads
    Limit,      \* units in one window (CLAUDE_CALLS_PER_MINUTE)
    Window,     \* length of the window, in ticks of the monotonic clock
    MaxClock,   \* bound: the clock stops here
    NoThread    \* the lock's owner when it is free

\* __init__ raises ValueError for anything else.
ASSUME LimitAssumption == Limit \in Nat
ASSUME WindowAssumption == Window \in Nat \ {0}
ASSUME ClockAssumption == MaxClock \in Nat
ASSUME ThreadAssumption == NoThread \notin Threads

VARIABLES
    clock,      \* what self._clock() would return
    spent,      \* self._spent: the deque, oldest unit first
    lock,       \* the owner of self._lock, or NoThread
    pc,         \* where each thread is inside try_acquire
    now,        \* each thread's local variable of the same name
    granted,    \* history: the timestamp of every unit ever granted
    dropped     \* history: how many units have been popped from the deque

vars == <<clock, spent, lock, pc, now, granted, dropped>>

Steps == {"idle", "lock", "clock", "pop", "append"}

Init ==
    /\ clock = 0
    /\ spent = <<>>
    /\ lock = NoThread
    /\ pc = [t \in Threads |-> "idle"]
    /\ now = [t \in Threads |-> 0]
    /\ granted = <<>>
    /\ dropped = 0

Goto(t, step) == pc' = [pc EXCEPT ![t] = step]

-----------------------------------------------------------------------------
\* A thread calls try_acquire, and waits for the lock.
Call(t) ==
    /\ pc[t] = "idle"
    /\ Goto(t, "lock")
    /\ UNCHANGED <<clock, spent, lock, now, granted, dropped>>

\* Mutant: no lock around the critical section.
LockNotTaken(t) ==
    /\ pc[t] = "lock"
    /\ Goto(t, "clock")
    /\ UNCHANGED <<clock, spent, lock, now, granted, dropped>>

\* with self._lock:
Lock(t) ==
    /\ pc[t] = "lock"
    /\ lock = NoThread
    /\ lock' = t
    /\ Goto(t, "clock")
    /\ UNCHANGED <<clock, spent, now, granted, dropped>>

\* now = self._clock()
ReadClock(t) ==
    /\ pc[t] = "clock"
    /\ now' = [now EXCEPT ![t] = clock]
    /\ Goto(t, "pop")
    /\ UNCHANGED <<clock, spent, lock, granted, dropped>>

\* The loop condition: the oldest unit left the window at or before `time`.
HeadExpired(time) ==
    /\ spent # <<>>
    /\ time - Head(spent) >= Window

\* while ...: self._spent.popleft()
Pop(t) ==
    /\ pc[t] = "pop"
    /\ HeadExpired(now[t])
    /\ spent' = Tail(spent)
    /\ dropped' = dropped + 1
    /\ UNCHANGED <<clock, lock, pc, now, granted>>

\* Mutant: counts the units before it drops the expired ones.
RefuseBeforePop(t) ==
    /\ pc[t] = "pop"
    /\ Len(spent) >= Limit
    /\ lock' = NoThread
    /\ Goto(t, "idle")
    /\ UNCHANGED <<clock, spent, now, granted, dropped>>

\* if len(self._spent) >= self.limit: return False
Refuse(t) ==
    /\ pc[t] = "pop"
    /\ ~HeadExpired(now[t])
    /\ Len(spent) >= Limit
    /\ lock' = NoThread
    /\ Goto(t, "idle")
    /\ UNCHANGED <<clock, spent, now, granted, dropped>>

\* Mutant: > in place of >= in the test.
AdmitOneTooMany(t) ==
    /\ pc[t] = "pop"
    /\ ~HeadExpired(now[t])
    /\ Len(spent) <= Limit
    /\ Goto(t, "append")
    /\ UNCHANGED <<clock, spent, lock, now, granted, dropped>>

\* The test of the same line, passed.
Admit(t) ==
    /\ pc[t] = "pop"
    /\ ~HeadExpired(now[t])
    /\ Len(spent) < Limit
    /\ Goto(t, "append")
    /\ UNCHANGED <<clock, spent, lock, now, granted, dropped>>

\* self._spent.append(now); return True
Grant(t) ==
    /\ pc[t] = "append"
    /\ spent' = Append(spent, now[t])
    /\ granted' = Append(granted, now[t])
    /\ lock' = NoThread
    /\ Goto(t, "idle")
    /\ UNCHANGED <<clock, now, dropped>>

\* time.monotonic never goes back.  Bounded by MaxClock.
Tick ==
    /\ clock < MaxClock
    /\ clock' = clock + 1
    /\ UNCHANGED <<spent, lock, pc, now, granted, dropped>>

ThreadStep(t) ==
    \/ Call(t)
    \/ Lock(t)
    \/ ReadClock(t)
    \/ Pop(t)
    \/ Refuse(t)
    \/ Admit(t)
    \/ Grant(t)

Next ==
    \/ \E t \in Threads : ThreadStep(t)
    \/ Tick

Spec == Init /\ [][Next]_vars

-----------------------------------------------------------------------------
(***************************************************************************)
(* Properties                                                              *)
(***************************************************************************)

TypeOK ==
    /\ clock \in Nat
    /\ spent \in Seq(Nat)
    /\ lock \in Threads \cup {NoThread}
    /\ pc \in [Threads -> Steps]
    /\ now \in [Threads -> Nat]
    /\ granted \in Seq(Nat)
    /\ dropped \in Nat

\* "At most `limit` units in any `window_seconds`": Limit units after any
\* granted unit, at least Window has passed.  With Limit = 0 nothing is ever
\* granted.
AtMostLimitPerWindow ==
    /\ Limit = 0 => granted = <<>>
    /\ \A i \in 1..Len(granted) :
          i + Limit <= Len(granted) => granted[i + Limit] - granted[i] >= Window

\* "each unit comes back window_seconds after it was spent": try_acquire
\* answers False only while the last Limit units granted are all younger than
\* Window, so neither refused calls nor a forgotten popleft use a unit up.
RefusedOnlyWhenSpent ==
    [][\A t \in Threads : Refuse(t) =>
          /\ Len(granted) >= Limit
          /\ Limit > 0 => now[t] - granted[Len(granted) + 1 - Limit] < Window]_vars

\* What the lock gives: the deque is the tail of what was granted, oldest
\* first, although the threads read the clock and append in separate steps.
DequeIsTheUnexpiredHistory ==
    /\ Len(granted) = dropped + Len(spent)
    /\ \A i \in 1..Len(spent) : spent[i] = granted[dropped + i]
    /\ \A i \in 1..Len(granted) : \A j \in i..Len(granted) : granted[i] <= granted[j]
=============================================================================
