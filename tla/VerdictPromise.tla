--------------------------- MODULE VerdictPromise ---------------------------
(***************************************************************************)
(* What a verdict route promises about the narration it returns, with no   *)
(* budget, no Claude, no retry and no database in sight: every request is  *)
(* answered; an answer taken from the cache is a narration of the same     *)
(* question, told under the contested flag the request computes; anything  *)
(* else is fresh or is the templated fallback, and says that it was not    *)
(* cached; only a fresh narration is ever remembered.                      *)
(***************************************************************************)
CONSTANTS
    Requests,       \* request slots
    Keys,           \* questions, as the narration cache names them
    Flag(_, _),     \* Flag(r, k): the contested flag slot r computes for k
    None

VARIABLES
    asked,          \* asked[r]: the question slot r is answering, or None
    answer,         \* answer[r]: what was returned for it, or None
    saved           \* saved[k]: the flag the remembered narration was told
                    \* under, or None when there is none

promiseVars == <<asked, answer, saved>>

Answers == [kind : {"narration", "fallback"}, contested : BOOLEAN, cached : BOOLEAN]

PromiseInit ==
    /\ asked = [r \in Requests |-> None]
    /\ answer = [r \in Requests |-> None]
    /\ saved = [k \in Keys |-> None]

Pending(r) == asked[r] # None /\ answer[r] = None

Return(r, kind, cached) ==
    answer' = [answer EXCEPT ![r] =
        [kind |-> kind, contested |-> Flag(r, asked[r]), cached |-> cached]]

Question(r) ==
    /\ asked[r] = None
    /\ \E k \in Keys : asked' = [asked EXCEPT ![r] = k]
    /\ UNCHANGED <<answer, saved>>

\* From memory: only what was told under the flag this request computes.
FromMemory(r) ==
    /\ Pending(r)
    /\ saved[asked[r]] = Flag(r, asked[r])
    /\ Return(r, "narration", TRUE)
    /\ UNCHANGED <<asked, saved>>

\* A fresh narration, remembered unless the memory is out of reach.
Fresh(r) ==
    /\ Pending(r)
    /\ Return(r, "narration", FALSE)
    /\ \/ saved' = [saved EXCEPT ![asked[r]] = Flag(r, asked[r])]
       \/ UNCHANGED saved
    /\ UNCHANGED asked

\* The templated fallback, never remembered.
Templated(r) ==
    /\ Pending(r)
    /\ Return(r, "fallback", FALSE)
    /\ UNCHANGED <<asked, saved>>

Answer(r) == FromMemory(r) \/ Fresh(r) \/ Templated(r)

\* The answered slots are free again, or the process behind them is gone.
Release(R) ==
    /\ asked' = [r \in Requests |-> IF r \in R THEN None ELSE asked[r]]
    /\ answer' = [r \in Requests |-> IF r \in R THEN None ELSE answer[r]]
    /\ UNCHANGED saved

Forget(K) ==
    /\ saved' = [k \in Keys |-> IF k \in K THEN None ELSE saved[k]]
    /\ UNCHANGED <<asked, answer>>

PromiseNext ==
    \/ \E r \in Requests : Question(r) \/ Answer(r)
    \/ \E R \in SUBSET Requests : Release(R)
    \/ \E K \in SUBSET Keys : Forget(K)

PromiseSafety == PromiseInit /\ [][PromiseNext]_promiseVars
=============================================================================
