----------------------------- MODULE Narration -----------------------------
(***************************************************************************)
(* How apps/api serves a verdict's narration: the cache rules of           *)
(* api.persona.service._serve_cached, the two-attempt loop of              *)
(* api.persona.narrate.narrate_checked, the call budget, and the Postgres  *)
(* table persona_cache that all of it, and the purge command, share.       *)
(*                                                                         *)
(* Requests run concurrently on a threadpool, possibly in two API          *)
(* processes (a deploy) whose CONTESTED_YEARS differ.  The table is the    *)
(* only state they share; each process has a budget of its own, lost with  *)
(* the process.  Every Postgres statement and every Claude call may fail.  *)
(*                                                                         *)
(* The budget's try_acquire is one step here: module CallBudget shows the  *)
(* lock makes it one.  Its timestamps are kept as ages.                    *)
(***************************************************************************)
EXTENDS Integers, Sequences

CONSTANTS
    Requests,       \* threadpool slots, each serving one request at a time
    Processes,      \* API processes
    ProcessOf,      \* the process a slot belongs to
    Keys,           \* cache keys (cache_key, qb_cache_key)
    Prompts,        \* prompt versions (PROMPT_VERSION, QB_PROMPT_VERSION)
    PromptOf,       \* the prompt version hashed into each key
    ContestedIn,    \* the keys each process's CONTESTED_YEARS calls contested
    Limit, Window,  \* the budget: units per window, window in ticks
    None

ASSUME ProcessAssumption == ProcessOf \in [Requests -> Processes]
ASSUME PromptAssumption == PromptOf \in [Keys -> Prompts]
ASSUME ContestedAssumption == ContestedIn \in [Processes -> SUBSET Keys]
ASSUME BudgetAssumption == Limit \in Nat /\ Window \in Nat \ {0}

VARIABLES
    table,      \* persona_cache: one row per key, or None
    pc,         \* where each request is in _serve_cached / narrate_checked
    key,        \* the cache key of the request
    replies,    \* what came back from Claude for this request, in order
    answer,     \* the NarrationOut returned
    spent       \* per process: the ages of the units in the budget's deque

vars == <<table, pc, key, replies, answer, spent>>

-----------------------------------------------------------------------------
(* Texts.  A narration is told for one key, under one contested flag; the  *)
(* fallback is a template of the evidence the key hashes.                  *)

Text == [kind : {"narration", "fallback"}, key : Keys, contested : BOOLEAN]

Narrated(k, flag) == [kind |-> "narration", key |-> k, contested |-> flag]
Fallback(k) == [kind |-> "fallback", key |-> k, contested |-> FALSE]

Row == [text : Text, contested : BOOLEAN, prompt_version : Prompts]

\* A row written before the fallback stopped being cached.
LegacyRow(k, flag) ==
    [text |-> Fallback(k), contested |-> flag, prompt_version |-> PromptOf[k]]

Out == [text : Text, contested : BOOLEAN, cached : BOOLEAN]

ASSUME NoneAssumption ==
    None \notin Keys \cup BOOLEAN /\ None \notin Row /\ None \notin Out

Outcomes == {"accepted", "rejected", "refusal", "error"}
Steps == {"idle", "get", "acquire", "submit", "set", "done"}

\* The flag a request computes: is_contested, and FALSE for a QB verdict.
IsContested(r, k) == k \in ContestedIn[ProcessOf[r]]

Init ==
    /\ table \in [Keys -> {None} \cup Row]
    /\ \A k \in Keys : table[k] # None => \E c \in BOOLEAN : table[k] = LegacyRow(k, c)
    /\ pc = [r \in Requests |-> "idle"]
    /\ key = [r \in Requests |-> None]
    /\ replies = [r \in Requests |-> <<>>]
    /\ answer = [r \in Requests |-> None]
    /\ spent = [p \in Processes |-> <<>>]

Goto(r, step) == pc' = [pc EXCEPT ![r] = step]

Serve(r, text, flag, cached) ==
    /\ answer' = [answer EXCEPT ![r] =
                    [text |-> text, contested |-> flag, cached |-> cached]]
    /\ Goto(r, "done")

ServeFallback(r) == Serve(r, Fallback(key[r]), IsContested(r, key[r]), FALSE)

-----------------------------------------------------------------------------
\* A verdict route has its evidence, its key and its fallback text.
Ask(r) ==
    /\ pc[r] = "idle"
    /\ \E k \in Keys : key' = [key EXCEPT ![r] = k]
    /\ Goto(r, "get")
    /\ UNCHANGED <<table, replies, answer, spent>>

\* Mutant: the stale-flag check of issue #151 is missing.
ServableUnderAnyFlag(r, row) == row # None /\ row.text # Fallback(key[r])

\* Mutant: the legacy-fallback check of issue #65 is missing.
ServableFallbackToo(r, row) == row # None /\ row.contested = IsContested(r, key[r])

\* What makes a row served, and anything else a miss.
Servable(r, row) ==
    /\ row # None
    /\ row.text # Fallback(key[r])
    /\ row.contested = IsContested(r, key[r])

Hit(r) ==
    /\ pc[r] = "get"
    /\ Servable(r, table[key[r]])
    /\ Serve(r, table[key[r]].text, table[key[r]].contested, TRUE)
    /\ UNCHANGED <<table, key, replies, spent>>

\* No row, a row that may not be served, or a failed read (psycopg.Error).
Miss(r) ==
    /\ pc[r] = "get"
    /\ Goto(r, "acquire")
    /\ UNCHANGED <<table, key, replies, answer, spent>>

-----------------------------------------------------------------------------
\* n units at the head of the deque have left the window.
Expired(units, n) ==
    /\ \A i \in 1..n : units[i] >= Window
    /\ n < Len(units) => units[n + 1] < Window

\* try_acquire drops the expired units, then appends a new one if it may.
TryAcquire(p, granted) ==
    \E n \in 0..Len(spent[p]) :
        /\ Expired(spent[p], n)
        /\ LET left == SubSeq(spent[p], n + 1, Len(spent[p])) IN
              /\ granted <=> Len(left) < Limit
              /\ spent' = [spent EXCEPT ![p] = IF granted THEN Append(left, 0) ELSE left]

Acquire(r) ==
    /\ pc[r] = "acquire"
    /\ TryAcquire(ProcessOf[r], TRUE)
    /\ Goto(r, "submit")
    /\ UNCHANGED <<table, key, replies, answer>>

\* Mutant: a refused unit is waited for.
OverBudgetWaits(r) ==
    /\ pc[r] = "acquire"
    /\ TryAcquire(ProcessOf[r], FALSE)
    /\ UNCHANGED <<table, pc, key, replies, answer>>

\* Mutant: the fallback of a refused unit is written to the cache.
OverBudgetCaches(r) ==
    /\ pc[r] = "acquire"
    /\ TryAcquire(ProcessOf[r], FALSE)
    /\ table' = [table EXCEPT ![key[r]] = LegacyRow(key[r], IsContested(r, key[r]))]
    /\ ServeFallback(r)
    /\ UNCHANGED <<key, replies>>

\* A refused unit: no call, the fallback.
OverBudget(r) ==
    /\ pc[r] = "acquire"
    /\ TryAcquire(ProcessOf[r], FALSE)
    /\ ServeFallback(r)
    /\ UNCHANGED <<table, key, replies>>

Reply(r, outcome) ==
    /\ pc[r] = "submit"
    /\ replies' = [replies EXCEPT ![r] = Append(@, outcome)]
    /\ UNCHANGED <<table, key, spent>>

\* The claim check accepted the submission: its rendered text is the answer.
Accepted(r) ==
    /\ Reply(r, "accepted")
    /\ Goto(r, "set")
    /\ UNCHANGED answer

\* The first rejected submission is retried with the errors as feedback.
RejectedOnce(r) ==
    /\ replies[r] = <<>>
    /\ Reply(r, "rejected")
    /\ Goto(r, "acquire")
    /\ UNCHANGED answer

\* There is never a third call.
RejectedTwice(r) ==
    /\ replies[r] # <<>>
    /\ Reply(r, "rejected")
    /\ ServeFallback(r)

\* Mutant: a first call that failed is retried, as a rejected one is.
CallFailedRetried(r) ==
    /\ \E outcome \in {"refusal", "error"} : Reply(r, outcome)
    /\ IF replies[r] = <<>> THEN Goto(r, "acquire") /\ UNCHANGED answer
       ELSE ServeFallback(r)

\* A transport error, after the SDK's own retries, or a model refusal.
CallFailed(r) ==
    /\ \E outcome \in {"refusal", "error"} : Reply(r, outcome)
    /\ ServeFallback(r)

-----------------------------------------------------------------------------
\* Mutant: one label for every route, as before issue #447.
OneLabel(k) == CHOOSE version \in Prompts : TRUE

\* The label of a row: the route's own prompt version (get_qb_narration_cache
\* relabels the app's store for the QB route).
StoreLabel(k) == PromptOf[k]

NewRow(r) ==
    [text |-> Narrated(key[r], IsContested(r, key[r])),
     contested |-> IsContested(r, key[r]),
     prompt_version |-> StoreLabel(key[r])]

\* The upsert, committed.  An error reported after the commit looks the same.
Set(r) ==
    /\ pc[r] = "set"
    /\ table' = [table EXCEPT ![key[r]] = NewRow(r)]
    /\ Serve(r, NewRow(r).text, NewRow(r).contested, FALSE)
    /\ UNCHANGED <<key, replies, spent>>

\* psycopg.Error: the narration is served uncached.
SetFailed(r) ==
    /\ pc[r] = "set"
    /\ Serve(r, NewRow(r).text, NewRow(r).contested, FALSE)
    /\ UNCHANGED <<table, key, replies, spent>>

Forgotten(R) ==
    /\ pc' = [r \in Requests |-> IF r \in R THEN "idle" ELSE pc[r]]
    /\ key' = [r \in Requests |-> IF r \in R THEN None ELSE key[r]]
    /\ replies' = [r \in Requests |-> IF r \in R THEN <<>> ELSE replies[r]]
    /\ answer' = [r \in Requests |-> IF r \in R THEN None ELSE answer[r]]

\* The response is sent and the slot is free.
Respond(r) ==
    /\ pc[r] = "done"
    /\ Forgotten({r})
    /\ UNCHANGED <<table, spent>>

\* A process restarts: its requests are lost, and so is its in-memory budget.
Restart(p) ==
    /\ Forgotten({r \in Requests : ProcessOf[r] = p})
    /\ spent' = [spent EXCEPT ![p] = <<>>]
    /\ UNCHANGED table

\* python -m api.admin purge-narrations: one DELETE, whatever was counted and
\* confirmed before it.
Delete(K) ==
    /\ table' = [k \in Keys |-> IF k \in K THEN None ELSE table[k]]
    /\ UNCHANGED <<pc, key, replies, answer, spent>>

Labelled(versions) ==
    {k \in Keys : table[k] # None /\ table[k].prompt_version \in versions}

\* --prompt-version V ...
PurgePrompts(versions) == Delete(Labelled(versions))

\* --older-than DAYS, alone: which rows are old enough is not modelled.
PurgeOld == \E K \in SUBSET Keys : Delete(K)

\* Time passes: every unit ages.  An age is not counted beyond Window.
Tick ==
    /\ \E p \in Processes : \E i \in 1..Len(spent[p]) : spent[p][i] < Window
    /\ spent' = [p \in Processes |->
            [i \in 1..Len(spent[p]) |->
                IF spent[p][i] < Window THEN spent[p][i] + 1 ELSE Window]]
    /\ UNCHANGED <<table, pc, key, replies, answer>>

-----------------------------------------------------------------------------
\* The steps the handler takes by itself, or that a bounded wait ends.
Handle(r) ==
    \/ Hit(r) \/ Miss(r)
    \/ Acquire(r) \/ OverBudget(r)
    \/ Accepted(r) \/ RejectedOnce(r) \/ RejectedTwice(r) \/ CallFailed(r)
    \/ Set(r) \/ SetFailed(r)

Next ==
    \/ \E r \in Requests : Ask(r) \/ Handle(r) \/ Respond(r)
    \/ \E p \in Processes : Restart(p)
    \/ \E versions \in SUBSET Prompts : PurgePrompts(versions)
    \/ PurgeOld
    \/ Tick

Fairness == \A r \in Requests : WF_vars(Handle(r))

Spec == Init /\ [][Next]_vars
FairSpec == Spec /\ Fairness

-----------------------------------------------------------------------------
(***************************************************************************)
(* Properties                                                              *)
(***************************************************************************)

ReplySeqs ==
    {<<>>} \cup {<<a>> : a \in Outcomes} \cup {<<a, b>> : a, b \in Outcomes}

TypeOK ==
    /\ table \in [Keys -> {None} \cup Row]
    /\ pc \in [Requests -> Steps]
    /\ key \in [Requests -> Keys \cup {None}]
    /\ replies \in [Requests -> ReplySeqs]
    /\ answer \in [Requests -> Out \cup {None}]
    /\ spent \in [Processes -> Seq(0..Window)]

\* The table never lies about a narration: it was told for the row's own key,
\* under the flag the row carries (so a flag check on the row is a check on the
\* text, issue #151), and the row names the prompt that wrote it (so a purge by
\* prompt version clears one voice and nothing else, issue #447).
RowsAreWhatTheySay ==
    \A k \in Keys : table[k] # None =>
        /\ table[k].prompt_version = PromptOf[k]
        /\ \/ table[k].text = Narrated(k, table[k].contested)
           \/ table[k].text = Fallback(k)

\* What a user is told came from the cache is a narration of that very
\* question, told under the flag this process computes, whichever process
\* wrote it and however the lists have changed since; never the fallback.
CacheHitsAreTrue ==
    \A r \in Requests : pc[r] = "done" /\ answer[r].cached =>
        answer[r].text = Narrated(key[r], IsContested(r, key[r]))

\* The templated fallback is never written, so no outage, refusal or spent
\* budget is remembered (issues #65, #236).
FallbackNeverCached ==
    [][\A k \in Keys : table'[k] # table[k] =>
          \/ table'[k] = None
          \/ table'[k].text.kind = "narration"]_vars

\* The answer is the one its calls call for: a hit makes none; a rejected
\* submission is never shown; a narration is served as soon as one is
\* accepted; a refusal or a transport error is never retried; and there is no
\* third call.
RepliesExplainAnswer ==
    \A r \in Requests : pc[r] = "done" =>
        IF answer[r].cached THEN replies[r] = <<>>
        ELSE IF answer[r].text.kind = "narration"
        THEN replies[r] \in {<<"accepted">>, <<"rejected", "accepted">>}
        ELSE replies[r] \in {<<>>, <<"rejected">>, <<"rejected", "rejected">>}
                \cup {<<o>> : o \in {"refusal", "error"}}
                \cup {<<"rejected", o>> : o \in {"refusal", "error"}}

\* The narration layer implements VerdictPromise: the budget, the retry, the
\* outages and the other process cannot be seen in what a request is answered.
PromiseFlag(r, k) == IsContested(r, k)

Promise == INSTANCE VerdictPromise WITH
    Flag <- PromiseFlag,
    asked <- key,
    answer <- [r \in Requests |->
                 IF answer[r] = None THEN None
                 ELSE [kind |-> answer[r].text.kind,
                       contested |-> answer[r].contested,
                       cached |-> answer[r].cached]],
    saved <- [k \in Keys |->
                 IF table[k] = None THEN None
                 ELSE IF table[k].text.kind = "fallback" THEN None
                 ELSE table[k].contested]

KeepsPromise == Promise!PromiseSafety

\* A request is always answered, or dies with its process: no outage, refused
\* unit or rejected submission leaves it waiting (issues #206, #236).
EveryRequestAnswered ==
    \A r \in Requests : pc[r] = "get" ~> pc[r] \in {"done", "idle"}
=============================================================================
