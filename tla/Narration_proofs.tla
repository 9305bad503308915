-------------------------- MODULE Narration_proofs --------------------------
(***************************************************************************)
(* Proofs about Narration: for every number of requests and processes,     *)
(* every set of keys, every assignment of contested flags and every        *)
(* budget.                                                                 *)
(***************************************************************************)
EXTENDS Narration, TLAPS, SequenceTheorems

\* How far a request has come decides what it holds.
StepsMatchState ==
    \A r \in Requests :
        /\ pc[r] = "idle" => key[r] = None /\ replies[r] = <<>>
        /\ pc[r] # "idle" => key[r] \in Keys
        /\ pc[r] = "done" <=> answer[r] # None
        /\ pc[r] = "get" => replies[r] = <<>>
        /\ pc[r] \in {"acquire", "submit"} => replies[r] \in {<<>>, <<"rejected">>}
        /\ pc[r] = "set" => replies[r] \in {<<"accepted">>, <<"rejected", "accepted">>}

\* Every answer carries the flag of its request, and what was narrated for it
\* was narrated under that flag.
AnswersCarryTheFlag ==
    \A r \in Requests : pc[r] = "done" =>
        answer[r].contested = IsContested(r, key[r])

IInv ==
    /\ TypeOK
    /\ StepsMatchState
    /\ AnswersCarryTheFlag
    /\ RowsAreWhatTheySay
    /\ CacheHitsAreTrue
    /\ RepliesExplainAnswer

-----------------------------------------------------------------------------
(* Facts about the values the actions build.                               *)

LEMMA TextFacts ==
    ASSUME NEW k \in Keys, NEW flag \in BOOLEAN
    PROVE  /\ Narrated(k, flag) \in Text
           /\ Fallback(k) \in Text
           /\ Narrated(k, flag) # Fallback(k)
           /\ Narrated(k, flag).kind = "narration"
           /\ Fallback(k).kind = "fallback"
BY DEF Text, Narrated, Fallback

LEMMA FlagIsBoolean ==
    \A r \in Requests : \A k \in Keys : IsContested(r, k) \in BOOLEAN
BY DEF IsContested

LEMMA AppendToPair ==
    ASSUME NEW S, NEW a \in S, NEW b \in S
    PROVE  Append(<<a>>, b) = <<a, b>>
<1> DEFINE s == Append(<<a>>, b)
           t == <<a, b>>
<1>1. <<a>> \in Seq(S) /\ t \in Seq(S) /\ Len(<<a>>) = 1 /\ Len(t) = 2
  OBVIOUS
<1>2. s \in Seq(S) /\ Len(s) = 2
  BY <1>1
<1>3. s[1] = a /\ s[2] = b
  BY <1>1
<1>4. t[1] = a /\ t[2] = b
  OBVIOUS
<1>5. \A i \in 1..Len(s) : s[i] = t[i]
  BY <1>2, <1>3, <1>4
<1> QED
  BY <1>1, <1>2, <1>5, SeqEqual

LEMMA ReplyFacts ==
    ASSUME NEW o \in Outcomes
    PROVE  /\ Append(<<>>, o) = <<o>>
           /\ Append(<<"rejected">>, o) = <<"rejected", o>>
           /\ <<o>> \in ReplySeqs
           /\ <<"rejected", o>> \in ReplySeqs
           /\ <<>> \in ReplySeqs
           /\ <<o>> # <<>>
           /\ <<"rejected", o>> # <<>>
<1>1. Append(<<>>, o) = <<o>>
  OBVIOUS
<1>2. Append(<<"rejected">>, o) = <<"rejected", o>>
  <2>1. "rejected" \in Outcomes
    BY DEF Outcomes
  <2> QED
    BY <2>1, AppendToPair
<1>3. <<o>> # <<>> /\ <<"rejected", o>> # <<>>
  OBVIOUS
<1>4. <<>> \in ReplySeqs /\ <<o>> \in ReplySeqs
  BY DEF ReplySeqs
<1>5. <<"rejected", o>> \in ReplySeqs
  BY DEF ReplySeqs, Outcomes
<1> QED
  BY <1>1, <1>2, <1>3, <1>4, <1>5

\* The table of a fresh database holds at most rows from before the fallback
\* stopped being cached.
LEMMA InitEstablishesIInv == Init => IInv
<1> SUFFICES ASSUME Init PROVE IInv
  OBVIOUS
<1>1. TypeOK
  <2>1. \A p \in Processes : spent[p] \in Seq(0..Window)
    BY DEF Init
  <2> QED
    BY <2>1 DEF Init, TypeOK, Steps, ReplySeqs
<1>2. StepsMatchState /\ AnswersCarryTheFlag /\ CacheHitsAreTrue /\ RepliesExplainAnswer
  BY DEF Init, StepsMatchState, AnswersCarryTheFlag, CacheHitsAreTrue, RepliesExplainAnswer
<1>3. RowsAreWhatTheySay
  <2> SUFFICES ASSUME NEW k \in Keys, table[k] # None
               PROVE  /\ table[k].prompt_version = PromptOf[k]
                      /\ table[k].text = Fallback(k)
    BY DEF RowsAreWhatTheySay
  <2>1. PICK c \in BOOLEAN : table[k] = LegacyRow(k, c)
    BY DEF Init
  <2> QED
    BY <2>1 DEF LegacyRow
<1> QED
  BY <1>1, <1>2, <1>3 DEF IInv

-----------------------------------------------------------------------------
(* Answering: what Serve must be given to keep the invariant.              *)

LEMMA ServeKeepsAnswers ==
    ASSUME IInv, NEW r \in Requests, NEW text \in Text, NEW cached \in BOOLEAN,
           pc[r] # "idle",
           Serve(r, text, IsContested(r, key[r]), cached),
           UNCHANGED key, replies' \in [Requests -> ReplySeqs],
           \A q \in Requests \ {r} : replies'[q] = replies[q],
           cached => /\ text = Narrated(key[r], IsContested(r, key[r]))
                     /\ replies'[r] = <<>>,
           ~cached /\ text.kind = "narration" =>
               replies'[r] \in {<<"accepted">>, <<"rejected", "accepted">>},
           ~cached /\ text.kind # "narration" =>
               replies'[r] \in {<<>>, <<"rejected">>, <<"rejected", "rejected">>}
                   \cup {<<o>> : o \in {"refusal", "error"}}
                   \cup {<<"rejected", o>> : o \in {"refusal", "error"}}
    PROVE  /\ pc' \in [Requests -> Steps]
           /\ answer' \in [Requests -> Out \cup {None}]
           /\ StepsMatchState'
           /\ AnswersCarryTheFlag'
           /\ CacheHitsAreTrue'
           /\ RepliesExplainAnswer'
<1> DEFINE flag == IsContested(r, key[r])
<1> DEFINE out == [text |-> text, contested |-> flag, cached |-> cached]
<1>1. /\ pc \in [Requests -> Steps]
      /\ answer \in [Requests -> Out \cup {None}]
      /\ key[r] \in Keys
      /\ pc' = [pc EXCEPT ![r] = "done"]
      /\ answer' = [answer EXCEPT ![r] = out]
      /\ flag \in BOOLEAN
  BY FlagIsBoolean DEF IInv, TypeOK, StepsMatchState, Serve, Goto
<1>2. out \in Out /\ out # None
  BY <1>1, NoneAssumption DEF Out
<1>3. pc' \in [Requests -> Steps] /\ answer' \in [Requests -> Out \cup {None}]
  BY <1>1, <1>2 DEF Steps
<1>4. /\ pc'[r] = "done"  /\ answer'[r] = out
      /\ \A q \in Requests \ {r} : pc'[q] = pc[q] /\ answer'[q] = answer[q]
  BY <1>1
<1> HIDE DEF out, flag
<1>5. out.text = text /\ out.contested = flag /\ out.cached = cached
  BY DEF out
<1>6. StepsMatchState'
  BY <1>1, <1>2, <1>4 DEF IInv, StepsMatchState
<1>7. AnswersCarryTheFlag'
  BY <1>4, <1>5 DEF IInv, AnswersCarryTheFlag, flag
<1>8. CacheHitsAreTrue'
  BY <1>4, <1>5 DEF IInv, CacheHitsAreTrue, flag
<1>9. RepliesExplainAnswer'
  BY <1>4, <1>5 DEF IInv, RepliesExplainAnswer
<1> QED
  BY <1>3, <1>6, <1>7, <1>8, <1>9

\* Serving the fallback after a request that made the calls `after`.
LEMMA ServeFallbackKeepsIInv ==
    ASSUME IInv, NEW r \in Requests, NEW after \in ReplySeqs,
           pc[r] # "idle", ServeFallback(r), UNCHANGED <<table, key>>,
           spent' \in [Processes -> Seq(0..Window)],
           replies' = [replies EXCEPT ![r] = after],
           after \in {<<>>, <<"rejected">>, <<"rejected", "rejected">>}
                   \cup {<<o>> : o \in {"refusal", "error"}}
                   \cup {<<"rejected", o>> : o \in {"refusal", "error"}}
    PROVE  IInv'
<1>1. key[r] \in Keys /\ replies \in [Requests -> ReplySeqs] /\ key \in [Requests -> Keys \cup {None}]
  BY DEF IInv, StepsMatchState, TypeOK
<1>2. /\ Fallback(key[r]) \in Text  /\ Fallback(key[r]).kind # "narration"
      /\ Serve(r, Fallback(key[r]), IsContested(r, key[r]), FALSE)
  BY <1>1, TextFacts DEF ServeFallback
<1>3. /\ replies' \in [Requests -> ReplySeqs]
      /\ \A q \in Requests \ {r} : replies'[q] = replies[q]
      /\ replies'[r] = after
  BY <1>1
<1>4. /\ pc' \in [Requests -> Steps]
      /\ answer' \in [Requests -> Out \cup {None}]
      /\ StepsMatchState' /\ AnswersCarryTheFlag'
      /\ CacheHitsAreTrue' /\ RepliesExplainAnswer'
  BY <1>2, <1>3, ServeKeepsAnswers
<1>5. TypeOK' /\ RowsAreWhatTheySay'
  BY <1>1, <1>3, <1>4 DEF IInv, TypeOK, RowsAreWhatTheySay
<1> QED
  BY <1>4, <1>5 DEF IInv

-----------------------------------------------------------------------------
(* One lemma per action.                                                   *)

LEMMA AskKeepsIInv ==
    ASSUME IInv, NEW r \in Requests, Ask(r)
    PROVE  IInv'
<1>1. PICK k \in Keys : key' = [key EXCEPT ![r] = k]
  BY DEF Ask
<1>2. /\ pc[r] = "idle"  /\ pc' = [pc EXCEPT ![r] = "get"]
      /\ UNCHANGED <<table, replies, answer, spent>>
  BY DEF Ask, Goto
<1>3. TypeOK'
  BY <1>1, <1>2 DEF IInv, TypeOK, Steps
<1>4. StepsMatchState'
  BY <1>1, <1>2 DEF IInv, TypeOK, StepsMatchState
<1>5. AnswersCarryTheFlag' /\ CacheHitsAreTrue' /\ RepliesExplainAnswer'
  BY <1>1, <1>2
     DEF IInv, TypeOK, AnswersCarryTheFlag, CacheHitsAreTrue, RepliesExplainAnswer
<1> QED
  BY <1>2, <1>3, <1>4, <1>5 DEF IInv, RowsAreWhatTheySay

\* A row that is served holds a narration, because it is not the fallback, and
\* it was told under the row's flag, which is the request's.
LEMMA HitKeepsIInv ==
    ASSUME IInv, NEW r \in Requests, Hit(r)
    PROVE  IInv'
<1> DEFINE row == table[key[r]]
<1>1. /\ pc[r] = "get"  /\ row # None  /\ row.text # Fallback(key[r])
      /\ row.contested = IsContested(r, key[r])
      /\ Serve(r, row.text, IsContested(r, key[r]), TRUE)
      /\ UNCHANGED <<table, key, replies, spent>>
  BY DEF Hit, Servable
<1>2. key[r] \in Keys /\ replies[r] = <<>>
  BY <1>1 DEF IInv, StepsMatchState
<1>3. row \in Row /\ row.text \in Text
  BY <1>1, <1>2 DEF IInv, TypeOK, Row
<1>4. row.text = Narrated(key[r], IsContested(r, key[r]))
  BY <1>1, <1>2 DEF IInv, RowsAreWhatTheySay
<1>5. replies' \in [Requests -> ReplySeqs] /\ replies'[r] = <<>>
  BY <1>1, <1>2 DEF IInv, TypeOK
<1>6. /\ pc' \in [Requests -> Steps]
      /\ answer' \in [Requests -> Out \cup {None}]
      /\ StepsMatchState' /\ AnswersCarryTheFlag'
      /\ CacheHitsAreTrue' /\ RepliesExplainAnswer'
  BY <1>1, <1>3, <1>4, <1>5, ServeKeepsAnswers
<1> QED
  BY <1>1, <1>6 DEF IInv, TypeOK, RowsAreWhatTheySay

LEMMA MissKeepsIInv ==
    ASSUME IInv, NEW r \in Requests, Miss(r)
    PROVE  IInv'
<1>1. /\ pc[r] = "get"  /\ pc' = [pc EXCEPT ![r] = "acquire"]
      /\ UNCHANGED <<table, key, replies, answer, spent>>
  BY DEF Miss, Goto
<1>2. TypeOK' /\ RowsAreWhatTheySay'
  BY <1>1 DEF IInv, TypeOK, Steps, RowsAreWhatTheySay
<1>3. StepsMatchState'
  BY <1>1 DEF IInv, TypeOK, StepsMatchState
<1>4. AnswersCarryTheFlag' /\ CacheHitsAreTrue' /\ RepliesExplainAnswer'
  BY <1>1
     DEF IInv, TypeOK, AnswersCarryTheFlag, CacheHitsAreTrue, RepliesExplainAnswer
<1> QED
  BY <1>2, <1>3, <1>4 DEF IInv

\* The deque stays a sequence of ages.
LEMMA TryAcquireKeepsType ==
    ASSUME IInv, NEW p \in Processes, NEW granted, TryAcquire(p, granted)
    PROVE  spent' \in [Processes -> Seq(0..Window)]
<1>1. PICK n \in 0..Len(spent[p]) :
        LET left == SubSeq(spent[p], n + 1, Len(spent[p])) IN
          spent' = [spent EXCEPT ![p] = IF granted THEN Append(left, 0) ELSE left]
  BY DEF TryAcquire
<1> DEFINE left == SubSeq(spent[p], n + 1, Len(spent[p]))
<1>2. spent[p] \in Seq(0..Window) /\ spent \in [Processes -> Seq(0..Window)]
  BY DEF IInv, TypeOK
<1>3. left \in Seq(0..Window)
  <2>1. Len(spent[p]) \in Nat /\ n \in Nat
    BY <1>2, LenProperties
  <2>2. ASSUME NEW i \in (n + 1)..Len(spent[p])
        PROVE  spent[p][i] \in 0..Window
    <3>1. i \in 1..Len(spent[p])
      BY <2>1
    <3> QED
      BY <1>2, <3>1, ElementOfSeq
  <2>3. n + 1 \in 1..(Len(spent[p]) + 1)
    BY <2>1
  <2> QED
    BY <1>2, <2>1, <2>2, <2>3, SubSeqProperties
<1>4. Append(left, 0) \in Seq(0..Window)
  BY <1>3, BudgetAssumption
<1> QED
  BY <1>1, <1>2, <1>3, <1>4

LEMMA AcquireKeepsIInv ==
    ASSUME IInv, NEW r \in Requests, Acquire(r)
    PROVE  IInv'
<1>1. /\ pc[r] = "acquire"  /\ pc' = [pc EXCEPT ![r] = "submit"]
      /\ TryAcquire(ProcessOf[r], TRUE)
      /\ UNCHANGED <<table, key, replies, answer>>
  BY DEF Acquire, Goto
<1>2. spent' \in [Processes -> Seq(0..Window)]
  BY <1>1, ProcessAssumption, TryAcquireKeepsType
<1>3. TypeOK' /\ RowsAreWhatTheySay'
  BY <1>1, <1>2 DEF IInv, TypeOK, Steps, RowsAreWhatTheySay
<1>4. StepsMatchState'
  BY <1>1 DEF IInv, TypeOK, StepsMatchState
<1>5. AnswersCarryTheFlag' /\ CacheHitsAreTrue' /\ RepliesExplainAnswer'
  BY <1>1
     DEF IInv, TypeOK, AnswersCarryTheFlag, CacheHitsAreTrue, RepliesExplainAnswer
<1> QED
  BY <1>3, <1>4, <1>5 DEF IInv

LEMMA OverBudgetKeepsIInv ==
    ASSUME IInv, NEW r \in Requests, OverBudget(r)
    PROVE  IInv'
<1>1. /\ pc[r] = "acquire"  /\ TryAcquire(ProcessOf[r], FALSE)
      /\ ServeFallback(r)  /\ UNCHANGED <<table, key, replies>>
  BY DEF OverBudget
<1>2. spent' \in [Processes -> Seq(0..Window)]
  BY <1>1, ProcessAssumption, TryAcquireKeepsType
<1>3. /\ replies[r] \in {<<>>, <<"rejected">>}
      /\ replies[r] \in ReplySeqs
      /\ replies' = [replies EXCEPT ![r] = replies[r]]
  BY <1>1 DEF IInv, TypeOK, StepsMatchState
<1> QED
  BY <1>1, <1>2, <1>3, ServeFallbackKeepsIInv

LEMMA AcceptedKeepsIInv ==
    ASSUME IInv, NEW r \in Requests, Accepted(r)
    PROVE  IInv'
<1>1. /\ pc[r] = "submit"  /\ pc' = [pc EXCEPT ![r] = "set"]
      /\ replies' = [replies EXCEPT ![r] = Append(replies[r], "accepted")]
      /\ UNCHANGED <<table, key, answer, spent>>
  BY DEF Accepted, Reply, Goto
<1>2. replies[r] \in {<<>>, <<"rejected">>} /\ "accepted" \in Outcomes
  BY <1>1 DEF IInv, StepsMatchState, Outcomes
<1>3. /\ Append(replies[r], "accepted") \in {<<"accepted">>, <<"rejected", "accepted">>}
      /\ Append(replies[r], "accepted") \in ReplySeqs
  BY <1>2, ReplyFacts
<1>4. TypeOK' /\ RowsAreWhatTheySay'
  BY <1>1, <1>3 DEF IInv, TypeOK, Steps, RowsAreWhatTheySay
<1>5. StepsMatchState'
  BY <1>1, <1>3 DEF IInv, TypeOK, StepsMatchState
<1>6. AnswersCarryTheFlag' /\ CacheHitsAreTrue' /\ RepliesExplainAnswer'
  BY <1>1
     DEF IInv, TypeOK, AnswersCarryTheFlag, CacheHitsAreTrue, RepliesExplainAnswer
<1> QED
  BY <1>4, <1>5, <1>6 DEF IInv

LEMMA RejectedOnceKeepsIInv ==
    ASSUME IInv, NEW r \in Requests, RejectedOnce(r)
    PROVE  IInv'
<1>1. /\ pc[r] = "submit"  /\ pc' = [pc EXCEPT ![r] = "acquire"]
      /\ replies[r] = <<>>
      /\ replies' = [replies EXCEPT ![r] = Append(replies[r], "rejected")]
      /\ UNCHANGED <<table, key, answer, spent>>
  BY DEF RejectedOnce, Reply, Goto
<1>2. /\ Append(replies[r], "rejected") = <<"rejected">>
      /\ <<"rejected">> \in ReplySeqs
  BY <1>1, ReplyFacts DEF Outcomes
<1>3. TypeOK' /\ RowsAreWhatTheySay'
  BY <1>1, <1>2 DEF IInv, TypeOK, Steps, RowsAreWhatTheySay
<1>4. StepsMatchState'
  BY <1>1, <1>2 DEF IInv, TypeOK, StepsMatchState
<1>5. AnswersCarryTheFlag' /\ CacheHitsAreTrue' /\ RepliesExplainAnswer'
  BY <1>1
     DEF IInv, TypeOK, AnswersCarryTheFlag, CacheHitsAreTrue, RepliesExplainAnswer
<1> QED
  BY <1>3, <1>4, <1>5 DEF IInv

LEMMA RejectedTwiceKeepsIInv ==
    ASSUME IInv, NEW r \in Requests, RejectedTwice(r)
    PROVE  IInv'
<1>1. /\ pc[r] = "submit"  /\ replies[r] # <<>>  /\ ServeFallback(r)
      /\ replies' = [replies EXCEPT ![r] = Append(replies[r], "rejected")]
      /\ UNCHANGED <<table, key, spent>>
  BY DEF RejectedTwice, Reply
<1>2. replies[r] = <<"rejected">> /\ "rejected" \in Outcomes
  BY <1>1 DEF IInv, StepsMatchState, Outcomes
<1>3. /\ Append(replies[r], "rejected") = <<"rejected", "rejected">>
      /\ <<"rejected", "rejected">> \in ReplySeqs
  BY <1>2, ReplyFacts
<1>4. spent' \in [Processes -> Seq(0..Window)]
  BY <1>1 DEF IInv, TypeOK
<1> QED
  BY <1>1, <1>3, <1>4, ServeFallbackKeepsIInv

LEMMA CallFailedKeepsIInv ==
    ASSUME IInv, NEW r \in Requests, CallFailed(r)
    PROVE  IInv'
<1>1. PICK o \in {"refusal", "error"} : Reply(r, o)
  BY DEF CallFailed
<1>2. /\ pc[r] = "submit"  /\ ServeFallback(r)
      /\ replies' = [replies EXCEPT ![r] = Append(replies[r], o)]
      /\ UNCHANGED <<table, key, spent>>
  BY <1>1 DEF CallFailed, Reply
<1>3. replies[r] \in {<<>>, <<"rejected">>} /\ o \in Outcomes
  BY <1>2 DEF IInv, StepsMatchState, Outcomes
<1>4. /\ Append(replies[r], o) \in {<<o>>, <<"rejected", o>>}
      /\ Append(replies[r], o) \in ReplySeqs
  BY <1>3, ReplyFacts
<1>5. spent' \in [Processes -> Seq(0..Window)]
  BY <1>2 DEF IInv, TypeOK
<1> QED
  BY <1>2, <1>4, <1>5, ServeFallbackKeepsIInv

LEMMA NewRowFacts ==
    ASSUME IInv, NEW r \in Requests, pc[r] = "set"
    PROVE  /\ key[r] \in Keys
           /\ replies[r] \in {<<"accepted">>, <<"rejected", "accepted">>}
           /\ NewRow(r) \in Row
           /\ NewRow(r).text \in Text
           /\ NewRow(r).text.kind = "narration"
           /\ NewRow(r).text = Narrated(key[r], NewRow(r).contested)
           /\ NewRow(r).contested = IsContested(r, key[r])
           /\ NewRow(r).prompt_version = PromptOf[key[r]]
<1>1. /\ key[r] \in Keys
      /\ replies[r] \in {<<"accepted">>, <<"rejected", "accepted">>}
  BY DEF IInv, StepsMatchState
<1>2. /\ IsContested(r, key[r]) \in BOOLEAN
      /\ Narrated(key[r], IsContested(r, key[r])) \in Text
      /\ Narrated(key[r], IsContested(r, key[r])).kind = "narration"
      /\ PromptOf[key[r]] \in Prompts
  BY <1>1, FlagIsBoolean, TextFacts, PromptAssumption
<1> QED
  BY <1>1, <1>2 DEF NewRow, Row, StoreLabel

\* Whether or not the upsert reached the table, the narration is the answer.
LEMMA StoringAnswers ==
    ASSUME IInv, NEW r \in Requests, pc[r] = "set",
           Serve(r, NewRow(r).text, NewRow(r).contested, FALSE),
           UNCHANGED <<key, replies, spent>>
    PROVE  /\ pc' \in [Requests -> Steps]
           /\ answer' \in [Requests -> Out \cup {None}]
           /\ StepsMatchState' /\ AnswersCarryTheFlag'
           /\ CacheHitsAreTrue' /\ RepliesExplainAnswer'
<1>1. replies' \in [Requests -> ReplySeqs] /\ replies' = replies
  BY DEF IInv, TypeOK
<1> QED
  BY <1>1, NewRowFacts, ServeKeepsAnswers

LEMMA SetKeepsIInv ==
    ASSUME IInv, NEW r \in Requests, Set(r)
    PROVE  IInv'
<1>1. /\ pc[r] = "set"
      /\ table' = [table EXCEPT ![key[r]] = NewRow(r)]
      /\ UNCHANGED <<key, replies, spent>>
  BY DEF Set
<1>2. /\ pc' \in [Requests -> Steps]
      /\ answer' \in [Requests -> Out \cup {None}]
      /\ StepsMatchState' /\ AnswersCarryTheFlag'
      /\ CacheHitsAreTrue' /\ RepliesExplainAnswer'
  BY StoringAnswers DEF Set
<1>3. TypeOK'
  BY <1>1, <1>2, NewRowFacts DEF IInv, TypeOK
<1>4. RowsAreWhatTheySay'
  BY <1>1, NewRowFacts DEF IInv, TypeOK, RowsAreWhatTheySay
<1> QED
  BY <1>2, <1>3, <1>4 DEF IInv

LEMMA SetFailedKeepsIInv ==
    ASSUME IInv, NEW r \in Requests, SetFailed(r)
    PROVE  IInv'
<1>1. pc[r] = "set" /\ UNCHANGED <<table, key, replies, spent>>
  BY DEF SetFailed
<1>2. /\ pc' \in [Requests -> Steps]
      /\ answer' \in [Requests -> Out \cup {None}]
      /\ StepsMatchState' /\ AnswersCarryTheFlag'
      /\ CacheHitsAreTrue' /\ RepliesExplainAnswer'
  BY StoringAnswers DEF SetFailed
<1> QED
  BY <1>1, <1>2 DEF IInv, TypeOK, RowsAreWhatTheySay

\* A slot that is forgotten is idle and holds nothing.
LEMMA ForgottenKeepsAnswers ==
    ASSUME IInv, NEW R \in SUBSET Requests, Forgotten(R)
    PROVE  /\ pc' \in [Requests -> Steps]
           /\ key' \in [Requests -> Keys \cup {None}]
           /\ replies' \in [Requests -> ReplySeqs]
           /\ answer' \in [Requests -> Out \cup {None}]
           /\ StepsMatchState' /\ AnswersCarryTheFlag'
           /\ CacheHitsAreTrue' /\ RepliesExplainAnswer'
<1>1. /\ pc' = [r \in Requests |-> IF r \in R THEN "idle" ELSE pc[r]]
      /\ key' = [r \in Requests |-> IF r \in R THEN None ELSE key[r]]
      /\ replies' = [r \in Requests |-> IF r \in R THEN <<>> ELSE replies[r]]
      /\ answer' = [r \in Requests |-> IF r \in R THEN None ELSE answer[r]]
  BY DEF Forgotten
<1>2. /\ pc' \in [Requests -> Steps]
      /\ key' \in [Requests -> Keys \cup {None}]
      /\ answer' \in [Requests -> Out \cup {None}]
  BY <1>1 DEF IInv, TypeOK, Steps
<1>3. replies' \in [Requests -> ReplySeqs]
  <2>1. <<>> \in ReplySeqs
    BY DEF ReplySeqs
  <2> QED
    BY <1>1, <2>1 DEF IInv, TypeOK
<1>4. StepsMatchState'
  BY <1>1 DEF IInv, StepsMatchState
<1>5. AnswersCarryTheFlag' /\ CacheHitsAreTrue'
  BY <1>1 DEF IInv, AnswersCarryTheFlag, CacheHitsAreTrue
<1>6. RepliesExplainAnswer'
  BY <1>1 DEF IInv, RepliesExplainAnswer
<1> QED
  BY <1>2, <1>3, <1>4, <1>5, <1>6

LEMMA RespondKeepsIInv ==
    ASSUME IInv, NEW r \in Requests, Respond(r)
    PROVE  IInv'
<1>1. Forgotten({r}) /\ {r} \in SUBSET Requests /\ UNCHANGED <<table, spent>>
  BY DEF Respond
<1> QED
  BY <1>1, ForgottenKeepsAnswers DEF IInv, TypeOK, RowsAreWhatTheySay

LEMMA RestartKeepsIInv ==
    ASSUME IInv, NEW p \in Processes, Restart(p)
    PROVE  IInv'
<1> DEFINE R == {r \in Requests : ProcessOf[r] = p}
<1>1. /\ Forgotten(R) /\ R \in SUBSET Requests /\ UNCHANGED table
      /\ spent' = [spent EXCEPT ![p] = <<>>]
  BY DEF Restart
<1>2. <<>> \in Seq(0..Window)
  OBVIOUS
<1>3. spent' \in [Processes -> Seq(0..Window)]
  BY <1>1, <1>2 DEF IInv, TypeOK
<1> HIDE DEF R
<1> QED
  BY <1>1, <1>3, ForgottenKeepsAnswers DEF IInv, TypeOK, RowsAreWhatTheySay

LEMMA DeleteKeepsIInv ==
    ASSUME IInv, NEW K, Delete(K)
    PROVE  IInv'
BY DEF Delete, IInv, TypeOK, StepsMatchState, AnswersCarryTheFlag,
       RowsAreWhatTheySay, CacheHitsAreTrue, RepliesExplainAnswer

LEMMA TickKeepsIInv ==
    ASSUME IInv, Tick
    PROVE  IInv'
<1> DEFINE older(p) ==
        [i \in 1..Len(spent[p]) |->
            IF spent[p][i] < Window THEN spent[p][i] + 1 ELSE Window]
<1>1. /\ spent' = [p \in Processes |-> older(p)]
      /\ UNCHANGED <<table, pc, key, replies, answer>>
  BY DEF Tick
<1>2. ASSUME NEW p \in Processes
      PROVE  older(p) \in Seq(0..Window)
  <2>1. spent[p] \in Seq(0..Window) /\ Len(spent[p]) \in Nat
    BY DEF IInv, TypeOK
  <2>2. \A i \in 1..Len(spent[p]) :
            (IF spent[p][i] < Window THEN spent[p][i] + 1 ELSE Window) \in 0..Window
    BY <2>1, BudgetAssumption
  <2> QED
    BY <2>1, <2>2
<1> HIDE DEF older
<1>3. spent' \in [Processes -> Seq(0..Window)]
  BY <1>1, <1>2
<1> QED
  BY <1>1, <1>3
     DEF IInv, TypeOK, StepsMatchState, AnswersCarryTheFlag,
         RowsAreWhatTheySay, CacheHitsAreTrue, RepliesExplainAnswer

LEMMA NextKeepsIInv == IInv /\ [Next]_vars => IInv'
<1> SUFFICES ASSUME IInv, [Next]_vars PROVE IInv'
  OBVIOUS
<1>1. CASE UNCHANGED vars
  BY <1>1 DEF vars, IInv, TypeOK, StepsMatchState, AnswersCarryTheFlag,
              RowsAreWhatTheySay, CacheHitsAreTrue, RepliesExplainAnswer
<1>2. ASSUME NEW r \in Requests, Handle(r) PROVE IInv'
  BY <1>2, HitKeepsIInv, MissKeepsIInv, AcquireKeepsIInv, OverBudgetKeepsIInv,
     AcceptedKeepsIInv, RejectedOnceKeepsIInv, RejectedTwiceKeepsIInv,
     CallFailedKeepsIInv, SetKeepsIInv, SetFailedKeepsIInv DEF Handle
<1>3. ASSUME NEW r \in Requests, Ask(r) \/ Respond(r) PROVE IInv'
  BY <1>3, AskKeepsIInv, RespondKeepsIInv
<1>4. ASSUME NEW versions \in SUBSET Prompts, PurgePrompts(versions) PROVE IInv'
  BY <1>4, DeleteKeepsIInv DEF PurgePrompts
<1>5. CASE PurgeOld
  BY <1>5, DeleteKeepsIInv DEF PurgeOld
<1> QED
  BY <1>1, <1>2, <1>3, <1>4, <1>5, RestartKeepsIInv, TickKeepsIInv DEF Next

-----------------------------------------------------------------------------
LEMMA IInvHolds == Spec => []IInv
BY InitEstablishesIInv, NextKeepsIInv, PTL DEF Spec

\* The variables keep their types.
THEOREM TypeCorrect == Spec => []TypeOK
BY IInvHolds, PTL DEF IInv

\* Every row is a narration of its key, told under its own flag and labelled
\* with the prompt that wrote it, or a fallback from before the fix.
THEOREM RowsAreTrue == Spec => []RowsAreWhatTheySay
BY IInvHolds, PTL DEF IInv

\* A cache hit is a narration of the question asked, told under the flag this
\* process computes.
THEOREM HitsAreTrue == Spec => []CacheHitsAreTrue
BY IInvHolds, PTL DEF IInv

\* A hit makes no call, a rejected submission is never shown, a failed call is
\* never retried, and no request makes a third call.
THEOREM CallsExplainAnswers == Spec => []RepliesExplainAnswer
BY IInvHolds, PTL DEF IInv

\* No step writes the fallback into the cache.
THEOREM FallbackIsNeverCached == Spec => FallbackNeverCached
<1>1. IInv /\ [Next]_vars =>
        [\A k \in Keys : table'[k] # table[k] =>
            \/ table'[k] = None
            \/ table'[k].text.kind = "narration"]_vars
  <2> SUFFICES ASSUME IInv, Next, NEW k \in Keys, table'[k] # table[k]
               PROVE  table'[k] = None \/ table'[k].text.kind = "narration"
    OBVIOUS
  <2>1. ASSUME NEW r \in Requests, Set(r)
        PROVE  table'[k] = None \/ table'[k].text.kind = "narration"
    BY <2>1, NewRowFacts DEF Set, IInv, TypeOK
  <2>2. ASSUME NEW K, Delete(K)
        PROVE  table'[k] = None \/ table'[k].text.kind = "narration"
    BY <2>2 DEF Delete
  <2>3. CASE UNCHANGED table
    BY <2>3
  <2> QED
    BY <2>1, <2>2, <2>3
       DEF Next, Handle, Ask, Hit, Miss, Acquire, OverBudget, Accepted, Reply,
           RejectedOnce, RejectedTwice, CallFailed, SetFailed, Respond, Restart,
           PurgePrompts, PurgeOld, Tick
<1> QED
  BY <1>1, IInvHolds, PTL DEF Spec, FallbackNeverCached

-----------------------------------------------------------------------------
(* Narration implements VerdictPromise: each action is a step of the       *)
(* promise, or a stutter, through the mapping of Narration!Promise.        *)

AnswerOf(a) ==
    IF a = None THEN None
    ELSE [kind |-> a.text.kind, contested |-> a.contested, cached |-> a.cached]

SavedOf(row) ==
    IF row = None THEN None
    ELSE IF row.text.kind = "fallback" THEN None ELSE row.contested

promisedAnswer == [r \in Requests |-> AnswerOf(answer[r])]
promisedSaved == [k \in Keys |-> SavedOf(table[k])]

LEMMA InitImplementsPromise == Init => Promise!PromiseInit
<1> SUFFICES ASSUME Init PROVE Promise!PromiseInit
  OBVIOUS
<1>1. ASSUME NEW k \in Keys
      PROVE  table[k] # None => table[k].text.kind = "fallback"
  BY DEF Init, LegacyRow, Fallback
<1> QED
  BY <1>1 DEF Init, Promise!PromiseInit

\* A request that is being handled is pending for the promise.
LEMMA HandledIsPending ==
    ASSUME IInv, NEW r \in Requests, pc[r] \notin {"idle", "done"}
    PROVE  Promise!Pending(r) /\ key[r] \in Keys
BY NoneAssumption DEF IInv, StepsMatchState, Promise!Pending

\* Serving is returning.
LEMMA ServeReturns ==
    ASSUME IInv, NEW r \in Requests, NEW text, NEW cached \in BOOLEAN,
           text \in Text, key[r] \in Keys,
           Serve(r, text, IsContested(r, key[r]), cached)
    PROVE  Promise!Return(r, text.kind, cached)
<1> DEFINE flag == IsContested(r, key[r])
<1> DEFINE out == [text |-> text, contested |-> flag, cached |-> cached]
<1>1. flag \in BOOLEAN /\ answer' = [answer EXCEPT ![r] = out]
  BY FlagIsBoolean DEF Serve
<1>2. out # None
  BY <1>1, NoneAssumption DEF Out
<1>3. AnswerOf(out) = [kind |-> text.kind, contested |-> flag, cached |-> cached]
  BY <1>2 DEF AnswerOf
<1>4. promisedAnswer' = [promisedAnswer EXCEPT ![r] = AnswerOf(out)]
  BY <1>1 DEF IInv, TypeOK, promisedAnswer
<1> QED
  BY <1>3, <1>4
     DEF Promise!Return, promisedAnswer, AnswerOf, PromiseFlag

\* What the promise sees of a step that leaves the answers or the table alone.
LEMMA UnchangedSaved == UNCHANGED table => UNCHANGED promisedSaved
BY DEF promisedSaved, SavedOf

LEMMA UnchangedAnswer == UNCHANGED answer => UNCHANGED promisedAnswer
BY DEF promisedAnswer, AnswerOf

LEMMA QuietStepStutters ==
    UNCHANGED <<table, key, answer>> => UNCHANGED Promise!promiseVars
BY UnchangedSaved, UnchangedAnswer
   DEF Promise!promiseVars, promisedAnswer, promisedSaved, AnswerOf, SavedOf

LEMMA AskIsQuestion ==
    ASSUME IInv, NEW r \in Requests, Ask(r)
    PROVE  Promise!Question(r)
<1>1. key[r] = None /\ UNCHANGED <<table, answer>>
  BY DEF Ask, IInv, StepsMatchState
<1>2. \E k \in Keys : key' = [key EXCEPT ![r] = k]
  BY DEF Ask
<1> QED
  BY <1>1, <1>2, UnchangedSaved, UnchangedAnswer
     DEF Promise!Question, promisedAnswer, promisedSaved, AnswerOf, SavedOf

\* The row a hit serves is remembered under the request's flag.
LEMMA HitIsFromMemory ==
    ASSUME IInv, NEW r \in Requests, Hit(r)
    PROVE  Promise!FromMemory(r)
<1> DEFINE row == table[key[r]]
<1>1. /\ pc[r] = "get"  /\ row # None  /\ row.text # Fallback(key[r])
      /\ row.contested = IsContested(r, key[r])
      /\ Serve(r, row.text, IsContested(r, key[r]), TRUE)
      /\ UNCHANGED <<table, key>>
  BY DEF Hit, Servable
<1>2. Promise!Pending(r) /\ key[r] \in Keys
  BY <1>1, HandledIsPending
<1>3. row.text \in Text /\ row.text = Narrated(key[r], IsContested(r, key[r]))
  BY <1>1, <1>2 DEF IInv, TypeOK, Row, RowsAreWhatTheySay
<1>4. row.text.kind = "narration"
  BY <1>3 DEF Narrated
<1>5. Promise!Return(r, "narration", TRUE)
  BY <1>1, <1>2, <1>3, <1>4, ServeReturns
<1>6. promisedSaved[key[r]] = PromiseFlag(r, key[r])
  BY <1>1, <1>2, <1>4 DEF promisedSaved, SavedOf, PromiseFlag
<1> QED
  BY <1>1, <1>2, <1>5, <1>6, UnchangedSaved
     DEF Promise!FromMemory, promisedSaved, SavedOf

LEMMA FallbackIsTemplated ==
    ASSUME IInv, NEW r \in Requests, pc[r] \notin {"idle", "done"},
           ServeFallback(r), UNCHANGED <<table, key>>
    PROVE  Promise!Templated(r)
<1>1. Promise!Pending(r) /\ key[r] \in Keys
  BY HandledIsPending
<1>2. Fallback(key[r]) \in Text /\ Fallback(key[r]).kind = "fallback"
  BY <1>1, TextFacts
<1>3. Promise!Return(r, "fallback", FALSE)
  BY <1>1, <1>2, ServeReturns DEF ServeFallback
<1> QED
  BY <1>1, <1>3, UnchangedSaved DEF Promise!Templated, promisedSaved, SavedOf

LEMMA NarratedIsFresh ==
    ASSUME IInv, NEW r \in Requests, Set(r) \/ SetFailed(r)
    PROVE  Promise!Fresh(r)
<1>1. /\ pc[r] = "set"  /\ UNCHANGED key
      /\ Serve(r, NewRow(r).text, NewRow(r).contested, FALSE)
      /\ \/ table' = [table EXCEPT ![key[r]] = NewRow(r)]
         \/ UNCHANGED table
  BY DEF Set, SetFailed
<1>2. Promise!Pending(r) /\ key[r] \in Keys
  BY <1>1, HandledIsPending
<1>3. Promise!Return(r, "narration", FALSE)
  BY <1>1, <1>2, NewRowFacts, ServeReturns
<1>4. CASE table' = [table EXCEPT ![key[r]] = NewRow(r)]
  <2>1. NewRow(r) # None
    BY <1>1, NewRowFacts, NoneAssumption
  <2>2. SavedOf(NewRow(r)) = PromiseFlag(r, key[r])
    BY <1>1, <2>1, NewRowFacts DEF SavedOf, PromiseFlag
  <2>3. promisedSaved' = [promisedSaved EXCEPT ![key[r]] = SavedOf(NewRow(r))]
    BY <1>4 DEF IInv, TypeOK, promisedSaved
  <2> QED
    BY <1>1, <1>2, <1>3, <2>2, <2>3
       DEF Promise!Fresh, promisedSaved, SavedOf
<1>5. CASE UNCHANGED table
  BY <1>1, <1>2, <1>3, <1>5, UnchangedSaved
     DEF Promise!Fresh, promisedSaved, SavedOf
<1> QED
  BY <1>1, <1>4, <1>5

LEMMA ForgottenIsRelease ==
    ASSUME IInv, NEW R \in SUBSET Requests, Forgotten(R), UNCHANGED table
    PROVE  Promise!Release(R)
<1>1. promisedAnswer' = [r \in Requests |-> IF r \in R THEN None ELSE promisedAnswer[r]]
  BY DEF Forgotten, promisedAnswer, AnswerOf
<1>2. key' = [r \in Requests |-> IF r \in R THEN None ELSE key[r]]
  BY DEF Forgotten
<1> QED
  BY <1>1, <1>2, UnchangedSaved
     DEF Promise!Release, promisedAnswer, AnswerOf, promisedSaved, SavedOf

LEMMA DeleteIsForget ==
    ASSUME IInv, NEW K \in SUBSET Keys, Delete(K)
    PROVE  Promise!Forget(K)
<1>1. promisedSaved' = [k \in Keys |-> IF k \in K THEN None ELSE promisedSaved[k]]
  BY DEF Delete, promisedSaved, SavedOf
<1>2. UNCHANGED <<key, answer>>
  BY DEF Delete
<1> QED
  BY <1>1, <1>2, UnchangedAnswer
     DEF Promise!Forget, promisedAnswer, AnswerOf, promisedSaved, SavedOf

LEMMA StepImplementsPromise ==
    IInv /\ [Next]_vars => [Promise!PromiseNext]_Promise!promiseVars
<1> SUFFICES ASSUME IInv, [Next]_vars
             PROVE  Promise!PromiseNext \/ UNCHANGED Promise!promiseVars
  OBVIOUS
<1>1. ASSUME NEW r \in Requests, Ask(r)
      PROVE  Promise!PromiseNext
  BY <1>1, AskIsQuestion DEF Promise!PromiseNext
<1>2. ASSUME NEW r \in Requests, Hit(r)
      PROVE  Promise!PromiseNext
  BY <1>2, HitIsFromMemory DEF Promise!PromiseNext, Promise!Answer
<1>3. ASSUME NEW r \in Requests, OverBudget(r) \/ RejectedTwice(r) \/ CallFailed(r)
      PROVE  Promise!PromiseNext
  <2>1. /\ pc[r] \notin {"idle", "done"}
        /\ ServeFallback(r) /\ UNCHANGED <<table, key>>
    BY <1>3 DEF OverBudget, RejectedTwice, CallFailed, Reply
  <2> QED
    BY <2>1, FallbackIsTemplated DEF Promise!PromiseNext, Promise!Answer
<1>4. ASSUME NEW r \in Requests, Set(r) \/ SetFailed(r)
      PROVE  Promise!PromiseNext
  BY <1>4, NarratedIsFresh DEF Promise!PromiseNext, Promise!Answer
<1>5. ASSUME NEW r \in Requests, Respond(r)
      PROVE  Promise!PromiseNext
  <2>1. {r} \in SUBSET Requests /\ Forgotten({r}) /\ UNCHANGED table
    BY <1>5 DEF Respond
  <2> QED
    BY <2>1, ForgottenIsRelease DEF Promise!PromiseNext
<1>6. ASSUME NEW p \in Processes, Restart(p)
      PROVE  Promise!PromiseNext
  <2> DEFINE R == {r \in Requests : ProcessOf[r] = p}
  <2>1. R \in SUBSET Requests /\ Forgotten(R) /\ UNCHANGED table
    BY <1>6 DEF Restart
  <2> HIDE DEF R
  <2> QED
    BY <2>1, ForgottenIsRelease DEF Promise!PromiseNext
<1>7. ASSUME NEW versions \in SUBSET Prompts, PurgePrompts(versions)
      PROVE  Promise!PromiseNext
  <2>1. Labelled(versions) \in SUBSET Keys /\ Delete(Labelled(versions))
    BY <1>7 DEF PurgePrompts, Labelled
  <2> QED
    BY <2>1, DeleteIsForget DEF Promise!PromiseNext
<1>8. CASE PurgeOld
  BY <1>8, DeleteIsForget DEF PurgeOld, Promise!PromiseNext
<1>9. CASE \/ \E r \in Requests :
               Miss(r) \/ Acquire(r) \/ Accepted(r) \/ RejectedOnce(r)
           \/ Tick
           \/ UNCHANGED vars
  <2>1. UNCHANGED <<table, key, answer>>
    BY <1>9 DEF Miss, Acquire, Accepted, RejectedOnce, Reply, Tick, vars
  <2> QED
    BY <2>1, QuietStepStutters
<1> QED
  BY <1>1, <1>2, <1>3, <1>4, <1>5, <1>6, <1>7, <1>8, <1>9 DEF Next, Handle

\* The budget, the retry, the outages, the failed writes, the purges and the
\* other process cannot be seen in what a request is answered.
THEOREM NarrationKeepsPromise == Spec => KeepsPromise
BY InitImplementsPromise, StepImplementsPromise, IInvHolds, PTL
   DEF Spec, KeepsPromise, Promise!PromiseSafety
=============================================================================
