------------------------- MODULE VerdictPage_proofs -------------------------
(***************************************************************************)
(* Proofs about VerdictPage: for any subjects, teams and spellings, any    *)
(* number of questions on any number of visits, and requests that settle   *)
(* in any order or never.                                                  *)
(*                                                                         *)
(* The argument: the one request that is not aborted is the one of         *)
(* inFlightRef, it has the latest number, and it is for the question asked *)
(* last (LiveIsLatest).  So a request whose answer reaches the screen      *)
(* finds it loading that very question.                                    *)
(***************************************************************************)
EXTENDS VerdictPage, TLAPS

Requests == [number : Nat, question : Questions, aborted : BOOLEAN]
Forms == [type : Types, subject : Subjects \cup {None}, for : Teams \cup {None},
          seeded : BOOLEAN]

TypeOK ==
    /\ page \in {"opening", "fresh", "mounted", "gone"}
    /\ cleanup \in BOOLEAN /\ landed \in BOOLEAN
    /\ landing \in Questions \cup {None}
    /\ submission \in Questions \cup {None}
    /\ screen \in Screens \cup {None}
    /\ form \in Forms
    /\ form.subject # None => form.subject \in AskedAbout(form.type)
    /\ stored \in Teams \cup {None} /\ own \in Teams \cup {None}
    /\ url \in Links \cup {None}
    /\ latest \in Nat /\ inFlight \in Nat
    /\ requests \in SUBSET Requests

\* A page that opens has asked nothing, and its form shows its link's question.
OpeningIsBlank ==
    page = "opening" =>
        /\ requests = {} /\ screen = None /\ latest = 0
        /\ landing # None => form.type = landing.type /\ form.subject = landing.subject

\* The effects ran once: StrictMode's second run of them finds nothing to ask.
FreshHasLanded == page = "fresh" => landing = None \/ landed

NumbersAreUnique ==
    /\ \A r \in requests : r.number <= latest
    /\ \A r, s \in requests : r.number = s.number => r = s

LiveIsLatest ==
    \A r \in requests : ~r.aborted =>
        /\ r.number = inFlight /\ r.number = latest
        /\ r.question = submission

IsLoading == screen # None /\ screen.status = "loading"

LiveIsLoading ==
    /\ page \in {"fresh", "mounted"} => ((\E r \in requests : ~r.aborted) <=> IsLoading)
    /\ page = "gone" /\ ~cleanup => \A r \in requests : r.aborted

\* ReloadAsksTheSame, from the first effects on.
ReloadHolds ==
    page \in {"fresh", "mounted"} =>
        IF screen = None
        THEN latest > 0 => fromShareSearch(url) = None
        ELSE /\ submission # None
             /\ form.type = submission.type /\ form.subject = submission.subject
             /\ submission.subject \in Plain /\ submission.for \in PlainTeams \cup {None}
                    => fromShareSearch(url) = submission

IInv ==
    /\ TypeOK /\ OpeningIsBlank /\ FreshHasLanded
    /\ NumbersAreUnique /\ LiveIsLatest /\ LiveIsLoading
    /\ ReloadHolds
    /\ SavedTeamIsTheVisitors

-----------------------------------------------------------------------------
(* Facts about links, forms and aborts.                                    *)

LEMMA NoneIsNothing ==
    /\ None \notin Teams /\ None \notin Subjects
    /\ None \notin Links /\ None \notin Questions /\ None \notin Screens
  BY NoneAssumption DEF NoneAssumption, Questions

LEMMA LinkReads ==
    ASSUME NEW l \in Links \cup {None}
    PROVE  fromShareSearch(l) \in Questions \cup {None}
  BY NoneIsNothing DEF fromShareSearch, Links, Questions

LEMMA LinkIsWritten ==
    ASSUME NEW q \in Questions
    PROVE  toShareSearch(q) \in Links
  BY DEF toShareSearch, Links, Questions

\* What a link says of a question it can say is that question.
LEMMA LinkRoundTrip ==
    ASSUME NEW q \in Questions,
           q.subject \in Plain, q.for \in PlainTeams \cup {None}
    PROVE  fromShareSearch(toShareSearch(q)) = q
  <1>1. CASE q.type = "champion"
    <2>1. q.for = None
      BY <1>1 DEF Questions
    <2>2. [q EXCEPT !.for = None] = q
      BY <2>1 DEF Questions, Links
    <2> QED BY <1>1, <2>2, NoneIsNothing DEF toShareSearch, fromShareSearch
  <1>2. CASE q.type # "champion"
    BY <1>2, NoneIsNothing DEF toShareSearch, fromShareSearch
  <1> QED BY <1>1, <1>2

LEMMA SeededForm ==
    ASSUME NEW q \in Questions \cup {None}, stored \in Teams \cup {None}
    PROVE  /\ Seeded(q) \in Forms
           /\ Seeded(q).subject # None => Seeded(q).subject \in AskedAbout(Seeded(q).type)
           /\ q # None => Seeded(q).type = q.type /\ Seeded(q).subject = q.subject
  BY NoneIsNothing, PlainAssumption
  DEF PlainAssumption, Seeded, Forms, Questions, Links, Types, AskedAbout

\* Aborting what is in flight leaves no request live.
LEMMA AbortedFacts ==
    ASSUME requests \in SUBSET Requests, LiveIsLatest, NumbersAreUnique, latest \in Nat
    PROVE  /\ Aborted(requests) \in SUBSET Requests
           /\ \A r \in Aborted(requests) : r.aborted /\ r.number <= latest
           /\ \A r, s \in Aborted(requests) : r.number = s.number => r = s
  <1> DEFINE A(r) == [r EXCEPT !.aborted = r.aborted \/ r.number = inFlight]
  <1>1. \A r \in requests : /\ A(r) \in Requests
                            /\ A(r).number = r.number
                            /\ A(r).aborted
    BY DEF Requests, LiveIsLatest
  <1>2. \A x \in Aborted(requests) : \E r \in requests : x = A(r)
    BY DEF Aborted
  <1> HIDE DEF A
  <1>3. \A x \in Aborted(requests) : x \in Requests /\ x.aborted /\ x.number <= latest
    BY <1>1, <1>2 DEF NumbersAreUnique
  <1>4. \A x, y \in Aborted(requests) : x.number = y.number => x = y
    BY <1>1, <1>2 DEF NumbersAreUnique
  <1> QED BY <1>3, <1>4

-----------------------------------------------------------------------------
(* Asking: what the step around runSubmission must see to.                 *)

LEMMA RunKeepsIInv ==
    ASSUME IInv, NEW q \in Questions, Run(q),
           page' \in {"fresh", "mounted"}, cleanup' \in BOOLEAN, landed' \in BOOLEAN,
           page' = "fresh" => landed', landing' = landing,
           form' \in Forms, form'.type = q.type, form'.subject = q.subject,
           stored' \in Teams \cup {None}, stored' = own', own' \in Teams \cup {None}
    PROVE  IInv'
  <1> DEFINE new == [number |-> latest + 1, question |-> q, aborted |-> FALSE]
  <1>1. requests' = Aborted(requests) \cup {new} /\ latest' = latest + 1
        /\ inFlight' = latest + 1 /\ submission' = q /\ screen' = [status |-> "loading"]
        /\ url' = toShareSearch(q)
    BY DEF Run
  <1>2. new \in Requests /\ new.number = latest + 1 /\ new.question = q /\ ~new.aborted
    BY DEF Requests, IInv, TypeOK
  <1>3. /\ Aborted(requests) \in SUBSET Requests
        /\ \A r \in Aborted(requests) : r.aborted /\ r.number <= latest
        /\ \A r, s \in Aborted(requests) : r.number = s.number => r = s
    BY AbortedFacts DEF IInv, TypeOK
  <1>4. latest \in Nat /\ \A r \in Requests : r.number \in Nat
    BY DEF IInv, TypeOK, Requests
  <1> HIDE DEF new
  <1>5. screen' \in Screens /\ screen' # None /\ screen'.status = "loading"
    BY <1>1, NoneIsNothing DEF Screens
  <1>6. TypeOK'
    <2>1. form'.subject \in AskedAbout(form'.type)
      BY DEF Questions, Links
    <2>2. url' \in Links
      BY <1>1, LinkIsWritten
    <2> QED BY <1>1, <1>2, <1>3, <1>4, <1>5, <2>1, <2>2 DEF IInv, TypeOK
  <1>7. OpeningIsBlank' /\ FreshHasLanded'
    BY DEF OpeningIsBlank, FreshHasLanded
  <1>8. NumbersAreUnique'
    BY <1>1, <1>2, <1>3, <1>4 DEF NumbersAreUnique
  <1>9. LiveIsLatest'
    BY <1>1, <1>2, <1>3 DEF LiveIsLatest
  <1>10. LiveIsLoading'
    BY <1>1, <1>2, <1>5 DEF LiveIsLoading, IsLoading
  <1>11. ReloadHolds'
    <2>1. q # None
      BY NoneIsNothing
    <2> QED BY <1>1, <1>5, <2>1, LinkRoundTrip DEF ReloadHolds
  <1>12. SavedTeamIsTheVisitors'
    BY DEF SavedTeamIsTheVisitors
  <1> QED BY <1>6, <1>7, <1>8, <1>9, <1>10, <1>11, <1>12 DEF IInv

\* Opening a document, by a link or by a reload.
LEMMA OpenedKeepsIInv ==
    ASSUME IInv, NEW l \in Links \cup {None}, OpenedOn(l)
    PROVE  IInv'
  <1> DEFINE q == fromShareSearch(l)
  <1>1. q \in Questions \cup {None}
    BY LinkReads
  <1>2. /\ Seeded(q) \in Forms
        /\ Seeded(q).subject # None => Seeded(q).subject \in AskedAbout(Seeded(q).type)
        /\ q # None => Seeded(q).type = q.type /\ Seeded(q).subject = q.subject
    BY <1>1, SeededForm DEF IInv, TypeOK
  <1>3. /\ page' = "opening" /\ cleanup' = FALSE /\ landed' = FALSE
        /\ landing' = q /\ url' = l /\ form' = Seeded(q)
        /\ submission' = None /\ screen' = None
        /\ latest' = 0 /\ inFlight' = 0 /\ requests' = {}
        /\ stored' = stored /\ own' = own
    BY DEF OpenedOn
  <1> HIDE DEF q
  <1>4. TypeOK'
    BY <1>1, <1>2, <1>3 DEF IInv, TypeOK
  <1>5. OpeningIsBlank' /\ FreshHasLanded' /\ NumbersAreUnique' /\ LiveIsLatest'
        /\ LiveIsLoading' /\ ReloadHolds' /\ SavedTeamIsTheVisitors'
    BY <1>2, <1>3
    DEF IInv, OpeningIsBlank, FreshHasLanded, NumbersAreUnique, LiveIsLatest,
        LiveIsLoading, ReloadHolds, SavedTeamIsTheVisitors
  <1> QED BY <1>4, <1>5 DEF IInv

\* The effects: the landing question, or nothing.
LEMMA LandKeepsIInv ==
    ASSUME IInv, Land, page \in {"opening", "fresh"}, page' \in {"fresh", "mounted"},
           page = "fresh" => page' = "mounted",
           cleanup' \in BOOLEAN, UNCHANGED <<landing, form, stored, own>>
    PROVE  IInv'
  <1>1. CASE landing = None \/ landed
    <2>1. UNCHANGED <<landed, latest, inFlight, requests, submission, screen, url>>
      BY <1>1 DEF Land
    <2>2. TypeOK' /\ OpeningIsBlank' /\ FreshHasLanded' /\ NumbersAreUnique' /\ LiveIsLatest'
      BY <1>1, <2>1
      DEF IInv, TypeOK, OpeningIsBlank, FreshHasLanded, NumbersAreUnique, LiveIsLatest
    <2>3. LiveIsLoading' /\ ReloadHolds' /\ SavedTeamIsTheVisitors'
      BY <2>1
      DEF IInv, OpeningIsBlank, LiveIsLoading, IsLoading, ReloadHolds, SavedTeamIsTheVisitors
    <2> QED BY <2>2, <2>3 DEF IInv
  <1>2. CASE landing # None /\ ~landed
    <2>1. page = "opening"
      BY <1>2 DEF IInv, FreshHasLanded
    <2>2. landed' /\ Run(landing)
      BY <1>2 DEF Land
    <2>3. landing \in Questions /\ form.type = landing.type /\ form.subject = landing.subject
      BY <1>2, <2>1 DEF IInv, TypeOK, OpeningIsBlank
    <2> QED
      BY <2>2, <2>3, RunKeepsIInv DEF IInv, TypeOK, SavedTeamIsTheVisitors
  <1> QED BY <1>1, <1>2 DEF IInv, TypeOK

\* CleanUp and Close abort what is in flight and ask nothing.
LEMMA CleanUpKeepsIInv == IInv /\ CleanUp => IInv'
  <1> SUFFICES ASSUME IInv, CleanUp PROVE IInv'
    OBVIOUS
  <1>1. CASE page = "mounted"
    <2>1. UNCHANGED <<page, landing, landed, submission, screen, form, stored, url,
                      latest, inFlight, requests, own>> /\ cleanup' = FALSE
      BY <1>1 DEF CleanUp
    <2> QED
      BY <1>1, <2>1
      DEF IInv, TypeOK, OpeningIsBlank, FreshHasLanded, NumbersAreUnique, LiveIsLatest,
          LiveIsLoading, IsLoading, ReloadHolds, SavedTeamIsTheVisitors
  <1>2. CASE page # "mounted"
    <2>1. /\ UNCHANGED <<page, landing, landed, submission, screen, form, stored, url, latest, own>>
          /\ cleanup' = FALSE /\ requests' = Aborted(requests) /\ inFlight' = 0
          /\ page \in {"opening", "gone"}
      BY <1>2 DEF CleanUp, IInv, TypeOK
    <2>2. /\ Aborted(requests) \in SUBSET Requests
          /\ \A r \in Aborted(requests) : r.aborted /\ r.number <= latest
          /\ \A r, s \in Aborted(requests) : r.number = s.number => r = s
          /\ requests = {} => Aborted(requests) = {}
      BY AbortedFacts DEF IInv, TypeOK, Aborted
    <2> QED
      BY <2>1, <2>2
      DEF IInv, TypeOK, OpeningIsBlank, FreshHasLanded, NumbersAreUnique, LiveIsLatest,
          LiveIsLoading, IsLoading, ReloadHolds, SavedTeamIsTheVisitors
  <1> QED BY <1>1, <1>2

LEMMA CloseKeepsIInv == IInv /\ Close => IInv'
  <1> SUFFICES ASSUME IInv, Close PROVE IInv'
    OBVIOUS
  <1>1. /\ UNCHANGED <<page, cleanup, landing, landed, submission, form, stored, own>>
        /\ requests' = Aborted(requests) /\ inFlight' = 0 /\ latest' = latest + 1
        /\ screen' = None /\ url' = None /\ page = "mounted"
    BY DEF Close, Idle
  <1>2. /\ Aborted(requests) \in SUBSET Requests
        /\ \A r \in Aborted(requests) : r.aborted /\ r.number <= latest
        /\ \A r, s \in Aborted(requests) : r.number = s.number => r = s
    BY AbortedFacts DEF IInv, TypeOK
  <1>3. latest \in Nat /\ \A r \in Requests : r.number \in Nat
    BY DEF IInv, TypeOK, Requests
  <1>4. TypeOK' /\ NumbersAreUnique'
    BY <1>1, <1>2, <1>3 DEF IInv, TypeOK, NumbersAreUnique
  <1>5. fromShareSearch(None) = None
    BY DEF fromShareSearch
  <1> QED
    BY <1>1, <1>2, <1>4, <1>5
    DEF IInv, OpeningIsBlank, FreshHasLanded, LiveIsLatest,
        LiveIsLoading, IsLoading, ReloadHolds, SavedTeamIsTheVisitors

\* A request settles: the only live one finds its own question loading.
LEMMA SettledScreen ==
    ASSUME IInv, NEW r \in requests, Settle(r)
    PROVE  \/ UNCHANGED screen /\ (~r.aborted => page = "gone")
           \/ /\ page = "mounted" /\ ~r.aborted /\ IsLoading /\ r.question = submission
              /\ screen' \in Answers(r.question)
  <1>1. page \in {"mounted", "gone"}
    BY DEF Settle, IInv, TypeOK, OpeningIsBlank
  <1>2. Current(r) <=> ~r.aborted
    BY DEF Current, IInv, LiveIsLatest
  <1>3. CASE ~r.aborted /\ page # "gone"
    <2>1. page = "mounted" /\ IsLoading /\ r.question = submission
      BY <1>1, <1>3 DEF IInv, LiveIsLoading, LiveIsLatest
    <2>2. screen' \in Answers(r.question)
      BY <1>2, <1>3 DEF Settle
    <2> QED BY <1>3, <2>1, <2>2
  <1>4. CASE ~(~r.aborted /\ page # "gone")
    BY <1>2, <1>4 DEF Settle
  <1> QED BY <1>3, <1>4

LEMMA AnswerFacts ==
    ASSUME NEW q \in Questions, NEW a \in Answers(q)
    PROVE  /\ a \in Screens /\ a # None /\ a.status \in {"success", "error"}
           /\ a.status = "success" => a.about = q
  <1>1. a = [status |-> "error"] \/ a = [status |-> "success", about |-> q]
    BY DEF Answers
  <1> QED BY <1>1, NoneIsNothing DEF Screens

LEMMA SettleKeepsIInv == ASSUME IInv, NEW r \in requests, Settle(r) PROVE IInv'
  <1>1. /\ requests' = requests \ {r}
        /\ inFlight' = IF inFlight = r.number THEN 0 ELSE inFlight
        /\ UNCHANGED <<page, cleanup, landing, landed, submission, form, stored, url, latest, own>>
        /\ page # "fresh"
    BY DEF Settle
  <1>2. r \in Requests /\ r.question \in Questions
    BY DEF IInv, TypeOK, Requests
  <1>3. screen' \in Screens \cup {None} /\ (screen = None => screen' = None)
    BY <1>2, SettledScreen, AnswerFacts DEF IInv, TypeOK, IsLoading
  <1>4. page = "mounted" => (screen # None => screen' # None)
    BY <1>2, SettledScreen, AnswerFacts
  <1>5. TypeOK'
    BY <1>1, <1>3 DEF IInv, TypeOK
  <1>6. OpeningIsBlank' /\ FreshHasLanded' /\ NumbersAreUnique' /\ SavedTeamIsTheVisitors'
    BY <1>1, <1>3
    DEF IInv, OpeningIsBlank, FreshHasLanded, NumbersAreUnique, SavedTeamIsTheVisitors
  <1>7. LiveIsLatest'
    BY <1>1 DEF IInv, LiveIsLatest, NumbersAreUnique
  <1>8. LiveIsLoading'
    <2>1. CASE UNCHANGED screen /\ (~r.aborted => page = "gone")
      BY <1>1, <2>1 DEF IInv, LiveIsLoading, IsLoading
    <2>2. CASE /\ page = "mounted" /\ ~r.aborted /\ IsLoading
               /\ screen' \in Answers(r.question)
      <3>1. \A s \in requests' : s.aborted
        BY <1>1, <2>2 DEF IInv, LiveIsLatest, NumbersAreUnique
      <3>2. ~IsLoading'
        BY <1>2, <2>2, AnswerFacts DEF IsLoading
      <3> QED BY <1>1, <2>2, <3>1, <3>2 DEF LiveIsLoading
    <2> QED BY <2>1, <2>2, SettledScreen
  <1>9. ReloadHolds'
    BY <1>1, <1>3, <1>4 DEF IInv, ReloadHolds
  <1> QED BY <1>5, <1>6, <1>7, <1>8, <1>9 DEF IInv

-----------------------------------------------------------------------------
(* The invariant.                                                          *)

LEMMA InitIInv == Init => IInv
  <1> SUFFICES ASSUME Init PROVE IInv
    OBVIOUS
  <1>1. landing \in Questions \cup {None} /\ url \in Links \cup {None}
    BY LinkReads DEF Init
  <1>2. /\ form \in Forms
        /\ form.subject # None => form.subject \in AskedAbout(form.type)
        /\ landing # None => form.type = landing.type /\ form.subject = landing.subject
    BY <1>1, SeededForm DEF Init
  <1> QED
    BY <1>1, <1>2
    DEF Init, IInv, TypeOK, OpeningIsBlank, FreshHasLanded, NumbersAreUnique, LiveIsLatest,
        LiveIsLoading, ReloadHolds, SavedTeamIsTheVisitors

LEMMA EditKeepsIInv ==
    ASSUME IInv, page = "mounted", screen = None, form' \in Forms,
           form'.subject # None => form'.subject \in AskedAbout(form'.type),
           stored' \in Teams \cup {None}, own' = stored',
           UNCHANGED <<page, cleanup, landing, landed, submission, screen, url,
                       latest, inFlight, requests>>
    PROVE  IInv'
  BY DEF IInv, TypeOK, OpeningIsBlank, FreshHasLanded, NumbersAreUnique, LiveIsLatest,
         LiveIsLoading, IsLoading, ReloadHolds, SavedTeamIsTheVisitors

LEMMA NextIInv == IInv /\ [Next]_vars => IInv'
  <1> SUFFICES ASSUME IInv, [Next]_vars PROVE IInv'
    OBVIOUS
  <1> USE NoneIsNothing
  <1>1. ASSUME NEW l \in Links \cup {None}, Open(l) PROVE IInv'
    BY <1>1, OpenedKeepsIInv DEF Open
  <1>2. CASE Reload
    BY <1>2, OpenedKeepsIInv DEF Reload, IInv, TypeOK
  <1>3. ASSUME NEW strict \in BOOLEAN, Mount(strict) PROVE IInv'
    BY <1>3, LandKeepsIInv DEF Mount, IInv, TypeOK
  <1>4. CASE Rehearse
    BY <1>4, LandKeepsIInv DEF Rehearse
  <1>5. CASE CleanUp
    BY <1>5, CleanUpKeepsIInv
  <1>6. CASE Leave
    BY <1>6
    DEF Leave, IInv, TypeOK, OpeningIsBlank, FreshHasLanded, NumbersAreUnique, LiveIsLatest,
        LiveIsLoading, ReloadHolds, SavedTeamIsTheVisitors
  <1>7. ASSUME NEW type \in Types, NEW subject \in Subjects, Type(type, subject) PROVE IInv'
    <2>1. form' \in Forms /\ form'.type = type /\ form'.subject = subject
      BY <1>7 DEF Type, IInv, TypeOK, Forms
    <2> QED
      BY <1>7, <2>1, EditKeepsIInv DEF Type, Idle, IInv, TypeOK, SavedTeamIsTheVisitors
  <1>8. ASSUME NEW t \in Teams \cup {None}, EnterTeam(t) PROVE IInv'
    <2>1. form' \in Forms /\ form'.type = form.type /\ form'.subject = form.subject
      BY <1>8 DEF EnterTeam, IInv, TypeOK, Forms
    <2> QED BY <1>8, <2>1, EditKeepsIInv DEF EnterTeam, Idle, IInv, TypeOK
  <1>9. CASE ClearTeam
    <2>1. form' \in Forms /\ form'.type = form.type /\ form'.subject = form.subject
      BY <1>9 DEF ClearTeam, IInv, TypeOK, Forms
    <2> QED
      BY <1>9, <2>1, EditKeepsIInv DEF ClearTeam, Idle, IInv, TypeOK, SavedTeamIsTheVisitors
  <1>10. CASE Submit
    <2> DEFINE q == [type |-> form.type, subject |-> form.subject,
                     for |-> IF form.type = "champion" THEN None ELSE form.for]
    <2>1. q \in Questions
      BY <1>10 DEF Submit, Questions, Links, IInv, TypeOK, Forms, AskedAbout
    <2>2. Run(q) /\ page' = "mounted" /\ UNCHANGED <<cleanup, landing, landed, form, stored, own>>
          /\ q.type = form.type /\ q.subject = form.subject
      BY <1>10 DEF Submit, Idle
    <2> HIDE DEF q
    <2> QED
      BY <2>1, <2>2, RunKeepsIInv DEF IInv, TypeOK, SavedTeamIsTheVisitors
  <1>11. ASSUME NEW subject \in Subjects, Correct(subject) PROVE IInv'
    <2> DEFINE q == [submission EXCEPT !.subject = subject]
    <2>1. submission \in Questions /\ subject \in AskedAbout(submission.type)
      BY <1>11 DEF Correct, Idle, IInv, TypeOK, ReloadHolds
    <2>2. q \in Questions
      BY <2>1 DEF Questions, Links
    <2>3. Reseeded(q) \in Forms /\ Reseeded(q).type = q.type /\ Reseeded(q).subject = q.subject
      BY <2>2 DEF Reseeded, Forms, Questions, Links, AskedAbout, Types, IInv, TypeOK
    <2>4. Run(q) /\ page' = "mounted" /\ form' = Reseeded(q)
          /\ UNCHANGED <<cleanup, landing, landed, stored, own>>
      BY <1>11 DEF Correct, Idle
    <2> HIDE DEF q
    <2> QED
      BY <2>2, <2>3, <2>4, RunKeepsIInv DEF IInv, TypeOK, SavedTeamIsTheVisitors
  <1>12. CASE Close
    BY <1>12, CloseKeepsIInv
  <1>13. ASSUME NEW r \in requests, Settle(r) PROVE IInv'
    BY <1>13, SettleKeepsIInv
  <1>14. CASE UNCHANGED vars
    BY <1>14
    DEF vars, IInv, TypeOK, OpeningIsBlank, FreshHasLanded, NumbersAreUnique, LiveIsLatest,
        LiveIsLoading, IsLoading, ReloadHolds, SavedTeamIsTheVisitors
  <1> QED
    BY <1>1, <1>2, <1>3, <1>4, <1>5, <1>6, <1>7, <1>8, <1>9, <1>10, <1>11, <1>12, <1>13, <1>14
    DEF Next

LEMMA IInvHolds == Spec => []IInv
  BY InitIInv, NextIInv, PTL DEF Spec

LEMMA IInvSuffices == IInv => OneLiveRequest /\ ReloadAsksTheSame /\ SavedTeamIsTheVisitors
  <1> SUFFICES ASSUME IInv PROVE OneLiveRequest /\ ReloadAsksTheSame /\ SavedTeamIsTheVisitors
    OBVIOUS
  <1>1. OneLiveRequest
    BY DEF IInv, LiveIsLatest, LiveIsLoading, IsLoading, OneLiveRequest
  <1>2. ReloadAsksTheSame
    BY DEF IInv, ReloadHolds, ReloadAsksTheSame
  <1> QED BY <1>1, <1>2 DEF IInv

\* The home page's variables keep their types.
THEOREM TypeCorrect == Spec => []TypeOK
  <1>1. IInv => TypeOK
    BY DEF IInv
  <1> QED BY <1>1, IInvHolds, PTL

\* The only request not aborted is the one for the question on screen as
\* loading, and a loading screen has it, however requests settle.
THEOREM OnlyTheLatestIsLive == Spec => []OneLiveRequest
  BY IInvHolds, IInvSuffices, PTL

\* Form, address bar and verdict stay three copies of one question.
THEOREM ThreeCopiesAgree == Spec => []ReloadAsksTheSame
  BY IInvHolds, IInvSuffices, PTL

\* A link's team is never taken for the visitor's own.
THEOREM SavedTeamIsNeverALinks == Spec => []SavedTeamIsTheVisitors
  BY IInvHolds, IInvSuffices, PTL

-----------------------------------------------------------------------------
(* The refinement: asking is Ask, a request that settles for a page that   *)
(* waits for it is Answered, dismissing, leaving and opening are Nothing,  *)
(* and everything else is a stutter.                                       *)

OnScreen ==
    IF screen = None THEN None
    ELSE [status |-> screen.status,
          question |-> IF screen.status = "success" THEN screen.about ELSE submission]

LEMMA InitImplementsPromise == Init => Promise!ScreenInit
  BY DEF Init, Promise!ScreenInit

LEMMA AskImplementsAsk ==
    ASSUME NEW q \in Questions, Run(q)
    PROVE  Promise!Ask
  <1>1. screen' = [status |-> "loading"] /\ submission' = q
    BY DEF Run
  <1>2. screen' # None
    BY <1>1, NoneIsNothing DEF Screens
  <1>3. OnScreen' = [status |-> "loading", question |-> q]
    BY <1>1, <1>2 DEF OnScreen
  <1> QED BY <1>3 DEF OnScreen, Promise!Ask

LEMMA StepImplementsPromise ==
    IInv /\ [Next]_vars => [Promise!ScreenNext]_OnScreen
  <1> SUFFICES ASSUME IInv, [Next]_vars PROVE Promise!ScreenNext \/ OnScreen' = OnScreen
    OBVIOUS
  <1> USE DEF Promise!ScreenNext
  <1>1. ASSUME UNCHANGED <<screen, submission>> PROVE OnScreen' = OnScreen
    BY <1>1 DEF OnScreen
  <1>2. ASSUME screen' = None PROVE Promise!Nothing
    BY <1>2 DEF Promise!Nothing
  <1>3. ASSUME NEW q \in Questions, Run(q) PROVE Promise!Ask
    BY <1>3, AskImplementsAsk
  <1>4. ASSUME Land PROVE Promise!Ask \/ UNCHANGED <<screen, submission>>
    BY <1>3, <1>4 DEF Land, IInv, TypeOK
  <1>5. ASSUME NEW l, OpenedOn(l) PROVE Promise!Nothing
    BY <1>2, <1>5 DEF OpenedOn
  <1>6. CASE Submit
    <2> DEFINE q == [type |-> form.type, subject |-> form.subject,
                     for |-> IF form.type = "champion" THEN None ELSE form.for]
    <2>1. q \in Questions
      BY <1>6, NoneIsNothing DEF Submit, Questions, Links, IInv, TypeOK, Forms, AskedAbout
    <2>2. Run(q)
      BY <1>6 DEF Submit
    <2> QED BY <1>3, <2>1, <2>2
  <1>7. ASSUME NEW subject \in Subjects, Correct(subject) PROVE Promise!Ask
    <2> DEFINE q == [submission EXCEPT !.subject = subject]
    <2>1. submission \in Questions /\ subject \in AskedAbout(submission.type)
      BY <1>7 DEF Correct, Idle, IInv, TypeOK, ReloadHolds
    <2>2. q \in Questions
      BY <2>1 DEF Questions, Links
    <2>3. Run(q)
      BY <1>7 DEF Correct
    <2> QED BY <1>3, <2>2, <2>3
  <1>8. ASSUME NEW r \in requests, Settle(r)
        PROVE  Promise!Answered \/ UNCHANGED <<screen, submission>>
    <2>1. submission' = submission
      BY <1>8 DEF Settle
    <2>2. CASE UNCHANGED screen
      BY <2>1, <2>2
    <2>3. CASE IsLoading /\ r.question = submission /\ screen' \in Answers(r.question)
      <3>1. r.question \in Questions
        BY DEF IInv, TypeOK, Requests
      <3>2. /\ screen' # None /\ screen'.status \in {"success", "error"}
            /\ screen'.status = "success" => screen'.about = submission
        BY <2>3, <3>1, AnswerFacts
      <3>3. OnScreen = [status |-> "loading", question |-> submission]
        BY <2>3 DEF OnScreen, IsLoading
      <3>4. OnScreen' = [status |-> screen'.status, question |-> submission]
        BY <2>1, <3>2 DEF OnScreen
      <3>5. OnScreen # None /\ OnScreen.status = "loading"
        BY <2>3, <3>1, <3>3, NoneAssumption DEF NoneAssumption
      <3>6. OnScreen' = [OnScreen EXCEPT !.status = screen'.status]
        BY <3>3, <3>4
      <3> QED BY <3>2, <3>5, <3>6 DEF OnScreen, Promise!Answered
    <2> QED BY <1>8, <2>2, <2>3, SettledScreen
  <1>9. CASE \/ Rehearse \/ \E strict \in BOOLEAN : Mount(strict)
    BY <1>1, <1>4, <1>9 DEF Rehearse, Mount
  <1>10. CASE Leave \/ Close \/ Reload \/ \E l \in Links \cup {None} : Open(l)
    BY <1>2, <1>5, <1>10 DEF Leave, Close, Reload, Open
  <1>11. CASE \/ CleanUp \/ ClearTeam \/ \E t \in Teams \cup {None} : EnterTeam(t)
              \/ \E type \in Types, subject \in Subjects : Type(type, subject)
              \/ UNCHANGED vars
    BY <1>1, <1>11 DEF CleanUp, ClearTeam, EnterTeam, Type, vars
  <1> QED BY <1>1, <1>3, <1>6, <1>7, <1>8, <1>9, <1>10, <1>11 DEF Next

\* The page implements ScreenPromise: what is shown is the question asked last
\* and then its answer, whatever else settles late, is aborted or is lost.
THEOREM PageKeepsPromise == Spec => KeepsPromise
  BY InitImplementsPromise, StepImplementsPromise, IInvHolds, PTL
  DEF Spec, KeepsPromise, Promise!ScreenSpec, OnScreen
=============================================================================
