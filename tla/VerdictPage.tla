---------------------------- MODULE VerdictPage ----------------------------
(***************************************************************************)
(* apps/web HomePage: the form, the verdict shown over it, the address bar *)
(* and the verdict requests behind them.  A question is put by the form,   *)
(* by a share link the page is opened on, or by a pill on the verdict; it  *)
(* is answered, in any order and perhaps despite being aborted, by the     *)
(* promise runSubmission awaits.                                           *)
(*                                                                         *)
(* What a question asks about (league, engine, year, team or teams) is one *)
(* subject; Plain are the ones every name of which a share link accepts.   *)
(* A champion question has no team name and no user team.                  *)
(***************************************************************************)
EXTENDS Integers

CONSTANTS
    Subjects, Plain,        \* what is asked about; those spelled plainly
    Teams, PlainTeams,      \* user teams ("your team"); those spelled plainly
    MaxAsks,                \* bound: question numbers one visit may spend
    None

ASSUME PlainAssumption == Plain \subseteq Subjects /\ PlainTeams \subseteq Teams
ASSUME AsksAssumption == MaxAsks \in Nat

Types == {"champion", "team"}
AskedAbout(type) == IF type = "champion" THEN Plain ELSE Subjects

\* A QuestionSubmission, or the parameters of a link.
Links == {l \in [type : Types, subject : Subjects, for : Teams \cup {None}] :
              l.subject \in AskedAbout(l.type)}
Questions == {q \in Links : q.type = "champion" => q.for = None}

Numbers == 1..MaxAsks

\* What the modal holds while it is open.
Screens == [status : {"loading", "error"}] \cup [status : {"success"}, about : Questions]

\* None stands for nothing: it is no name, no question and no verdict.
ASSUME NoneAssumption ==
    /\ None \notin Teams \cup Subjects /\ None \notin Links \cup Screens
    /\ None \notin [status : {"loading", "success", "error"}, question : Questions \cup {None}]

VARIABLES
    page,       \* "opening" until its effects ran, then "fresh" while
                \* StrictMode rehearses the unmount, "mounted", or "gone"
    cleanup,    \* the unmount effect's microtask is queued
    landing,    \* the question the page was opened on, or None
    landed,     \* landedRef
    submission, \* the question asked last, or None
    screen,     \* the verdict modal: None while it is closed, or [status], with the
                \* question it is about once a verdict is in
    form,       \* the form's fields; seeded: "your team" is a link's, unedited
    stored,     \* the visitor's saved team, in localStorage
    url,        \* the address bar's query, or None for none or a malformed one
    latest,     \* latestQuestionRef
    inFlight,   \* the number of inFlightRef's request, or 0
    requests,   \* the requests not settled yet, [number, question, aborted]
    own         \* history: the team the visitor entered last, on any visit

vars == <<page, cleanup, landing, landed, submission, screen, form, stored,
          url, latest, inFlight, requests, own>>

----------------------------------------------------------------------------
(* The share link, written and read. *)

toShareSearch(q) == IF q.type = "champion" THEN [q EXCEPT !.for = None] ELSE q

fromShareSearch(l) ==
    IF l = None THEN None
    ELSE IF l.type = "champion" THEN [l EXCEPT !.for = None]
    ELSE IF l.subject \in Plain /\ l.for \in PlainTeams \cup {None} THEN l
    ELSE None

\* The form as the page mounts it: seeded by a link, or with the saved team.
Seeded(q) ==
    IF q = None
    THEN [type |-> "champion", subject |-> None, for |-> stored, seeded |-> FALSE]
    ELSE [type |-> q.type, subject |-> q.subject,
          for |-> IF q.type = "champion" THEN stored ELSE q.for,
          seeded |-> q.type # "champion"]

\* As it is after a correction: "your team" is read from storage again.
Reseeded(q) == [type |-> q.type, subject |-> q.subject, for |-> stored, seeded |-> FALSE]

----------------------------------------------------------------------------
(* Opening the page, by a link or by a reload of the address it has.  The  *)
(* document before it is gone, and what it still had under way with it.    *)

OpenedOn(l) ==
    /\ page' = "opening" /\ cleanup' = FALSE /\ landed' = FALSE
    /\ landing' = fromShareSearch(l) /\ url' = l
    /\ form' = Seeded(fromShareSearch(l))
    /\ submission' = None /\ screen' = None
    /\ latest' = 0 /\ inFlight' = 0 /\ requests' = {}
    /\ UNCHANGED <<stored, own>>

Open(l) == page = "gone" /\ ~cleanup /\ OpenedOn(l)

Reload == page = "mounted" /\ ~cleanup /\ OpenedOn(url)

Init ==
    /\ stored \in Teams \cup {None} /\ own = stored
    /\ url \in Links \cup {None}
    /\ page = "opening" /\ cleanup = FALSE /\ landed = FALSE
    /\ landing = fromShareSearch(url)
    /\ form = Seeded(landing)
    /\ submission = None /\ screen = None
    /\ latest = 0 /\ inFlight = 0 /\ requests = {}

----------------------------------------------------------------------------
(* runSubmission, up to its await; and abortInFlight. *)

\* Mutant: a superseded or dismissed request is only ignored (issue #214).
NeverAborted(R) == R

Aborted(R) == {[r EXCEPT !.aborted = r.aborted \/ r.number = inFlight] : r \in R}

Run(q) ==
    /\ latest < MaxAsks
    /\ latest' = latest + 1 /\ inFlight' = latest + 1
    /\ requests' = Aborted(requests) \cup
           {[number |-> latest + 1, question |-> q, aborted |-> FALSE]}
    /\ submission' = q
    /\ screen' = [status |-> "loading"]
    /\ url' = toShareSearch(q)

\* The landing effect: asked once, although StrictMode runs it twice.
Land ==
    IF landing = None \/ landed
    THEN UNCHANGED <<landed, latest, inFlight, requests, submission, screen, url>>
    ELSE landed' = TRUE /\ Run(landing)

Mount(strict) ==
    /\ page = "opening"
    /\ page' = IF strict THEN "fresh" ELSE "mounted"
    /\ Land
    /\ UNCHANGED <<cleanup, landing, form, stored, own>>

\* StrictMode's rehearsal: the cleanup, and the effects again at once.
Rehearse ==
    /\ page = "fresh"
    /\ page' = "mounted" /\ cleanup' = TRUE
    /\ Land
    /\ UNCHANGED <<landing, form, stored, own>>

\* Mutant: the unmount aborts at once, StrictMode's rehearsal included.
CleanUpUnasked ==
    /\ cleanup /\ page # "fresh"
    /\ cleanup' = FALSE
    /\ requests' = Aborted(requests) /\ inFlight' = 0
    /\ UNCHANGED <<page, landing, landed, submission, screen, form, stored, url, latest, own>>

CleanUp ==
    /\ cleanup /\ page # "fresh"
    /\ cleanup' = FALSE
    /\ IF page = "mounted"
       THEN UNCHANGED <<requests, inFlight>>
       ELSE requests' = Aborted(requests) /\ inFlight' = 0
    /\ UNCHANGED <<page, landing, landed, submission, screen, form, stored, url, latest, own>>

Leave ==
    /\ page = "mounted" /\ ~cleanup
    /\ page' = "gone" /\ cleanup' = TRUE
    /\ screen' = None
    /\ UNCHANGED <<landing, landed, submission, form, stored, url, latest,
                   inFlight, requests, own>>

----------------------------------------------------------------------------
(* The visitor.  A microtask runs before the next event is handled, and    *)
(* the form is inert while the modal is open, except to a submit that is   *)
(* not a click on its button.                                              *)

Idle == page = "mounted" /\ ~cleanup

Type(type, subject) ==
    /\ Idle /\ screen = None
    /\ subject \in AskedAbout(type)
    /\ form' = [form EXCEPT !.type = type, !.subject = subject]
    /\ UNCHANGED <<page, cleanup, landing, landed, submission, screen, stored,
                   url, latest, inFlight, requests, own>>

\* handleUserTeamChange: an edit is always saved.
EnterTeam(t) ==
    /\ Idle /\ screen = None
    /\ form' = [form EXCEPT !.for = t, !.seeded = FALSE]
    /\ stored' = t /\ own' = t
    /\ UNCHANGED <<page, cleanup, landing, landed, submission, screen, url,
                   latest, inFlight, requests>>

\* Mutant: a league switch clears the saved team under a link's, too.
ClearTeamSaved ==
    /\ Idle /\ screen = None
    /\ form' = [form EXCEPT !.for = None]
    /\ stored' = None
    /\ IF form.seeded THEN UNCHANGED own ELSE own' = None
    /\ UNCHANGED <<page, cleanup, landing, landed, submission, screen, url,
                   latest, inFlight, requests>>

\* clearUserTeam, for a league switch: a link's team is not the visitor's.
ClearTeam ==
    /\ Idle /\ screen = None
    /\ form' = [form EXCEPT !.for = None]
    /\ IF form.seeded THEN UNCHANGED <<stored, own>> ELSE stored' = None /\ own' = None
    /\ UNCHANGED <<page, cleanup, landing, landed, submission, screen, url,
                   latest, inFlight, requests>>

Submit ==
    /\ Idle /\ form.subject # None
    /\ Run([type |-> form.type, subject |-> form.subject,
            for |-> IF form.type = "champion" THEN None ELSE form.for])
    /\ UNCHANGED <<page, cleanup, landing, landed, form, stored, own>>

\* A pill: the same question about another subject, asked over the old one.
Correct(subject) ==
    /\ Idle
    /\ screen # None /\ screen.status # "loading"
    /\ subject \in AskedAbout(submission.type)
    /\ LET q == [submission EXCEPT !.subject = subject]
       IN  form' = Reseeded(q) /\ Run(q)
    /\ UNCHANGED <<page, cleanup, landing, landed, stored, own>>

\* Mutant: the dismissed verdict's link stays in the address bar.
CloseKeepingLink ==
    /\ Idle /\ screen # None
    /\ latest < MaxAsks
    /\ requests' = Aborted(requests) /\ inFlight' = 0
    /\ latest' = latest + 1
    /\ screen' = None
    /\ UNCHANGED <<page, cleanup, landing, landed, submission, form, stored, url, own>>

Close ==
    /\ Idle /\ screen # None
    /\ latest < MaxAsks
    /\ requests' = Aborted(requests) /\ inFlight' = 0
    /\ latest' = latest + 1
    /\ screen' = None
    /\ url' = None
    /\ UNCHANGED <<page, cleanup, landing, landed, submission, form, stored, own>>

----------------------------------------------------------------------------
(* The rest of runSubmission: the response, an error, or the 30 s deadline *)
(* of withDeadline, for any request at all, aborted or not.  The API only  *)
(* has a verdict about names that are in its catalog.                      *)

Answers(q) == {[status |-> "error"]} \cup
    {a \in {[status |-> "success", about |-> q]} : q.subject \in Plain}

\* Mutant: whatever comes back is shown (before issues #198 and #217).
CurrentOrNot(r) == TRUE

Current(r) == ~r.aborted /\ r.number = latest

Settle(r) ==
    /\ page # "fresh"
    /\ requests' = requests \ {r}
    /\ inFlight' = IF inFlight = r.number THEN 0 ELSE inFlight
    /\ IF Current(r) /\ page # "gone"
       THEN \E a \in Answers(r.question) : screen' = a
       ELSE UNCHANGED screen
    /\ UNCHANGED <<page, cleanup, landing, landed, submission, form, stored,
                   url, latest, own>>

----------------------------------------------------------------------------
Next ==
    \/ \E l \in Links \cup {None} : Open(l)
    \/ Reload
    \/ \E strict \in BOOLEAN : Mount(strict)
    \/ Rehearse
    \/ CleanUp
    \/ Leave
    \/ \E type \in Types, subject \in Subjects : Type(type, subject)
    \/ \E t \in Teams \cup {None} : EnterTeam(t)
    \/ ClearTeam
    \/ Submit
    \/ \E subject \in Subjects : Correct(subject)
    \/ Close
    \/ \E r \in requests : Settle(r)

Spec == Init /\ [][Next]_vars

\* Every request settles, in 30 s at the latest, and the page's effects and
\* microtasks run; nothing is asked of the visitor.
Fairness ==
    /\ WF_vars(\E strict \in BOOLEAN : Mount(strict))
    /\ WF_vars(Rehearse)
    /\ WF_vars(CleanUp)
    /\ \A n \in Numbers : WF_vars(\E r \in requests : r.number = n /\ Settle(r))

FairSpec == Spec /\ Fairness

----------------------------------------------------------------------------
(* Properties *)

\* The modal only ever shows the question asked last, and then its answer;
\* a late answer, to a question closed or replaced, changes nothing.
Promise == INSTANCE ScreenPromise WITH shown <-
    IF screen = None THEN None
    ELSE [status |-> screen.status,
          question |-> IF screen.status = "success" THEN screen.about ELSE submission]

KeepsPromise == Promise!ScreenSpec

\* A request that still has a caller waiting is the one for the question on
\* screen as loading; every other one is aborted, so an abandoned question
\* costs the API nothing more, and none outlives the page.  Conversely a
\* loading screen has its request, which no rehearsed unmount has aborted.
OneLiveRequest ==
    LET live == {r \in requests : ~r.aborted}
    IN  /\ \A r \in live : r.number = inFlight /\ r.number = latest
        /\ page \in {"fresh", "mounted"} =>
               (live # {} <=> screen # None /\ screen.status = "loading")
        /\ page = "gone" /\ ~cleanup => live = {}

\* While the modal is open the form behind it holds the question (issue #38)
\* and reloading the address asks that question again, if a link can say it;
\* once it is closed, and nothing was edited, reloading shows the plain form.
ReloadAsksTheSame ==
    page = "mounted" =>
        IF screen = None
        THEN latest > 0 => fromShareSearch(url) = None
        ELSE /\ form.type = submission.type /\ form.subject = submission.subject
             /\ submission.subject \in Plain /\ submission.for \in PlainTeams \cup {None}
                    => fromShareSearch(url) = submission

\* A link's team is never saved as the visitor's, and the visitor's own is
\* never lost to a link, whatever is clicked in between (issue #184).
SavedTeamIsTheVisitors == stored = own

\* A question is not left loading: it is answered, fails, is replaced or
\* closed, even when nothing ever comes back for it.
LoadingEnds ==
    (screen # None /\ screen.status = "loading")
        ~> (screen = None \/ screen.status # "loading")
=============================================================================
