---------------------------- MODULE ComparePage ----------------------------
(***************************************************************************)
(* apps/web PlayerComparePage and its hook usePlayerSearch: two fields, an *)
(* address ?a=&b= that is the comparison asked for, and requests that come *)
(* back in any order: the comparison, the position of a refused Player B,  *)
(* the career of a lone link's player, the career of a Player A whose      *)
(* group nobody has said, Player B's search, and the paid narration of two *)
(* quarterbacks.                                                           *)
(*                                                                         *)
(* Every action is a handler, or a callback of a promise, with the render  *)
(* and the effects that follow it: an effect runs again when what it       *)
(* depends on changed, after the clean-up of its last run.                 *)
(*                                                                         *)
(* Names, prompts and focus are left out, and so is Player A's search,     *)
(* which may list anybody.  Two abandoned requests for the same thing are  *)
(* one: neither does anything when it settles.                             *)
(***************************************************************************)
EXTENDS Naturals, FiniteSets

CONSTANTS
    Players,
    GroupOf,        \* each player's position group, or None
    Quarterbacks,   \* the group that is narrated
    Texts,          \* typed texts long enough to be searched
    Links,          \* bound: the addresses a link or a history entry may name
    MaxAbandoned,   \* bound: abandoned requests not settled yet
    None

Picks == [a : Players \cup {None}, b : Players \cup {None}]

ASSUME GroupAssumption == Players \subseteq DOMAIN GroupOf
ASSUME LinkAssumption == Links \subseteq Picks
VARIABLES
    url,            \* the players ?a and ?b name
    slots,          \* the players picked into the two fields
    text,           \* the text typed into Player B's, or None
    known,          \* profiles: the players whose group the page has learned
    comparisonAnswer,
    careerAnswer,
    narrationAnswer,
    answer,         \* usePlayerSearch's last answer for Player B
    requests,       \* the requests not settled; an abandoned one is not live
    lookedUp        \* lookedUpRef

answers == <<known, comparisonAnswer, careerAnswer, narrationAnswer, answer>>
vars == <<url, slots, text, answers, requests, lookedUp>>

Pairs == {p \in Picks : p.a # None /\ p.b # None /\ p.a # p.b}
Groups == {GroupOf[p] : p \in Players} \ {None}
Queries == [group : Groups, text : Texts]
InGroup(g) == {p \in Players : GroupOf[p] = g}
Both(pair) == {pair.a, pair.b}

\* What an answer may be: of a comparison or narration, a career, a search.
Verdicts == [pair : Pairs, status : {"success", "not_comparable", "error"}]
Careers == [id : Players, status : {"success", "error"}]
Lists == [query : Queries, rows : SUBSET Players]

\* None stands for nothing: it is no name, no address and no answer.
ASSUME NoneAssumption ==
    /\ None \notin Players \cup Texts
    /\ None \notin Picks \cup Queries
    /\ None \notin Verdicts \cup Careers \cup Lists

-----------------------------------------------------------------------------
(* What a render makes of the state. *)

askedPair == url.a # None /\ url.b # None

\* comparisonKey: the same player twice is answered without asking.
comparisonPair == IF url \in Pairs THEN url ELSE None

loneId ==
    CASE url.b = None -> url.a
      [] url.a = None -> url.b
      [] OTHER        -> None

\* Matched by the pair: an answer for another pair is not on screen.
Shown(statuses) ==
    /\ comparisonAnswer # None /\ comparisonPair # None
    /\ comparisonAnswer.pair = comparisonPair
    /\ comparisonAnswer.status \in statuses

settled == Shown({"success", "not_comparable", "error"})

qbPair ==
    IF Shown({"success"}) /\ GroupOf[url.a] = Quarterbacks THEN url ELSE None

bGroup == IF slots.a \in known THEN GroupOf[slots.a] ELSE None
bDisabled == bGroup = None /\ slots.b = None /\ text = None

\* What usePlayerSearch is asked for Player B.
query ==
    IF bGroup # None /\ slots.b = None /\ text # None
    THEN [group |-> bGroup, text |-> text] ELSE None

\* The rows under Player B: while a new search is in flight, the last one's.
rows == IF query = None \/ answer = None THEN {} ELSE answer.rows

\* Mutant: a player is looked up while the address names him.
aLookupIdInUrl ==
    IF askedPair \/ slots.a \in known \cup {loneId} \/ url.a = None THEN None
    ELSE slots.a

\* A Player A on the form whose group nobody has said.
aLookupId ==
    IF askedPair \/ slots.a \in known \cup {loneId} THEN None ELSE slots.a

-----------------------------------------------------------------------------
(* The effects.  R is the set of requests as the event left it. *)

Request(kind, what) == [kind |-> kind, of |-> what, live |-> TRUE]
Asking(kind, what) == IF what = None THEN {} ELSE {Request(kind, what)}
Abandon(R, kinds) ==
    {IF r.kind \in kinds THEN [r EXCEPT !.live = FALSE] ELSE r : r \in R}

\* Mutant: the clean-up abandons the look-up of a position, not the comparison.
AskWithoutCleanUp(R) ==
    IF comparisonPair' = comparisonPair THEN R
    ELSE Abandon(R, {"position"}) \cup Asking("comparison", comparisonPair')

AskComparison(R) ==
    IF comparisonPair' = comparisonPair THEN R
    ELSE Abandon(R, {"comparison", "position"})
         \cup Asking("comparison", comparisonPair')

AskCareer(R) ==
    IF loneId' = loneId THEN R
    ELSE Abandon(R, {"career"}) \cup Asking("career", loneId')

\* Mutant: the narration is asked only when the URL changes.
NarrateTheUrl(R) ==
    IF url' = url THEN R
    ELSE Abandon(R, {"narration"}) \cup Asking("narration", qbPair')

AskNarration(R) ==
    IF qbPair' = qbPair THEN R
    ELSE Abandon(R, {"narration"}) \cup Asking("narration", qbPair')

AskSearch(R) ==
    IF query' = query THEN R
    ELSE Abandon(R, {"search"}) \cup Asking("search", query')

\* Nobody abandons a look-up.
AskLookup(R) ==
    IF aLookupId' \in lookedUp THEN R ELSE R \cup Asking("lookup", aLookupId')

\* Mutant: the last ask's answer is kept on the form (before issue #308).
KeepAnswer == UNCHANGED comparisonAnswer

\* Dropped in the render whose URL names no pair to fetch.
DropAnswer ==
    comparisonAnswer' = IF url' \in Pairs THEN comparisonAnswer ELSE None

\* The answer that is left when no pair of quarterbacks is on screen.
Narrated(n) == IF qbPair' = None THEN None ELSE n

Effects(R) ==
    /\ requests' = AskLookup(AskSearch(AskNarration(AskCareer(AskComparison(R)))))
    /\ lookedUp' = lookedUp \cup ({aLookupId'} \ {None})

-----------------------------------------------------------------------------
\* The page mounts on an address.
Init ==
    /\ url \in Links
    /\ slots = url /\ text = None /\ known = {}
    /\ comparisonAnswer = None /\ careerAnswer = None /\ narrationAnswer = None
    /\ answer = None
    /\ requests = Asking("comparison", comparisonPair) \cup Asking("career", loneId)
    /\ lookedUp = {}

Navigated(u, picked, typed) ==
    /\ url' = u /\ slots' = picked /\ text' = typed
    /\ UNCHANGED <<known, careerAnswer, answer>>
    /\ DropAnswer
    /\ narrationAnswer' = Narrated(narrationAnswer)
    /\ Effects(requests)

\* Any navigation seeds the fields from the URL.
Seed(u) == Navigated(u, u, None)

\* Back and Forward, by any number of entries, or a link to this page.
Navigate == \E u \in Links : Seed(u)

\* handleCompare: the form is inert while a pair is in the URL.
Compare == ~askedPair /\ slots.a # None /\ slots.b # None /\ Seed(slots)

\* closeComparison: the fields keep the pair that was compared.
Close == askedPair /\ Navigated([a |-> None, b |-> None], slots, text)

\* The effect of a refusal: back to the form, with Player A alone.
Refuse == Shown({"not_comparable"}) /\ Seed([url EXCEPT !.b = None])

Edit(a, b, typed, learned) ==
    /\ ~askedPair
    /\ slots' = [a |-> a, b |-> b] /\ text' = typed
    /\ known' = known \cup learned
    /\ UNCHANGED <<url, comparisonAnswer, careerAnswer, narrationAnswer, answer>>
    /\ Effects(requests)

\* Typing over Player A, or clearing him, empties Player B.
TypeA == Edit(None, None, None, {})

\* A list opens under typed text, and typing has emptied both.
SelectA(p) == slots.a = None /\ Edit(p, None, None, {p})

TypeB(typed) == ~bDisabled /\ Edit(slots.a, None, typed, {})

SelectB(p) == p \in rows /\ Edit(slots.a, p, None, {p})

-----------------------------------------------------------------------------
(* The requests settle in any order, each by its deadline at the latest. *)

SameGroup(pair) == GroupOf[pair.a] = GroupOf[pair.b] /\ GroupOf[pair.a] # None

\* A mixed pair whose Player B is named by his position, which is fetched.
NamedByPosition(pair) == GroupOf[pair.a] # None /\ GroupOf[pair.b] = None

\* An abandoned request's callbacks do nothing; an aborted one is rejected.
Ignored(r) ==
    /\ ~r.live
    /\ UNCHANGED <<url, slots, text, answers>>
    /\ Effects(requests \ {r})

Answered(r, status, learned) ==
    /\ comparisonAnswer' = [pair |-> r.of, status |-> status]
    /\ known' = known \cup learned
    /\ UNCHANGED <<url, slots, text, careerAnswer, answer>>
    /\ narrationAnswer' = Narrated(narrationAnswer)
    /\ Effects(requests \ {r})

\* The API compares two players of one group and refuses any other pair.
ComparisonLands(r) ==
    /\ r.live /\ r.kind = "comparison"
    /\ \/ SameGroup(r.of) /\ Answered(r, "success", Both(r.of))
       \/ /\ ~SameGroup(r.of) /\ ~NamedByPosition(r.of)
          /\ Answered(r, "not_comparable", Both(r.of))
       \/ Answered(r, "error", {})

\* The refusal says both groups; what Player B plays is asked for next.
ComparisonRefused(r) ==
    /\ r.live /\ r.kind = "comparison" /\ NamedByPosition(r.of)
    /\ known' = known \cup Both(r.of)
    /\ UNCHANGED <<url, slots, text, comparisonAnswer, careerAnswer, narrationAnswer, answer>>
    /\ Effects((requests \ {r}) \cup Asking("position", r.of))

\* Mutant: the refusal waits for a position that could not be fetched.
PositionMustLand(r) ==
    /\ r.live /\ r.kind = "position"
    /\ \/ Answered(r, "not_comparable", {})
       \/ UNCHANGED <<url, slots, text, answers>> /\ Effects(requests \ {r})

\* Refused with his position, or without when it could not be fetched.
PositionLands(r) ==
    /\ r.live /\ r.kind = "position"
    /\ Answered(r, "not_comparable", {})

\* The lone link's player; his failure is said on the form.
CareerLands(r) ==
    /\ r.live /\ r.kind = "career"
    /\ UNCHANGED <<url, slots, text, comparisonAnswer, narrationAnswer, answer>>
    /\ \E status \in {"success", "error"} :
          /\ careerAnswer' = [id |-> r.of, status |-> status]
          /\ known' = IF status = "success" THEN known \cup {r.of} ELSE known
    /\ Effects(requests \ {r})

\* A Player A of the form; nothing is learned when it fails.
LookupLands(r) ==
    /\ r.kind = "lookup"
    /\ UNCHANGED <<url, slots, text, comparisonAnswer, careerAnswer, narrationAnswer, answer>>
    /\ known' \in {known, known \cup {r.of}}
    /\ Effects(requests \ {r})

NarrationLands(r) ==
    /\ r.live /\ r.kind = "narration"
    /\ \E status \in {"success", "error"} :
          narrationAnswer' = [pair |-> r.of, status |-> status]
    /\ UNCHANGED <<url, slots, text, known, comparisonAnswer, careerAnswer, answer>>
    /\ Effects(requests \ {r})

\* Mutant: the answer of a search that was abandoned is listed as well.
SearchLandsAnyway(r) ==
    /\ r.kind = "search"
    /\ \E found \in SUBSET InGroup(r.of.group) :
          answer' = [query |-> r.of, rows |-> found]
    /\ UNCHANGED <<url, slots, text, known, comparisonAnswer, careerAnswer, narrationAnswer>>
    /\ Effects(requests \ {r})

\* Rows of the group that was searched; none when the search failed.
SearchLands(r) ==
    /\ r.live /\ r.kind = "search"
    /\ \E found \in SUBSET InGroup(r.of.group) :
          answer' = [query |-> r.of, rows |-> found]
    /\ UNCHANGED <<url, slots, text, known, comparisonAnswer, careerAnswer, narrationAnswer>>
    /\ Effects(requests \ {r})

Settle(r) ==
    \/ Ignored(r) \/ ComparisonLands(r) \/ ComparisonRefused(r) \/ PositionLands(r)
    \/ CareerLands(r) \/ LookupLands(r) \/ NarrationLands(r) \/ SearchLands(r)

Paced == Cardinality({r \in requests' : ~r.live}) <= MaxAbandoned

Step ==
    \/ Navigate \/ Compare \/ Close \/ Refuse
    \/ TypeA \/ \E p \in Players : SelectA(p) \/ SelectB(p)
    \/ \E typed \in Texts \cup {None} : TypeB(typed)
    \/ \E r \in requests : Settle(r)

Next == Step /\ Paced

Spec == Init /\ [][Next]_vars

\* Every request has a deadline (withDeadline), so what it asked settles;
\* nothing makes the user act.  The refusal is an effect, which always runs.
Lands(kinds) ==
    \E r \in requests : r.live /\ r.kind \in kinds /\ Settle(r) /\ Paced

FairSpec ==
    /\ Spec
    /\ WF_vars(Lands({"comparison", "position"}))
    /\ WF_vars(Lands({"narration"}))
    /\ WF_vars(Refuse /\ Paced)

-----------------------------------------------------------------------------
Live(kinds) == {r \in requests : r.live /\ r.kind \in kinds}

\* The panel of the pair on screen has its narration, or its failure.
narrated ==
    /\ qbPair # None /\ narrationAnswer # None
    /\ narrationAnswer.pair = qbPair

\* Invariant: however navigations, edits and late answers interleave, the
\* page is never listening to two comparisons, two careers, two paid
\* narrations or two searches, nor to one of a pair, player or text that it
\* has left: a late answer for another ask cannot reach the screen.
OneRequest ==
    /\ \A kinds \in {{"comparison", "position"}, {"career"}, {"narration"}, {"search"}} :
          Cardinality(Live(kinds)) <= 1
    /\ \A r \in Live({"comparison", "position"}) : r.of = comparisonPair
    /\ \A r \in Live({"career"}) : r.of = loneId
    /\ \A r \in Live({"narration"}) : r.of = qbPair
    /\ \A r \in Live({"search"}) : r.of = query

\* Once no search is under way, what is listed under Player B answers the text
\* and the group of the field as it is now, however often Player A was exchanged
\* or the text changed while answers were late: whoever is picked from the list
\* then is one the API will compare with Player A.
ListIsTheFields ==
    (query # None /\ Live({"search"}) = {}) =>
        /\ answer # None /\ answer.query = query
        /\ \A p \in rows : SameGroup([a |-> slots.a, b |-> p])

\* Invariant: whenever the page says it is waiting (the modal's loading line,
\* the narration panel's, the list's "searching"), an answer it will listen
\* to is on its way; and a list that waits for none is the field's.
LoadingIsTrue ==
    /\ (comparisonPair # None /\ ~settled) => Live({"comparison", "position"}) # {}
    /\ (qbPair # None /\ ~narrated) => Live({"narration"}) # {}
    /\ ListIsTheFields

\* Invariant: a Player A on the form whose group nobody has said, which keeps
\* Player B's field shut, was asked about: by his lone link, or once by the
\* form whatever failed or was abandoned before (issue #436, round 3).
GroupIsAskedFor ==
    (~askedPair /\ slots.a \notin known \cup {None}) =>
        \/ \E r \in Live({"career", "lookup"}) : r.of = slots.a
        \/ slots.a \in lookedUp
        \/ slots.a = loneId /\ careerAnswer = [id |-> loneId, status |-> "error"]

\* Action property: a press of Compare shows nothing of an earlier ask, of
\* this pair or another, and its own request is on its way (issue #308).
CompareAsksAfresh ==
    [][(Compare /\ comparisonPair' # None) =>
          /\ ~settled'
          /\ \E r \in requests' \ requests : r.live /\ r.of = comparisonPair']_vars

\* Liveness: the modal of a pair settles or the page leaves it, through the
\* second request a refusal may make; so does the narration panel; and a
\* refused pair never stays on screen.
LoadingEnds ==
    /\ \A p \in Pairs :
          (comparisonPair = p /\ ~settled) ~> (comparisonPair # p \/ settled)
    /\ \A p \in {q \in Pairs : Both(q) \subseteq InGroup(Quarterbacks)} :
          (qbPair = p /\ ~narrated) ~> (qbPair # p \/ narrated)
    /\ Shown({"not_comparable"}) ~> ~Shown({"not_comparable"})
=============================================================================
