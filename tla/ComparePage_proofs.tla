------------------------- MODULE ComparePage_proofs -------------------------
(***************************************************************************)
(* Proofs about ComparePage: for any players and groups, any addresses and *)
(* texts, and any number of requests abandoned on the way.                 *)
(*                                                                         *)
(* The argument: after every render the effects leave, of each kind of     *)
(* request, the one for what the page now shows, or none because it has    *)
(* been answered (ComparisonTracked and its like).                         *)
(***************************************************************************)
EXTENDS ComparePage, TLAPS, FiniteSetTheorems

Requests == [kind : {"comparison", "position", "narration"}, of : Pairs, live : BOOLEAN]
            \cup [kind : {"career", "lookup"}, of : Players, live : BOOLEAN]
            \cup [kind : {"search"}, of : Queries, live : BOOLEAN]

TypeOK ==
    /\ url \in Picks /\ slots \in Picks
    /\ text \in Texts \cup {None}
    /\ known \in SUBSET Players
    /\ comparisonAnswer \in Verdicts \cup {None}
    /\ careerAnswer \in Careers \cup {None}
    /\ narrationAnswer \in Verdicts \cup {None}
    /\ answer \in Lists \cup {None}
    /\ requests \in SUBSET Requests
    /\ lookedUp \in SUBSET Players

\* The live requests among R of some kinds.
Own(R, kinds) == {r \in R : r.live /\ r.kind \in kinds}

Comparing == {"comparison", "position"}
Opening == {"career"}
Narrating == {"narration"}
Searching == {"search"}

\* Of each kind of request there is the one for what is on the page, or none,
\* and then there is nothing to wait for.
ComparisonTracked ==
    \/ Own(requests, Comparing) = {} /\ (comparisonPair = None \/ settled)
    \/ /\ comparisonPair # None
       /\ \E kind \in Comparing : Own(requests, Comparing) = {Request(kind, comparisonPair)}

NarrationTracked ==
    \/ Own(requests, Narrating) = {} /\ (qbPair = None \/ narrated)
    \/ qbPair # None /\ Own(requests, Narrating) = {Request("narration", qbPair)}

listed == answer # None /\ answer.query = query
SearchTracked ==
    \/ Own(requests, Searching) = {} /\ (query = None \/ listed)
    \/ query # None /\ Own(requests, Searching) = {Request("search", query)}

failed == careerAnswer = [id |-> loneId, status |-> "error"]
CareerTracked ==
    \/ Own(requests, Opening) = {} /\ (loneId \in known \cup {None} \/ failed)
    \/ loneId # None /\ Own(requests, Opening) = {Request("career", loneId)}

\* A Player A of the form who is nobody's lone link has been looked up.
LookupsAreMade ==
    ~askedPair => slots.a \in known \cup {None, loneId} \cup lookedUp

\* An address that names no pair to compare shows no comparison.
AnswersHavePairs == comparisonPair = None => comparisonAnswer = None

IInv ==
    /\ TypeOK
    /\ ComparisonTracked /\ NarrationTracked /\ SearchTracked /\ CareerTracked
    /\ LookupsAreMade /\ AnswersHavePairs

-----------------------------------------------------------------------------
(* What the operators of a render give.                                    *)

LEMMA NoneIsNothing ==
    /\ None \notin Players /\ None \notin Texts /\ None \notin Picks /\ None \notin Pairs
    /\ None \notin Queries /\ None \notin Verdicts /\ None \notin Careers /\ None \notin Lists
  BY NoneAssumption DEF NoneAssumption, Pairs

LEMMA RequestTypes ==
    /\ \A p \in Pairs : /\ Request("comparison", p) \in Requests
                        /\ Request("position", p) \in Requests
                        /\ Request("narration", p) \in Requests
    /\ \A p \in Players : Request("career", p) \in Requests /\ Request("lookup", p) \in Requests
    /\ \A q \in Queries : Request("search", q) \in Requests
  BY DEF Request, Requests

LEMMA AbandonFacts ==
    ASSUME NEW R \in SUBSET Requests, NEW K
    PROVE  /\ Abandon(R, K) \in SUBSET Requests
           /\ Own(Abandon(R, K), K) = {}
           /\ \A J : J \cap K = {} => Own(Abandon(R, K), J) = Own(R, J)
  <1> DEFINE gone(r) == IF r.kind \in K THEN [r EXCEPT !.live = FALSE] ELSE r
  <1>1. \A r \in Requests : /\ gone(r) \in Requests /\ gone(r).kind = r.kind
                            /\ r.kind \in K => ~gone(r).live
                            /\ r.kind \notin K => gone(r) = r
    BY DEF Requests
  <1>2. Abandon(R, K) = {gone(r) : r \in R}
    BY DEF Abandon
  <1> HIDE DEF gone
  <1>3. Abandon(R, K) \in SUBSET Requests
    BY <1>1, <1>2
  <1>4. \A x \in Abandon(R, K) : \E r \in R : x = gone(r) /\ x.kind = r.kind
    BY <1>1, <1>2
  <1>5. Own(Abandon(R, K), K) = {}
    BY <1>1, <1>4 DEF Own
  <1>6. ASSUME NEW J, J \cap K = {} PROVE Own(Abandon(R, K), J) = Own(R, J)
    <2>1. ASSUME NEW x \in Own(Abandon(R, K), J) PROVE x \in Own(R, J)
      <3>1. PICK r \in R : x = gone(r) /\ x.kind = r.kind
        BY <1>4 DEF Own
      <3>2. r.kind \notin K
        BY <1>6, <3>1 DEF Own
      <3> QED BY <1>1, <3>1, <3>2 DEF Own
    <2>2. ASSUME NEW x \in Own(R, J) PROVE x \in Own(Abandon(R, K), J)
      <3>1. x \in R /\ x.kind \notin K
        BY <1>6 DEF Own
      <3>2. gone(x) = x
        BY <1>1, <3>1
      <3> QED BY <1>2, <3>1, <3>2 DEF Own
    <2> QED BY <2>1, <2>2
  <1> QED BY <1>3, <1>5, <1>6

\* Abandoning one kind of request and asking again, for w.
Reasked(R, K, kind, w) == Abandon(R, K) \cup Asking(kind, w)
LEMMA AskFacts ==
    ASSUME NEW R \in SUBSET Requests, NEW K, NEW kind \in K, NEW w,
           Asking(kind, w) \in SUBSET Requests
    PROVE  /\ Reasked(R, K, kind, w) \in SUBSET Requests
           /\ Own(Reasked(R, K, kind, w), K) = Asking(kind, w)
           /\ \A J : J \cap K = {} => Own(Reasked(R, K, kind, w), J) = Own(R, J)
  <1> DEFINE S == Reasked(R, K, kind, w)
  <1>1. \A r \in Asking(kind, w) : r.live /\ r.kind = kind
    BY DEF Asking, Request
  <1>2. \A J : Own(S, J) = Own(Abandon(R, K), J) \cup Own(Asking(kind, w), J)
    BY DEF Own, Reasked
  <1>3. Own(Asking(kind, w), K) = Asking(kind, w)
    BY <1>1 DEF Own
  <1>4. \A J : J \cap K = {} => Own(Asking(kind, w), J) = {}
    BY <1>1 DEF Own
  <1>5. S \in SUBSET Requests
    BY AbandonFacts DEF Reasked
  <1> HIDE DEF S
  <1>6. Own(S, K) = Asking(kind, w)
    <2>1. Own(Abandon(R, K), K) = {}
      BY AbandonFacts
    <2>2. Own(S, K) = Own(Abandon(R, K), K) \cup Own(Asking(kind, w), K)
      BY <1>2
    <2> QED BY <1>3, <2>1, <2>2
  <1>7. ASSUME NEW J, J \cap K = {} PROVE Own(S, J) = Own(R, J)
    <2>1. Own(Abandon(R, K), J) = Own(R, J)
      BY <1>7, AbandonFacts
    <2>2. Own(S, J) = Own(Abandon(R, K), J) \cup Own(Asking(kind, w), J)
      BY <1>2
    <2>3. Own(Asking(kind, w), J) = {}
      BY <1>4, <1>7
    <2> QED BY <2>1, <2>2, <2>3
  <1> QED BY <1>5, <1>6, <1>7 DEF S

\* What a render's effects make of each kind of request.
LEMMA EffectsFacts ==
    ASSUME NEW R \in SUBSET Requests, Effects(R), lookedUp \in SUBSET Players,
           comparisonPair' \in Pairs \cup {None}, loneId' \in Players \cup {None},
           qbPair' \in Pairs \cup {None}, query' \in Queries \cup {None},
           aLookupId' \in Players \cup {None}
    PROVE  /\ requests' \in SUBSET Requests /\ lookedUp' \in SUBSET Players
           /\ aLookupId' # None => aLookupId' \in lookedUp'
           /\ Own(requests', Comparing) =
                  IF comparisonPair' = comparisonPair THEN Own(R, Comparing)
                  ELSE Asking("comparison", comparisonPair')
           /\ Own(requests', Opening) =
                  IF loneId' = loneId THEN Own(R, Opening) ELSE Asking("career", loneId')
           /\ Own(requests', Narrating) =
                  IF qbPair' = qbPair THEN Own(R, Narrating) ELSE Asking("narration", qbPair')
           /\ Own(requests', Searching) =
                  IF query' = query THEN Own(R, Searching) ELSE Asking("search", query')
  <1> DEFINE R1 == AskComparison(R)
             R2 == AskCareer(R1)
             R3 == AskNarration(R2)
             R4 == AskSearch(R3)
  <1>1. /\ R1 \in SUBSET Requests
        /\ Own(R1, Comparing) = IF comparisonPair' = comparisonPair THEN Own(R, Comparing)
                                ELSE Asking("comparison", comparisonPair')
        /\ \A J : J \cap Comparing = {} => Own(R1, J) = Own(R, J)
    <2>1. Asking("comparison", comparisonPair') \in SUBSET Requests
      BY RequestTypes DEF Asking
    <2>2. CASE comparisonPair' = comparisonPair
      BY <2>2 DEF AskComparison
    <2>3. CASE comparisonPair' # comparisonPair
      <3>1. R1 = Reasked(R, Comparing, "comparison", comparisonPair')
        BY <2>3 DEF AskComparison, R1, Reasked, Comparing
      <3>2. "comparison" \in Comparing
        BY DEF Comparing
      <3>3. /\ Reasked(R, Comparing, "comparison", comparisonPair') \in SUBSET Requests
            /\ Own(Reasked(R, Comparing, "comparison", comparisonPair'), Comparing) = Asking("comparison", comparisonPair')
            /\ \A J : J \cap Comparing = {} => Own(Reasked(R, Comparing, "comparison", comparisonPair'), J) = Own(R, J)
        BY <2>1, <3>2, AskFacts
      <3> HIDE DEF R1
      <3> QED BY <2>3, <3>1, <3>3
    <2> QED BY <2>2, <2>3
  <1> HIDE DEF R1
  <1>2. /\ R2 \in SUBSET Requests
        /\ Own(R2, Opening) = IF loneId' = loneId THEN Own(R1, Opening)
                                 ELSE Asking("career", loneId')
        /\ \A J : J \cap Opening = {} => Own(R2, J) = Own(R1, J)
    <2>1. Asking("career", loneId') \in SUBSET Requests
      BY RequestTypes DEF Asking
    <2>2. CASE loneId' = loneId
      BY <1>1, <2>2 DEF AskCareer
    <2>3. CASE loneId' # loneId
      <3>1. R2 = Reasked(R1, Opening, "career", loneId')
        BY <2>3 DEF AskCareer, R2, Reasked, Opening
      <3>2. "career" \in Opening
        BY DEF Opening
      <3>3. /\ Reasked(R1, Opening, "career", loneId') \in SUBSET Requests
            /\ Own(Reasked(R1, Opening, "career", loneId'), Opening) = Asking("career", loneId')
            /\ \A J : J \cap Opening = {} => Own(Reasked(R1, Opening, "career", loneId'), J) = Own(R1, J)
        BY <1>1, <2>1, <3>2, AskFacts
      <3> HIDE DEF R2
      <3> QED BY <2>3, <3>1, <3>3
    <2> QED BY <2>2, <2>3
  <1> HIDE DEF R2
  <1>3. /\ R3 \in SUBSET Requests
        /\ Own(R3, Narrating) = IF qbPair' = qbPair THEN Own(R2, Narrating)
                                    ELSE Asking("narration", qbPair')
        /\ \A J : J \cap Narrating = {} => Own(R3, J) = Own(R2, J)
    <2>1. Asking("narration", qbPair') \in SUBSET Requests
      BY RequestTypes DEF Asking
    <2>2. CASE qbPair' = qbPair
      BY <1>2, <2>2 DEF AskNarration
    <2>3. CASE qbPair' # qbPair
      <3>1. R3 = Reasked(R2, Narrating, "narration", qbPair')
        BY <2>3 DEF AskNarration, R3, Reasked, Narrating
      <3>2. "narration" \in Narrating
        BY DEF Narrating
      <3>3. /\ Reasked(R2, Narrating, "narration", qbPair') \in SUBSET Requests
            /\ Own(Reasked(R2, Narrating, "narration", qbPair'), Narrating) = Asking("narration", qbPair')
            /\ \A J : J \cap Narrating = {} => Own(Reasked(R2, Narrating, "narration", qbPair'), J) = Own(R2, J)
        BY <1>2, <2>1, <3>2, AskFacts
      <3> HIDE DEF R3
      <3> QED BY <2>3, <3>1, <3>3
    <2> QED BY <2>2, <2>3
  <1> HIDE DEF R3
  <1>4. /\ R4 \in SUBSET Requests
        /\ Own(R4, Searching) = IF query' = query THEN Own(R3, Searching)
                                 ELSE Asking("search", query')
        /\ \A J : J \cap Searching = {} => Own(R4, J) = Own(R3, J)
    <2>1. Asking("search", query') \in SUBSET Requests
      BY RequestTypes DEF Asking
    <2>2. CASE query' = query
      BY <1>3, <2>2 DEF AskSearch
    <2>3. CASE query' # query
      <3>1. R4 = Reasked(R3, Searching, "search", query')
        BY <2>3 DEF AskSearch, R4, Reasked, Searching
      <3>2. "search" \in Searching
        BY DEF Searching
      <3>3. /\ Reasked(R3, Searching, "search", query') \in SUBSET Requests
            /\ Own(Reasked(R3, Searching, "search", query'), Searching) = Asking("search", query')
            /\ \A J : J \cap Searching = {} => Own(Reasked(R3, Searching, "search", query'), J) = Own(R3, J)
        BY <1>3, <2>1, <3>2, AskFacts
      <3> HIDE DEF R4
      <3> QED BY <2>3, <3>1, <3>3
    <2> QED BY <2>2, <2>3
  <1>5. requests' = AskLookup(R4) /\ lookedUp' = lookedUp \cup ({aLookupId'} \ {None})
    BY DEF Effects, R3, R2, R1
  <1> HIDE DEF R4
  <1>6. /\ requests' \in SUBSET Requests
        /\ \A J : "lookup" \notin J => Own(requests', J) = Own(R4, J)
    <2>1. Asking("lookup", aLookupId') \in SUBSET Requests
      BY RequestTypes DEF Asking
    <2>2. \A J : "lookup" \notin J => Own(Asking("lookup", aLookupId'), J) = {}
      BY DEF Own, Asking, Request
    <2>3. \A J : Own(R4 \cup Asking("lookup", aLookupId'), J)
                 = Own(R4, J) \cup Own(Asking("lookup", aLookupId'), J)
      BY DEF Own
    <2>4. requests' = R4 \/ requests' = R4 \cup Asking("lookup", aLookupId')
      BY <1>5 DEF AskLookup
    <2> QED BY <1>4, <2>1, <2>2, <2>3, <2>4
  <1>7. /\ \A J \in {Opening, Narrating, Searching} : J \cap Comparing = {}
        /\ \A J \in {Comparing, Narrating, Searching} : J \cap Opening = {}
        /\ \A J \in {Comparing, Opening, Searching} : J \cap Narrating = {}
        /\ \A J \in {Comparing, Opening, Narrating} : J \cap Searching = {}
        /\ \A J \in {Comparing, Opening, Narrating, Searching} : "lookup" \notin J
    BY DEF Comparing, Opening, Narrating, Searching
  <1>8. Own(requests', Comparing) = Own(R1, Comparing)
    BY <1>2, <1>3, <1>4, <1>6, <1>7
  <1>9. Own(requests', Opening) = Own(R2, Opening) /\ Own(R1, Opening) = Own(R, Opening)
    BY <1>1, <1>3, <1>4, <1>6, <1>7
  <1>10. Own(requests', Narrating) = Own(R3, Narrating)
         /\ Own(R2, Narrating) = Own(R, Narrating)
    BY <1>1, <1>2, <1>4, <1>6, <1>7
  <1>11. Own(requests', Searching) = Own(R4, Searching) /\ Own(R3, Searching) = Own(R, Searching)
    BY <1>1, <1>2, <1>3, <1>6, <1>7
  <1>12. lookedUp' \in SUBSET Players /\ (aLookupId' # None => aLookupId' \in lookedUp')
    BY <1>5
  <1> QED BY <1>1, <1>2, <1>3, <1>4, <1>6, <1>8, <1>9, <1>10, <1>11, <1>12

LEMMA AskingFacts ==
    ASSUME NEW kind, NEW w
    PROVE  Asking(kind, w) = IF w = None THEN {} ELSE {Request(kind, w)}
  BY DEF Asking

-----------------------------------------------------------------------------
(* A render keeps each kind of request tracked: what it is for changed, and *)
(* the effect asked; or it did not, and neither did what answers it.       *)

LEMMA ComparisonStaysTracked ==
    ASSUME ComparisonTracked, NEW R,
           Own(requests', Comparing) = IF comparisonPair' = comparisonPair
                                       THEN Own(R, Comparing)
                                       ELSE Asking("comparison", comparisonPair'),
           comparisonPair' = comparisonPair =>
               /\ Own(R, Comparing) = Own(requests, Comparing)
               /\ comparisonAnswer' = comparisonAnswer \/ comparisonPair = None
    PROVE  ComparisonTracked'
  <1>1. CASE comparisonPair' # comparisonPair
    <2>1. "comparison" \in Comparing
      BY DEF Comparing
    <2> QED BY <1>1, <2>1, AskingFacts DEF ComparisonTracked
  <1>2. CASE comparisonPair' = comparisonPair
    <2>1. Own(requests', Comparing) = Own(requests, Comparing)
      BY <1>2
    <2>2. comparisonPair # None => (settled' <=> settled)
      BY <1>2 DEF settled, Shown
    <2> QED BY <1>2, <2>1, <2>2 DEF ComparisonTracked
  <1> QED BY <1>1, <1>2

LEMMA NarrationStaysTracked ==
    ASSUME NarrationTracked, NEW R,
           Own(requests', Narrating) = IF qbPair' = qbPair THEN Own(R, Narrating)
                                       ELSE Asking("narration", qbPair'),
           qbPair' = qbPair =>
               /\ Own(R, Narrating) = Own(requests, Narrating)
               /\ narrationAnswer' = narrationAnswer \/ qbPair = None
    PROVE  NarrationTracked'
  <1>1. CASE qbPair' # qbPair
    BY <1>1, AskingFacts DEF NarrationTracked
  <1>2. CASE qbPair' = qbPair
    <2>1. Own(requests', Narrating) = Own(requests, Narrating)
      BY <1>2
    <2>2. qbPair # None => (narrated' <=> narrated)
      BY <1>2 DEF narrated
    <2> QED BY <1>2, <2>1, <2>2 DEF NarrationTracked
  <1> QED BY <1>1, <1>2

LEMMA SearchStaysTracked ==
    ASSUME SearchTracked, NEW R,
           Own(requests', Searching) = IF query' = query THEN Own(R, Searching)
                                       ELSE Asking("search", query'),
           query' = query => Own(R, Searching) = Own(requests, Searching) /\ answer' = answer
    PROVE  SearchTracked'
  <1>1. CASE query' # query
    BY <1>1, AskingFacts DEF SearchTracked
  <1>2. CASE query' = query
    <2>1. Own(requests', Searching) = Own(requests, Searching) /\ (listed' <=> listed)
      BY <1>2 DEF listed
    <2> QED BY <1>2, <2>1 DEF SearchTracked
  <1> QED BY <1>1, <1>2

LEMMA CareerStaysTracked ==
    ASSUME CareerTracked, NEW R, known \subseteq known',
           Own(requests', Opening) = IF loneId' = loneId THEN Own(R, Opening)
                                     ELSE Asking("career", loneId'),
           loneId' = loneId =>
               Own(R, Opening) = Own(requests, Opening) /\ careerAnswer' = careerAnswer
    PROVE  CareerTracked'
  <1>1. CASE loneId' # loneId
    BY <1>1, AskingFacts DEF CareerTracked
  <1>2. CASE loneId' = loneId
    <2>1. Own(requests', Opening) = Own(requests, Opening) /\ (failed' <=> failed)
      BY <1>2 DEF failed
    <2> QED BY <1>2, <2>1 DEF CareerTracked
  <1> QED BY <1>1, <1>2

LEMMA LookupsStayMade ==
    ASSUME aLookupId' # None => aLookupId' \in lookedUp'
    PROVE  LookupsAreMade'
  BY DEF LookupsAreMade, aLookupId, askedPair

\* What every step but the settling of a live request does to the answers.
Kept ==
    /\ known \subseteq known'
    /\ UNCHANGED <<careerAnswer, answer>>
    /\ comparisonPair' = comparisonPair =>
           comparisonAnswer' = comparisonAnswer \/ comparisonPair = None
    /\ qbPair' = qbPair => narrationAnswer' = narrationAnswer \/ qbPair = None

\* The types a step must see to; the rest are EffectsFacts'.
TypedBut ==
    /\ url' \in Picks /\ slots' \in Picks
    /\ text' \in Texts \cup {None}
    /\ known' \in SUBSET Players
    /\ comparisonAnswer' \in Verdicts \cup {None}
    /\ careerAnswer' \in Careers \cup {None}
    /\ narrationAnswer' \in Verdicts \cup {None}
    /\ answer' \in Lists \cup {None}

\* A step of the given types ends in a render of those types.
LEMMA RenderFacts ==
    ASSUME TypeOK, TypedBut, NEW R \in SUBSET Requests, Effects(R)
    PROVE  /\ TypeOK'
           /\ LookupsAreMade'
           /\ Own(requests', Comparing) =
                  IF comparisonPair' = comparisonPair THEN Own(R, Comparing)
                  ELSE Asking("comparison", comparisonPair')
           /\ Own(requests', Opening) =
                  IF loneId' = loneId THEN Own(R, Opening) ELSE Asking("career", loneId')
           /\ Own(requests', Narrating) =
                  IF qbPair' = qbPair THEN Own(R, Narrating) ELSE Asking("narration", qbPair')
           /\ Own(requests', Searching) =
                  IF query' = query THEN Own(R, Searching) ELSE Asking("search", query')
  <1> USE NoneIsNothing
  <1>1. comparisonPair' \in Pairs \cup {None}
    BY DEF comparisonPair
  <1>2. loneId' \in Players \cup {None}
    BY DEF loneId, TypedBut, Picks
  <1>3. qbPair' \in Pairs \cup {None}
    BY DEF qbPair, Shown, comparisonPair
  <1>4. bGroup' \in Groups \cup {None}
    BY DEF bGroup, Groups, TypedBut
  <1>5. query' \in Queries \cup {None}
    BY <1>4 DEF query, Queries, TypedBut
  <1>6. aLookupId' \in Players \cup {None}
    BY DEF aLookupId, TypedBut, Picks
  <1>7. lookedUp \in SUBSET Players
    BY DEF TypeOK
  <1>8. requests' \in SUBSET Requests /\ lookedUp' \in SUBSET Players
        /\ (aLookupId' # None => aLookupId' \in lookedUp')
    BY <1>1, <1>2, <1>3, <1>5, <1>6, <1>7, EffectsFacts
  <1>9. TypeOK'
    BY <1>8 DEF TypeOK, TypedBut
  <1>10. LookupsAreMade'
    BY <1>8, LookupsStayMade
  <1> QED BY <1>1, <1>2, <1>3, <1>5, <1>6, <1>7, <1>9, <1>10, EffectsFacts

LEMMA KeptKeepsIInv ==
    ASSUME IInv, TypedBut, Kept, AnswersHavePairs',
           NEW R \in SUBSET Requests, Effects(R),
           \A K \in {Comparing, Opening, Narrating, Searching} : Own(R, K) = Own(requests, K)
    PROVE  IInv'
  <1>1. TypeOK
    BY DEF IInv
  <1>2. TypeOK' /\ LookupsAreMade'
    BY <1>1, RenderFacts
  <1>3. ComparisonTracked'
    BY <1>1, RenderFacts, ComparisonStaysTracked DEF IInv, Kept
  <1>4. NarrationTracked'
    BY <1>1, RenderFacts, NarrationStaysTracked DEF IInv, Kept
  <1>5. SearchTracked'
    BY <1>1, RenderFacts, SearchStaysTracked DEF IInv, Kept
  <1>6. CareerTracked'
    BY <1>1, RenderFacts, CareerStaysTracked DEF IInv, Kept
  <1> QED BY <1>2, <1>3, <1>4, <1>5, <1>6 DEF IInv

-----------------------------------------------------------------------------
(* The visitor's steps, and those of requests nobody waits for.            *)

LEMMA NavigatedKeepsIInv ==
    ASSUME IInv, NEW u \in Picks, NEW picked \in Picks, NEW typed \in Texts \cup {None},
           Navigated(u, picked, typed)
    PROVE  IInv'
  <1>1. /\ url' = u /\ slots' = picked /\ text' = typed
        /\ UNCHANGED <<known, careerAnswer, answer>>
        /\ comparisonAnswer' = IF url' \in Pairs THEN comparisonAnswer ELSE None
        /\ narrationAnswer' = IF qbPair' = None THEN None ELSE narrationAnswer
        /\ Effects(requests)
    BY DEF Navigated, DropAnswer, Narrated
  <1>2. comparisonPair' = IF url' \in Pairs THEN url' ELSE None
    BY DEF comparisonPair
  <1>3. TypedBut
    BY <1>1 DEF IInv, TypeOK, TypedBut
  <1>4. Kept
    BY <1>1, <1>2 DEF Kept
  <1>5. AnswersHavePairs'
    BY <1>1, <1>2, NoneIsNothing DEF AnswersHavePairs
  <1> QED BY <1>1, <1>3, <1>4, <1>5, KeptKeepsIInv DEF IInv, TypeOK

LEMMA EditKeepsIInv ==
    ASSUME IInv, NEW a \in Players \cup {None}, NEW b \in Players \cup {None},
           NEW typed \in Texts \cup {None}, NEW learned \in SUBSET Players,
           Edit(a, b, typed, learned)
    PROVE  IInv'
  <1>1. /\ slots' = [a |-> a, b |-> b] /\ text' = typed /\ known' = known \cup learned
        /\ UNCHANGED <<url, comparisonAnswer, careerAnswer, narrationAnswer, answer>>
        /\ Effects(requests)
    BY DEF Edit
  <1>2. TypedBut
    BY <1>1 DEF IInv, TypeOK, TypedBut, Picks
  <1>3. Kept /\ AnswersHavePairs'
    BY <1>1 DEF Kept, IInv, AnswersHavePairs, comparisonPair
  <1> QED BY <1>1, <1>2, <1>3, KeptKeepsIInv DEF IInv, TypeOK

\* The live requests of the kinds tracked are without r what they were, when r is
\* not one of them.
LEMMA OthersStay ==
    ASSUME NEW r, NEW K, ~r.live \/ r.kind \notin K
    PROVE  Own(requests \ {r}, K) = Own(requests, K)
  BY DEF Own

LEMMA IgnoredKeepsIInv ==
    ASSUME IInv, NEW r \in requests, Ignored(r)
    PROVE  IInv'
  <1>1. /\ ~r.live /\ Effects(requests \ {r})
        /\ UNCHANGED <<url, slots, text, known, comparisonAnswer, careerAnswer,
                       narrationAnswer, answer>>
    BY DEF Ignored, answers
  <1>2. TypedBut
    BY <1>1 DEF IInv, TypeOK, TypedBut
  <1>3. Kept /\ AnswersHavePairs'
    BY <1>1 DEF Kept, IInv, AnswersHavePairs, comparisonPair
  <1>4. requests \ {r} \in SUBSET Requests
    BY DEF IInv, TypeOK
  <1> QED BY <1>1, <1>2, <1>3, <1>4, OthersStay, KeptKeepsIInv

LEMMA LookupKeepsIInv ==
    ASSUME IInv, NEW r \in requests, LookupLands(r)
    PROVE  IInv'
  <1>1. /\ r.kind = "lookup" /\ Effects(requests \ {r})
        /\ UNCHANGED <<url, slots, text, comparisonAnswer, careerAnswer, narrationAnswer, answer>>
        /\ known' \in {known, known \cup {r.of}}
    BY DEF LookupLands
  <1>2. r.of \in Players
    BY <1>1 DEF IInv, TypeOK, Requests
  <1>3. TypedBut
    BY <1>1, <1>2 DEF IInv, TypeOK, TypedBut
  <1>4. Kept /\ AnswersHavePairs'
    BY <1>1 DEF Kept, IInv, AnswersHavePairs, comparisonPair
  <1>5. requests \ {r} \in SUBSET Requests
    BY DEF IInv, TypeOK
  <1>6. \A K \in {Comparing, Opening, Narrating, Searching} : r.kind \notin K
    BY <1>1 DEF Comparing, Opening, Narrating, Searching
  <1> QED BY <1>1, <1>3, <1>4, <1>5, <1>6, OthersStay, KeptKeepsIInv

-----------------------------------------------------------------------------
(* The answers the page waits for.                                         *)

\* A live request is the only one of its kind, and for what the page shows.
LEMMA LiveRequest ==
    ASSUME IInv, NEW r \in requests, r.live
    PROVE  /\ r.kind \in Comparing =>
                  r.of = comparisonPair /\ Own(requests, Comparing) = {r}
           /\ r.kind \in Opening => r.of = loneId /\ Own(requests, Opening) = {r}
           /\ r.kind \in Narrating => r.of = qbPair /\ Own(requests, Narrating) = {r}
           /\ r.kind \in Searching => r.of = query /\ Own(requests, Searching) = {r}
  <1>1. \A K : r.kind \in K => r \in Own(requests, K)
    BY DEF Own
  <1>2. \A kind, w : Request(kind, w).of = w
    BY DEF Request
  <1>3. r.kind \in Comparing => r.of = comparisonPair /\ Own(requests, Comparing) = {r}
    BY <1>1, <1>2 DEF IInv, ComparisonTracked
  <1>4. r.kind \in Opening => r.of = loneId /\ Own(requests, Opening) = {r}
    BY <1>1, <1>2 DEF IInv, CareerTracked
  <1>5. r.kind \in Narrating => r.of = qbPair /\ Own(requests, Narrating) = {r}
    BY <1>1, <1>2 DEF IInv, NarrationTracked
  <1>6. r.kind \in Searching => r.of = query /\ Own(requests, Searching) = {r}
    BY <1>1, <1>2 DEF IInv, SearchTracked
  <1> QED BY <1>3, <1>4, <1>5, <1>6

LEMMA Gone == \A r : \A K : Own(requests, K) = {r} => Own(requests \ {r}, K) = {}
  BY DEF Own

LEMMA AnsweredKeepsIInv ==
    ASSUME IInv, NEW r \in requests, r.live, r.kind \in Comparing,
           NEW status \in {"success", "not_comparable", "error"},
           NEW learned \in SUBSET Players, Answered(r, status, learned)
    PROVE  IInv'
  <1>1. /\ comparisonAnswer' = [pair |-> r.of, status |-> status]
        /\ known' = known \cup learned
        /\ UNCHANGED <<url, slots, text, careerAnswer, answer>>
        /\ narrationAnswer' = IF qbPair' = None THEN None ELSE narrationAnswer
        /\ Effects(requests \ {r})
    BY DEF Answered, Narrated
  <1>2. TypeOK /\ requests \ {r} \in SUBSET Requests
    BY DEF IInv, TypeOK
  <1>3. r.of \in Pairs /\ r.of = comparisonPair /\ comparisonPair' = comparisonPair
    BY <1>1, LiveRequest DEF IInv, TypeOK, Requests, Comparing, comparisonPair
  <1>4. TypedBut
    BY <1>1, <1>3 DEF IInv, TypeOK, TypedBut, Verdicts
  <1>5. /\ Own(requests \ {r}, Comparing) = {}
        /\ Own(requests \ {r}, Opening) = Own(requests, Opening)
        /\ Own(requests \ {r}, Narrating) = Own(requests, Narrating)
        /\ Own(requests \ {r}, Searching) = Own(requests, Searching)
    <2>1. r.kind \notin Opening /\ r.kind \notin Narrating /\ r.kind \notin Searching
      BY DEF Comparing, Opening, Narrating, Searching
    <2>2. Own(requests, Comparing) = {r}
      BY LiveRequest
    <2>3. Own(requests \ {r}, Comparing) = {}
      BY <2>2, Gone
    <2> QED BY <2>1, <2>3, OthersStay
  <1>6. TypeOK' /\ LookupsAreMade'
    BY <1>1, <1>2, <1>4, RenderFacts
  <1>7. ComparisonTracked'
    <2>1. settled'
      BY <1>1, <1>3, <1>4, NoneIsNothing DEF settled, Shown, Verdicts
    <2>2. Own(requests', Comparing) = {}
      BY <1>1, <1>2, <1>3, <1>4, <1>5, RenderFacts
    <2> QED BY <2>1, <2>2 DEF ComparisonTracked
  <1>8. NarrationTracked'
    BY <1>1, <1>2, <1>4, <1>5, RenderFacts, NarrationStaysTracked DEF IInv
  <1>9. SearchTracked'
    BY <1>1, <1>2, <1>4, <1>5, RenderFacts, SearchStaysTracked DEF IInv
  <1>10. CareerTracked'
    BY <1>1, <1>2, <1>4, <1>5, RenderFacts, CareerStaysTracked DEF IInv
  <1>11. AnswersHavePairs'
    BY <1>3, NoneIsNothing DEF AnswersHavePairs
  <1> QED BY <1>6, <1>7, <1>8, <1>9, <1>10, <1>11 DEF IInv

LEMMA ComparisonLandsKeepsIInv ==
    ASSUME IInv, NEW r \in requests, ComparisonLands(r)
    PROVE  IInv'
  <1>1. r.live /\ r.kind = "comparison" /\ r.kind \in Comparing
    BY DEF ComparisonLands, Comparing
  <1>2. r.of \in Pairs
    BY <1>1 DEF IInv, TypeOK, Requests
  <1>3. Both(r.of) \in SUBSET Players /\ {} \in SUBSET Players
    BY <1>2, NoneIsNothing DEF Both, Pairs, Picks
  <1>4. \E status \in {"success", "not_comparable", "error"}, learned \in SUBSET Players :
            Answered(r, status, learned)
    BY <1>3 DEF ComparisonLands
  <1> QED BY <1>1, <1>4, AnsweredKeepsIInv

LEMMA PositionLandsKeepsIInv ==
    ASSUME IInv, NEW r \in requests, PositionLands(r)
    PROVE  IInv'
  <1>1. r.live /\ r.kind \in Comparing
    BY DEF PositionLands, Comparing
  <1>2. Answered(r, "not_comparable", {})
    BY DEF PositionLands
  <1> QED BY <1>1, <1>2, AnsweredKeepsIInv

\* The refusal's request hands over to the one for a position.
LEMMA ComparisonRefusedKeepsIInv ==
    ASSUME IInv, NEW r \in requests, ComparisonRefused(r)
    PROVE  IInv'
  <1> DEFINE R == (requests \ {r}) \cup Asking("position", r.of)
  <1>1. /\ r.live /\ r.kind = "comparison" /\ known' = known \cup Both(r.of) /\ Effects(R)
        /\ UNCHANGED <<url, slots, text, comparisonAnswer, careerAnswer, narrationAnswer, answer>>
    BY DEF ComparisonRefused
  <1>2. r.of \in Pairs
    BY <1>1 DEF IInv, TypeOK, Requests
  <1>3. Both(r.of) \in SUBSET Players
    BY <1>2, NoneIsNothing DEF Both, Pairs, Picks
  <1>4. /\ r.kind \in Comparing
        /\ r.kind \notin Opening /\ r.kind \notin Narrating /\ r.kind \notin Searching
    BY <1>1 DEF Comparing, Opening, Narrating, Searching
  <1>5. r.of = comparisonPair /\ comparisonPair # None /\ comparisonPair' = comparisonPair
    BY <1>1, <1>2, <1>4, NoneIsNothing, LiveRequest DEF comparisonPair
  <1>6. R = (requests \ {r}) \cup {Request("position", comparisonPair)}
    BY <1>5, AskingFacts
  <1>7. R \in SUBSET Requests
    BY <1>2, <1>5, <1>6, RequestTypes DEF IInv, TypeOK
  <1>8. /\ Own(R, Comparing) = {Request("position", comparisonPair)}
        /\ Own(R, Opening) = Own(requests, Opening)
        /\ Own(R, Narrating) = Own(requests, Narrating)
        /\ Own(R, Searching) = Own(requests, Searching)
    <2> DEFINE q == Request("position", comparisonPair)
    <2>1. q.live /\ q.kind \in Comparing
          /\ q.kind \notin Opening /\ q.kind \notin Narrating /\ q.kind \notin Searching
      BY DEF Request, Comparing, Opening, Narrating, Searching
    <2>2. Own(requests \ {r}, Comparing) = {}
      BY <1>1, <1>4, LiveRequest, Gone
    <2>3. /\ Own(requests \ {r}, Opening) = Own(requests, Opening)
          /\ Own(requests \ {r}, Narrating) = Own(requests, Narrating)
          /\ Own(requests \ {r}, Searching) = Own(requests, Searching)
      BY <1>4, OthersStay
    <2> HIDE DEF q
    <2>4. \A K : Own(R, K) = Own(requests \ {r}, K) \cup {x \in {q} : x.live /\ x.kind \in K}
      BY <1>6 DEF Own, q
    <2> HIDE DEF R
    <2>5. Own(R, Comparing) = {q}
      BY <2>1, <2>2, <2>4
    <2>6. Own(R, Opening) = Own(requests, Opening)
      BY <2>1, <2>3, <2>4
    <2>7. Own(R, Narrating) = Own(requests, Narrating)
      BY <2>1, <2>3, <2>4
    <2>8. Own(R, Searching) = Own(requests, Searching)
      BY <2>1, <2>3, <2>4
    <2> QED BY <2>5, <2>6, <2>7, <2>8 DEF q
  <1> HIDE DEF R
  <1>9. TypeOK /\ TypedBut
    BY <1>1, <1>3 DEF IInv, TypeOK, TypedBut
  <1>10. TypeOK' /\ LookupsAreMade'
    BY <1>1, <1>7, <1>9, RenderFacts
  <1>11. ComparisonTracked'
    <2>1. Own(requests', Comparing) = Own(R, Comparing)
      BY <1>1, <1>5, <1>7, <1>9, RenderFacts
    <2>2. "position" \in Comparing
      BY DEF Comparing
    <2> QED BY <1>5, <1>8, <2>1, <2>2 DEF ComparisonTracked
  <1>12. NarrationTracked'
    BY <1>1, <1>7, <1>8, <1>9, RenderFacts, NarrationStaysTracked DEF IInv
  <1>13. SearchTracked'
    BY <1>1, <1>7, <1>8, <1>9, RenderFacts, SearchStaysTracked DEF IInv
  <1>14. CareerTracked'
    BY <1>1, <1>7, <1>8, <1>9, RenderFacts, CareerStaysTracked DEF IInv
  <1>15. AnswersHavePairs'
    BY <1>5 DEF AnswersHavePairs
  <1> QED BY <1>10, <1>11, <1>12, <1>13, <1>14, <1>15 DEF IInv

LEMMA CareerLandsKeepsIInv ==
    ASSUME IInv, NEW r \in requests, CareerLands(r)
    PROVE  IInv'
  <1>1. /\ r.live /\ r.kind = "career" /\ Effects(requests \ {r})
        /\ UNCHANGED <<url, slots, text, comparisonAnswer, narrationAnswer, answer>>
    BY DEF CareerLands
  <1>2. PICK status \in {"success", "error"} :
            /\ careerAnswer' = [id |-> r.of, status |-> status]
            /\ known' = IF status = "success" THEN known \cup {r.of} ELSE known
    BY DEF CareerLands
  <1>3. r.of \in Players
    BY <1>1 DEF IInv, TypeOK, Requests
  <1>4. /\ r.kind \in Opening
        /\ r.kind \notin Comparing /\ r.kind \notin Narrating /\ r.kind \notin Searching
    BY <1>1 DEF Comparing, Opening, Narrating, Searching
  <1>5. r.of = loneId /\ loneId' = loneId
    BY <1>1, <1>4, LiveRequest DEF loneId
  <1>6. Own(requests \ {r}, Opening) = {}
    BY <1>1, <1>4, LiveRequest, Gone
  <1>7. /\ Own(requests \ {r}, Comparing) = Own(requests, Comparing)
        /\ Own(requests \ {r}, Narrating) = Own(requests, Narrating)
        /\ Own(requests \ {r}, Searching) = Own(requests, Searching)
    BY <1>4, OthersStay
  <1>8. TypeOK /\ TypedBut /\ requests \ {r} \in SUBSET Requests
    BY <1>1, <1>2, <1>3 DEF IInv, TypeOK, TypedBut, Careers
  <1>9. TypeOK' /\ LookupsAreMade'
    BY <1>1, <1>8, RenderFacts
  <1>10. CareerTracked'
    <2>1. Own(requests', Opening) = {}
      BY <1>1, <1>5, <1>6, <1>8, RenderFacts
    <2>2. loneId' \in known' \/ failed'
      BY <1>2, <1>5 DEF failed
    <2> QED BY <2>1, <2>2 DEF CareerTracked
  <1>11. ComparisonTracked'
    BY <1>1, <1>7, <1>8, RenderFacts, ComparisonStaysTracked DEF IInv
  <1>12. NarrationTracked'
    BY <1>1, <1>7, <1>8, RenderFacts, NarrationStaysTracked DEF IInv
  <1>13. SearchTracked'
    BY <1>1, <1>7, <1>8, RenderFacts, SearchStaysTracked DEF IInv
  <1>14. AnswersHavePairs'
    BY <1>1 DEF IInv, AnswersHavePairs, comparisonPair
  <1> QED BY <1>9, <1>10, <1>11, <1>12, <1>13, <1>14 DEF IInv

LEMMA NarrationLandsKeepsIInv ==
    ASSUME IInv, NEW r \in requests, NarrationLands(r)
    PROVE  IInv'
  <1>1. /\ r.live /\ r.kind = "narration" /\ Effects(requests \ {r})
        /\ UNCHANGED <<url, slots, text, known, comparisonAnswer, careerAnswer, answer>>
    BY DEF NarrationLands
  <1>2. PICK status \in {"success", "error"} :
            narrationAnswer' = [pair |-> r.of, status |-> status]
    BY DEF NarrationLands
  <1>3. r.of \in Pairs
    BY <1>1 DEF IInv, TypeOK, Requests
  <1>4. /\ r.kind \in Narrating
        /\ r.kind \notin Comparing /\ r.kind \notin Opening /\ r.kind \notin Searching
    BY <1>1 DEF Comparing, Opening, Narrating, Searching
  <1>5. r.of = qbPair /\ qbPair' = qbPair
    BY <1>1, <1>4, LiveRequest DEF qbPair, Shown, comparisonPair
  <1>6. Own(requests \ {r}, Narrating) = {}
    BY <1>1, <1>4, LiveRequest, Gone
  <1>7. /\ Own(requests \ {r}, Comparing) = Own(requests, Comparing)
        /\ Own(requests \ {r}, Opening) = Own(requests, Opening)
        /\ Own(requests \ {r}, Searching) = Own(requests, Searching)
    BY <1>4, OthersStay
  <1>8. TypeOK /\ TypedBut /\ requests \ {r} \in SUBSET Requests
    BY <1>1, <1>2, <1>3 DEF IInv, TypeOK, TypedBut, Verdicts
  <1>9. TypeOK' /\ LookupsAreMade'
    BY <1>1, <1>8, RenderFacts
  <1>10. NarrationTracked'
    <2>1. Own(requests', Narrating) = {}
      BY <1>1, <1>5, <1>6, <1>8, RenderFacts
    <2>2. narrationAnswer' \in Verdicts
      BY <1>2, <1>3 DEF Verdicts
    <2>3. qbPair' # None /\ narrationAnswer' # None /\ narrationAnswer'.pair = qbPair'
      BY <1>2, <1>3, <1>5, <2>2, NoneIsNothing
    <2> QED BY <2>1, <2>3 DEF narrated, NarrationTracked
  <1>11. ComparisonTracked'
    BY <1>1, <1>7, <1>8, RenderFacts, ComparisonStaysTracked DEF IInv
  <1>12. CareerTracked'
    BY <1>1, <1>7, <1>8, RenderFacts, CareerStaysTracked DEF IInv
  <1>13. SearchTracked'
    BY <1>1, <1>7, <1>8, RenderFacts, SearchStaysTracked DEF IInv
  <1>14. AnswersHavePairs'
    BY <1>1 DEF IInv, AnswersHavePairs, comparisonPair
  <1> QED BY <1>9, <1>10, <1>11, <1>12, <1>13, <1>14 DEF IInv

LEMMA SearchLandsKeepsIInv ==
    ASSUME IInv, NEW r \in requests, SearchLands(r)
    PROVE  IInv'
  <1>1. /\ r.live /\ r.kind = "search" /\ Effects(requests \ {r})
        /\ UNCHANGED <<url, slots, text, known, comparisonAnswer, careerAnswer, narrationAnswer>>
    BY DEF SearchLands
  <1>2. PICK found \in SUBSET InGroup(r.of.group) : answer' = [query |-> r.of, rows |-> found]
    BY DEF SearchLands
  <1>3. r.of \in Queries
    BY <1>1 DEF IInv, TypeOK, Requests
  <1>4. /\ r.kind \in Searching
        /\ r.kind \notin Comparing /\ r.kind \notin Opening /\ r.kind \notin Narrating
    BY <1>1 DEF Comparing, Opening, Narrating, Searching
  <1>5. r.of = query /\ query' = query
    BY <1>1, <1>4, LiveRequest DEF query, bGroup
  <1>6. Own(requests \ {r}, Searching) = {}
    BY <1>1, <1>4, LiveRequest, Gone
  <1>7. /\ Own(requests \ {r}, Comparing) = Own(requests, Comparing)
        /\ Own(requests \ {r}, Opening) = Own(requests, Opening)
        /\ Own(requests \ {r}, Narrating) = Own(requests, Narrating)
    BY <1>4, OthersStay
  <1>8. answer' \in Lists
    BY <1>2, <1>3 DEF InGroup, Lists
  <1>9. TypeOK /\ TypedBut /\ requests \ {r} \in SUBSET Requests
    BY <1>1, <1>8 DEF IInv, TypeOK, TypedBut
  <1>10. TypeOK' /\ LookupsAreMade'
    BY <1>1, <1>9, RenderFacts
  <1>11. SearchTracked'
    <2>1. Own(requests', Searching) = {}
      BY <1>1, <1>5, <1>6, <1>9, RenderFacts
    <2>2. listed'
      BY <1>2, <1>5, <1>8, NoneIsNothing DEF listed
    <2> QED BY <2>1, <2>2 DEF SearchTracked
  <1>12. ComparisonTracked'
    BY <1>1, <1>7, <1>9, RenderFacts, ComparisonStaysTracked DEF IInv
  <1>13. CareerTracked'
    BY <1>1, <1>7, <1>9, RenderFacts, CareerStaysTracked DEF IInv
  <1>14. NarrationTracked'
    BY <1>1, <1>7, <1>9, RenderFacts, NarrationStaysTracked DEF IInv
  <1>15. AnswersHavePairs'
    BY <1>1 DEF IInv, AnswersHavePairs, comparisonPair
  <1> QED BY <1>10, <1>11, <1>12, <1>13, <1>14, <1>15 DEF IInv

-----------------------------------------------------------------------------
(* The invariant, and what follows from it.                                *)

LEMMA InitIInv == Init => IInv
  <1> SUFFICES ASSUME Init PROVE IInv
    OBVIOUS
  <1> USE NoneIsNothing
  <1>1. url \in Picks /\ slots = url
    BY LinkAssumption DEF Init, LinkAssumption
  <1>2. comparisonPair \in Pairs \cup {None} /\ loneId \in Players \cup {None}
    BY <1>1 DEF comparisonPair, loneId, Picks
  <1>3. qbPair = None /\ query = None
    BY DEF Init, qbPair, Shown, query
  <1>4. requests \in SUBSET Requests
    BY <1>2, RequestTypes DEF Init, Asking
  <1>5. TypeOK
    BY <1>1, <1>4 DEF Init, TypeOK
  <1>6. \A x \in requests : x \in Asking("comparison", comparisonPair)
                             \/ x \in Asking("career", loneId)
    BY DEF Init
  <1>7. Own(requests, Comparing) = Asking("comparison", comparisonPair)
    BY DEF Init, Own, Asking, Request, Comparing
  <1>8. Own(requests, Opening) = Asking("career", loneId)
    BY DEF Init, Own, Asking, Request, Opening
  <1>9. Own(requests, Narrating) = {} /\ Own(requests, Searching) = {}
    BY DEF Init, Own, Asking, Request, Narrating, Searching
  <1>10. ComparisonTracked /\ CareerTracked
    BY <1>7, <1>8, AskingFacts DEF ComparisonTracked, CareerTracked, Comparing
  <1>11. NarrationTracked /\ SearchTracked
    BY <1>3, <1>9 DEF NarrationTracked, SearchTracked
  <1>12. LookupsAreMade
    BY <1>1 DEF LookupsAreMade, askedPair, loneId
  <1>13. AnswersHavePairs
    BY DEF Init, AnswersHavePairs
  <1> QED BY <1>5, <1>10, <1>11, <1>12, <1>13 DEF IInv

LEMMA StutterKeepsIInv ==
    ASSUME IInv, UNCHANGED vars
    PROVE  IInv'
  <1>1. UNCHANGED <<url, slots, text, known, comparisonAnswer, careerAnswer, narrationAnswer,
                    answer, requests, lookedUp>>
    BY DEF vars, answers
  <1>2. UNCHANGED <<comparisonPair, loneId, query, askedPair, settled, qbPair, narrated,
                    listed, failed>>
    BY <1>1 DEF comparisonPair, loneId, query, bGroup, askedPair, settled, Shown, qbPair,
                narrated, listed, failed
  <1>3. TypeOK' /\ LookupsAreMade' /\ AnswersHavePairs'
    BY <1>1, <1>2 DEF IInv, TypeOK, LookupsAreMade, AnswersHavePairs
  <1>4. ComparisonTracked' /\ NarrationTracked'
    BY <1>1, <1>2 DEF IInv, ComparisonTracked, NarrationTracked
  <1>5. SearchTracked' /\ CareerTracked'
    BY <1>1, <1>2 DEF IInv, SearchTracked, CareerTracked
  <1> QED BY <1>3, <1>4, <1>5 DEF IInv

LEMMA NextIInv == IInv /\ [Next]_vars => IInv'
  <1> SUFFICES ASSUME IInv, [Next]_vars PROVE IInv'
    OBVIOUS
  <1>1. TypeOK
    BY DEF IInv
  <1>2. /\ slots.a \in Players \cup {None} /\ slots.b \in Players \cup {None}
        /\ url.a \in Players \cup {None} /\ slots \in Picks /\ url \in Picks
        /\ text \in Texts \cup {None} /\ None \in Texts \cup {None}
    BY <1>1 DEF TypeOK, Picks
  <1>3. CASE Navigate
    BY <1>3, NavigatedKeepsIInv, LinkAssumption DEF Navigate, Seed, LinkAssumption
  <1>4. CASE Compare
    BY <1>2, <1>4, NavigatedKeepsIInv DEF Compare, Seed
  <1>5. CASE Close
    <2>1. [a |-> None, b |-> None] \in Picks
      BY DEF Picks
    <2> QED BY <1>2, <1>5, <2>1, NavigatedKeepsIInv DEF Close
  <1>6. CASE Refuse
    <2>1. [url EXCEPT !.b = None] \in Picks
      BY <1>2 DEF Picks
    <2>2. Seed([url EXCEPT !.b = None])
      BY <1>6 DEF Refuse
    <2> QED BY <1>2, <2>1, <2>2, NavigatedKeepsIInv DEF Seed
  <1>7. CASE TypeA
    BY <1>2, <1>7, EditKeepsIInv DEF TypeA
  <1>8. ASSUME NEW p \in Players, SelectA(p) PROVE IInv'
    BY <1>2, <1>8, EditKeepsIInv DEF SelectA
  <1>9. ASSUME NEW p \in Players, SelectB(p) PROVE IInv'
    BY <1>2, <1>9, EditKeepsIInv DEF SelectB
  <1>10. ASSUME NEW typed \in Texts \cup {None}, TypeB(typed) PROVE IInv'
    <2>1. Edit(slots.a, None, typed, {})
      BY <1>10 DEF TypeB
    <2>2. {} \in SUBSET Players
      OBVIOUS
    <2> QED BY <1>2, <1>10, <2>1, <2>2, EditKeepsIInv
  <1>11. ASSUME NEW r \in requests, Settle(r) PROVE IInv'
    BY <1>11, IgnoredKeepsIInv, ComparisonLandsKeepsIInv, ComparisonRefusedKeepsIInv,
       PositionLandsKeepsIInv, CareerLandsKeepsIInv, LookupKeepsIInv, NarrationLandsKeepsIInv,
       SearchLandsKeepsIInv DEF Settle
  <1>12. CASE UNCHANGED vars
    BY <1>12, StutterKeepsIInv
  <1> QED BY <1>3, <1>4, <1>5, <1>6, <1>7, <1>8, <1>9, <1>10, <1>11, <1>12 DEF Next, Step

LEMMA IInvHolds == Spec => []IInv
  BY InitIInv, NextIInv, PTL DEF Spec

LEMMA Few == \A R : (R = {} \/ \E x : R = {x}) => Cardinality(R) <= 1
  BY FS_EmptySet, FS_Singleton

LEMMA LiveIsOwn ==
    /\ Live({"comparison", "position"}) = Own(requests, Comparing)
    /\ Live({"career"}) = Own(requests, Opening)
    /\ Live({"narration"}) = Own(requests, Narrating)
    /\ Live({"search"}) = Own(requests, Searching)
  BY DEF Live, Own, Comparing, Opening, Narrating, Searching

LEMMA IInvHasOneRequest == IInv => OneRequest
  <1> SUFFICES ASSUME IInv PROVE OneRequest
    OBVIOUS
  <1>1. \A kind, w : Request(kind, w).of = w
    BY DEF Request
  <1>2. /\ Cardinality(Own(requests, Comparing)) <= 1
        /\ \A r \in Own(requests, Comparing) : r.of = comparisonPair
    BY <1>1, Few DEF IInv, ComparisonTracked
  <1>3. /\ Cardinality(Own(requests, Opening)) <= 1
        /\ \A r \in Own(requests, Opening) : r.of = loneId
    BY <1>1, Few DEF IInv, CareerTracked
  <1>4. /\ Cardinality(Own(requests, Narrating)) <= 1
        /\ \A r \in Own(requests, Narrating) : r.of = qbPair
    BY <1>1, Few DEF IInv, NarrationTracked
  <1>5. /\ Cardinality(Own(requests, Searching)) <= 1
        /\ \A r \in Own(requests, Searching) : r.of = query
    BY <1>1, Few DEF IInv, SearchTracked
  <1> QED BY <1>2, <1>3, <1>4, <1>5, LiveIsOwn DEF OneRequest

LEMMA IInvAsksForTheGroup == IInv => GroupIsAskedFor
  <1> SUFFICES ASSUME IInv, ~askedPair, slots.a \notin known \cup {None},
                      slots.a \notin lookedUp
               PROVE  \/ \E r \in Live({"career", "lookup"}) : r.of = slots.a
                      \/ slots.a = loneId /\ failed
    BY DEF GroupIsAskedFor, failed
  <1>1. slots.a = loneId
    BY DEF IInv, LookupsAreMade
  <1>2. failed \/ Request("career", loneId) \in requests
    BY <1>1 DEF IInv, CareerTracked, Own
  <1>3. Request("career", loneId) \in requests
        => \E r \in Live({"career", "lookup"}) : r.of = loneId
    BY DEF Live, Request
  <1> QED BY <1>1, <1>2, <1>3

\* Whatever was listed last is of the group it was searched in.
RowsKeepTheirGroup == answer # None => answer.rows \subseteq InGroup(answer.query.group)

LEMMA RowsAreOfTheirGroup == Spec => []RowsKeepTheirGroup
  <1>1. Init => RowsKeepTheirGroup
    BY DEF Init, RowsKeepTheirGroup
  <1>2. RowsKeepTheirGroup /\ [Next]_vars => RowsKeepTheirGroup'
    <2> SUFFICES ASSUME RowsKeepTheirGroup, [Next]_vars PROVE RowsKeepTheirGroup'
      OBVIOUS
    <2>1. ASSUME NEW r \in requests, SearchLands(r) PROVE RowsKeepTheirGroup'
      <3>1. PICK found \in SUBSET InGroup(r.of.group) : answer' = [query |-> r.of, rows |-> found]
        BY <2>1 DEF SearchLands
      <3>2. answer'.rows = found /\ answer'.query.group = r.of.group
        BY <3>1
      <3> QED BY <3>2 DEF RowsKeepTheirGroup, InGroup
    <2>2. ASSUME answer' = answer PROVE RowsKeepTheirGroup'
      BY <2>2 DEF RowsKeepTheirGroup, InGroup
    <2>3. CASE Navigate \/ Compare \/ Close \/ Refuse
      <3>1. answer' = answer
        BY <2>3 DEF Navigate, Compare, Close, Refuse, Seed, Navigated
      <3> QED BY <2>2, <3>1
    <2>4. CASE \/ TypeA
               \/ \E p \in Players : SelectA(p) \/ SelectB(p)
               \/ \E typed \in Texts \cup {None} : TypeB(typed)
      <3>1. answer' = answer
        BY <2>4 DEF TypeA, SelectA, SelectB, TypeB, Edit
      <3> QED BY <2>2, <3>1
    <2>5. ASSUME NEW r \in requests, Settle(r) PROVE RowsKeepTheirGroup'
      <3>1. SearchLands(r) \/ answer' = answer
        BY <2>5 DEF Settle, Ignored, ComparisonLands, ComparisonRefused, PositionLands, Answered,
                    CareerLands, LookupLands, NarrationLands, answers
      <3> QED BY <2>1, <2>2, <3>1
    <2>6. CASE UNCHANGED vars
      <3>1. answer' = answer
        BY <2>6 DEF vars, answers
      <3> QED BY <2>2, <3>1
    <2> QED BY <2>3, <2>4, <2>5, <2>6 DEF Next, Step
  <1> QED BY <1>1, <1>2, PTL DEF Spec

LEMMA ListFollowsTheField == IInv /\ RowsKeepTheirGroup => ListIsTheFields
  <1> SUFFICES ASSUME IInv, RowsKeepTheirGroup, query # None, Own(requests, Searching) = {}
               PROVE  /\ answer # None /\ answer.query = query
                      /\ \A p \in rows : SameGroup([a |-> slots.a, b |-> p])
    BY LiveIsOwn DEF ListIsTheFields
  <1>1. answer # None /\ answer.query = query
    BY DEF IInv, SearchTracked, listed
  <1>2. query.group = bGroup /\ bGroup # None /\ bGroup = GroupOf[slots.a]
    BY DEF query, bGroup
  <1>3. \A p \in rows : GroupOf[p] = bGroup
    BY <1>1, <1>2 DEF rows, RowsKeepTheirGroup, InGroup
  <1> QED BY <1>1, <1>2, <1>3 DEF SameGroup

LEMMA IInvLoads == IInv /\ RowsKeepTheirGroup => LoadingIsTrue
  <1> SUFFICES ASSUME IInv, RowsKeepTheirGroup PROVE LoadingIsTrue
    OBVIOUS
  <1>1. (comparisonPair # None /\ ~settled) => Own(requests, Comparing) # {}
    BY DEF IInv, ComparisonTracked
  <1>2. (qbPair # None /\ ~narrated) => Own(requests, Narrating) # {}
    BY DEF IInv, NarrationTracked
  <1> QED BY <1>1, <1>2, ListFollowsTheField, LiveIsOwn DEF LoadingIsTrue

\* The page of a press of Compare waits for what it has just asked.
LEMMA CompareStepAsksAfresh ==
    ASSUME IInv, IInv', Compare, comparisonPair' # None
    PROVE  /\ ~settled'
           /\ \E r \in requests' \ requests : r.live /\ r.of = comparisonPair'
  <1>1. comparisonPair = None
    BY DEF Compare, askedPair, comparisonPair, Pairs
  <1>2. comparisonAnswer = None
    BY <1>1 DEF IInv, AnswersHavePairs
  <1>3. ~settled'
    BY <1>2 DEF Compare, Seed, Navigated, DropAnswer, settled, Shown
  <1>4. PICK kind \in Comparing :
            Own(requests', Comparing) = {Request(kind, comparisonPair')}
    BY <1>3 DEF IInv, ComparisonTracked
  <1> DEFINE r == Request(kind, comparisonPair')
  <1>5. r \in requests' /\ r.live /\ r.kind \in Comparing /\ r.of = comparisonPair'
    BY <1>4 DEF Own, Request
  <1>6. r \notin requests
    BY <1>1, <1>5, LiveRequest
  <1> QED BY <1>3, <1>5, <1>6

\* Every value the page keeps has its type, however it is navigated.
THEOREM TypeCorrect == Spec => []TypeOK
  <1>1. IInv => TypeOK
    BY DEF IInv
  <1> QED BY <1>1, IInvHolds, PTL

\* The page listens to one request of a kind at most, the one for what it
\* shows: a late answer for anything else cannot reach the screen.
THEOREM OnlyTheScreenIsHeard == Spec => []OneRequest
  BY IInvHolds, IInvHasOneRequest, PTL

\* Whatever the page says it waits for is on its way, and a list that no search
\* is about to replace is the one for the field as it is.
THEOREM WaitingHasARequest == Spec => []LoadingIsTrue
  BY IInvHolds, RowsAreOfTheirGroup, IInvLoads, PTL

\* A Player A who keeps the other field shut has been asked about.
THEOREM ShutFieldIsAskedFor == Spec => []GroupIsAskedFor
  BY IInvHolds, IInvAsksForTheGroup, PTL

\* A press of Compare shows nothing of an earlier ask and makes its own.
THEOREM ComparePressIsFresh == Spec => CompareAsksAfresh
  <1>1. IInv /\ IInv' /\ [Next]_vars =>
            [(Compare /\ comparisonPair' # None) =>
                /\ ~settled'
                /\ \E r \in requests' \ requests : r.live /\ r.of = comparisonPair']_vars
    BY CompareStepAsksAfresh
  <1> QED BY <1>1, IInvHolds, PTL DEF Spec, CompareAsksAfresh
=============================================================================
