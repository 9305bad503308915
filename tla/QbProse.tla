------------------------------- MODULE QbProse ------------------------------
(***************************************************************************)
(* The prose of a quarterback narration (api/persona/qb_claims.py,         *)
(* _check_prose and check_and_render_qb): whom its figures belong to,      *)
(* which verdicts it may type, and how large it may call a margin.         *)
(*                                                                         *)
(* A text is a sequence of tokens, each the unit one of the module's       *)
(* patterns matches: a record [is, of], where `of` says which.             *)
(*   slot         the placeholder of claim `of`                            *)
(*   name         a form of the player of side `of`, as the block has it   *)
(*   banned       what no narration may type: a number, a numeral, a       *)
(*                hedge, speculation, jargon, another player's name, a     *)
(*                block player's name in another form                      *)
(*   measure      "career" or "peak"; goes, "the <measure> goes to"        *)
(*   verb         a win verb; beats, one that takes an object; over, only  *)
(*                the object                                               *)
(*   trail        says the player before it is behind                      *)
(*   hard, mild, photo   the sizes of a margin; not, a negator             *)
(*   he, and, at, to, own ("clear"), word; comma, but, break               *)
(***************************************************************************)
EXTENDS QbClaims

CONSTANT MEASURE_WINDOW
ASSUME WindowIsPositive == MEASURE_WINDOW \in Nat \ {0}

Token(is, of) == [is |-> is, of |-> of]
TokenKinds == {"slot", "name", "banned", "measure", "goes", "verb", "beats", "over", "trail", "hard",
               "mild", "photo", "not", "he", "and", "at", "to", "own", "word", "comma", "but", "break"}
At(text, i, kinds) == i \in DOMAIN text /\ text[i].is \in kinds
Before(text, i) == {j \in DOMAIN text : j < i}
After(text, i) == {j \in DOMAIN text : j > i}
Used(text) == {text[i].of : i \in {j \in DOMAIN text : text[j].is = "slot"}}

\* A slot's claim, as a set: empty for a token that is no slot with a claim.
ClaimAt(text, modes, i) ==
    IF At(text, i, {"slot"}) /\ text[i].of \in DOMAIN modes THEN {modes[text[i].of]} ELSE {}
HasKind(text, modes, i, kind) == \E c \in ClaimAt(text, modes, i) : c.kind = kind
OfAPlayer(text, modes, i) == \E c \in ClaimAt(text, modes, i) : c.side # None

\* A player reference: a name, or a winner's placeholder.
Refs(text, modes) ==
    {i \in DOMAIN text :
        \/ text[i].is = "name"
        \/ OfAPlayer(text, modes, i) /\ HasKind(text, modes, i, "winner")}
RefSide(text, modes, i) == IF text[i].is = "name" THEN text[i].of ELSE modes[text[i].of].side

\* Where the sentence and the clause of i begin (after that token) and end.
Left(text, i, ends) == Max({0} \cup {j \in Before(text, i) : text[j].is \in ends})
Right(text, i, ends) == Min({Len(text) + 1} \cup {j \in After(text, i) : text[j].is \in ends})
Sentence == {"break"}
Clause == {"break", "comma", "but", "not"}
SameSentence(text, i, j) == Left(text, i, Sentence) = Left(text, j, Sentence)

---------------------------------------------------------------------------
(* Whose figure it is: what the walk of _check_prose finds *)

\* history, at i: the names and the placeholders of a player before it.  A
\* margin names nobody.
History(text, modes, i) ==
    {j \in Before(text, i) :
        \/ text[j].is = "name"
        \/ OfAPlayer(text, modes, j) /\ ~HasKind(text, modes, j, "margin")}
LatestOf(text, modes, history) == IF history = {} THEN None ELSE RefSide(text, modes, Max(history))
\* last and nearest, at i: the player of the latest, and of the latest in its sentence.
LastPlayer(text, modes, i) == LatestOf(text, modes, History(text, modes, i))
\* Mutant: the nearest player is not forgotten at the end of a sentence.
NearestAcrossBreaks(text, modes, i) == LastPlayer(text, modes, i)
NearestPlayer(text, modes, i) ==
    LatestOf(text, modes, {j \in History(text, modes, i) : j > Left(text, i, Sentence)})

\* _margin_holder: whom the prose puts ahead by the margin at i.
Holder(text, modes, i) ==
    LET history == History(text, modes, i)
        at == Max(history)
        trails == \/ At(text, i + 1, {"trail"})
                  \/ \E j \in Before(text, i) : /\ text[j].is = "trail"
                                                /\ j > Max({at, Left(text, i, Clause)})
    IN  IF history = {} THEN None
        ELSE IF At(text, at - 1, {"beats", "over"}) THEN LastPlayer(text, modes, at)
        ELSE IF trails THEN Other(RefSide(text, modes, at))
        ELSE RefSide(text, modes, at)

\* A figure the prose gives to the other player.
WrongPlayer(text, modes, i) ==
    \E c \in ClaimAt(text, modes, i) :
        /\ c.side # None
        /\ IF c.kind = "margin" THEN Holder(text, modes, i) \notin {None, c.side}
           ELSE c.mode = "attributed" /\ LastPlayer(text, modes, i) \notin {None, c.side}

\* named_at: a figure that must print its player's name.
MustName(text, modes, i) ==
    \E c \in ClaimAt(text, modes, i) :
        c.side # None /\ c.mode = "name" /\ NearestPlayer(text, modes, i) # c.side

\* _figure_as_score_errors: a margin right after a player with no words of its
\* own, and one score where a scoreline wants two.
PosesAsScore(text, modes, i) ==
    LET ref(j) == j \in Refs(text, modes)
        to(j) == At(text, j, {"to"}) /\ ref(j - 1)
        joined(j) == ref(j) \/ (At(text, j, {"comma"}) /\ ref(j - 1))
    IN  \/ /\ HasKind(text, modes, i, "margin")
           /\ \/ At(text, i - 1, {"at"}) /\ joined(i - 2)
              \/ joined(i - 1) /\ ~At(text, i + 1, {"own"})
        \/ /\ HasKind(text, modes, i, "score")
           /\ to(i - 1) \/ (ref(i - 1) /\ to(i - 2))

---------------------------------------------------------------------------
(* A verdict typed in the prose: _verdict_backstop *)

\* _previous_sentence_subject: the one player of the nearest earlier sentence
\* that names any.
PreviousSubjects(text, modes, left) ==
    LET earlier == {j \in Refs(text, modes) : j <= left}
        sides == {RefSide(text, modes, j) : j \in {k \in earlier :
                      SameSentence(text, k, Max(earlier))}}
    IN  IF earlier # {} /\ Cardinality(sides) = 1 THEN sides ELSE {}

\* The player a win verb at i is said of: the last one before it in its
\* sentence, or whom a lone "he" stands for.
SubjectsOf(text, modes, i) ==
    LET left == Left(text, i, Sentence)
        before == {j \in Refs(text, modes) : left < j /\ j < i}
    IN  IF before # {} THEN {RefSide(text, modes, Max(before))}
        ELSE IF i = left + 2 /\ At(text, i - 1, {"he"}) THEN PreviousSubjects(text, modes, left)
        ELSE {}

\* The measures the verb is said to take: a few words on, in its clause, and
\* before another player's own clause.
TakenBy(text, modes, i) ==
    LET gapped == {j \in Refs(text, modes) : j > i /\ At(text, j - 1, {"and"})}
        end == Min({Right(text, i, Clause), i + MEASURE_WINDOW + 1} \cup gapped)
        window == {j \in After(text, i) : j < end}
    IN  {text[j].of : j \in {k \in window : text[k].is \in {"measure", "goes"}}}
        \cup UNION {c.measures : c \in UNION {ClaimAt(text, modes, j) : j \in
                       {k \in window : HasKind(text, modes, k, "margin")}}}

\* Mutant: the leader of either measure may be said to win this one.
WinsSomething(b, side, measure) == \E m \in Measures : b.winners[m] = side
Wins(b, side, measure) == b.winners[measure] = side

WrongVerdict(text, modes, b, i) ==
    \/ /\ text[i].is \in {"verb", "beats"}
       /\ \E side \in SubjectsOf(text, modes, i), m \in TakenBy(text, modes, i) : ~Wins(b, side, m)
    \/ /\ text[i].is = "goes"
       /\ LET end == Min({Right(text, i, Clause \ Sentence), i + MEASURE_WINDOW + 1})
              after == {j \in Refs(text, modes) : i < j /\ j < end}
          IN  after # {} /\ ~Wins(b, RefSide(text, modes, Min(after)), text[i].of)

---------------------------------------------------------------------------
(* The size of a margin: _margin_word_errors *)

Fits == [hard |-> {"decisive"}, mild |-> {"clear", "decisive"}, photo |-> {"close"}]

Mentioned(text, modes, i) ==
    IF text[i].is \in {"measure", "goes"} THEN {text[i].of}
    ELSE UNION {c.measures : c \in ClaimAt(text, modes, i)}
Mentions(text, modes) == {i \in DOMAIN text : Mentioned(text, modes, i) # {}}

\* _nearest_measures: in the phrase's own part of the clause, then before it in
\* the sentence, then after it.  A mention before it is further by its own length.
Nearest(text, modes, i, left, right) ==
    LET all == Mentions(text, modes)
        before(l) == {j \in all : l < j /\ j < i}
        after(r) == {j \in all : i < j /\ j < r}
        from(l) == Mentioned(text, modes, Max(before(l)))
        every == UNION {Mentioned(text, modes, j) : j \in after(right)}
        sLeft == Left(text, i, Sentence) sRight == Right(text, i, Sentence)
    IN  IF after(right) # {} /\ (before(left) = {} \/ Min(after(right)) - i <= i - Max(before(left)))
        THEN every
        ELSE IF before(left) # {} THEN from(left)
        ELSE IF before(sLeft) # {} THEN from(sLeft)
        ELSE IF after(sRight) # {} THEN Mentioned(text, modes, Min(after(sRight)))
        ELSE {}

\* _phrase_measures: between the coordinated verbs around it, with a list of
\* measures in apposition; both measures when it names none.
PhraseMeasures(text, modes, i) ==
    LET verbs == {j \in DOMAIN text : text[j].is = "and" /\ At(text, j + 1, {"verb", "beats"})}
        left == Max({Left(text, i, Clause)} \cup {j \in verbs : j < i})
        cuts == {j \in verbs : i < j /\ j < Right(text, i, Clause)}
        right == Min({Right(text, i, Clause)} \cup cuts)
        listEnd == Right(text, right, {"comma", "break"})
        list == {j \in DOMAIN text : right < j /\ j < listEnd}
        apposed == IF /\ cuts = {} /\ At(text, right, {"comma"})
                      /\ \A j \in list : text[j].is \in {"measure", "and"}
                   THEN {text[j].of : j \in {k \in list : text[k].is = "measure"}} ELSE {}
        said == Nearest(text, modes, i, left, right) \cup apposed
    IN  IF said = {} THEN Measures ELSE said

WrongSize(text, modes, b, i) ==
    /\ ~b.inconclusive
    /\ text[i].is \in DOMAIN Fits
    /\ ~At(text, i - 1, {"not"})
    /\ \E m \in PhraseMeasures(text, modes, i) : Band(b, m) \notin Fits[text[i].is]

---------------------------------------------------------------------------
(* The check and the rendering *)

ProseErrors(text, modes, b) ==
    {i \in DOMAIN text : \/ text[i].is = "banned"
                         \/ WrongPlayer(text, modes, i)
                         \/ PosesAsScore(text, modes, i)
                         \/ WrongVerdict(text, modes, b, i)
                         \/ WrongSize(text, modes, b, i)}

\* check_and_render_qb accepts: every claim is used and resolves.
Modes(cl, b) == [id \in DOMAIN cl |-> ModeOf(cl[id], b)]
Accepted(text, cl, b) ==
    LET claims == {cl[id] : id \in DOMAIN cl} IN
    /\ text # <<>>
    /\ Cardinality(DOMAIN cl) <= MAX_QB_CLAIMS
    /\ Used(text) = DOMAIN cl
    /\ \A c \in claims : Answers(c, b) # {}
    /\ NamesTheVerdict(claims, b)
    /\ ProseErrors(text, Modes(cl, b), b) = {}

\* show(): a figure with its player's name in front where it must, a winner by
\* name, the prose as typed.
Piece(says, of) == [says |-> says, of |-> of]
ShownAt(text, modes, i) ==
    LET c == modes[text[i].of]
        figure == Piece("figure", text[i].of)
        name == Piece("name", c.side)
    IN  IF text[i].is # "slot" THEN <<Piece(text[i].is, text[i].of)>>
        ELSE IF c.kind = "winner" THEN <<name>>
        ELSE IF MustName(text, modes, i) THEN <<name, figure>>
        ELSE <<figure>>
\* What is read on screen, token by token.
Rendered(text, modes) == [i \in DOMAIN text |-> ShownAt(text, modes, i)]
=============================================================================
