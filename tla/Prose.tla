-------------------------------- MODULE Prose -------------------------------
(***************************************************************************)
(* The prose of a team narration (api/persona/claims.py, _check_prose and  *)
(* check_and_render): what it may say around its placeholders, and how the *)
(* placeholders render.                                                    *)
(*                                                                         *)
(* A text is a sequence of tokens, each the unit one of the module's       *)
(* patterns matches.  A token is a record [is, team, id]:                  *)
(*   slot         a {id} placeholder                                       *)
(*   name         a catalog team's name, spelled as the catalog does       *)
(*   misspelt     a block team's name in another case                      *)
(*   alias        an alias of `team`                                       *)
(*   wrapped      an alias of `team` that holds the name `id` inside it    *)
(*                ("Alabama-Birmingham")                                   *)
(*   mascot       a one-word mascot of `team`; fullmascot, several words   *)
(*   the, word, verb (a result verb), break (the end of a sentence)        *)
(*   number, timing, venue, numeral: typed by hand; bare (a bare venue     *)
(*   phrase, "on the road").                                               *)
(* Two tokens next to each other have only joiners between them.           *)
(***************************************************************************)
EXTENDS Claims

CONSTANTS MAX_CLAIMS, MAX_GAME_SCORE_CLAIMS

Token(is, team, id) == [is |-> is, team |-> team, id |-> id]
TokenKinds == {"slot", "name", "misspelt", "alias", "wrapped", "mascot", "fullmascot", "the", "word",
               "verb", "break", "number", "timing", "venue", "numeral", "bare"}
At(text, i, is) == i \in DOMAIN text /\ text[i].is = is
SentenceOf(text, i) == Cardinality({j \in 1 .. (i - 1) : text[j].is = "break"})
SameSentence(text, i, j) == SentenceOf(text, i) = SentenceOf(text, j)
Used(text) == {text[i].id : i \in {j \in DOMAIN text : text[j].is = "slot"}}

Kind(cl, id) == IF id \in DOMAIN cl THEN cl[id].kind ELSE "none"
\* A name kind's own team, when the claim carries one.
NameTeam(cl, id) == IF Kind(cl, id) \in NameKinds /\ "team" \in DOMAIN cl[id]
                    THEN cl[id].team ELSE None

---------------------------------------------------------------------------
(* What is rejected in the prose *)

TypedFigure(text, i) == text[i].is \in {"number", "timing", "venue", "numeral"}

\* in_game_sentence: a bare venue is rejected only where a game is meant.
BareVenue(text, cl, i) ==
    /\ text[i].is = "bare"
    /\ \E j \in DOMAIN text :
          /\ SameSentence(text, i, j)
          /\ \/ text[j].is = "verb"
             \/ text[j].is = "slot" /\ Kind(cl, text[j].id) \in GameKinds

\* The name the name pattern finds in a token: a wrapped alias of a team
\* outside the block is matched by the name inside it.
Matched(token) == IF token.is = "wrapped" THEN token.id ELSE token.team
Repeated(text, cl, i) ==
    At(text, i - 1, "slot") /\ NameTeam(cl, text[i - 1].id) = Matched(text[i])
WrongName(text, cl, b, i) ==
    \/ text[i].is = "misspelt"
    \/ /\ text[i].is \in {"name", "wrapped"}
       /\ Matched(text[i]) \notin b.teams \/ Repeated(text, cl, i)

\* _introduced: after "the", or where a team name ends; a rank slot prints one.
Introduced(text, cl, i) ==
    \/ At(text, i - 1, "the") \/ At(text, i - 1, "name") \/ At(text, i - 1, "misspelt")
    \/ At(text, i - 1, "slot") /\ Kind(cl, text[i - 1].id) = "rank"
Nickname(text, cl, b, i) ==
    \/ text[i].is \in {"alias", "wrapped"} /\ text[i].team \in b.teams
    \/ text[i].is = "fullmascot"
    \/ text[i].is = "mascot" /\ Introduced(text, cl, i)

ProseErrors(text, cl, b) ==
    {i \in DOMAIN text : \/ TypedFigure(text, i) \/ BareVenue(text, cl, i)
                         \/ WrongName(text, cl, b, i) \/ Nickname(text, cl, b, i)}

---------------------------------------------------------------------------
(* Which figures render without their team's name *)

\* The team references the walk reads, with the aliases of teams outside the
\* block put in (_with_outside_aliases): a wrapped name reads as the alias.
Refers(token) == token.is \in {"name", "misspelt", "alias", "wrapped"}

\* Mutant: a game's figure leaves the nearest reference as it was.
TurnsPastGames(text, cl, j) ==
    \/ text[j].is = "break" \/ Refers(text[j])
    \/ text[j].is = "slot" /\ NameTeam(cl, text[j].id) # None
\* What changes the nearest reference: the end of a sentence, a team's name, a
\* figure of one team, and a figure of two, after which there is none.
Turns(text, cl, j) ==
    \/ text[j].is = "break" \/ Refers(text[j])
    \/ text[j].is = "slot" /\ (NameTeam(cl, text[j].id) # None \/ Kind(cl, text[j].id) \in PairKinds)
TurnsTo(text, cl, j) ==
    IF Refers(text[j]) THEN text[j].team
    ELSE IF text[j].is = "slot" THEN NameTeam(cl, text[j].id) ELSE None
Nearest(text, cl, i) ==
    LET turns == {j \in 1 .. (i - 1) : Turns(text, cl, j)}
    IN  IF turns = {} THEN None ELSE TurnsTo(text, cl, Max(turns))

\* _bare_offsets: a figure whose nearest reference is its own team.
Bare(text, cl, i) ==
    LET own == NameTeam(cl, text[i].id)
    IN  text[i].is = "slot" /\ own # None /\ Nearest(text, cl, i) = own

---------------------------------------------------------------------------
(* The check and the rendering *)

Capped(cl) == /\ Cardinality(DOMAIN cl) <= MAX_CLAIMS
              /\ Cardinality({id \in DOMAIN cl : cl[id].kind = "game_score"})
                     <= MAX_GAME_SCORE_CLAIMS

Accepted(text, cl, b) == /\ text # <<>>
                         /\ Capped(cl)
                         /\ Used(text) = DOMAIN cl
                         /\ \A id \in DOMAIN cl : Answers(cl[id], b) # {}
                         /\ ProseErrors(text, cl, b) = {}

\* show(): what each token prints, as a sequence of pieces: a team's name, a
\* figure, or what was typed.  A rank's name follows it, any other's leads.
Piece(says, team, id) == [says |-> says, team |-> team, id |-> id]
Shown(text, cl, i) ==
    LET token == text[i] own == NameTeam(cl, token.id)
        figure == Piece("figure", own, token.id)
        name == Piece("team", own, None)
    IN  IF token.is # "slot" THEN <<Piece(token.is, token.team, None)>>
        ELSE IF own = None \/ Bare(text, cl, i) THEN <<figure>>
        ELSE IF Kind(cl, token.id) = "rank" THEN <<figure, name>> ELSE <<name, figure>>
\* What is read on screen, token by token.
Rendered(text, cl) == [i \in DOMAIN text |-> Shown(text, cl, i)]
=============================================================================
