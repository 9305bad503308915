--------------------------- MODULE MCComparePage ---------------------------
(***************************************************************************)
(* TLC instance of ComparePage: two quarterbacks and, in no group, a       *)
(* kicker.                                                                 *)
(***************************************************************************)
EXTENDS ComparePage

CONSTANTS qb1, qb2, kicker, QB

MCGroupOf == [p \in Players |-> IF p = kicker THEN None ELSE QB]

Pick(p, q) == [a |-> p, b |-> q]

\* The empty form, one player's career page, a comparison and a mixed pair.
MCLinks == {Pick(None, None), Pick(None, qb1), Pick(qb1, qb2), Pick(qb2, kicker)}
=============================================================================
