---------------------------- MODULE MCCallBudget ----------------------------
(***************************************************************************)
(* TLC instance of CallBudget.  The threads run the same code and are told *)
(* apart by nothing but their names.                                       *)
(***************************************************************************)
EXTENDS CallBudget, TLC

Symmetry == Permutations(Threads)
=============================================================================
