--------------------------- MODULE MCRatingStore ---------------------------
(***************************************************************************)
(* TLC instance of RatingStore.  Runs are told apart by nothing but their  *)
(* names.                                                                  *)
(***************************************************************************)
EXTENDS RatingStore, TLC

Symmetry == Permutations(Jobs)
=============================================================================
