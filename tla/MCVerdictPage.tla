--------------------------- MODULE MCVerdictPage ---------------------------
(***************************************************************************)
(* TLC instance of VerdictPage: two plain subjects and one a link refuses, *)
(* two user teams of which one is plain, four question numbers a visit.   *)
(***************************************************************************)
EXTENDS VerdictPage

CONSTANTS osu, mich, odd, bucks, oddTeam
=============================================================================
