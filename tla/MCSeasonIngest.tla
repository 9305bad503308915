-------------------------- MODULE MCSeasonIngest ---------------------------
(***************************************************************************)
(* TLC instance of SeasonIngest: one season of one regular game and one     *)
(* bowl that share a team.                                                 *)
(***************************************************************************)
EXTENDS SeasonIngest, TLC

CONSTANTS regular, bowl, home, away

MCBatchOf == [g \in Games |-> IF g = bowl THEN 2 ELSE 1]
MCTeamsOf == [g \in Games |-> IF g = bowl THEN {home, away} ELSE {home}]

Symmetry == Permutations(Runs)
=============================================================================
