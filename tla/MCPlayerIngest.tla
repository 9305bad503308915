-------------------------- MODULE MCPlayerIngest ---------------------------
(***************************************************************************)
(* TLC instance of PlayerIngest: three persons, two of whom mint one id,   *)
(* and two seasons.                                                        *)
(***************************************************************************)
EXTENDS PlayerIngest, TLC

CONSTANTS brady, twin, kicker, i1, i2

MCMint == [p \in Persons |-> IF p = kicker THEN i2 ELSE i1]
=============================================================================
