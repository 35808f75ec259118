------------------------------ MODULE MCUsers ------------------------------
(***************************************************************************)
(* Small instances of Users for TLC.                                       *)
(***************************************************************************)
EXTENDS Users, TLC

CONSTANTS r1, r2, old, new

TwoRequests == {r1, r2}
TwoValues == {old, new}
RequestSymmetry == Permutations(TwoRequests)
=============================================================================
