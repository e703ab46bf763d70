------------------------------ MODULE MCGroups ------------------------------
(***************************************************************************)
(* Groups for TLC: two seeds and the sub of a platform admin's token, the  *)
(* reserved name and one more.                                              *)
(***************************************************************************)
EXTENDS Groups, TLC

CONSTANTS r1, r2

Symmetry == Permutations(Requests)
=============================================================================
