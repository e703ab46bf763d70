---------------------------- MODULE MCAuditPrune ----------------------------
(***************************************************************************)
(* AuditPrune for TLC: two stored rows, room for two more, two prunes.     *)
(***************************************************************************)
EXTENDS AuditPrune, TLC

CONSTANTS p1, p2

Symmetry == Permutations(Prunes)
=============================================================================
