--------------------------- MODULE MCTenantPools ---------------------------
(***************************************************************************)
(* TenantPools with requests that can be interchanged.                     *)
(***************************************************************************)
EXTENDS TenantPools, TLC

Symmetry == Permutations(Requests) \cup Permutations(Workspaces)
=============================================================================
