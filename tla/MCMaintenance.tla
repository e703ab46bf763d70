---------------------------- MODULE MCMaintenance ----------------------------
(***************************************************************************)
(* The maintenance passes for TLC: pages of one row, so every walk takes   *)
(* several, and policies that tell the first entry of a class from others. *)
(***************************************************************************)
EXTENDS Maintenance, TLC

CONSTANTS r1, r2

Entry(class, window, disposition) ==
    [class |-> class, window |-> window, disposition |-> disposition]

MCPolicies ==
    {[classes |-> <<Entry("user", 1, "soft_delete"), Entry("user", 2, "archive")>>,
      audit |-> [window |-> 1, disposition |-> "archive_then_delete"]],
     [classes |-> <<Entry("agent", 1, "soft_delete"), Entry("user", 2, "soft_delete"),
                    Entry("user", 1, "soft_delete")>>,
      audit |-> [window |-> 1, disposition |-> "soft_delete"]]}

Symmetry == Permutations(Requests)
=============================================================================
