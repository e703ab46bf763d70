----------------------------- MODULE Retention -----------------------------
(***************************************************************************)
(* The retention policy: which prune the loaded table clears.  A policy is *)
(* the sequence of its class entries and its audit_entries section.        *)
(***************************************************************************)
EXTENDS Naturals, Sequences

NoPolicy == [classes |-> <<>>, audit |-> [window |-> 0, disposition |-> "absent"]]

Matching(policy, class) == {i \in DOMAIN policy.classes : policy.classes[i].class = class}

\* Mutant of Evaluate: any entry of the class that clears the window will do.
EvaluateAny(policy, class, days) ==
    \E i \in Matching(policy, class) :
        policy.classes[i].disposition = "soft_delete" /\ days >= policy.classes[i].window

\* evaluate: the first entry of the class decides; it must say soft_delete and
\* its window must be reached.  No entry, no policy: refused.
Evaluate(policy, class, days) ==
    \E i \in Matching(policy, class) :
        /\ \A j \in Matching(policy, class) : i <= j
        /\ policy.classes[i].disposition = "soft_delete"
        /\ days >= policy.classes[i].window

\* evaluate_audit_entries, for the audit prune.
EvaluateAuditEntries(policy, days) ==
    policy.audit.disposition = "archive_then_delete" /\ days >= policy.audit.window
=============================================================================
