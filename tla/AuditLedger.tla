---------------------------- MODULE AuditLedger ----------------------------
(***************************************************************************)
(* What the audit trail promises whoever reads it: entries are added, and  *)
(* none is lost or altered.                                                *)
(***************************************************************************)
CONSTANT FirstEntries
VARIABLE ledger

Append == \E entry \in ledger' \ ledger : ledger' = ledger \cup {entry}

LedgerSpec == ledger = FirstEntries /\ [][Append]_ledger
=============================================================================
