----------------------------- MODULE AuditPrune -----------------------------
(***************************************************************************)
(* AuditService::audit_prune: rows of audit_entries older than a window    *)
(* are exported to an archive file and then deleted, while the handlers    *)
(* keep appending and other prunes of the same store run.                  *)
(*                                                                         *)
(* The clock counts seconds, the resolution of an archive's file name.     *)
(* Row ids are random uuids, so their order says nothing about age.  An    *)
(* archive file (inode) is named by the prune that created it.  The gates  *)
(* of the maintenance handler are taken as passed.                         *)
(***************************************************************************)
EXTENDS Integers, FiniteSets

CONSTANTS
    Prunes,      \* the prune requests, each sent once
    Ids,         \* ids an audit row can get, ordered as the primary key
    Stored,      \* ids of the rows, stamped 0, that are there at the start
    PageSize,    \* rows per SELECT of the archive walk
    Window,      \* older_than_days, in seconds
    MaxDelay,    \* longest time from stamping a row to its INSERT
    LastSecond   \* when the clock stops

ASSUME PruneAssumption ==
    /\ Ids \subseteq Nat \ {0} /\ Stored \subseteq Ids /\ IsFiniteSet(Stored)
    /\ PageSize \in Nat \ {0}
    /\ Window \in Nat /\ MaxDelay \in Nat /\ MaxDelay < Window
    /\ LastSecond \in Nat

VARIABLES
    now,        \* the clock
    log,        \* the audit_entries table
    pending,    \* rows stamped but not inserted yet
    pc, cutoff,
    counted,    \* the rows a prune counted; the code keeps their number
    walked,     \* the rows a prune has read and written to its writer
    cursor,     \* the id its walk continues after
    path,       \* the second that names its archive file
    inode,      \* the file it has open
    linked,     \* the files that have a name in the archive directory
    file,       \* the rows that can be read back from a file
    mixed,      \* files two prunes have been writing over each other
    deleted,    \* the rows a prune's DELETE removed; the code keeps their number
    verified,   \* the flag of its report
    removed     \* history: every row any prune deleted

table == <<log, pending>>
walk == <<cutoff, counted, walked, cursor>>
disk == <<path, inode, linked, file, mixed>>
report == <<deleted, verified, removed>>
vars == <<now, table, pc, walk, disk, report>>

Rows == [id : Ids, at : Nat]

Unopened == 0 - 1

Steps == {"start", "open", "walk", "sync", "verify", "delete", "post", "record"}
Ends == {"listed", "done", "refused", "failed"}

TypeOK ==
    /\ now \in Nat
    /\ log \subseteq Rows /\ pending \subseteq Rows /\ removed \subseteq Rows
    /\ pc \in [Prunes -> Steps \cup Ends]
    /\ cutoff \in [Prunes -> Int] /\ cursor \in [Prunes -> Nat]
    /\ counted \in [Prunes -> SUBSET Rows] /\ walked \in [Prunes -> SUBSET Rows]
    /\ deleted \in [Prunes -> SUBSET Rows] /\ verified \in [Prunes -> BOOLEAN]
    /\ path \in [Prunes -> Nat \cup {Unopened}] /\ inode \in [Prunes -> Prunes]
    /\ linked \subseteq Prunes /\ mixed \subseteq Prunes
    /\ file \in [Prunes -> SUBSET Rows]

-----------------------------------------------------------------------------
\* The queries of the audit repository.

Before(t) == {x \in log : x.at < t}
Rest(p) == {x \in Before(cutoff[p]) : x.id > cursor[p]}

\* SELECT ... ORDER BY id ASC LIMIT PageSize
IsPage(page, rest) ==
    IF Cardinality(rest) <= PageSize
    THEN page = rest
    ELSE /\ Cardinality(page) = PageSize
         /\ \A x \in page, y \in rest \ page : x.id < y.id

At(p, label) == pc[p] = label
Goto(p, label) == pc' = [pc EXCEPT ![p] = label]

Used == {x.id : x \in log \cup pending \cup removed}

-----------------------------------------------------------------------------
Init ==
    /\ now = 0
    /\ log = {[id |-> i, at |-> 0] : i \in Stored}
    /\ pending = {}
    /\ pc = [p \in Prunes |-> "start"]
    /\ cutoff = [p \in Prunes |-> 0] /\ cursor = [p \in Prunes |-> 0]
    /\ counted = [p \in Prunes |-> {}] /\ walked = [p \in Prunes |-> {}]
    /\ path = [p \in Prunes |-> Unopened] /\ inode = [p \in Prunes |-> p]
    /\ linked = {} /\ mixed = {}
    /\ file = [p \in Prunes |-> {}]
    /\ deleted = [p \in Prunes |-> {}] /\ verified = [p \in Prunes |-> FALSE]
    /\ removed = {}

\* Time passes; no INSERT takes longer than MaxDelay to get through.
Tick ==
    /\ now < LastSecond
    /\ \A x \in pending : now < x.at + MaxDelay
    /\ now' = now + 1
    /\ UNCHANGED <<table, pc, walk, disk, report>>

\* Mutant of Stamp: the row is dated by something else than the clock.
StampBackdated ==
    /\ \E i \in Ids \ Used : pending' = pending \cup {[id |-> i, at |-> now - Window]}
    /\ UNCHANGED <<now, log, pc, walk, disk, report>>

\* create: the row is stamped, then inserted.
Stamp ==
    /\ \E i \in Ids \ Used : pending' = pending \cup {[id |-> i, at |-> now]}
    /\ UNCHANGED <<now, log, pc, walk, disk, report>>

Land ==
    /\ \E x \in pending : pending' = pending \ {x} /\ log' = log \cup {x}
    /\ UNCHANGED <<now, pc, walk, disk, report>>

\* The cutoff is fixed and the candidates are counted; a dry run stops here.
Count(p) ==
    /\ At(p, "start")
    /\ cutoff' = [cutoff EXCEPT ![p] = now - Window]
    /\ counted' = [counted EXCEPT ![p] = Before(now - Window)]
    /\ \E next \in {"open", "listed"} : Goto(p, next)
    /\ UNCHANGED <<now, table, walked, cursor, disk, report>>

\* File::create on a name made of the second: a file of that name is truncated,
\* else there is a new one.
SameName == {q \in linked : path[q] = now}
StillOpen(i) == \E q \in Prunes : inode[q] = i /\ pc[q] \in {"walk", "sync"}

Open(p) ==
    /\ At(p, "open")
    /\ path' = [path EXCEPT ![p] = now]
    /\ \E i \in (IF SameName = {} THEN {p} ELSE SameName) :
          /\ inode' = [inode EXCEPT ![p] = i]
          /\ linked' = linked \cup {i}
          /\ file' = [file EXCEPT ![i] = {}]
          /\ mixed' = IF StillOpen(i) THEN mixed \cup {i} ELSE mixed \ {i}
    /\ Goto(p, "walk")
    /\ UNCHANGED <<now, table, walk, report>>

\* One SELECT of the walk, its rows written: a full page may have a successor.
ReadPage(p) ==
    /\ At(p, "walk")
    /\ \E page \in SUBSET Rest(p) :
          /\ IsPage(page, Rest(p))
          /\ walked' = [walked EXCEPT ![p] = @ \cup page]
          /\ IF Cardinality(page) = PageSize
             THEN /\ \E x \in page : /\ \A y \in page : y.id <= x.id
                                     /\ cursor' = [cursor EXCEPT ![p] = x.id]
                  /\ UNCHANGED pc
             ELSE Goto(p, "sync") /\ UNCHANGED cursor
    /\ UNCHANGED <<now, table, cutoff, counted, disk, report>>

\* Mutant of Sync: the writer is dropped with rows in its buffer.
SyncNothing(p) ==
    /\ At(p, "sync")
    /\ Goto(p, "verify")
    /\ UNCHANGED <<now, table, walk, disk, report>>

\* flush and fsync.  Of a file two prunes have been writing at their own
\* offsets any part may be left.
Sync(p) ==
    LET all == file[inode[p]] \cup walked[p] IN
    /\ At(p, "sync")
    /\ \E kept \in (IF inode[p] \in mixed THEN SUBSET all ELSE {all}) :
          file' = [file EXCEPT ![inode[p]] = kept]
    /\ Goto(p, "verify")
    /\ UNCHANGED <<now, table, walk, path, inode, linked, mixed, report>>

\* The delete is refused, and the file of that name removed, unless the numbers
\* of counted and of written rows agree.
Verify(p) ==
    LET agree == Cardinality(walked[p]) = Cardinality(counted[p]) IN
    /\ At(p, "verify")
    /\ linked' = IF agree THEN linked ELSE {i \in linked : path[i] # path[p]}
    /\ Goto(p, IF agree THEN "delete" ELSE "refused")
    /\ UNCHANGED <<now, table, walk, path, inode, file, mixed, report>>

\* Mutant of Delete: the cutoff is computed anew.
DeleteByClock(p) ==
    LET gone == Before(now - Window) IN
    /\ At(p, "delete")
    /\ log' = log \ gone
    /\ deleted' = [deleted EXCEPT ![p] = gone]
    /\ removed' = removed \cup gone
    /\ Goto(p, "post")
    /\ UNCHANGED <<now, pending, walk, disk, verified>>

Delete(p) ==
    LET gone == Before(cutoff[p]) IN
    /\ At(p, "delete")
    /\ log' = log \ gone
    /\ deleted' = [deleted EXCEPT ![p] = gone]
    /\ removed' = removed \cup gone
    /\ Goto(p, "post")
    /\ UNCHANGED <<now, pending, walk, disk, verified>>

\* Mutant of PostCount: only the rows left behind are looked at.
PostCountOnly(p) ==
    /\ At(p, "post")
    /\ verified' = [verified EXCEPT ![p] = Before(cutoff[p]) = {}]
    /\ Goto(p, "record")
    /\ UNCHANGED <<now, table, walk, disk, deleted, removed>>

PostCount(p) ==
    /\ At(p, "post")
    /\ verified' = [verified EXCEPT ![p] =
           Before(cutoff[p]) = {} /\ Cardinality(deleted[p]) = Cardinality(walked[p])]
    /\ Goto(p, "record")
    /\ UNCHANGED <<now, table, walk, disk, deleted, removed>>

\* The prune's own audit entry.
Record(p) ==
    /\ At(p, "record")
    /\ \E i \in Ids \ Used : log' = log \cup {[id |-> i, at |-> now]}
    /\ Goto(p, "done")
    /\ UNCHANGED <<now, pending, walk, disk, report>>

\* A statement or a write fails, or the process dies: the prune stops where it
\* is, and the part of the archive that was written stays.
Fail(p) ==
    /\ pc[p] \in Steps \ {"start"}
    /\ \E kept \in {{}, walked[p]} :
          file' = IF pc[p] \in {"walk", "sync"}
                  THEN [file EXCEPT ![inode[p]] = @ \cup kept] ELSE file
    /\ Goto(p, "failed")
    /\ UNCHANGED <<now, table, walk, path, inode, linked, mixed, report>>

Prune(p) ==
    Count(p) \/ Open(p) \/ ReadPage(p) \/ Sync(p) \/ Verify(p)
    \/ Delete(p) \/ PostCount(p) \/ Record(p) \/ Fail(p)

Next == Tick \/ Stamp \/ Land \/ \E p \in Prunes : Prune(p)

Spec == Init /\ [][Next]_vars

\* No two prunes create their archive in the same second.
Spaced == \A p, q \in Prunes : p # q /\ path[p] = path[q] => path[p] = Unopened

SpacedSpec == Init /\ [][Next /\ Spaced']_vars

-----------------------------------------------------------------------------
Archived == UNION {file[i] : i \in linked}

\* "The archive IS the record": a deleted row can be read in an archive file,
\* at every later time.
NoSilentDelete == removed \subseteq Archived

\* A report that says verified tells the truth: its archive holds what it
\* deleted itself, no row more or less, and no row it counted is left.
VerifiedReportIsExact ==
    \A p \in Prunes : verified[p] =>
        /\ deleted[p] = walked[p] /\ deleted[p] \subseteq file[inode[p]]
        /\ inode[p] \in linked
        /\ counted[p] \cap log = {}

\* What a reader finds in the table or, once it is deleted there, in an archive.
Trail == INSTANCE AuditLedger
    WITH FirstEntries <- {[id |-> i, at |-> 0] : i \in Stored},
         ledger <- log \cup (removed \cap Archived)

\* Through any number of prunes, finished, refused or failed, the trail only
\* grows, one entry at a time.
TrailOnlyGrows == Trail!LedgerSpec
=============================================================================
