-------------------------- MODULE AuditPruneProofs --------------------------
(***************************************************************************)
(* What AuditPrune guarantees for every number of prunes and rows, every   *)
(* page size and every window longer than the delay of an INSERT, as long  *)
(* as no two prunes create their archive in the same second.               *)
(***************************************************************************)
EXTENDS AuditPrune, FiniteSetTheorems, TLAPS

\* Nothing younger than a cutoff can still enter the table below it.
CutoffIsPast ==
    /\ \A p \in Prunes : pc[p] # "start" => cutoff[p] <= now - Window
    /\ \A x \in pending : now <= x.at + MaxDelay

\* Each prune has a file of its own.
OwnFile ==
    /\ mixed = {}
    /\ \A p \in Prunes :
          /\ inode[p] = p
          /\ pc[p] \in {"start", "open"} => path[p] = Unopened
          /\ pc[p] \in {"walk", "sync", "verify", "delete"} => p \in linked
          /\ p \in linked => path[p] \in Nat

\* A walk has read every candidate up to its cursor, and in the end all of them.
WalkIsExact ==
    \A p \in Prunes :
        /\ pc[p] \in {"start", "open"} => cursor[p] = 0
        /\ pc[p] = "walk" => \A x \in log : x.at < cutoff[p] /\ x.id <= cursor[p] => x \in walked[p]
        /\ pc[p] \in {"sync", "verify", "delete"} => Before(cutoff[p]) \subseteq walked[p]

FileIsComplete ==
    \A p \in Prunes : pc[p] \in {"verify", "delete"} => walked[p] \subseteq file[p]

\* A deleted row is in a file no prune will touch again.
Kept ==
    \A x \in removed : \E i \in linked :
        x \in file[i] /\ pc[i] \in {"post", "record", "done", "failed"}

IInv == TypeOK /\ CutoffIsPast /\ OwnFile /\ WalkIsExact /\ FileIsComplete /\ Kept

-----------------------------------------------------------------------------
\* What LIMIT and ORDER BY id give the walk: a page that is not full is the
\* last, and a full one reaches exactly to its greatest id.
LEMMA PageReachesItsLastId ==
    ASSUME NEW rest \in SUBSET Rows, NEW page \in SUBSET rest, IsPage(page, rest)
    PROVE  /\ Cardinality(page) # PageSize => page = rest
           /\ \A x \in page : (\A y \in page : y.id <= x.id) =>
                  \A z \in rest : z.id <= x.id => z \in page
<1>1. Cardinality(page) # PageSize => page = rest
  BY DEF IsPage
<1>2. ASSUME NEW x \in page, \A y \in page : y.id <= x.id,
             NEW z \in rest, z.id <= x.id, z \notin page
      PROVE  FALSE
  <2>1. page # rest
    BY <1>2
  <2>2. x.id < z.id
    BY <1>2, <2>1 DEF IsPage
  <2>3. x.id \in Nat /\ z.id \in Nat
    BY PruneAssumption DEF Rows
  <2>4. QED
    BY <1>2, <2>2, <2>3
<1>3. QED
  BY <1>1, <1>2

LEMMA InitIInv == Init => IInv
<1>1. SUFFICES ASSUME Init PROVE IInv
  OBVIOUS
<1>2. TypeOK
  BY <1>1, PruneAssumption DEF Init, TypeOK, Rows, Steps, Ends, Unopened
<1>3. CutoffIsPast /\ FileIsComplete /\ Kept
  BY <1>1 DEF Init, CutoffIsPast, FileIsComplete, Kept
<1>4. OwnFile /\ WalkIsExact
  BY <1>1 DEF Init, OwnFile, WalkIsExact
<1>5. QED
  BY <1>2, <1>3, <1>4 DEF IInv

LEMMA TypeStep == TypeOK /\ [Next]_vars => TypeOK'
<1>1. SUFFICES ASSUME TypeOK, [Next]_vars PROVE TypeOK'
  OBVIOUS
<1> USE PruneAssumption DEF TypeOK, Rows, Steps, Ends, Unopened, Goto, At
<1>2. CASE Tick
  BY <1>1, <1>2 DEF Tick, table, walk, disk, report
<1>3. CASE Stamp
  BY <1>1, <1>3 DEF Stamp, Used, walk, disk, report
<1>4. CASE Land
  BY <1>1, <1>4 DEF Land, walk, disk, report
<1>5. ASSUME NEW p \in Prunes, Prune(p) PROVE TypeOK'
  <2>1. CASE Count(p)
    BY <1>1, <2>1 DEF Count, Before, table, disk, report
  <2>2. CASE Open(p)
    BY <1>1, <2>2 DEF Open, SameName, table, walk, report
  <2>3. CASE ReadPage(p)
    <3>1. PICK page \in SUBSET Rest(p) :
             /\ walked' = [walked EXCEPT ![p] = @ \cup page]
             /\ IF Cardinality(page) = PageSize
                THEN /\ \E x \in page : cursor' = [cursor EXCEPT ![p] = x.id]
                     /\ UNCHANGED pc
                ELSE Goto(p, "sync") /\ UNCHANGED cursor
      BY <2>3, Zenon DEF ReadPage, At, Goto
    <3>2. page \subseteq Rows
      BY <1>1 DEF Rest, Before
    <3>3. cursor' \in [Prunes -> Nat]
      BY <1>1, <3>1, <3>2
    <3>4. UNCHANGED <<now, table, cutoff, counted, disk, report>>
      BY <2>3, Zenon DEF ReadPage
    <3>5. walked' \in [Prunes -> SUBSET Rows] /\ pc' \in [Prunes -> Steps \cup Ends]
      BY <1>1, <3>1, <3>2
    <3>6. QED
      BY <1>1, <3>3, <3>4, <3>5 DEF table, disk, report
  <2>4. CASE Sync(p)
    BY <1>1, <2>4 DEF Sync, table, walk, report
  <2>5. CASE Verify(p)
    BY <1>1, <2>5 DEF Verify, table, walk, report
  <2>6. CASE Delete(p)
    BY <1>1, <2>6 DEF Delete, Before, walk, disk
  <2>7. CASE PostCount(p)
    BY <1>1, <2>7 DEF PostCount, table, walk, disk
  <2>8. CASE Record(p)
    BY <1>1, <2>8 DEF Record, Used, walk, disk, report
  <2>9. CASE Fail(p)
    BY <1>1, <2>9 DEF Fail, table, walk, report
  <2>10. QED
    BY <1>5, <2>1, <2>2, <2>3, <2>4, <2>5, <2>6, <2>7, <2>8, <2>9 DEF Prune
<1>6. CASE UNCHANGED vars
  BY <1>1, <1>6 DEF vars, table, walk, disk, report
<1>7. QED
  BY <1>1, <1>2, <1>3, <1>4, <1>5, <1>6 DEF Next

\* Type correctness: every reachable state, of spaced and of racing prunes.
THEOREM TypeCorrect == Spec => []TypeOK
<1>1. Init => TypeOK
  BY InitIInv DEF IInv
<1>2. QED
  BY <1>1, TypeStep, PTL DEF Spec

\* The clock and the appends: every row that enters the table is younger than
\* every cutoff taken so far.
LEMMA AppendKeepsIInv ==
    ASSUME IInv, TypeOK', Tick \/ Stamp \/ Land
    PROVE  IInv'
<1> USE PruneAssumption
<1>1. UNCHANGED <<pc, walk, disk, report>>
  BY Zenon DEF Tick, Stamp, Land
<1>2. CutoffIsPast'
  <2>1. CASE Tick
    BY <2>1, <1>1 DEF Tick, table, walk, IInv, TypeOK, Rows, CutoffIsPast
  <2>2. CASE Stamp \/ Land
    BY <2>2, <1>1 DEF Stamp, Land, walk, IInv, TypeOK, Rows, CutoffIsPast
  <2>3. QED
    BY <2>1, <2>2
<1>3. \A p \in Prunes : pc[p] # "start" => \A x \in log' \ log : ~(x.at < cutoff[p])
  BY DEF Tick, Stamp, Land, table, IInv, TypeOK, Rows, CutoffIsPast
<1>4. WalkIsExact'
  <2>1. SUFFICES ASSUME NEW p \in Prunes
        PROVE  /\ pc[p] \in {"start", "open"} => cursor[p] = 0
               /\ pc[p] = "walk" =>
                     \A x \in log' : x.at < cutoff[p] /\ x.id <= cursor[p] => x \in walked[p]
               /\ pc[p] \in {"sync", "verify", "delete"} =>
                     \A x \in log' : x.at < cutoff[p] => x \in walked[p]
    BY <1>1, Zenon DEF WalkIsExact, Before, walk
  <2>2. QED
    BY <1>3 DEF IInv, WalkIsExact, Before
<1>5. OwnFile' /\ FileIsComplete' /\ Kept'
  BY <1>1, Zenon DEF IInv, OwnFile, FileIsComplete, Kept, walk, disk, report
<1>6. QED
  BY <1>2, <1>4, <1>5 DEF IInv

\* The steps of a prune that leave the files alone.
LEMMA QueryKeepsIInv ==
    ASSUME IInv, TypeOK', NEW p \in Prunes,
           Count(p) \/ ReadPage(p) \/ PostCount(p) \/ Record(p)
    PROVE  IInv'
<1> USE PruneAssumption
<1>1. UNCHANGED <<now, pending, disk, deleted, removed>>
  BY Zenon DEF Count, ReadPage, PostCount, Record, table, report
<1>2. /\ \A q \in Prunes \ {p} : /\ pc'[q] = pc[q] /\ cutoff'[q] = cutoff[q]
                                 /\ walked'[q] = walked[q] /\ cursor'[q] = cursor[q]
      /\ pc'[p] # "start"
  BY DEF Count, ReadPage, PostCount, Record, At, Goto, walk, IInv, TypeOK
<1>3. CutoffIsPast'
  BY <1>1, <1>2 DEF Count, ReadPage, PostCount, Record, At, walk, IInv, TypeOK, CutoffIsPast
<1>4. OwnFile'
  <2>1. CASE Count(p)
    BY <1>1, <2>1 DEF Count, At, Goto, disk, IInv, TypeOK, OwnFile
  <2>2. CASE ReadPage(p)
    BY <1>1, <2>2 DEF ReadPage, At, Goto, disk, IInv, TypeOK, OwnFile
  <2>3. CASE PostCount(p) \/ Record(p)
    BY <1>1, <2>3 DEF PostCount, Record, At, Goto, disk, IInv, TypeOK, OwnFile
  <2>4. QED
    BY <2>1, <2>2, <2>3
<1>5. FileIsComplete' /\ Kept'
  BY <1>1, <1>2 DEF Count, ReadPage, PostCount, Record, At, Goto, disk, walk, IInv,
                    TypeOK, FileIsComplete, Kept
<1>6. WalkIsExact'
  <2>1. CASE Count(p)
    BY <1>1, <2>1 DEF Count, At, Goto, table, IInv, TypeOK, WalkIsExact, Before
  <2>2. CASE ReadPage(p)
    <3>1. PICK page \in SUBSET Rest(p) :
             /\ IsPage(page, Rest(p))
             /\ walked' = [walked EXCEPT ![p] = @ \cup page]
             /\ IF Cardinality(page) = PageSize
                THEN /\ \E x \in page : /\ \A y \in page : y.id <= x.id
                                        /\ cursor' = [cursor EXCEPT ![p] = x.id]
                     /\ UNCHANGED pc
                ELSE Goto(p, "sync") /\ UNCHANGED cursor
      BY <2>2, Zenon DEF ReadPage
    <3>2. log' = log /\ cutoff' = cutoff /\ pc[p] = "walk"
      BY <2>2, Zenon DEF ReadPage, table, At
    <3>3. Rest(p) \subseteq Rows
      BY DEF Rest, Before, IInv, TypeOK
    <3>4. \A x \in log : x.at < cutoff[p] => x \in walked[p] \/ x \in Rest(p)
      <4>1. cursor[p] \in Nat /\ \A x \in log : x.id \in Nat
        BY DEF IInv, TypeOK, Rows
      <4>2. \A x \in log : x.id <= cursor[p] \/ x.id > cursor[p]
        BY <4>1
      <4>3. \A x \in log : x.at < cutoff[p] /\ x.id <= cursor[p] => x \in walked[p]
        BY <3>2 DEF IInv, WalkIsExact
      <4>4. QED
        BY <4>2, <4>3 DEF Rest, Before
    <3>5. CASE Cardinality(page) = PageSize
      <4>1. PICK x \in page : /\ \A y \in page : y.id <= x.id
                              /\ cursor' = [cursor EXCEPT ![p] = x.id]
        BY <3>1, <3>5
      <4>2. \A z \in Rest(p) : z.id <= x.id => z \in page
        BY <3>1, <3>3, <4>1, PageReachesItsLastId
      <4>3. pc' = pc
        BY <3>1, <3>5
      <4>4. QED
        BY <1>2, <3>1, <3>2, <3>4, <4>1, <4>2, <4>3
        DEF IInv, TypeOK, WalkIsExact, Before
    <3>6. CASE Cardinality(page) # PageSize
      <4>1. page = Rest(p)
        BY <3>1, <3>3, <3>6, PageReachesItsLastId
      <4>2. pc' = [pc EXCEPT ![p] = "sync"]
        BY <3>1, <3>6 DEF Goto
      <4>3. QED
        BY <1>2, <3>1, <3>2, <3>4, <4>1, <4>2 DEF IInv, TypeOK, WalkIsExact, Before
    <3>7. QED
      BY <3>5, <3>6
  <2>3. CASE PostCount(p)
    BY <2>3, <1>2 DEF PostCount, At, Goto, table, walk, IInv, TypeOK, WalkIsExact, Before
  <2>4. CASE Record(p)
    <3>1. \A q \in Prunes : pc[q] # "start" => \A x \in log' \ log : ~(x.at < cutoff[q])
      BY <2>4 DEF Record, IInv, TypeOK, Rows, CutoffIsPast
    <3>2. log' \ (log' \ log) \subseteq log
      OBVIOUS
    <3>3. QED
      BY <2>4, <1>2, <3>1, <3>2
      DEF Record, At, Goto, walk, IInv, TypeOK, WalkIsExact, Before
  <2>5. QED
    BY <2>1, <2>2, <2>3, <2>4
<1>7. QED
  BY <1>3, <1>4, <1>5, <1>6 DEF IInv

\* A prune that opens its file gets one nobody else has or will have.
LEMMA OpenKeepsIInv ==
    ASSUME IInv, TypeOK', Spaced', NEW p \in Prunes, Open(p)
    PROVE  IInv'
<1>1. /\ UNCHANGED <<now, table, walk, report>>
      /\ pc[p] = "open" /\ pc' = [pc EXCEPT ![p] = "walk"]
      /\ path' = [path EXCEPT ![p] = now]
  BY Zenon DEF Open, At, Goto
<1>2. SameName = {}
  <2>1. SUFFICES ASSUME NEW q \in linked, path[q] = now PROVE FALSE
    BY DEF SameName
  <2>2. q \in Prunes /\ q # p /\ now # Unopened
    BY <1>1, <2>1 DEF IInv, TypeOK, OwnFile, Unopened
  <2>3. path'[p] = now /\ path'[q] = now
    BY <1>1, <2>1, <2>2 DEF IInv, TypeOK
  <2>4. QED
    BY <2>2, <2>3 DEF Spaced
<1>3. /\ inode' = [inode EXCEPT ![p] = p]
      /\ linked' = linked \cup {p}
      /\ file' = [file EXCEPT ![p] = {}]
      /\ mixed' = IF StillOpen(p) THEN mixed \cup {p} ELSE mixed \ {p}
  BY <1>2 DEF Open
<1>4. ~StillOpen(p)
  BY <1>1 DEF StillOpen, IInv, OwnFile
<1>5. OwnFile'
  BY <1>1, <1>3, <1>4 DEF IInv, TypeOK, OwnFile
<1>6. CutoffIsPast' /\ WalkIsExact'
  <2>1. CutoffIsPast'
    BY <1>1 DEF table, walk, IInv, TypeOK, CutoffIsPast
  <2>2. \A x \in log : ~(x.id <= cursor[p])
    <3>1. cursor[p] = 0
      BY <1>1 DEF IInv, WalkIsExact
    <3>2. \A x \in log : x.id \in Nat \ {0}
      BY PruneAssumption DEF IInv, TypeOK, Rows
    <3>3. QED
      BY <3>1, <3>2
  <2>3. \A q \in Prunes \ {p} : pc'[q] = pc[q]
    BY <1>1 DEF IInv, TypeOK
  <2>4. pc'[p] = "walk"
    BY <1>1 DEF IInv, TypeOK
  <2>5. WalkIsExact'
    BY <1>1, <2>2, <2>3, <2>4, SMT DEF table, walk, IInv, WalkIsExact, Before
  <2>6. QED
    BY <2>1, <2>5
<1>7. FileIsComplete' /\ Kept'
  BY <1>1, <1>3 DEF table, walk, report, IInv, TypeOK, FileIsComplete, Kept
<1>8. QED
  BY <1>5, <1>6, <1>7 DEF IInv

\* Flushing, and failing half-way, only add rows to the prune's own file.
LEMMA WriteKeepsIInv ==
    ASSUME IInv, TypeOK', NEW p \in Prunes, Sync(p) \/ Fail(p)
    PROVE  IInv'
<1>1. UNCHANGED <<now, table, walk, path, inode, linked, mixed, report>>
  BY Zenon DEF Sync, Fail
<1>2. pc' = [pc EXCEPT ![p] = IF pc[p] = "sync" /\ Sync(p) THEN "verify" ELSE "failed"]
  BY DEF Sync, Fail, At, Goto
<1>3. /\ pc[p] \in {"walk", "sync"} \/ file' = file
      /\ \A i \in Prunes : file[i] \subseteq file'[i]
      /\ \A i \in Prunes \ {p} : file'[i] = file[i]
      /\ Sync(p) => walked[p] \subseteq file'[p]
  <2>1. inode[p] = p /\ mixed = {} /\ file \in [Prunes -> SUBSET Rows]
    BY DEF IInv, TypeOK, OwnFile
  <2>2. CASE Sync(p)
    <3>1. file' = [file EXCEPT ![p] = file[p] \cup walked[p]] /\ pc[p] = "sync"
      BY <2>1, <2>2 DEF Sync, At
    <3>2. QED
      BY <2>1, <3>1
  <2>3. CASE Fail(p)
    <3>1. PICK kept \in {{}, walked[p]} :
             file' = IF pc[p] \in {"walk", "sync"}
                     THEN [file EXCEPT ![p] = file[p] \cup kept] ELSE file
      BY <2>1, <2>3 DEF Fail
    <3>2. ~Sync(p)
      BY <2>3 DEF Sync, Fail, Goto, IInv, TypeOK
    <3>3. QED
      BY <2>1, <3>1, <3>2
  <2>4. QED
    BY <2>2, <2>3
<1>4. pc[p] # "start"
  BY DEF Sync, Fail, At
<1>5. CutoffIsPast' /\ OwnFile'
  BY <1>1, <1>2, <1>4 DEF Sync, At, table, walk, IInv, TypeOK, CutoffIsPast, OwnFile
<1>6. WalkIsExact'
  BY <1>1, <1>2 DEF Sync, At, table, walk, IInv, TypeOK, WalkIsExact, Before
<1>7. FileIsComplete'
  BY <1>1, <1>2, <1>3 DEF walk, IInv, TypeOK, FileIsComplete
<1>8. Kept'
  <2>1. SUFFICES ASSUME NEW x \in removed
        PROVE  \E i \in linked :
                   x \in file'[i] /\ pc'[i] \in {"post", "record", "done", "failed"}
    BY <1>1, Zenon DEF Kept, report
  <2>2. PICK i \in linked : x \in file[i] /\ pc[i] \in {"post", "record", "done", "failed"}
    BY DEF IInv, Kept
  <2>3. i \in Prunes
    BY DEF IInv, TypeOK
  <2>4. x \in file'[i]
    BY <1>3, <2>2, <2>3
  <2>5. pc'[i] \in {"post", "record", "done", "failed"}
    BY <1>2, <2>2, <2>3 DEF Sync, At, IInv, TypeOK
  <2>6. QED
    BY <2>4, <2>5
<1>9. QED
  BY <1>5, <1>6, <1>7, <1>8 DEF IInv

\* A refused prune removes its own file, which no deleted row depends on.
LEMMA VerifyKeepsIInv ==
    ASSUME IInv, TypeOK', Spaced', NEW p \in Prunes, Verify(p)
    PROVE  IInv'
<1>1. UNCHANGED <<now, table, walk, path, inode, file, mixed, report>>
  BY Zenon DEF Verify
<1>2. pc[p] = "verify" /\ p \in linked
  BY DEF Verify, At, IInv, OwnFile
<1>3. \A q \in linked : q # p => path[q] # path[p]
  BY <1>1, <1>2 DEF Spaced, IInv, TypeOK, OwnFile, Unopened
<1>4. \/ pc' = [pc EXCEPT ![p] = "delete"] /\ linked' = linked
      \/ pc' = [pc EXCEPT ![p] = "refused"] /\ linked' = linked \ {p}
  BY <1>3 DEF Verify, Goto, IInv, TypeOK
<1>5. CutoffIsPast' /\ OwnFile'
  BY <1>1, <1>2, <1>4 DEF table, walk, IInv, TypeOK, CutoffIsPast, OwnFile
<1>6. WalkIsExact' /\ FileIsComplete'
  BY <1>1, <1>2, <1>4 DEF table, walk, IInv, TypeOK, WalkIsExact, Before, FileIsComplete
<1>7. Kept'
  BY <1>1, <1>2, <1>4 DEF report, IInv, TypeOK, Kept
<1>8. QED
  BY <1>5, <1>6, <1>7 DEF IInv

\* What is deleted is what was walked, and that is in the file.
LEMMA DeleteKeepsIInv ==
    ASSUME IInv, TypeOK', NEW p \in Prunes, Delete(p)
    PROVE  IInv'
<1>1. /\ UNCHANGED <<now, pending, walk, disk>>
      /\ pc[p] = "delete" /\ pc' = [pc EXCEPT ![p] = "post"]
      /\ log' \subseteq log
      /\ removed' = removed \cup Before(cutoff[p])
  BY DEF Delete, At, Goto
<1>2. p \in linked /\ Before(cutoff[p]) \subseteq file[p]
  BY <1>1 DEF IInv, OwnFile, WalkIsExact, FileIsComplete
<1>3. CutoffIsPast' /\ OwnFile' /\ FileIsComplete'
  BY <1>1 DEF walk, disk, IInv, TypeOK, CutoffIsPast, OwnFile, FileIsComplete
<1>4. WalkIsExact'
  BY <1>1 DEF walk, IInv, TypeOK, WalkIsExact, Before
<1>5. Kept'
  <2>1. SUFFICES ASSUME NEW x \in removed'
        PROVE  \E i \in linked :
                   x \in file[i] /\ pc'[i] \in {"post", "record", "done", "failed"}
    BY <1>1, Zenon DEF Kept, disk
  <2>2. CASE x \in removed
    BY <1>1, <2>2 DEF IInv, TypeOK, Kept
  <2>3. CASE x \in Before(cutoff[p])
    BY <1>1, <1>2, <2>3 DEF IInv, TypeOK
  <2>4. QED
    BY <1>1, <2>1, <2>2, <2>3
<1>6. QED
  BY <1>3, <1>4, <1>5 DEF IInv

LEMMA StepIInv == IInv /\ [Next /\ Spaced']_vars => IInv'
<1> SUFFICES ASSUME IInv, [Next /\ Spaced']_vars PROVE IInv'
  OBVIOUS
<1>1. TypeOK'
  BY TypeStep DEF IInv
<1>2. CASE UNCHANGED vars
  BY <1>2, Zenon DEF vars, table, walk, disk, report, IInv, TypeOK, CutoffIsPast, OwnFile,
                     WalkIsExact, Before, FileIsComplete, Kept
<1>3. CASE Tick \/ Stamp \/ Land
  BY <1>1, <1>3, AppendKeepsIInv
<1>4. ASSUME Spaced', NEW p \in Prunes, Prune(p) PROVE IInv'
  BY <1>1, <1>4, QueryKeepsIInv, OpenKeepsIInv, WriteKeepsIInv, VerifyKeepsIInv,
     DeleteKeepsIInv DEF Prune
<1>5. QED
  BY <1>2, <1>3, <1>4 DEF Next

LEMMA Inductive == SpacedSpec => []IInv
BY InitIInv, StepIInv, PTL DEF SpacedSpec

\* "No silent deletes" (audit_service.rs): a row some prune deleted can be read
\* in an archive file ever after.
THEOREM DeletedIsArchived == SpacedSpec => []NoSilentDelete
<1>1. IInv => NoSilentDelete
  BY DEF IInv, Kept, NoSilentDelete, Archived
<1>2. QED
  BY <1>1, Inductive, PTL

\* The audit trail, read through the table and the archives together, is
\* append-only: AuditPrune implements AuditLedger.
THEOREM TrailIsAppendOnly == SpacedSpec => TrailOnlyGrows
<1> DEFINE seen == log \cup removed
           trail == log \cup (removed \cap Archived)
<1>1. IInv => NoSilentDelete
  BY DEF IInv, Kept, NoSilentDelete, Archived
<1>2. NoSilentDelete => trail = seen
  BY DEF NoSilentDelete
<1>3. NoSilentDelete' => trail' = seen'
  BY DEF NoSilentDelete
<1>4. Init => trail = {[id |-> i, at |-> 0] : i \in Stored}
  BY DEF Init
<1>5. ASSUME [Next]_vars
      PROVE  seen' = seen \/ \E entry : seen' = seen \cup {entry}
  <2>1. CASE Tick \/ Stamp
    BY <2>1 DEF Tick, Stamp, table, report
  <2>2. CASE Land
    BY <2>2 DEF Land, report
  <2>3. ASSUME NEW p \in Prunes,
               Count(p) \/ Open(p) \/ ReadPage(p) \/ Sync(p) \/ Verify(p)
               \/ PostCount(p) \/ Fail(p)
        PROVE  seen' = seen
    <3>1. UNCHANGED <<log, removed>>
      BY <2>3, Zenon DEF Count, Open, ReadPage, Sync, Verify, PostCount, Fail, table, report
    <3>2. QED
      BY <3>1
  <2>4. ASSUME NEW p \in Prunes, Delete(p) PROVE seen' = seen
    BY <2>4 DEF Delete, Before
  <2>5. ASSUME NEW p \in Prunes, Record(p) PROVE \E entry : seen' = seen \cup {entry}
    BY <2>5 DEF Record, report
  <2>6. CASE UNCHANGED vars
    BY <2>6 DEF vars, table, report
  <2>7. QED
    BY <1>5, <2>1, <2>2, <2>3, <2>4, <2>5, <2>6, Zenon DEF Next, Prune
<1>6. IInv /\ IInv' /\ [Next /\ Spaced']_vars =>
          [Trail!Append]_(log \cup (removed \cap Archived))
  <2>1. SUFFICES ASSUME IInv, IInv', [Next]_vars, trail' # trail
                 PROVE  \E entry \in trail' \ trail : trail' = trail \cup {entry}
    BY DEF Trail!Append
  <2>2. trail = seen /\ trail' = seen'
    BY <1>1, <1>2, <1>3, <2>1 DEF IInv, Kept, NoSilentDelete, Archived
  <2> HIDE DEF seen, trail
  <2>3. PICK entry : trail' = trail \cup {entry}
    BY <1>5, <2>1, <2>2
  <2>4. QED
    BY <2>1, <2>3
<1>7. QED
  BY <1>4, <1>6, Inductive, PTL DEF SpacedSpec, TrailOnlyGrows, Trail!LedgerSpec

-----------------------------------------------------------------------------
(* A report that says verified.  What it compares are numbers of rows; that  *)
(* they name the same rows needs the sets to be finite and nested.           *)

TablesAreFinite == IsFiniteSet(log) /\ \A p \in Prunes : IsFiniteSet(walked[p])

\* A prune's counts are of rows below its cutoff, and what it deleted it had
\* walked and written.
CountsAreNested ==
    \A p \in Prunes :
        /\ \A x \in counted[p] : x.at < cutoff[p]
        /\ deleted[p] \subseteq walked[p] /\ deleted[p] \subseteq file[p]
        /\ pc[p] \notin {"post", "record", "done", "failed"} => deleted[p] = {}

\* Once verified nothing is left below the cutoff, and nothing comes back.
VerifiedIsOver ==
    \A p \in Prunes :
        /\ pc[p] = "post" => p \in linked
        /\ verified[p] => /\ pc[p] \in {"record", "done", "failed"} /\ p \in linked
                          /\ deleted[p] = walked[p]
                          /\ Before(cutoff[p]) = {}

ReportInv == TablesAreFinite /\ CountsAreNested /\ VerifiedIsOver

LEMMA FiniteStep ==
    ASSUME TypeOK, TablesAreFinite, [Next]_vars
    PROVE  TablesAreFinite'
<1>1. ASSUME NEW S, IsFiniteSet(S), NEW x PROVE IsFiniteSet(S \cup {x})
  BY <1>1, FS_AddElement
<1>2. IsFiniteSet(log')
  <2>1. log' = log \/ log' \subseteq log \/ \E x : log' = log \cup {x}
    <3>1. CASE Tick \/ Stamp \/ Land
      BY <3>1 DEF Tick, Stamp, Land, table
    <3>2. ASSUME NEW p \in Prunes, Prune(p)
          PROVE  log' = log \/ log' \subseteq log \/ \E x : log' = log \cup {x}
      <4>1. CASE Delete(p)
        BY <4>1 DEF Delete
      <4>2. CASE Record(p)
        BY <4>2 DEF Record
      <4>3. CASE ~Delete(p) /\ ~Record(p)
        BY <3>2, <4>3, Zenon
           DEF Prune, Count, Open, ReadPage, Sync, Verify, PostCount, Fail, table
      <4> QED BY <4>1, <4>2, <4>3
    <3>3. CASE UNCHANGED vars
      BY <3>3 DEF vars, table
    <3> QED BY <3>1, <3>2, <3>3 DEF Next
  <2> QED BY <2>1, <1>1, FS_Subset DEF TablesAreFinite
<1>3. ASSUME NEW q \in Prunes PROVE IsFiniteSet(walked'[q])
  <2>1. walked' = walked \/ \E p \in Prunes : ReadPage(p)
    <3>1. CASE Next
      BY <3>1, Zenon DEF Next, Tick, Stamp, Land, Prune, Count, Open, Sync, Verify, Delete,
         PostCount, Record, Fail, walk
    <3>2. CASE UNCHANGED vars
      BY <3>2 DEF vars, walk
    <3> QED BY <3>1, <3>2
  <2>2. ASSUME NEW p \in Prunes, ReadPage(p) PROVE IsFiniteSet(walked'[q])
    <3>1. PICK page \in SUBSET Rest(p) : walked' = [walked EXCEPT ![p] = @ \cup page]
      BY <2>2, Zenon DEF ReadPage
    <3>2. IsFiniteSet(page)
      <4>1. page \subseteq log
        BY DEF Rest, Before
      <4> QED BY <4>1, FS_Subset DEF TablesAreFinite
    <3>3. walked'[q] = walked[q] \/ walked'[q] = walked[q] \cup page
      BY <3>1 DEF TypeOK
    <3> QED BY <3>2, <3>3, FS_Union DEF TablesAreFinite
  <2> QED BY <2>1, <2>2 DEF TablesAreFinite
<1> QED BY <1>2, <1>3 DEF TablesAreFinite

\* Nobody writes into the file of a prune that has deleted something, and its
\* own sets stand from its delete on.
LEMMA NestedStep ==
    ASSUME IInv, IInv', CountsAreNested, NEW p \in Prunes, Prune(p)
    PROVE  CountsAreNested'
<1>1. \A q \in Prunes : inode[q] = q /\ inode'[q] = q
  BY DEF IInv, OwnFile
<1>2. ASSUME NEW q \in Prunes
      PROVE  /\ \A x \in counted'[q] : x.at < cutoff'[q]
             /\ deleted'[q] \subseteq walked'[q] /\ deleted'[q] \subseteq file'[q]
             /\ pc'[q] \notin {"post", "record", "done", "failed"} => deleted'[q] = {}
  <2>1. CASE Count(p)
    BY <2>1 DEF Count, Before, At, Goto, disk, report, IInv, TypeOK, CountsAreNested
  <2>2. CASE Open(p)
    <3>1. /\ walk' = walk /\ report' = report /\ pc[p] = "open"
          /\ pc' = [pc EXCEPT ![p] = "walk"]
          /\ \E i \in Prunes : inode' = [inode EXCEPT ![p] = i] /\ file' = [file EXCEPT ![i] = {}]
      BY <2>2 DEF Open, At, Goto, SameName, IInv, TypeOK
    <3>2. file' = [file EXCEPT ![p] = {}]
      <4>1. PICK i \in Prunes : /\ inode' = [inode EXCEPT ![p] = i]
                                /\ file' = [file EXCEPT ![i] = {}]
        BY <3>1
      <4>2. inode'[p] = i
        BY <4>1 DEF IInv, TypeOK
      <4> QED BY <4>1, <4>2, <1>1
    <3> QED BY <3>1, <3>2 DEF walk, report, IInv, TypeOK, CountsAreNested
  <2>3. CASE ReadPage(p)
    <3>1. /\ UNCHANGED <<cutoff, counted, disk, report>> /\ pc[p] = "walk"
          /\ pc' = pc \/ pc' = [pc EXCEPT ![p] = "sync"]
          /\ \E page \in SUBSET Rest(p) : walked' = [walked EXCEPT ![p] = @ \cup page]
      BY <2>3, Zenon DEF ReadPage, At, Goto
    <3> QED BY <3>1 DEF disk, report, IInv, TypeOK, CountsAreNested
  <2>4. CASE Sync(p)
    <3>1. /\ walk' = walk /\ report' = report
          /\ pc' = [pc EXCEPT ![p] = "verify"] /\ pc[p] = "sync"
          /\ mixed = {}
      BY <2>4 DEF Sync, At, Goto, IInv, OwnFile
    <3>2. file' = [file EXCEPT ![p] = file[p] \cup walked[p]]
      BY <2>4, <3>1, <1>1 DEF Sync
    <3> QED BY <3>1, <3>2 DEF walk, report, IInv, TypeOK, CountsAreNested
  <2>5. CASE Verify(p)
    BY <2>5 DEF Verify, At, Goto, walk, report, IInv, TypeOK, CountsAreNested
  <2>6. CASE Delete(p)
    <3>1. Before(cutoff[p]) \subseteq walked[p] /\ walked[p] \subseteq file[p]
      BY <2>6 DEF Delete, At, IInv, WalkIsExact, FileIsComplete
    <3> QED BY <2>6, <3>1 DEF Delete, At, Goto, walk, disk, IInv, TypeOK, CountsAreNested
  <2>7. CASE PostCount(p) \/ Record(p)
    BY <2>7 DEF PostCount, Record, At, Goto, walk, disk, report, IInv, TypeOK, CountsAreNested
  <2>8. CASE Fail(p)
    <3>1. /\ walk' = walk /\ report' = report
          /\ pc' = [pc EXCEPT ![p] = "failed"]
      BY <2>8 DEF Fail, Goto
    <3>2. \A i \in Prunes : file[i] \subseteq file'[i]
      BY <2>8 DEF Fail, IInv, TypeOK
    <3> QED BY <3>1, <3>2 DEF walk, report, IInv, TypeOK, CountsAreNested
  <2> QED BY <2>1, <2>2, <2>3, <2>4, <2>5, <2>6, <2>7, <2>8 DEF Prune
<1> QED BY <1>2 DEF CountsAreNested

\* Every row that enters the table is younger than every cutoff.
LEMMA EntriesAreYoung ==
    ASSUME TypeOK, CutoffIsPast, [Next]_vars
    PROVE  \A q \in Prunes : pc[q] # "start" => \A x \in log' \ log : ~(x.at < cutoff[q])
<1> USE PruneAssumption
<1>1. CASE Tick \/ Stamp \/ Land
  BY <1>1 DEF Tick, Stamp, Land, table, TypeOK, Rows, CutoffIsPast
<1>2. ASSUME NEW p \in Prunes, Record(p)
      PROVE  \A q \in Prunes : pc[q] # "start" => \A x \in log' \ log : ~(x.at < cutoff[q])
  BY <1>2 DEF Record, TypeOK, Rows, CutoffIsPast
<1>3. ASSUME NEW p \in Prunes, Prune(p), ~Record(p) PROVE log' \subseteq log
  <2>1. CASE Delete(p)
    BY <2>1 DEF Delete
  <2>2. CASE ~Delete(p)
    BY <1>3, <2>2, Zenon DEF Prune, Count, Open, ReadPage, Sync, Verify, PostCount, Fail, table
  <2> QED BY <2>1, <2>2
<1>4. CASE UNCHANGED vars
  BY <1>4 DEF vars, table
<1> QED BY <1>1, <1>2, <1>3, <1>4 DEF Next

LEMMA OverStep ==
    ASSUME IInv, IInv', TablesAreFinite, CountsAreNested, VerifiedIsOver,
           Spaced', NEW p \in Prunes, Prune(p)
    PROVE  VerifiedIsOver'
<1>1. ASSUME NEW q \in Prunes, verified[q], pc[q] # "start", cutoff'[q] = cutoff[q]
      PROVE  (Before(cutoff[q]) = {})'
  <2>1. \A x \in log' : x \in log \/ ~(x.at < cutoff[q])
    BY <1>1, EntriesAreYoung DEF Next, IInv
  <2> QED BY <1>1, <2>1 DEF VerifiedIsOver, Before
<1>2. ASSUME NEW q \in Prunes
      PROVE  /\ pc'[q] = "post" => q \in linked'
             /\ verified'[q] => /\ pc'[q] \in {"record", "done", "failed"} /\ q \in linked'
                                /\ deleted'[q] = walked'[q]
                                /\ (Before(cutoff[q]) = {})'
  <2>1. CASE Count(p)
    <3>1. /\ UNCHANGED <<log, walked, deleted, verified, linked>> /\ pc[p] = "start"
          /\ \E next \in {"open", "listed"} : pc' = [pc EXCEPT ![p] = next]
          /\ \A x \in Prunes \ {p} : cutoff'[x] = cutoff[x]
      BY <2>1 DEF Count, At, Goto, disk, report, table, IInv, TypeOK
    <3> QED BY <3>1, <1>1 DEF IInv, TypeOK, VerifiedIsOver
  <2>2. CASE Open(p) \/ ReadPage(p) \/ Sync(p)
    <3>1. /\ UNCHANGED <<cutoff, deleted, verified>>
          /\ pc[p] \in {"open", "walk", "sync"} /\ linked \subseteq linked'
          /\ \E next \in {"walk", "sync", "verify"} : pc' = [pc EXCEPT ![p] = next]
          /\ \A x \in Prunes \ {p} : walked'[x] = walked[x]
      <4>1. CASE Open(p)
        BY <4>1 DEF Open, At, Goto, walk, report
      <4>2. CASE ReadPage(p)
        <5>1. /\ UNCHANGED <<cutoff, counted, disk, report>> /\ pc[p] = "walk"
              /\ pc' = pc \/ pc' = [pc EXCEPT ![p] = "sync"]
              /\ \E page \in SUBSET Rest(p) : walked' = [walked EXCEPT ![p] = @ \cup page]
          BY <4>2, Zenon DEF ReadPage, At, Goto
        <5> QED BY <5>1 DEF disk, report, IInv, TypeOK
      <4>3. CASE Sync(p)
        BY <4>3 DEF Sync, At, Goto, walk, report
      <4> QED BY <2>2, <4>1, <4>2, <4>3
    <3> QED BY <3>1, <1>1 DEF IInv, TypeOK, VerifiedIsOver
  <2>3. CASE Verify(p)
    <3>1. /\ UNCHANGED <<walk, report>> /\ pc[p] = "verify"
          /\ \E next \in {"delete", "refused"} : pc' = [pc EXCEPT ![p] = next]
      BY <2>3 DEF Verify, At, Goto
    <3>2. linked \ {p} \subseteq linked'
      <4>1. UNCHANGED path /\ p \in linked
        BY <2>3 DEF Verify, At, IInv, OwnFile
      <4>2. \A x \in linked : x # p => path[x] # path[p]
        BY <4>1 DEF Spaced, IInv, TypeOK, OwnFile, Unopened
      <4> QED BY <2>3, <4>2 DEF Verify
    <3> QED BY <3>1, <3>2, <1>1 DEF walk, report, IInv, TypeOK, VerifiedIsOver
  <2>4. CASE Delete(p)
    <3>1. /\ UNCHANGED <<walk, linked, verified>> /\ pc[p] = "delete" /\ p \in linked
          /\ pc' = [pc EXCEPT ![p] = "post"]
          /\ \A x \in Prunes \ {p} : deleted'[x] = deleted[x]
      BY <2>4 DEF Delete, At, Goto, disk, IInv, TypeOK, OwnFile
    <3> QED BY <3>1, <1>1 DEF walk, IInv, TypeOK, VerifiedIsOver
  <2>5. CASE PostCount(p)
    <3>1. /\ UNCHANGED <<log, walk, linked, deleted>> /\ pc[p] = "post"
          /\ pc' = [pc EXCEPT ![p] = "record"]
          /\ verified' = [verified EXCEPT ![p] =
                 Before(cutoff[p]) = {} /\ Cardinality(deleted[p]) = Cardinality(walked[p])]
      BY <2>5 DEF PostCount, At, Goto, table, disk
    <3>2. ASSUME verified'[p] PROVE deleted[p] = walked[p] /\ (Before(cutoff[p]) = {})'
      <4>1. Before(cutoff[p]) = {} /\ Cardinality(deleted[p]) = Cardinality(walked[p])
        BY <3>1, <3>2, Zenon DEF IInv, TypeOK
      <4>2. deleted[p] = walked[p]
        BY <4>1, FS_Subset DEF CountsAreNested, TablesAreFinite
      <4> QED BY <3>1, <4>1, <4>2 DEF Before, walk
    <3>3. ASSUME q # p PROVE verified'[q] = verified[q]
      BY <3>1, <3>3, Zenon DEF IInv, TypeOK
    <3>4. p \in linked
      BY <3>1 DEF VerifiedIsOver
    <3>5. pc' \in [Prunes -> Steps \cup Ends] /\ pc'[p] = "record" /\ (q # p => pc'[q] = pc[q])
      BY <3>1 DEF IInv, TypeOK
    <3>6. CASE q = p
      BY <3>1, <3>2, <3>4, <3>5, <3>6 DEF walk
    <3>7. CASE q # p
      <4>1. walked' = walked /\ cutoff' = cutoff
        BY <3>1 DEF walk
      <4>2. verified'[q] => pc[q] \in {"record", "done", "failed"} /\ deleted[q] = walked[q]
                            /\ q \in linked
        BY <3>3, <3>7 DEF VerifiedIsOver
      <4>3. verified'[q] => (Before(cutoff[q]) = {})'
        BY <1>1, <4>1, <4>2, <3>3, <3>7
      <4>4. pc[q] = "post" => q \in linked
        BY DEF VerifiedIsOver
      <4> QED BY <3>1, <3>5, <3>7, <4>1, <4>2, <4>3, <4>4
    <3> QED BY <3>6, <3>7
  <2>6. CASE Record(p) \/ Fail(p)
    <3>1. /\ UNCHANGED <<walk, linked, deleted, verified>> /\ pc[p] # "start"
          /\ pc' = [pc EXCEPT ![p] = IF Record(p) THEN "done" ELSE "failed"]
      <4>1. CASE Record(p)
        BY <4>1 DEF Record, At, Goto, disk, report
      <4>2. CASE ~Record(p)
        BY <2>6, <4>2 DEF Fail, Goto, report
      <4> QED BY <4>1, <4>2
    <3> QED BY <3>1, <1>1 DEF walk, IInv, TypeOK, VerifiedIsOver
  <2> QED BY <2>1, <2>2, <2>3, <2>4, <2>5, <2>6 DEF Prune
<1> QED BY <1>2 DEF VerifiedIsOver

LEMMA ReportStep == IInv /\ IInv' /\ ReportInv /\ [Next /\ Spaced']_vars => ReportInv'
<1> SUFFICES ASSUME IInv, IInv', ReportInv, [Next /\ Spaced']_vars PROVE ReportInv'
  OBVIOUS
<1>1. TablesAreFinite'
  BY FiniteStep DEF IInv, ReportInv
<1>2. CASE UNCHANGED vars
  BY <1>2, <1>1, Zenon DEF vars, table, walk, disk, report, ReportInv, CountsAreNested,
                     VerifiedIsOver, Before
<1>3. CASE Tick \/ Stamp \/ Land
  <2>1. UNCHANGED <<pc, walk, disk, report>>
    BY <1>3, Zenon DEF Tick, Stamp, Land
  <2>2. CountsAreNested'
    BY <2>1, Zenon DEF walk, disk, report, ReportInv, CountsAreNested
  <2>3. \A q \in Prunes : pc[q] # "start" => \A x \in log' : x \in log \/ ~(x.at < cutoff[q])
    BY EntriesAreYoung DEF IInv
  <2>4. VerifiedIsOver'
    BY <2>1, <2>3, SMT DEF walk, disk, report, ReportInv, VerifiedIsOver, Before
  <2> QED BY <1>1, <2>2, <2>4 DEF ReportInv
<1>4. ASSUME Spaced', NEW p \in Prunes, Prune(p) PROVE ReportInv'
  BY <1>1, <1>4, NestedStep, OverStep DEF ReportInv
<1> QED BY <1>2, <1>3, <1>4 DEF Next

LEMMA InitReport == Init => ReportInv
<1> SUFFICES ASSUME Init PROVE ReportInv
  OBVIOUS
<1>1. IsFiniteSet(log)
  <2> DEFINE rows == {[id |-> i, at |-> 0] : i \in Stored}
             rowOf == [i \in Stored |-> [id |-> i, at |-> 0]]
  <2>1. IsFiniteSet(rows)
    <3>1. rowOf \in Surjection(Stored, rows)
      BY DEF Surjection
    <3> QED BY <3>1, PruneAssumption, FS_Surjection
  <2> QED BY <2>1 DEF Init
<1>2. \A p \in Prunes : IsFiniteSet(walked[p])
  BY FS_EmptySet DEF Init
<1>3. CountsAreNested /\ VerifiedIsOver
  BY DEF Init, CountsAreNested, VerifiedIsOver
<1> QED BY <1>1, <1>2, <1>3 DEF ReportInv, TablesAreFinite

\* "verified" (AuditPruneReport): the archive of a prune that reports it holds
\* exactly the rows it deleted, and none of the rows it counted is left or ever
\* comes back, whatever was appended and pruned meanwhile.
THEOREM VerifiedIsTrue == SpacedSpec => []VerifiedReportIsExact
<1>2. IInv /\ ReportInv => VerifiedReportIsExact
  <2> SUFFICES ASSUME IInv, ReportInv, NEW p \in Prunes, verified[p]
               PROVE  /\ deleted[p] = walked[p] /\ deleted[p] \subseteq file[inode[p]]
                      /\ inode[p] \in linked /\ counted[p] \cap log = {}
    BY DEF VerifiedReportIsExact
  <2>1. inode[p] = p
    BY DEF IInv, OwnFile
  <2>2. deleted[p] = walked[p] /\ deleted[p] \subseteq file[p] /\ p \in linked
    BY DEF ReportInv, CountsAreNested, VerifiedIsOver
  <2>3. counted[p] \cap log = {}
    BY DEF ReportInv, CountsAreNested, VerifiedIsOver, Before
  <2> QED BY <2>1, <2>2, <2>3
<1> QED BY <1>2, InitReport, ReportStep, Inductive, PTL DEF SpacedSpec
-----------------------------------------------------------------------------
(* How long a prune can take, also beside prunes of the same second.         *)

\* The statements a prune still has to make, at most: it reads at least one row
\* with a page, unless that is the last.
StepsLeft(p) ==
    CASE pc[p] = "open" -> Cardinality(Before(cutoff[p])) + 7
      [] pc[p] = "walk" -> Cardinality(Rest(p)) + 6
      [] pc[p] = "sync" -> 5
      [] pc[p] = "verify" -> 4
      [] pc[p] = "delete" -> 3
      [] pc[p] = "post" -> 2
      [] pc[p] = "record" -> 1
      [] OTHER -> 0

\* What is left is never more than what the count has shown, and nothing only when
\* the prune has ended.
PruneIsBounded ==
    \A p \in Prunes :
        pc[p] # "start" =>
            /\ StepsLeft(p) \in 0..(Cardinality(counted[p]) + 7)
            /\ StepsLeft(p) = 0 <=> pc[p] \in Ends

\* Every step of a prune lessens what it has left, and no step of anybody else
\* adds to it: no row that is appended meanwhile is old enough.
PruneGetsDone ==
    [][\A p \in Prunes :
          pc[p] # "start" =>
              /\ StepsLeft(p)' <= StepsLeft(p)
              /\ Prune(p) => StepsLeft(p)' < StepsLeft(p)]_vars

BoundInv ==
    /\ TypeOK /\ CutoffIsPast /\ TablesAreFinite
    /\ \A p \in Prunes : pc[p] # "start" =>
           Before(cutoff[p]) \subseteq counted[p] /\ IsFiniteSet(counted[p])

\* What a prune that has counted keeps while others move.
Keeps(p) ==
    /\ pc'[p] = pc[p] /\ cutoff'[p] = cutoff[p] /\ cursor'[p] = cursor[p]
    /\ counted'[p] = counted[p]

LEMMA OneMoves ==
    ASSUME TypeOK, NEW p \in Prunes, NEW q \in Prunes, Prune(q), q # p
    PROVE  Keeps(p)
<1>1. CASE Count(q)
  BY <1>1 DEF Count, Goto, Keeps, TypeOK
<1>2. CASE Open(q)
  BY <1>2 DEF Open, Goto, walk, Keeps, TypeOK
<1>3. CASE ReadPage(q)
  <2>1. /\ UNCHANGED <<cutoff, counted>>
        /\ pc' = pc \/ pc' = [pc EXCEPT ![q] = "sync"]
        /\ cursor' = cursor \/ \E x : cursor' = [cursor EXCEPT ![q] = x.id]
    BY <1>3, Zenon DEF ReadPage, Goto
  <2> QED BY <2>1 DEF Keeps, TypeOK
<1>4. CASE Sync(q)
  BY <1>4 DEF Sync, Goto, walk, Keeps, TypeOK
<1>5. CASE Verify(q)
  BY <1>5 DEF Verify, Goto, walk, Keeps, TypeOK
<1>6. CASE Delete(q)
  BY <1>6 DEF Delete, Goto, walk, Keeps, TypeOK
<1>7. CASE PostCount(q)
  BY <1>7 DEF PostCount, Goto, walk, Keeps, TypeOK
<1>8. CASE Record(q)
  BY <1>8 DEF Record, Goto, walk, Keeps, TypeOK
<1>9. CASE Fail(q)
  BY <1>9 DEF Fail, Goto, walk, Keeps, TypeOK
<1> QED BY <1>1, <1>2, <1>3, <1>4, <1>5, <1>6, <1>7, <1>8, <1>9 DEF Prune

LEMMA OthersKeep ==
    ASSUME TypeOK, Next \/ UNCHANGED vars, NEW p \in Prunes, ~Prune(p)
    PROVE  Keeps(p)
<1>1. CASE Tick \/ Stamp \/ Land \/ UNCHANGED vars
  <2>1. UNCHANGED <<pc, walk>>
    BY <1>1, Zenon DEF Tick, Stamp, Land, vars
  <2> QED BY <2>1 DEF walk, Keeps
<1>2. ASSUME NEW q \in Prunes, Prune(q), q # p PROVE Keeps(p)
  BY <1>2, OneMoves
<1> QED BY <1>1, <1>2 DEF Next

\* The pages of a walk: with a full one the cursor goes beyond a row that was left.
LEMMA PageShrinks ==
    ASSUME BoundInv, NEW p \in Prunes, ReadPage(p)
    PROVE  /\ pc[p] = "walk" /\ UNCHANGED <<log, cutoff, counted>>
           /\ \/ pc'[p] = "sync"
              \/ /\ pc'[p] = "walk"
                 /\ \E x \in Rest(p) : x \notin Rest(p)'
                 /\ Rest(p)' \subseteq Rest(p)
<1>1. pc[p] = "walk" /\ UNCHANGED <<log, cutoff, counted>>
  BY Zenon DEF ReadPage, At, table
<1>2. PICK page \in SUBSET Rest(p) :
         IF Cardinality(page) = PageSize
         THEN /\ \E x \in page : cursor' = [cursor EXCEPT ![p] = x.id]
              /\ UNCHANGED pc
         ELSE Goto(p, "sync") /\ UNCHANGED cursor
  BY Zenon DEF ReadPage
<1>3. CASE Cardinality(page) = PageSize
  <2>1. PICK x \in page : cursor' = [cursor EXCEPT ![p] = x.id]
    BY <1>2, <1>3
  <2>2. cursor'[p] = x.id /\ pc'[p] = "walk" /\ cursor[p] \in Nat
    BY <1>1, <1>2, <1>3, <2>1 DEF BoundInv, TypeOK
  <2>3. x \in Rest(p) /\ x.id \in Nat /\ x.id > cursor[p]
    <3>1. x \in Rest(p)
      BY <1>2
    <3>2. x \in Rows /\ x.id > cursor[p]
      BY <3>1 DEF Rest, Before, BoundInv, TypeOK
    <3> QED BY <3>1, <3>2, PruneAssumption DEF Rows
  <2>4. Rest(p)' = {y \in Before(cutoff[p]) : y.id > x.id}
    BY <1>1, <2>2 DEF Rest, Before
  <2>5. \A y \in Before(cutoff[p]) : y.id \in Nat
    BY PruneAssumption DEF Before, Rows, BoundInv, TypeOK
  <2>6. x \notin Rest(p)'
    BY <2>3, <2>4
  <2>7. Rest(p)' \subseteq Rest(p)
    BY <2>2, <2>3, <2>4, <2>5 DEF Rest
  <2> QED BY <1>1, <2>2, <2>3, <2>6, <2>7
<1>4. CASE Cardinality(page) # PageSize
  BY <1>1, <1>2, <1>4 DEF Goto, BoundInv, TypeOK
<1> QED BY <1>3, <1>4

\* What is old at a time is finite, and its part behind a cursor too.
LEMMA OldIsFinite ==
    ASSUME TablesAreFinite, NEW p \in Prunes
    PROVE  /\ IsFiniteSet(Before(cutoff[p])) /\ IsFiniteSet(Rest(p))
           /\ Rest(p) \subseteq Before(cutoff[p])
           /\ Cardinality(Rest(p)) \in Nat /\ Cardinality(Before(cutoff[p])) \in Nat
           /\ Cardinality(Rest(p)) <= Cardinality(Before(cutoff[p]))
<1>1. Before(cutoff[p]) \subseteq log /\ Rest(p) \subseteq Before(cutoff[p])
  BY DEF Before, Rest
<1>2. IsFiniteSet(Before(cutoff[p]))
  BY <1>1, FS_Subset DEF TablesAreFinite
<1>3. IsFiniteSet(Rest(p)) /\ Cardinality(Rest(p)) <= Cardinality(Before(cutoff[p]))
  BY <1>1, <1>2, FS_Subset
<1> QED BY <1>1, <1>2, <1>3, FS_CardinalityType

LEMMA OldStaysFinite ==
    ASSUME TablesAreFinite', NEW p \in Prunes
    PROVE  Cardinality(Rest(p)') \in Nat /\ Cardinality(Before(cutoff[p])') \in Nat
<1>1. Before(cutoff[p])' \subseteq log' /\ Rest(p)' \subseteq log'
  BY DEF Before, Rest
<1>2. IsFiniteSet(Before(cutoff[p])') /\ IsFiniteSet(Rest(p)')
  BY <1>1, FS_Subset DEF TablesAreFinite
<1> QED BY <1>2, FS_CardinalityType

LEMMA StepsAreNatural ==
    ASSUME TablesAreFinite, NEW p \in Prunes
    PROVE  StepsLeft(p) \in Nat
<1>1. Cardinality(Rest(p)) \in Nat /\ Cardinality(Before(cutoff[p])) \in Nat
  BY OldIsFinite
<1>2. \/ StepsLeft(p) = Cardinality(Before(cutoff[p])) + 7
      \/ StepsLeft(p) = Cardinality(Rest(p)) + 6
      \/ StepsLeft(p) \in {0, 1, 2, 3, 4, 5}
  BY Zenon DEF StepsLeft
<1> QED BY <1>1, <1>2

LEMMA StepsStayNatural ==
    ASSUME TablesAreFinite', NEW p \in Prunes
    PROVE  StepsLeft(p)' \in Nat
<1>1. Cardinality(Rest(p)') \in Nat /\ Cardinality(Before(cutoff[p])') \in Nat
  BY OldStaysFinite
<1>2. \/ StepsLeft(p)' = Cardinality(Before(cutoff[p])') + 7
      \/ StepsLeft(p)' = Cardinality(Rest(p)') + 6
      \/ StepsLeft(p)' \in {0, 1, 2, 3, 4, 5}
  BY Zenon DEF StepsLeft
<1> QED BY <1>1, <1>2

\* A step of the prune itself.
LEMMA OwnStepsShrink ==
    ASSUME BoundInv, BoundInv', NEW p \in Prunes, Prune(p), pc[p] # "start"
    PROVE  StepsLeft(p)' < StepsLeft(p)
<1>1. pc' \in [Prunes -> Steps \cup Ends] /\ pc \in [Prunes -> Steps \cup Ends]
  BY DEF BoundInv, TypeOK
<1>2. /\ Cardinality(Rest(p)) \in Nat /\ Cardinality(Before(cutoff[p])) \in Nat
      /\ Cardinality(Rest(p)) <= Cardinality(Before(cutoff[p]))
      /\ Cardinality(Rest(p)') \in Nat
  BY OldIsFinite, OldStaysFinite DEF BoundInv
<1>3. ~Count(p)
  BY DEF Count, At
<1>4. CASE Open(p)
  <2>1. pc[p] = "open" /\ pc'[p] = "walk" /\ Rest(p)' = Rest(p)
    BY <1>1, <1>4 DEF Open, At, Goto, table, walk, Rest, Before
  <2>2. StepsLeft(p) = Cardinality(Before(cutoff[p])) + 7
    BY <2>1 DEF StepsLeft
  <2>3. StepsLeft(p)' = Cardinality(Rest(p)) + 6
    BY <2>1 DEF StepsLeft
  <2> QED BY <1>2, <2>2, <2>3
<1>5. CASE ReadPage(p)
  <2>1. pc[p] = "walk"
    BY <1>5, PageShrinks
  <2>2. StepsLeft(p) = Cardinality(Rest(p)) + 6
    BY <2>1 DEF StepsLeft
  <2>3. CASE pc'[p] = "sync"
    <3>1. StepsLeft(p)' = 5
      BY <2>3 DEF StepsLeft
    <3> QED BY <1>2, <2>2, <3>1
  <2>4. CASE pc'[p] = "walk"
    <3>1. (\E x \in Rest(p) : x \notin Rest(p)') /\ Rest(p)' \subseteq Rest(p)
      BY <1>5, <2>4, PageShrinks
    <3>2. IsFiniteSet(Rest(p))
      BY OldIsFinite DEF BoundInv
    <3>3. Cardinality(Rest(p)') < Cardinality(Rest(p))
      <4>1. Rest(p)' \in SUBSET Rest(p) /\ Rest(p)' # Rest(p)
        BY <3>1
      <4>2. /\ Cardinality(Rest(p)') <= Cardinality(Rest(p))
            /\ Cardinality(Rest(p)) = Cardinality(Rest(p)') => Rest(p) = Rest(p)'
        BY <3>2, <4>1, FS_Subset
      <4> QED BY <1>2, <4>1, <4>2
    <3>4. StepsLeft(p)' = Cardinality(Rest(p)') + 6
      BY <2>4 DEF StepsLeft
    <3> QED BY <1>2, <2>2, <3>3, <3>4
  <2> QED BY <1>5, <2>3, <2>4, PageShrinks
<1>6. CASE Sync(p)
  <2>1. pc[p] = "sync" /\ pc'[p] = "verify"
    BY <1>1, <1>6 DEF Sync, At, Goto
  <2> QED BY <2>1 DEF StepsLeft
<1>7. CASE Verify(p)
  <2>1. pc[p] = "verify" /\ pc'[p] \in {"delete", "refused"}
    BY <1>1, <1>7 DEF Verify, At, Goto
  <2> QED BY <2>1 DEF StepsLeft
<1>8. CASE Delete(p)
  <2>1. pc[p] = "delete" /\ pc'[p] = "post"
    BY <1>1, <1>8 DEF Delete, At, Goto
  <2> QED BY <2>1 DEF StepsLeft
<1>9. CASE PostCount(p)
  <2>1. pc[p] = "post" /\ pc'[p] = "record"
    BY <1>1, <1>9 DEF PostCount, At, Goto
  <2> QED BY <2>1 DEF StepsLeft
<1>10. CASE Record(p)
  <2>1. pc[p] = "record" /\ pc'[p] = "done"
    BY <1>1, <1>10 DEF Record, At, Goto
  <2> QED BY <2>1 DEF StepsLeft
<1>11. CASE Fail(p)
  <2>1. pc[p] \in Steps \ {"start"} /\ pc'[p] = "failed"
    BY <1>1, <1>11 DEF Fail, Goto
  <2>2. StepsLeft(p)' = 0
    BY <2>1 DEF StepsLeft
  <2>3. \/ StepsLeft(p) = Cardinality(Before(cutoff[p])) + 7
        \/ StepsLeft(p) = Cardinality(Rest(p)) + 6
        \/ StepsLeft(p) \in {1, 2, 3, 4, 5}
    BY <2>1, Zenon DEF StepsLeft, Steps
  <2> QED BY <1>2, <2>2, <2>3
<1> QED BY <1>3, <1>4, <1>5, <1>6, <1>7, <1>8, <1>9, <1>10, <1>11 DEF Prune

\* The steps of others: nothing that enters the table is old.
LEMMA OthersDoNotAdd ==
    ASSUME BoundInv, BoundInv', Next \/ UNCHANGED vars, NEW p \in Prunes, ~Prune(p),
           pc[p] # "start"
    PROVE  StepsLeft(p)' <= StepsLeft(p)
<1>1. Keeps(p)
  BY OthersKeep DEF BoundInv
<1>2. \A x \in log' : x \in log \/ ~(x.at < cutoff[p])
  BY EntriesAreYoung DEF BoundInv
<1>3. Before(cutoff[p])' \subseteq Before(cutoff[p]) /\ Rest(p)' \subseteq Rest(p)
  BY <1>1, <1>2 DEF Before, Rest, Keeps
<1>4. /\ Cardinality(Before(cutoff[p])') <= Cardinality(Before(cutoff[p]))
      /\ Cardinality(Rest(p)') <= Cardinality(Rest(p))
      /\ Cardinality(Before(cutoff[p])') \in Nat /\ Cardinality(Before(cutoff[p])) \in Nat
      /\ Cardinality(Rest(p)') \in Nat /\ Cardinality(Rest(p)) \in Nat
  <2>1. /\ Before(cutoff[p])' \in SUBSET Before(cutoff[p]) /\ Rest(p)' \in SUBSET Rest(p)
        /\ IsFiniteSet(Before(cutoff[p])) /\ IsFiniteSet(Rest(p))
    BY <1>3, OldIsFinite DEF BoundInv
  <2>2. /\ Cardinality(Before(cutoff[p])') <= Cardinality(Before(cutoff[p]))
        /\ Cardinality(Rest(p)') <= Cardinality(Rest(p))
    BY <2>1, FS_Subset
  <2>3. IsFiniteSet(Before(cutoff[p])') /\ IsFiniteSet(Rest(p)')
    BY <2>1, FS_Subset
  <2> QED BY <2>1, <2>2, <2>3, FS_CardinalityType
<1>5. CASE pc[p] = "open"
  BY <1>1, <1>4, <1>5 DEF StepsLeft, Keeps
<1>6. CASE pc[p] = "walk"
  BY <1>1, <1>4, <1>6 DEF StepsLeft, Keeps
<1>7. CASE pc[p] # "open" /\ pc[p] # "walk"
  <2>1. StepsLeft(p)' = StepsLeft(p) /\ StepsLeft(p) \in {0, 1, 2, 3, 4, 5}
    BY <1>1, <1>7, Zenon DEF StepsLeft, Keeps
  <2> QED BY <2>1
<1> QED BY <1>5, <1>6, <1>7

\* The old rows of a prune were all counted.
LEMMA BoundStep == BoundInv /\ [Next]_vars => BoundInv'
<1> SUFFICES ASSUME BoundInv, [Next]_vars PROVE BoundInv'
  OBVIOUS
<1> USE PruneAssumption
<1>1. TypeOK' /\ TablesAreFinite'
  BY TypeStep, FiniteStep DEF BoundInv
<1>2. CutoffIsPast'
  <2>1. CASE Tick
    BY <2>1 DEF Tick, table, walk, BoundInv, TypeOK, Rows, CutoffIsPast
  <2>2. CASE Stamp \/ Land
    BY <2>2 DEF Stamp, Land, walk, BoundInv, TypeOK, Rows, CutoffIsPast
  <2>3. ASSUME NEW p \in Prunes, Prune(p) PROVE CutoffIsPast'
    <3>1. UNCHANGED <<now, pending>>
      BY <2>3, Zenon DEF Prune, Count, Open, ReadPage, Sync, Verify, Delete, PostCount, Record,
                         Fail, table
    <3>2. CASE Count(p)
      BY <3>1, <3>2 DEF Count, At, Goto, BoundInv, TypeOK, CutoffIsPast
    <3>3. CASE ~Count(p)
      <4>1. UNCHANGED cutoff /\ pc[p] # "start"
        BY <2>3, <3>3, Zenon DEF Prune, Open, ReadPage, Sync, Verify, Delete, PostCount, Record,
                                 Fail, walk, At
      <4>2. \A q \in Prunes : pc'[q] # "start" => pc[q] # "start"
        <5>1. ASSUME NEW q \in Prunes, pc'[q] # "start" PROVE pc[q] # "start"
          <6>1. CASE q = p
            BY <4>1, <6>1
          <6>2. CASE q # p
            BY <2>3, <5>1, <6>2, OneMoves DEF BoundInv, Keeps
          <6> QED BY <6>1, <6>2
        <5> QED BY <5>1
      <4> QED BY <3>1, <4>1, <4>2 DEF BoundInv, CutoffIsPast
    <3> QED BY <3>2, <3>3
  <2>4. CASE UNCHANGED vars
    BY <2>4 DEF vars, table, walk, BoundInv, CutoffIsPast
  <2> QED BY <2>1, <2>2, <2>3, <2>4 DEF Next
<1>3. ASSUME NEW p \in Prunes, pc'[p] # "start"
      PROVE  Before(cutoff[p])' \subseteq counted'[p] /\ IsFiniteSet(counted'[p])
  <2>1. CASE Count(p)
    <3>1. cutoff'[p] = now - Window /\ counted'[p] = Before(now - Window) /\ UNCHANGED log
      BY <2>1 DEF Count, table, BoundInv, TypeOK
    <3>2. Before(now - Window) \subseteq log
      BY DEF Before
    <3> QED BY <3>1, <3>2, FS_Subset DEF Before, BoundInv, TablesAreFinite
  <2>2. CASE ~Count(p)
    <3>1. pc[p] # "start" /\ cutoff'[p] = cutoff[p] /\ counted'[p] = counted[p]
      <4>1. CASE Prune(p)
        BY <2>2, <4>1, Zenon DEF Prune, Open, ReadPage, Sync, Verify, Delete, PostCount, Record,
                                 Fail, walk, At
      <4>2. CASE ~Prune(p)
        BY <1>3, <4>2, OthersKeep DEF BoundInv, Keeps
      <4> QED BY <4>1, <4>2
    <3>2. \A x \in log' : x \in log \/ ~(x.at < cutoff[p])
      BY <3>1, EntriesAreYoung DEF BoundInv
    <3> QED BY <3>1, <3>2 DEF Before, BoundInv
  <2> QED BY <2>1, <2>2
<1> QED BY <1>1, <1>2, <1>3 DEF BoundInv

\* A prune that has counted n rows makes at most n + 7 further statements, however
\* fast the trail grows beside it and whatever other prunes do.
THEOREM PrunesAreBounded == Spec => []PruneIsBounded /\ PruneGetsDone
<1> DEFINE Told(p) ==
              pc[p] # "start" =>
                  /\ StepsLeft(p)' <= StepsLeft(p)
                  /\ Prune(p) => StepsLeft(p)' < StepsLeft(p)
<1>1. Init => BoundInv
  BY InitIInv, InitReport DEF IInv, ReportInv, BoundInv, Init
<1>2. BoundInv => PruneIsBounded
  <2> SUFFICES ASSUME BoundInv, NEW p \in Prunes, pc[p] # "start"
               PROVE  /\ StepsLeft(p) \in 0..(Cardinality(counted[p]) + 7)
                      /\ StepsLeft(p) = 0 <=> pc[p] \in Ends
    BY DEF PruneIsBounded
  <2>1. /\ Cardinality(Rest(p)) \in Nat /\ Cardinality(Before(cutoff[p])) \in Nat
        /\ Cardinality(Rest(p)) <= Cardinality(Before(cutoff[p]))
    BY OldIsFinite DEF BoundInv
  <2>2. /\ Cardinality(counted[p]) \in Nat
        /\ Cardinality(Before(cutoff[p])) <= Cardinality(counted[p])
    <3>1. Before(cutoff[p]) \in SUBSET counted[p] /\ IsFiniteSet(counted[p])
      BY DEF BoundInv
    <3> QED BY <3>1, FS_Subset, FS_CardinalityType
  <2>3. pc[p] \in (Steps \cup Ends) \ {"start"}
    BY DEF BoundInv, TypeOK
  <2>4. CASE pc[p] \in Ends
    <3>1. StepsLeft(p) = 0
      BY <2>4 DEF StepsLeft, Ends
    <3> QED BY <2>2, <2>4, <3>1
  <2>5. CASE pc[p] \in Steps \ {"start"}
    <3>1. \/ StepsLeft(p) = Cardinality(Before(cutoff[p])) + 7
          \/ StepsLeft(p) = Cardinality(Rest(p)) + 6
          \/ StepsLeft(p) \in {1, 2, 3, 4, 5}
      BY <2>5, Zenon DEF StepsLeft, Steps
    <3>2. pc[p] \notin Ends
      BY <2>5 DEF Steps, Ends
    <3>3. StepsLeft(p) # 0 /\ StepsLeft(p) \in 0..(Cardinality(counted[p]) + 7)
      BY <2>1, <2>2, <3>1
    <3> QED BY <3>2, <3>3
  <2> QED BY <2>3, <2>4, <2>5
<1>3. ASSUME BoundInv, [Next]_vars, NEW p \in Prunes PROVE Told(p)
  <2> SUFFICES ASSUME pc[p] # "start"
               PROVE  /\ StepsLeft(p)' <= StepsLeft(p)
                      /\ Prune(p) => StepsLeft(p)' < StepsLeft(p)
    OBVIOUS
  <2>1. BoundInv'
    BY <1>3, BoundStep
  <2>2. StepsLeft(p) \in Nat /\ StepsLeft(p)' \in Nat
    BY <1>3, <2>1, StepsAreNatural, StepsStayNatural DEF BoundInv
  <2>3. CASE Prune(p)
    BY <1>3, <2>1, <2>2, <2>3, OwnStepsShrink
  <2>4. CASE ~Prune(p)
    BY <1>3, <2>1, <2>4, OthersDoNotAdd
  <2> QED BY <2>3, <2>4
<1>4. BoundInv /\ [Next]_vars => [\A p \in Prunes : Told(p)]_vars
  BY <1>3
<1>5. Spec => [][\A p \in Prunes : Told(p)]_vars
  BY <1>1, <1>4, BoundStep, PTL DEF Spec
<1>6. Spec => []PruneIsBounded
  BY <1>1, <1>2, BoundStep, PTL DEF Spec
<1> QED BY <1>5, <1>6 DEF PruneGetsDone
=============================================================================
