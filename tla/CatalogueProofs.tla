--------------------------- MODULE CatalogueProofs ---------------------------
(***************************************************************************)
(* What Catalogue guarantees for every number of assets, collections,      *)
(* relations and interleaved requests.                                     *)
(***************************************************************************)
EXTENDS Catalogue, FiniteSetTheorems, TLAPS

LEMMA RequestFields ==
    ASSUME NEW q \in Request
    PROVE  /\ q.op \in OnAsset => q.asset \in Assets
           /\ q.op = "removeTag" => q.tag \in Writers
           /\ q.op = "createRelation" => q.from \in Assets /\ q.to \in Assets
           /\ q.op = "deleteRelation" => q.rel \in Relations
           /\ q.op \in OnCollection => q.coll \in Collections
BY DEF Request, OnAsset, OnCollection

LEMMA AssetTypes ==
    ASSUME TypeOK, NEW r \in Requests, AssetStep(r)
    PROVE  TypeOK'
<1> USE StoreAssumption, RequestFields DEF TypeOK, OnAsset, OnCollection, Entries,
      Relations, Memberships, Working, Answers, Writers, At, Goto, Read, tables,
      assetTables, collectionTables, locals
<1>1. CASE InsertRow(r)
  BY <1>1 DEF InsertRow
<1>2. CASE InsertTags(r)
  BY <1>2 DEF InsertTags
<1>3. CASE InsertMetadata(r)
  BY <1>3 DEF InsertMetadata
<1>4. CASE ReadBack(r)
  BY <1>4 DEF ReadBack, ReadLive
<1>5. CASE AdoptExists(r)
  BY <1>5 DEF AdoptExists
<1>6. CASE AdoptTx(r)
  BY <1>6 DEF AdoptTx, Adopted
<1>7. CASE AdoptDuplicate(r)
  BY <1>7 DEF AdoptDuplicate
<1>8. CASE UpdateGet(r)
  BY <1>8 DEF UpdateGet, ReadLive
<1>9. CASE UpdateVerify(r)
  BY <1>9 DEF UpdateVerify, ReadLive, AfterVerify, AfterTitle
<1>10. CASE PutTitle(r)
  BY <1>10 DEF PutTitle, AfterTitle
<1>11. CASE ClearMetadata(r)
  BY <1>11 DEF ClearMetadata
<1>12. CASE PutMetadata(r)
  BY <1>12 DEF PutMetadata
<1>13. CASE DeleteGet(r)
  BY <1>13 DEF DeleteGet, ReadLive
<1>14. CASE Snapshot(r)
  BY <1>14 DEF Snapshot, Touching
<1>15. CASE SoftDelete(r)
  BY <1>15 DEF SoftDelete
<1>16. CASE DropRelations(r)
  BY <1>16 DEF DropRelations, Touching
<1>17. CASE DropMembers(r)
  BY <1>17 DEF DropMembers
<1>18. CASE TagGet(r)
  BY <1>18 DEF TagGet, ReadLive
<1>19. CASE PutTag(r)
  BY <1>19 DEF PutTag
<1>20. CASE DropTag(r)
  BY <1>20 DEF DropTag
<1>21. CASE TagMissing(r)
  BY <1>21 DEF TagMissing, ReadLive
<1>22. CASE AuthGet(r)
  BY <1>22 DEF AuthGet, Merged
<1>23. CASE PutAuth(r)
  BY <1>23 DEF PutAuth
<1>24. CASE AuthReadBack(r)
  BY <1>24 DEF AuthReadBack
<1>25. CASE WalkDescendants(r)
  BY <1>25 DEF WalkDescendants, Expand, Successors
<1>26. CASE DescendantsFound(r)
  BY <1>26 DEF DescendantsFound
<1>27. CASE ChildGet(r)
  BY <1>27 DEF ChildGet, Merged
<1>28. CASE ChildGone(r)
  BY <1>28 DEF ChildGone
<1>29. CASE ChildPut(r)
  BY <1>29 DEF ChildPut
<1>30. CASE ChildrenDone(r)
  BY <1>30 DEF ChildrenDone
<1>31. QED
  BY <1>1, <1>2, <1>3, <1>4, <1>5, <1>6, <1>7, <1>8, <1>9, <1>10, <1>11, <1>12, <1>13,
     <1>14, <1>15, <1>16, <1>17, <1>18, <1>19, <1>20, <1>21, <1>22, <1>23, <1>24, <1>25,
     <1>26, <1>27, <1>28, <1>29, <1>30 DEF AssetStep

LEMMA LinkTypes ==
    ASSUME TypeOK, NEW r \in Requests, LinkStep(r)
    PROVE  TypeOK'
<1> USE StoreAssumption, RequestFields DEF TypeOK, OnAsset, OnCollection, Entries,
      Relations, Memberships, Working, Answers, Writers, At, Goto, Read, tables,
      assetTables, collectionTables, locals
<1>1. CASE FromExists(r)
  BY <1>1 DEF FromExists
<1>2. CASE ToExists(r)
  BY <1>2 DEF ToExists
<1>3. CASE WalkForCycle(r)
  BY <1>3 DEF WalkForCycle, Expand, Successors
<1>4. CASE CycleFound(r)
  BY <1>4 DEF CycleFound
<1>5. CASE NoCycle(r)
  BY <1>5 DEF NoCycle
<1>6. CASE InsertRelation(r)
  BY <1>6 DEF InsertRelation
<1>7. CASE RelationGet(r)
  BY <1>7 DEF RelationGet
<1>8. CASE DropRelation(r)
  BY <1>8 DEF DropRelation
<1>9. CASE InsertCollection(r)
  BY <1>9 DEF InsertCollection
<1>10. CASE CollectionGet(r)
  BY <1>10 DEF CollectionGet
<1>11. CASE CollectionVerify(r)
  BY <1>11 DEF CollectionVerify
<1>12. CASE PutName(r)
  BY <1>12 DEF PutName
<1>13. CASE CollectionReadBack(r)
  BY <1>13 DEF CollectionReadBack
<1>14. CASE DropCollection(r)
  BY <1>14 DEF DropCollection
<1>15. CASE MemberGet(r)
  BY <1>15 DEF MemberGet, ReadLive
<1>16. CASE MemberCollection(r)
  BY <1>16 DEF MemberCollection
<1>17. CASE PutMember(r)
  BY <1>17 DEF PutMember, Membership
<1>18. CASE DropMember(r)
  BY <1>18 DEF DropMember, Membership
<1>19. QED
  BY <1>1, <1>2, <1>3, <1>4, <1>5, <1>6, <1>7, <1>8, <1>9, <1>10, <1>11, <1>12, <1>13,
     <1>14, <1>15, <1>16, <1>17, <1>18 DEF LinkStep
LEMMA InitTypes == StoreInit => TypeOK
<1> SUFFICES ASSUME StoreInit PROVE TypeOK
  OBVIOUS
<1>1. (CHOOSE a \in Assets : TRUE) \in Assets
  BY StoreAssumption
<1>2. rels \in SUBSET Relations
  BY StoreAssumption DEF StoreInit, Relations, Writers
<1>3. QED
  BY <1>1, <1>2, StoreAssumption DEF StoreInit, TypeOK, Writers

LEMMA TypeStep == TypeOK /\ [Next]_vars => TypeOK'
<1> SUFFICES ASSUME TypeOK, [Next]_vars PROVE TypeOK'
  OBVIOUS
<1>1. CASE UNCHANGED vars
  BY <1>1 DEF vars, storeVars, tables, locals, TypeOK
<1>2. ASSUME NEW r \in Requests, Arrive(r) PROVE TypeOK'
  <2>1. PICK q \in Request : Start(r, q)
    BY <1>2 DEF Arrive, Arguments
  <2>2. FirstStatement(q.op) \in Working
    BY DEF FirstStatement, Working
  <2>3. QED
    BY <2>1, <2>2 DEF Start, Goto, TypeOK, tables, locals
<1>3. ASSUME NEW r \in Requests, WriteAudit(r) PROVE TypeOK'
  BY <1>3 DEF WriteAudit, Goto, TypeOK, Entries, Working, Answers, tables, locals
<1>4. ASSUME NEW r \in Requests, Fail(r) PROVE TypeOK'
  BY <1>4 DEF Fail, Running, Goto, TypeOK, Working, Answers, tables, locals
<1>5. ASSUME NEW r \in Requests, ChildError(r) PROVE TypeOK'
  <2>1. /\ pc' = [pc EXCEPT ![r] = "child_get"] /\ pc[r] # "idle"
        /\ todo' = todo \/ \E c \in todo[r] : todo' = [todo EXCEPT ![r] = @ \ {c}]
        /\ UNCHANGED <<row, title, meta, tags, auth, rels, colls, cname, members>>
        /\ UNCHANGED <<audit, req, snap, seen, ctx, child>>
    BY <1>5, Zenon DEF ChildError, Goto, tables, assetTables, collectionTables
  <2>2. todo' \in [Requests -> SUBSET Assets]
    <3>1. todo \in [Requests -> SUBSET Assets]
      BY DEF TypeOK
    <3>2. ASSUME NEW c PROVE [todo EXCEPT ![r] = @ \ {c}] \in [Requests -> SUBSET Assets]
      BY <3>1
    <3>3. QED
      BY <2>1, <3>1, <3>2, Zenon
  <2>3. pc' \in [Requests -> Working \cup Answers \cup {"idle"}]
    BY <2>1 DEF TypeOK, Working
  <2>4. \A q \in Requests : pc'[q] # "idle" => req[q] \in Request
    BY <2>1 DEF TypeOK
  <2>5. QED
    BY <2>1, <2>2, <2>3, <2>4 DEF TypeOK
<1>6. QED
  BY <1>1, <1>2, <1>3, <1>4, <1>5, AssetTypes, LinkTypes DEF Next, Step

\* Type correctness, and with it that a request past its arrival has well-formed
\* arguments.
THEOREM TypeCorrect == Spec => []TypeOK
<1>1. Init => TypeOK
  BY InitTypes DEF Init
<1>2. QED
  BY <1>1, TypeStep, PTL DEF Spec

-----------------------------------------------------------------------------
\* The uuid a create is about to insert is nobody else's.
FreshIds ==
    \A r \in Requests : At(r, "createAsset", "insert") =>
        row[req[r].asset] = "absent" /\ Named(req[r].asset) = {r}

\* Nobody's arguments change, and a step moves one request, never to the insert
\* of a create.
LEMMA StepFrame ==
    ASSUME TypeOK, NEW r \in Requests, Step(r) \/ Fail(r) \/ ChildError(r)
    PROVE  /\ req' = req
           /\ \E label \in Working \cup Answers : pc' = [pc EXCEPT ![r] = label]
           /\ pc'[r] = "insert" => ~(req[r].op = "createAsset")
<1> USE DEF At, Goto, Read, ReadLive, Working, Answers, TypeOK
<1>1. CASE InsertRow(r)
  BY <1>1 DEF InsertRow
<1>2. CASE InsertTags(r)
  BY <1>2 DEF InsertTags
<1>3. CASE InsertMetadata(r)
  BY <1>3 DEF InsertMetadata
<1>4. CASE ReadBack(r)
  BY <1>4 DEF ReadBack
<1>5. CASE AdoptExists(r)
  BY <1>5 DEF AdoptExists
<1>6. CASE AdoptTx(r)
  BY <1>6 DEF AdoptTx, Adopted
<1>7. CASE AdoptDuplicate(r)
  BY <1>7 DEF AdoptDuplicate
<1>8. CASE UpdateGet(r)
  BY <1>8 DEF UpdateGet
<1>9. CASE UpdateVerify(r)
  BY <1>9 DEF UpdateVerify, AfterVerify, AfterTitle
<1>10. CASE PutTitle(r)
  BY <1>10 DEF PutTitle, AfterTitle
<1>11. CASE ClearMetadata(r)
  BY <1>11 DEF ClearMetadata
<1>12. CASE PutMetadata(r)
  BY <1>12 DEF PutMetadata
<1>13. CASE DeleteGet(r)
  BY <1>13 DEF DeleteGet
<1>14. CASE Snapshot(r)
  BY <1>14 DEF Snapshot
<1>15. CASE SoftDelete(r)
  BY <1>15 DEF SoftDelete
<1>16. CASE DropRelations(r)
  BY <1>16 DEF DropRelations
<1>17. CASE DropMembers(r)
  BY <1>17 DEF DropMembers
<1>18. CASE TagGet(r)
  BY <1>18 DEF TagGet
<1>19. CASE PutTag(r)
  BY <1>19 DEF PutTag
<1>20. CASE DropTag(r)
  BY <1>20 DEF DropTag
<1>21. CASE TagMissing(r)
  BY <1>21 DEF TagMissing
<1>22. CASE AuthGet(r)
  BY <1>22 DEF AuthGet
<1>23. CASE PutAuth(r)
  BY <1>23 DEF PutAuth
<1>24. CASE AuthReadBack(r)
  BY <1>24 DEF AuthReadBack
<1>25. CASE WalkDescendants(r)
  BY <1>25 DEF WalkDescendants
<1>26. CASE DescendantsFound(r)
  BY <1>26 DEF DescendantsFound
<1>27. CASE ChildGet(r)
  BY <1>27 DEF ChildGet
<1>28. CASE ChildGone(r)
  BY <1>28 DEF ChildGone
<1>29. CASE ChildPut(r)
  BY <1>29 DEF ChildPut
<1>30. CASE ChildrenDone(r)
  BY <1>30 DEF ChildrenDone
<1>31. CASE FromExists(r)
  BY <1>31 DEF FromExists
<1>32. CASE ToExists(r)
  BY <1>32 DEF ToExists
<1>33. CASE WalkForCycle(r)
  BY <1>33 DEF WalkForCycle
<1>34. CASE CycleFound(r)
  BY <1>34 DEF CycleFound
<1>35. CASE NoCycle(r)
  BY <1>35 DEF NoCycle
<1>36. CASE InsertRelation(r)
  BY <1>36 DEF InsertRelation
<1>37. CASE RelationGet(r)
  BY <1>37 DEF RelationGet
<1>38. CASE DropRelation(r)
  BY <1>38 DEF DropRelation
<1>39. CASE InsertCollection(r)
  BY <1>39 DEF InsertCollection
<1>40. CASE CollectionGet(r)
  BY <1>40 DEF CollectionGet
<1>41. CASE CollectionVerify(r)
  BY <1>41 DEF CollectionVerify
<1>42. CASE PutName(r)
  BY <1>42 DEF PutName
<1>43. CASE CollectionReadBack(r)
  BY <1>43 DEF CollectionReadBack
<1>44. CASE DropCollection(r)
  BY <1>44 DEF DropCollection
<1>45. CASE MemberGet(r)
  BY <1>45 DEF MemberGet
<1>46. CASE MemberCollection(r)
  BY <1>46 DEF MemberCollection
<1>47. CASE PutMember(r)
  BY <1>47 DEF PutMember
<1>48. CASE DropMember(r)
  BY <1>48 DEF DropMember
<1>49. CASE WriteAudit(r)
  BY <1>49 DEF WriteAudit
<1>50. CASE Fail(r)
  BY <1>50 DEF Fail
<1>51. CASE ChildError(r)
  BY <1>51 DEF ChildError
<1>99. QED
  BY <1>1, <1>2, <1>3, <1>4, <1>5, <1>6, <1>7, <1>8, <1>9, <1>10, <1>11, <1>12, <1>13,
     <1>14, <1>15, <1>16, <1>17, <1>18, <1>19, <1>20, <1>21, <1>22, <1>23, <1>24, <1>25,
     <1>26, <1>27, <1>28, <1>29, <1>30, <1>31, <1>32, <1>33, <1>34, <1>35, <1>36, <1>37,
     <1>38, <1>39, <1>40, <1>41, <1>42, <1>43, <1>44, <1>45, <1>46, <1>47, <1>48, <1>49,
     <1>50, <1>51, Zenon
  DEF Step, AssetStep, LinkStep

\* The only ways a row changes; what is deleted is not touched.
RowMove(r, a) ==
    \/ row'[a] = row[a]
    \/ /\ row[a] = "absent" /\ row'[a] = "live"
       /\ req[r].op \in {"createAsset", "adoptAsset"} /\ req[r].asset = a
    \/ /\ row[a] = "live" /\ row'[a] = "deleted"
       /\ At(r, "deleteAsset", "soft_delete") /\ req[r].asset = a

LEMMA RowMoves ==
    ASSUME TypeOK, FreshIds, NEW r \in Requests, Step(r) \/ Fail(r) \/ ChildError(r),
           NEW a \in Assets
    PROVE  /\ RowMove(r, a)
           /\ row[a] = "deleted" => title'[a] = title[a] /\ auth'[a] = auth[a]
<1> USE RequestFields DEF RowMove, At
<1>1. CASE InsertRow(r)
  BY <1>1 DEF InsertRow, FreshIds, TypeOK, Working
<1>2. CASE AdoptTx(r)
  BY <1>2 DEF AdoptTx, Adopted, Exists, TypeOK
<1>3. CASE SoftDelete(r)
  BY <1>3 DEF SoftDelete, Live, TypeOK
<1>4. CASE PutTitle(r) \/ PutAuth(r) \/ ChildPut(r)
  BY <1>4 DEF PutTitle, PutAuth, ChildPut, Live, TypeOK
<1>5. CASE UNCHANGED <<row, title, auth>>
  BY <1>5
<1>6. ASSUME InsertTags(r) \/ InsertMetadata(r) \/ ReadBack(r) \/ AdoptExists(r) \/
      AdoptDuplicate(r) \/ UpdateGet(r) \/ UpdateVerify(r) \/ ClearMetadata(r) \/
      PutMetadata(r) \/ DeleteGet(r) \/ Snapshot(r) \/ DropRelations(r) \/ DropMembers(r)
      \/ TagGet(r) \/ PutTag(r) \/ DropTag(r) \/ TagMissing(r) \/ AuthGet(r) \/
      AuthReadBack(r) \/ WalkDescendants(r) \/ DescendantsFound(r) \/ ChildGet(r) \/
      ChildGone(r) \/ ChildrenDone(r)
      PROVE  UNCHANGED <<row, title, auth>>
  BY <1>6, Zenon DEF Read, ReadLive, tables, assetTables, InsertTags, InsertMetadata,
     ReadBack, AdoptExists, AdoptDuplicate, UpdateGet, UpdateVerify, ClearMetadata,
     PutMetadata, DeleteGet, Snapshot, DropRelations, DropMembers, TagGet, PutTag,
     DropTag, TagMissing, AuthGet, AuthReadBack, WalkDescendants, DescendantsFound,
     ChildGet, ChildGone, ChildrenDone
<1>7. ASSUME LinkStep(r) PROVE UNCHANGED <<row, title, auth>>
  BY <1>7, Zenon DEF Read, ReadLive, tables, assetTables, LinkStep, FromExists, ToExists,
     WalkForCycle, CycleFound, NoCycle, InsertRelation, RelationGet, DropRelation,
     InsertCollection, CollectionGet, CollectionVerify, PutName, CollectionReadBack,
     DropCollection, MemberGet, MemberCollection, PutMember, DropMember
<1>8. ASSUME WriteAudit(r) \/ Fail(r) \/ ChildError(r) PROVE UNCHANGED <<row, title, auth>>
  BY <1>8, Zenon DEF WriteAudit, Fail, ChildError, tables
<1>9. QED
  BY <1>1, <1>2, <1>3, <1>4, <1>5, <1>6, <1>7, <1>8, Zenon DEF Step, AssetStep

LEMMA FreshStep == TypeOK /\ FreshIds /\ [Next]_vars => FreshIds'
<1> SUFFICES ASSUME TypeOK, FreshIds, [Next]_vars PROVE FreshIds'
  OBVIOUS
<1>1. CASE UNCHANGED vars
  BY <1>1 DEF vars, storeVars, tables, FreshIds, At, Named
<1>2. ASSUME NEW r \in Requests, Arrive(r) PROVE FreshIds'
  <2>1. PICK q \in Arguments : Start(r, q)
    BY <1>2 DEF Arrive
  <2>2. /\ pc[r] = "idle" /\ row' = row
        /\ req' = [req EXCEPT ![r] = q]
        /\ pc' = [pc EXCEPT ![r] = FirstStatement(q.op)]
    BY <2>1 DEF Start, Goto, tables
  <2>3. SUFFICES ASSUME NEW p \in Requests, At(p, "createAsset", "insert")'
                 PROVE  (row[req[p].asset] = "absent" /\ Named(req[p].asset) = {p})'
    BY DEF FreshIds
  <2>4. \A x \in Requests : req'[x] = IF x = r THEN q ELSE req[x]
    BY <2>2 DEF TypeOK
  <2>5. CASE p = r
    <3>1. q.op = "createAsset" /\ req'[r] = q
      BY <2>2, <2>3, <2>5 DEF At, TypeOK
    <3>2. row[q.asset] = "absent" /\ Named(q.asset) = {}
      BY <3>1 DEF Arguments, Exists
    <3>3. QED
      BY <2>2, <2>4, <2>5, <3>1, <3>2 DEF Named, OnAsset
  <2>6. CASE p # r
    <3>1. req'[p] = req[p] /\ At(p, "createAsset", "insert") /\ req'[r] = q
      BY <2>2, <2>3, <2>6 DEF At, TypeOK
    <3>2. row[req[p].asset] = "absent" /\ Named(req[p].asset) = {p}
      BY <3>1 DEF FreshIds
    <3>3. ~(q.op \in OnAsset /\ q.asset = req[p].asset)
      <4>1. SUFFICES ASSUME q.op \in OnAsset, q.asset = req[p].asset PROVE FALSE
        OBVIOUS
      <4>2. ~Exists(q.asset) /\ Minted(q.asset) /\ Named(q.asset) # {}
        BY <3>1, <3>2, <4>1 DEF Exists, Minted, At
      <4>3. QED
        BY <4>1, <4>2 DEF Arguments, OnAsset
    <3>4. QED
      BY <2>2, <2>4, <3>1, <3>2, <3>3 DEF Named
  <2>7. QED
    BY <2>5, <2>6
<1>3. ASSUME NEW r \in Requests, Step(r) \/ Fail(r) \/ ChildError(r) PROVE FreshIds'
  <2>1. SUFFICES ASSUME NEW p \in Requests, At(p, "createAsset", "insert")'
                 PROVE  row'[req[p].asset] = "absent" /\ Named(req[p].asset) = {p}
    BY <1>3, StepFrame DEF FreshIds, Named
  <2>2. p # r /\ At(p, "createAsset", "insert")
    BY <1>3, <2>1, StepFrame DEF At, TypeOK
  <2>3. row[req[p].asset] = "absent" /\ Named(req[p].asset) = {p}
    BY <2>2 DEF FreshIds
  <2>4. req[p].asset \in Assets
    BY <2>2, RequestFields DEF At, TypeOK, OnAsset
  <2>5. ~(req[r].op \in {"createAsset", "adoptAsset"} /\ req[r].asset = req[p].asset)
    BY <2>2, <2>3 DEF Named, OnAsset
  <2>6. RowMove(r, req[p].asset)
    BY <1>3, <2>4, RowMoves
  <2>7. QED
    BY <2>3, <2>5, <2>6 DEF RowMove
<1>4. QED
  BY <1>1, <1>2, <1>3 DEF Next

LEMMA Basics == Spec => [](TypeOK /\ FreshIds)
<1>1. Init => TypeOK /\ FreshIds
  BY InitTypes DEF Init, StoreInit, FreshIds, At
<1>2. QED
  BY <1>1, TypeStep, FreshStep, PTL DEF Spec

\* A soft-deleted asset is final: no race of adopts, updates, cascades and
\* deletes brings it back or writes its title or authorization context again.
THEOREM DeletedIsFinal == Spec => DeletedStaysDeleted
<1>1. ASSUME TypeOK, FreshIds, [Next]_vars, NEW a \in Assets, row[a] = "deleted"
      PROVE  row'[a] = "deleted" /\ title'[a] = title[a] /\ auth'[a] = auth[a]
  <2>1. CASE UNCHANGED vars
    BY <1>1, <2>1 DEF vars, storeVars, tables
  <2>2. ASSUME NEW r \in Requests, Arrive(r) PROVE UNCHANGED <<row, title, auth>>
    BY <2>2, Zenon DEF Arrive, Start, tables
  <2>3. ASSUME NEW r \in Requests, Step(r) \/ Fail(r) \/ ChildError(r)
        PROVE  row'[a] = "deleted" /\ title'[a] = title[a] /\ auth'[a] = auth[a]
    BY <1>1, <2>3, RowMoves DEF RowMove
  <2>4. QED
    BY <1>1, <2>1, <2>2, <2>3 DEF Next
<1>2. TypeOK /\ FreshIds /\ [Next]_vars =>
        [\A a \in Assets : row[a] = "deleted" =>
            row'[a] = "deleted" /\ title'[a] = title[a] /\ auth'[a] = auth[a]]_vars
  BY <1>1
<1>3. QED
  BY <1>2, Basics, PTL DEF Spec, DeletedStaysDeleted

-----------------------------------------------------------------------------
\* The requests whose soft delete of a took effect, unless they failed later.
Deleting(a) ==
    {r \in Requests : /\ req[r] = [op |-> "deleteAsset", asset |-> a]
                      /\ pc[r] \in {"drop_relations", "drop_members", "audit", "ok"}}

OneWinner ==
    \A a \in Assets : \A r, p \in Deleting(a) : r = p /\ row[a] = "deleted"

\* An entry is its request's own, a delete's the only one and its last step.
EntriesAreEarned ==
    /\ \A e \in audit : /\ pc[e.by] # "idle" /\ req[e.by] = e.req
                        /\ e.req.op = "deleteAsset" => pc[e.by] = "ok"
    /\ \A e, f \in audit : e.by = f.by /\ e.req.op = "deleteAsset" => e = f

DeletionInv == TypeOK /\ FreshIds /\ OneWinner /\ EntriesAreEarned

\* The steps of a delete; every other step is of another operation.
LEMMA DeleteSteps ==
    ASSUME NEW r \in Requests, Step(r), req[r].op = "deleteAsset"
    PROVE  \/ DeleteGet(r) \/ Snapshot(r) \/ SoftDelete(r)
           \/ DropRelations(r) \/ DropMembers(r) \/ WriteAudit(r)
<1>1. ASSUME
           InsertRow(r) \/ InsertTags(r) \/ InsertMetadata(r) \/ ReadBack(r) \/
           AdoptExists(r) \/ AdoptTx(r) \/ AdoptDuplicate(r) \/ UpdateGet(r) \/
           UpdateVerify(r) \/ PutTitle(r) \/ ClearMetadata(r) \/ PutMetadata(r) \/
           TagGet(r) \/ PutTag(r) \/ DropTag(r) \/ TagMissing(r) \/ AuthGet(r) \/
           PutAuth(r) \/ AuthReadBack(r) \/ WalkDescendants(r) \/ DescendantsFound(r) \/
           ChildGet(r) \/ ChildGone(r) \/ ChildPut(r) \/ ChildrenDone(r)
      PROVE  req[r].op # "deleteAsset"
  BY <1>1 DEF At,
      InsertRow, InsertTags, InsertMetadata, ReadBack, AdoptExists, AdoptTx,
      AdoptDuplicate, UpdateGet, UpdateVerify, PutTitle, ClearMetadata, PutMetadata,
      TagGet, PutTag, DropTag, TagMissing, AuthGet, PutAuth, AuthReadBack,
      WalkDescendants, DescendantsFound, ChildGet, ChildGone, ChildPut, ChildrenDone
<1>2. ASSUME LinkStep(r) PROVE req[r].op # "deleteAsset"
  BY <1>2 DEF At, LinkStep,
      FromExists, ToExists, WalkForCycle, CycleFound, NoCycle, InsertRelation,
      RelationGet, DropRelation, InsertCollection, CollectionGet, CollectionVerify,
      PutName, CollectionReadBack, DropCollection, MemberGet, MemberCollection,
      PutMember, DropMember
<1>3. QED
  BY <1>1, <1>2, Zenon DEF Step, AssetStep

\* A delete gets past its soft delete only by being the one that deleted the row.
LEMMA DeletingMoves ==
    ASSUME TypeOK, NEW r \in Requests, Step(r) \/ Fail(r) \/ ChildError(r),
           NEW a \in Assets, r \in Deleting(a)'
    PROVE  r \in Deleting(a) \/ (row[a] = "live" /\ row'[a] = "deleted")
<1>1. req' = req /\ req[r] = [op |-> "deleteAsset", asset |-> a]
  BY StepFrame DEF Deleting
<1>2. pc'[r] \in {"drop_relations", "drop_members", "audit", "ok"}
  BY DEF Deleting
<1>3. ~Fail(r) /\ ~ChildError(r)
  BY <1>1, <1>2 DEF Fail, ChildError, Goto, TypeOK
<1>4. CASE SoftDelete(r)
  BY <1>1, <1>2, <1>4 DEF SoftDelete, Live, Goto, TypeOK
<1>5. CASE DeleteGet(r) \/ Snapshot(r)
  BY <1>1, <1>2, <1>5 DEF DeleteGet, Snapshot, ReadLive, Read, Goto, TypeOK
<1>6. CASE DropRelations(r) \/ DropMembers(r) \/ WriteAudit(r)
  BY <1>1, <1>6 DEF DropRelations, DropMembers, WriteAudit, At, Deleting
<1>7. QED
  BY <1>1, <1>3, <1>4, <1>5, <1>6, DeleteSteps

\* The only statements that write audit entries.
LEMMA AuditMoves ==
    ASSUME NEW r \in Requests, Step(r) \/ Fail(r) \/ ChildError(r)
    PROVE  \/ audit' = audit
           \/ /\ \E lost : audit' = audit \cup {[by |-> r, req |-> req[r], lost |-> lost]}
              /\ WriteAudit(r) \/ AdoptTx(r)
<1>1. ASSUME
           InsertRow(r) \/ InsertTags(r) \/ InsertMetadata(r) \/ ReadBack(r) \/
           AdoptExists(r) \/ AdoptDuplicate(r) \/ UpdateGet(r) \/ UpdateVerify(r) \/
           PutTitle(r) \/ ClearMetadata(r) \/ PutMetadata(r) \/ DeleteGet(r) \/
           Snapshot(r) \/ SoftDelete(r) \/ DropRelations(r) \/ DropMembers(r) \/
           TagGet(r) \/ PutTag(r) \/ DropTag(r) \/ TagMissing(r) \/ AuthGet(r) \/
           PutAuth(r) \/ AuthReadBack(r) \/ WalkDescendants(r) \/ DescendantsFound(r) \/
           ChildGet(r) \/ ChildGone(r) \/ ChildPut(r) \/ ChildrenDone(r)
      PROVE  audit' = audit
  BY <1>1, Zenon DEF Read, ReadLive,
      InsertRow, InsertTags, InsertMetadata, ReadBack, AdoptExists, AdoptDuplicate,
      UpdateGet, UpdateVerify, PutTitle, ClearMetadata, PutMetadata, DeleteGet,
      Snapshot, SoftDelete, DropRelations, DropMembers, TagGet, PutTag, DropTag,
      TagMissing, AuthGet, PutAuth, AuthReadBack, WalkDescendants, DescendantsFound,
      ChildGet, ChildGone, ChildPut, ChildrenDone
<1>2. ASSUME LinkStep(r) PROVE audit' = audit
  BY <1>2, Zenon DEF Read, ReadLive, LinkStep,
      FromExists, ToExists, WalkForCycle, CycleFound, NoCycle, InsertRelation,
      RelationGet, DropRelation, InsertCollection, CollectionGet, CollectionVerify,
      PutName, CollectionReadBack, DropCollection, MemberGet, MemberCollection,
      PutMember, DropMember
<1>3. CASE Fail(r) \/ ChildError(r)
  BY <1>3 DEF Fail, ChildError
<1>4. CASE WriteAudit(r) \/ AdoptTx(r)
  BY <1>4 DEF WriteAudit, AdoptTx, Adopted
<1>5. QED
  BY <1>1, <1>2, <1>3, <1>4, Zenon DEF Step, AssetStep

LEMMA WinnerStep ==
    ASSUME DeletionInv, NEW r \in Requests, Step(r) \/ Fail(r) \/ ChildError(r)
    PROVE  OneWinner'
<1>1. SUFFICES ASSUME NEW a \in Assets, NEW p \in Deleting(a)', NEW q \in Deleting(a)'
               PROVE  p = q /\ row'[a] = "deleted"
  BY DEF OneWinner
<1>2. \A x \in Deleting(a)' : x # r => x \in Deleting(a)
  BY StepFrame DEF Deleting, DeletionInv, TypeOK
<1>3. RowMove(r, a)
  BY RowMoves DEF DeletionInv
<1>4. \A x, y \in Deleting(a) : x = y /\ row[a] = "deleted"
  BY DEF DeletionInv, OneWinner
<1>5. r \in Deleting(a)' => r \in Deleting(a) \/ (row[a] = "live" /\ row'[a] = "deleted")
  BY DeletingMoves DEF DeletionInv
<1>6. row[a] = "deleted" => row'[a] = "deleted"
  BY <1>3 DEF RowMove
<1>7. QED
  BY <1>2, <1>4, <1>5, <1>6

LEMMA EarnedStep ==
    ASSUME DeletionInv, NEW r \in Requests, Step(r) \/ Fail(r) \/ ChildError(r)
    PROVE  EntriesAreEarned'
<1>1. /\ req' = req
      /\ \E label \in Working \cup Answers : pc' = [pc EXCEPT ![r] = label]
  BY StepFrame DEF DeletionInv
<1>2. \A e \in audit : e.by \in Requests
  BY DEF DeletionInv, TypeOK, Entries
<1>3. req[r].op = "deleteAsset" => pc[r] # "ok"
  <2>1. CASE Step(r)
    BY <2>1, DeleteSteps DEF DeleteGet, Snapshot, SoftDelete, DropRelations, DropMembers,
                             WriteAudit, At
  <2>2. CASE Fail(r) \/ ChildError(r)
    BY <2>2 DEF Fail, Running, Working, ChildError
  <2>3. QED
    BY <2>1, <2>2
<1>4. \A e \in audit : e.req.op = "deleteAsset" => e.by # r
  BY <1>3 DEF DeletionInv, EntriesAreEarned
<1>5. \A e \in audit : /\ pc'[e.by] # "idle" /\ req'[e.by] = e.req
                       /\ e.req.op = "deleteAsset" => pc'[e.by] = "ok"
  <2>1. SUFFICES ASSUME NEW e \in audit
        PROVE  /\ pc'[e.by] # "idle" /\ req'[e.by] = e.req
               /\ e.req.op = "deleteAsset" => pc'[e.by] = "ok"
    OBVIOUS
  <2>2. PICK label \in Working \cup Answers : pc' = [pc EXCEPT ![r] = label]
    BY <1>1
  <2>3. label # "idle"
    BY <2>2 DEF Working, Answers
  <2>4. pc'[e.by] = IF e.by = r THEN label ELSE pc[e.by]
    BY <1>2, <2>2 DEF DeletionInv, TypeOK
  <2>5. QED
    BY <1>1, <1>4, <2>3, <2>4 DEF DeletionInv, EntriesAreEarned
<1>6. CASE audit' = audit
  BY <1>5, <1>6 DEF DeletionInv, EntriesAreEarned
<1>7. ASSUME NEW lost, audit' = audit \cup {[by |-> r, req |-> req[r], lost |-> lost]},
             WriteAudit(r) \/ AdoptTx(r)
      PROVE  EntriesAreEarned'
  <2>1. pc'[r] # "idle" /\ (req[r].op = "deleteAsset" => pc'[r] = "ok")
    BY <1>7 DEF WriteAudit, AdoptTx, Adopted, At, Goto, DeletionInv, TypeOK
  <2>2. \A e \in audit : e.by = r => req[r].op # "deleteAsset"
    BY <1>4 DEF DeletionInv, EntriesAreEarned
  <2>3. QED
    BY <1>1, <1>4, <1>5, <1>7, <2>1, <2>2 DEF DeletionInv, EntriesAreEarned
<1>8. QED
  BY <1>6, <1>7, AuditMoves

LEMMA DeletionStep == DeletionInv /\ [Next]_vars => DeletionInv'
<1> SUFFICES ASSUME DeletionInv, [Next]_vars PROVE DeletionInv'
  OBVIOUS
<1>1. TypeOK' /\ FreshIds'
  BY TypeStep, FreshStep DEF DeletionInv
<1>2. CASE UNCHANGED vars
  BY <1>1, <1>2 DEF vars, storeVars, tables, DeletionInv, OneWinner, Deleting, EntriesAreEarned
<1>3. ASSUME NEW r \in Requests, Arrive(r) PROVE OneWinner' /\ EntriesAreEarned'
  <2>1. PICK q : Start(r, q)
    BY <1>3 DEF Arrive
  <2>2. pc[r] = "idle" /\ row' = row /\ audit' = audit
    BY <2>1 DEF Start, tables
  <2>3. \A p \in Requests \ {r} : pc'[p] = pc[p] /\ req'[p] = req[p]
    BY <2>1 DEF Start, Goto, DeletionInv, TypeOK
  <2>4. pc'[r] \notin {"drop_relations", "drop_members", "audit", "ok"}
    BY <2>1 DEF Start, Goto, FirstStatement, DeletionInv, TypeOK
  <2>5. \A a \in Assets : Deleting(a)' \subseteq Deleting(a)
    BY <2>3, <2>4 DEF Deleting
  <2>6. \A e \in audit : e.by \in Requests \ {r}
    BY <2>2 DEF DeletionInv, EntriesAreEarned, TypeOK, Entries
  <2>7. OneWinner'
    BY <2>2, <2>5 DEF DeletionInv, OneWinner
  <2>8. EntriesAreEarned'
    BY <2>2, <2>3, <2>6 DEF DeletionInv, EntriesAreEarned
  <2>9. QED
    BY <2>7, <2>8
<1>4. QED
  BY <1>1, <1>2, <1>3, WinnerStep, EarnedStep DEF Next, DeletionInv

\* However many deletes of an asset race, one of them deletes it and is recorded.
THEOREM DeletedOnce == Spec => []OneDeletion
<1>1. Init => DeletionInv
  BY InitTypes DEF Init, StoreInit, DeletionInv, FreshIds, At, OneWinner, Deleting,
                   EntriesAreEarned
<1>2. ASSUME DeletionInv PROVE OneDeletion
  <2>1. SUFFICES ASSUME NEW a \in Assets
        PROVE  /\ Cardinality(Deletions(a)) <= 1
               /\ Deletions(a) # {} => row[a] = "deleted"
    BY DEF OneDeletion
  <2>2. \A e \in Deletions(a) : e.by \in Deleting(a)
    BY <1>2 DEF DeletionInv, EntriesAreEarned, Deletions, Deleting, TypeOK, Entries
  <2>3. \A e, f \in Deletions(a) : e = f
    BY <1>2, <2>2 DEF DeletionInv, OneWinner, EntriesAreEarned, Deletions
  <2>4. CASE Deletions(a) = {}
    BY <2>4, FS_EmptySet
  <2>5. CASE Deletions(a) # {}
    <3>1. PICK e : e \in Deletions(a)
      BY <2>5
    <3>2. Deletions(a) = {e}
      BY <2>3, <3>1
    <3>3. Cardinality(Deletions(a)) = 1
      BY <3>2, FS_Singleton
    <3>4. QED
      BY <1>2, <2>2, <3>1, <3>3 DEF DeletionInv, OneWinner
  <2>6. QED
    BY <2>4, <2>5
<1>3. QED
  BY <1>1, <1>2, DeletionStep, PTL DEF Spec

-----------------------------------------------------------------------------
\* What becomes of relations and memberships beside deletes: the cascade, its audit
\* entry, and the cycle check.

DeleteOf(a) == [op |-> "deleteAsset", asset |-> a]

LEMMA DeleteShape ==
    ASSUME NEW q \in Request, q.op = "deleteAsset"
    PROVE  q.asset \in Assets /\ q = DeleteOf(q.asset)
BY DEF Request, DeleteOf

LEMMA DropShape ==
    ASSUME NEW q \in Request, q.op = "deleteRelation"
    PROVE  q.rel \in Relations /\ q = [op |-> "deleteRelation", rel |-> q.rel]
BY DEF Request

LEMMA EndsOfLinks ==
    /\ \A x \in Relations : Ends(x) = {x.from, x.to}
    /\ \A m \in Memberships : Ends(m) = {m.asset}
BY DEF Relations, Memberships, Ends

\* The statements that change relations, memberships and snapshots.
LEMMA LinkMoves ==
    ASSUME NEW r \in Requests, Step(r) \/ Fail(r) \/ ChildError(r)
    PROVE  /\ rels' = rels \/ InsertRelation(r) \/ DropRelation(r) \/ DropRelations(r)
           /\ \/ members' = members \/ PutMember(r) \/ DropMember(r) \/ DropCollection(r)
              \/ DropMembers(r)
           /\ snap' = snap \/ Snapshot(r) \/ RelationGet(r)
<1>1. ASSUME
           InsertRow(r) \/ InsertTags(r) \/ InsertMetadata(r) \/ ReadBack(r) \/
           AdoptExists(r) \/ AdoptTx(r) \/ AdoptDuplicate(r) \/ UpdateGet(r) \/
           UpdateVerify(r) \/ PutTitle(r) \/ ClearMetadata(r) \/ PutMetadata(r) \/
           DeleteGet(r) \/ SoftDelete(r) \/ TagGet(r) \/ PutTag(r) \/ DropTag(r) \/
           TagMissing(r) \/ AuthGet(r) \/ PutAuth(r) \/ AuthReadBack(r) \/
           WalkDescendants(r) \/ DescendantsFound(r) \/ ChildGet(r) \/ ChildGone(r) \/
           ChildPut(r) \/ ChildrenDone(r)
      PROVE  UNCHANGED <<rels, members, snap>>
  BY <1>1, Zenon DEF Read, ReadLive, Adopted, tables, locals, collectionTables,
      InsertRow, InsertTags, InsertMetadata, ReadBack, AdoptExists, AdoptTx,
      AdoptDuplicate, UpdateGet, UpdateVerify, PutTitle, ClearMetadata, PutMetadata,
      DeleteGet, SoftDelete, TagGet, PutTag, DropTag, TagMissing, AuthGet, PutAuth,
      AuthReadBack, WalkDescendants, DescendantsFound, ChildGet, ChildGone, ChildPut,
      ChildrenDone
<1>2. ASSUME
           FromExists(r) \/ ToExists(r) \/ WalkForCycle(r) \/ CycleFound(r) \/
           NoCycle(r) \/ InsertCollection(r) \/ CollectionGet(r) \/
           CollectionVerify(r) \/ PutName(r) \/ CollectionReadBack(r) \/ MemberGet(r) \/
           MemberCollection(r)
      PROVE  UNCHANGED <<rels, members, snap>>
  BY <1>2, Zenon DEF Read, ReadLive, tables, locals,
      FromExists, ToExists, WalkForCycle, CycleFound, NoCycle, InsertCollection,
      CollectionGet, CollectionVerify, PutName, CollectionReadBack, MemberGet,
      MemberCollection
<1>3. CASE WriteAudit(r) \/ Fail(r) \/ ChildError(r)
  BY <1>3, Zenon DEF WriteAudit, Fail, ChildError, tables, locals
<1>4. CASE Snapshot(r) \/ RelationGet(r)
  BY <1>4, Zenon DEF Snapshot, RelationGet, tables
<1>5. CASE InsertRelation(r) \/ DropRelation(r) \/ DropRelations(r)
  BY <1>5, Zenon DEF InsertRelation, DropRelation, DropRelations, collectionTables, locals
<1>6. CASE PutMember(r) \/ DropMember(r) \/ DropCollection(r) \/ DropMembers(r)
  BY <1>6, Zenon DEF PutMember, DropMember, DropCollection, DropMembers, locals
<1>7. QED
  BY <1>1, <1>2, <1>3, <1>4, <1>5, <1>6, Zenon DEF Step, AssetStep, LinkStep

\* A soft delete that takes effect is the statement of a delete of that asset.
LEMMA SoftDeletes ==
    ASSUME TypeOK, FreshIds, NEW r \in Requests, Step(r) \/ Fail(r) \/ ChildError(r),
           NEW a \in Assets, row'[a] = "deleted"
    PROVE  \/ row[a] = "deleted"
           \/ pc'[r] = "drop_relations" /\ req[r] = DeleteOf(a)
<1>1. CASE row[a] = "deleted"
  BY <1>1
<1>2. CASE row[a] # "deleted"
  <2>1. row[a] = "live" /\ At(r, "deleteAsset", "soft_delete") /\ req[r].asset = a
    BY <1>2, RowMoves DEF RowMove
  <2>2. req[r] = DeleteOf(a)
    BY <2>1, DeleteShape DEF At, TypeOK
  <2>3. CASE Step(r)
    <3>1. SoftDelete(r)
      BY <2>1, <2>3, DeleteSteps DEF At, DeleteGet, Snapshot, SoftDelete, DropRelations,
                                     DropMembers, WriteAudit
    <3>2. QED
      BY <2>1, <2>2, <3>1 DEF SoftDelete, Live, Goto, TypeOK
  <2>4. CASE Fail(r) \/ ChildError(r)
    BY <1>2, <2>4 DEF Fail, ChildError, tables
  <2>5. QED
    BY <2>3, <2>4
<1>3. QED
  BY <1>1, <1>2

-----------------------------------------------------------------------------
\* A delete of a that has not yet executed the statement, or never will.
Owed(a, labels) == \E r \in Requests : pc[r] \in labels /\ req[r] = DeleteOf(a)

RelationsOwed ==
    \A x \in rels : \A a \in {x.from, x.to} :
        row[a] = "deleted" => x \in stray \/ Owed(a, {"drop_relations", "failed"})
MembersOwed ==
    \A m \in members :
        row[m.asset] = "deleted" =>
            m \in stray \/ Owed(m.asset, {"drop_relations", "drop_members", "failed"})

LEMMA RelationsOwedStep ==
    ASSUME TypeOK, FreshIds, RelationsOwed, NEW r \in Requests,
           Step(r) \/ Fail(r) \/ ChildError(r), Observe(r)
    PROVE  RelationsOwed'
<1>1. SUFFICES ASSUME NEW x \in rels', NEW a \in {x.from, x.to}, row'[a] = "deleted"
               PROVE  x \in stray' \/ Owed(a, {"drop_relations", "failed"})'
  BY DEF RelationsOwed
<1>2. /\ req' = req
      /\ \A q \in Requests \ {r} : pc'[q] = pc[q]
  BY StepFrame DEF TypeOK
<1>3. x \in Relations /\ a \in Assets
  BY <1>1, TypeStep DEF Next, Relations, TypeOK
<1>4. CASE x \notin rels
  <2>1. InsertRelation(r)
    BY <1>4, LinkMoves DEF DropRelation, DropRelations
  <2>2. row' = row
    BY <2>1 DEF InsertRelation, assetTables
  <2>3. QED
    BY <1>1, <1>3, <1>4, <2>2, EndsOfLinks DEF Observe, NewLinks, Live
<1>5. ASSUME x \in rels, row[a] # "deleted"
      PROVE  Owed(a, {"drop_relations", "failed"})'
  BY <1>1, <1>2, <1>3, <1>5, SoftDeletes DEF Owed
<1>6. ASSUME x \in rels, row[a] = "deleted", x \notin stray
      PROVE  Owed(a, {"drop_relations", "failed"})'
  <2>1. PICK q \in Requests : pc[q] \in {"drop_relations", "failed"} /\ req[q] = DeleteOf(a)
    BY <1>6 DEF RelationsOwed, Owed
  <2>2. CASE q # r
    BY <1>2, <2>1, <2>2 DEF Owed
  <2>3. CASE q = r
    <3>1. req[r].op = "deleteAsset" /\ req[r].asset = a
      BY <2>1, <2>3 DEF DeleteOf
    <3>2. ~DropRelations(r)
      BY <1>1, <3>1 DEF DropRelations, Touching
    <3>3. Fail(r)
      BY <2>1, <2>3, <3>1, <3>2, DeleteSteps
      DEF DeleteGet, Snapshot, SoftDelete, DropMembers, WriteAudit, ChildError, At
    <3>4. QED
      BY <1>2, <2>1, <2>3, <3>3 DEF Fail, Goto, Owed, TypeOK
  <2>4. QED
    BY <2>2, <2>3
<1>7. QED
  BY <1>4, <1>5, <1>6 DEF Observe

LEMMA MembersOwedStep ==
    ASSUME TypeOK, FreshIds, MembersOwed, NEW r \in Requests,
           Step(r) \/ Fail(r) \/ ChildError(r), Observe(r)
    PROVE  MembersOwed'
<1> DEFINE Late == {"drop_relations", "drop_members", "failed"}
<1>1. SUFFICES ASSUME NEW m \in members', row'[m.asset] = "deleted"
               PROVE  m \in stray' \/ Owed(m.asset, Late)'
  BY DEF MembersOwed
<1>2. /\ req' = req
      /\ \A q \in Requests \ {r} : pc'[q] = pc[q]
  BY StepFrame DEF TypeOK
<1>3. m \in Memberships /\ m.asset \in Assets
  BY <1>1, TypeStep DEF Next, Memberships, TypeOK
<1>4. CASE m \notin members
  <2>1. PutMember(r)
    BY <1>4, LinkMoves DEF DropMember, DropMembers, DropCollection
  <2>2. row' = row
    BY <2>1 DEF PutMember, assetTables
  <2>3. QED
    BY <1>1, <1>3, <1>4, <2>2, EndsOfLinks DEF Observe, NewLinks, Live
<1>5. ASSUME m \in members, row[m.asset] # "deleted"
      PROVE  Owed(m.asset, Late)'
  BY <1>1, <1>2, <1>3, <1>5, SoftDeletes DEF Owed
<1>6. ASSUME m \in members, row[m.asset] = "deleted", m \notin stray
      PROVE  Owed(m.asset, Late)'
  <2>1. PICK q \in Requests : pc[q] \in Late /\ req[q] = DeleteOf(m.asset)
    BY <1>6 DEF MembersOwed, Owed
  <2>2. CASE q # r
    BY <1>2, <2>1, <2>2 DEF Owed
  <2>3. CASE q = r
    <3>1. req[r].op = "deleteAsset" /\ req[r].asset = m.asset
      BY <2>1, <2>3 DEF DeleteOf
    <3>2. ~DropMembers(r)
      BY <1>1, <3>1 DEF DropMembers
    <3>3. Fail(r) \/ DropRelations(r)
      BY <2>1, <2>3, <3>1, <3>2, DeleteSteps
      DEF DeleteGet, Snapshot, SoftDelete, WriteAudit, ChildError, At
    <3>4. QED
      BY <1>2, <2>1, <2>3, <3>3 DEF Fail, DropRelations, Goto, Owed, TypeOK
  <2>4. QED
    BY <2>2, <2>3
<1>7. QED
  BY <1>4, <1>5, <1>6 DEF Observe

\* Nothing links to a deleted asset, for longer than its delete's cascade takes,
\* unless that delete failed or the link was inserted after it.
THEOREM CascadeIsComplete == Spec => []CascadeLeavesNothing
<1> DEFINE Owing == RelationsOwed /\ MembersOwed
<1>1. Init => Owing
  BY StoreAssumption DEF Init, StoreInit, RelationsOwed, MembersOwed
<1>2. TypeOK /\ FreshIds /\ Owing /\ [Next]_vars => Owing'
  <2> SUFFICES ASSUME TypeOK, FreshIds, Owing, [Next]_vars PROVE Owing'
    OBVIOUS
  <2>1. CASE UNCHANGED vars
    <3>1. UNCHANGED <<row, rels, members, req, pc, stray>>
      BY <2>1 DEF vars, storeVars, tables, history
    <3>2. RelationsOwed'
      BY <3>1 DEF RelationsOwed, Owed
    <3>3. MembersOwed'
      BY <3>1 DEF MembersOwed, Owed
    <3>4. QED
      BY <3>2, <3>3
  <2>2. ASSUME NEW r \in Requests, Arrive(r), Observe(r) PROVE Owing'
    <3>1. /\ UNCHANGED <<row, rels, members>> /\ pc[r] = "idle"
          /\ \A q \in Requests \ {r} : pc'[q] = pc[q] /\ req'[q] = req[q]
      BY <2>2 DEF Arrive, Start, Goto, tables, TypeOK
    <3>2. \A a, labels : "idle" \notin labels /\ Owed(a, labels) => Owed(a, labels)'
      BY <3>1 DEF Owed
    <3>3. stray \subseteq stray'
      BY <2>2 DEF Observe
    <3>4. RelationsOwed'
      BY <3>1, <3>2, <3>3 DEF RelationsOwed
    <3>5. MembersOwed'
      BY <3>1, <3>2, <3>3 DEF MembersOwed
    <3>6. QED
      BY <3>4, <3>5
  <2>3. QED
    BY <2>1, <2>2, RelationsOwedStep, MembersOwedStep DEF Next
<1>3. TypeOK /\ Owing => CascadeLeavesNothing
  <2> SUFFICES ASSUME TypeOK, Owing PROVE CascadeLeavesNothing
    OBVIOUS
  <2>1. ASSUME NEW x \in rels, NEW a \in Ends(x), row[a] = "deleted", x \notin stray
        PROVE  \E r \in Requests : /\ pc[r] \in {"drop_relations", "drop_members", "failed"}
                                   /\ req[r] = [op |-> "deleteAsset", asset |-> a]
    <3>1. x \in Relations
      BY DEF TypeOK
    <3>2. a \in {x.from, x.to}
      BY <3>1, EndsOfLinks
    <3>3. Owed(a, {"drop_relations", "failed"})
      BY <2>1, <3>2 DEF RelationsOwed
    <3>4. QED
      BY <3>3 DEF Owed, DeleteOf
  <2>2. ASSUME NEW m \in members, NEW a \in Ends(m), row[a] = "deleted", m \notin stray
        PROVE  \E r \in Requests : /\ pc[r] \in {"drop_relations", "drop_members", "failed"}
                                   /\ req[r] = [op |-> "deleteAsset", asset |-> a]
    BY <2>2, EndsOfLinks DEF TypeOK, MembersOwed, Owed, DeleteOf
  <2>3. QED
    BY <2>1, <2>2 DEF CascadeLeavesNothing
<1>4. QED
  BY <1>1, <1>2, <1>3, Basics, PTL DEF Spec

-----------------------------------------------------------------------------
\* What a delete read before it began holds what it is about to remove, but for
\* the relations that arrived since.
SnapshotsHold ==
    \A r \in Requests :
        /\ pc[r] \in {"soft_delete", "drop_relations"} /\ req[r].op = "deleteAsset" =>
               Touching(req[r].asset) \subseteq snap[r] \cup late
        /\ pc[r] = "drop" /\ req[r].op = "deleteRelation" => snap[r] = {req[r].rel}

Removes(r, x) ==
    \/ req[r] = [op |-> "deleteRelation", rel |-> x]
    \/ \E a \in {x.from, x.to} : req[r] = DeleteOf(a)

\* The request that removed x still carries it, or failed.
Carried(r, x) ==
    /\ Removes(r, x)
    /\ pc[r] = "failed" \/ (pc[r] \in {"drop_members", "audit"} /\ x \in snap[r])

RemovalsTraced ==
    \A x \in ever \ rels : Recorded(x) \/ x \in late \/ \E r \in Requests : Carried(r, x)

RemovalInv == ever \subseteq Relations /\ SnapshotsHold /\ RemovalsTraced

LEMMA AuditSteps ==
    ASSUME NEW r \in Requests, Step(r), pc[r] = "audit"
    PROVE  WriteAudit(r)
BY DEF Step, AssetStep, LinkStep, At,
    InsertRow, InsertTags, InsertMetadata, ReadBack, AdoptExists, AdoptTx, AdoptDuplicate,
    UpdateGet, UpdateVerify, PutTitle, ClearMetadata, PutMetadata, DeleteGet, Snapshot,
    SoftDelete, DropRelations, DropMembers, TagGet, PutTag, DropTag, TagMissing, AuthGet,
    PutAuth, AuthReadBack, WalkDescendants, DescendantsFound, ChildGet, ChildGone,
    ChildPut, ChildrenDone, FromExists, ToExists, WalkForCycle, CycleFound, NoCycle,
    InsertRelation, RelationGet, DropRelation, InsertCollection, CollectionGet,
    CollectionVerify, PutName, CollectionReadBack, DropCollection, MemberGet,
    MemberCollection, PutMember, DropMember

LEMMA DropSteps ==
    ASSUME NEW r \in Requests, Step(r), req[r].op = "deleteRelation"
    PROVE  RelationGet(r) \/ DropRelation(r) \/ WriteAudit(r)
BY DEF Step, AssetStep, LinkStep, At,
    InsertRow, InsertTags, InsertMetadata, ReadBack, AdoptExists, AdoptTx, AdoptDuplicate,
    UpdateGet, UpdateVerify, PutTitle, ClearMetadata, PutMetadata, DeleteGet, Snapshot,
    SoftDelete, DropRelations, DropMembers, TagGet, PutTag, DropTag, TagMissing, AuthGet,
    PutAuth, AuthReadBack, WalkDescendants, DescendantsFound, ChildGet, ChildGone,
    ChildPut, ChildrenDone, FromExists, ToExists, WalkForCycle, CycleFound, NoCycle,
    InsertRelation, InsertCollection, CollectionGet, CollectionVerify, PutName,
    CollectionReadBack, DropCollection, MemberGet, MemberCollection, PutMember, DropMember

\* Each request has its own snapshot, and entries are never removed.
LEMMA RemovalFrame ==
    ASSUME TypeOK, NEW r \in Requests, Step(r) \/ Fail(r) \/ ChildError(r)
    PROVE  /\ req' = req /\ audit \subseteq audit'
           /\ \A q \in Requests \ {r} : pc'[q] = pc[q] /\ snap'[q] = snap[q]
<1>1. \A q \in Requests \ {r} : snap'[q] = snap[q]
  BY LinkMoves DEF Snapshot, RelationGet, TypeOK
<1>2. QED
  BY <1>1, StepFrame, AuditMoves DEF TypeOK

LEMMA SnapshotsStep ==
    ASSUME TypeOK, SnapshotsHold, NEW r \in Requests,
           Step(r) \/ Fail(r) \/ ChildError(r), Observe(r)
    PROVE  SnapshotsHold'
<1>1. SUFFICES ASSUME NEW q \in Requests
               PROVE  /\ /\ pc'[q] \in {"soft_delete", "drop_relations"}
                         /\ req[q].op = "deleteAsset"
                         => Touching(req[q].asset)' \subseteq snap'[q] \cup late'
                      /\ pc'[q] = "drop" /\ req[q].op = "deleteRelation" =>
                             snap'[q] = {req[q].rel}
  BY RemovalFrame DEF SnapshotsHold, Touching
<1>2. late \subseteq late'
  BY DEF Observe
<1>3. ASSUME pc'[q] \in {"soft_delete", "drop_relations"}, req[q].op = "deleteAsset"
      PROVE  Touching(req[q].asset)' \subseteq snap'[q] \cup late'
  <2>1. req[q] \in Request
    BY <1>3 DEF TypeOK, NoRequest
  <2>2. CASE pc[q] \in {"soft_delete", "drop_relations"} /\ snap'[q] = snap[q]
    <3>1. SUFFICES ASSUME NEW x \in rels', req[q].asset \in {x.from, x.to}
                   PROVE  x \in snap[q] \cup late'
      BY <2>2, RemovalFrame DEF Touching
    <3>2. CASE x \in rels
      BY <1>2, <1>3, <2>2, <3>1, <3>2 DEF SnapshotsHold, Touching
    <3>3. CASE x \notin rels
      <4>1. Cascading(q, req[q].asset)
        BY <1>3, <2>1, <2>2, DeleteShape DEF Cascading, DeleteOf
      <4>2. QED
        BY <3>1, <3>3, <4>1 DEF Observe
    <3>4. QED
      BY <3>2, <3>3
  <2>3. CASE ~(pc[q] \in {"soft_delete", "drop_relations"} /\ snap'[q] = snap[q])
    <3>1. q = r
      BY <1>3, <2>3, RemovalFrame
    <3>2. Snapshot(r)
      <4>1. CASE Step(r)
        BY <1>3, <2>3, <3>1, <4>1, DeleteSteps
        DEF DeleteGet, SoftDelete, DropRelations, DropMembers, WriteAudit, ReadLive, Read,
            Goto, At, TypeOK, locals
      <4>2. CASE Fail(r) \/ ChildError(r)
        BY <1>3, <3>1, <4>2 DEF Fail, ChildError, Goto, TypeOK
      <4>3. QED
        BY <4>1, <4>2
    <3>3. QED
      BY <3>1, <3>2 DEF Snapshot, Touching, TypeOK, tables
  <2>4. QED
    BY <2>2, <2>3
<1>4. ASSUME pc'[q] = "drop", req[q].op = "deleteRelation"
      PROVE  snap'[q] = {req[q].rel}
  <2>1. CASE q # r
    BY <1>4, <2>1, RemovalFrame DEF SnapshotsHold
  <2>2. CASE q = r
    <3>1. RelationGet(r)
      <4>1. CASE Step(r)
        BY <1>4, <2>2, <4>1, DropSteps DEF DropRelation, WriteAudit, Goto, TypeOK
      <4>2. CASE Fail(r) \/ ChildError(r)
        BY <1>4, <2>2, <4>2 DEF Fail, ChildError, Goto, TypeOK
      <4>3. QED
        BY <4>1, <4>2
    <3>2. QED
      BY <1>4, <2>2, <3>1 DEF RelationGet, Goto, TypeOK
  <2>3. QED
    BY <2>1, <2>2
<1>5. QED
  BY <1>3, <1>4

LEMMA TracedStep ==
    ASSUME TypeOK, RemovalInv, NEW r \in Requests,
           Step(r) \/ Fail(r) \/ ChildError(r), Observe(r)
    PROVE  RemovalsTraced'
<1>1. SUFFICES ASSUME NEW x \in ever' \ rels'
               PROVE  Recorded(x)' \/ x \in late' \/ \E q \in Requests : Carried(q, x)'
  BY DEF RemovalsTraced
<1>2. x \in ever /\ x \in Relations /\ late \subseteq late'
  BY <1>1 DEF Observe, RemovalInv
<1>3. CASE x \in rels
  <2>1. CASE DropRelation(r)
    <3>1. x = req[r].rel /\ pc'[r] = "audit" /\ req[r].op = "deleteRelation"
      BY <1>1, <1>3, <2>1 DEF DropRelation, Goto, At, TypeOK
    <3>2. x \in snap'[r]
      BY <2>1, <3>1 DEF DropRelation, At, RemovalInv, SnapshotsHold, locals
    <3>3. req[r] = [op |-> "deleteRelation", rel |-> x]
      BY <2>1, <3>1, DropShape DEF DropRelation, At, TypeOK
    <3>4. Carried(r, x)'
      BY <3>1, <3>2, <3>3, RemovalFrame DEF Carried, Removes
    <3>5. QED
      BY <3>4
  <2>2. CASE DropRelations(r)
    <3>1. x \in Touching(req[r].asset) /\ pc'[r] = "drop_members" /\ snap' = snap
      BY <1>1, <1>3, <2>2 DEF DropRelations, Goto, At, TypeOK, locals
    <3>2. x \in snap[r] \cup late
      BY <2>2, <3>1 DEF DropRelations, At, RemovalInv, SnapshotsHold
    <3>3. req[r] = DeleteOf(req[r].asset) /\ req[r].asset \in {x.from, x.to}
      BY <2>2, <3>1, DeleteShape DEF DropRelations, At, TypeOK, Touching
    <3>4. x \in snap[r] => Carried(r, x)'
      BY <3>1, <3>3, RemovalFrame DEF Carried, Removes
    <3>5. QED
      BY <1>2, <3>2, <3>4
  <2>3. QED
    BY <1>1, <1>3, <2>1, <2>2, LinkMoves DEF InsertRelation
<1>4. CASE x \notin rels /\ ~Recorded(x) /\ x \notin late
  <2>1. PICK q \in Requests : Carried(q, x)
    BY <1>2, <1>4 DEF RemovalInv, RemovalsTraced
  <2>2. CASE q # r
    BY <2>1, <2>2, RemovalFrame DEF Carried, Removes
  <2>3. CASE q = r
    <3>1. Removes(r, x)'
      BY <2>1, <2>3, RemovalFrame DEF Carried, Removes
    <3>2. req[r].op \in {"deleteAsset", "deleteRelation"}
      BY <2>1, <2>3 DEF Carried, Removes, DeleteOf
    <3>3. CASE Fail(r)
      BY <3>1, <3>3 DEF Fail, Goto, Carried, TypeOK
    <3>4. CASE Step(r) /\ pc[r] = "audit"
      <4>1. WriteAudit(r) /\ x \in snap[r]
        BY <2>1, <2>3, <3>4, AuditSteps DEF Carried
      <4>2. [by |-> r, req |-> req[r], lost |-> snap[r]] \in audit'
        BY <4>1 DEF WriteAudit
      <4>3. QED
        BY <4>1, <4>2 DEF Recorded
    <3>5. CASE Step(r) /\ pc[r] # "audit"
      <4>1. pc[r] \in {"failed", "drop_members"}
        BY <2>1, <2>3, <3>5 DEF Carried
      <4>2. DropMembers(r)
        BY <3>2, <3>5, <4>1, DeleteSteps, DropSteps
        DEF At, DeleteGet, Snapshot, SoftDelete, DropRelations, RelationGet, DropRelation,
            WriteAudit
      <4>3. pc'[r] = "audit" /\ x \in snap'[r]
        BY <2>1, <2>3, <4>2 DEF DropMembers, At, Goto, Carried, TypeOK, locals
      <4>4. QED
        BY <3>1, <4>3 DEF Carried
    <3>6. QED
      BY <3>2, <3>3, <3>4, <3>5 DEF ChildError
  <2>4. QED
    BY <2>2, <2>3
<1>5. QED
  BY <1>2, <1>3, <1>4, RemovalFrame DEF Recorded

\* A relation that is gone is in an audit entry, unless its remover is still at
\* work or failed, or it slipped in between a delete's snapshot and its cascade.
THEOREM RemovalsAreTraced == Spec => []RemovedIsRecorded
<1>1. Init => RemovalInv
  BY StoreAssumption DEF Init, StoreInit, RemovalInv, SnapshotsHold, RemovalsTraced,
                         Relations, Writers
<1>2. TypeOK /\ RemovalInv /\ [Next]_vars => RemovalInv'
  <2> SUFFICES ASSUME TypeOK, RemovalInv, [Next]_vars PROVE RemovalInv'
    OBVIOUS
  <2>1. CASE UNCHANGED vars
    <3>1. UNCHANGED <<rels, audit, req, pc, snap, ever, late>>
      BY <2>1 DEF vars, storeVars, tables, locals, history
    <3>2. SnapshotsHold'
      BY <3>1 DEF RemovalInv, SnapshotsHold, Touching
    <3>3. RemovalsTraced'
      BY <3>1 DEF RemovalInv, RemovalsTraced, Recorded, Carried, Removes
    <3>4. QED
      BY <3>1, <3>2, <3>3 DEF RemovalInv
  <2>2. ASSUME NEW r \in Requests, Observe(r) PROVE ever' \subseteq Relations
    BY <2>2, TypeStep DEF Observe, RemovalInv, TypeOK
  <2>3. ASSUME NEW r \in Requests, Arrive(r), Observe(r)
        PROVE  SnapshotsHold' /\ RemovalsTraced'
    <3>1. /\ UNCHANGED <<rels, audit, snap>> /\ pc[r] = "idle"
          /\ \A q \in Requests \ {r} : pc'[q] = pc[q] /\ req'[q] = req[q]
      BY <2>3, Zenon DEF Arrive, Start, Goto, tables, locals, TypeOK
    <3>2. pc'[r] \notin {"soft_delete", "drop_relations", "drop"}
      BY <2>3 DEF Arrive, Start, Goto, FirstStatement, TypeOK
    <3>3. late \subseteq late' /\ ever' = ever \cup rels'
      BY <2>3 DEF Observe
    <3>4. SnapshotsHold'
      BY <3>1, <3>2, <3>3 DEF RemovalInv, SnapshotsHold, Touching
    <3>5. RemovalsTraced'
      BY <3>1, <3>3 DEF RemovalInv, RemovalsTraced, Recorded, Carried, Removes
    <3>6. QED
      BY <3>4, <3>5
  <2>4. QED
    BY <2>1, <2>2, <2>3, SnapshotsStep, TracedStep DEF Next, RemovalInv
<1>3. RemovalInv => RemovedIsRecorded
  BY DEF RemovalInv, RemovalsTraced, RemovedIsRecorded, Carried, Removes, Removing, DeleteOf
<1>4. QED
  BY <1>1, <1>2, <1>3, TypeCorrect, PTL DEF Spec

-----------------------------------------------------------------------------
\* A closed set of assets holds v and not u: no path leads from v to u.
Apart(u, v) == \E S \in SUBSET Assets : v \in S /\ u \notin S /\ Closed(S)

LEMMA ReachedIsClosed ==
    ASSUME rels \subseteq Relations, NEW v \in Assets
    PROVE  v \in Reached(v) /\ Closed(Reached(v)) /\ Reached(v) \in SUBSET Assets
BY DEF Reached, Closed, Relations

LEMMA ApartIsUnreached ==
    ASSUME rels \subseteq Relations, NEW u \in Assets, NEW v \in Assets
    PROVE  Apart(u, v) <=> u \notin Reached(v)
<1>1. Apart(u, v) => u \notin Reached(v)
  BY DEF Apart, Reached
<1>2. u \notin Reached(v) => Apart(u, v)
  BY ReachedIsClosed DEF Apart
<1>3. QED
  BY <1>1, <1>2

LEMMA AcyclicIsApart ==
    ASSUME rels \subseteq Relations
    PROVE  Acyclic <=> \A x \in rels : Apart(x.from, x.to)
BY ApartIsUnreached DEF Acyclic, Relations

\* Removing relations separates no less.
LEMMA ApartWithFewer ==
    ASSUME rels' \subseteq rels, NEW u, NEW v, Apart(u, v)
    PROVE  Apart(u, v)'
BY DEF Apart, Closed

\* A relation along which nothing leads back closes no cycle.
LEMMA InsertKeepsApart ==
    ASSUME rels \subseteq Relations, NEW e \in Relations, rels' = rels \cup {e},
           Apart(e.from, e.to), \A x \in rels : Apart(x.from, x.to),
           NEW x \in rels'
    PROVE  Apart(x.from, x.to)'
<1>1. /\ e.from \in Assets /\ e.to \in Assets /\ x.from \in Assets /\ x.to \in Assets
      /\ x \in rels \/ x = e
  BY DEF Relations
<1>2. PICK V \in SUBSET Assets : /\ V = Reached(e.to)
                                 /\ e.to \in V /\ Closed(V) /\ e.from \notin V
  BY <1>1, ReachedIsClosed, ApartIsUnreached
<1>3. x # e => x.from \notin Reached(x.to)
  BY <1>1, ApartIsUnreached
<1>4. PICK S \in SUBSET Assets : /\ S = Reached(x.to)
                                 /\ x.to \in S /\ Closed(S) /\ (x # e => x.from \notin S)
  BY <1>1, <1>3, ReachedIsClosed
<1>5. Closed(V)'
  BY <1>2 DEF Closed
<1>6. CASE x = e
  BY <1>2, <1>5, <1>6 DEF Apart
<1>7. CASE x # e /\ e.from \notin S
  <2>1. Closed(S)'
    BY <1>4, <1>7 DEF Closed
  <2>2. QED
    BY <1>4, <1>7, <2>1 DEF Apart
<1>8. CASE x # e /\ e.from \in S
  <2>1. x.from \notin V
    <3>1. SUFFICES ASSUME x.from \in V PROVE FALSE
      OBVIOUS
    <3>2. x.to \in V
      BY <1>1, <1>2, <1>8, <3>1 DEF Closed
    <3>3. S \subseteq V
      BY <1>2, <1>4, <3>2 DEF Reached
    <3>4. QED
      BY <1>2, <1>8, <3>3
  <2>2. Closed(S \cup V)'
    BY <1>2, <1>4, <1>8 DEF Closed
  <2>3. /\ S \cup V \in SUBSET Assets /\ x.to \in S \cup V /\ x.from \notin S \cup V
    BY <1>4, <1>8, <2>1
  <2>4. QED
    BY <2>2, <2>3 DEF Apart
<1>9. QED
  BY <1>6, <1>7, <1>8

-----------------------------------------------------------------------------
\* How far the breadth-first search of a createRelation is: what it has expanded
\* leads only to what it has seen, and does not hold the source.
Searched(r) ==
    /\ req[r].to \in seen[r] /\ todo[r] \subseteq seen[r]
    /\ req[r].from \notin seen[r] \ todo[r]
    /\ \A n \in seen[r] \ todo[r] : Successors(n) \subseteq seen[r]

SearchInv ==
    \A r \in Requests : req[r].op = "createRelation" =>
        /\ pc[r] = "walk" => Searched(r)
        /\ pc[r] = "insert" => Apart(req[r].from, req[r].to)

CycleInv == raced \/ ((\A x \in rels : Apart(x.from, x.to)) /\ SearchInv)

\* The statements of a createRelation.
LEMMA CreateSteps ==
    ASSUME NEW r \in Requests, Step(r), req[r].op = "createRelation"
    PROVE  FromExists(r) \/ ToExists(r) \/ WalkForCycle(r) \/ CycleFound(r) \/ NoCycle(r)
           \/ InsertRelation(r) \/ WriteAudit(r)
BY DEF Step, AssetStep, LinkStep, At,
    InsertRow, InsertTags, InsertMetadata, ReadBack, AdoptExists, AdoptTx, AdoptDuplicate,
    UpdateGet, UpdateVerify, PutTitle, ClearMetadata, PutMetadata, DeleteGet, Snapshot,
    SoftDelete, DropRelations, DropMembers, TagGet, PutTag, DropTag, TagMissing, AuthGet,
    PutAuth, AuthReadBack, WalkDescendants, DescendantsFound, ChildGet, ChildGone,
    ChildPut, ChildrenDone, RelationGet, DropRelation, InsertCollection, CollectionGet,
    CollectionVerify, PutName, CollectionReadBack, DropCollection, MemberGet,
    MemberCollection, PutMember, DropMember

\* Each request searches with a frontier of its own.
LEMMA SearchFrame ==
    ASSUME TypeOK, NEW r \in Requests, Step(r) \/ Fail(r) \/ ChildError(r),
           NEW q \in Requests \ {r}
    PROVE  /\ req' = req /\ pc'[q] = pc[q]
           /\ seen'[q] = seen[q] /\ todo'[q] = todo[q]
<1>1. ASSUME
           InsertRow(r) \/ InsertTags(r) \/ InsertMetadata(r) \/ ReadBack(r) \/
           AdoptExists(r) \/ AdoptTx(r) \/ AdoptDuplicate(r) \/ UpdateGet(r) \/
           UpdateVerify(r) \/ PutTitle(r) \/ ClearMetadata(r) \/ PutMetadata(r) \/
           DeleteGet(r) \/ Snapshot(r) \/ SoftDelete(r) \/ DropRelations(r) \/
           DropMembers(r) \/ TagGet(r) \/ PutTag(r) \/ DropTag(r) \/ TagMissing(r) \/
           AuthGet(r) \/ PutAuth(r) \/ ChildPut(r) \/ ChildrenDone(r)
      PROVE  UNCHANGED <<seen, todo>>
  BY <1>1, Zenon DEF Read, ReadLive, Adopted, locals,
      InsertRow, InsertTags, InsertMetadata, ReadBack, AdoptExists, AdoptTx,
      AdoptDuplicate, UpdateGet, UpdateVerify, PutTitle, ClearMetadata, PutMetadata,
      DeleteGet, Snapshot, SoftDelete, DropRelations, DropMembers, TagGet, PutTag,
      DropTag, TagMissing, AuthGet, PutAuth, ChildPut, ChildrenDone
<1>2. ASSUME
           FromExists(r) \/ CycleFound(r) \/ NoCycle(r) \/ InsertRelation(r) \/
           RelationGet(r) \/ DropRelation(r) \/ InsertCollection(r) \/
           CollectionGet(r) \/ CollectionVerify(r) \/ PutName(r) \/
           CollectionReadBack(r) \/ DropCollection(r) \/ MemberGet(r) \/
           MemberCollection(r) \/ PutMember(r) \/ DropMember(r)
      PROVE  UNCHANGED <<seen, todo>>
  BY <1>2, Zenon DEF Read, ReadLive, locals,
      FromExists, CycleFound, NoCycle, InsertRelation, RelationGet, DropRelation,
      InsertCollection, CollectionGet, CollectionVerify, PutName, CollectionReadBack,
      DropCollection, MemberGet, MemberCollection, PutMember, DropMember
<1>3. CASE WriteAudit(r) \/ Fail(r)
  BY <1>3, StepFrame DEF WriteAudit, Fail, locals, TypeOK
<1>4. CASE AuthReadBack(r) \/ DescendantsFound(r)
  BY <1>4, StepFrame DEF AuthReadBack, DescendantsFound, TypeOK
<1>5. CASE WalkDescendants(r) \/ WalkForCycle(r) \/ ToExists(r)
  BY <1>5, StepFrame DEF WalkDescendants, WalkForCycle, ToExists, Expand, TypeOK
<1>6. CASE ChildGet(r) \/ ChildGone(r) \/ ChildError(r)
  BY <1>6, StepFrame DEF ChildGet, ChildGone, ChildError, TypeOK
<1>7. CASE UNCHANGED <<seen, todo>>
  BY <1>7, StepFrame DEF TypeOK
<1>8. QED
  BY <1>1, <1>2, <1>3, <1>4, <1>5, <1>6, <1>7, Zenon DEF Step, AssetStep, LinkStep

LEMMA SearchStep ==
    ASSUME TypeOK, SearchInv, NEW r \in Requests, Step(r) \/ Fail(r) \/ ChildError(r),
           rels' \subseteq rels
    PROVE  SearchInv'
<1>1. SUFFICES ASSUME NEW q \in Requests, req[q].op = "createRelation"
               PROVE  /\ pc'[q] = "walk" => Searched(q)'
                      /\ pc'[q] = "insert" => Apart(req[q].from, req[q].to)'
  BY StepFrame DEF SearchInv
<1>2. req' = req /\ \A n : Successors(n)' \subseteq Successors(n)
  BY StepFrame DEF Successors
<1>3. CASE q # r
  <2>1. pc'[q] = pc[q] /\ seen'[q] = seen[q] /\ todo'[q] = todo[q]
    BY <1>3, SearchFrame
  <2>2. pc'[q] = "walk" => Searched(q)'
    BY <1>1, <1>2, <2>1 DEF SearchInv, Searched
  <2>3. pc'[q] = "insert" => Apart(req[q].from, req[q].to)'
    BY <1>1, <1>2, <2>1 DEF SearchInv, Apart, Closed
  <2>4. QED
    BY <2>2, <2>3
<1>4. CASE q = r
  <2>1. CASE ToExists(r)
    <3>1. pc'[q] = "walk" => seen'[r] = {req[r].to} /\ todo'[r] = {req[r].to}
      BY <1>4, <2>1 DEF ToExists, Goto, TypeOK
    <3>2. QED
      BY <1>2, <1>4, <2>1, <3>1 DEF ToExists, Goto, Searched, TypeOK
  <2>2. CASE WalkForCycle(r)
    <3>1. PICK n \in todo[r] : n # req[r].from /\ Expand(r, n)
      BY <2>2 DEF WalkForCycle
    <3>2. /\ seen'[r] = seen[r] \cup Successors(n)
          /\ todo'[r] = (todo[r] \ {n}) \cup (Successors(n) \ seen[r])
      BY <3>1 DEF Expand, TypeOK
    <3>3. pc' = pc /\ Searched(r)
      BY <1>1, <1>4, <2>2 DEF WalkForCycle, At, SearchInv
    <3>4. seen'[r] \ todo'[r] \subseteq (seen[r] \ todo[r]) \cup {n}
      BY <3>2
    <3>5. Searched(r)'
      BY <1>2, <3>1, <3>2, <3>3, <3>4 DEF Searched
    <3>6. QED
      BY <1>4, <2>2, <3>3, <3>5 DEF WalkForCycle, At
  <2>3. CASE NoCycle(r)
    <3>1. Searched(r) /\ todo[r] = {} /\ rels' = rels /\ pc'[r] = "insert"
      BY <1>1, <1>4, <2>3 DEF NoCycle, At, SearchInv, Read, Goto, tables, TypeOK
    <3>2. seen[r] \in SUBSET Assets
      BY DEF TypeOK
    <3>3. Closed(seen[r])
      BY <3>1, <3>2 DEF Closed, Searched, Successors
    <3>4. Apart(req[r].from, req[r].to)
      BY <3>1, <3>2, <3>3 DEF Apart, Searched
    <3>5. Apart(req[r].from, req[r].to)'
      BY <1>2, <3>1, <3>4 DEF Apart, Closed
    <3>6. QED
      BY <1>2, <1>4, <3>1, <3>5
  <2>4. CASE FromExists(r) \/ CycleFound(r) \/ InsertRelation(r) \/ WriteAudit(r)
             \/ Fail(r) \/ ChildError(r)
    BY <1>1, <1>4, <2>4 DEF FromExists, CycleFound, InsertRelation, WriteAudit, Fail,
        ChildError, Read, Goto, TypeOK
  <2>5. QED
    BY <1>1, <1>4, <2>1, <2>2, <2>3, <2>4, CreateSteps
<1>5. QED
  BY <1>3, <1>4

\* The insert of a relation, when nobody else was looking for a cycle.
LEMMA InsertStep ==
    ASSUME TypeOK, CycleInv, NEW r \in Requests, InsertRelation(r), Observe(r), ~raced'
    PROVE  CycleInv'
<1> DEFINE e == [id |-> r, from |-> req[r].from, to |-> req[r].to]
<1>1. /\ rels' = rels \cup {e} /\ req[r].op = "createRelation" /\ req' = req
      /\ pc[r] = "insert" /\ pc' = [pc EXCEPT ![r] = "audit"]
      /\ ~raced /\ rels \subseteq Relations /\ UNCHANGED <<seen, todo>>
  BY DEF InsertRelation, At, Goto, Observe, TypeOK, locals
<1>2. e \in Relations
  <2>1. req[r] \in Request
    BY <1>1 DEF TypeOK
  <2>2. QED
    BY <1>1, <2>1, RequestFields DEF Relations, Writers
<1>3. Apart(e.from, e.to)
  BY <1>1 DEF CycleInv, SearchInv
<1>4. \A x \in rels' : Apart(x.from, x.to)'
  BY <1>1, <1>2, <1>3, InsertKeepsApart DEF CycleInv
<1>5. CASE e \in rels
  <2>1. rels' = rels
    BY <1>1, <1>5
  <2>2. SearchInv'
    BY <1>1, <2>1, SearchStep DEF CycleInv, Step, LinkStep
  <2>3. QED
    BY <1>4, <2>2 DEF CycleInv
<1>6. CASE e \notin rels
  <2>1. \A q \in Requests \ {r} : ~LookingForCycle(q)
    BY <1>1, <1>6 DEF Observe
  <2>2. \A q \in Requests : req'[q].op = "createRelation" => pc'[q] \notin {"walk", "insert"}
    BY <1>1, <2>1 DEF LookingForCycle, TypeOK
  <2>3. QED
    BY <1>4, <2>2 DEF CycleInv, SearchInv
<1>7. QED
  BY <1>5, <1>6

\* A store whose relations form no cycle keeps it so, as long as no relation is
\* inserted while another request is between its search and its insert.
THEOREM NoCycleUnlessRaced == Spec /\ Acyclic => []AcyclicUnlessRaced
<1>1. Init /\ Acyclic => CycleInv
  <2> SUFFICES ASSUME Init, Acyclic PROVE CycleInv
    OBVIOUS
  <2>1. rels \subseteq Relations
    BY InitTypes DEF Init, TypeOK
  <2>2. SearchInv
    BY DEF Init, StoreInit, SearchInv
  <2>3. QED
    BY <2>1, <2>2, AcyclicIsApart DEF CycleInv
<1>2. TypeOK /\ CycleInv /\ [Next]_vars => CycleInv'
  <2> SUFFICES ASSUME TypeOK, CycleInv, [Next]_vars PROVE CycleInv'
    OBVIOUS
  <2>1. CASE UNCHANGED vars
    <3>1. UNCHANGED <<rels, req, pc, seen, todo, raced>>
      BY <2>1 DEF vars, storeVars, tables, locals, history
    <3>2. QED
      BY <3>1 DEF CycleInv, SearchInv, Searched, Successors, Apart, Closed
  <2>2. ASSUME NEW r \in Requests, Arrive(r), Observe(r) PROVE CycleInv'
    <3>1. /\ UNCHANGED <<rels, seen, todo>> /\ pc[r] = "idle"
          /\ \A q \in Requests \ {r} : pc'[q] = pc[q] /\ req'[q] = req[q]
      BY <2>2 DEF Arrive, Start, Goto, tables, locals, TypeOK
    <3>2. pc'[r] \in {"walk", "insert"} => req'[r].op # "createRelation"
      BY <2>2 DEF Arrive, Start, Goto, FirstStatement, TypeOK
    <3>3. raced' <=> raced
      BY <2>2, <3>1 DEF Observe
    <3>4. \A u, v : Apart(u, v)' <=> Apart(u, v)
      BY <3>1 DEF Apart, Closed
    <3>5. SearchInv => SearchInv'
      BY <3>1, <3>2, <3>4 DEF SearchInv, Searched, Successors
    <3>6. QED
      BY <3>1, <3>3, <3>4, <3>5 DEF CycleInv
  <2>3. ASSUME NEW r \in Requests, Step(r) \/ Fail(r) \/ ChildError(r), Observe(r)
        PROVE  CycleInv'
    <3>1. CASE raced'
      BY <3>1 DEF CycleInv
    <3>2. CASE InsertRelation(r) /\ ~raced'
      BY <2>3, <3>2, InsertStep
    <3>3. CASE ~InsertRelation(r) /\ ~raced'
      <4>1. ~raced /\ rels' \subseteq rels
        BY <2>3, <3>3, LinkMoves DEF Observe, DropRelation, DropRelations
      <4>2. SearchInv'
        BY <2>3, <4>1, SearchStep DEF CycleInv
      <4>3. \A x \in rels' : Apart(x.from, x.to)'
        BY <4>1, ApartWithFewer DEF CycleInv
      <4>4. QED
        BY <4>2, <4>3 DEF CycleInv
    <3>4. QED
      BY <3>1, <3>2, <3>3
  <2>4. QED
    BY <2>1, <2>2, <2>3 DEF Next
<1>3. TypeOK /\ CycleInv => AcyclicUnlessRaced
  BY AcyclicIsApart DEF TypeOK, CycleInv, AcyclicUnlessRaced
<1>4. QED
  BY <1>1, <1>2, <1>3, TypeCorrect, PTL DEF Spec

(***************************************************************************)
(* What requests have stored and what the audit trail says they did: a     *)
(* request answered without an entry left nothing readable.                *)
(***************************************************************************)

\* The statements that write the assets' and collections' tables, or read what a
\* request will write.
LEMMA WriteMoves ==
    ASSUME NEW r \in Requests, Step(r) \/ Fail(r) \/ ChildError(r)
    PROVE  \/ UNCHANGED <<title, meta, tags, auth, colls, cname, ctx, child>>
           \/ InsertRow(r) \/ InsertTags(r) \/ InsertMetadata(r) \/ AdoptTx(r)
           \/ PutTitle(r) \/ ClearMetadata(r) \/ PutMetadata(r) \/ PutTag(r) \/ DropTag(r)
           \/ AuthGet(r) \/ PutAuth(r) \/ ChildGet(r) \/ ChildPut(r)
           \/ InsertCollection(r) \/ PutName(r) \/ DropCollection(r)
<1>1. ASSUME
           ReadBack(r) \/ AdoptExists(r) \/ AdoptDuplicate(r) \/ UpdateGet(r) \/
           UpdateVerify(r) \/ DeleteGet(r) \/ Snapshot(r) \/ SoftDelete(r) \/
           DropRelations(r) \/ DropMembers(r) \/ TagGet(r) \/ TagMissing(r) \/
           AuthReadBack(r) \/ WalkDescendants(r) \/ DescendantsFound(r) \/
           ChildGone(r) \/ ChildrenDone(r)
      PROVE  UNCHANGED <<title, meta, tags, auth, colls, cname, ctx, child>>
  BY <1>1, Zenon DEF Read, ReadLive, tables, assetTables, collectionTables, locals,
      ReadBack, AdoptExists, AdoptDuplicate, UpdateGet, UpdateVerify, DeleteGet, Snapshot,
      SoftDelete, DropRelations, DropMembers, TagGet, TagMissing, AuthReadBack,
      WalkDescendants, DescendantsFound, ChildGone, ChildrenDone
<1>2. ASSUME
           FromExists(r) \/ ToExists(r) \/ WalkForCycle(r) \/ CycleFound(r) \/
           NoCycle(r) \/ InsertRelation(r) \/ RelationGet(r) \/ DropRelation(r) \/
           CollectionGet(r) \/ CollectionVerify(r) \/ CollectionReadBack(r) \/
           MemberGet(r) \/ MemberCollection(r) \/ PutMember(r) \/ DropMember(r)
      PROVE  UNCHANGED <<title, meta, tags, auth, colls, cname, ctx, child>>
  BY <1>2, Zenon DEF Read, ReadLive, tables, assetTables, collectionTables, locals,
      FromExists, ToExists, WalkForCycle, CycleFound, NoCycle, InsertRelation,
      RelationGet, DropRelation, CollectionGet, CollectionVerify, CollectionReadBack,
      MemberGet, MemberCollection, PutMember, DropMember
<1>3. CASE WriteAudit(r) \/ Fail(r) \/ ChildError(r)
  BY <1>3, Zenon DEF WriteAudit, Fail, ChildError, tables, locals
<1>4. QED
  BY <1>1, <1>2, <1>3, Zenon DEF Step, AssetStep, LinkStep

\* Who writes which table.
LEMMA TableMoves ==
    ASSUME NEW r \in Requests, Step(r) \/ Fail(r) \/ ChildError(r)
    PROVE  /\ title' = title \/ InsertRow(r) \/ AdoptTx(r) \/ PutTitle(r)
           /\ \/ meta' = meta \/ InsertMetadata(r) \/ AdoptTx(r) \/ ClearMetadata(r)
              \/ PutMetadata(r)
           /\ tags' = tags \/ InsertTags(r) \/ AdoptTx(r) \/ PutTag(r) \/ DropTag(r)
           /\ auth' = auth \/ InsertRow(r) \/ AdoptTx(r) \/ PutAuth(r) \/ ChildPut(r)
           /\ colls' = colls \/ InsertCollection(r) \/ DropCollection(r)
           /\ cname' = cname \/ InsertCollection(r) \/ PutName(r)
<1>1. CASE UNCHANGED <<title, meta, tags, auth, colls, cname, ctx, child>>
  BY <1>1
<1>2. CASE InsertRow(r) \/ InsertTags(r) \/ InsertMetadata(r) \/ AdoptTx(r) \/ PutTitle(r)
           \/ ClearMetadata(r) \/ PutMetadata(r) \/ PutTag(r) \/ DropTag(r)
  BY <1>2, Zenon DEF InsertRow, InsertTags, InsertMetadata, AdoptTx, Adopted, PutTitle,
      ClearMetadata, PutMetadata, PutTag, DropTag, collectionTables
<1>3. CASE AuthGet(r) \/ PutAuth(r) \/ ChildGet(r) \/ ChildPut(r)
  BY <1>3, Zenon DEF AuthGet, PutAuth, ChildGet, ChildPut, collectionTables, tables
<1>4. CASE InsertCollection(r) \/ PutName(r) \/ DropCollection(r)
  BY <1>4, Zenon DEF InsertCollection, PutName, DropCollection, assetTables
<1>5. QED
  BY <1>1, <1>2, <1>3, <1>4, WriteMoves

\* The statements of a setAuth.
LEMMA AuthSteps ==
    ASSUME NEW r \in Requests, Step(r), req[r].op = "setAuth"
    PROVE  \/ AuthGet(r) \/ PutAuth(r) \/ AuthReadBack(r) \/ WalkDescendants(r)
           \/ DescendantsFound(r) \/ ChildGet(r) \/ ChildGone(r) \/ ChildPut(r)
           \/ ChildrenDone(r) \/ WriteAudit(r)
BY DEF Step, AssetStep, LinkStep, At,
    InsertRow, InsertTags, InsertMetadata, ReadBack, AdoptExists, AdoptTx, AdoptDuplicate,
    UpdateGet, UpdateVerify, PutTitle, ClearMetadata, PutMetadata, DeleteGet, Snapshot,
    SoftDelete, DropRelations, DropMembers, TagGet, PutTag, DropTag, TagMissing,
    FromExists, ToExists, WalkForCycle, CycleFound, NoCycle, InsertRelation, RelationGet,
    DropRelation, InsertCollection, CollectionGet, CollectionVerify, PutName,
    CollectionReadBack, DropCollection, MemberGet, MemberCollection, PutMember, DropMember

-----------------------------------------------------------------------------
\* The assets whose authorization context another request has read with a field
\* of r's in it and is about to write back.
Target(q) == IF pc[q] = "child_put" THEN child[q] ELSE req[q].asset
Writing(q) == pc[q] \in {"put_auth", "child_put"} /\ req[q].op = "setAuth"
Held(r) == {a \in Assets : \E q \in Requests \ {r} :
               Writing(q) /\ Target(q) = a /\ \E f \in Fields : ctx[q][f] = r}
Reach(r) == Writes(r) \cup Held(r)

\* What another request reads of r's it can only write back where it was.
LEMMA HeldStep ==
    ASSUME TypeOK, NEW r \in Requests, Step(r) \/ Fail(r) \/ ChildError(r),
           NEW p \in Requests
    PROVE  Held(p)' \subseteq Reach(p)
<1>1. SUFFICES ASSUME NEW a \in Assets, NEW q \in Requests \ {p}, NEW f \in Fields,
                      Writing(q)', Target(q)' = a, ctx'[q][f] = p
               PROVE  a \in Reach(p)
  BY DEF Held
<1>2. req' = req /\ \A x \in Requests \ {r} : pc'[x] = pc[x]
  BY StepFrame DEF TypeOK
<1>3. \A x \in Requests \ {r} : ctx'[x] = ctx[x] /\ child'[x] = child[x]
  BY WriteMoves DEF InsertRow, InsertTags, InsertMetadata, AdoptTx, Adopted, PutTitle,
      ClearMetadata, PutMetadata, PutTag, DropTag, AuthGet, PutAuth, ChildGet, ChildPut,
      InsertCollection, PutName, DropCollection, locals, TypeOK
<1>4. CASE q # r
  BY <1>1, <1>2, <1>3, <1>4 DEF Writing, Target, Reach, Held
<1>5. CASE q = r
  <2>1. req[r].op = "setAuth" /\ pc'[r] \in {"put_auth", "child_put"}
    BY <1>1, <1>2, <1>5 DEF Writing
  <2>2. CASE AuthGet(r)
    <3>1. /\ Live(req[r].asset) /\ pc'[r] = "put_auth"
          /\ ctx'[r] = Merged(req[r].asset, r)
      BY <2>1, <2>2 DEF AuthGet, Goto, TypeOK
    <3>2. a = req[r].asset
      BY <1>1, <1>2, <1>5, <3>1 DEF Target
    <3>3. auth[a][f] = p
      BY <1>1, <1>5, <3>1, <3>2 DEF Merged
    <3>4. QED
      BY <3>3 DEF Reach, Writes
  <2>3. CASE ChildGet(r)
    <3>1. PICK c \in todo[r] : /\ ctx' = [ctx EXCEPT ![r] = Merged(c, r)]
                               /\ child' = [child EXCEPT ![r] = c]
      BY <2>3 DEF ChildGet
    <3>2. pc'[r] = "child_put" /\ ctx'[r] = Merged(c, r) /\ child'[r] = c
      BY <2>3, <3>1 DEF ChildGet, Goto, TypeOK
    <3>3. a = c
      BY <1>1, <1>5, <3>2 DEF Target
    <3>4. auth[a][f] = p
      BY <1>1, <1>5, <3>2, <3>3 DEF Merged
    <3>5. QED
      BY <3>4 DEF Reach, Writes
  <2>4. CASE Step(r) /\ ~AuthGet(r) /\ ~ChildGet(r)
    <3>1. CASE PutAuth(r) \/ AuthReadBack(r) \/ WalkDescendants(r) \/ DescendantsFound(r)
      BY <2>1, <3>1 DEF PutAuth, AuthReadBack, WalkDescendants, DescendantsFound, Read, Goto,
          At, TypeOK
    <3>2. CASE ChildGone(r) \/ ChildPut(r) \/ ChildrenDone(r) \/ WriteAudit(r)
      BY <2>1, <3>2 DEF ChildGone, ChildPut, ChildrenDone, WriteAudit, Read, Goto, At, TypeOK
    <3>3. QED
      BY <2>1, <2>4, <3>1, <3>2, AuthSteps
  <2>5. CASE Fail(r) \/ ChildError(r)
    BY <2>1, <2>5 DEF Fail, ChildError, Goto, TypeOK
  <2>6. QED
    BY <2>2, <2>3, <2>4, <2>5
<1>6. QED
  BY <1>4, <1>5

\* A step of another request adds nothing to what r may have stored.
LEMMA OthersWrites ==
    ASSUME TypeOK, NEW r \in Requests, Step(r) \/ Fail(r) \/ ChildError(r),
           NEW p \in Requests, p # r
    PROVE  Reach(p)' \subseteq Reach(p)
<1>1. SUFFICES ASSUME NEW a \in Assets, a \in Writes(p)' PROVE a \in Reach(p)
  BY HeldStep DEF Reach, Writes
<1>2. CASE a \in Writes(p)
  BY <1>2 DEF Reach
<1>3. CASE a \notin Writes(p)
  <2>1. title'[a] = p => title[a] = p
    <3>1. title \in [Assets -> Writers]
      BY DEF TypeOK
    <3>2. CASE InsertRow(r) \/ AdoptTx(r)
      <4>1. \E b : title' = [title EXCEPT ![b] = r]
        BY <3>2 DEF InsertRow, AdoptTx, Adopted
      <4>2. QED
        BY <3>1, <4>1
    <3>3. CASE PutTitle(r)
      <4>1. \E b : title' = [title EXCEPT ![b] = r] \/ title' = [title EXCEPT ![b] = title[b]]
        BY <3>3 DEF PutTitle
      <4>2. QED
        BY <3>1, <4>1
    <3>4. QED
      BY <3>2, <3>3, TableMoves
  <2>2. p \in meta'[a] => p \in meta[a]
    <3>1. meta \in [Assets -> SUBSET Writers]
      BY DEF TypeOK
    <3>2. \/ meta' = meta \/ \E x : meta' = [meta EXCEPT ![x] = {}]
          \/ \E x : meta' = [meta EXCEPT ![x] = @ \cup {r}]
      BY TableMoves, Zenon
      DEF InsertMetadata, AdoptTx, Adopted, ClearMetadata, PutMetadata
    <3>3. QED
      BY <3>1, <3>2
  <2>3. <<a, p>> \in tags' => <<a, p>> \in tags
    <3>1. \/ tags' \subseteq tags
          \/ \E x : tags' = tags \cup {<<x, r>>}
      BY TableMoves DEF InsertTags, AdoptTx, Adopted, PutTag, DropTag
    <3>2. QED
      BY <3>1
  <2>4. PICK f \in Fields : auth'[a][f] = p /\ auth[a][f] # p
    BY <1>1, <1>3, <2>1, <2>2, <2>3 DEF Writes
  <2>5. PutAuth(r) \/ ChildPut(r)
    <3>1. auth \in [Assets -> [Fields -> Writers]]
      BY DEF TypeOK
    <3>2. ASSUME NEW x, auth' = [auth EXCEPT ![x] = [g \in Fields |-> r]] PROVE FALSE
      BY <2>4, <3>1, <3>2
    <3>3. ~InsertRow(r) /\ ~AdoptTx(r)
      BY <3>2 DEF InsertRow, AdoptTx, Adopted
    <3>4. QED
      BY <2>4, <3>3, TableMoves
  <2>6. ctx[r][f] = p /\ Target(r) = a /\ Writing(r)
    BY <2>4, <2>5 DEF PutAuth, ChildPut, At, Writing, Target, TypeOK
  <2>7. QED
    BY <2>6 DEF Reach, Held
<1>4. QED
  BY <1>2, <1>3

-----------------------------------------------------------------------------
\* The id a createCollection is about to insert is nobody else's.
FreshCollections ==
    \A r \in Requests : At(r, "createCollection", "insert") =>
        colls[req[r].coll] = "absent" /\ NamedCollection(req[r].coll) = {r}

LEMMA FreshCollectionsStep ==
    ASSUME TypeOK, FreshCollections, NEW r \in Requests,
           Arrive(r) \/ Step(r) \/ Fail(r) \/ ChildError(r)
    PROVE  FreshCollections'
<1>1. CASE Arrive(r)
  <2>1. PICK q \in Arguments : Start(r, q)
    BY <1>1 DEF Arrive
  <2>2. /\ pc[r] = "idle" /\ colls' = colls /\ req' = [req EXCEPT ![r] = q]
        /\ pc' = [pc EXCEPT ![r] = FirstStatement(q.op)]
    BY <2>1 DEF Start, Goto, tables
  <2>3. SUFFICES ASSUME NEW p \in Requests, At(p, "createCollection", "insert")'
                 PROVE  (colls[req[p].coll] = "absent" /\ NamedCollection(req[p].coll) = {p})'
    BY DEF FreshCollections
  <2>4. \A x \in Requests : req'[x] = IF x = r THEN q ELSE req[x]
    BY <2>2 DEF TypeOK
  <2>5. CASE p = r
    <3>1. q.op = "createCollection" /\ req'[r] = q
      BY <2>2, <2>3, <2>5 DEF At, TypeOK
    <3>2. colls[q.coll] = "absent" /\ NamedCollection(q.coll) = {}
      BY <3>1 DEF Arguments
    <3>3. QED
      BY <2>2, <2>4, <2>5, <3>1, <3>2 DEF NamedCollection, OnCollection
  <2>6. CASE p # r
    <3>1. req'[p] = req[p] /\ At(p, "createCollection", "insert") /\ req'[r] = q
      BY <2>2, <2>3, <2>6 DEF At, TypeOK
    <3>2. colls[req[p].coll] = "absent" /\ NamedCollection(req[p].coll) = {p}
      BY <3>1 DEF FreshCollections
    <3>3. ~(q.op \in OnCollection /\ q.coll = req[p].coll)
      BY <3>2 DEF Arguments, OnCollection
    <3>4. QED
      BY <2>2, <2>4, <3>1, <3>2, <3>3 DEF NamedCollection
  <2>7. QED
    BY <2>5, <2>6
<1>2. CASE Step(r) \/ Fail(r) \/ ChildError(r)
  <2>1. SUFFICES ASSUME NEW p \in Requests, At(p, "createCollection", "insert")'
                 PROVE  colls'[req[p].coll] = "absent" /\ NamedCollection(req[p].coll) = {p}
    BY <1>2, StepFrame DEF FreshCollections, NamedCollection
  <2>2. req' = req /\ p # r /\ At(p, "createCollection", "insert")
    <3>1. pc'[r] = "insert" => req[r].op # "createCollection"
      <4>1. ASSUME Step(r), pc'[r] = "insert" PROVE req[r].op # "createCollection"
        <5>1. SUFFICES ASSUME req[r].op = "createCollection" PROVE FALSE
          OBVIOUS
        <5>2. InsertCollection(r) \/ WriteAudit(r)
          BY <4>1, <5>1 DEF Step, AssetStep, LinkStep, At, InsertRow, InsertTags,
             InsertMetadata, ReadBack, AdoptExists, AdoptTx, AdoptDuplicate, UpdateGet,
             UpdateVerify, PutTitle, ClearMetadata, PutMetadata, DeleteGet, Snapshot,
             SoftDelete, DropRelations, DropMembers, TagGet, PutTag, DropTag, TagMissing,
             AuthGet, PutAuth, AuthReadBack, WalkDescendants, DescendantsFound, ChildGet,
             ChildGone, ChildPut, ChildrenDone, FromExists, ToExists, WalkForCycle,
             CycleFound, NoCycle, InsertRelation, RelationGet, DropRelation,
             CollectionGet, CollectionVerify, PutName, CollectionReadBack,
             DropCollection, MemberGet, MemberCollection, PutMember, DropMember
        <5>3. QED
          BY <4>1, <5>2 DEF InsertCollection, WriteAudit, Goto, TypeOK
      <4>2. ASSUME Fail(r) \/ ChildError(r) PROVE pc'[r] # "insert"
        BY <4>2 DEF Fail, ChildError, Goto, TypeOK
      <4>3. QED
        BY <1>2, <4>1, <4>2
    <3>2. QED
      BY <1>2, <2>1, <3>1, StepFrame DEF At, TypeOK
  <2>3. colls[req[p].coll] = "absent" /\ NamedCollection(req[p].coll) = {p}
    BY <2>2 DEF FreshCollections
  <2>4. ~(req[r].op \in OnCollection /\ req[r].coll = req[p].coll)
    BY <2>2, <2>3 DEF NamedCollection
  <2>5. colls'[req[p].coll] = "absent"
    <3>1. colls \in [Collections -> {"absent", "present", "gone"}]
      BY DEF TypeOK
    <3>2. \/ colls' = colls
          \/ /\ req[r].coll # req[p].coll
             /\ \E v : colls' = [colls EXCEPT ![req[r].coll] = v]
      <4>1. colls' = colls \/ InsertCollection(r) \/ DropCollection(r)
        BY <1>2, TableMoves
      <4>2. InsertCollection(r) \/ DropCollection(r) => req[r].op \in OnCollection
        BY DEF InsertCollection, DropCollection, At, OnCollection
      <4>3. InsertCollection(r) \/ DropCollection(r) =>
              \E v : colls' = [colls EXCEPT ![req[r].coll] = v]
        BY Zenon DEF InsertCollection, DropCollection
      <4>4. QED
        BY <2>4, <4>1, <4>2, <4>3
    <3>3. req[p].coll \in Collections
      <4>1. req[p] \in Request
        BY <2>2 DEF At, TypeOK
      <4>2. QED
        BY <2>2, <4>1, RequestFields DEF At, OnCollection
    <3>4. QED
      BY <2>3, <3>1, <3>2, <3>3
  <2>6. QED
    BY <2>3, <2>5
<1>3. QED
  BY <1>1, <1>2

\* What has been there stays recognisable: rows and collections never become
\* absent again, and a dropped collection is not created a second time.
LEMMA OnceThere ==
    ASSUME TypeOK, FreshIds, FreshCollections, NEW r \in Requests,
           Step(r) \/ Fail(r) \/ ChildError(r)
    PROVE  /\ \A a \in Assets : row[a] # "absent" => row'[a] # "absent"
           /\ \A a \in Assets : row[a] = "deleted" => row'[a] = "deleted"
           /\ \A c \in Collections : colls[c] # "absent" => colls'[c] # "absent"
           /\ \A c \in Collections : colls[c] = "gone" => colls'[c] = "gone"
<1>1. \A a \in Assets : RowMove(r, a)
  BY RowMoves
<1>2. \/ colls' = colls \/ \E c : colls' = [colls EXCEPT ![c] = "gone"]
      \/ \E c : colls[c] = "absent" /\ colls' = [colls EXCEPT ![c] = "present"]
  BY TableMoves DEF InsertCollection, DropCollection, FreshCollections
<1>3. QED
  BY <1>1, <1>2 DEF RowMove, TypeOK

\* Behind its first read a request works on something that has been there.
Located(r) ==
    /\ req[r].op \in {"createAsset", "updateAsset", "setAuth"}
       /\ pc[r] \in {"insert_tags", "insert_metadata", "reget", "verify", "put_title",
                     "clear_metadata", "put_metadata", "put_auth", "reget_auth"}
       => row[req[r].asset] # "absent"
    /\ req[r].op = "updateCollection" /\ pc[r] \in {"verify", "put_name", "reget"} =>
           colls[req[r].coll] # "absent"

\* The statements of the other requests that write and then read back.
LEMMA WriterSteps ==
    ASSUME NEW r \in Requests, Step(r)
    PROVE  /\ req[r].op \in {"createAsset", "updateAsset"} =>
                \/ InsertRow(r) \/ InsertTags(r) \/ InsertMetadata(r) \/ ReadBack(r)
                \/ UpdateGet(r) \/ UpdateVerify(r) \/ PutTitle(r) \/ ClearMetadata(r)
                \/ PutMetadata(r) \/ WriteAudit(r)
           /\ req[r].op = "updateCollection" =>
                \/ CollectionGet(r) \/ CollectionVerify(r) \/ PutName(r)
                \/ CollectionReadBack(r) \/ WriteAudit(r)
BY DEF Step, AssetStep, LinkStep, At,
    InsertRow, InsertTags, InsertMetadata, ReadBack, AdoptExists, AdoptTx, AdoptDuplicate,
    UpdateGet, UpdateVerify, PutTitle, ClearMetadata, PutMetadata, DeleteGet, Snapshot,
    SoftDelete, DropRelations, DropMembers, TagGet, PutTag, DropTag, TagMissing, AuthGet,
    PutAuth, AuthReadBack, WalkDescendants, DescendantsFound, ChildGet, ChildGone,
    ChildPut, ChildrenDone, FromExists, ToExists, WalkForCycle, CycleFound, NoCycle,
    InsertRelation, RelationGet, DropRelation, InsertCollection, CollectionGet,
    CollectionVerify, PutName, CollectionReadBack, DropCollection, MemberGet,
    MemberCollection, PutMember, DropMember

LEMMA LocatedStep ==
    ASSUME TypeOK, FreshIds, FreshCollections, NEW r \in Requests,
           Step(r) \/ Fail(r) \/ ChildError(r), NEW q \in Requests, Located(q)
    PROVE  Located(q)'
<1>1. req' = req /\ \A x \in Requests \ {r} : pc'[x] = pc[x]
  BY StepFrame DEF TypeOK
<1>2. req[q] \in Request \cup {NoRequest}
  BY DEF TypeOK
<1>3. /\ req[q].op \in {"createAsset", "updateAsset", "setAuth"} => req[q].asset \in Assets
      /\ req[q].op = "updateCollection" => req[q].coll \in Collections
  BY <1>2, RequestFields DEF OnAsset, OnCollection, NoRequest
<1>4. CASE q # r
  BY <1>1, <1>3, <1>4, OnceThere DEF Located
<1>5. CASE q = r
  <2>1. CASE req[r].op \in {"createAsset", "updateAsset"} /\ Step(r)
    <3>1. row'[req[r].asset] # "absent" \/ pc'[r] = "notfound" \/ pc'[r] = "ok"
      <4>1. CASE InsertRow(r)
        BY <1>3, <1>5, <2>1, <4>1 DEF InsertRow, TypeOK
      <4>2. CASE row[req[r].asset] # "absent"
        BY <1>3, <1>5, <2>1, <4>2, OnceThere
      <4>3. CASE UpdateGet(r) /\ row[req[r].asset] = "absent"
        BY <4>3 DEF UpdateGet, ReadLive, Read, Live, Goto, TypeOK
      <4>4. CASE WriteAudit(r)
        BY <4>4 DEF WriteAudit, Goto, TypeOK
      <4>5. QED
        BY <1>5, <2>1, <4>1, <4>2, <4>3, <4>4, WriterSteps
        DEF Located, At, InsertTags, InsertMetadata, ReadBack, UpdateVerify, PutTitle,
            ClearMetadata, PutMetadata
    <3>2. QED
      BY <1>1, <1>5, <2>1, <3>1 DEF Located
  <2>2. CASE req[r].op = "setAuth" /\ Step(r)
    <3>1. CASE AuthGet(r) \/ PutAuth(r)
      BY <1>1, <1>3, <1>5, <2>2, <3>1, OnceThere
      DEF Located, AuthGet, PutAuth, Live, Goto, TypeOK
    <3>2. CASE ~AuthGet(r) /\ ~PutAuth(r)
      <4>1. pc'[r] \in {"notfound", "walk", "child_get", "child_put", "audit", "ok"}
        BY <2>2, <3>2, AuthSteps DEF AuthReadBack, WalkDescendants, DescendantsFound,
           ChildGet, ChildGone, ChildPut, ChildrenDone, WriteAudit, Read, Goto, At, TypeOK
      <4>2. QED
        BY <1>1, <1>5, <2>2, <4>1 DEF Located
    <3>3. QED
      BY <3>1, <3>2
  <2>3. CASE req[r].op = "updateCollection" /\ Step(r)
    <3>1. CASE CollectionGet(r)
      BY <1>1, <1>3, <1>5, <2>3, <3>1, OnceThere
      DEF Located, CollectionGet, Present, Read, Goto, TypeOK
    <3>2. CASE ~CollectionGet(r)
      <4>1. pc[r] \in {"verify", "put_name", "reget"} \/ pc'[r] = "ok"
        BY <2>3, <3>2, WriterSteps
        DEF CollectionVerify, PutName, CollectionReadBack, WriteAudit, At, Goto, TypeOK
      <4>2. QED
        BY <1>1, <1>3, <1>5, <2>3, <4>1, OnceThere DEF Located
    <3>3. QED
      BY <3>1, <3>2
  <2>4. CASE Fail(r) \/ ChildError(r)
    BY <1>1, <1>5, <2>4 DEF Located, Fail, ChildError, Goto, TypeOK
  <2>5. CASE req[r].op \notin {"createAsset", "updateAsset", "setAuth", "updateCollection"}
    BY <1>1, <1>5, <2>5 DEF Located
  <2>6. QED
    BY <2>1, <2>2, <2>3, <2>4, <2>5
<1>6. QED
  BY <1>4, <1>5

-----------------------------------------------------------------------------
\* What a request may have stored so far: nothing; only at the asset it names;
\* only the name of its collection.
Unmarked(r) == (\A c \in Collections : cname[c] # r) /\ (\A x \in rels : x.id # r)
Silent(r) == Reach(r) = {} /\ Unmarked(r)
OnlyAsset(r) == Reach(r) \subseteq {req[r].asset} /\ Unmarked(r)
OnlyName(r) == /\ Reach(r) = {} /\ \A x \in rels : x.id # r
               /\ \A c \in Collections : cname[c] = r => c = req[r].coll

Logged(r) == \E e \in audit : e.by = r

\* It has written and its entry is still to come.
Underway(r) ==
    \/ pc[r] = "audit"
    \/ /\ req[r].op \in {"createAsset", "updateAsset"} /\ OnlyAsset(r)
       /\ pc[r] \in {"insert_tags", "insert_metadata", "clear_metadata", "put_metadata",
                     "reget"}
    \/ req[r].op = "setAuth" /\ pc[r] = "reget_auth" /\ OnlyAsset(r)
    \/ req[r].op = "setAuth" /\ pc[r] \in {"walk", "child_get", "child_put"}
    \/ req[r].op = "updateCollection" /\ pc[r] = "reget" /\ OnlyName(r)

\* It was answered 404 after it had written: what it wrote to is gone.
Overtaken(r) ==
    /\ pc[r] = "notfound"
    /\ \/ /\ req[r].op \in {"createAsset", "updateAsset", "setAuth"} /\ OnlyAsset(r)
          /\ row[req[r].asset] = "deleted"
       \/ /\ req[r].op = "updateCollection" /\ OnlyName(r)
          /\ colls[req[r].coll] = "gone"

Accounted(r) ==
    Silent(r) \/ Logged(r) \/ pc[r] = "failed" \/ Underway(r) \/ Overtaken(r)

WriteInv ==
    /\ TypeOK /\ FreshIds /\ FreshCollections
    /\ \A r \in Requests : Located(r) /\ Accounted(r)

\* Only its own statements put a request's mark on a name or a relation.
LEMMA Marks ==
    ASSUME TypeOK, NEW r \in Requests, Step(r) \/ Fail(r) \/ ChildError(r),
           NEW p \in Requests
    PROVE  /\ p # r \/ ~InsertRelation(r) =>
                \A x \in rels' : x.id = p => x \in rels
           /\ p # r \/ (~InsertCollection(r) /\ ~PutName(r)) =>
                \A c \in Collections : cname'[c] = p => cname[c] = p
<1>1. p # r \/ ~InsertRelation(r) => \A x \in rels' : x.id = p => x \in rels
  BY LinkMoves DEF InsertRelation, DropRelation, DropRelations
<1>2. \/ cname' = cname
      \/ /\ InsertCollection(r) \/ PutName(r)
         /\ \E c : cname' = cname \/ cname' = [cname EXCEPT ![c] = r]
  BY TableMoves DEF InsertCollection, PutName, Present, TypeOK
<1>3. cname \in [Collections -> Writers]
  BY DEF TypeOK
<1>4. QED
  BY <1>1, <1>2, <1>3

LEMMA OthersAccount ==
    ASSUME WriteInv, NEW r \in Requests, Step(r) \/ Fail(r) \/ ChildError(r),
           NEW p \in Requests, p # r
    PROVE  Accounted(p)'
<1>1. /\ req' = req /\ pc'[p] = pc[p]
  BY StepFrame DEF WriteInv, TypeOK
<1>2. Reach(p)' \subseteq Reach(p)
  BY OthersWrites DEF WriteInv
<1>3. /\ \A x \in rels' : x.id = p => x \in rels
      /\ \A c \in Collections : cname'[c] = p => cname[c] = p
  BY Marks DEF WriteInv
<1>4. Silent(p) => Silent(p)'
  BY <1>2, <1>3 DEF Silent, Unmarked
<1>5. OnlyAsset(p) => OnlyAsset(p)'
  BY <1>1, <1>2, <1>3 DEF OnlyAsset, Unmarked
<1>6. OnlyName(p) => OnlyName(p)'
  BY <1>1, <1>2, <1>3 DEF OnlyName
<1>7. Logged(p) => Logged(p)'
  BY RemovalFrame DEF WriteInv, Logged
<1>8. Underway(p) => Underway(p)'
  BY <1>1, <1>5, <1>6 DEF Underway
<1>9. Overtaken(p) => Overtaken(p)'
  <2>1. req[p] \in Request \cup {NoRequest}
    BY DEF WriteInv, TypeOK
  <2>2. /\ req[p].op \in {"createAsset", "updateAsset", "setAuth"} => req[p].asset \in Assets
        /\ req[p].op = "updateCollection" => req[p].coll \in Collections
    BY <2>1, RequestFields DEF OnAsset, OnCollection, NoRequest
  <2>3. QED
    BY <1>1, <1>5, <1>6, <2>2, OnceThere DEF WriteInv, Overtaken
<1>10. QED
  BY <1>1, <1>4, <1>7, <1>8, <1>9 DEF WriteInv, Accounted

\* What the request's own statement can add to what it may have stored.
LEMMA OwnWrites ==
    ASSUME TypeOK, NEW r \in Requests, Step(r) \/ Fail(r) \/ ChildError(r), ~ChildPut(r)
    PROVE  /\ UNCHANGED <<title, meta, tags, auth>> \/ DropTag(r) => Reach(r)' \subseteq Reach(r)
           /\ Reach(r)' \subseteq Reach(r) \cup {req[r].asset}
<1>1. Held(r)' \subseteq Reach(r)
  BY HeldStep
<1>2. UNCHANGED <<title, meta, tags, auth>> => Writes(r)' \subseteq Writes(r)
  BY DEF Writes
<1>3. DropTag(r) => Writes(r)' \subseteq Writes(r)
  BY DEF DropTag, Writes
<1>4. ASSUME NEW a \in Assets, a # req[r].asset, a \in Writes(r)' PROVE a \in Writes(r)
  <2>1. title'[a] = title[a]
    BY <1>4, TableMoves DEF InsertRow, AdoptTx, Adopted, PutTitle, TypeOK
  <2>2. meta'[a] \subseteq meta[a]
    <3>1. meta \in [Assets -> SUBSET Writers]
      BY DEF TypeOK
    <3>2. meta' = meta \/ \E v : meta' = [meta EXCEPT ![req[r].asset] = v]
      BY TableMoves, Zenon
      DEF InsertMetadata, AdoptTx, Adopted, ClearMetadata, PutMetadata
    <3>3. QED
      BY <1>4, <3>1, <3>2
  <2>3. <<a, r>> \in tags' => <<a, r>> \in tags
    <3>1. tags' \subseteq tags \/ tags' = tags \cup {<<req[r].asset, r>>}
      BY TableMoves DEF InsertTags, AdoptTx, Adopted, PutTag, DropTag
    <3>2. QED
      BY <1>4, <3>1
  <2>4. auth'[a] = auth[a]
    BY <1>4, TableMoves DEF InsertRow, AdoptTx, Adopted, PutAuth, TypeOK
  <2>5. QED
    BY <1>4, <2>1, <2>2, <2>3, <2>4 DEF Writes
<1>5. QED
  BY <1>1, <1>2, <1>3, <1>4 DEF Reach, Writes

\* The statements that store something are those of a create, an adopt, an update, a
\* tag, a setAuth or a collection; a request of another kind stays as it was.
LEMMA AssetWriterAccounts ==
    ASSUME WriteInv, NEW r \in Requests, Step(r),
           req[r].op \in {"createAsset", "updateAsset"}
    PROVE  Accounted(r)'
<1>1. Accounted(r) /\ Located(r) /\ TypeOK /\ req' = req
  BY StepFrame DEF WriteInv
<1>2. req[r].asset \in Assets
  <2>1. req[r] \in Request \cup {NoRequest}
    BY <1>1 DEF TypeOK
  <2>2. QED
    BY <2>1, RequestFields DEF OnAsset, NoRequest
<1>3. /\ ~InsertRelation(r) /\ ~InsertCollection(r) /\ ~PutName(r)
      /\ ~ChildPut(r)
  BY DEF InsertRelation, InsertCollection, PutName, ChildPut, At
<1>4. Unmarked(r) => Unmarked(r)'
  BY <1>1, <1>3, Marks DEF Unmarked
<1>5. Logged(r) => Logged(r)'
  BY <1>1, RemovalFrame DEF Logged
<1>6. Silent(r) \/ OnlyAsset(r) => OnlyAsset(r)'
  BY <1>1, <1>3, <1>4, OwnWrites DEF Silent, OnlyAsset
<1>7. CASE InsertRow(r) \/ InsertTags(r) \/ InsertMetadata(r) \/ PutTitle(r)
           \/ ClearMetadata(r) \/ PutMetadata(r)
  <2>1. pc'[r] \in {"insert_tags", "insert_metadata", "clear_metadata", "put_metadata", "reget"}
    BY <1>1, <1>7 DEF InsertRow, InsertTags, InsertMetadata, PutTitle, ClearMetadata,
       PutMetadata, AfterTitle, Goto, TypeOK
  <2>2. Silent(r) \/ OnlyAsset(r) \/ Logged(r)
    BY <1>1, <1>7 DEF Accounted, Underway, Overtaken, InsertRow, InsertTags,
       InsertMetadata, PutTitle, ClearMetadata, PutMetadata, At
  <2>3. QED
    BY <1>1, <1>5, <1>6, <2>1, <2>2 DEF Accounted, Underway
<1>8. CASE UpdateGet(r) \/ UpdateVerify(r)
  <2>1. Silent(r) \/ Logged(r)
    BY <1>1, <1>8 DEF Accounted, Underway, Overtaken, UpdateGet, UpdateVerify, At
  <2>2. UNCHANGED <<title, meta, tags, auth>>
    BY <1>8, Zenon DEF UpdateGet, UpdateVerify, ReadLive, Read, tables
  <2>3. Silent(r) => Silent(r)'
    BY <1>1, <1>3, <1>4, <2>2, OwnWrites DEF Silent
  <2>4. QED
    BY <1>5, <2>1, <2>3 DEF Accounted
<1>9. CASE ReadBack(r)
  <2>1. Silent(r) \/ OnlyAsset(r) \/ Logged(r)
    BY <1>1, <1>9 DEF Accounted, Underway, Overtaken, ReadBack
  <2>2. CASE Live(req[r].asset)
    BY <1>1, <1>9, <2>2 DEF ReadBack, ReadLive, Read, Goto, Accounted, Underway, TypeOK
  <2>3. CASE ~Live(req[r].asset)
    <3>1. pc'[r] = "notfound" /\ row' = row /\ pc[r] = "reget"
      BY <1>1, <1>9, <2>3 DEF ReadBack, ReadLive, Read, Goto, TypeOK, tables
    <3>2. row[req[r].asset] = "deleted"
      BY <1>1, <1>2, <2>3, <3>1 DEF Located, Live, TypeOK
    <3>3. QED
      BY <1>1, <1>5, <1>6, <2>1, <3>1, <3>2 DEF Accounted, Overtaken
  <2>4. QED
    BY <2>2, <2>3
<1>10. CASE WriteAudit(r)
  <2>1. [by |-> r, req |-> req[r], lost |-> snap[r]] \in audit'
    BY <1>10 DEF WriteAudit
  <2>2. QED
    BY <2>1 DEF Accounted, Logged
<1>11. QED
  BY <1>7, <1>8, <1>9, <1>10, WriterSteps

LEMMA AuthWriterAccounts ==
    ASSUME WriteInv, NEW r \in Requests, Step(r), req[r].op = "setAuth"
    PROVE  Accounted(r)'
<1>1. Accounted(r) /\ Located(r) /\ TypeOK /\ req' = req
  BY StepFrame DEF WriteInv
<1>2. req[r].asset \in Assets
  <2>1. req[r] \in Request \cup {NoRequest}
    BY <1>1 DEF TypeOK
  <2>2. QED
    BY <2>1, RequestFields DEF OnAsset, NoRequest
<1>3. ~InsertRelation(r) /\ ~InsertCollection(r) /\ ~PutName(r)
  BY DEF InsertRelation, InsertCollection, PutName, At
<1>4. Unmarked(r) => Unmarked(r)'
  BY <1>1, <1>3, Marks DEF Unmarked
<1>5. Logged(r) => Logged(r)'
  BY <1>1, RemovalFrame DEF Logged
<1>6. ~ChildPut(r) /\ (Silent(r) \/ OnlyAsset(r)) => OnlyAsset(r)'
  BY <1>1, <1>4, OwnWrites DEF Silent, OnlyAsset
<1>7. ~ChildPut(r) /\ UNCHANGED <<title, meta, tags, auth>> /\ Silent(r) => Silent(r)'
  BY <1>1, <1>4, OwnWrites DEF Silent
<1>8. CASE AuthGet(r)
  <2>1. Silent(r) \/ Logged(r)
    BY <1>1, <1>8 DEF Accounted, Underway, Overtaken, AuthGet, At
  <2>2. UNCHANGED <<title, meta, tags, auth>> /\ ~ChildPut(r)
    BY <1>8 DEF AuthGet, ChildPut, At, tables
  <2>3. QED
    BY <1>5, <1>7, <2>1, <2>2 DEF Accounted
<1>9. CASE PutAuth(r)
  <2>1. (Silent(r) \/ Logged(r)) /\ ~ChildPut(r)
    BY <1>1, <1>9 DEF Accounted, Underway, Overtaken, PutAuth, ChildPut, At
  <2>2. CASE Live(req[r].asset)
    <3>1. pc'[r] = "reget_auth"
      BY <1>1, <1>9, <2>2 DEF PutAuth, Goto, TypeOK
    <3>2. QED
      BY <1>1, <1>5, <1>6, <2>1, <3>1 DEF Accounted, Underway
  <2>3. CASE ~Live(req[r].asset)
    <3>1. auth' = auth
      BY <1>1, <1>9, <2>3 DEF PutAuth, TypeOK
    <3>2. UNCHANGED <<title, meta, tags, auth>>
      BY <1>9, <3>1 DEF PutAuth
    <3>3. QED
      BY <1>5, <1>7, <2>1, <3>2 DEF Accounted
  <2>4. QED
    BY <2>2, <2>3
<1>10. CASE AuthReadBack(r)
  <2>1. (Silent(r) \/ OnlyAsset(r) \/ Logged(r)) /\ ~ChildPut(r) /\ row' = row
    BY <1>1, <1>10 DEF Accounted, Underway, Overtaken, AuthReadBack, ChildPut, At, tables
  <2>2. CASE Live(req[r].asset)
    <3>1. pc'[r] \in {"walk", "audit"}
      BY <1>1, <1>10, <2>2 DEF AuthReadBack, Goto, TypeOK
    <3>2. QED
      BY <1>1, <3>1 DEF Accounted, Underway
  <2>3. CASE ~Live(req[r].asset)
    <3>1. pc'[r] = "notfound" /\ pc[r] = "reget_auth"
      BY <1>1, <1>10, <2>3 DEF AuthReadBack, At, Goto, TypeOK
    <3>2. row[req[r].asset] = "deleted"
      BY <1>1, <1>2, <2>3, <3>1 DEF Located, Live, TypeOK
    <3>3. QED
      BY <1>1, <1>5, <1>6, <2>1, <3>1, <3>2 DEF Accounted, Overtaken
  <2>4. QED
    BY <2>2, <2>3
<1>11. CASE WalkDescendants(r) \/ DescendantsFound(r) \/ ChildGet(r) \/ ChildGone(r)
            \/ ChildPut(r) \/ ChildrenDone(r)
  <2>1. pc'[r] \in {"walk", "child_get", "child_put", "audit"}
    BY <1>1, <1>11 DEF WalkDescendants, DescendantsFound, ChildGet, ChildGone, ChildPut,
       ChildrenDone, Read, Goto, At, TypeOK
  <2>2. QED
    BY <1>1, <2>1 DEF Accounted, Underway
<1>12. CASE WriteAudit(r)
  <2>1. [by |-> r, req |-> req[r], lost |-> snap[r]] \in audit'
    BY <1>12 DEF WriteAudit
  <2>2. QED
    BY <2>1 DEF Accounted, Logged
<1>13. QED
  BY <1>8, <1>9, <1>10, <1>11, <1>12, AuthSteps

LEMMA CollectionWriterAccounts ==
    ASSUME WriteInv, NEW r \in Requests, Step(r), req[r].op = "updateCollection"
    PROVE  Accounted(r)'
<1>1. Accounted(r) /\ Located(r) /\ TypeOK /\ req' = req
  BY StepFrame DEF WriteInv
<1>2. req[r].coll \in Collections
  <2>1. req[r] \in Request \cup {NoRequest}
    BY <1>1 DEF TypeOK
  <2>2. QED
    BY <2>1, RequestFields DEF OnCollection, NoRequest
<1>3. Logged(r) => Logged(r)'
  BY <1>1, RemovalFrame DEF Logged
<1>4. CASE WriteAudit(r)
  <2>1. [by |-> r, req |-> req[r], lost |-> snap[r]] \in audit'
    BY <1>4 DEF WriteAudit
  <2>2. QED
    BY <2>1 DEF Accounted, Logged
<1>5. ASSUME CollectionGet(r) \/ CollectionVerify(r) \/ PutName(r) \/ CollectionReadBack(r)
      PROVE  /\ Reach(r) = {} => Reach(r)' = {}
             /\ (\A x \in rels : x.id # r) => \A x \in rels' : x.id # r
             /\ UNCHANGED <<title, meta, tags, auth, rels, row, colls>>
  <2>1. UNCHANGED <<title, meta, tags, auth, rels, row, colls>> /\ ~ChildPut(r)
    BY <1>5 DEF CollectionGet, CollectionVerify, PutName, CollectionReadBack, ChildPut, At,
       Read, tables, assetTables
  <2>2. QED
    BY <1>1, <2>1, OwnWrites
<1>6. CASE CollectionGet(r) \/ CollectionVerify(r)
  <2>1. Silent(r) \/ Logged(r)
    BY <1>1, <1>6 DEF Accounted, Underway, Overtaken, CollectionGet, CollectionVerify, At
  <2>2. cname' = cname
    BY <1>6 DEF CollectionGet, CollectionVerify, Read, tables
  <2>3. Silent(r) => Silent(r)'
    BY <1>5, <1>6, <2>2 DEF Silent, Unmarked
  <2>4. QED
    BY <1>3, <2>1, <2>3 DEF Accounted
<1>7. CASE PutName(r)
  <2>1. Silent(r) \/ Logged(r)
    BY <1>1, <1>7 DEF Accounted, Underway, Overtaken, PutName, At
  <2>2. \A c \in Collections : c # req[r].coll => cname'[c] = cname[c]
    BY <1>1, <1>7 DEF PutName, TypeOK
  <2>3. Silent(r) => OnlyName(r)'
    BY <1>1, <1>5, <1>7, <2>2 DEF Silent, Unmarked, OnlyName
  <2>4. pc'[r] = "reget"
    BY <1>1, <1>7 DEF PutName, Goto, TypeOK
  <2>5. QED
    BY <1>1, <1>3, <2>1, <2>3, <2>4 DEF Accounted, Underway
<1>8. CASE CollectionReadBack(r)
  <2>1. Silent(r) \/ OnlyName(r) \/ Logged(r)
    BY <1>1, <1>8 DEF Accounted, Underway, Overtaken, CollectionReadBack, At
  <2>2. cname' = cname
    BY <1>8 DEF CollectionReadBack, Read, tables
  <2>3. Silent(r) \/ OnlyName(r) => OnlyName(r)'
    BY <1>1, <1>5, <1>8, <2>2 DEF Silent, Unmarked, OnlyName
  <2>4. CASE Present(req[r].coll)
    BY <1>1, <1>8, <2>4 DEF CollectionReadBack, Read, Goto, Accounted, Underway, TypeOK
  <2>5. CASE ~Present(req[r].coll)
    <3>1. pc'[r] = "notfound" /\ pc[r] = "reget"
      BY <1>1, <1>8, <2>5 DEF CollectionReadBack, At, Read, Goto, TypeOK
    <3>2. colls[req[r].coll] = "gone"
      BY <1>1, <1>2, <2>5, <3>1 DEF Located, Present, TypeOK
    <3>3. QED
      BY <1>1, <1>3, <1>5, <1>8, <2>1, <2>3, <3>1, <3>2 DEF Accounted, Overtaken
  <2>6. QED
    BY <2>4, <2>5
<1>9. QED
  BY <1>4, <1>6, <1>7, <1>8, WriterSteps

\* Every other kind of request writes in one statement, its audit entry next.
LEMMA OneStatementAccounts ==
    ASSUME WriteInv, NEW r \in Requests, Step(r),
           req[r].op \notin {"createAsset", "updateAsset", "setAuth", "updateCollection"}
    PROVE  Accounted(r)'
<1>1. Accounted(r) /\ TypeOK /\ req' = req
  BY StepFrame DEF WriteInv
<1>2. Logged(r) => Logged(r)'
  BY <1>1, RemovalFrame DEF Logged
<1>3. CASE pc'[r] = "audit"
  BY <1>3 DEF Accounted, Underway
<1>4. CASE WriteAudit(r)
  <2>1. [by |-> r, req |-> req[r], lost |-> snap[r]] \in audit'
    BY <1>4 DEF WriteAudit
  <2>2. QED
    BY <2>1 DEF Accounted, Logged
<1>5. CASE AdoptTx(r)
  <2>1. [by |-> r, req |-> req[r], lost |-> {}] \in audit'
    BY <1>5 DEF AdoptTx, Adopted
  <2>2. QED
    BY <2>1 DEF Accounted, Logged
<1>6. CASE pc'[r] # "audit" /\ ~WriteAudit(r) /\ ~AdoptTx(r)
  <2>1. pc[r] # "audit"
    BY <1>6, AuditSteps
  <2>2. pc[r] \in Working
    BY DEF Step, AssetStep, LinkStep, At, Working,
    InsertRow, InsertTags, InsertMetadata, ReadBack, AdoptExists, AdoptTx, AdoptDuplicate,
    UpdateGet, UpdateVerify, PutTitle, ClearMetadata, PutMetadata, DeleteGet, Snapshot,
    SoftDelete, DropRelations, DropMembers, TagGet, PutTag, DropTag, TagMissing, AuthGet,
    PutAuth, AuthReadBack, WalkDescendants, DescendantsFound, ChildGet, ChildGone,
    ChildPut, ChildrenDone, FromExists, ToExists, WalkForCycle, CycleFound, NoCycle,
    InsertRelation, RelationGet, DropRelation, InsertCollection, CollectionGet,
    CollectionVerify, PutName, CollectionReadBack, DropCollection, MemberGet,
    MemberCollection, PutMember, DropMember, WriteAudit
  <2>3. Silent(r) \/ Logged(r)
    BY <1>1, <2>1, <2>2 DEF Accounted, Underway, Overtaken, Working
  <2>4. ~InsertRelation(r) /\ ~InsertCollection(r) /\ ~PutTag(r)
    BY <1>1, <1>6 DEF InsertRelation, InsertCollection, PutTag, Goto, TypeOK
  <2>5. /\ ~PutName(r) /\ ~ChildPut(r) /\ ~InsertRow(r) /\ ~PutTitle(r)
        /\ ~InsertMetadata(r) /\ ~ClearMetadata(r) /\ ~PutMetadata(r) /\ ~InsertTags(r)
        /\ ~PutAuth(r)
    BY DEF PutName, ChildPut, InsertRow, PutTitle, InsertMetadata, ClearMetadata,
       PutMetadata, InsertTags, PutAuth, At
  <2>6. UNCHANGED <<title, meta, tags, auth>> \/ DropTag(r)
    <3>1. title' = title /\ meta' = meta /\ auth' = auth /\ (tags' = tags \/ DropTag(r))
      BY <1>6, <2>4, <2>5, TableMoves
    <3>2. QED
      BY <3>1
  <2>7. Silent(r) => Silent(r)'
    BY <1>1, <2>4, <2>5, <2>6, OwnWrites, Marks DEF Silent, Unmarked
  <2>8. QED
    BY <1>2, <2>3, <2>7 DEF Accounted
<1>7. QED
  BY <1>3, <1>4, <1>5, <1>6

LEMMA WriteStep == WriteInv /\ [Next]_vars => WriteInv'
<1> SUFFICES ASSUME WriteInv, [Next]_vars PROVE WriteInv'
  OBVIOUS
<1>1. TypeOK' /\ FreshIds'
  BY TypeStep, FreshStep DEF WriteInv
<1>2. CASE UNCHANGED vars
  <2>1. UNCHANGED <<row, title, meta, tags, auth, rels, colls, cname, audit, req, pc, ctx, child>>
    BY <1>2 DEF vars, storeVars, tables, locals
  <2>2. FreshCollections'
    BY <2>1 DEF WriteInv, FreshCollections, At, NamedCollection
  <2>3. ASSUME NEW r \in Requests PROVE Located(r)' /\ Accounted(r)'
    <3>1. Located(r) /\ Accounted(r)
      BY DEF WriteInv
    <3>2. Reach(r)' = Reach(r)
      BY <2>1 DEF Reach, Held, Writes, Writing, Target
    <3>3. QED
      BY <2>1, <3>1, <3>2 DEF Located, Accounted, Silent, Unmarked, Logged, Underway,
         Overtaken, OnlyAsset, OnlyName
  <2>4. QED
    BY <1>1, <2>2, <2>3 DEF WriteInv
<1>3. ASSUME NEW r \in Requests, Arrive(r) PROVE WriteInv'
  <2>1. /\ UNCHANGED <<row, title, meta, tags, auth, rels, colls, cname, audit, ctx, child>>
        /\ pc[r] = "idle"
        /\ \A q \in Requests \ {r} : pc'[q] = pc[q] /\ req'[q] = req[q]
    BY <1>3 DEF Arrive, Start, Goto, tables, locals, WriteInv, TypeOK
  <2>2. /\ pc'[r] \in {"insert", "exists", "drop_tag", "drop_member", "get"}
    BY <1>3 DEF Arrive, Start, Goto, FirstStatement, WriteInv, TypeOK
  <2>3. FreshCollections'
    BY <1>3, FreshCollectionsStep DEF WriteInv
  <2>4. ASSUME NEW p \in Requests PROVE Reach(p)' \subseteq Reach(p)
    BY <2>1, <2>2 DEF Reach, Held, Writes, Writing, Target
  <2>5. ASSUME NEW p \in Requests, p # r PROVE Located(p)' /\ Accounted(p)'
    <3>1. Located(p) /\ Accounted(p)
      BY DEF WriteInv
    <3>2. QED
      BY <2>1, <2>4, <2>5, <3>1 DEF Located, Accounted, Silent, Unmarked, Logged, Underway,
         Overtaken, OnlyAsset, OnlyName
  <2>6. Located(r)' /\ Accounted(r)'
    <3>1. Silent(r) \/ Logged(r)
      BY <2>1 DEF WriteInv, Accounted, Underway, Overtaken
    <3>2. QED
      BY <2>1, <2>2, <2>4, <3>1 DEF Located, Accounted, Silent, Unmarked, Logged
  <2>7. QED
    BY <1>1, <2>3, <2>5, <2>6 DEF WriteInv
<1>4. ASSUME NEW r \in Requests, Step(r) \/ Fail(r) \/ ChildError(r) PROVE WriteInv'
  <2>1. FreshCollections'
    BY <1>4, FreshCollectionsStep DEF WriteInv
  <2>2. \A p \in Requests : Located(p)'
    BY <1>4, LocatedStep DEF WriteInv
  <2>3. \A p \in Requests \ {r} : Accounted(p)'
    BY <1>4, OthersAccount
  <2>4. Accounted(r)'
    <3>1. CASE Step(r)
      BY <3>1, AssetWriterAccounts, AuthWriterAccounts, CollectionWriterAccounts,
         OneStatementAccounts
    <3>2. CASE Fail(r)
      BY <3>2 DEF Fail, Goto, Accounted, WriteInv, TypeOK
    <3>3. CASE ChildError(r)
      BY <3>3 DEF ChildError, Goto, Accounted, Underway, WriteInv, TypeOK
    <3>4. QED
      BY <1>4, <3>1, <3>2, <3>3
  <2>5. QED
    BY <1>1, <2>1, <2>2, <2>3, <2>4 DEF WriteInv
<1>5. QED
  BY <1>2, <1>3, <1>4 DEF Next

\* A request that is answered without an audit entry has failed, or what it wrote
\* was deleted before it read it back.
THEOREM AnswersAreAudited == Spec => []WritesAreAudited
<1>1. Init => WriteInv
  <2> SUFFICES ASSUME Init PROVE WriteInv
    OBVIOUS
  <2>1. TypeOK /\ FreshIds /\ FreshCollections
    BY InitTypes DEF Init, StoreInit, FreshIds, FreshCollections, At
  <2>2. ASSUME NEW r \in Requests PROVE Located(r) /\ Accounted(r)
    <3>1. Held(r) = {}
      BY DEF Init, StoreInit, Held, Writing
    <3>2. Writes(r) = {}
      BY StoreAssumption DEF Init, StoreInit, Writes
    <3>3. Unmarked(r)
      BY StoreAssumption DEF Init, StoreInit, Unmarked
    <3>4. QED
      BY <3>1, <3>2, <3>3 DEF Init, StoreInit, Located, Accounted, Silent, Reach
  <2>3. QED
    BY <2>1, <2>2 DEF WriteInv
<1>2. WriteInv => WritesAreAudited
  <2> SUFFICES ASSUME WriteInv, NEW r \in Requests, pc[r] \in Answers \ {"failed"}, ~Logged(r)
               PROVE  /\ \A a \in Writes(r) : row[a] = "deleted"
                      /\ \A c \in Collections : cname[c] = r => colls[c] = "gone"
                      /\ \A x \in rels : x.id # r
    BY DEF WritesAreAudited, Logged
  <2>1. Silent(r) \/ Overtaken(r)
    BY DEF WriteInv, Accounted, Underway, Answers
  <2>2. QED
    BY <2>1 DEF Silent, Overtaken, OnlyAsset, OnlyName, Unmarked, Reach
<1>3. QED
  BY <1>1, <1>2, WriteStep, PTL DEF Spec

(***************************************************************************)
(* How long a request can take.  The walks over the relations are the only *)
(* loops, and other requests insert and delete what they follow; a request *)
(* nevertheless takes at most 3n + 10 steps, n the number of assets,       *)
(* whatever the others do.                                                 *)
(***************************************************************************)

\* What is left to do at a label when there are n assets, t of them to visit and u
\* not seen: an asset comes to be visited only as it comes to be seen.
Budget(label, n, t, u) ==
    CASE label = "idle" -> 3 * n + 10
      [] label = "get" -> 3 * n + 9
      [] label \in {"exists", "put_auth"} -> 3 * n + 8
      [] label \in {"to_exists", "reget_auth"} -> 3 * n + 7
      [] label = "walk" -> 2 * n + 6 + t + u
      [] label = "child_put" -> 2 * t + 3
      [] label = "child_get" -> 2 * t + 2
      [] label = "verify" -> 6
      [] label \in {"insert", "put_title", "snapshot"} -> 5
      [] label \in {"insert_tags", "clear_metadata", "soft_delete", "drop_member"} -> 4
      [] label \in {"insert_metadata", "put_metadata", "adopt_tx", "put_name",
                    "coll_exists", "drop_relations", "drop_tag"} -> 3
      [] label \in {"reget", "drop_members", "put_tag", "tag_missing", "drop",
                    "put_member"} -> 2
      [] label = "audit" -> 1
      [] OTHER -> 0

LeftToDo(r) ==
    Budget(pc[r], Cardinality(Assets), Cardinality(todo[r]), Cardinality(Assets \ seen[r]))

\* Request r arrives, executes a statement, or meets an error.
Acts(r) == Arrive(r) \/ Step(r) \/ Fail(r) \/ ChildError(r)

\* What is left to do is bounded by the number of assets, and nothing is left
\* exactly when the request is answered.
WorkIsBounded ==
    \A r \in Requests :
        /\ LeftToDo(r) \in 0..(3 * Cardinality(Assets) + 10)
        /\ LeftToDo(r) = 0 <=> pc[r] \in Answers

\* Every statement of a request leaves it less to do, and no statement of another
\* request leaves it more.
WorkGetsDone ==
    \A r \in Requests : /\ LeftToDo(r)' <= LeftToDo(r)
                        /\ Acts(r) => LeftToDo(r)' < LeftToDo(r)

\* The sizes of the sets a request keeps.
LEMMA AssetCounts ==
    ASSUME IsFiniteSet(Assets), NEW S \in SUBSET Assets
    PROVE  /\ IsFiniteSet(S) /\ Cardinality(S) \in Nat /\ Cardinality(S) <= Cardinality(Assets)
           /\ Cardinality(Assets) \in Nat
           /\ \A a \in S : Cardinality(S \ {a}) = Cardinality(S) - 1
<1>1. IsFiniteSet(S) /\ Cardinality(S) <= Cardinality(Assets)
  BY FS_Subset
<1>2. Cardinality(S) \in Nat /\ Cardinality(Assets) \in Nat
  BY <1>1, FS_CardinalityType
<1>3. ASSUME NEW a \in S PROVE Cardinality(S \ {a}) = Cardinality(S) - 1
  BY <1>1, FS_RemoveElement
<1> QED BY <1>1, <1>2, <1>3

\* While a request is at work it has something left to do.
LEMMA WorkingBudget ==
    ASSUME NEW n \in Nat, NEW t \in Nat, NEW u \in Nat,
           NEW l \in Working \cup Answers \cup {"idle"}
    PROVE  /\ Budget(l, n, t, u) \in Nat
           /\ Budget(l, n, t, u) = 0 <=> l \in Answers
BY DEF Working, Answers, Budget

\* Expanding a node: what enters todo leaves the unseen, and the node is done.
LEMMA ExpandShrinks ==
    ASSUME IsFiniteSet(Assets), TypeOK, NEW r \in Requests, NEW n \in todo[r], Expand(r, n)
    PROVE  Cardinality(todo'[r]) + Cardinality(Assets \ seen'[r])
                < Cardinality(todo[r]) + Cardinality(Assets \ seen[r])
<1> DEFINE T == todo[r] \ {n}
           New == Successors(n) \ seen[r]
           U == Assets \ seen[r]
<1>1. /\ todo[r] \in SUBSET Assets /\ seen[r] \in SUBSET Assets
      /\ Successors(n) \subseteq Assets
  BY DEF TypeOK, Successors, Relations
<1>2. todo'[r] = T \cup New /\ Assets \ seen'[r] = U \ New
  BY <1>1 DEF Expand, TypeOK
<1>3. /\ T \in SUBSET Assets /\ New \in SUBSET Assets /\ U \in SUBSET Assets
      /\ U \ New \in SUBSET Assets /\ (T \cap New) \in SUBSET Assets
      /\ U = (U \ New) \cup New /\ (U \ New) \cap New = {}
  BY <1>1
<1>4. Cardinality(T) = Cardinality(todo[r]) - 1 /\ Cardinality(todo[r]) \in Nat
  BY <1>1, AssetCounts
<1> HIDE DEF T, New, U
<1>5. /\ IsFiniteSet(T) /\ IsFiniteSet(New) /\ IsFiniteSet(U \ New)
      /\ Cardinality(T) \in Nat /\ Cardinality(New) \in Nat /\ Cardinality(U \ New) \in Nat
      /\ Cardinality(T \cap New) \in Nat
  BY <1>3, AssetCounts
<1>6. Cardinality(T \cup New) = Cardinality(T) + Cardinality(New) - Cardinality(T \cap New)
  BY <1>5, FS_Union
<1>7. Cardinality(U) = Cardinality(U \ New) + Cardinality(New)
  <2>1. Cardinality((U \ New) \cup New)
          = Cardinality(U \ New) + Cardinality(New) - Cardinality((U \ New) \cap New)
    BY <1>5, FS_Union
  <2>2. Cardinality((U \ New) \cap New) = 0
    BY <1>3, FS_EmptySet
  <2>3. Cardinality(U) = Cardinality((U \ New) \cup New)
    BY <1>3, Zenon
  <2> QED BY <2>1, <2>2, <2>3, <1>5
<1>8. /\ Cardinality(todo'[r]) = Cardinality(T) + Cardinality(New) - Cardinality(T \cap New)
      /\ Cardinality(Assets \ seen'[r]) = Cardinality(U \ New)
  BY <1>2, <1>6
<1>9. Cardinality(Assets \ seen[r]) = Cardinality(U \ New) + Cardinality(New)
  BY <1>7 DEF U
<1> QED BY <1>4, <1>5, <1>8, <1>9

\* The handlers' control flow outside the loops.
Moves ==
    {<<"insert", "insert_tags">>, <<"insert_tags", "insert_metadata">>,
     <<"insert_metadata", "reget">>, <<"reget", "audit">>,
     <<"exists", "adopt_tx">>, <<"adopt_tx", "reget">>,
     <<"get", "verify">>, <<"verify", "put_title">>, <<"verify", "clear_metadata">>,
     <<"verify", "reget">>, <<"put_title", "clear_metadata">>, <<"put_title", "reget">>,
     <<"clear_metadata", "put_metadata">>, <<"put_metadata", "reget">>}
    \cup
    {<<"get", "snapshot">>, <<"snapshot", "soft_delete">>, <<"soft_delete", "drop_relations">>,
     <<"drop_relations", "drop_members">>, <<"drop_members", "audit">>,
     <<"get", "put_tag">>, <<"put_tag", "audit">>, <<"drop_tag", "audit">>,
     <<"drop_tag", "tag_missing">>, <<"tag_missing", "audit">>,
     <<"get", "put_auth">>, <<"put_auth", "reget_auth">>}
    \cup
    {<<"exists", "to_exists">>, <<"walk", "insert">>, <<"insert", "audit">>,
     <<"get", "drop">>, <<"drop", "audit">>, <<"verify", "put_name">>,
     <<"put_name", "reget">>, <<"get", "coll_exists">>, <<"coll_exists", "put_member">>,
     <<"coll_exists", "audit">>, <<"put_member", "audit">>, <<"drop_member", "audit">>,
     <<"drop_member", "coll_exists">>}

\* The statements that begin, continue or end a loop.
LoopStep(r) ==
    \/ AuthReadBack(r) \/ ToExists(r) \/ WalkDescendants(r) \/ WalkForCycle(r)
    \/ DescendantsFound(r) \/ ChildGet(r) \/ ChildGone(r) \/ ChildPut(r) \/ ChildrenDone(r)
    \/ ChildError(r)

\* Every other statement answers the request or follows the control flow.
LEMMA PlainMoves ==
    ASSUME TypeOK, NEW r \in Requests, Step(r) \/ Fail(r), ~LoopStep(r)
    PROVE  pc[r] \in Working /\ (pc'[r] \in Answers \/ <<pc[r], pc'[r]>> \in Moves)
<1> USE DEF At, Goto, Read, Working, Answers, Moves, TypeOK
<1>1. CASE InsertRow(r)
  BY <1>1 DEF InsertRow
<1>2. CASE InsertTags(r)
  BY <1>2 DEF InsertTags
<1>3. CASE InsertMetadata(r)
  BY <1>3 DEF InsertMetadata
<1>4. CASE ReadBack(r)
  BY <1>4 DEF ReadBack, ReadLive
<1>5. CASE AdoptExists(r)
  BY <1>5 DEF AdoptExists
<1>6. CASE AdoptTx(r)
  BY <1>6 DEF AdoptTx, Adopted
<1>7. CASE AdoptDuplicate(r)
  BY <1>7 DEF AdoptDuplicate
<1>8. CASE UpdateGet(r)
  BY <1>8 DEF UpdateGet, ReadLive
<1>9. CASE UpdateVerify(r)
  BY <1>9 DEF UpdateVerify, ReadLive, AfterVerify, AfterTitle
<1>10. CASE PutTitle(r)
  BY <1>10 DEF PutTitle, AfterTitle
<1>11. CASE ClearMetadata(r)
  BY <1>11 DEF ClearMetadata
<1>12. CASE PutMetadata(r)
  BY <1>12 DEF PutMetadata
<1>13. CASE DeleteGet(r)
  BY <1>13 DEF DeleteGet, ReadLive
<1>14. CASE Snapshot(r)
  BY <1>14 DEF Snapshot
<1>15. CASE SoftDelete(r)
  BY <1>15 DEF SoftDelete
<1>16. CASE DropRelations(r)
  BY <1>16 DEF DropRelations
<1>17. CASE DropMembers(r)
  BY <1>17 DEF DropMembers
<1>18. CASE TagGet(r)
  BY <1>18 DEF TagGet, ReadLive
<1>19. CASE PutTag(r)
  BY <1>19 DEF PutTag
<1>20. CASE DropTag(r)
  BY <1>20 DEF DropTag
<1>21. CASE TagMissing(r)
  BY <1>21 DEF TagMissing, ReadLive
<1>22. CASE AuthGet(r)
  BY <1>22 DEF AuthGet
<1>23. CASE PutAuth(r)
  BY <1>23 DEF PutAuth
<1>24. CASE FromExists(r)
  BY <1>24 DEF FromExists
<1>25. CASE CycleFound(r)
  BY <1>25 DEF CycleFound
<1>26. CASE NoCycle(r)
  BY <1>26 DEF NoCycle
<1>27. CASE InsertRelation(r)
  BY <1>27 DEF InsertRelation
<1>28. CASE RelationGet(r)
  BY <1>28 DEF RelationGet
<1>29. CASE DropRelation(r)
  BY <1>29 DEF DropRelation
<1>30. CASE InsertCollection(r)
  BY <1>30 DEF InsertCollection
<1>31. CASE CollectionGet(r)
  BY <1>31 DEF CollectionGet
<1>32. CASE CollectionVerify(r)
  BY <1>32 DEF CollectionVerify
<1>33. CASE PutName(r)
  BY <1>33 DEF PutName
<1>34. CASE CollectionReadBack(r)
  BY <1>34 DEF CollectionReadBack
<1>35. CASE DropCollection(r)
  BY <1>35 DEF DropCollection
<1>36. CASE MemberGet(r)
  BY <1>36 DEF MemberGet, ReadLive
<1>37. CASE MemberCollection(r)
  BY <1>37 DEF MemberCollection
<1>38. CASE PutMember(r)
  BY <1>38 DEF PutMember
<1>39. CASE DropMember(r)
  BY <1>39 DEF DropMember
<1>40. CASE WriteAudit(r)
  BY <1>40 DEF WriteAudit
<1>41. CASE Fail(r)
  BY <1>41 DEF Fail, Running
<1>99. QED
  BY <1>1, <1>2, <1>3, <1>4, <1>5, <1>6, <1>7, <1>8, <1>9, <1>10, <1>11, <1>12, <1>13,
     <1>14, <1>15, <1>16, <1>17, <1>18, <1>19, <1>20, <1>21, <1>22, <1>23, <1>24, <1>25,
     <1>26, <1>27, <1>28, <1>29, <1>30, <1>31, <1>32, <1>33, <1>34, <1>35, <1>36, <1>37,
     <1>38, <1>39, <1>40, <1>41, Zenon
  DEF Step, AssetStep, LinkStep, LoopStep

\* Along the control flow less and less is left to do.
LEMMA MovesShrink ==
    ASSUME NEW n \in Nat, NEW t \in Nat, NEW u \in Nat, NEW m \in Moves
    PROVE  Budget(m[2], n, t, u) < Budget(m[1], n, t, u)
BY DEF Moves, Budget

\* The loops' statements, one by one.
LEMMA LoopsShrink ==
    ASSUME IsFiniteSet(Assets), TypeOK, TypeOK', NEW r \in Requests, LoopStep(r)
    PROVE  LeftToDo(r)' < LeftToDo(r)
<1> DEFINE n == Cardinality(Assets)
           t == todo[r]
           k == Cardinality(todo[r])
           u == Cardinality(Assets \ seen[r])
           nk == Cardinality(todo'[r])
           nu == Cardinality(Assets \ seen'[r])
<1>1. /\ t \in SUBSET Assets /\ n \in Nat /\ k \in Nat /\ u \in Nat
      /\ \A c \in t : Cardinality(t \ {c}) = k - 1
  BY AssetCounts DEF TypeOK
<1>2. /\ pc \in [Requests -> {"idle"} \cup Working \cup Answers]
      /\ todo \in [Requests -> SUBSET Assets] /\ seen \in [Requests -> SUBSET Assets]
  BY DEF TypeOK
<1>3. /\ LeftToDo(r) = Budget(pc[r], n, k, u)
      /\ LeftToDo(r)' = Budget(pc'[r], n, nk, nu)
  BY DEF LeftToDo
<1>4. nk \in Nat /\ nu \in Nat
  BY AssetCounts DEF TypeOK
<1>5. ASSUME NEW a \in Assets, todo'[r] = {a}, seen'[r] = {a}
      PROVE  nk = 1 /\ nu = n - 1
  <2>1. nu = n - 1
    BY <1>5, AssetCounts
  <2>2. nk = 1
    BY <1>5, FS_Singleton
  <2> QED BY <2>1, <2>2
<1> HIDE DEF n, k, u, nk, nu
<1>6. CASE AuthReadBack(r)
  <2>1. pc[r] = "reget_auth"
    BY <1>6 DEF AuthReadBack, At
  <2>2. CASE pc'[r] \in {"notfound", "audit"}
    BY <2>1, <2>2, <1>1, <1>3, <1>4 DEF Budget
  <2>3. CASE pc'[r] \notin {"notfound", "audit"}
    <3>1. pc'[r] = "walk" /\ todo'[r] = {req[r].asset} /\ seen'[r] = {req[r].asset}
      BY <1>2, <1>6, <2>3 DEF AuthReadBack, Goto
    <3>2. req[r].asset \in Assets
      BY <1>6, RequestFields DEF AuthReadBack, At, TypeOK, OnAsset
    <3>3. nk = 1 /\ nu = n - 1
      BY <3>1, <3>2, <1>5
    <3> QED BY <2>1, <3>1, <3>3, <1>1, <1>3 DEF Budget
  <2> QED BY <2>2, <2>3
<1>7. CASE ToExists(r)
  <2>1. pc[r] = "to_exists"
    BY <1>7 DEF ToExists, At
  <2>2. CASE pc'[r] \in {"notfound", "invalid"}
    BY <2>1, <2>2, <1>1, <1>3, <1>4 DEF Budget
  <2>3. CASE pc'[r] \notin {"notfound", "invalid"}
    <3>1. pc'[r] = "walk" /\ todo'[r] = {req[r].to} /\ seen'[r] = {req[r].to}
      BY <1>2, <1>7, <2>3 DEF ToExists, Goto
    <3>2. req[r].to \in Assets
      BY <1>7, RequestFields DEF ToExists, At, TypeOK
    <3>3. nk = 1 /\ nu = n - 1
      BY <3>1, <3>2, <1>5
    <3> QED BY <2>1, <3>1, <3>3, <1>1, <1>3 DEF Budget
  <2> QED BY <2>2, <2>3
<1>8. CASE WalkDescendants(r) \/ WalkForCycle(r)
  <2>1. PICK m \in todo[r] : Expand(r, m)
    BY <1>8 DEF WalkDescendants, WalkForCycle
  <2>2. pc[r] = "walk" /\ pc'[r] = "walk"
    BY <1>8 DEF WalkDescendants, WalkForCycle, At
  <2>3. nk + nu < k + u
    BY <2>1, ExpandShrinks DEF k, u, nk, nu
  <2> QED BY <2>2, <2>3, <1>1, <1>3, <1>4 DEF Budget
<1>9. CASE DescendantsFound(r)
  <2>1. pc[r] = "walk" /\ pc'[r] = "child_get"
    BY <1>2, <1>9 DEF DescendantsFound, At, Goto
  <2>2. nk <= n
    BY AssetCounts DEF TypeOK, nk, n
  <2> QED BY <2>1, <2>2, <1>1, <1>3, <1>4 DEF Budget
<1>10. CASE ChildGet(r) \/ ChildGone(r)
  <2>1. PICK c \in t : todo'[r] = t \ {c}
    BY <1>2, <1>10 DEF ChildGet, ChildGone
  <2>2. nk = k - 1
    BY <2>1, <1>1 DEF nk
  <2>3. pc[r] = "child_get" /\ pc'[r] \in {"child_put", "child_get"}
    BY <1>2, <1>10 DEF ChildGet, ChildGone, At, Goto
  <2> QED BY <2>2, <2>3, <1>1, <1>3, <1>4 DEF Budget
<1>11. CASE ChildPut(r)
  <2>1. pc[r] = "child_put" /\ pc'[r] = "child_get" /\ todo' = todo
    BY <1>2, <1>11 DEF ChildPut, At, Goto, locals
  <2>2. nk = k
    BY <2>1 DEF nk, k
  <2> QED BY <2>1, <2>2, <1>1, <1>3, <1>4 DEF Budget
<1>12. CASE ChildrenDone(r)
  <2>1. pc[r] = "child_get" /\ pc'[r] = "audit"
    BY <1>2, <1>12 DEF ChildrenDone, Read, At, Goto
  <2> QED BY <2>1, <1>1, <1>3, <1>4 DEF Budget
<1>13. CASE ChildError(r)
  <2>1. pc'[r] = "child_get"
    BY <1>2, <1>13 DEF ChildError, Goto
  <2>2. CASE pc[r] = "child_put"
    <3>1. todo' = todo
      BY <1>13, <2>2 DEF ChildError
    <3>2. nk = k
      BY <3>1 DEF nk, k
    <3> QED BY <2>1, <2>2, <3>2, <1>1, <1>3, <1>4 DEF Budget
  <2>3. CASE pc[r] # "child_put"
    <3>1. pc[r] = "child_get" /\ \E c \in t : todo'[r] = t \ {c}
      BY <1>2, <1>13, <2>3 DEF ChildError
    <3>2. nk = k - 1
      BY <3>1, <1>1 DEF nk
    <3> QED BY <2>1, <3>1, <3>2, <1>1, <1>3, <1>4 DEF Budget
  <2> QED BY <2>2, <2>3
<1> QED BY <1>6, <1>7, <1>8, <1>9, <1>10, <1>11, <1>12, <1>13 DEF LoopStep

\* Only the loops' statements touch the sets of a walk.
LEMMA PlainSets ==
    ASSUME NEW r \in Requests, Step(r) \/ Fail(r), ~LoopStep(r)
    PROVE  todo' = todo /\ seen' = seen
<1>1. CASE InsertRow(r) \/ InsertTags(r) \/ InsertMetadata(r) \/ ReadBack(r) \/
           AdoptExists(r) \/ AdoptTx(r) \/ AdoptDuplicate(r) \/ UpdateGet(r) \/
           UpdateVerify(r) \/ PutTitle(r) \/ ClearMetadata(r) \/ PutMetadata(r) \/
           DeleteGet(r) \/ Snapshot(r) \/ SoftDelete(r) \/ DropRelations(r) \/
           DropMembers(r) \/ TagGet(r) \/ PutTag(r) \/ DropTag(r) \/ TagMissing(r) \/
           AuthGet(r) \/ PutAuth(r)
  BY <1>1, Zenon DEF locals, Read, ReadLive, Adopted, InsertRow, InsertTags,
      InsertMetadata, ReadBack, AdoptExists, AdoptTx, AdoptDuplicate, UpdateGet,
      UpdateVerify, PutTitle, ClearMetadata, PutMetadata, DeleteGet, Snapshot,
      SoftDelete, DropRelations, DropMembers, TagGet, PutTag, DropTag, TagMissing,
      AuthGet, PutAuth
<1>2. CASE FromExists(r) \/ CycleFound(r) \/ NoCycle(r) \/ InsertRelation(r) \/
           RelationGet(r) \/ DropRelation(r) \/ InsertCollection(r) \/ CollectionGet(r)
           \/ CollectionVerify(r) \/ PutName(r) \/ CollectionReadBack(r) \/
           DropCollection(r) \/ MemberGet(r) \/ MemberCollection(r) \/ PutMember(r) \/
           DropMember(r)
  BY <1>2, Zenon DEF locals, Read, ReadLive, Adopted, FromExists, CycleFound, NoCycle,
      InsertRelation, RelationGet, DropRelation, InsertCollection, CollectionGet,
      CollectionVerify, PutName, CollectionReadBack, DropCollection, MemberGet,
      MemberCollection, PutMember, DropMember
<1>3. CASE WriteAudit(r) \/ Fail(r)
  BY <1>3 DEF WriteAudit, Fail, locals
<1> QED BY <1>1, <1>2, <1>3, Zenon DEF Step, AssetStep, LinkStep, LoopStep

\* What is left to do is a number, and zero once the request is answered.
LEMMA WorkIsNatural ==
    ASSUME IsFiniteSet(Assets), TypeOK, NEW r \in Requests
    PROVE  LeftToDo(r) \in Nat /\ (LeftToDo(r) = 0 <=> pc[r] \in Answers)
<1>1. /\ Cardinality(todo[r]) \in Nat /\ Cardinality(Assets \ seen[r]) \in Nat
      /\ Cardinality(Assets) \in Nat /\ pc[r] \in Working \cup Answers \cup {"idle"}
  BY AssetCounts DEF TypeOK
<1> QED BY <1>1, WorkingBudget DEF LeftToDo

LEMMA NextWorkIsNatural ==
    ASSUME IsFiniteSet(Assets), TypeOK', NEW r \in Requests
    PROVE  LeftToDo(r)' \in Nat
<1>1. /\ Cardinality(todo'[r]) \in Nat /\ Cardinality(Assets \ seen'[r]) \in Nat
      /\ Cardinality(Assets) \in Nat /\ pc'[r] \in Working \cup Answers \cup {"idle"}
  BY AssetCounts DEF TypeOK
<1> QED BY <1>1, WorkingBudget DEF LeftToDo

\* A step of one request: it has less left to do, and the others as much as before.
LEMMA OwnWorkShrinks ==
    ASSUME IsFiniteSet(Assets), TypeOK, TypeOK', NEW r \in Requests, Acts(r)
    PROVE  LeftToDo(r)' < LeftToDo(r)
<1> DEFINE n == Cardinality(Assets)
           k == Cardinality(todo[r])
           u == Cardinality(Assets \ seen[r])
<1>1. n \in Nat /\ k \in Nat /\ u \in Nat /\ LeftToDo(r) = Budget(pc[r], n, k, u)
  BY AssetCounts DEF TypeOK, LeftToDo
<1>2. CASE Arrive(r)
  <2>1. PICK q \in Arguments : Start(r, q)
    BY <1>2 DEF Arrive
  <2>2. pc'[r] \in {"insert", "exists", "drop_tag", "drop_member", "get"} /\ pc[r] = "idle"
    BY <2>1 DEF Start, Goto, FirstStatement, TypeOK
  <2>3. LeftToDo(r)' = Budget(pc'[r], n, k, u)
    BY <2>1 DEF Start, locals, LeftToDo
  <2> HIDE DEF n, k, u
  <2> QED BY <1>1, <2>2, <2>3 DEF Budget
<1>3. CASE LoopStep(r)
  BY <1>3, LoopsShrink
<1>4. CASE (Step(r) \/ Fail(r)) /\ ~LoopStep(r)
  <2>1. pc[r] \in Working /\ (pc'[r] \in Answers \/ <<pc[r], pc'[r]>> \in Moves)
    BY <1>4, PlainMoves
  <2>2. LeftToDo(r)' = Budget(pc'[r], n, k, u)
    BY <1>4, PlainSets DEF LeftToDo
  <2> HIDE DEF n, k, u
  <2>3. CASE pc'[r] \in Answers
    <3>1. LeftToDo(r)' = 0
      BY <1>1, <2>2, <2>3, WorkingBudget
    <3>2. LeftToDo(r) \in Nat /\ LeftToDo(r) # 0
      BY <2>1, WorkIsNatural DEF Working, Answers
    <3> QED BY <3>1, <3>2
  <2>4. CASE <<pc[r], pc'[r]>> \in Moves
    BY <1>1, <2>2, <2>4, MovesShrink
  <2> QED BY <2>1, <2>3, <2>4
<1> QED BY <1>2, <1>3, <1>4 DEF Acts, LoopStep

\* The work of a request that does not move.
LEMMA OthersWorkStays ==
    ASSUME TypeOK, NEW r \in Requests, NEW q \in Requests \ {r}, Acts(r)
    PROVE  LeftToDo(q)' = LeftToDo(q)
<1>1. pc'[q] = pc[q]
  <2>1. CASE Arrive(r)
    BY <2>1 DEF Arrive, Start, Goto, TypeOK
  <2>2. CASE ~Arrive(r)
    BY <2>2, StepFrame DEF Acts, TypeOK
  <2> QED BY <2>1, <2>2
<1>2. todo'[q] = todo[q] /\ seen'[q] = seen[q]
  <2>1. CASE Arrive(r)
    BY <2>1 DEF Arrive, Start, locals
  <2>2. CASE LoopStep(r)
    BY <2>2 DEF LoopStep, AuthReadBack, ToExists, WalkDescendants, WalkForCycle, Expand,
       DescendantsFound, ChildGet, ChildGone, ChildPut, ChildrenDone, ChildError, Read, locals,
       TypeOK
  <2>3. CASE ~Arrive(r) /\ ~LoopStep(r)
    BY <2>3, PlainSets DEF Acts, LoopStep
  <2> QED BY <2>1, <2>2, <2>3
<1> QED BY <1>1, <1>2 DEF LeftToDo

LEMMA WorkStep ==
    ASSUME IsFiniteSet(Assets), TypeOK, TypeOK', [Next]_vars
    PROVE  WorkGetsDone \/ UNCHANGED vars
<1>1. CASE UNCHANGED vars
  BY <1>1
<1>2. CASE Next
  <2>1. PICK r \in Requests : Acts(r)
    BY <1>2 DEF Next, Acts
  <2>2. ASSUME NEW q \in Requests PROVE LeftToDo(q) \in Nat /\ LeftToDo(q)' \in Nat
    BY WorkIsNatural, NextWorkIsNatural
  <2>3. ASSUME NEW q \in Requests, Acts(q) PROVE LeftToDo(q)' < LeftToDo(q)
    BY <2>3, OwnWorkShrinks
  <2>4. ASSUME NEW q \in Requests, ~Acts(q) PROVE LeftToDo(q)' <= LeftToDo(q)
    <3>1. LeftToDo(q)' = LeftToDo(q)
      BY <2>1, <2>4, OthersWorkStays
    <3> QED BY <3>1, <2>2
  <2>5. ASSUME NEW q \in Requests PROVE LeftToDo(q)' <= LeftToDo(q)
    BY <2>2, <2>3, <2>4
  <2> QED BY <2>3, <2>5 DEF WorkGetsDone
<1> QED BY <1>1, <1>2

\* A request takes at most 3n + 10 steps, n the number of assets: what is left of
\* it is a number in that range, smaller after each of its steps, never larger
\* after the others' and zero exactly when it is answered.
THEOREM RequestsAreBounded ==
    ASSUME IsFiniteSet(Assets)
    PROVE  Spec => []WorkIsBounded /\ [][WorkGetsDone]_vars
<1> DEFINE n == Cardinality(Assets)
           Within == \A r \in Requests : LeftToDo(r) <= 3 * n + 10
<1>1. Init => Within
  <2> SUFFICES ASSUME Init, NEW r \in Requests PROVE LeftToDo(r) <= 3 * n + 10
    OBVIOUS
  <2>1. pc[r] = "idle" /\ n \in Nat
    BY AssetCounts DEF Init, StoreInit
  <2>2. LeftToDo(r) = 3 * n + 10
    BY <2>1 DEF LeftToDo, Budget
  <2> QED BY <2>1, <2>2
<1>2. TypeOK /\ TypeOK' /\ [Next]_vars => WorkGetsDone \/ UNCHANGED vars
  BY WorkStep
<1>3. TypeOK /\ TypeOK' /\ Within /\ [Next]_vars => Within'
  <2> SUFFICES ASSUME TypeOK, TypeOK', Within, [Next]_vars, NEW r \in Requests
               PROVE  LeftToDo(r)' <= 3 * n + 10
    OBVIOUS
  <2>1. CASE UNCHANGED vars
    BY <2>1 DEF vars, storeVars, locals, LeftToDo
  <2>2. CASE WorkGetsDone
    <3>1. LeftToDo(r)' <= LeftToDo(r) /\ LeftToDo(r) <= 3 * n + 10
      BY <2>2 DEF WorkGetsDone
    <3>2. n \in Nat
      BY AssetCounts
    <3>3. LeftToDo(r) \in Nat /\ LeftToDo(r)' \in Nat
      BY WorkIsNatural, NextWorkIsNatural
    <3> HIDE DEF n
    <3> QED BY <3>1, <3>2, <3>3
  <2> QED BY <2>1, <2>2, <1>2
<1>4. TypeOK /\ Within => WorkIsBounded
  <2> SUFFICES ASSUME TypeOK, Within, NEW r \in Requests
               PROVE  /\ LeftToDo(r) \in 0..(3 * n + 10)
                      /\ LeftToDo(r) = 0 <=> pc[r] \in Answers
    BY DEF WorkIsBounded
  <2>1. LeftToDo(r) \in Nat /\ (LeftToDo(r) = 0 <=> pc[r] \in Answers)
    BY WorkIsNatural
  <2>2. n \in Nat
    BY AssetCounts
  <2> HIDE DEF n
  <2> QED BY <2>1, <2>2
<1>5. QED
  BY <1>1, <1>2, <1>3, <1>4, TypeCorrect, PTL DEF Spec
=============================================================================
