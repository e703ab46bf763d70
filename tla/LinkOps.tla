------------------------------ MODULE LinkOps ------------------------------
(***************************************************************************)
(* RelationService and CollectionService over their SQLite repositories:   *)
(* the rows that link assets to each other and to collections.  One action *)
(* per SQL statement.                                                      *)
(***************************************************************************)
EXTENDS AssetOps

\* Creating a relation: both assets exist (soft-deleted ones do), they differ,
\* and no path leads back; only then is the row inserted.
FromExists(r) ==
    /\ At(r, "createRelation", "exists")
    /\ Read(r, IF Exists(req[r].from) THEN "to_exists" ELSE "notfound")

ToExists(r) ==
    LET start == Exists(req[r].to) /\ req[r].from # req[r].to IN
    /\ At(r, "createRelation", "to_exists")
    /\ seen' = [seen EXCEPT ![r] = IF start THEN {req[r].to} ELSE @]
    /\ todo' = [todo EXCEPT ![r] = IF start THEN {req[r].to} ELSE @]
    /\ Goto(r, IF ~Exists(req[r].to) THEN "notfound"
               ELSE IF start THEN "walk" ELSE "invalid")
    /\ UNCHANGED <<tables, audit, req, snap, ctx, child>>

WalkForCycle(r) ==
    /\ At(r, "createRelation", "walk")
    /\ \E n \in todo[r] : n # req[r].from /\ Expand(r, n)
    /\ UNCHANGED <<tables, audit, req, pc, snap, ctx, child>>

CycleFound(r) ==
    /\ At(r, "createRelation", "walk")
    /\ req[r].from \in todo[r]
    /\ Read(r, "invalid")

\* Mutant of NoCycle: only the target itself is compared with the source.
NoDirectCycle(r) ==
    /\ At(r, "createRelation", "walk")
    /\ req[r].from \notin todo[r]
    /\ Read(r, "insert")

NoCycle(r) ==
    /\ At(r, "createRelation", "walk")
    /\ todo[r] = {}
    /\ Read(r, "insert")

InsertRelation(r) ==
    /\ At(r, "createRelation", "insert")
    /\ rels' = rels \cup {[id |-> r, from |-> req[r].from, to |-> req[r].to]}
    /\ Goto(r, "audit")
    /\ UNCHANGED <<assetTables, collectionTables, audit, req, locals>>

\* Deleting a relation: read it for the audit entry, then DELETE; no row, 404.
RelationGet(r) ==
    LET there == req[r].rel \in rels IN
    /\ At(r, "deleteRelation", "get")
    /\ snap' = [snap EXCEPT ![r] = IF there THEN {req[r].rel} ELSE @]
    /\ Goto(r, IF there THEN "drop" ELSE "notfound")
    /\ UNCHANGED <<tables, audit, req, seen, todo, ctx, child>>

DropRelation(r) ==
    /\ At(r, "deleteRelation", "drop")
    /\ rels' = rels \ {req[r].rel}
    /\ Goto(r, IF req[r].rel \in rels THEN "audit" ELSE "notfound")
    /\ UNCHANGED <<assetTables, collectionTables, audit, req, locals>>

-----------------------------------------------------------------------------
Present(c) == colls[c] = "present"

\* Creating, renaming and deleting a collection.
InsertCollection(r) ==
    /\ At(r, "createCollection", "insert")
    /\ colls' = [colls EXCEPT ![req[r].coll] = "present"]
    /\ cname' = [cname EXCEPT ![req[r].coll] = r]
    /\ Goto(r, "audit")
    /\ UNCHANGED <<assetTables, rels, members, audit, req, locals>>

CollectionGet(r) ==
    /\ pc[r] = "get" /\ req[r].op \in {"updateCollection", "deleteCollection"}
    /\ Read(r, IF ~Present(req[r].coll) THEN "notfound"
               ELSE IF req[r].op = "updateCollection" THEN "verify" ELSE "drop")

CollectionVerify(r) ==
    /\ At(r, "updateCollection", "verify")
    /\ Read(r, IF Present(req[r].coll) THEN "put_name" ELSE "notfound")

PutName(r) ==
    LET c == req[r].coll IN
    /\ At(r, "updateCollection", "put_name")
    /\ cname' = [cname EXCEPT ![c] = IF Present(c) THEN r ELSE @]
    /\ Goto(r, "reget")
    /\ UNCHANGED <<assetTables, rels, colls, members, audit, req, locals>>

CollectionReadBack(r) ==
    /\ At(r, "updateCollection", "reget")
    /\ Read(r, IF Present(req[r].coll) THEN "audit" ELSE "notfound")

\* The foreign key takes the memberships along.
DropCollection(r) ==
    LET c == req[r].coll IN
    /\ At(r, "deleteCollection", "drop")
    /\ colls' = [colls EXCEPT ![c] = "gone"]
    /\ members' = {m \in members : m.coll # c}
    /\ Goto(r, IF Present(c) THEN "audit" ELSE "notfound")
    /\ UNCHANGED <<assetTables, rels, cname, audit, req, locals>>

\* Membership: the asset must be live and the collection there when each is
\* read; the INSERT itself checks only the foreign keys.
Membership(r) == [coll |-> req[r].coll, asset |-> req[r].asset]

MemberGet(r) ==
    /\ At(r, "addMember", "get")
    /\ ReadLive(r, req[r].asset, "coll_exists")

MemberCollection(r) ==
    /\ pc[r] = "coll_exists" /\ req[r].op \in {"addMember", "removeMember"}
    /\ Read(r, IF ~Present(req[r].coll) THEN "notfound"
               ELSE IF req[r].op = "addMember" THEN "put_member" ELSE "audit")

PutMember(r) ==
    LET c == req[r].coll IN
    /\ At(r, "addMember", "put_member")
    /\ members' = members \cup (IF Present(c) THEN {Membership(r)} ELSE {})
    /\ Goto(r, IF Present(c) THEN "audit" ELSE "failed")
    /\ UNCHANGED <<assetTables, rels, colls, cname, audit, req, locals>>

DropMember(r) ==
    /\ At(r, "removeMember", "drop_member")
    /\ members' = members \ {Membership(r)}
    /\ Goto(r, IF Membership(r) \in members THEN "audit" ELSE "coll_exists")
    /\ UNCHANGED <<assetTables, rels, colls, cname, audit, req, locals>>

LinkStep(r) ==
    \/ FromExists(r) \/ ToExists(r) \/ WalkForCycle(r) \/ CycleFound(r) \/ NoCycle(r)
    \/ InsertRelation(r) \/ RelationGet(r) \/ DropRelation(r)
    \/ InsertCollection(r) \/ CollectionGet(r) \/ CollectionVerify(r) \/ PutName(r)
    \/ CollectionReadBack(r) \/ DropCollection(r)
    \/ MemberGet(r) \/ MemberCollection(r) \/ PutMember(r) \/ DropMember(r)
=============================================================================
