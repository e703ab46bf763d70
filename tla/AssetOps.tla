------------------------------ MODULE AssetOps ------------------------------
(***************************************************************************)
(* AssetService over the SQLite asset repository: create, adopt, update,   *)
(* delete with its cascade, tags, and the authorization context.  One      *)
(* action per SQL statement; the action's name says which.                 *)
(***************************************************************************)
EXTENDS Store

\* create: INSERT the row, then the tags, then the metadata, then read it back.
InsertRow(r) ==
    LET a == req[r].asset IN
    /\ At(r, "createAsset", "insert")
    /\ row' = [row EXCEPT ![a] = "live"]
    /\ title' = [title EXCEPT ![a] = r]
    /\ auth' = [auth EXCEPT ![a] = [f \in Fields |-> r]]
    /\ Goto(r, "insert_tags")
    /\ UNCHANGED <<meta, tags, rels, collectionTables, audit, req, locals>>

InsertTags(r) ==
    /\ At(r, "createAsset", "insert_tags")
    /\ tags' = tags \cup {<<req[r].asset, r>>}
    /\ Goto(r, "insert_metadata")
    /\ UNCHANGED <<row, title, meta, auth, rels, collectionTables, audit, req, locals>>

InsertMetadata(r) ==
    LET a == req[r].asset IN
    /\ At(r, "createAsset", "insert_metadata")
    /\ meta' = [meta EXCEPT ![a] = @ \cup {r}]
    /\ Goto(r, "reget")
    /\ UNCHANGED <<row, title, tags, auth, rels, collectionTables, audit, req, locals>>

\* Mutant of ReadBack: an update is answered without its audit entry.
ReadBackUnaudited(r) ==
    /\ pc[r] = "reget" /\ req[r].op \in {"createAsset", "updateAsset", "adoptAsset"}
    /\ ReadLive(r, req[r].asset, IF req[r].op = "createAsset" THEN "audit" ELSE "ok")

\* create, update and adopt end by reading the asset back; adopt is audited already.
ReadBack(r) ==
    /\ pc[r] = "reget" /\ req[r].op \in {"createAsset", "updateAsset", "adoptAsset"}
    /\ ReadLive(r, req[r].asset, IF req[r].op = "adoptAsset" THEN "ok" ELSE "audit")

\* adopt: the duplicate bar, then ONE transaction for row, tags, metadata and
\* audit entry, which the primary key makes fail when the row is there by now.
AdoptExists(r) ==
    /\ At(r, "adoptAsset", "exists")
    /\ Read(r, IF Exists(req[r].asset) THEN "conflict" ELSE "adopt_tx")

Adopted(r, a) ==
    /\ row' = [row EXCEPT ![a] = "live"]
    /\ title' = [title EXCEPT ![a] = r]
    /\ auth' = [auth EXCEPT ![a] = [f \in Fields |-> r]]
    /\ tags' = tags \cup {<<a, r>>}
    /\ meta' = [meta EXCEPT ![a] = @ \cup {r}]
    /\ audit' = audit \cup {[by |-> r, req |-> req[r], lost |-> {}]}
    /\ Goto(r, "reget")
    /\ UNCHANGED <<rels, collectionTables, req, locals>>

\* Mutant of AdoptTx: the row is written over whatever is there.
AdoptOver(r) == At(r, "adoptAsset", "adopt_tx") /\ Adopted(r, req[r].asset)

AdoptTx(r) ==
    /\ At(r, "adoptAsset", "adopt_tx")
    /\ ~Exists(req[r].asset)
    /\ Adopted(r, req[r].asset)

AdoptDuplicate(r) ==
    /\ At(r, "adoptAsset", "adopt_tx")
    /\ Exists(req[r].asset)
    /\ Read(r, "failed")

\* update: read for the audit entry, verify, then one UPDATE per part that is
\* set; metadata is replaced by a DELETE and an INSERT that ignore deleted_at.
AfterTitle(r) == IF "metadata" \in req[r].parts THEN "clear_metadata" ELSE "reget"
AfterVerify(r) == IF "title" \in req[r].parts THEN "put_title" ELSE AfterTitle(r)

UpdateGet(r) ==
    /\ At(r, "updateAsset", "get")
    /\ ReadLive(r, req[r].asset, "verify")

UpdateVerify(r) ==
    /\ At(r, "updateAsset", "verify")
    /\ ReadLive(r, req[r].asset, AfterVerify(r))

PutTitle(r) ==
    LET a == req[r].asset IN
    /\ At(r, "updateAsset", "put_title")
    /\ title' = [title EXCEPT ![a] = IF Live(a) THEN r ELSE @]
    /\ Goto(r, AfterTitle(r))
    /\ UNCHANGED <<row, meta, tags, auth, rels, collectionTables, audit, req, locals>>

ClearMetadata(r) ==
    /\ At(r, "updateAsset", "clear_metadata")
    /\ meta' = [meta EXCEPT ![req[r].asset] = {}]
    /\ Goto(r, "put_metadata")
    /\ UNCHANGED <<row, title, tags, auth, rels, collectionTables, audit, req, locals>>

PutMetadata(r) ==
    /\ At(r, "updateAsset", "put_metadata")
    /\ meta' = [meta EXCEPT ![req[r].asset] = @ \cup {r}]
    /\ Goto(r, "reget")
    /\ UNCHANGED <<row, title, tags, auth, rels, collectionTables, audit, req, locals>>

\* delete: the relations are read for the audit entry BEFORE the soft delete and
\* the cascade; whoever loses the race for the soft delete answers 404.
DeleteGet(r) ==
    /\ At(r, "deleteAsset", "get")
    /\ ReadLive(r, req[r].asset, "snapshot")

\* Mutant of Snapshot: only the outgoing relations are read.
SnapshotFrom(r) ==
    /\ At(r, "deleteAsset", "snapshot")
    /\ snap' = [snap EXCEPT ![r] = {x \in rels : x.from = req[r].asset}]
    /\ Goto(r, "soft_delete")
    /\ UNCHANGED <<tables, audit, req, seen, todo, ctx, child>>

Snapshot(r) ==
    /\ At(r, "deleteAsset", "snapshot")
    /\ snap' = [snap EXCEPT ![r] = Touching(req[r].asset)]
    /\ Goto(r, "soft_delete")
    /\ UNCHANGED <<tables, audit, req, seen, todo, ctx, child>>

\* Mutant of SoftDelete: the number of rows the UPDATE touched is not looked at.
SoftDeleteAnyway(r) ==
    /\ At(r, "deleteAsset", "soft_delete")
    /\ row' = [row EXCEPT ![req[r].asset] = "deleted"]
    /\ Goto(r, "drop_relations")
    /\ UNCHANGED <<title, meta, tags, auth, rels, collectionTables, audit, req, locals>>

SoftDelete(r) ==
    LET a == req[r].asset IN
    /\ At(r, "deleteAsset", "soft_delete")
    /\ row' = [row EXCEPT ![a] = IF Live(a) THEN "deleted" ELSE @]
    /\ Goto(r, IF Live(a) THEN "drop_relations" ELSE "notfound")
    /\ UNCHANGED <<title, meta, tags, auth, rels, collectionTables, audit, req, locals>>

DropRelations(r) ==
    /\ At(r, "deleteAsset", "drop_relations")
    /\ rels' = rels \ Touching(req[r].asset)
    /\ Goto(r, "drop_members")
    /\ UNCHANGED <<assetTables, collectionTables, audit, req, locals>>

DropMembers(r) ==
    /\ At(r, "deleteAsset", "drop_members")
    /\ members' = {m \in members : m.asset # req[r].asset}
    /\ Goto(r, "audit")
    /\ UNCHANGED <<assetTables, rels, colls, cname, audit, req, locals>>

\* add_tag and remove_tag: the tags table knows nothing of deleted_at.  Removing
\* a tag that is not there succeeds as long as the asset is.
TagGet(r) ==
    /\ At(r, "addTag", "get")
    /\ ReadLive(r, req[r].asset, "put_tag")

PutTag(r) ==
    /\ At(r, "addTag", "put_tag")
    /\ tags' = tags \cup {<<req[r].asset, r>>}
    /\ Goto(r, "audit")
    /\ UNCHANGED <<row, title, meta, auth, rels, collectionTables, audit, req, locals>>

DropTag(r) ==
    LET t == <<req[r].asset, req[r].tag>> IN
    /\ At(r, "removeTag", "drop_tag")
    /\ tags' = tags \ {t}
    /\ Goto(r, IF t \in tags THEN "audit" ELSE "tag_missing")
    /\ UNCHANGED <<row, title, meta, auth, rels, collectionTables, audit, req, locals>>

TagMissing(r) ==
    /\ At(r, "removeTag", "tag_missing")
    /\ ReadLive(r, req[r].asset, "audit")

-----------------------------------------------------------------------------
\* update_auth_context: read, merge the fields the request sets, write all.

\* Mutant of Merged: the fields not set come from the asset the request names.
MergedFromParent(a, r) ==
    [f \in Fields |-> IF f \in req[r].fields THEN r ELSE auth[req[r].asset][f]]

Merged(a, r) == [f \in Fields |-> IF f \in req[r].fields THEN r ELSE auth[a][f]]

AuthGet(r) ==
    LET a == req[r].asset IN
    /\ At(r, "setAuth", "get")
    /\ ctx' = [ctx EXCEPT ![r] = IF Live(a) THEN Merged(a, r) ELSE @]
    /\ Goto(r, IF Live(a) THEN "put_auth" ELSE "notfound")
    /\ UNCHANGED <<tables, audit, req, snap, seen, todo, child>>

PutAuth(r) ==
    LET a == req[r].asset IN
    /\ At(r, "setAuth", "put_auth")
    /\ auth' = [auth EXCEPT ![a] = IF Live(a) THEN ctx[r] ELSE @]
    /\ Goto(r, IF Live(a) THEN "reget_auth" ELSE "notfound")
    /\ UNCHANGED <<row, title, meta, tags, rels, collectionTables, audit, req, locals>>

\* The cascade starts a breadth-first walk over the outgoing relations.
AuthReadBack(r) ==
    LET a == req[r].asset
        cascades == Live(a) /\ req[r].cascade IN
    /\ At(r, "setAuth", "reget_auth")
    /\ seen' = [seen EXCEPT ![r] = IF cascades THEN {a} ELSE @]
    /\ todo' = [todo EXCEPT ![r] = IF cascades THEN {a} ELSE @]
    /\ Goto(r, IF ~Live(a) THEN "notfound" ELSE IF cascades THEN "walk" ELSE "audit")
    /\ UNCHANGED <<tables, audit, req, snap, ctx, child>>

\* Mutant of Expand: a node already seen is visited again.
ExpandAgain(r, n) ==
    /\ seen' = [seen EXCEPT ![r] = @ \cup Successors(n)]
    /\ todo' = [todo EXCEPT ![r] = (@ \ {n}) \cup Successors(n)]

\* One SELECT of the walk: the outgoing relations of a node not yet expanded.
Expand(r, n) ==
    /\ seen' = [seen EXCEPT ![r] = @ \cup Successors(n)]
    /\ todo' = [todo EXCEPT ![r] = (@ \ {n}) \cup (Successors(n) \ seen[r])]

WalkDescendants(r) ==
    /\ At(r, "setAuth", "walk")
    /\ \E n \in todo[r] : Expand(r, n)
    /\ UNCHANGED <<tables, audit, req, pc, snap, ctx, child>>

DescendantsFound(r) ==
    /\ At(r, "setAuth", "walk")
    /\ todo[r] = {}
    /\ todo' = [todo EXCEPT ![r] = seen[r] \ {req[r].asset}]
    /\ Goto(r, "child_get")
    /\ UNCHANGED <<tables, audit, req, snap, seen, ctx, child>>

\* Each descendant in turn: read and merge, then write; a child that is gone is
\* passed over.
ChildGet(r) ==
    /\ At(r, "setAuth", "child_get")
    /\ \E c \in todo[r] :
          /\ Live(c)
          /\ ctx' = [ctx EXCEPT ![r] = Merged(c, r)]
          /\ child' = [child EXCEPT ![r] = c]
          /\ todo' = [todo EXCEPT ![r] = @ \ {c}]
    /\ Goto(r, "child_put")
    /\ UNCHANGED <<tables, audit, req, snap, seen>>

ChildGone(r) ==
    /\ At(r, "setAuth", "child_get")
    /\ \E c \in todo[r] : ~Live(c) /\ todo' = [todo EXCEPT ![r] = @ \ {c}]
    /\ UNCHANGED <<tables, audit, req, pc, snap, seen, ctx, child>>

ChildPut(r) ==
    LET c == child[r] IN
    /\ At(r, "setAuth", "child_put")
    /\ auth' = [auth EXCEPT ![c] = IF Live(c) THEN ctx[r] ELSE @]
    /\ Goto(r, "child_get")
    /\ UNCHANGED <<row, title, meta, tags, rels, collectionTables, audit, req, locals>>

\* An error in a child's statement is dropped and the cascade goes on.
ChildError(r) ==
    /\ req[r].op = "setAuth"
    /\ \/ /\ pc[r] = "child_get"
          /\ \E c \in todo[r] : todo' = [todo EXCEPT ![r] = @ \ {c}]
       \/ pc[r] = "child_put" /\ UNCHANGED todo
    /\ Goto(r, "child_get")
    /\ UNCHANGED <<tables, audit, req, snap, seen, ctx, child>>

ChildrenDone(r) ==
    /\ At(r, "setAuth", "child_get")
    /\ todo[r] = {}
    /\ Read(r, "audit")

AssetStep(r) ==
    \/ InsertRow(r) \/ InsertTags(r) \/ InsertMetadata(r) \/ ReadBack(r)
    \/ AdoptExists(r) \/ AdoptTx(r) \/ AdoptDuplicate(r)
    \/ UpdateGet(r) \/ UpdateVerify(r) \/ PutTitle(r) \/ ClearMetadata(r) \/ PutMetadata(r)
    \/ DeleteGet(r) \/ Snapshot(r) \/ SoftDelete(r) \/ DropRelations(r) \/ DropMembers(r)
    \/ TagGet(r) \/ PutTag(r) \/ DropTag(r) \/ TagMissing(r)
    \/ AuthGet(r) \/ PutAuth(r) \/ AuthReadBack(r)
    \/ WalkDescendants(r) \/ DescendantsFound(r)
    \/ ChildGet(r) \/ ChildGone(r) \/ ChildPut(r) \/ ChildrenDone(r)
=============================================================================
