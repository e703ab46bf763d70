----------------------- MODULE CatalogueSerialProofs -----------------------
(***************************************************************************)
(* One at a time and without errors every request is the atomic change, or *)
(* the refusal, that Registry describes: for any tables, relation graph    *)
(* and sequence of requests.                                               *)
(***************************************************************************)
EXTENDS CatalogueSerial, CatalogueProofs

(* The tables when no request is at work.                                  *)

Columns ==
    [row : [Assets -> {"absent", "live", "deleted"}], title : [Assets -> Writers],
     meta : [Assets -> SUBSET Writers], tags : SUBSET (Assets \X Writers),
     auth : [Assets -> [Fields -> Writers]], rels : SUBSET Relations,
     colls : [Collections -> {"absent", "present", "gone"}],
     cname : [Collections -> Writers], members : SUBSET Memberships,
     audit : SUBSET Entries]

\* Column by column, what the tables hold is what T holds.
Agrees(T) ==
    /\ row = T.row /\ title = T.title /\ meta = T.meta /\ tags = T.tags /\ auth = T.auth
    /\ rels = T.rels /\ colls = T.colls /\ cname = T.cname /\ members = T.members
    /\ audit = T.audit

\* No metadata without an asset, no member without a collection.
Whole ==
    /\ settled \in Columns
    /\ \A a \in Assets : settled.row[a] = "absent" => settled.meta[a] = {}
    /\ \A m \in settled.members : settled.colls[m.coll] = "present"

(* What a request at a label has changed of them.                          *)

Untouched == {"get", "exists", "verify", "insert", "adopt_tx", "put_title", "snapshot",
              "soft_delete", "put_tag", "drop_tag", "tag_missing", "put_auth", "to_exists",
              "drop", "coll_exists", "put_member", "drop_member", "put_name"}

Was(a) == settled.row[a]

\* The entry r owes.
Entry(r) == [by |-> r, req |-> req[r], lost |-> Promise!Lost(req[r])]

Creating(r) ==
    LET a == req[r].asset IN
    /\ pc[r] \in {"insert", "insert_tags", "insert_metadata", "reget", "audit"}
    /\ Was(a) = "absent"
    /\ pc[r] = "insert_tags" =>
          Agrees([settled EXCEPT !.row[a] = "live", !.title[a] = r,
                                   !.auth[a] = [f \in Fields |-> r]])
    /\ pc[r] = "insert_metadata" =>
          Agrees([settled EXCEPT !.row[a] = "live", !.title[a] = r,
                                   !.auth[a] = [f \in Fields |-> r],
                                   !.tags = @ \cup {<<a, r>>}])
    /\ pc[r] = "reget" => Agrees(Promise!WithAsset(r, a))

Adopting(r) ==
    LET a == req[r].asset IN
    /\ pc[r] \in {"exists", "adopt_tx", "reget"}
    /\ pc[r] # "exists" => Was(a) = "absent"
    /\ pc[r] = "reget" =>
          Agrees([Promise!WithAsset(r, a) EXCEPT !.audit = @ \cup {Entry(r)}])

Updating(r) ==
    LET a == req[r].asset
        parts == req[r].parts IN
    /\ pc[r] \in {"get", "verify", "put_title", "clear_metadata", "put_metadata",
                  "reget", "audit"}
    /\ pc[r] # "get" => Was(a) = "live"
    /\ pc[r] = "put_title" => "title" \in parts
    /\ pc[r] \in {"clear_metadata", "put_metadata"} => "metadata" \in parts
    /\ pc[r] = "clear_metadata" =>
          Agrees([settled EXCEPT !.title[a] = IF "title" \in parts THEN r ELSE @])
    /\ pc[r] = "put_metadata" =>
          Agrees([settled EXCEPT !.title[a] = IF "title" \in parts THEN r ELSE @,
                                   !.meta[a] = {}])
    /\ pc[r] = "reget" => Agrees(Promise!WithParts(r, req[r]))

\* The snapshot for the entry is what the deletion will remove.
Erasing(r) ==
    LET a == req[r].asset IN
    /\ pc[r] \in {"get", "snapshot", "soft_delete", "drop_relations", "drop_members", "audit"}
    /\ pc[r] # "get" => Was(a) = "live"
    /\ pc[r] \notin {"get", "snapshot"} => snap[r] = Promise!Incident(a)
    /\ pc[r] = "drop_relations" => Agrees([settled EXCEPT !.row[a] = "deleted"])
    /\ pc[r] = "drop_members" =>
          Agrees([settled EXCEPT !.row[a] = "deleted", !.rels = @ \ Promise!Incident(a)])

Tagging(r) ==
    /\ pc[r] \in {"get", "put_tag", "audit"}
    /\ pc[r] # "get" => Was(req[r].asset) = "live"

Untagging(r) ==
    /\ pc[r] \in {"drop_tag", "tag_missing", "audit"}
    /\ pc[r] = "tag_missing" => <<req[r].asset, req[r].tag>> \notin settled.tags

\* The authorization context of the assets in S has been written.
Shared(r, S) ==
    [settled EXCEPT !.auth = [b \in Assets |-> [f \in Fields |->
        IF f \in req[r].fields /\ b \in S THEN r ELSE @[b][f]]]]

\* A search from a: what it has seen descends from a, and what it has expanded
\* leads only to what it has seen.
Visiting(r, a) ==
    /\ a \in seen[r] /\ todo[r] \subseteq seen[r]
    /\ \A b \in seen[r] : Promise!DescendsFrom(b, a)
    /\ \A x \in settled.rels : x.from \in seen[r] \ todo[r] => x.to \in seen[r]

\* The assets of S a cascade writes.
LiveOf(S) == {b \in S : Was(b) = "live"}

\* The assets written so far: the asset, then the live descendants already
\* taken from the worklist.
Sharing(r) ==
    LET a == req[r].asset IN
    /\ pc[r] \in {"get", "put_auth", "reget_auth", "walk", "child_get", "child_put", "audit"}
    /\ pc[r] # "get" => Was(a) = "live"
    /\ pc[r] = "put_auth" => ctx[r] = Merged(a, r)
    /\ pc[r] \in {"reget_auth", "walk"} => Agrees(Shared(r, {a}))
    /\ pc[r] = "walk" => req[r].cascade /\ Visiting(r, a)
    /\ pc[r] \in {"child_get", "child_put"} =>
          /\ req[r].cascade
          /\ seen[r] = {b \in Assets : Promise!DescendsFrom(b, a)}
          /\ a \in seen[r] \ todo[r] /\ todo[r] \subseteq seen[r]
    /\ pc[r] = "child_get" => Agrees(Shared(r, LiveOf(seen[r] \ todo[r])))
    /\ pc[r] = "child_put" =>
          /\ child[r] \in LiveOf(seen[r]) \ (todo[r] \cup {a})
          /\ ctx[r] = Merged(child[r], r)
          /\ Agrees(Shared(r, LiveOf(seen[r] \ (todo[r] \cup {child[r]}))))

\* The search for a cycle has not met the source; one that ended cannot.
Relating(r) ==
    LET q == req[r] IN
    /\ pc[r] \in {"exists", "to_exists", "walk", "insert", "audit"}
    /\ Was(q.from) # "absent" /\ Was(q.to) # "absent"
    /\ pc[r] = "walk" =>
          /\ Agrees(settled) /\ Visiting(r, q.to)
          /\ q.from \notin seen[r] \ todo[r]
    /\ pc[r] = "insert" => ~Promise!DescendsFrom(q.from, q.to)

Unrelating(r) ==
    /\ pc[r] \in {"get", "drop", "audit"}
    /\ pc[r] = "drop" => req[r].rel \in settled.rels /\ snap[r] = {req[r].rel}

Naming(r) ==
    LET q == req[r] IN
    /\ q.op = "createCollection" => pc[r] \in {"insert", "audit"}
    /\ q.op = "updateCollection" => pc[r] \in {"get", "verify", "put_name", "reget", "audit"}
    /\ q.op = "deleteCollection" => pc[r] \in {"get", "drop", "audit"}
    /\ pc[r] \in {"verify", "put_name", "drop", "reget"} => settled.colls[q.coll] = "present"
    /\ pc[r] = "reget" => Agrees([settled EXCEPT !.cname[q.coll] = r])

Joining(r) ==
    LET q == req[r] IN
    /\ q.op = "addMember" => pc[r] \in {"get", "coll_exists", "put_member", "audit"}
    /\ q.op = "removeMember" => pc[r] \in {"drop_member", "coll_exists", "audit"}
    /\ q.op = "addMember" /\ pc[r] # "get" => Was(q.asset) = "live"
    /\ pc[r] = "put_member" => settled.colls[q.coll] = "present"
    /\ q.op = "removeMember" /\ pc[r] = "coll_exists" =>
          [coll |-> q.coll, asset |-> q.asset] \notin settled.members

\* Where a request at work is, whatever it does.
Progress(r) ==
    LET op == req[r].op IN
    /\ req[r] \in Request /\ op \in Operations
    /\ op \notin {"deleteAsset", "deleteRelation"} => snap[r] = {}
    /\ pc[r] \in Untouched => Agrees(settled)
    /\ pc[r] = "audit" =>
          /\ Promise!Refusal(req[r]) = "none" /\ snap[r] = Promise!Lost(req[r])
          /\ Agrees(Promise!Changed(r, req[r]))
    /\ op = "createAsset" => Creating(r)
    /\ op = "adoptAsset" => Adopting(r)
    /\ op = "updateAsset" => Updating(r)
    /\ op = "deleteAsset" => Erasing(r)
    /\ op = "addTag" => Tagging(r)
    /\ op = "removeTag" => Untagging(r)
    /\ op = "setAuth" => Sharing(r)
    /\ op = "createRelation" => Relating(r)
    /\ op = "deleteRelation" => Unrelating(r)
    /\ op \in {"createCollection", "updateCollection", "deleteCollection"} => Naming(r)
    /\ op \in {"addMember", "removeMember"} => Joining(r)

\* At most one request is at work, and it has made exactly the changes its label
\* says; with none at work the tables are the settled ones.
SerialInv ==
    /\ Whole
    /\ \A r \in Requests : pc[r] = "idle" => snap[r] = {}
    /\ \A r \in Requests : Running(r) => Progress(r)
    /\ \A r, p \in Requests : Running(r) /\ Running(p) => r = p
    /\ (\A r \in Requests : ~Running(r)) => settled = Tables

(* How one statement goes on.                                              *)

\* How a request ends: with the change and its entry, or with a refusal.
Concludes(r) ==
    \/ /\ Promise!Refusal(req[r]) = "none" /\ pc'[r] = "ok"
       /\ Tables' = [Promise!Changed(r, req[r]) EXCEPT !.audit = @ \cup {Entry(r)}]
    \/ /\ Promise!Refusal(req[r]) # "none" /\ pc'[r] = Promise!Refusal(req[r])
       /\ Tables' = settled

\* One statement takes r to its next place, or concludes it.
Proceeds(r) == IF pc'[r] \in Working THEN Progress(r)' ELSE Concludes(r)

\* What settled records of it.
Settles(r) == settled' = IF pc'[r] \in Working THEN settled ELSE Tables'

ColumnNames == {"row", "title", "meta", "tags", "auth", "rels", "colls", "cname", "members",
                "audit"}

\* For a record with the columns of the tables, agreeing is being equal.
LEMMA AgreeingIsEqual ==
    ASSUME NEW T, T = [i \in ColumnNames |-> T[i]]
    PROVE  Agrees(T) <=> Tables = T
BY DEF Agrees, Tables, ColumnNames

\* The settled tables are such a record.
LEMMA SettledColumns ==
    ASSUME Whole
    PROVE  settled = [i \in ColumnNames |-> settled[i]]
BY DEF Whole, Columns, ColumnNames

\* A statement that only reads leaves the tables as they are.
LEMMA ReadKeeps ==
    ASSUME TypeOK, NEW r \in Requests, NEW label, Read(r, label), Agrees(settled)
    PROVE  /\ pc'[r] = label /\ req' = req /\ snap' = snap /\ Tables' = Tables
           /\ UNCHANGED <<seen, todo, ctx, child>>
           /\ settled' = settled => Agrees(settled)'
BY DEF Read, Goto, TypeOK, tables, assetTables, collectionTables, locals, Tables, Agrees

\* A request refused before it wrote anything has concluded.
LEMMA Refuses ==
    ASSUME Whole, NEW r \in Requests, Agrees(settled), Tables' = Tables,
           pc'[r] = Promise!Refusal(req[r]), pc'[r] \in {"notfound", "invalid", "conflict"}
    PROVE  Proceeds(r)
<1>1. Tables' = settled
  BY AgreeingIsEqual, SettledColumns
<1> QED BY <1>1 DEF Proceeds, Concludes, Working

\* Well-typed tables, and what settled holds when it equals them.
LEMMA ColumnsOf ==
    ASSUME TypeOK
    PROVE  /\ Tables \in Columns
           /\ settled = Tables => /\ settled.row = row /\ settled.title = title
                                  /\ settled.meta = meta /\ settled.tags = tags
                                  /\ settled.auth = auth /\ settled.rels = rels
                                  /\ settled.colls = colls /\ settled.cname = cname
                                  /\ settled.members = members /\ settled.audit = audit
BY DEF TypeOK, Tables, Columns

\* The statements each operation consists of.
LEMMA OpSteps ==
    ASSUME NEW r \in Requests, Step(r)
    PROVE  \/ WriteAudit(r)
           \/ /\ req[r].op = "createAsset"
              /\ InsertRow(r) \/ InsertTags(r) \/ InsertMetadata(r) \/ ReadBack(r)
           \/ /\ req[r].op = "adoptAsset"
              /\ AdoptExists(r) \/ AdoptTx(r) \/ AdoptDuplicate(r) \/ ReadBack(r)
           \/ /\ req[r].op = "updateAsset"
              /\ \/ UpdateGet(r) \/ UpdateVerify(r) \/ PutTitle(r) \/ ClearMetadata(r)
                 \/ PutMetadata(r) \/ ReadBack(r)
           \/ /\ req[r].op = "deleteAsset"
              /\ DeleteGet(r) \/ Snapshot(r) \/ SoftDelete(r) \/ DropRelations(r) \/ DropMembers(r)
           \/ req[r].op = "addTag" /\ (TagGet(r) \/ PutTag(r))
           \/ req[r].op = "removeTag" /\ (DropTag(r) \/ TagMissing(r))
           \/ /\ req[r].op = "setAuth"
              /\ \/ AuthGet(r) \/ PutAuth(r) \/ AuthReadBack(r) \/ WalkDescendants(r)
                 \/ DescendantsFound(r) \/ ChildGet(r) \/ ChildGone(r) \/ ChildPut(r)
                 \/ ChildrenDone(r)
           \/ /\ req[r].op = "createRelation"
              /\ \/ FromExists(r) \/ ToExists(r) \/ WalkForCycle(r) \/ CycleFound(r)
                 \/ NoCycle(r) \/ InsertRelation(r)
           \/ req[r].op = "deleteRelation" /\ (RelationGet(r) \/ DropRelation(r))
           \/ req[r].op = "createCollection" /\ InsertCollection(r)
           \/ /\ req[r].op = "updateCollection"
              /\ CollectionGet(r) \/ CollectionVerify(r) \/ PutName(r) \/ CollectionReadBack(r)
           \/ req[r].op = "deleteCollection" /\ (CollectionGet(r) \/ DropCollection(r))
           \/ req[r].op = "addMember" /\ (MemberGet(r) \/ MemberCollection(r) \/ PutMember(r))
           \/ req[r].op = "removeMember" /\ (MemberCollection(r) \/ DropMember(r))
<1>1. CASE ReadBack(r)
  <2>1. req[r].op \in {"createAsset", "adoptAsset", "updateAsset"}
    BY <1>1 DEF ReadBack
  <2> QED BY <1>1, <2>1, Zenon
<1>2. CASE MemberCollection(r)
  <2>1. req[r].op \in {"addMember", "removeMember"}
    BY <1>2 DEF MemberCollection
  <2> QED BY <1>2, <2>1, Zenon
<1>3. CASE CollectionGet(r)
  <2>1. req[r].op \in {"updateCollection", "deleteCollection"}
    BY <1>3 DEF CollectionGet
  <2> QED BY <1>3, <2>1, Zenon
<1>4. CASE AssetStep(r) /\ ~ReadBack(r)
  BY <1>4, Zenon DEF AssetStep, At, InsertRow, InsertTags, InsertMetadata, AdoptExists, AdoptTx,
     AdoptDuplicate, UpdateGet, UpdateVerify, PutTitle, ClearMetadata, PutMetadata, DeleteGet,
     Snapshot, SoftDelete, DropRelations, DropMembers, TagGet, PutTag, DropTag, TagMissing,
     AuthGet, PutAuth, AuthReadBack, WalkDescendants, DescendantsFound, ChildGet, ChildGone,
     ChildPut, ChildrenDone
<1>5. CASE \/ FromExists(r) \/ ToExists(r) \/ WalkForCycle(r) \/ CycleFound(r) \/ NoCycle(r)
           \/ InsertRelation(r) \/ RelationGet(r) \/ DropRelation(r)
  BY <1>5, Zenon DEF At, FromExists, ToExists, WalkForCycle, CycleFound, NoCycle,
     InsertRelation, RelationGet, DropRelation
<1>6. CASE \/ InsertCollection(r) \/ CollectionVerify(r) \/ PutName(r) \/ CollectionReadBack(r)
           \/ DropCollection(r) \/ MemberGet(r) \/ PutMember(r) \/ DropMember(r)
  BY <1>6, Zenon DEF At, InsertCollection, CollectionVerify, PutName, CollectionReadBack,
     DropCollection, MemberGet, PutMember, DropMember
<1> QED BY <1>1, <1>2, <1>3, <1>4, <1>5, <1>6, Zenon DEF Step, LinkStep

\* Each statement of a create takes it to the next place or to its end.
LEMMA CreateProgress ==
    ASSUME TypeOK, Whole, NEW r \in Requests, Progress(r), Settles(r),
           req[r].op = "createAsset",
           InsertRow(r) \/ InsertTags(r) \/ InsertMetadata(r) \/ ReadBack(r)
    PROVE  Proceeds(r)
<1> DEFINE a == req[r].asset
<1>1. a \in Assets /\ req[r] \in Request /\ snap[r] = {} /\ Creating(r) /\ settled \in Columns
  BY RequestFields DEF OnAsset, Progress, Whole
<1>2. CASE InsertRow(r)
  <2>1. /\ Agrees(settled) /\ pc'[r] = "insert_tags" /\ settled' = settled
        /\ row' = [row EXCEPT ![a] = "live"] /\ title' = [title EXCEPT ![a] = r]
        /\ auth' = [auth EXCEPT ![a] = [f \in Fields |-> r]]
        /\ UNCHANGED <<meta, tags, rels, colls, cname, members, audit, req, snap>>
    BY <1>2 DEF InsertRow, At, Progress, Untouched, Goto, TypeOK, Settles, Working, locals,
       collectionTables
  <2>2. Agrees([settled EXCEPT !.row[a] = "live", !.title[a] = r,
                               !.auth[a] = [f \in Fields |-> r]])'
    BY <1>1, <2>1 DEF Agrees, Columns
  <2> QED BY <1>1, <2>1, <2>2 DEF Proceeds, Progress, Creating, Working, Untouched, Was
<1>3. CASE InsertTags(r)
  <2>1. /\ pc[r] = "insert_tags" /\ pc'[r] = "insert_metadata" /\ settled' = settled
        /\ tags' = tags \cup {<<a, r>>}
        /\ UNCHANGED <<row, title, meta, auth, rels, colls, cname, members, audit, req, snap>>
    BY <1>3 DEF InsertTags, At, Goto, TypeOK, Settles, Working, locals, collectionTables
  <2>2. Agrees([settled EXCEPT !.row[a] = "live", !.title[a] = r,
                               !.auth[a] = [f \in Fields |-> r], !.tags = @ \cup {<<a, r>>}])'
    BY <1>1, <2>1 DEF Agrees, Creating, Columns
  <2> QED BY <1>1, <2>1, <2>2 DEF Proceeds, Progress, Creating, Working, Untouched, Was
<1>4. CASE InsertMetadata(r)
  <2>1. /\ pc[r] = "insert_metadata" /\ pc'[r] = "reget" /\ settled' = settled
        /\ meta' = [meta EXCEPT ![a] = @ \cup {r}]
        /\ UNCHANGED <<row, title, tags, auth, rels, colls, cname, members, audit, req, snap>>
    BY <1>4 DEF InsertMetadata, At, Goto, TypeOK, Settles, Working, locals, collectionTables
  <2>2. meta = settled.meta /\ meta[a] = {}
    BY <1>1, <2>1 DEF Agrees, Creating, Whole, Columns, Was
  <2>3. Agrees(Promise!WithAsset(r, a))'
    BY <1>1, <2>1, <2>2 DEF Agrees, Creating, Columns, Promise!WithAsset
  <2> QED BY <1>1, <2>1, <2>3 DEF Proceeds, Progress, Creating, Working, Untouched, Was
<1>5. CASE ReadBack(r)
  <2>1. Agrees(Promise!WithAsset(r, a)) /\ pc[r] = "reget"
    BY <1>1, <1>5 DEF ReadBack, Creating
  <2>2. row[a] = "live"
    BY <1>1, <2>1 DEF Agrees, Promise!WithAsset, Columns
  <2>3. /\ pc'[r] = "audit" /\ settled' = settled /\ req' = req /\ snap' = snap
        /\ UNCHANGED <<row, title, meta, tags, auth, rels, colls, cname, members, audit>>
    BY <1>5, <2>2 DEF ReadBack, ReadLive, Read, Live, Goto, TypeOK, Settles, Working, locals,
       tables, assetTables, collectionTables
  <2>4. /\ (Promise!Refusal(req[r]) = "none")' /\ (snap[r] = Promise!Lost(req[r]))'
        /\ Agrees(Promise!Changed(r, req[r]))'
    <3>1. (Promise!Refusal(req[r]) = "none")' /\ (snap[r] = Promise!Lost(req[r]))'
      BY <1>1, <2>3 DEF Promise!Refusal, Promise!Lost
    <3>2. Promise!Changed(r, req[r])' = Promise!WithAsset(r, a)'
      BY <2>3 DEF Promise!Changed
    <3>3. Promise!WithAsset(r, a)' = Promise!WithAsset(r, a)
      BY <2>3 DEF Promise!WithAsset
    <3> QED BY <2>1, <2>3, <3>1, <3>2, <3>3 DEF Agrees
  <2> QED BY <1>1, <2>3, <2>4 DEF Proceeds, Progress, Creating, Working, Untouched, Was
<1> QED BY <1>2, <1>3, <1>4, <1>5

\* The same of an adopt, whose single transaction writes the entry too.
LEMMA AdoptProgress ==
    ASSUME TypeOK, Whole, NEW r \in Requests, Progress(r), Settles(r),
           req[r].op = "adoptAsset",
           AdoptExists(r) \/ AdoptTx(r) \/ AdoptDuplicate(r) \/ ReadBack(r)
    PROVE  Proceeds(r)
<1> DEFINE a == req[r].asset
<1>1. a \in Assets /\ req[r] \in Request /\ snap[r] = {} /\ Adopting(r) /\ settled \in Columns
  BY RequestFields DEF OnAsset, Progress, Whole
<1>2. CASE AdoptExists(r)
  <2>1. /\ Agrees(settled) /\ pc'[r] = IF Was(a) = "absent" THEN "adopt_tx" ELSE "conflict"
        /\ req' = req /\ snap' = snap
        /\ UNCHANGED <<row, title, meta, tags, auth, rels, colls, cname, members, audit>>
    BY <1>2 DEF AdoptExists, At, Read, Exists, Was, Agrees, Progress, Untouched, Goto, TypeOK,
       locals, tables, assetTables, collectionTables
  <2>2. CASE Was(a) = "absent"
    <3>1. settled' = settled /\ Agrees(settled)'
      BY <2>1, <2>2 DEF Settles, Working, Agrees
    <3> QED BY <1>1, <2>1, <2>2, <3>1 DEF Proceeds, Progress, Adopting, Working, Untouched, Was
  <2>3. CASE Was(a) # "absent"
    <3>1. Tables' = settled
      BY <2>1, AgreeingIsEqual, SettledColumns DEF Tables
    <3>2. Promise!Refusal(req[r]) = "conflict"
      BY <2>3 DEF Promise!Refusal, Promise!HasRow, Promise!Row, Was
    <3> QED BY <2>1, <2>3, <3>1, <3>2 DEF Proceeds, Concludes, Working
  <2> QED BY <2>2, <2>3
<1>3. CASE AdoptTx(r)
  <2>1. /\ Agrees(settled) /\ pc[r] = "adopt_tx" /\ pc'[r] = "reget" /\ settled' = settled
        /\ row' = [row EXCEPT ![a] = "live"] /\ title' = [title EXCEPT ![a] = r]
        /\ auth' = [auth EXCEPT ![a] = [f \in Fields |-> r]]
        /\ tags' = tags \cup {<<a, r>>} /\ meta' = [meta EXCEPT ![a] = @ \cup {r}]
        /\ audit' = audit \cup {[by |-> r, req |-> req[r], lost |-> {}]}
        /\ UNCHANGED <<rels, colls, cname, members, req, snap>>
    BY <1>3 DEF AdoptTx, Adopted, At, Progress, Untouched, Goto, TypeOK, Settles, Working,
       locals, collectionTables
  <2>2. meta = settled.meta /\ meta[a] = {}
    BY <1>1, <2>1 DEF Agrees, Adopting, Whole, Columns, Was
  <2>3. Entry(r)' = [by |-> r, req |-> req[r], lost |-> {}]
    BY <2>1 DEF Entry, Promise!Lost
  <2>4. Agrees([Promise!WithAsset(r, a) EXCEPT !.audit = @ \cup {Entry(r)}])'
    BY <1>1, <2>1, <2>2, <2>3 DEF Agrees, Columns, Promise!WithAsset
  <2> QED BY <1>1, <2>1, <2>4 DEF Proceeds, Progress, Adopting, Working, Untouched, Was
<1>4. CASE AdoptDuplicate(r)
  BY <1>1, <1>4 DEF AdoptDuplicate, At, Progress, Untouched, Agrees, Adopting, Was, Exists
<1>5. CASE ReadBack(r)
  <2>1. /\ pc[r] = "reget" /\ Was(a) = "absent"
        /\ Agrees([Promise!WithAsset(r, a) EXCEPT !.audit = @ \cup {Entry(r)}])
    BY <1>1, <1>5 DEF ReadBack, Adopting
  <2>2. row[a] = "live"
    BY <1>1, <2>1 DEF Agrees, Promise!WithAsset, Columns
  <2>3. /\ pc'[r] = "ok"
        /\ UNCHANGED <<row, title, meta, tags, auth, rels, colls, cname, members, audit>>
    BY <1>5, <2>2 DEF ReadBack, ReadLive, Read, Live, Goto, TypeOK, tables, assetTables,
       collectionTables
  <2>4. Promise!Refusal(req[r]) = "none" /\ Promise!Changed(r, req[r]) = Promise!WithAsset(r, a)
    BY <2>1 DEF Promise!Refusal, Promise!HasRow, Promise!Row, Was, Promise!Changed
  <2>5. Tables = [Promise!WithAsset(r, a) EXCEPT !.audit = @ \cup {Entry(r)}]
    <3> DEFINE W == Promise!WithAsset(r, a)
    <3>1. W = [i \in ColumnNames |-> W[i]]
      BY SettledColumns DEF Promise!WithAsset
    <3> HIDE DEF W
    <3>2. [W EXCEPT !.audit = @ \cup {Entry(r)}] =
             [i \in ColumnNames |-> [W EXCEPT !.audit = @ \cup {Entry(r)}][i]]
      BY <3>1
    <3> QED BY <2>1, <3>2, AgreeingIsEqual DEF W
  <2> QED BY <2>3, <2>4, <2>5 DEF Proceeds, Concludes, Working, Tables
<1> QED BY <1>2, <1>3, <1>4, <1>5

\* The same of an update: the parts it does not set stay.
LEMMA UpdateProgress ==
    ASSUME TypeOK, Whole, NEW r \in Requests, Progress(r), Settles(r),
           req[r].op = "updateAsset",
           \/ UpdateGet(r) \/ UpdateVerify(r) \/ PutTitle(r) \/ ClearMetadata(r)
           \/ PutMetadata(r) \/ ReadBack(r)
    PROVE  Proceeds(r)
<1> DEFINE a == req[r].asset
           parts == req[r].parts
<1>1. /\ a \in Assets /\ req[r] \in Request /\ snap[r] = {} /\ Updating(r) /\ settled \in Columns
      /\ Agrees(settled) => row[a] = Was(a)
  BY RequestFields DEF OnAsset, Progress, Whole, Agrees, Was
<1>2. CASE UpdateGet(r) \/ UpdateVerify(r)
  <2>1. /\ Agrees(settled) /\ req' = req /\ snap' = snap
        /\ \/ pc[r] = "get" /\ pc'[r] = (IF Was(a) = "live" THEN "verify" ELSE "notfound")
           \/ pc[r] = "verify" /\ pc'[r] = AfterVerify(r)
        /\ UNCHANGED <<row, title, meta, tags, auth, rels, colls, cname, members, audit>>
    <3>1. CASE UpdateGet(r)
      BY <1>1, <3>1 DEF UpdateGet, At, ReadLive, Read, Live, Progress, Untouched, Goto, TypeOK,
         locals, tables, assetTables, collectionTables
    <3>2. CASE UpdateVerify(r)
      <4>1. pc[r] = "verify" /\ Agrees(settled) /\ Live(a)
        BY <1>1, <3>2 DEF UpdateVerify, At, Progress, Untouched, Updating, Live
      <4> QED BY <3>2, <4>1 DEF UpdateVerify, ReadLive, Read, Goto, TypeOK, locals, tables,
              assetTables, collectionTables
    <3> QED BY <1>2, <3>1, <3>2
  <2>2. CASE pc'[r] = "notfound"
    <3>1. Tables' = settled
      BY <2>1, AgreeingIsEqual, SettledColumns DEF Tables
    <3>2. Promise!Refusal(req[r]) = "notfound"
      BY <2>1, <2>2 DEF Promise!Refusal, Promise!IsLive, Promise!Row, Was, AfterVerify, AfterTitle
    <3> QED BY <2>2, <3>1, <3>2 DEF Proceeds, Concludes, Working
  <2>3. CASE pc'[r] # "notfound"
    <3>1. settled' = settled /\ Was(a) = "live"
      BY <1>1, <2>1, <2>3 DEF Settles, Working, AfterVerify, AfterTitle, Updating
    <3>2. /\ Agrees(settled)'
          /\ "title" \notin parts => Agrees([settled EXCEPT !.title[a] = IF "title" \in parts THEN r ELSE @])'
          /\ parts \cap {"title", "metadata"} = {} => Agrees(Promise!WithParts(r, req[r]))'
      BY <1>1, <2>1, <3>1 DEF Agrees, Columns, Promise!WithParts
    <3> QED BY <1>1, <2>1, <2>3, <3>1, <3>2 DEF Proceeds, Progress, Updating, Working, Untouched,
            Was, AfterVerify, AfterTitle
  <2> QED BY <2>2, <2>3
<1>3. CASE PutTitle(r)
  <2>1. /\ Agrees(settled) /\ pc[r] = "put_title" /\ pc'[r] = AfterTitle(r) /\ settled' = settled
        /\ Was(a) = "live" /\ "title" \in parts
        /\ title' = [title EXCEPT ![a] = r]
        /\ UNCHANGED <<row, meta, tags, auth, rels, colls, cname, members, audit, req, snap>>
    BY <1>1, <1>3 DEF PutTitle, At, Live, Progress, Untouched, Updating, Goto, TypeOK, Settles,
       Working, AfterTitle, locals, collectionTables
  <2>2. /\ Agrees([settled EXCEPT !.title[a] = IF "title" \in parts THEN r ELSE @])'
        /\ "metadata" \notin parts => Agrees(Promise!WithParts(r, req[r]))'
    BY <1>1, <2>1 DEF Agrees, Columns, Promise!WithParts
  <2> QED BY <1>1, <2>1, <2>2 DEF Proceeds, Progress, Updating, Working, Untouched, Was, AfterTitle
<1>4. CASE ClearMetadata(r)
  <2>1. /\ pc[r] = "clear_metadata" /\ pc'[r] = "put_metadata" /\ settled' = settled
        /\ meta' = [meta EXCEPT ![a] = {}]
        /\ UNCHANGED <<row, title, tags, auth, rels, colls, cname, members, audit, req, snap>>
    BY <1>4 DEF ClearMetadata, At, Goto, TypeOK, Settles, Working, locals, collectionTables
  <2>2. Agrees([settled EXCEPT !.title[a] = IF "title" \in parts THEN r ELSE @, !.meta[a] = {}])'
    BY <1>1, <2>1 DEF Agrees, Columns, Updating
  <2> QED BY <1>1, <2>1, <2>2 DEF Proceeds, Progress, Updating, Working, Untouched, Was
<1>5. CASE PutMetadata(r)
  <2>1. /\ pc[r] = "put_metadata" /\ pc'[r] = "reget" /\ settled' = settled
        /\ meta' = [meta EXCEPT ![a] = @ \cup {r}]
        /\ UNCHANGED <<row, title, tags, auth, rels, colls, cname, members, audit, req, snap>>
    BY <1>5 DEF PutMetadata, At, Goto, TypeOK, Settles, Working, locals, collectionTables
  <2>2. /\ "metadata" \in parts /\ meta = [settled.meta EXCEPT ![a] = {}]
        /\ title = [settled.title EXCEPT ![a] = IF "title" \in parts THEN r ELSE @]
        /\ row = settled.row /\ tags = settled.tags /\ auth = settled.auth /\ rels = settled.rels
        /\ colls = settled.colls /\ cname = settled.cname /\ members = settled.members
        /\ audit = settled.audit
    BY <1>1, <2>1 DEF Agrees, Columns, Updating
  <2>3. meta' = [settled.meta EXCEPT ![a] = IF "metadata" \in parts THEN {r} ELSE @]
    BY <1>1, <2>1, <2>2 DEF Columns
  <2>4. Agrees(Promise!WithParts(r, req[r]))'
    BY <1>1, <2>1, <2>2, <2>3 DEF Agrees, Columns, Promise!WithParts
  <2> QED BY <1>1, <2>1, <2>2, <2>4 DEF Proceeds, Progress, Updating, Working, Untouched, Was
<1>6. CASE ReadBack(r)
  <2>1. Agrees(Promise!WithParts(r, req[r])) /\ pc[r] = "reget" /\ Was(a) = "live"
    BY <1>1, <1>6 DEF ReadBack, Updating
  <2>2. row[a] = "live"
    BY <1>1, <2>1 DEF Agrees, Promise!WithParts, Columns, Was
  <2>3. /\ pc'[r] = "audit" /\ settled' = settled /\ req' = req /\ snap' = snap
        /\ UNCHANGED <<row, title, meta, tags, auth, rels, colls, cname, members, audit>>
    BY <1>6, <2>2 DEF ReadBack, ReadLive, Read, Live, Goto, TypeOK, Settles, Working, locals,
       tables, assetTables, collectionTables
  <2>4. /\ (Promise!Refusal(req[r]) = "none")' /\ (snap[r] = Promise!Lost(req[r]))'
        /\ Agrees(Promise!Changed(r, req[r]))'
    BY <1>1, <2>1, <2>3 DEF Promise!Refusal, Promise!Lost, Promise!Changed, Promise!WithParts,
       Agrees, Was, Promise!IsLive, Promise!Row
  <2> QED BY <1>1, <2>1, <2>3, <2>4 DEF Proceeds, Progress, Updating, Working, Untouched, Was
<1> QED BY <1>2, <1>3, <1>4, <1>5, <1>6

\* The same of a deletion: the relations in its entry are those it removes.
LEMMA DeleteProgress ==
    ASSUME TypeOK, Whole, NEW r \in Requests, Progress(r), Settles(r),
           req[r].op = "deleteAsset",
           DeleteGet(r) \/ Snapshot(r) \/ SoftDelete(r) \/ DropRelations(r) \/ DropMembers(r)
    PROVE  Proceeds(r)
<1> DEFINE a == req[r].asset
<1>1. /\ a \in Assets /\ req[r] \in Request /\ Erasing(r) /\ settled \in Columns
      /\ Agrees(settled) => row[a] = Was(a)
  BY RequestFields DEF OnAsset, Progress, Whole, Agrees, Was
<1>2. CASE DeleteGet(r)
  <2>1. Agrees(settled) /\ Read(r, IF Was(a) = "live" THEN "snapshot" ELSE "notfound")
    BY <1>1, <1>2 DEF DeleteGet, At, ReadLive, Live, Progress, Untouched
  <2>2. CASE Was(a) = "live"
    <3>1. /\ pc'[r] = "snapshot" /\ req' = req /\ snap' = snap /\ settled' = settled
          /\ Agrees(settled)'
      BY <2>1, <2>2, ReadKeeps DEF Settles, Working
    <3> QED BY <1>1, <2>2, <3>1 DEF Proceeds, Progress, Erasing, Working, Untouched, Was
  <2>3. CASE Was(a) # "live"
    <3>1. Promise!Refusal(req[r]) = "notfound"
      BY <2>3 DEF Promise!Refusal, Promise!IsLive, Promise!Row, Was
    <3> QED BY <2>1, <2>3, <3>1, ReadKeeps, Refuses
  <2> QED BY <2>2, <2>3
<1>3. CASE Snapshot(r)
  <2>1. /\ Agrees(settled) /\ pc[r] = "snapshot" /\ pc'[r] = "soft_delete" /\ settled' = settled
        /\ snap'[r] = Touching(a)
        /\ UNCHANGED <<row, title, meta, tags, auth, rels, colls, cname, members, audit, req>>
    BY <1>3 DEF Snapshot, At, Progress, Untouched, Goto, TypeOK, Settles, Working, tables,
       assetTables, collectionTables
  <2>2. Agrees(settled)' /\ snap'[r] = Promise!Incident(a)'
    BY <2>1 DEF Agrees, Touching, Promise!Incident
  <2> QED BY <1>1, <2>1, <2>2 DEF Proceeds, Progress, Erasing, Working, Untouched, Was
<1>4. CASE SoftDelete(r)
  <2>1. /\ Agrees(settled) /\ pc[r] = "soft_delete" /\ pc'[r] = "drop_relations"
        /\ settled' = settled /\ row' = [row EXCEPT ![a] = "deleted"]
        /\ UNCHANGED <<title, meta, tags, auth, rels, colls, cname, members, audit, req, snap>>
    BY <1>1, <1>4 DEF SoftDelete, At, Live, Progress, Untouched, Erasing, Goto, TypeOK, Settles,
       Working, locals, collectionTables
  <2>2. Agrees([settled EXCEPT !.row[a] = "deleted"])' /\ snap'[r] = Promise!Incident(a)'
    BY <1>1, <2>1 DEF Agrees, Columns, Erasing, Promise!Incident
  <2> QED BY <1>1, <2>1, <2>2 DEF Proceeds, Progress, Erasing, Working, Untouched, Was
<1>5. CASE DropRelations(r)
  <2>1. /\ pc[r] = "drop_relations" /\ pc'[r] = "drop_members" /\ settled' = settled
        /\ rels' = rels \ Touching(a)
        /\ UNCHANGED <<row, title, meta, tags, auth, colls, cname, members, audit, req, snap>>
    BY <1>5 DEF DropRelations, At, Goto, TypeOK, Settles, Working, locals, assetTables,
       collectionTables
  <2>2. rels = settled.rels /\ Touching(a) = Promise!Incident(a)
    BY <1>1, <2>1 DEF Agrees, Columns, Erasing, Touching, Promise!Incident
  <2>3. /\ Agrees([settled EXCEPT !.row[a] = "deleted", !.rels = @ \ Promise!Incident(a)])'
        /\ snap'[r] = Promise!Incident(a)'
    BY <1>1, <2>1, <2>2 DEF Agrees, Columns, Erasing, Promise!Incident
  <2> QED BY <1>1, <2>1, <2>3 DEF Proceeds, Progress, Erasing, Working, Untouched, Was
<1>6. CASE DropMembers(r)
  <2>1. /\ pc[r] = "drop_members" /\ pc'[r] = "audit" /\ settled' = settled
        /\ members' = {m \in members : m.asset # a}
        /\ UNCHANGED <<row, title, meta, tags, auth, rels, colls, cname, audit, req, snap>>
    BY <1>6 DEF DropMembers, At, Goto, TypeOK, Settles, Working, locals, assetTables
  <2>2. Agrees(Promise!WithoutAsset(a))' /\ snap'[r] = Promise!Incident(a)'
    BY <1>1, <2>1 DEF Agrees, Columns, Erasing, Promise!Incident, Promise!WithoutAsset
  <2>3. /\ (Promise!Refusal(req[r]) = "none")' /\ (snap[r] = Promise!Lost(req[r]))'
        /\ Agrees(Promise!Changed(r, req[r]))'
    BY <1>1, <2>1, <2>2 DEF Promise!Refusal, Promise!Lost, Promise!Changed, Erasing, Was,
       Promise!IsLive, Promise!Row
  <2> QED BY <1>1, <2>1, <2>2, <2>3 DEF Proceeds, Progress, Erasing, Working, Untouched, Was
<1> QED BY <1>2, <1>3, <1>4, <1>5, <1>6

\* The same of adding and removing a tag.
LEMMA TagProgress ==
    ASSUME TypeOK, Whole, NEW r \in Requests, Progress(r), Settles(r),
           \/ req[r].op = "addTag" /\ (TagGet(r) \/ PutTag(r))
           \/ req[r].op = "removeTag" /\ (DropTag(r) \/ TagMissing(r))
    PROVE  Proceeds(r)
<1> DEFINE a == req[r].asset
           t == <<req[r].asset, req[r].tag>>
<1>1. /\ a \in Assets /\ req[r] \in Request /\ snap[r] = {} /\ settled \in Columns
      /\ Agrees(settled) => row[a] = Was(a)
      /\ req[r].op = "addTag" => Tagging(r)
      /\ req[r].op = "removeTag" => Untagging(r)
  BY RequestFields DEF OnAsset, Progress, Whole, Agrees, Was
<1>2. CASE TagGet(r)
  <2>1. /\ req[r].op = "addTag" /\ Agrees(settled)
        /\ Read(r, IF Was(a) = "live" THEN "put_tag" ELSE "notfound")
    BY <1>1, <1>2 DEF TagGet, At, ReadLive, Live, Progress, Untouched
  <2>2. CASE Was(a) = "live"
    <3>1. /\ pc'[r] = "put_tag" /\ req' = req /\ snap' = snap /\ settled' = settled
          /\ Agrees(settled)'
      BY <2>1, <2>2, ReadKeeps DEF Settles, Working
    <3> QED BY <1>1, <2>1, <2>2, <3>1 DEF Proceeds, Progress, Tagging, Working, Untouched, Was
  <2>3. CASE Was(a) # "live"
    <3>1. Promise!Refusal(req[r]) = "notfound"
      BY <2>1, <2>3 DEF Promise!Refusal, Promise!IsLive, Promise!Row, Was
    <3> QED BY <2>1, <2>3, <3>1, ReadKeeps, Refuses
  <2> QED BY <2>2, <2>3
<1>3. CASE PutTag(r)
  <2>1. /\ Agrees(settled) /\ req[r].op = "addTag" /\ pc[r] = "put_tag" /\ pc'[r] = "audit"
        /\ settled' = settled /\ tags' = tags \cup {<<a, r>>}
        /\ UNCHANGED <<row, title, meta, auth, rels, colls, cname, members, audit, req, snap>>
    BY <1>3 DEF PutTag, At, Progress, Untouched, Goto, TypeOK, Settles, Working, locals,
       collectionTables
  <2>2. /\ (Promise!Refusal(req[r]) = "none")' /\ (snap[r] = Promise!Lost(req[r]))'
        /\ Agrees(Promise!Changed(r, req[r]))'
    BY <1>1, <2>1 DEF Promise!Refusal, Promise!Lost, Promise!Changed, Tagging, Was,
       Promise!IsLive, Promise!Row, Agrees, Columns
  <2> QED BY <1>1, <2>1, <2>2 DEF Proceeds, Progress, Tagging, Working, Untouched, Was
<1>4. CASE DropTag(r)
  <2>1. /\ Agrees(settled) /\ req[r].op = "removeTag" /\ pc[r] = "drop_tag"
        /\ pc'[r] = (IF t \in settled.tags THEN "audit" ELSE "tag_missing")
        /\ settled' = settled /\ tags' = tags \ {t}
        /\ UNCHANGED <<row, title, meta, auth, rels, colls, cname, members, audit, req, snap>>
    BY <1>4 DEF DropTag, At, Progress, Untouched, Goto, TypeOK, Settles, Working, locals,
       collectionTables, Agrees
  <2>2. CASE t \in settled.tags
    <3>1. /\ (Promise!Refusal(req[r]) = "none")' /\ (snap[r] = Promise!Lost(req[r]))'
          /\ Agrees(Promise!Changed(r, req[r]))'
      BY <1>1, <2>1, <2>2 DEF Promise!Refusal, Promise!Lost, Promise!Changed, Agrees, Columns
    <3> QED BY <1>1, <2>1, <2>2, <3>1 DEF Proceeds, Progress, Untagging, Working, Untouched
  <2>3. CASE t \notin settled.tags
    <3>1. Agrees(settled)'
      BY <2>1, <2>3 DEF Agrees
    <3> QED BY <1>1, <2>1, <2>3, <3>1 DEF Proceeds, Progress, Untagging, Working, Untouched
  <2> QED BY <2>2, <2>3
<1>5. CASE TagMissing(r)
  <2>1. /\ req[r].op = "removeTag" /\ Agrees(settled) /\ t \notin settled.tags
        /\ Read(r, IF Was(a) = "live" THEN "audit" ELSE "notfound")
    BY <1>1, <1>5 DEF TagMissing, At, ReadLive, Live, Progress, Untouched, Untagging
  <2>2. CASE Was(a) = "live"
    <3>1. /\ pc'[r] = "audit" /\ req' = req /\ snap' = snap /\ settled' = settled
          /\ Agrees(settled)'
      BY <2>1, <2>2, ReadKeeps DEF Settles, Working
    <3>2. (Promise!Refusal(req[r]) = "none")' /\ (snap[r] = Promise!Lost(req[r]))'
      BY <1>1, <2>1, <2>2, <3>1 DEF Promise!Refusal, Promise!Lost, Promise!IsLive, Promise!Row, Was
    <3>3. settled.tags \ {t} = settled.tags
      BY <2>1
    <3>4. Agrees(Promise!Changed(r, req[r]))'
      BY <1>1, <2>1, <3>1, <3>3 DEF Promise!Changed, Agrees, Columns
    <3> QED BY <1>1, <2>1, <3>1, <3>2, <3>4 DEF Proceeds, Progress, Untagging, Working, Untouched
  <2>3. CASE Was(a) # "live"
    <3>1. Promise!Refusal(req[r]) = "notfound"
      BY <2>1, <2>3 DEF Promise!Refusal, Promise!IsLive, Promise!Row, Was
    <3> QED BY <2>1, <2>3, <3>1, ReadKeeps, Refuses
  <2> QED BY <2>2, <2>3
<1> QED BY <1>2, <1>3, <1>4, <1>5

\* The same of removing a relation.
LEMMA UnrelateProgress ==
    ASSUME TypeOK, Whole, NEW r \in Requests, Progress(r), Settles(r),
           req[r].op = "deleteRelation", RelationGet(r) \/ DropRelation(r)
    PROVE  Proceeds(r)
<1> DEFINE x == req[r].rel
<1>1. /\ req[r] \in Request /\ Unrelating(r) /\ settled \in Columns
      /\ Agrees(settled) => rels = settled.rels
  BY DEF Progress, Whole, Agrees
<1>2. CASE RelationGet(r)
  <2>1. /\ Agrees(settled) /\ req' = req
        /\ pc'[r] = (IF x \in settled.rels THEN "drop" ELSE "notfound")
        /\ x \in settled.rels => snap'[r] = {x}
        /\ UNCHANGED <<row, title, meta, tags, auth, rels, colls, cname, members, audit>>
    BY <1>1, <1>2 DEF RelationGet, At, Progress, Untouched, Goto, TypeOK, tables, assetTables,
       collectionTables
  <2>2. CASE x \in settled.rels
    <3>1. settled' = settled /\ Agrees(settled)'
      BY <2>1, <2>2 DEF Settles, Working, Agrees
    <3> QED BY <1>1, <2>1, <2>2, <3>1 DEF Proceeds, Progress, Unrelating, Working, Untouched
  <2>3. CASE x \notin settled.rels
    <3>1. Promise!Refusal(req[r]) = "notfound"
      BY <2>3 DEF Promise!Refusal
    <3>2. Tables' = Tables
      BY <2>1 DEF Tables
    <3> QED BY <2>1, <2>3, <3>1, <3>2, Refuses
  <2> QED BY <2>2, <2>3
<1>3. CASE DropRelation(r)
  <2>1. /\ Agrees(settled) /\ pc[r] = "drop" /\ pc'[r] = "audit" /\ settled' = settled
        /\ rels' = rels \ {x}
        /\ UNCHANGED <<row, title, meta, tags, auth, colls, cname, members, audit, req, snap>>
    BY <1>1, <1>3 DEF DropRelation, At, Progress, Untouched, Unrelating, Goto, TypeOK, Settles,
       Working, locals, assetTables, collectionTables
  <2>2. /\ (Promise!Refusal(req[r]) = "none")' /\ (snap[r] = Promise!Lost(req[r]))'
        /\ Agrees(Promise!Changed(r, req[r]))'
    BY <1>1, <2>1 DEF Promise!Refusal, Promise!Lost, Promise!Changed, Unrelating, Agrees, Columns
  <2> QED BY <1>1, <2>1, <2>2 DEF Proceeds, Progress, Unrelating, Working, Untouched
<1> QED BY <1>2, <1>3

\* The same of creating, renaming and deleting a collection.
LEMMA CollectionProgress ==
    ASSUME TypeOK, Whole, NEW r \in Requests, Progress(r), Settles(r),
           \/ req[r].op = "createCollection" /\ InsertCollection(r)
           \/ /\ req[r].op = "updateCollection"
              /\ CollectionGet(r) \/ CollectionVerify(r) \/ PutName(r) \/ CollectionReadBack(r)
           \/ req[r].op = "deleteCollection" /\ (CollectionGet(r) \/ DropCollection(r))
    PROVE  Proceeds(r)
<1> DEFINE c == req[r].coll
<1>1. /\ c \in Collections /\ req[r] \in Request /\ snap[r] = {} /\ Naming(r)
      /\ settled \in Columns
  BY RequestFields DEF OnCollection, Progress, Whole
<1>1a. /\ pc[r] \in Untouched => Agrees(settled) /\ colls = settled.colls
       /\ pc[r] \in {"verify", "put_name", "drop", "reget"} => settled.colls[c] = "present"
  BY <1>1 DEF Progress, Agrees, Naming
<1>2. CASE InsertCollection(r)
  <2>1. /\ req[r].op = "createCollection" /\ Agrees(settled) /\ pc'[r] = "audit"
        /\ settled' = settled
        /\ colls' = [colls EXCEPT ![c] = "present"] /\ cname' = [cname EXCEPT ![c] = r]
        /\ UNCHANGED <<row, title, meta, tags, auth, rels, members, audit, req, snap>>
    BY <1>2 DEF InsertCollection, At, Progress, Untouched, Goto, TypeOK, Settles, Working,
       locals, assetTables
  <2>2. (Promise!Refusal(req[r]) = "none")' /\ (snap[r] = Promise!Lost(req[r]))'
    BY <1>1, <2>1 DEF Promise!Refusal, Promise!Lost
  <2>3. Promise!Changed(r, req[r])' = [settled EXCEPT !.colls[c] = "present", !.cname[c] = r]
    BY <2>1 DEF Promise!Changed
  <2>4. Agrees(Promise!Changed(r, req[r]))'
    BY <1>1, <2>1, <2>3 DEF Agrees, Columns
  <2> QED BY <1>1, <2>1, <2>2, <2>4 DEF Proceeds, Progress, Naming, Working, Untouched
<1>3. CASE CollectionGet(r) \/ CollectionVerify(r)
  <2>1. /\ req[r].op \in {"updateCollection", "deleteCollection"} /\ Agrees(settled)
        /\ \E label \in {"verify", "drop", "put_name"} :
              /\ Read(r, IF settled.colls[c] = "present" THEN label ELSE "notfound")
              /\ req[r].op = "deleteCollection" <=> label = "drop"
    <3>1. /\ req[r].op \in {"updateCollection", "deleteCollection"} /\ Agrees(settled)
          /\ colls = settled.colls
      BY <1>1a, <1>3 DEF CollectionGet, CollectionVerify, At, Untouched
    <3>2. CASE CollectionVerify(r)
      BY <3>1, <3>2 DEF CollectionVerify, At, Present
    <3>3. CASE CollectionGet(r) /\ req[r].op = "updateCollection"
      <4>1. Read(r, IF settled.colls[c] = "present" THEN "verify" ELSE "notfound")
        BY <3>1, <3>3 DEF CollectionGet, Present
      <4> QED BY <3>1, <3>3, <4>1
    <3>4. CASE CollectionGet(r) /\ req[r].op = "deleteCollection"
      <4>1. Read(r, IF settled.colls[c] = "present" THEN "drop" ELSE "notfound")
        BY <3>1, <3>4 DEF CollectionGet, Present
      <4> QED BY <3>1, <3>4, <4>1
    <3> QED BY <1>3, <3>1, <3>2, <3>3, <3>4
  <2>2. CASE settled.colls[c] = "present"
    <3>1. PICK label \in {"verify", "drop", "put_name"} :
              pc'[r] = label /\ (req[r].op = "deleteCollection" <=> label = "drop")
      BY <2>1, <2>2, ReadKeeps
    <3>2. req' = req /\ snap' = snap /\ settled' = settled /\ Agrees(settled)'
      BY <2>1, <3>1, ReadKeeps DEF Settles, Working
    <3> QED BY <1>1, <2>1, <2>2, <3>1, <3>2 DEF Proceeds, Progress, Naming, Working, Untouched
  <2>3. CASE settled.colls[c] # "present"
    <3>1. Promise!Refusal(req[r]) = "notfound"
      BY <2>1, <2>3 DEF Promise!Refusal
    <3> QED BY <2>1, <2>3, <3>1, ReadKeeps, Refuses
  <2> QED BY <2>2, <2>3
<1>4. CASE PutName(r)
  <2>1. /\ req[r].op = "updateCollection" /\ Agrees(settled) /\ pc[r] = "put_name" /\ Present(c)
    BY <1>1a, <1>4 DEF PutName, At, Present, Untouched
  <2>2. /\ pc'[r] = "reget" /\ settled' = settled /\ cname' = [cname EXCEPT ![c] = r]
        /\ UNCHANGED <<row, title, meta, tags, auth, rels, colls, members, audit, req, snap>>
    BY <1>4, <2>1 DEF PutName, Goto, TypeOK, Settles, Working, locals, assetTables
  <2>3. Agrees([settled EXCEPT !.cname[c] = r])'
    BY <1>1, <2>1, <2>2 DEF Agrees, Columns
  <2> QED BY <1>1, <2>1, <2>2, <2>3 DEF Proceeds, Progress, Naming, Working, Untouched
<1>5. CASE CollectionReadBack(r)
  <2>1. /\ req[r].op = "updateCollection" /\ pc[r] = "reget" /\ settled.colls[c] = "present"
        /\ Agrees([settled EXCEPT !.cname[c] = r])
    BY <1>1, <1>5 DEF CollectionReadBack, At, Naming
  <2>2. colls = settled.colls
    BY <1>1, <2>1 DEF Agrees, Columns
  <2>3. /\ pc'[r] = "audit" /\ settled' = settled
        /\ UNCHANGED <<row, title, meta, tags, auth, rels, colls, cname, members, audit, req, snap>>
    BY <1>5, <2>1, <2>2 DEF CollectionReadBack, Present, Read, Goto, TypeOK, Settles, Working,
       locals, tables, assetTables, collectionTables
  <2>4. /\ (Promise!Refusal(req[r]) = "none")' /\ (snap[r] = Promise!Lost(req[r]))'
        /\ Agrees(Promise!Changed(r, req[r]))'
    BY <1>1, <2>1, <2>3 DEF Promise!Refusal, Promise!Lost, Promise!Changed, Agrees, Columns
  <2> QED BY <1>1, <2>1, <2>3, <2>4 DEF Proceeds, Progress, Naming, Working, Untouched
<1>6. CASE DropCollection(r)
  <2>1. /\ req[r].op = "deleteCollection" /\ Agrees(settled) /\ pc[r] = "drop" /\ Present(c)
        /\ settled.colls[c] = "present"
    BY <1>1a, <1>6 DEF DropCollection, At, Present, Untouched
  <2>2. /\ pc'[r] = "audit" /\ settled' = settled
        /\ colls' = [colls EXCEPT ![c] = "gone"] /\ members' = {m \in members : m.coll # c}
        /\ UNCHANGED <<row, title, meta, tags, auth, rels, cname, audit, req, snap>>
    BY <1>6, <2>1 DEF DropCollection, Goto, TypeOK, Settles, Working, locals, assetTables
  <2>3. (Promise!Refusal(req[r]) = "none")' /\ (snap[r] = Promise!Lost(req[r]))'
    BY <1>1, <2>1, <2>2 DEF Promise!Refusal, Promise!Lost
  <2>4. Promise!Changed(r, req[r])' =
            [settled EXCEPT !.colls[c] = "gone", !.members = {m \in @ : m.coll # c}]
    BY <2>1, <2>2 DEF Promise!Changed
  <2>5. Agrees(Promise!Changed(r, req[r]))'
    BY <1>1, <2>1, <2>2, <2>4 DEF Agrees, Columns
  <2> QED BY <1>1, <2>1, <2>2, <2>3, <2>5 DEF Proceeds, Progress, Naming, Working, Untouched
<1> QED BY <1>2, <1>3, <1>4, <1>5, <1>6

\* The same of adding and removing a member.
LEMMA MemberProgress ==
    ASSUME TypeOK, Whole, NEW r \in Requests, Progress(r), Settles(r),
           \/ req[r].op = "addMember" /\ (MemberGet(r) \/ MemberCollection(r) \/ PutMember(r))
           \/ req[r].op = "removeMember" /\ (MemberCollection(r) \/ DropMember(r))
    PROVE  Proceeds(r)
<1> DEFINE c == req[r].coll
           a == req[r].asset
           m == [coll |-> c, asset |-> a]
<1>1. /\ c \in Collections /\ a \in Assets /\ req[r] \in Request /\ snap[r] = {} /\ Joining(r)
      /\ settled \in Columns
      /\ Agrees(settled) => row[a] = Was(a) /\ colls = settled.colls /\ members = settled.members
  BY RequestFields DEF OnAsset, OnCollection, Progress, Whole, Agrees, Was
<1>2. CASE MemberGet(r)
  <2>1. /\ req[r].op = "addMember" /\ Agrees(settled)
        /\ Read(r, IF Was(a) = "live" THEN "coll_exists" ELSE "notfound")
    BY <1>1, <1>2 DEF MemberGet, At, ReadLive, Live, Progress, Untouched
  <2>2. CASE Was(a) = "live"
    <3>1. /\ pc'[r] = "coll_exists" /\ req' = req /\ snap' = snap /\ settled' = settled
          /\ Agrees(settled)'
      BY <2>1, <2>2, ReadKeeps DEF Settles, Working
    <3> QED BY <1>1, <2>1, <2>2, <3>1 DEF Proceeds, Progress, Joining, Working, Untouched, Was
  <2>3. CASE Was(a) # "live"
    <3>1. Promise!Refusal(req[r]) = "notfound"
      BY <2>1, <2>3 DEF Promise!Refusal, Promise!IsLive, Promise!Row, Was
    <3> QED BY <2>1, <2>3, <3>1, ReadKeeps, Refuses
  <2> QED BY <2>2, <2>3
<1>3. CASE MemberCollection(r)
  <2>1. /\ req[r].op \in {"addMember", "removeMember"} /\ Agrees(settled) /\ pc[r] = "coll_exists"
        /\ Read(r, IF settled.colls[c] # "present" THEN "notfound"
                   ELSE IF req[r].op = "addMember" THEN "put_member" ELSE "audit")
    BY <1>1, <1>3 DEF MemberCollection, Present, Progress, Untouched
  <2>2. CASE settled.colls[c] # "present"
    <3>1. Promise!Refusal(req[r]) = "notfound"
      BY <2>1, <2>2 DEF Promise!Refusal
    <3> QED BY <2>1, <2>2, <3>1, ReadKeeps, Refuses
  <2>3. CASE settled.colls[c] = "present" /\ req[r].op = "addMember"
    <3>1. /\ pc'[r] = "put_member" /\ req' = req /\ snap' = snap /\ settled' = settled
          /\ Agrees(settled)'
      BY <2>1, <2>3, ReadKeeps DEF Settles, Working
    <3> QED BY <1>1, <2>1, <2>3, <3>1 DEF Proceeds, Progress, Joining, Working, Untouched, Was
  <2>4. CASE settled.colls[c] = "present" /\ req[r].op = "removeMember"
    <3>1. /\ pc'[r] = "audit" /\ req' = req /\ snap' = snap /\ settled' = settled
          /\ Agrees(settled)'
      BY <2>1, <2>4, ReadKeeps DEF Settles, Working
    <3>2. (Promise!Refusal(req[r]) = "none")' /\ (snap[r] = Promise!Lost(req[r]))'
      BY <1>1, <2>4, <3>1 DEF Promise!Refusal, Promise!Lost
    <3>3. settled.members \ {m} = settled.members
      BY <1>1, <2>1, <2>4 DEF Joining
    <3>4. Agrees(Promise!Changed(r, req[r]))'
      BY <1>1, <2>4, <3>1, <3>3 DEF Promise!Changed, Agrees, Columns
    <3> QED BY <1>1, <2>4, <3>1, <3>2, <3>4 DEF Proceeds, Progress, Joining, Working, Untouched
  <2> QED BY <2>1, <2>2, <2>3, <2>4
<1>4. CASE PutMember(r)
  <2>1. /\ req[r].op = "addMember" /\ Agrees(settled) /\ pc[r] = "put_member"
        /\ settled.colls[c] = "present" /\ Was(a) = "live"
    BY <1>1, <1>4 DEF PutMember, At, Progress, Untouched, Joining
  <2>2. /\ pc'[r] = "audit" /\ settled' = settled /\ members' = members \cup {m}
        /\ UNCHANGED <<row, title, meta, tags, auth, rels, colls, cname, audit, req, snap>>
    BY <1>1, <1>4, <2>1 DEF PutMember, Present, Membership, Goto, TypeOK, Settles, Working,
       locals, assetTables
  <2>3. /\ (Promise!Refusal(req[r]) = "none")' /\ (snap[r] = Promise!Lost(req[r]))'
        /\ Agrees(Promise!Changed(r, req[r]))'
    BY <1>1, <2>1, <2>2 DEF Promise!Refusal, Promise!Lost, Promise!Changed, Agrees, Columns,
       Promise!IsLive, Promise!Row, Was
  <2> QED BY <1>1, <2>1, <2>2, <2>3 DEF Proceeds, Progress, Joining, Working, Untouched, Was
<1>5. CASE DropMember(r)
  <2>1. /\ req[r].op = "removeMember" /\ Agrees(settled) /\ pc[r] = "drop_member"
        /\ pc'[r] = (IF m \in settled.members THEN "audit" ELSE "coll_exists")
        /\ settled' = settled /\ members' = members \ {m}
        /\ UNCHANGED <<row, title, meta, tags, auth, rels, colls, cname, audit, req, snap>>
    BY <1>1, <1>5 DEF DropMember, At, Membership, Progress, Untouched, Goto, TypeOK, Settles,
       Working, locals, assetTables
  <2>2. CASE m \in settled.members
    <3>1. settled.colls[c] = "present"
      BY <2>2 DEF Whole
    <3>2. /\ (Promise!Refusal(req[r]) = "none")' /\ (snap[r] = Promise!Lost(req[r]))'
          /\ Agrees(Promise!Changed(r, req[r]))'
      BY <1>1, <2>1, <3>1 DEF Promise!Refusal, Promise!Lost, Promise!Changed, Agrees, Columns
    <3> QED BY <1>1, <2>1, <2>2, <3>2 DEF Proceeds, Progress, Joining, Working, Untouched
  <2>3. CASE m \notin settled.members
    <3>1. Agrees(settled)'
      BY <2>1, <2>3 DEF Agrees
    <3> QED BY <1>1, <2>1, <2>3, <3>1 DEF Proceeds, Progress, Joining, Working, Untouched
  <2> QED BY <2>2, <2>3
<1> QED BY <1>2, <1>3, <1>4, <1>5

-----------------------------------------------------------------------------
(* The breadth-first searches: what they have seen when nothing is left to   *)
(* expand is what descends from where they began.                            *)

\* Every asset descends from itself, and along a relation from its source.
LEMMA Descent ==
    ASSUME NEW a \in Assets
    PROVE  /\ Promise!DescendsFrom(a, a)
           /\ \A x \in settled.rels : Promise!DescendsFrom(x.from, a) => Promise!DescendsFrom(x.to, a)
           /\ \A S \in SUBSET Assets :
                 a \in S /\ (\A x \in settled.rels : x.from \in S => x.to \in S) =>
                    \A b : Promise!DescendsFrom(b, a) => b \in S
BY Zenon DEF Promise!DescendsFrom

\* Expanding one asset of the worklist keeps a search on track.
LEMMA ExpandVisits ==
    ASSUME TypeOK, NEW r \in Requests, NEW a \in Assets, Visiting(r, a), NEW n \in todo[r],
           Expand(r, n), rels = settled.rels, settled' = settled
    PROVE  Visiting(r, a)' /\ seen'[r] \ todo'[r] = (seen[r] \ todo[r]) \cup {n}
<1> DEFINE next == Successors(n)
<1>1. seen'[r] = seen[r] \cup next /\ todo'[r] = (todo[r] \ {n}) \cup (next \ seen[r])
  BY DEF Expand, TypeOK
<1>2. \A x \in settled.rels : x.from = n => x.to \in next
  BY DEF Successors
<1>3. \A b \in next : \E x \in settled.rels : x.from = n /\ x.to = b
  BY DEF Successors
<1> HIDE DEF next
<1>4. a \in seen[r] /\ todo[r] \subseteq seen[r] /\ Promise!DescendsFrom(n, a)
  BY DEF Visiting
<1>5. seen'[r] \ todo'[r] = (seen[r] \ todo[r]) \cup {n}
  BY <1>1, <1>4
<1>6. \A b \in seen'[r] : Promise!DescendsFrom(b, a)
  BY <1>1, <1>3, <1>4, Descent DEF Visiting
<1>7. \A x \in settled.rels : x.from \in seen'[r] \ todo'[r] => x.to \in seen'[r]
  BY <1>1, <1>2, <1>5 DEF Visiting
<1>8. \A b : Promise!DescendsFrom(b, a)' <=> Promise!DescendsFrom(b, a)
  BY DEF Promise!DescendsFrom
<1> QED BY <1>1, <1>4, <1>5, <1>6, <1>7, <1>8 DEF Visiting

\* The same of creating a relation: the search refuses exactly the descendants.
LEMMA RelateProgress ==
    ASSUME TypeOK, Whole, NEW r \in Requests, Progress(r), Settles(r),
           req[r].op = "createRelation",
           \/ FromExists(r) \/ ToExists(r) \/ WalkForCycle(r) \/ CycleFound(r)
           \/ NoCycle(r) \/ InsertRelation(r)
    PROVE  Proceeds(r)
<1> DEFINE u == req[r].from
           v == req[r].to
<1>1. /\ u \in Assets /\ v \in Assets /\ req[r] \in Request /\ snap[r] = {} /\ Relating(r)
      /\ settled \in Columns
  BY RequestFields DEF Progress, Whole
<1>1a. /\ pc[r] \in Untouched \cup {"walk"} => Agrees(settled)
       /\ Agrees(settled) => Exists(u) /\ Exists(v) /\ rels = settled.rels
  BY <1>1 DEF Progress, Relating, Agrees, Exists, Was
<1>2. CASE FromExists(r)
  <2>1. Agrees(settled) /\ Read(r, "to_exists")
    BY <1>1a, <1>2 DEF FromExists, At, Untouched
  <2>2. /\ pc'[r] = "to_exists" /\ req' = req /\ snap' = snap /\ settled' = settled
        /\ Agrees(settled)'
    BY <2>1, ReadKeeps DEF Settles, Working
  <2> QED BY <1>1, <2>2 DEF Proceeds, Progress, Relating, Working, Untouched, Was
<1>3. CASE ToExists(r)
  <2>1. /\ Agrees(settled) /\ pc'[r] = (IF u # v THEN "walk" ELSE "invalid")
        /\ u # v => seen'[r] = {v} /\ todo'[r] = {v}
        /\ UNCHANGED <<row, title, meta, tags, auth, rels, colls, cname, members, audit, req, snap>>
    BY <1>1a, <1>3 DEF ToExists, At, Untouched, Goto, TypeOK, tables, assetTables, collectionTables
  <2>2. CASE u = v
    <3>1. Promise!Refusal(req[r]) = "invalid" /\ Tables' = Tables
      BY <1>1, <2>1, <2>2, Descent DEF Promise!Refusal, Tables
    <3> QED BY <2>1, <2>2, <3>1, Refuses
  <2>3. CASE u # v
    <3>1. settled' = settled /\ Agrees(settled)'
      BY <2>1, <2>3 DEF Settles, Working, Agrees
    <3>2. Visiting(r, v)'
      <4>1. Promise!DescendsFrom(v, v)'
        BY <3>1, <1>1, Descent DEF Promise!DescendsFrom
      <4> QED BY <2>1, <2>3, <4>1 DEF Visiting
    <3> QED BY <1>1, <2>1, <2>3, <3>1, <3>2 DEF Proceeds, Progress, Relating, Working, Untouched, Was
  <2> QED BY <2>2, <2>3
<1>4. CASE WalkForCycle(r)
  <2>1. /\ Agrees(settled) /\ pc[r] = "walk" /\ pc' = pc
        /\ UNCHANGED <<row, title, meta, tags, auth, rels, colls, cname, members, audit, req, snap>>
    BY <1>1a, <1>4 DEF WalkForCycle, At, tables, assetTables, collectionTables
  <2>2. settled' = settled /\ Agrees(settled)'
    BY <2>1 DEF Settles, Working, Agrees
  <2>3. PICK n \in todo[r] : n # u /\ Expand(r, n)
    BY <1>4 DEF WalkForCycle
  <2>4. Visiting(r, v)' /\ u \notin seen'[r] \ todo'[r]
    BY <1>1, <1>1a, <2>1, <2>2, <2>3, ExpandVisits DEF Relating
  <2> QED BY <1>1, <2>1, <2>2, <2>4 DEF Proceeds, Progress, Relating, Working, Untouched, Was
<1>5. CASE CycleFound(r)
  <2>1. Agrees(settled) /\ Read(r, "invalid") /\ Promise!DescendsFrom(u, v)
    BY <1>1, <1>1a, <1>5 DEF CycleFound, At, Relating, Visiting
  <2>2. Promise!Refusal(req[r]) = "invalid"
    BY <2>1 DEF Promise!Refusal
  <2> QED BY <2>1, <2>2, ReadKeeps, Refuses
<1>6. CASE NoCycle(r)
  <2>1. Agrees(settled) /\ Read(r, "insert") /\ ~Promise!DescendsFrom(u, v)
    <3>1. pc[r] = "walk" /\ todo[r] = {} /\ Read(r, "insert")
      BY <1>6 DEF NoCycle, At
    <3>2. seen[r] \in SUBSET Assets
      BY DEF TypeOK
    <3> QED BY <1>1, <1>1a, <3>1, <3>2, Descent DEF Relating, Visiting
  <2>2. /\ pc'[r] = "insert" /\ req' = req /\ snap' = snap /\ settled' = settled
        /\ Agrees(settled)'
    BY <2>1, ReadKeeps DEF Settles, Working
  <2>3. ~Promise!DescendsFrom(u, v)'
    BY <2>1, <2>2 DEF Promise!DescendsFrom
  <2> QED BY <1>1, <2>2, <2>3 DEF Proceeds, Progress, Relating, Working, Untouched, Was
<1>7. CASE InsertRelation(r)
  <2>1. /\ Agrees(settled) /\ pc[r] = "insert" /\ pc'[r] = "audit" /\ settled' = settled
        /\ rels' = rels \cup {[id |-> r, from |-> u, to |-> v]}
        /\ UNCHANGED <<row, title, meta, tags, auth, colls, cname, members, audit, req, snap>>
    BY <1>1a, <1>7 DEF InsertRelation, At, Untouched, Goto, TypeOK, Settles, Working, locals,
       assetTables, collectionTables
  <2>2. (Promise!Refusal(req[r]) = "none")' /\ (snap[r] = Promise!Lost(req[r]))'
    BY <1>1, <2>1 DEF Promise!Refusal, Promise!Lost, Relating, Promise!DescendsFrom
  <2>3. Agrees(Promise!Changed(r, req[r]))'
    BY <1>1, <2>1 DEF Promise!Changed, Agrees, Columns
  <2> QED BY <1>1, <2>1, <2>2, <2>3 DEF Proceeds, Progress, Relating, Working, Untouched, Was
<1> QED BY <1>2, <1>3, <1>4, <1>5, <1>6, <1>7

-----------------------------------------------------------------------------
(* The authorization context: written on the asset, then on one live         *)
(* descendant after the other.                                               *)

\* The columns once a set of assets has been shared.
LEMMA SharedColumns ==
    ASSUME settled \in Columns, NEW r \in Requests, NEW S
    PROVE  /\ Agrees(settled) => Agrees(Shared(r, {}))
           /\ Agrees(Shared(r, S)) => row = settled.row /\ rels = settled.rels
<1>1. settled.auth = [b \in Assets |-> [f \in Fields |-> settled.auth[b][f]]]
  BY DEF Columns
<1>2. settled.auth = [b \in Assets |-> [f \in Fields |->
            IF f \in req[r].fields /\ b \in {} THEN r ELSE settled.auth[b][f]]]
  BY <1>1
<1>3. /\ Shared(r, {}).auth = settled.auth /\ Shared(r, {}).row = settled.row
      /\ Shared(r, {}).title = settled.title /\ Shared(r, {}).meta = settled.meta
      /\ Shared(r, {}).tags = settled.tags /\ Shared(r, {}).rels = settled.rels
      /\ Shared(r, {}).colls = settled.colls /\ Shared(r, {}).cname = settled.cname
      /\ Shared(r, {}).members = settled.members /\ Shared(r, {}).audit = settled.audit
  BY <1>2 DEF Shared, Columns
<1>4. Shared(r, S).row = settled.row /\ Shared(r, S).rels = settled.rels
  BY DEF Shared, Columns
<1> QED BY <1>3, <1>4 DEF Agrees

\* Writing one more asset is sharing the set with that asset.
LEMMA SharedGrows ==
    ASSUME TypeOK, settled \in Columns, NEW r \in Requests, NEW S, Agrees(Shared(r, S)),
           NEW c \in Assets, auth' = [auth EXCEPT ![c] = Merged(c, r)],
           UNCHANGED <<row, title, meta, tags, rels, colls, cname, members, audit, req, settled>>
    PROVE  Agrees(Shared(r, S \cup {c}))'
<1> DEFINE A(T) == [b \in Assets |-> [f \in Fields |->
                       IF f \in req[r].fields /\ b \in T THEN r ELSE settled.auth[b][f]]]
<1>1. \A T : /\ Shared(r, T).auth = A(T) /\ Shared(r, T).row = settled.row
             /\ Shared(r, T).title = settled.title /\ Shared(r, T).meta = settled.meta
             /\ Shared(r, T).tags = settled.tags /\ Shared(r, T).rels = settled.rels
             /\ Shared(r, T).colls = settled.colls /\ Shared(r, T).cname = settled.cname
             /\ Shared(r, T).members = settled.members /\ Shared(r, T).audit = settled.audit
  BY DEF Shared, Columns
<1>2. auth = A(S)
  BY <1>1 DEF Agrees
<1>3. auth' = A(S \cup {c})
  <2>1. ASSUME NEW b \in Assets PROVE auth'[b] = A(S \cup {c})[b]
    BY <1>2 DEF Merged
  <2>2. auth' = [b \in Assets |-> auth'[b]]
    BY <1>2
  <2> QED BY <2>1, <2>2
<1>4. Shared(r, S \cup {c})' = Shared(r, S \cup {c})
  BY DEF Shared
<1> HIDE DEF A
<1> QED BY <1>1, <1>3, <1>4 DEF Agrees

\* A cascade that has reached every live descendant has made Registry's change.
LEMMA SharedIsChanged ==
    ASSUME settled \in Columns, NEW r \in Requests, req[r].op = "setAuth", NEW S,
           Agrees(Shared(r, S)), \A b \in Assets : b \in S <=> Promise!Takes(req[r], b)
    PROVE  Agrees(Promise!Changed(r, req[r]))
<1>1. Promise!Changed(r, req[r]) = Promise!WithAuth(r, req[r])
  BY DEF Promise!Changed
<1>2. [b \in Assets |-> [f \in Fields |->
          IF f \in req[r].fields /\ b \in S THEN r ELSE settled.auth[b][f]]] =
      [b \in Assets |-> [f \in Fields |->
          IF f \in req[r].fields /\ Promise!Takes(req[r], b) THEN r ELSE settled.auth[b][f]]]
  OBVIOUS
<1>3. Promise!WithAuth(r, req[r]) = Shared(r, S)
  BY <1>2 DEF Promise!WithAuth, Shared
<1> QED BY <1>1, <1>3

\* The same of an authorization update, with its cascade.
LEMMA ShareProgress ==
    ASSUME TypeOK, Whole, NEW r \in Requests, Progress(r), Settles(r), req[r].op = "setAuth",
           \/ AuthGet(r) \/ PutAuth(r) \/ AuthReadBack(r) \/ WalkDescendants(r)
           \/ DescendantsFound(r) \/ ChildGet(r) \/ ChildGone(r) \/ ChildPut(r) \/ ChildrenDone(r)
    PROVE  Proceeds(r)
<1> DEFINE a == req[r].asset
           Unwritten == UNCHANGED <<row, title, meta, tags, auth, rels, colls, cname, members,
                                    audit, req, snap>>
           seenAll == {b \in Assets : Promise!DescendsFrom(b, a)}
<1>1. /\ a \in Assets /\ req[r] \in Request /\ req[r].cascade \in BOOLEAN /\ snap[r] = {}
      /\ Sharing(r) /\ settled \in Columns
  <2>1. req[r].cascade \in BOOLEAN
    BY DEF Progress, Request
  <2> QED BY <2>1, RequestFields DEF OnAsset, Progress, Whole
<1>1a. /\ pc[r] \in Untouched => Agrees(settled)
       /\ Agrees(settled) => row = settled.row
  BY <1>1 DEF Progress, Agrees
<1>2. CASE AuthGet(r)
  <2>1. /\ Agrees(settled) /\ pc'[r] = (IF Was(a) = "live" THEN "put_auth" ELSE "notfound")
        /\ Was(a) = "live" => ctx'[r] = Merged(a, r)
        /\ Unwritten
    BY <1>1, <1>1a, <1>2 DEF AuthGet, At, Live, Was, Untouched, Goto, TypeOK, tables, assetTables,
       collectionTables
  <2>2. CASE Was(a) = "live"
    <3>1. settled' = settled /\ Agrees(settled)' /\ Merged(a, r)' = Merged(a, r)
      BY <2>1, <2>2 DEF Settles, Working, Agrees, Merged
    <3> QED BY <1>1, <2>1, <2>2, <3>1 DEF Proceeds, Progress, Sharing, Working, Untouched, Was
  <2>3. CASE Was(a) # "live"
    <3>1. Promise!Refusal(req[r]) = "notfound" /\ Tables' = Tables
      BY <2>1, <2>3 DEF Promise!Refusal, Promise!IsLive, Promise!Row, Was, Tables
    <3> QED BY <2>1, <2>3, <3>1, Refuses
  <2> QED BY <2>2, <2>3
<1>3. CASE PutAuth(r)
  <2>1. /\ pc[r] = "put_auth" /\ Agrees(settled) /\ Live(a) /\ Was(a) = "live"
        /\ ctx[r] = Merged(a, r)
    BY <1>1, <1>1a, <1>3 DEF PutAuth, At, Untouched, Sharing, Live, Was
  <2>2. /\ pc'[r] = "reget_auth" /\ settled' = settled
        /\ auth' = [auth EXCEPT ![a] = Merged(a, r)]
        /\ UNCHANGED <<row, title, meta, tags, rels, colls, cname, members, audit, req, snap>>
    BY <1>3, <2>1 DEF PutAuth, Goto, TypeOK, Settles, Working, locals, collectionTables
  <2>3. Agrees(Shared(r, {} \cup {a}))'
    BY <1>1, <2>1, <2>2, SharedColumns, SharedGrows
  <2>4. {} \cup {a} = {a}
    OBVIOUS
  <2>5. Agrees(Shared(r, {a}))'
    BY <2>2, <2>3, <2>4
  <2> QED BY <1>1, <2>1, <2>2, <2>5 DEF Proceeds, Progress, Sharing, Working, Untouched, Was
<1>4. CASE AuthReadBack(r)
  <2>1. pc[r] = "reget_auth" /\ Agrees(Shared(r, {a})) /\ Was(a) = "live" /\ row = settled.row
    BY <1>1, <1>4, SharedColumns DEF AuthReadBack, At, Sharing
  <2>2. /\ pc'[r] = (IF req[r].cascade THEN "walk" ELSE "audit") /\ settled' = settled /\ Unwritten
        /\ req[r].cascade => seen'[r] = {a} /\ todo'[r] = {a}
    BY <1>1, <1>4, <2>1 DEF AuthReadBack, Live, Was, Goto, TypeOK, Settles, Working, tables,
       assetTables, collectionTables
  <2>3. Agrees(Shared(r, {a}))'
    BY <2>1, <2>2 DEF Agrees, Shared
  <2>4. CASE req[r].cascade
    <3>1. Visiting(r, a)'
      <4>1. Promise!DescendsFrom(a, a)'
        BY <1>1, <2>2, Descent DEF Promise!DescendsFrom
      <4> QED BY <2>2, <2>4, <4>1 DEF Visiting
    <3> QED BY <1>1, <2>1, <2>2, <2>3, <2>4, <3>1 DEF Proceeds, Progress, Sharing, Working,
            Untouched, Was
  <2>5. CASE ~req[r].cascade
    <3>1. Agrees(Promise!Changed(r, req[r]))
      <4>1. \A b \in Assets : b \in {a} <=> Promise!Takes(req[r], b)
        BY <2>5 DEF Promise!Takes
      <4> QED BY <1>1, <2>1, <4>1, SharedIsChanged
    <3>2. Agrees(Promise!Changed(r, req[r]))'
      BY <2>2, <3>1 DEF Agrees, Promise!Changed, Promise!WithAuth, Promise!Takes,
         Promise!DescendsFrom
    <3>3. (Promise!Refusal(req[r]) = "none")' /\ (snap[r] = Promise!Lost(req[r]))'
      BY <1>1, <2>1, <2>2 DEF Promise!Refusal, Promise!Lost, Promise!IsLive, Promise!Row, Was
    <3> QED BY <1>1, <2>1, <2>2, <2>5, <3>2, <3>3 DEF Proceeds, Progress, Sharing, Working,
            Untouched, Was
  <2> QED BY <2>4, <2>5
<1>5. CASE WalkDescendants(r)
  <2>1. /\ pc[r] = "walk" /\ pc' = pc /\ Unwritten
        /\ Agrees(Shared(r, {a})) /\ Was(a) = "live" /\ req[r].cascade /\ Visiting(r, a)
    BY <1>1, <1>5 DEF WalkDescendants, At, Sharing, tables, assetTables, collectionTables
  <2>2. settled' = settled /\ rels = settled.rels
    BY <1>1, <2>1, SharedColumns DEF Settles, Working
  <2>3. Agrees(Shared(r, {a}))'
    BY <2>1, <2>2 DEF Agrees, Shared
  <2>4. Visiting(r, a)'
    BY <1>1, <1>5, <2>1, <2>2, ExpandVisits DEF WalkDescendants
  <2> QED BY <1>1, <2>1, <2>2, <2>3, <2>4 DEF Proceeds, Progress, Sharing, Working, Untouched, Was
<1>6. CASE DescendantsFound(r)
  <2>1. /\ pc[r] = "walk" /\ todo[r] = {}
        /\ Agrees(Shared(r, {a})) /\ Was(a) = "live" /\ req[r].cascade /\ Visiting(r, a)
    BY <1>1, <1>6 DEF DescendantsFound, At, Sharing
  <2>2. /\ pc'[r] = "child_get" /\ settled' = settled /\ Unwritten /\ seen' = seen
        /\ todo'[r] = seen[r] \ {a}
    BY <1>6 DEF DescendantsFound, Goto, TypeOK, Settles, Working, tables, assetTables,
       collectionTables
  <2>3. seen[r] = seenAll /\ a \in seen[r]
    <3>1. seen[r] \in SUBSET Assets
      BY DEF TypeOK
    <3> QED BY <1>1, <2>1, <3>1, Descent DEF Visiting
  <2>4. seen'[r] = {b \in Assets : Promise!DescendsFrom(b, a)}'
    BY <2>2, <2>3 DEF Promise!DescendsFrom
  <2>5. LiveOf(seen[r] \ todo[r])' = {a}
    BY <2>1, <2>2, <2>3 DEF LiveOf, Was
  <2>6. Agrees(Shared(r, LiveOf(seen[r] \ todo[r])))'
    <3>1. PICK S : S = {a}
      OBVIOUS
    <3>2. Agrees(Shared(r, S))'
      BY <2>1, <2>2, <3>1 DEF Agrees, Shared
    <3> QED BY <2>5, <3>1, <3>2
  <2>7. (a \in seen[r] \ todo[r] /\ todo[r] \subseteq seen[r])'
    BY <2>2, <2>3
  <2> QED BY <1>1, <2>1, <2>2, <2>4, <2>6, <2>7 DEF Proceeds, Progress, Sharing, Working,
          Untouched, Was
<1>7. ASSUME pc[r] \in {"child_get", "child_put"}, Unwritten \/ ChildPut(r)
      PROVE  /\ Was(a) = "live" /\ req[r].cascade /\ seen[r] = seenAll /\ a \in seen[r] \ todo[r]
             /\ todo[r] \subseteq seen[r] /\ row = settled.row
             /\ settled' = settled => {b \in Assets : Promise!DescendsFrom(b, a)}' = seenAll
  <2>1. Was(a) = "live" /\ req[r].cascade /\ seen[r] = seenAll /\ a \in seen[r] \ todo[r]
        /\ todo[r] \subseteq seen[r] /\ row = settled.row
    BY <1>1, <1>7, SharedColumns DEF Sharing
  <2>2. req' = req
    BY <1>7 DEF ChildPut
  <2> QED BY <2>1, <2>2 DEF Promise!DescendsFrom
<1>8. CASE ChildGet(r)
  <2>1. pc[r] = "child_get" /\ Unwritten /\ Agrees(Shared(r, LiveOf(seen[r] \ todo[r])))
    BY <1>1, <1>8 DEF ChildGet, At, Sharing, tables, assetTables, collectionTables
  <2>2. PICK c \in todo[r] :
            /\ Live(c) /\ ctx' = [ctx EXCEPT ![r] = Merged(c, r)]
            /\ child' = [child EXCEPT ![r] = c] /\ todo' = [todo EXCEPT ![r] = @ \ {c}]
    BY <1>8 DEF ChildGet
  <2>3. /\ pc'[r] = "child_put" /\ settled' = settled /\ seen' = seen
        /\ ctx'[r] = Merged(c, r) /\ child'[r] = c /\ todo'[r] = todo[r] \ {c}
    BY <1>8, <2>2 DEF ChildGet, Goto, TypeOK, Settles, Working
  <2>4. Merged(c, r)' = Merged(c, r)
    BY <2>1 DEF Merged
  <2>5. LiveOf(seen[r] \ (todo[r] \cup {child[r]}))' = LiveOf(seen[r] \ todo[r])
    BY <2>2, <2>3 DEF LiveOf, Was
  <2>6. Agrees(Shared(r, LiveOf(seen[r] \ (todo[r] \cup {child[r]}))))'
    <3>1. PICK S : S = LiveOf(seen[r] \ todo[r])
      OBVIOUS
    <3>2. Agrees(Shared(r, S))'
      BY <2>1, <2>3, <3>1 DEF Agrees, Shared
    <3> QED BY <2>5, <3>1, <3>2
  <2>7. /\ seen'[r] = {b \in Assets : Promise!DescendsFrom(b, a)}'
        /\ (a \in seen[r] \ todo[r] /\ todo[r] \subseteq seen[r])'
        /\ (child[r] \in LiveOf(seen[r]) \ (todo[r] \cup {a}))'
        /\ Was(a) = "live" /\ req[r].cascade
    BY <1>7, <2>1, <2>2, <2>3 DEF LiveOf, Was, Live
  <2>8. ctx'[r] = Merged(child[r], r)'
    BY <2>1, <2>3 DEF Merged
  <2> QED BY <1>1, <2>1, <2>3, <2>6, <2>7, <2>8 DEF Proceeds, Progress, Sharing, Working,
          Untouched, Was
<1>9. CASE ChildGone(r)
  <2>1. pc[r] = "child_get" /\ Unwritten /\ Agrees(Shared(r, LiveOf(seen[r] \ todo[r])))
    BY <1>1, <1>9 DEF ChildGone, At, Sharing, tables, assetTables, collectionTables
  <2>2. PICK c \in todo[r] : ~Live(c) /\ todo' = [todo EXCEPT ![r] = @ \ {c}]
    BY <1>9 DEF ChildGone
  <2>3. pc' = pc /\ settled' = settled /\ seen' = seen /\ todo'[r] = todo[r] \ {c}
    BY <1>9, <2>1, <2>2 DEF ChildGone, TypeOK, Settles, Working
  <2>4. LiveOf(seen[r] \ todo[r])' = LiveOf(seen[r] \ todo[r])
    BY <1>7, <2>1, <2>2, <2>3 DEF LiveOf, Was, Live
  <2>5. Agrees(Shared(r, LiveOf(seen[r] \ todo[r])))'
    <3>1. PICK S : S = LiveOf(seen[r] \ todo[r])
      OBVIOUS
    <3>2. Agrees(Shared(r, S))'
      BY <2>1, <2>3, <3>1 DEF Agrees, Shared
    <3> QED BY <2>4, <3>1, <3>2
  <2>6. /\ seen'[r] = {b \in Assets : Promise!DescendsFrom(b, a)}'
        /\ (a \in seen[r] \ todo[r] /\ todo[r] \subseteq seen[r])'
        /\ Was(a) = "live" /\ req[r].cascade
    BY <1>7, <2>1, <2>3
  <2> QED BY <1>1, <2>1, <2>3, <2>5, <2>6 DEF Proceeds, Progress, Sharing, Working, Untouched, Was
<1>10. CASE ChildPut(r)
  <2>1. /\ pc[r] = "child_put" /\ child[r] \in LiveOf(seen[r]) \ (todo[r] \cup {a})
        /\ ctx[r] = Merged(child[r], r)
        /\ Agrees(Shared(r, LiveOf(seen[r] \ (todo[r] \cup {child[r]}))))
    BY <1>1, <1>10 DEF ChildPut, At, Sharing
  <2>2. PICK c \in Assets : c = child[r]
    BY DEF TypeOK
  <2>3. Live(c)
    BY <1>7, <1>10, <2>1, <2>2 DEF LiveOf, Was, Live
  <2>4. /\ pc'[r] = "child_get" /\ settled' = settled /\ seen' = seen /\ todo' = todo
        /\ auth' = [auth EXCEPT ![c] = Merged(c, r)]
        /\ UNCHANGED <<row, title, meta, tags, rels, colls, cname, members, audit, req, snap>>
    BY <1>10, <2>1, <2>2, <2>3 DEF ChildPut, Goto, TypeOK, Settles, Working, locals,
       collectionTables
  <2>5. Agrees(Shared(r, LiveOf(seen[r] \ todo[r])))'
    <3>1. PICK S : S = LiveOf(seen[r] \ (todo[r] \cup {c}))
      OBVIOUS
    <3>2. Agrees(Shared(r, S \cup {c}))'
      BY <1>1, <2>1, <2>2, <2>4, <3>1, SharedGrows
    <3>3. LiveOf(seen[r] \ todo[r])' = S \cup {c}
      BY <2>1, <2>2, <2>4, <3>1 DEF LiveOf, Was
    <3> QED BY <3>2, <3>3
  <2>6. /\ seen'[r] = {b \in Assets : Promise!DescendsFrom(b, a)}'
        /\ (a \in seen[r] \ todo[r] /\ todo[r] \subseteq seen[r])'
        /\ Was(a) = "live" /\ req[r].cascade
    BY <1>7, <1>10, <2>1, <2>4
  <2> QED BY <1>1, <2>4, <2>5, <2>6 DEF Proceeds, Progress, Sharing, Working, Untouched, Was
<1>11. CASE ChildrenDone(r)
  <2>1. /\ pc[r] = "child_get" /\ todo[r] = {} /\ Unwritten /\ pc'[r] = "audit"
        /\ Agrees(Shared(r, LiveOf(seen[r] \ todo[r])))
    BY <1>1, <1>11 DEF ChildrenDone, At, Sharing, Read, Goto, TypeOK, locals, tables, assetTables,
       collectionTables
  <2>2. Agrees(Promise!Changed(r, req[r]))
    <3>1. \A b \in Assets : b \in LiveOf(seen[r] \ todo[r]) <=> Promise!Takes(req[r], b)
      BY <1>7, <2>1 DEF LiveOf, Was, Promise!Takes
    <3> QED BY <1>1, <2>1, <3>1, SharedIsChanged
  <2>3. settled' = settled
    BY <2>1 DEF Settles, Working
  <2>4. Agrees(Promise!Changed(r, req[r]))'
    <3>1. Promise!Changed(r, req[r]) = Promise!WithAuth(r, req[r])
      BY DEF Promise!Changed
    <3>2. Promise!Changed(r, req[r])' = Promise!WithAuth(r, req[r])'
      BY <2>1 DEF Promise!Changed
    <3>3. Promise!WithAuth(r, req[r])' = Promise!WithAuth(r, req[r])
      BY <2>1, <2>3 DEF Promise!WithAuth, Promise!Takes, Promise!DescendsFrom
    <3> QED BY <2>1, <2>2, <3>1, <3>2, <3>3 DEF Agrees
  <2>5. (Promise!Refusal(req[r]) = "none")' /\ (snap[r] = Promise!Lost(req[r]))' /\ Was(a) = "live"
    BY <1>1, <1>7, <2>1, <2>3 DEF Promise!Refusal, Promise!Lost, Promise!IsLive, Promise!Row, Was
  <2> QED BY <1>1, <2>1, <2>3, <2>4, <2>5 DEF Proceeds, Progress, Sharing, Working, Untouched, Was
<1> QED BY <1>2, <1>3, <1>4, <1>5, <1>6, <1>8, <1>9, <1>10, <1>11

-----------------------------------------------------------------------------
(* Every step of the one request at work is the next of its handler, or the  *)
(* one that answers.                                                         *)

\* Registry's change keeps the columns.
LEMMA ChangedColumns ==
    ASSUME settled \in Columns, NEW r \in Requests, NEW q \in Request
    PROVE  Promise!Changed(r, q) = [i \in ColumnNames |-> Promise!Changed(r, q)[i]]
<1>1. settled = [i \in ColumnNames |-> settled[i]]
  BY DEF Columns, ColumnNames
<1>2. q.op \in {"createAsset", "adoptAsset", "updateAsset", "deleteAsset", "addTag", "removeTag",
                "setAuth", "createRelation", "deleteRelation", "createCollection",
                "updateCollection", "deleteCollection", "addMember", "removeMember"}
  BY DEF Request
<1>3. CASE q.op \in {"createAsset", "adoptAsset"}
  <2>1. Promise!Changed(r, q) = Promise!WithAsset(r, q.asset)
    BY <1>3 DEF Promise!Changed
  <2>2. ASSUME NEW a
        PROVE  Promise!WithAsset(r, a) = [i \in ColumnNames |-> Promise!WithAsset(r, a)[i]]
    BY <1>1 DEF Promise!WithAsset
  <2> QED BY <2>1, <2>2
<1>4. CASE q.op = "updateAsset"
  <2>1. Promise!Changed(r, q) = Promise!WithParts(r, q)
    BY <1>4 DEF Promise!Changed
  <2>2. Promise!WithParts(r, q) = [i \in ColumnNames |-> Promise!WithParts(r, q)[i]]
    BY <1>1 DEF Promise!WithParts
  <2> QED BY <2>1, <2>2
<1>5. CASE q.op = "deleteAsset"
  <2>1. Promise!Changed(r, q) = Promise!WithoutAsset(q.asset)
    BY <1>5 DEF Promise!Changed
  <2>2. ASSUME NEW a
        PROVE  Promise!WithoutAsset(a) = [i \in ColumnNames |-> Promise!WithoutAsset(a)[i]]
    BY <1>1 DEF Promise!WithoutAsset
  <2> QED BY <2>1, <2>2
<1>6. CASE q.op = "setAuth"
  <2>1. Promise!Changed(r, q) = Promise!WithAuth(r, q)
    BY <1>6 DEF Promise!Changed
  <2>2. Promise!WithAuth(r, q) = [i \in ColumnNames |-> Promise!WithAuth(r, q)[i]]
    BY <1>1 DEF Promise!WithAuth
  <2> QED BY <2>1, <2>2
<1>7. CASE q.op \in {"addTag", "removeTag", "createRelation", "deleteRelation"}
  BY <1>1, <1>7 DEF Promise!Changed
<1>8. CASE q.op \in {"createCollection", "updateCollection", "deleteCollection", "addMember",
                     "removeMember"}
  BY <1>1, <1>8 DEF Promise!Changed
<1> QED BY <1>2, <1>3, <1>4, <1>5, <1>6, <1>7, <1>8

\* The entry ends a request that has made its change.
LEMMA AuditProgress ==
    ASSUME TypeOK, Whole, NEW r \in Requests, Progress(r), WriteAudit(r)
    PROVE  Proceeds(r)
<1> DEFINE C == Promise!Changed(r, req[r])
           T == [C EXCEPT !.audit = @ \cup {Entry(r)}]
<1>1. /\ Promise!Refusal(req[r]) = "none" /\ snap[r] = Promise!Lost(req[r])
      /\ Agrees(C) /\ req[r] \in Request
  BY DEF WriteAudit, Progress
<1>2. C = [i \in ColumnNames |-> C[i]]
  BY <1>1, ChangedColumns DEF Whole
<1>3. /\ pc'[r] = "ok" /\ audit' = audit \cup {Entry(r)}
      /\ UNCHANGED <<row, title, meta, tags, auth, rels, colls, cname, members>>
  BY <1>1 DEF WriteAudit, Goto, TypeOK, Entry, tables, assetTables, collectionTables
<1> HIDE DEF C
<1>4. T = [i \in ColumnNames |-> T[i]]
  BY <1>2
<1>5. /\ row' = T.row /\ title' = T.title /\ meta' = T.meta /\ tags' = T.tags /\ auth' = T.auth
      /\ rels' = T.rels /\ colls' = T.colls /\ cname' = T.cname /\ members' = T.members
      /\ audit' = T.audit
  BY <1>1, <1>2, <1>3 DEF Agrees, ColumnNames
<1> HIDE DEF T
<1>6. Tables' = T
  BY <1>4, <1>5 DEF Tables, ColumnNames
<1> QED BY <1>1, <1>3, <1>6 DEF Proceeds, Concludes, Working, T, C

\* Every statement takes its request to the next place or to its end.
LEMMA StepProgress ==
    ASSUME TypeOK, Whole, NEW r \in Requests, Progress(r), Settles(r), Step(r)
    PROVE  Proceeds(r)
BY OpSteps, CreateProgress, AdoptProgress, UpdateProgress, DeleteProgress, TagProgress,
   UnrelateProgress, CollectionProgress, MemberProgress, RelateProgress, ShareProgress,
   AuditProgress

\* No request touches another one's snapshot.
LEMMA StepSnaps ==
    ASSUME TypeOK, NEW r \in Requests, Step(r), NEW p \in Requests, p # r
    PROVE  snap'[p] = snap[p]
<1>1. CASE Snapshot(r)
  BY <1>1 DEF Snapshot, TypeOK
<1>2. CASE RelationGet(r)
  BY <1>2 DEF RelationGet, TypeOK
<1>3. CASE AssetStep(r) /\ ~Snapshot(r)
  BY <1>3, Zenon DEF AssetStep, locals, Read, ReadLive, InsertRow, InsertTags, InsertMetadata,
     ReadBack, AdoptExists, AdoptTx, Adopted, AdoptDuplicate, UpdateGet, UpdateVerify, PutTitle,
     ClearMetadata, PutMetadata, DeleteGet, SoftDelete, DropRelations, DropMembers, TagGet,
     PutTag, DropTag, TagMissing, AuthGet, PutAuth, AuthReadBack, WalkDescendants,
     DescendantsFound, ChildGet, ChildGone, ChildPut, ChildrenDone
<1>4. CASE (LinkStep(r) \/ WriteAudit(r)) /\ ~RelationGet(r)
  BY <1>4, Zenon DEF LinkStep, WriteAudit, locals, Read, ReadLive, FromExists, ToExists,
     WalkForCycle, CycleFound, NoCycle, InsertRelation, DropRelation, InsertCollection,
     CollectionGet, CollectionVerify, PutName, CollectionReadBack, DropCollection, MemberGet,
     MemberCollection, PutMember, DropMember
<1> QED BY <1>1, <1>2, <1>3, <1>4 DEF Step

\* Only a request at work takes a step.
LEMMA StepRuns ==
    ASSUME NEW r \in Requests, Step(r)
    PROVE  Running(r)
<1>1. CASE AssetStep(r)
  BY <1>1 DEF Running, Working, At, AssetStep, InsertRow, InsertTags, InsertMetadata,
     ReadBack, AdoptExists, AdoptTx, Adopted, AdoptDuplicate, UpdateGet, UpdateVerify, PutTitle,
     ClearMetadata, PutMetadata, DeleteGet, Snapshot, SoftDelete, DropRelations, DropMembers,
     TagGet, PutTag, DropTag, TagMissing, AuthGet, PutAuth, AuthReadBack, WalkDescendants,
     DescendantsFound, ChildGet, ChildGone, ChildPut, ChildrenDone
<1>2. CASE LinkStep(r)
  BY <1>2 DEF Running, Working, At, LinkStep, FromExists, ToExists, WalkForCycle, CycleFound,
     NoCycle, InsertRelation, RelationGet, DropRelation, InsertCollection, CollectionGet,
     CollectionVerify, PutName, CollectionReadBack, DropCollection, MemberGet, MemberCollection,
     PutMember, DropMember
<1>3. CASE WriteAudit(r)
  BY <1>3 DEF WriteAudit, Running, Working
<1> QED BY <1>1, <1>2, <1>3 DEF Step

\* A request that arrives alone starts on the settled tables.
LEMMA ArriveProgress ==
    ASSUME TypeOK, SerialInv, NEW r \in Requests, Arrive(r), \A p \in Requests : ~Running(p),
           Settles(r)
    PROVE  pc'[r] \in Working /\ Progress(r)' /\ snap' = snap
           /\ \A p \in Requests \ {r} : pc'[p] = pc[p]
<1>1. PICK q \in Arguments : Start(r, q)
  BY DEF Arrive
<1>2. q \in Request /\ q.op \in Operations
  BY DEF Arguments
<1>3. /\ pc[r] = "idle" /\ req'[r] = q /\ pc'[r] = FirstStatement(q.op) /\ snap' = snap
      /\ \A p \in Requests \ {r} : pc'[p] = pc[p]
      /\ UNCHANGED <<row, title, meta, tags, auth, rels, colls, cname, members, audit>>
  BY <1>1 DEF Start, Goto, TypeOK, tables, assetTables, collectionTables, locals
<1>4. pc'[r] \in {"insert", "exists", "drop_tag", "drop_member", "get"}
  BY <1>3 DEF FirstStatement
<1>5. settled' = settled /\ snap'[r] = {} /\ Agrees(settled)'
  BY <1>3, <1>4, ColumnsOf DEF Settles, Working, SerialInv, Agrees
<1>6. /\ q.op = "createAsset" => Was(q.asset) = "absent"
      /\ q.op = "createRelation" => Was(q.from) # "absent" /\ Was(q.to) # "absent"
  <2>1. row = settled.row
    BY ColumnsOf DEF SerialInv
  <2> QED BY <2>1 DEF Arguments, Exists, Was
<1>7. /\ q.op = "createAsset" => Creating(r)'
      /\ q.op = "adoptAsset" => Adopting(r)'
      /\ q.op = "updateAsset" => Updating(r)'
      /\ q.op = "deleteAsset" => Erasing(r)'
      /\ q.op = "addTag" => Tagging(r)'
      /\ q.op = "removeTag" => Untagging(r)'
      /\ q.op = "setAuth" => Sharing(r)'
      /\ q.op = "createRelation" => Relating(r)'
      /\ q.op = "deleteRelation" => Unrelating(r)'
  BY <1>3, <1>5, <1>6 DEF FirstStatement, Creating, Adopting, Updating, Erasing, Tagging,
     Untagging, Sharing, Relating, Unrelating, Was
<1>8. /\ q.op \in {"createCollection", "updateCollection", "deleteCollection"} => Naming(r)'
      /\ q.op \in {"addMember", "removeMember"} => Joining(r)'
  BY <1>3, <1>5 DEF FirstStatement, Naming, Joining
<1>9. Progress(r)'
  BY <1>2, <1>3, <1>4, <1>5, <1>7, <1>8 DEF Progress
<1> QED BY <1>3, <1>4, <1>9 DEF Working

\* What a request leaves is whole again.
LEMMA EndIsWhole ==
    ASSUME TypeOK', Whole, NEW r \in Requests, req[r] \in Request, Concludes(r), settled' = Tables'
    PROVE  Whole'
<1> DEFINE q == req[r]
           C == Promise!Changed(r, q)
<1>1. Tables' \in Columns
  BY DEF TypeOK, Tables, Columns
<1>2. CASE Tables' = settled
  BY <1>2 DEF Whole
<1>3. CASE Promise!Refusal(q) = "none" /\ Tables' = [C EXCEPT !.audit = @ \cup {Entry(r)}]
  <2>1. C = [i \in ColumnNames |-> C[i]] /\ settled \in Columns
    BY ChangedColumns DEF Whole
  <2>2. /\ settled'.row = C.row /\ settled'.meta = C.meta /\ settled'.members = C.members
        /\ settled'.colls = C.colls
    BY <1>3, <2>1 DEF ColumnNames
  <2>3. /\ \A a \in Assets : C.row[a] = "absent" => C.meta[a] = {}
        /\ \A m \in C.members : C.colls[m.coll] = "present"
    <3>1. CASE q.op \in {"createAsset", "adoptAsset"}
      <4>1. q.asset \in Assets
        BY <3>1, RequestFields DEF OnAsset
      <4>2. C = Promise!WithAsset(r, q.asset)
        BY <3>1 DEF Promise!Changed
      <4>3. /\ C.row = [settled.row EXCEPT ![q.asset] = "live"]
            /\ C.meta = [settled.meta EXCEPT ![q.asset] = {r}]
            /\ C.members = settled.members /\ C.colls = settled.colls
        BY <2>1, <4>2 DEF Promise!WithAsset, Columns
      <4> HIDE DEF C, q
      <4> QED BY <2>1, <4>1, <4>3 DEF Whole, Columns
    <3>5. CASE q.op = "deleteAsset"
      <4>1. q.asset \in Assets
        BY <3>5, RequestFields DEF OnAsset
      <4>2. C = Promise!WithoutAsset(q.asset)
        BY <3>5 DEF Promise!Changed
      <4>3. /\ C.row = [settled.row EXCEPT ![q.asset] = "deleted"]
            /\ C.meta = settled.meta
            /\ C.members = {m \in settled.members : m.asset # q.asset}
            /\ C.colls = settled.colls
        BY <2>1, <4>2 DEF Promise!WithoutAsset, Columns
      <4>4. C.row[q.asset] = "deleted" /\ \A b \in Assets \ {q.asset} : C.row[b] = settled.row[b]
        BY <2>1, <4>1, <4>3 DEF Columns
      <4>5. \A m \in C.members : m \in settled.members
        BY <4>3
      <4> HIDE DEF C, q
      <4> QED BY <4>3, <4>4, <4>5 DEF Whole
    <3>2. CASE q.op = "updateAsset"
      <4>1. q.asset \in Assets
        BY <3>2, RequestFields DEF OnAsset
      <4>2. C = Promise!WithParts(r, q)
        BY <3>2 DEF Promise!Changed
      <4>3. /\ C.row = settled.row
            /\ C.meta = [settled.meta EXCEPT ![q.asset] = IF "metadata" \in q.parts THEN {r} ELSE @]
            /\ C.members = settled.members /\ C.colls = settled.colls
        BY <2>1, <4>2 DEF Promise!WithParts, Columns
      <4>4. settled.row[q.asset] = "live"
        BY <1>3, <3>2 DEF Promise!Refusal, Promise!IsLive, Promise!Row
      <4> HIDE DEF C, q
      <4> QED BY <2>1, <4>1, <4>3, <4>4 DEF Whole, Columns
    <3>3. CASE q.op \in {"addTag", "removeTag", "setAuth", "createRelation", "deleteRelation",
                         "updateCollection"}
      <4>1. C.row = settled.row /\ C.meta = settled.meta /\ C.members = settled.members
            /\ C.colls = settled.colls
        BY <2>1, <3>3 DEF Promise!Changed, Promise!WithAuth, Columns
      <4> QED BY <4>1 DEF Whole
    <3>4. CASE q.op \in {"createCollection", "deleteCollection", "addMember", "removeMember"}
      <4>1. q.coll \in Collections
        BY <3>4, RequestFields DEF OnCollection
      <4>2. C.row = settled.row /\ C.meta = settled.meta
        BY <2>1, <3>4 DEF Promise!Changed, Columns
      <4>3. CASE q.op = "createCollection"
        <5>1. C = [settled EXCEPT !.colls[q.coll] = "present", !.cname[q.coll] = r]
          BY <4>3 DEF Promise!Changed
        <5>2. /\ C.colls = [settled.colls EXCEPT ![q.coll] = "present"]
              /\ C.members = settled.members
          BY <2>1, <5>1 DEF Columns
        <5> HIDE DEF C, q
        <5> QED BY <2>1, <4>1, <4>2, <5>2 DEF Whole, Columns, Memberships
      <4>4. CASE q.op = "deleteCollection"
        <5>1. C = [settled EXCEPT !.colls[q.coll] = "gone",
                                   !.members = {m \in @ : m.coll # q.coll}]
          BY <4>4 DEF Promise!Changed
        <5>2. /\ C.colls = [settled.colls EXCEPT ![q.coll] = "gone"]
              /\ C.members = {m \in settled.members : m.coll # q.coll}
          BY <2>1, <5>1 DEF Columns
        <5> HIDE DEF C, q
        <5> QED BY <2>1, <4>1, <4>2, <5>2 DEF Whole, Columns, Memberships
      <4>5. CASE q.op = "addMember"
        <5>1. settled.colls[q.coll] = "present"
          BY <1>3, <4>5 DEF Promise!Refusal
        <5> QED BY <2>1, <4>1, <4>2, <4>5, <5>1 DEF Promise!Changed, Whole, Columns
      <4>6. CASE q.op = "removeMember"
        BY <2>1, <4>1, <4>2, <4>6 DEF Promise!Changed, Whole, Columns
      <4> QED BY <3>4, <4>3, <4>4, <4>5, <4>6
    <3> QED BY <3>1, <3>2, <3>3, <3>4, <3>5 DEF Request
  <2> HIDE DEF C
  <2> QED BY <1>1, <2>2, <2>3 DEF Whole
<1> QED BY <1>2, <1>3 DEF Concludes

\* Progress depends on nothing but these variables.
LEMMA ProgressFrame ==
    ASSUME NEW r \in Requests, Progress(r),
           UNCHANGED <<row, title, meta, tags, auth, rels, colls, cname, members, audit>>,
           UNCHANGED <<req, pc, snap, seen, todo, ctx, child, settled>>
    PROVE  Progress(r)'
<1>1. /\ Creating(r)' <=> Creating(r)
      /\ Adopting(r)' <=> Adopting(r)
      /\ Updating(r)' <=> Updating(r)
      /\ Erasing(r)' <=> Erasing(r)
  BY DEF Creating, Adopting, Updating, Erasing, Agrees, Was, Entry, Promise!WithAsset,
     Promise!WithParts, Promise!Incident, Promise!Lost
<1>2. /\ Tagging(r)' <=> Tagging(r)
      /\ Untagging(r)' <=> Untagging(r)
      /\ Unrelating(r)' <=> Unrelating(r)
      /\ Naming(r)' <=> Naming(r)
      /\ Joining(r)' <=> Joining(r)
  BY DEF Tagging, Untagging, Unrelating, Naming, Joining, Agrees, Was
<1>3. Sharing(r) => Sharing(r)'
  BY DEF Sharing, Shared, Visiting, LiveOf, Merged, Agrees, Was, Promise!DescendsFrom
<1>4. Relating(r) => Relating(r)'
  BY DEF Relating, Visiting, Agrees, Was, Promise!DescendsFrom
<1>5. /\ Promise!Refusal(req[r])' = Promise!Refusal(req[r])
      /\ Promise!Lost(req[r])' = Promise!Lost(req[r])
  BY DEF Promise!Refusal, Promise!Lost, Promise!DescendsFrom, Promise!IsLive, Promise!HasRow,
     Promise!Row, Promise!Incident
<1>6. Promise!Changed(r, req[r])' = Promise!Changed(r, req[r])
  BY DEF Promise!Changed, Promise!WithAsset, Promise!WithParts, Promise!WithoutAsset,
     Promise!WithAuth, Promise!Takes, Promise!DescendsFrom, Promise!Incident
<1> QED BY <1>1, <1>2, <1>3, <1>4, <1>5, <1>6 DEF Progress, Agrees

\* The invariant holds at the start.
LEMMA InitSerial == SerialInit => TypeOK /\ SerialInv
<1> SUFFICES ASSUME SerialInit PROVE TypeOK /\ SerialInv
  OBVIOUS
<1>1. TypeOK
  BY InitTypes DEF SerialInit, Init
<1>2. Whole
  <2>1. settled \in Columns
    BY <1>1, ColumnsOf DEF SerialInit
  <2> QED BY <1>1, <2>1, ColumnsOf DEF Whole, SerialInit, Init, StoreInit
<1> QED BY <1>1, <1>2 DEF SerialInv, SerialInit, Init, StoreInit, Running, Working

\* Registry takes the requests Catalogue does.
LEMMA SameRequests == Promise!Request = Request
BY DEF Request, Promise!Request, Relations, Promise!Relations, Writers, Promise!Writers, Parts,
   Promise!Parts

\* One step keeps the invariant and is a step of Registry, or none.
LEMMA SerialStep ==
    ASSUME TypeOK, TypeOK', SerialInv, SerialNext
    PROVE  SerialInv' /\ [Promise!RegistryNext]_<<settled, Answered>>
<1>1. PICK r \in Requests :
          (Arrive(r) /\ \A q \in Requests : ~Running(q)) \/ Step(r)
  BY DEF SerialNext
<1>2. ASSUME \A p \in Requests \ {r} : pc'[p] = pc[p] /\ ~Running(p)
      PROVE  Settles(r)
  BY <1>2 DEF SerialNext, Settles, Running
<1>3. ASSUME \A p \in Requests \ {r} : pc'[p] = pc[p] /\ ~Running(p) /\ snap'[p] = snap[p],
             pc[r] \notin Answers, pc'[r] \in Working, Progress(r)'
      PROVE  SerialInv' /\ [Promise!RegistryNext]_<<settled, Answered>>
  <2>1. settled' = settled /\ pc'[r] # "idle" /\ pc'[r] \notin Answers
    BY <1>2, <1>3 DEF Settles, Working, Answers
  <2>2. Answered' = Answered
    BY <1>3, <2>1 DEF Answered
  <2>3. Whole'
    BY <2>1 DEF SerialInv, Whole
  <2> QED BY <1>3, <2>1, <2>2, <2>3 DEF SerialInv, Running
<1>4. CASE Arrive(r) /\ \A q \in Requests : ~Running(q)
  <2>1. \A p \in Requests \ {r} : pc'[p] = pc[p] /\ ~Running(p)
    BY <1>4 DEF Arrive, Start, Goto, TypeOK
  <2>2. /\ pc'[r] \in Working /\ Progress(r)' /\ snap' = snap /\ pc[r] = "idle"
    BY <1>2, <1>4, <2>1, ArriveProgress DEF Arrive, Start
  <2> QED BY <1>3, <2>1, <2>2 DEF Answers
<1>5. CASE Step(r)
  <2>1. Running(r) /\ Progress(r) /\ Whole
    BY <1>5, StepRuns DEF SerialInv
  <2>2. \A p \in Requests \ {r} : pc'[p] = pc[p] /\ ~Running(p) /\ snap'[p] = snap[p]
    BY <1>5, <2>1, StepFrame, StepSnaps DEF SerialInv, TypeOK
  <2>3. Settles(r) /\ Proceeds(r)
    BY <1>2, <1>5, <2>1, <2>2, StepProgress
  <2>4. pc[r] \notin Answers /\ pc[r] # "idle"
    BY <2>1 DEF Running, Working, Answers
  <2>5. CASE pc'[r] \in Working
    BY <1>3, <2>2, <2>3, <2>4, <2>5 DEF Proceeds
  <2>6. CASE pc'[r] \notin Working
    <3>1. Concludes(r) /\ settled' = Tables' /\ req[r] \in Request /\ req[r].op \in Operations
      BY <2>1, <2>3, <2>6 DEF Proceeds, Settles, Progress
    <3>2. pc'[r] \in Answers
      <4>1. \E label \in Working \cup Answers : pc' = [pc EXCEPT ![r] = label]
        BY <1>5, StepFrame
      <4> QED BY <2>6, <4>1 DEF TypeOK
    <3>3. Whole'
      BY <2>1, <3>1, EndIsWhole
    <3>4. SerialInv'
      BY <2>2, <2>6, <3>1, <3>2, <3>3 DEF SerialInv, Running, Answers
    <3>5. Answered[r] = "none" /\ Answered' = [Answered EXCEPT ![r] = pc'[r]]
      BY <2>2, <2>4, <3>2 DEF Answered
    <3>6. Promise!RegistryNext
      <4>1. Promise!Grant(r, req[r]) \/ Promise!Refuse(r, req[r])
        BY <3>1, <3>5 DEF Concludes, Promise!Grant, Promise!Refuse, Entry
      <4>2. req[r] \in Promise!Request
        BY <3>1, SameRequests
      <4> QED BY <3>1, <3>5, <4>1, <4>2 DEF Promise!RegistryNext
    <3> QED BY <3>4, <3>6
  <2> QED BY <2>5, <2>6
<1> QED BY <1>1, <1>4, <1>5

\* Requests answered one at a time and without errors are atomic: the
\* statement-by-statement handlers implement Registry, for any relation graph.
THEOREM HandlersAreAtomic == SerialSpec => EachRequestIsAtomic
<1>1. SerialInit => Promise!RegistryInit
  <2> SUFFICES ASSUME SerialInit PROVE Promise!RegistryInit
    OBVIOUS
  <2>1. settled.audit = {}
    BY DEF SerialInit, Tables, Init, StoreInit
  <2>2. Answered = [r \in Requests |-> "none"]
    BY DEF SerialInit, Init, StoreInit, Answered, Answers
  <2> QED BY <2>1, <2>2 DEF Promise!RegistryInit
<1>2. TypeOK /\ SerialInv /\ [SerialNext]_<<vars, settled>> =>
          /\ TypeOK' /\ SerialInv'
          /\ [Promise!RegistryNext]_<<settled, Answered>>
  <2> SUFFICES ASSUME TypeOK, SerialInv, [SerialNext]_<<vars, settled>>
               PROVE  /\ TypeOK' /\ SerialInv'
                      /\ [Promise!RegistryNext]_<<settled, Answered>>
    OBVIOUS
  <2>1. SerialNext => Next
    BY DEF SerialNext, Next
  <2>2. TypeOK'
    BY <2>1, TypeStep
  <2>3. CASE UNCHANGED <<vars, settled>>
    <3>1. settled' = settled /\ Answered' = Answered
      BY <2>3 DEF vars, storeVars, Answered
    <3>2. /\ UNCHANGED <<row, title, meta, tags, auth, rels, colls, cname, members, audit>>
          /\ UNCHANGED <<req, pc, snap, seen, todo, ctx, child, settled>>
      BY <2>3 DEF vars, storeVars, tables, assetTables, collectionTables, locals
    <3>3. /\ Whole' /\ (\A r \in Requests : pc[r] = "idle" => snap[r] = {})'
          /\ (\A r, p \in Requests : Running(r) /\ Running(p) => r = p)'
          /\ ((\A r \in Requests : ~Running(r)) => settled = Tables)'
      BY <3>2 DEF SerialInv, Whole, Running, Tables
    <3>4. \A r \in Requests : Running(r)' => Progress(r)'
      <4> SUFFICES ASSUME NEW r \in Requests, Running(r)' PROVE Progress(r)'
        OBVIOUS
      <4>1. Progress(r)
        BY <3>2 DEF Running, SerialInv
      <4> QED BY <3>2, <4>1, ProgressFrame
    <3>5. SerialInv'
      BY <3>3, <3>4 DEF SerialInv
    <3> QED BY <2>2, <3>1, <3>5
  <2> QED BY <2>2, <2>3, SerialStep
<1> QED BY <1>1, <1>2, InitSerial, PTL DEF SerialSpec, EachRequestIsAtomic, Promise!RegistrySpec
=============================================================================
