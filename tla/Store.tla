------------------------------- MODULE Store -------------------------------
(***************************************************************************)
(* One instance's SQLite store and the requests at work on it.             *)
(*                                                                         *)
(* Every HTTP request runs as its own task.  A handler is a sequence of    *)
(* SQL statements with an .await after each one, so the statements of      *)
(* several requests interleave freely; a statement is atomic and, but for  *)
(* adopt, no transaction spans two of them.  A request is modelled by its  *)
(* arguments (req), the statement it executes next (pc) and what it has    *)
(* read and keeps in local variables (snap, seen, todo, ctx, child).       *)
(***************************************************************************)
EXTENDS Vocabulary

\* The statement a request executes next, or how it was answered.
Working == {"get", "exists", "verify", "insert", "insert_tags", "insert_metadata",
            "adopt_tx", "put_title", "clear_metadata", "put_metadata", "reget",
            "snapshot", "soft_delete", "drop_relations", "drop_members",
            "put_tag", "drop_tag", "tag_missing", "put_auth", "reget_auth",
            "child_get", "child_put", "to_exists", "walk", "drop",
            "coll_exists", "put_member", "drop_member", "put_name", "audit"}
Answers == {"ok", "notfound", "invalid", "conflict", "failed"}

VARIABLES
    row,      \* the assets table: no row, deleted_at NULL, deleted_at set
    title,    \* who wrote an asset's title
    meta,     \* who wrote each of an asset's metadata rows
    tags,     \* the tags table
    auth,     \* who wrote each field of an asset's authorization context
    rels,     \* the relations table
    colls,    \* the collections table
    cname,    \* who wrote a collection's name
    members,  \* the collection_assets table
    audit,    \* the entries these requests have written to audit_entries
    req, pc, snap, seen, todo, ctx, child

assetTables == <<row, title, meta, tags, auth>>
collectionTables == <<colls, cname, members>>
tables == <<row, title, meta, tags, auth, rels, colls, cname, members>>
locals == <<snap, seen, todo, ctx, child>>
storeVars == <<tables, audit, req, pc, locals>>

NoRequest == [op |-> "none"]

TypeOK ==
    /\ row \in [Assets -> {"absent", "live", "deleted"}]
    /\ title \in [Assets -> Writers]
    /\ meta \in [Assets -> SUBSET Writers]
    /\ tags \in SUBSET (Assets \X Writers)
    /\ auth \in [Assets -> [Fields -> Writers]]
    /\ rels \in SUBSET Relations
    /\ colls \in [Collections -> {"absent", "present", "gone"}]
    /\ cname \in [Collections -> Writers]
    /\ members \in SUBSET Memberships
    /\ audit \in SUBSET Entries
    /\ req \in [Requests -> Request \cup {NoRequest}]
    /\ pc \in [Requests -> {"idle"} \cup Working \cup Answers]
    /\ \A r \in Requests : pc[r] # "idle" => req[r] \in Request
    /\ snap \in [Requests -> SUBSET Relations]
    /\ seen \in [Requests -> SUBSET Assets]
    /\ todo \in [Requests -> SUBSET Assets]
    /\ ctx \in [Requests -> [Fields -> Writers]]
    /\ child \in [Requests -> Assets]

-----------------------------------------------------------------------------
\* What the queries answer.

Live(a) == row[a] = "live"                        \* get_by_id
Exists(a) == row[a] # "absent"                    \* exists, soft-deleted included

\* Mutants of Touching: the ids alone; the outgoing relations alone.
TouchingIds(a) == {x.id : x \in {y \in rels : a \in {y.from, y.to}}}
TouchingFrom(a) == {x \in rels : x.from = a}

Touching(a) == {x \in rels : x.from = a \/ x.to = a}
Successors(a) == {x.to : x \in {y \in rels : y.from = a}}

\* The assets a walk along outgoing relations reaches from a, a included: what
\* every set holding a and closed under outgoing relations holds.
Closed(S) == \A x \in rels : x.from \in S => x.to \in S
Reached(a) == {b \in Assets : \A S \in SUBSET Assets : a \in S /\ Closed(S) => b \in S}

At(r, op, label) == pc[r] = label /\ req[r].op = op
Goto(r, label) == pc' = [pc EXCEPT ![r] = label]
Running(r) == pc[r] \in Working

\* A statement that only reads: the next label is all that changes.
Read(r, label) == Goto(r, label) /\ UNCHANGED <<tables, audit, req, locals>>

ReadLive(r, a, label) == Read(r, IF Live(a) THEN label ELSE "notfound")

-----------------------------------------------------------------------------
\* A request arrives.  Its arguments name what a client can know: a stored
\* asset, relation or collection; adopt names any id but one being minted; the
\* ids create mints are fresh uuids nobody has named yet.

Named(a) == {p \in Requests : req[p].op \in OnAsset /\ req[p].asset = a}
Minted(a) == \E p \in Named(a) : req[p].op = "createAsset"
NamedCollection(c) == {p \in Requests : req[p].op \in OnCollection /\ req[p].coll = c}

FirstStatement(op) ==
    CASE op \in {"createAsset", "createCollection"} -> "insert"
      [] op \in {"adoptAsset", "createRelation"}    -> "exists"
      [] op = "removeTag"                           -> "drop_tag"
      [] op = "removeMember"                        -> "drop_member"
      [] OTHER                                      -> "get"

Arguments ==
    {q \in Request :
        /\ q.op \in Operations
        /\ CASE q.op = "createAsset" -> ~Exists(q.asset) /\ Named(q.asset) = {}
             [] q.op = "adoptAsset" -> Exists(q.asset) \/ ~Minted(q.asset)
             [] q.op = "createRelation" -> Exists(q.from) /\ Exists(q.to)
             [] q.op = "deleteRelation" -> q.rel \in rels
             [] q.op = "createCollection" ->
                    colls[q.coll] = "absent" /\ NamedCollection(q.coll) = {}
             [] q.op \in {"updateCollection", "deleteCollection"} ->
                    colls[q.coll] # "absent"
             [] q.op \in {"addMember", "removeMember"} ->
                    colls[q.coll] # "absent" /\ Exists(q.asset)
             [] OTHER -> Exists(q.asset)}

Start(r, q) ==
    /\ pc[r] = "idle"
    /\ req' = [req EXCEPT ![r] = q]
    /\ Goto(r, FirstStatement(q.op))
    /\ UNCHANGED <<tables, audit, locals>>

\* A statement fails, the connection drops and axum drops the handler's future,
\* or the process dies: what the request has done so far stays done.
Fail(r) ==
    /\ Running(r)
    /\ Goto(r, "failed")
    /\ UNCHANGED <<tables, audit, req, locals>>

\* The last statement of a handler that changed something: its audit entry.
WriteAudit(r) ==
    /\ pc[r] = "audit"
    /\ audit' = audit \cup {[by |-> r, req |-> req[r], lost |-> snap[r]]}
    /\ Goto(r, "ok")
    /\ UNCHANGED <<tables, req, locals>>

StoreInit ==
    /\ row = [a \in Assets |-> IF a \in Born THEN "live" ELSE "absent"]
    /\ title = [a \in Assets |-> Seed]
    /\ meta = [a \in Assets |-> IF a \in Born THEN {Seed} ELSE {}]
    /\ tags = Born \X {Seed}
    /\ auth = [a \in Assets |-> [f \in Fields |-> Seed]]
    /\ rels = Given
    /\ colls \in [Collections -> {"absent", "present"}]
    /\ cname = [c \in Collections |-> Seed]
    /\ members = {}
    /\ audit = {}
    /\ req = [r \in Requests |-> NoRequest]
    /\ pc = [r \in Requests |-> "idle"]
    /\ snap = [r \in Requests |-> {}]
    /\ seen = [r \in Requests |-> {}]
    /\ todo = [r \in Requests |-> {}]
    /\ ctx = [r \in Requests |-> [f \in Fields |-> Seed]]
    /\ child = [r \in Requests |-> CHOOSE a \in Assets : TRUE]
=============================================================================
