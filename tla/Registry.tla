------------------------------ MODULE Registry ------------------------------
(***************************************************************************)
(* What the REST API promises of requests that are answered one at a time  *)
(* and meet no error: each is one atomic change of the store together with *)
(* its audit entry, or a refusal that changes nothing.                     *)
(***************************************************************************)
EXTENDS Vocabulary

VARIABLES
    db,      \* the tables
    answer   \* how each request was answered, "none" before

Row(q) == db.row[q.asset]
HasRow(q) == Row(q) # "absent"
IsLive(q) == Row(q) = "live"

Incident(a) == {x \in db.rels : a \in {x.from, x.to}}

\* b is a or one of its descendants: every set of assets that holds a and every
\* target of a relation from one of its members holds b.
DescendsFrom(b, a) ==
    \A S \in SUBSET Assets :
        a \in S /\ (\A x \in db.rels : x.from \in S => x.to \in S) => b \in S

Refusal(q) ==
    CASE q.op = "adoptAsset" -> IF HasRow(q) THEN "conflict" ELSE "none"
      [] q.op \in {"deleteAsset", "updateAsset", "addTag", "setAuth"} ->
             IF IsLive(q) THEN "none" ELSE "notfound"
      [] q.op = "removeTag" ->
             IF IsLive(q) \/ <<q.asset, q.tag>> \in db.tags THEN "none" ELSE "notfound"
      [] q.op = "createRelation" ->
             IF DescendsFrom(q.from, q.to) THEN "invalid" ELSE "none"
      [] q.op = "deleteRelation" -> IF q.rel \in db.rels THEN "none" ELSE "notfound"
      [] q.op \in {"updateCollection", "deleteCollection", "removeMember"} ->
             IF db.colls[q.coll] = "present" THEN "none" ELSE "notfound"
      [] q.op = "addMember" ->
             IF IsLive(q) /\ db.colls[q.coll] = "present" THEN "none" ELSE "notfound"
      [] OTHER -> "none"

Lost(q) ==
    CASE q.op = "deleteAsset" -> Incident(q.asset)
      [] q.op = "deleteRelation" -> {q.rel}
      [] OTHER -> {}

\* A new row: everything in it was written by r.
WithAsset(r, a) ==
    [db EXCEPT !.row[a] = "live", !.title[a] = r, !.meta[a] = {r},
               !.tags = @ \cup {<<a, r>>}, !.auth[a] = [f \in Fields |-> r]]

WithParts(r, q) ==
    [db EXCEPT !.title[q.asset] = IF "title" \in q.parts THEN r ELSE @,
               !.meta[q.asset] = IF "metadata" \in q.parts THEN {r} ELSE @]

WithoutAsset(a) ==
    [db EXCEPT !.row[a] = "deleted", !.rels = @ \ Incident(a),
               !.members = {m \in @ : m.asset # a}]

\* The fields the request sets, on the asset and with cascade on every live
\* descendant; all other fields stay.
Takes(q, b) ==
    b = q.asset \/ (q.cascade /\ DescendsFrom(b, q.asset) /\ db.row[b] = "live")
WithAuth(r, q) ==
    [db EXCEPT !.auth = [b \in Assets |-> [f \in Fields |->
        IF f \in q.fields /\ Takes(q, b) THEN r ELSE @[b][f]]]]

Changed(r, q) ==
    CASE q.op \in {"createAsset", "adoptAsset"} -> WithAsset(r, q.asset)
      [] q.op = "updateAsset" -> WithParts(r, q)
      [] q.op = "deleteAsset" -> WithoutAsset(q.asset)
      [] q.op = "addTag" -> [db EXCEPT !.tags = @ \cup {<<q.asset, r>>}]
      [] q.op = "removeTag" -> [db EXCEPT !.tags = @ \ {<<q.asset, q.tag>>}]
      [] q.op = "setAuth" -> WithAuth(r, q)
      [] q.op = "createRelation" ->
             [db EXCEPT !.rels = @ \cup {[id |-> r, from |-> q.from, to |-> q.to]}]
      [] q.op = "deleteRelation" -> [db EXCEPT !.rels = @ \ {q.rel}]
      [] q.op = "createCollection" ->
             [db EXCEPT !.colls[q.coll] = "present", !.cname[q.coll] = r]
      [] q.op = "updateCollection" -> [db EXCEPT !.cname[q.coll] = r]
      [] q.op = "deleteCollection" ->
             [db EXCEPT !.colls[q.coll] = "gone",
                        !.members = {m \in @ : m.coll # q.coll}]
      [] q.op = "addMember" ->
             [db EXCEPT !.members = @ \cup {[coll |-> q.coll, asset |-> q.asset]}]
      [] q.op = "removeMember" ->
             [db EXCEPT !.members = @ \ {[coll |-> q.coll, asset |-> q.asset]}]

Grant(r, q) ==
    LET entry == [by |-> r, req |-> q, lost |-> Lost(q)] IN
    /\ Refusal(q) = "none"
    /\ db' = [Changed(r, q) EXCEPT !.audit = @ \cup {entry}]
    /\ answer' = [answer EXCEPT ![r] = "ok"]

Refuse(r, q) ==
    /\ Refusal(q) # "none"
    /\ answer' = [answer EXCEPT ![r] = Refusal(q)]
    /\ UNCHANGED db

RegistryInit == db.audit = {} /\ answer = [r \in Requests |-> "none"]

RegistryNext ==
    \E r \in Requests : answer[r] = "none" /\
        \E q \in Request : q.op \in Operations /\ (Grant(r, q) \/ Refuse(r, q))

RegistrySpec == RegistryInit /\ [][RegistryNext]_<<db, answer>>
=============================================================================
