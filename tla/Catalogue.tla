----------------------------- MODULE Catalogue -----------------------------
(***************************************************************************)
(* The requests on one instance's store, interleaved statement by          *)
(* statement, and what survives the interleaving.                          *)
(*                                                                         *)
(* Four history variables record what the tables forget; no action reads   *)
(* them.                                                                   *)
(***************************************************************************)
EXTENDS LinkOps

VARIABLES
    ever,   \* every relation that has been in the table
    late,   \* relations inserted between a delete's snapshot and its cascade
    stray,  \* links inserted when an asset at their end was soft-deleted
    raced   \* a relation was inserted while another request looked for a cycle

history == <<ever, late, stray, raced>>
vars == <<storeVars, history>>

\* Request r has read the relations of asset a and not yet dropped them.
Cascading(r, a) ==
    /\ pc[r] \in {"soft_delete", "drop_relations"}
    /\ req[r] = [op |-> "deleteAsset", asset |-> a]

LookingForCycle(r) == pc[r] \in {"walk", "insert"} /\ req[r].op = "createRelation"

NewLinks == (rels' \ rels) \cup (members' \ members)
Ends(l) == IF "from" \in DOMAIN l THEN {l.from, l.to} ELSE {l.asset}

Observe(r) ==
    /\ ever' = ever \cup rels'
    /\ late' = late \cup {x \in rels' \ rels :
                            \E q \in Requests : \E a \in {x.from, x.to} : Cascading(q, a)}
    /\ stray' = stray \cup {l \in NewLinks : \E a \in Ends(l) : ~Live(a)}
    /\ raced' = (raced \/ (rels' \ rels # {} /\ \E q \in Requests \ {r} : LookingForCycle(q)))

Step(r) == AssetStep(r) \/ LinkStep(r) \/ WriteAudit(r)

Arrive(r) == \E q \in Arguments : Start(r, q)

Init ==
    /\ StoreInit
    /\ ever = Given /\ late = {} /\ stray = {} /\ raced = FALSE

Next == \E r \in Requests : (Arrive(r) \/ Step(r) \/ Fail(r) \/ ChildError(r)) /\ Observe(r)

Spec == Init /\ [][Next]_vars

\* tokio polls a woken task and SQLite answers or fails every statement, so a
\* request that is being handled keeps executing statements.
Fairness == \A r \in Requests : WF_vars(Step(r) /\ Observe(r))
FairSpec == Spec /\ Fairness

-----------------------------------------------------------------------------
\* A soft-deleted asset is never brought back, retitled or given another
\* authorization context: the WHERE deleted_at IS NULL of every UPDATE and the
\* primary key under adopt hold although each handler checked earlier.
DeletedStaysDeleted ==
    [][\A a \in Assets : row[a] = "deleted" =>
          row'[a] = "deleted" /\ title'[a] = title[a] /\ auth'[a] = auth[a]]_vars

Deletions(a) == {e \in audit : e.req = [op |-> "deleteAsset", asset |-> a]}

\* However many deletes of one asset race, one of them deletes it: at most one
\* cascade entry is written, and only for an asset that is deleted.
OneDeletion ==
    \A a \in Assets :
        /\ Cardinality(Deletions(a)) <= 1
        /\ Deletions(a) # {} => row[a] = "deleted"

Recorded(x) == \E e \in audit : x \in e.lost

\* Request r deletes relation x and has not yet written, or will never write,
\* the entry that says so.
Removing(r, x) ==
    /\ pc[r] \in {"drop", "drop_relations", "drop_members", "audit", "failed"}
    /\ \/ req[r] = [op |-> "deleteRelation", rel |-> x]
       \/ \E a \in {x.from, x.to} : req[r] = [op |-> "deleteAsset", asset |-> a]

\* A relation that is gone is named by an audit entry, unless the request that
\* removed it is still at work or failed, or the relation arrived after the
\* cascade's snapshot.
RemovedIsRecorded ==
    \A x \in ever \ rels :
        Recorded(x) \/ x \in late \/ \E r \in Requests : Removing(r, x)

\* The same without the last excuse: what the doc comment of
\* AssetService::delete says of its audit entry, for requests that succeed.
CascadeIsRecorded ==
    \A x \in ever \ rels : Recorded(x) \/ \E r \in Requests : Removing(r, x)

Writes(r) ==
    {a \in Assets : title[a] = r \/ r \in meta[a] \/ <<a, r>> \in tags
                       \/ \E f \in Fields : auth[a][f] = r}

\* What a request stored and its audit entry agree: a request that is answered
\* without an entry has failed, or the only thing it wrote was taken from under
\* it: the asset soft-deleted, the collection dropped, before it was read back.
WritesAreAudited ==
    \A r \in Requests :
        pc[r] \in Answers \ {"failed"} /\ (\A e \in audit : e.by # r) =>
            /\ \A a \in Writes(r) : row[a] = "deleted"
            /\ \A c \in Collections : cname[c] = r => colls[c] = "gone"
            /\ \A x \in rels : x.id # r

\* Nothing links to a deleted asset, unless the delete's cascade is still to
\* come or failed, or the link was inserted after the asset was deleted.
CascadeLeavesNothing ==
    \A l \in rels \cup members : \A a \in Ends(l) :
        row[a] = "deleted" =>
            \/ l \in stray
            \/ \E r \in Requests :
                  /\ pc[r] \in {"drop_relations", "drop_members", "failed"}
                  /\ req[r] = [op |-> "deleteAsset", asset |-> a]

Acyclic == \A x \in rels : x.from \notin Reached(x.to)

\* The cycle check keeps the relation graph acyclic as long as no relation is
\* inserted while another request is between its check and its insert.
AcyclicUnlessRaced == raced \/ Acyclic

\* Every request is answered: also the breadth-first walks end, whatever is
\* inserted and deleted under them.
EveryRequestIsAnswered ==
    \A r \in Requests : pc[r] # "idle" ~> pc[r] \in Answers
=============================================================================
