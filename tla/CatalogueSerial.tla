-------------------------- MODULE CatalogueSerial --------------------------
(***************************************************************************)
(* Catalogue with one request at work at a time and no errors, which is    *)
(* how the conformance tests drive the services: each request then is the  *)
(* single atomic change Registry describes.                                *)
(***************************************************************************)
EXTENDS Catalogue

VARIABLE settled  \* the tables when last no request was at work

Tables ==
    [row |-> row, title |-> title, meta |-> meta, tags |-> tags, auth |-> auth,
     rels |-> rels, colls |-> colls, cname |-> cname, members |-> members,
     audit |-> audit]

SerialInit == Init /\ settled = Tables

SerialNext ==
    /\ \E r \in Requests :
          /\ (Arrive(r) /\ \A q \in Requests : ~Running(q)) \/ Step(r)
          /\ Observe(r)
    /\ settled' = IF \E r \in Requests : pc'[r] \in Working THEN settled ELSE Tables'

SerialSpec == SerialInit /\ [][SerialNext]_<<vars, settled>>

\* What a request has been answered: a refusal by the primary key or a foreign
\* key, which needs a second request at work, would show as "failed".
Answered == [r \in Requests |-> IF pc[r] \in Answers THEN pc[r] ELSE "none"]

Promise == INSTANCE Registry WITH db <- settled, answer <- Answered

\* Alone and without errors, every handler does exactly what Registry says: the
\* cascade removes and records every relation of the asset, the cycle check
\* refuses exactly the relations that close a cycle, a cascading update reaches
\* exactly the live descendants and leaves the fields it does not set.
EachRequestIsAtomic == Promise!RegistrySpec
=============================================================================
