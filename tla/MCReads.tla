------------------------------ MODULE MCReads ------------------------------
(***************************************************************************)
(* Reads for TLC.  The reader's token names one of the two groups that the *)
(* contexts name; the author, whose token says nothing, created the first  *)
(* two assets.                                                             *)
(***************************************************************************)
EXTENDS Reads, TLC

CONSTANTS r1, r2, admins, staff, team, author, reader, authorSpn, readerSpn

MCReader == [sub |-> reader, spn |-> readerSpn, role |-> "none", told |-> TRUE, token |-> {staff}]
MCAuthor == [sub |-> author, spn |-> authorSpn, role |-> "none", told |-> FALSE, token |-> {}]
MCCallers == {MCReader, MCAuthor}
MCCreator == [a \in Assets |-> IF a = 3 THEN reader ELSE author]
MCContexts == {[vis |-> "open", groups |-> {}], [vis |-> "team", groups |-> {team}],
               [vis |-> "team", groups |-> {staff}]}
MCInitially == {c \in [Assets -> MCContexts] : c[3].vis = "open"
    /\ c[1].groups = {staff} /\ c[2].groups \in {{staff}, {team}}}
MCBirths == {<<0, 1, 0>>}
\* One reads or writes beside one that writes.
MCAsks == r1 :> {"list", "search", "collections", "trail", "get", "edit", "delete", "tag"}
          @@ r2 :> {"setAuth", "delete"}
\* By stamp: 1, 4, 2, 3.
MCTrail == {[id |-> 1, at |-> 2], [id |-> 2, at |-> 1], [id |-> 3, at |-> 0], [id |-> 4, at |-> 1]}
=============================================================================
