---------------------------- MODULE MCCatalogue ----------------------------
(***************************************************************************)
(* Catalogue for TLC: two stored assets linked by one relation, a third id *)
(* not yet stored, one collection.                                         *)
(***************************************************************************)
EXTENDS Catalogue, TLC

CONSTANTS a1, a2, a3, c1, r1, r2, r3, seed

MCGiven == {[id |-> Seed, from |-> a1, to |-> a2]}

\* The cycle two racing creates can leave behind, and a relation out of it.
MCCycle == MCGiven \cup {[id |-> Seed, from |-> a2, to |-> a1],
                         [id |-> Seed, from |-> a2, to |-> a3]}

AllOperations ==
    {"createAsset", "adoptAsset", "deleteAsset", "addTag", "updateAsset", "removeTag",
     "setAuth", "createRelation", "deleteRelation", "createCollection",
     "updateCollection", "deleteCollection", "addMember", "removeMember"}

Symmetry == Permutations(Requests)
=============================================================================
