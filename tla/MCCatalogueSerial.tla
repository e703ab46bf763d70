------------------------- MODULE MCCatalogueSerial -------------------------
(***************************************************************************)
(* CatalogueSerial for TLC: the instance of MCCatalogue, one request after *)
(* another.                                                                *)
(***************************************************************************)
EXTENDS CatalogueSerial, TLC

CONSTANTS a1, a2, a3, c1, r1, r2, r3, seed

MCGiven == {[id |-> Seed, from |-> a1, to |-> a2]}

AllOperations ==
    {"createAsset", "adoptAsset", "deleteAsset", "addTag", "updateAsset", "removeTag",
     "setAuth", "createRelation", "deleteRelation", "createCollection",
     "updateCollection", "deleteCollection", "addMember", "removeMember"}

Symmetry == Permutations(Requests)
=============================================================================
