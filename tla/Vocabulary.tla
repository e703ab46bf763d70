----------------------------- MODULE Vocabulary -----------------------------
(***************************************************************************)
(* The rows, requests and audit entries one instance's store is described  *)
(* with.  Values are abstracted to who wrote them: a title, a metadata     *)
(* row, a tag or a field of the authorization context is the request that  *)
(* stored it, so a lost or resurrected write is visible.  Time stamps,     *)
(* contents and the created_by and updated_by columns are left out.        *)
(***************************************************************************)
EXTENDS Naturals, FiniteSets

CONSTANTS
    Assets,       \* asset ids
    Collections,  \* collection ids
    Requests,     \* the requests clients send, each at most once
    Seed,         \* the writer of everything stored before those requests
    Fields,       \* fields of the authorization context
    Operations,   \* the operations clients ask for
    Born,         \* assets stored at the start
    Given         \* relations stored at the start

Writers == Requests \cup {Seed}

Relations == [id : Writers, from : Assets, to : Assets]

Memberships == [coll : Collections, asset : Assets]

Parts == {"title", "metadata"}

\* The operations that name an asset, and those that name a collection.
OnAsset == {"createAsset", "adoptAsset", "deleteAsset", "addTag", "updateAsset",
            "removeTag", "setAuth", "addMember", "removeMember"}
OnCollection == {"createCollection", "updateCollection", "deleteCollection",
                 "addMember", "removeMember"}

Request ==
    [op : {"createAsset", "adoptAsset", "deleteAsset", "addTag"}, asset : Assets]
    \cup [op : {"updateAsset"}, asset : Assets, parts : SUBSET Parts]
    \cup [op : {"removeTag"}, asset : Assets, tag : Writers]
    \cup [op : {"setAuth"}, asset : Assets, fields : SUBSET Fields, cascade : BOOLEAN]
    \cup [op : {"createRelation"}, from : Assets, to : Assets]
    \cup [op : {"deleteRelation"}, rel : Relations]
    \cup [op : {"createCollection", "updateCollection", "deleteCollection"},
          coll : Collections]
    \cup [op : {"addMember", "removeMember"}, coll : Collections, asset : Assets]

\* An audit entry: the request that wrote it and, for a delete, the relations it
\* names as removed.
Entries == [by : Requests, req : Request, lost : SUBSET Relations]

ASSUME StoreAssumption ==
    /\ Seed \notin Requests
    /\ Born # {} /\ Born \subseteq Assets
    /\ Given \subseteq [id : {Seed}, from : Born, to : Born]
=============================================================================
