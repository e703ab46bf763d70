---------------------------- MODULE TenantPools ----------------------------
(***************************************************************************)
(* TenantPoolManager: instance databases on disk, and the cache of pools   *)
(* opened on them.  A workspace w lives in <instances_dir>/w and its child *)
(* instance c in <instances_dir>/w/c; each directory holds one pdt.db.     *)
(*                                                                         *)
(* Lookups (get_services), provisionings and deletions run concurrently;   *)
(* one look at the disk, one SQL script and one critical section of the    *)
(* cache's lock are one step each.  The process may stop between any two.  *)
(* A file is named by the provisioning that created it, so a database that *)
(* was deleted and provisioned again is another file.  Ids are valid       *)
(* uuids, and workspaces and children do not share one.                    *)
(***************************************************************************)
EXTENDS FiniteSets

CONSTANTS
    Workspaces, Children,
    Requests,   \* each is sent once
    Root,       \* the parent of a workspace
    Old,        \* created the files that are there at the start
    None

Ids == Workspaces \cup Children
Homes == ({Root} \X Workspaces) \cup (Workspaces \X Children)

ASSUME TenantAssumption ==
    /\ Workspaces \cap Children = {}
    /\ Root \notin Ids
    /\ {Old, None} \cap Requests = {} /\ Old # None

VARIABLES
    dirs,      \* directories that exist
    db,        \* who created the pdt.db in a directory
    migrated,  \* files the migrations have run on
    seeded,    \* files that have their admin group and its bootstrap members
    cache,     \* the lookup whose pool serves an id
    req, pc,
    place,     \* the directory a request works on
    pool,      \* the file it opened
    met        \* history: pairs of a request and a deletion that overlapped

disk == <<dirs, db>>
files == <<migrated, seeded>>
vars == <<disk, files, cache, req, pc, place, pool, met>>

NoRequest == [op |-> "none"]
NoHome == <<Root, Root>>

Arguments ==
    [op : {"lookup", "delete"}, id : Ids]
        \cup [op : {"provision"}, id : Workspaces, parent : {Root}]
        \cup [op : {"provision"}, id : Children, parent : Workspaces]

Files == Homes \X (Requests \cup {Old})

Working == {"cache", "locate", "parent", "exists", "mkdir", "connect", "migrate",
            "seed", "insert", "find", "evict", "remove"}
\* lost: the process stopped before it answered.
Ends == {"ok", "notfound", "invalid", "failed", "lost"}

TypeOK ==
    /\ dirs \subseteq Homes
    /\ db \in [Homes -> Requests \cup {Old, None}]
    /\ migrated \subseteq Files /\ seeded \subseteq Files
    /\ cache \in [Ids -> Requests \cup {None}]
    /\ req \in [Requests -> Arguments \cup {NoRequest}]
    /\ pc \in [Requests -> {"idle"} \cup Working \cup Ends]
    /\ place \in [Requests -> Homes \cup {NoHome}]
    /\ pool \in [Requests -> Files \cup {NoHome}]
    /\ met \subseteq Requests \X Requests

-----------------------------------------------------------------------------
Running(r) == pc[r] \in Working
At(r, label) == pc[r] = label
Is(r, op) == req[r].op = op
Goto(r, label) == pc' = [pc EXCEPT ![r] = label]

HasDb(h) == db[h] # None
OnDisk(f) == db[f[1]] = f[2]
DirsOf(id) == {h \in dirs : h[2] = id}
Under(h) == {k \in dirs : k[1] = h[2]}          \* the children's directories

\* The test for a request that looks at the disk, and where it leads.
Look(r, found, then, else) ==
    /\ Goto(r, IF found THEN then ELSE else)
    /\ UNCHANGED <<disk, files, cache, req, place, pool, met>>

FirstStep(q) ==
    CASE q.op = "lookup" -> "cache"
      [] q.op = "delete" -> "find"
      [] q.op = "provision" -> IF q.parent = Root THEN "exists" ELSE "parent"

Start(r, q) ==
    /\ pc[r] = "idle"
    /\ req' = [req EXCEPT ![r] = q]
    /\ Goto(r, FirstStep(q))
    /\ place' = [place EXCEPT ![r] = IF q.op = "provision" THEN <<q.parent, q.id>> ELSE @]
    /\ met' = LET now == {s \in Requests : Running(s)} IN
              IF q.op = "delete"
              THEN met \cup {<<s, r>> : s \in {p \in now : ~Is(p, "delete")}}
              ELSE met \cup {<<r, s>> : s \in {d \in now : Is(d, "delete")}}
    /\ UNCHANGED <<disk, files, cache, pool>>

-----------------------------------------------------------------------------
\* Lookup.

Hit(r) == At(r, "cache") /\ Look(r, cache[req[r].id] # None, "ok", "locate")

\* locate_db: the workspace of that name, or whichever child the directory
\* listing yields first.
Locate(r) ==
    /\ At(r, "locate")
    /\ LET there == {h \in DirsOf(req[r].id) : HasDb(h)} IN
       IF there = {}
       THEN Goto(r, "notfound") /\ UNCHANGED place
       ELSE \E h \in there :
                place' = [place EXCEPT ![r] = h] /\ Goto(r, "mkdir")
    /\ UNCHANGED <<disk, files, cache, req, pool, met>>

Insert(r) ==
    /\ At(r, "insert")
    /\ cache' = [cache EXCEPT ![req[r].id] = r]
    /\ Goto(r, "ok")
    /\ UNCHANGED <<disk, files, req, place, pool, met>>

-----------------------------------------------------------------------------
\* Provisioning.

\* Mutant: the parent is not looked at.
ParentAssumed(r) == At(r, "parent") /\ Look(r, TRUE, "exists", "invalid")

\* The parent must have a database; an instance that has one is left alone.
ParentThere(r) ==
    At(r, "parent") /\ Look(r, HasDb(<<Root, req[r].parent>>), "exists", "invalid")

Exists(r) == At(r, "exists") /\ Look(r, HasDb(place[r]), "ok", "mkdir")

-----------------------------------------------------------------------------
\* open_instance_services, for a lookup and for a provisioning.

\* Mutant: a workspace's directory has a parent to create as well.
MkdirAlways(r) ==
    /\ At(r, "mkdir")
    /\ dirs' = dirs \cup {place[r], <<Root, place[r][1]>>}
    /\ Goto(r, "connect")
    /\ UNCHANGED <<db, files, cache, req, place, pool, met>>

\* create_dir_all: the workspace's directory comes back with the child's.
Mkdir(r) ==
    /\ At(r, "mkdir")
    /\ dirs' = dirs \cup {place[r]}
                    \cup (IF place[r][1] = Root THEN {} ELSE {<<Root, place[r][1]>>})
    /\ Goto(r, "connect")
    /\ UNCHANGED <<db, files, cache, req, place, pool, met>>

Open(r, f) ==
    /\ pool' = [pool EXCEPT ![r] = f]
    /\ Goto(r, "migrate")
    /\ UNCHANGED <<dirs, files, cache, req, place, met>>

\* Mutant: a lookup creates the file too.
ConnectCreating(r) ==
    /\ At(r, "connect") /\ place[r] \in dirs
    /\ db' = [db EXCEPT ![place[r]] = IF HasDb(place[r]) THEN @ ELSE r]
    /\ Open(r, <<place[r], db'[place[r]]>>)

Connect(r) ==
    /\ At(r, "connect") /\ place[r] \in dirs
    /\ HasDb(place[r]) \/ Is(r, "provision")
    /\ db' = [db EXCEPT ![place[r]] = IF HasDb(place[r]) THEN @ ELSE r]
    /\ Open(r, <<place[r], db'[place[r]]>>)

\* Mutant: only a provisioning runs the scripts.
MigrateWhenNew(r) ==
    /\ At(r, "migrate")
    /\ migrated' = IF Is(r, "provision") THEN migrated \cup {pool[r]} ELSE migrated
    /\ Goto(r, "seed")
    /\ UNCHANGED <<disk, seeded, cache, req, place, pool, met>>

Migrate(r) ==
    /\ At(r, "migrate")
    /\ migrated' = migrated \cup {pool[r]}
    /\ Goto(r, "seed")
    /\ UNCHANGED <<disk, seeded, cache, req, place, pool, met>>

\* ensure_instance_admins_group, then seed_instance_admins.
Seed(r) ==
    /\ At(r, "seed")
    /\ seeded' = seeded \cup {pool[r]}
    /\ Goto(r, IF Is(r, "lookup") THEN "insert" ELSE "ok")
    /\ UNCHANGED <<disk, migrated, cache, req, place, pool, met>>

-----------------------------------------------------------------------------
\* Deletion.

\* The directory is what counts, with a database in it or not.
Find(r) ==
    /\ At(r, "find")
    /\ IF DirsOf(req[r].id) = {}
       THEN Goto(r, "notfound") /\ UNCHANGED place
       ELSE \E h \in DirsOf(req[r].id) :
                place' = [place EXCEPT ![r] = h] /\ Goto(r, "evict")
    /\ UNCHANGED <<disk, files, cache, req, pool, met>>

\* Mutant: the children's pools stay.
EvictOne(r) ==
    /\ At(r, "evict")
    /\ cache' = [cache EXCEPT ![req[r].id] = None]
    /\ Goto(r, "remove")
    /\ UNCHANGED <<disk, files, req, place, pool, met>>

Evict(r) ==
    /\ At(r, "evict")
    /\ LET names == {req[r].id} \cup {h[2] : h \in Under(place[r])} IN
       cache' = [i \in Ids |-> IF i \in names THEN None ELSE cache[i]]
    /\ Goto(r, "remove")
    /\ UNCHANGED <<disk, files, req, place, pool, met>>

\* remove_dir_all, entry by entry: a file, an emptied child, the directory.
Unlink(r, h) ==
    /\ At(r, "remove") /\ h \in {place[r]} \cup Under(place[r]) /\ HasDb(h)
    /\ db' = [db EXCEPT ![h] = None]
    /\ UNCHANGED <<dirs, files, cache, req, pc, place, pool, met>>

RemoveChild(r, h) ==
    /\ At(r, "remove") /\ h \in Under(place[r]) /\ ~HasDb(h)
    /\ dirs' = dirs \ {h}
    /\ UNCHANGED <<db, files, cache, req, pc, place, pool, met>>

RemoveDir(r) ==
    /\ At(r, "remove") /\ place[r] \in dirs /\ ~HasDb(place[r]) /\ Under(place[r]) = {}
    /\ dirs' = dirs \ {place[r]}
    /\ Goto(r, "ok")
    /\ UNCHANGED <<db, files, cache, req, place, pool, met>>

-----------------------------------------------------------------------------
\* An I/O or SQL error: what was done so far stays.  It is what a connect gets
\* when the file or its directory is gone, and a removal when another deletion
\* was first or something was put into the directory meanwhile.
Fail(r) ==
    /\ pc[r] \in {"mkdir", "connect", "migrate", "seed", "remove"}
    /\ Goto(r, "failed")
    /\ UNCHANGED <<disk, files, cache, req, place, pool, met>>

\* The process stops and is started again: the disk is what is left.
Restart ==
    /\ \E r \in Requests : Running(r) \/ \E id \in Ids : cache[id] = r
    /\ pc' = [r \in Requests |-> IF Running(r) THEN "lost" ELSE pc[r]]
    /\ cache' = [id \in Ids |-> None]
    /\ UNCHANGED <<disk, files, req, place, pool, met>>

Init ==
    /\ db \in {f \in [Homes -> {Old, None}] :
                  \A h \in Homes : h[1] # Root /\ f[h] = Old => f[<<Root, h[1]>>] = Old}
    /\ dirs = {h \in Homes : HasDb(h)}
    /\ migrated = {<<h, Old>> : h \in dirs} /\ seeded = migrated
    /\ cache = [id \in Ids |-> None]
    /\ req = [r \in Requests |-> NoRequest] /\ pc = [r \in Requests |-> "idle"]
    /\ place = [r \in Requests |-> NoHome] /\ pool = [r \in Requests |-> NoHome]
    /\ met = {}

Step(r) ==
    \/ Hit(r) \/ Locate(r) \/ Insert(r)
    \/ ParentThere(r) \/ Exists(r)
    \/ Mkdir(r) \/ Connect(r) \/ Migrate(r) \/ Seed(r)
    \/ Find(r) \/ Evict(r) \/ RemoveDir(r)
    \/ \E h \in Homes : Unlink(r, h) \/ RemoveChild(r, h)
    \/ Fail(r)

Next ==
    \/ \E r \in Requests : Step(r) \/ \E q \in Arguments : Start(r, q)
    \/ Restart

Spec == Init /\ [][Next]_vars

-----------------------------------------------------------------------------
\* Was r running while an instance of one of these names was being deleted?
Raced(r, names) == \E d \in Requests : <<r, d>> \in met /\ req[d].id \in names

\* A deletion evicts the pools of everything it is about to remove: a pool in
\* the cache is open on the file that is on disk, unless the lookup that put it
\* there ran at the same time as a deletion of the instance or of its workspace.
CachedIsOnDisk ==
    \A id \in Ids : cache[id] # None =>
        LET f == pool[cache[id]] IN
        OnDisk(f) \/ Raced(cache[id], {f[1][1], f[1][2]})

\* Every pool handed out works on a store with its schema and its admin group,
\* also when the file was left half-made by a provisioning that failed or was
\* lost, and a later one found it there and answered that all is well.
ServedIsReady ==
    \A id \in Ids : cache[id] # None => pool[cache[id]] \in migrated \cap seeded

\* A child has a database without its workspace having one only when a deletion
\* of the workspace got stuck half-way, or the provisioning ran beside it.
OrphansComeFromDeletions ==
    \A h \in Homes : h[1] # Root /\ HasDb(h) /\ ~HasDb(<<Root, h[1]>>) =>
        \E d \in Requests :
            /\ Is(d, "delete") /\ req[d].id = h[1]
            /\ pc[d] \in {"remove", "failed", "lost"} \/ <<db[h], d>> \in met

\* The request path never creates a database, and no database takes the place
\* of one that was not deleted, however lookups, deletions and provisionings of
\* the same instance overlap.
OnlyProvisioningCreates ==
    [][\A h \in Homes : db'[h] # db[h] /\ db'[h] # None =>
           db[h] = None /\ Is(db'[h], "provision") /\ At(db'[h], "connect")]_vars

\* What the comment of delete_instance says: the pools of removed instances are
\* dropped.  Between a lookup's look at the disk and its insertion into the
\* cache an instance can be evicted and removed; the cache then goes on serving
\* the file that is gone.
RemovedIsDropped ==
    (\A r \in Requests : pc[r] \in {"idle", "ok"}) =>
        \A id \in Ids : cache[id] # None => OnDisk(pool[cache[id]])
=============================================================================
