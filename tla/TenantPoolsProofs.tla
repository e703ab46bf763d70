-------------------------- MODULE TenantPoolsProofs --------------------------
(***************************************************************************)
(* What the cache of pools guarantees for every tree of instances and any  *)
(* number of lookups, provisionings, deletions and restarts.               *)
(***************************************************************************)
EXTENDS TenantPools, TLAPS

LEMMA HomeFields ==
    ASSUME NEW h \in Homes
    PROVE  h = <<h[1], h[2]>> /\ h[2] \in Ids
BY DEF Homes, Ids

LEMMA ArgumentFields ==
    ASSUME NEW q \in Arguments
    PROVE  /\ q.id \in Ids /\ q.op \in {"lookup", "delete", "provision"}
           /\ q.op = "provision" => <<q.parent, q.id>> \in Homes
           /\ q.op = "provision" /\ q.parent # Root => <<Root, q.parent>> \in Homes
           /\ FirstStep(q) \in {"cache", "find", "exists", "parent"}
           /\ FirstStep(q) = "cache" <=> q.op = "lookup"
           /\ FirstStep(q) = "find" <=> q.op = "delete"
           /\ FirstStep(q) = "parent" => q.parent # Root
BY DEF Arguments, Homes, Ids, FirstStep

LEMMA ParentHome ==
    ASSUME NEW h \in Homes, h[1] # Root
    PROVE  <<Root, h[1]>> \in Homes
BY DEF Homes

-----------------------------------------------------------------------------
(* What a label says of the request that is at it.                         *)

Opening == {"mkdir", "connect", "migrate", "seed"}

Labels ==
    \A r \in Requests :
        /\ pc[r] # "idle" => req[r] \in Arguments
        /\ pc[r] \in {"cache", "locate", "insert"} => Is(r, "lookup")
        /\ pc[r] \in {"parent", "exists"} => Is(r, "provision")
        /\ pc[r] \in Opening => ~Is(r, "delete")
        /\ pc[r] \in {"find", "evict", "remove"} => Is(r, "delete")

Placed ==
    \A r \in Requests :
        pc[r] \in {"parent", "exists", "insert", "evict", "remove"} \cup Opening =>
            place[r] \in Homes /\ place[r][2] = req[r].id

Opened ==
    \A r \in Requests : pc[r] \in {"migrate", "seed", "insert"} =>
        pool[r] \in Files /\ pool[r][1][2] = req[r].id

\* A pool in the cache was put there by a request that has been answered.
Cached ==
    \A id \in Ids : cache[id] # None =>
        /\ pc[cache[id]] = "ok"
        /\ pool[cache[id]] \in Files /\ pool[cache[id]][1][2] = id

Shape == TypeOK /\ Labels /\ Placed /\ Opened /\ Cached

LEMMA InitShape == Init => Shape
BY TenantAssumption DEF Init, Shape, TypeOK, Labels, Placed, Opened, Cached, Files,
     NoRequest, NoHome, Opening, HasDb

LEMMA StepShape ==
    ASSUME Shape, NEW r \in Requests, Step(r)
    PROVE  Shape'
<1> USE TenantAssumption, HomeFields, ArgumentFields DEF Shape, TypeOK, Labels, Placed,
      Opened, Cached, At, Is, Goto, Opening, Working, Ends, disk, files
<1>1. CASE Hit(r)
  BY <1>1 DEF Hit, Look
<1>2. CASE Locate(r)
  <2>1. CASE Goto(r, "notfound") /\ UNCHANGED place
    BY <1>2, <2>1 DEF Locate
  <2>2. ASSUME NEW h \in dirs, h[2] = req[r].id, place' = [place EXCEPT ![r] = h],
               Goto(r, "mkdir")
        PROVE  Shape'
    BY <1>2, <2>2 DEF Locate
  <2> QED BY <1>2, <2>1, <2>2 DEF Locate, DirsOf
<1>3. CASE Insert(r)
  BY <1>3 DEF Insert
<1>4. CASE ParentThere(r)
  BY <1>4 DEF ParentThere, Look
<1>5. CASE Exists(r)
  BY <1>5 DEF Exists, Look
<1>6. CASE Mkdir(r)
  BY <1>6, ParentHome DEF Mkdir
<1>7. CASE Connect(r)
  BY <1>7 DEF Connect, Open, Files, HasDb
<1>8. CASE Migrate(r)
  BY <1>8 DEF Migrate
<1>9. CASE Seed(r)
  BY <1>9 DEF Seed
<1>10. CASE Find(r)
  BY <1>10 DEF Find, DirsOf
<1>11. CASE Evict(r)
  BY <1>11 DEF Evict
<1>12. CASE RemoveDir(r)
  BY <1>12 DEF RemoveDir
<1>13. CASE \E h \in Homes : Unlink(r, h)
  BY <1>13 DEF Unlink
<1>14. CASE \E h \in Homes : RemoveChild(r, h)
  BY <1>14 DEF RemoveChild
<1>15. CASE Fail(r)
  BY <1>15 DEF Fail
<1> QED BY <1>1, <1>2, <1>3, <1>4, <1>5, <1>6, <1>7, <1>8, <1>9, <1>10, <1>11, <1>12,
           <1>13, <1>14, <1>15 DEF Step

LEMMA StartShape ==
    ASSUME Shape, NEW r \in Requests, NEW q \in Arguments, Start(r, q)
    PROVE  Shape'
<1>1. /\ q.id \in Ids
      /\ q.op = "provision" => <<q.parent, q.id>> \in Homes
      /\ FirstStep(q) \in {"cache", "find", "exists", "parent"}
      /\ FirstStep(q) = "cache" <=> q.op = "lookup"
      /\ FirstStep(q) = "find" <=> q.op = "delete"
      /\ q.op \in {"lookup", "delete", "provision"}
  BY ArgumentFields
<1>2. /\ pc[r] = "idle" /\ pc' = [pc EXCEPT ![r] = FirstStep(q)]
      /\ req' = [req EXCEPT ![r] = q]
      /\ place' = [place EXCEPT ![r] = IF q.op = "provision" THEN <<q.parent, q.id>> ELSE @]
      /\ UNCHANGED <<dirs, db, migrated, seeded, cache, pool>>
  BY DEF Start, Goto, disk, files
<1>3. met' \subseteq Requests \X Requests
  BY DEF Start, Shape, TypeOK
<1>4. TypeOK'
  BY <1>1, <1>2, <1>3 DEF Shape, TypeOK, Working
<1>5. Labels'
  BY <1>1, <1>2 DEF Shape, TypeOK, Labels, Is, Opening
<1>6. Placed'
  BY <1>1, <1>2 DEF Shape, TypeOK, Placed, Opening
<1>7. Opened'
  BY <1>1, <1>2 DEF Shape, TypeOK, Opened
<1>8. Cached'
  BY <1>2, TenantAssumption DEF Shape, TypeOK, Cached
<1> QED BY <1>4, <1>5, <1>6, <1>7, <1>8 DEF Shape

LEMMA NextShape == Shape /\ [Next]_vars => Shape'
<1> SUFFICES ASSUME Shape, [Next]_vars PROVE Shape' OBVIOUS
<1>1. CASE \E r \in Requests : Step(r)
  BY <1>1, StepShape
<1>2. CASE \E r \in Requests : \E q \in Arguments : Start(r, q)
  BY <1>2, StartShape
<1>3. CASE Restart
  BY <1>3, TenantAssumption DEF Restart, Shape, TypeOK, Labels, Placed, Opened, Cached, Is,
     Opening, Working, Ends, Running, disk, files
<1>4. CASE UNCHANGED vars
  BY <1>4 DEF vars, Shape, TypeOK, Labels, Placed, Opened, Cached, Is, disk, files
<1> QED BY <1>1, <1>2, <1>3, <1>4 DEF Next

\* Every variable of the model keeps its type.
THEOREM TypeCorrect == Spec => []TypeOK
<1>1. Shape => TypeOK
  BY DEF Shape
<1> QED BY <1>1, InitShape, NextShape, PTL DEF Spec

-----------------------------------------------------------------------------
(* Every pool handed out is of a complete store.                           *)

Ready ==
    /\ \A r \in Requests : pc[r] \in {"seed", "insert"} => pool[r] \in migrated
    /\ \A r \in Requests : pc[r] = "insert" => pool[r] \in seeded

LEMMA StepReady ==
    ASSUME Shape, Ready, ServedIsReady, NEW r \in Requests, Step(r)
    PROVE  Ready' /\ ServedIsReady'
<1> USE TenantAssumption DEF Shape, TypeOK, Cached, Ready, ServedIsReady, At, Goto, disk, files
<1>1. CASE Hit(r) \/ ParentThere(r) \/ Exists(r)
  BY <1>1 DEF Hit, ParentThere, Exists, Look
<1>2. CASE Locate(r) \/ Find(r)
  BY <1>2 DEF Locate, Find
<1>3. CASE Insert(r)
  BY <1>3 DEF Insert
<1>4. CASE Mkdir(r) \/ Fail(r) \/ RemoveDir(r)
  BY <1>4 DEF Mkdir, Fail, RemoveDir
<1>5. CASE Connect(r)
  BY <1>5 DEF Connect, Open
<1>6. CASE Migrate(r)
  BY <1>6 DEF Migrate
<1>7. CASE Seed(r)
  BY <1>7 DEF Seed
<1>8. CASE Evict(r)
  BY <1>8 DEF Evict
<1>9. CASE \E h \in Homes : Unlink(r, h) \/ RemoveChild(r, h)
  BY <1>9 DEF Unlink, RemoveChild
<1> QED BY <1>1, <1>2, <1>3, <1>4, <1>5, <1>6, <1>7, <1>8, <1>9 DEF Step

LEMMA NextReady ==
    Shape /\ Ready /\ ServedIsReady /\ [Next]_vars => Ready' /\ ServedIsReady'
<1> SUFFICES ASSUME Shape, Ready, ServedIsReady, [Next]_vars
             PROVE  Ready' /\ ServedIsReady'
  OBVIOUS
<1>1. CASE \E r \in Requests : Step(r)
  BY <1>1, StepReady
<1>2. CASE \E r \in Requests : \E q \in Arguments : Start(r, q)
  BY <1>2, ArgumentFields DEF Start, Goto, Shape, TypeOK, Ready, ServedIsReady, disk, files
<1>3. CASE Restart
  BY <1>3 DEF Restart, Shape, TypeOK, Ready, ServedIsReady, Running, disk, files
<1>4. CASE UNCHANGED vars
  BY <1>4 DEF vars, Ready, ServedIsReady, disk, files
<1> QED BY <1>1, <1>2, <1>3, <1>4 DEF Next

\* Every pool the cache hands out is of a store with its schema and its admin
\* group, whatever provisionings failed or were lost half-way before.
THEOREM ServesReadyStores == Spec => []ServedIsReady
<1>1. Init => Ready /\ ServedIsReady
  BY DEF Init, Ready, ServedIsReady
<1> QED BY <1>1, InitShape, NextShape, NextReady, PTL DEF Spec

-----------------------------------------------------------------------------
(* Only a lookup that overlaps a deletion caches a pool of a removed file. *)

\* Two requests at work at the same time have met if one of them deletes.
Met ==
    /\ \A r, d \in Requests :
           Running(r) /\ Running(d) /\ ~Is(r, "delete") /\ Is(d, "delete") => <<r, d>> \in met
    /\ \A r, d \in Requests : <<r, d>> \in met => pc[r] # "idle" /\ pc[d] # "idle"

Tree == \A h \in Homes : HasDb(h) => h \in dirs

Names(f) == {f[1][1], f[1][2]}

OpenIsOnDisk ==
    \A r \in Requests : pc[r] \in {"migrate", "seed", "insert"} =>
        OnDisk(pool[r]) \/ Raced(r, Names(pool[r]))

\* What a deletion has begun to remove is out of the cache, but for what a
\* lookup it met has put there.
Evicted ==
    \A d \in Requests, id \in Ids :
        /\ pc[d] = "remove" /\ cache[id] # None
        /\ place[d][2] \in Names(pool[cache[id]])
        => Raced(cache[id], Names(pool[cache[id]]))

Safe == Met /\ Tree /\ OpenIsOnDisk /\ CachedIsOnDisk /\ Evicted

\* A step leaves the history and the arguments alone and starts no request.
LEMMA StepFrame ==
    ASSUME Shape, NEW r \in Requests, Step(r)
    PROVE  /\ met' = met /\ req' = req
           /\ pc[r] \in Working
           /\ \A x \in Requests \ {r} :
                  pc'[x] = pc[x] /\ place'[x] = place[x] /\ pool'[x] = pool[x]
           /\ pc'[r] # "idle"
<1> USE DEF Shape, TypeOK, At, Goto, Working
<1>1. CASE Hit(r) \/ ParentThere(r) \/ Exists(r)
  BY <1>1 DEF Hit, ParentThere, Exists, Look
<1>2. CASE Locate(r) \/ Find(r)
  BY <1>2 DEF Locate, Find
<1>3. CASE Insert(r) \/ Migrate(r) \/ Seed(r) \/ Evict(r)
  BY <1>3 DEF Insert, Migrate, Seed, Evict
<1>4. CASE Mkdir(r) \/ Fail(r) \/ RemoveDir(r)
  BY <1>4 DEF Mkdir, Fail, RemoveDir
<1>5. CASE Connect(r)
  BY <1>5 DEF Connect, Open
<1>6. CASE \E h \in Homes : Unlink(r, h) \/ RemoveChild(r, h)
  BY <1>6 DEF Unlink, RemoveChild
<1> QED BY <1>1, <1>2, <1>3, <1>4, <1>5, <1>6 DEF Step

LEMMA StepMet ==
    ASSUME Shape, Met, NEW r \in Requests, Step(r)
    PROVE  Met'
BY StepFrame DEF Met, Running, Is

LEMMA StepTree ==
    ASSUME Shape, Tree, NEW r \in Requests, Step(r)
    PROVE  Tree'
<1> USE DEF Shape, TypeOK, Tree, HasDb, At, disk, files
<1>1. CASE Hit(r) \/ ParentThere(r) \/ Exists(r)
  BY <1>1 DEF Hit, ParentThere, Exists, Look
<1>2. CASE Locate(r) \/ Find(r)
  BY <1>2 DEF Locate, Find
<1>3. CASE Insert(r) \/ Migrate(r) \/ Seed(r) \/ Evict(r)
  BY <1>3 DEF Insert, Migrate, Seed, Evict
<1>4. CASE Mkdir(r) \/ Fail(r) \/ RemoveDir(r)
  BY <1>4 DEF Mkdir, Fail, RemoveDir
<1>5. CASE Connect(r)
  BY <1>5 DEF Connect, Open
<1>6. CASE \E h \in Homes : Unlink(r, h) \/ RemoveChild(r, h)
  BY <1>6 DEF Unlink, RemoveChild
<1> QED BY <1>1, <1>2, <1>3, <1>4, <1>5, <1>6 DEF Step

-----------------------------------------------------------------------------
\* Requests that are at work beside a deletion of one of these names.
LEMMA Overlap ==
    ASSUME Shape, Met, NEW r \in Requests, NEW d \in Requests,
           Running(r), ~Is(r, "delete"), pc[d] \in {"evict", "remove"},
           NEW names, place[d][2] \in names
    PROVE  Raced(r, names)
BY DEF Shape, Met, Labels, Placed, Raced, Is, Running, Working

\* The actions that neither open, cache, evict nor remove anything.
LEMMA QuietSafe ==
    ASSUME Shape, Safe, NEW r \in Requests, Step(r),
           UNCHANGED <<db, cache, pool>>,
           pc'[r] \in {"migrate", "seed", "insert"} => pc[r] \in {"migrate", "seed", "insert"},
           pc'[r] = "remove" => pc[r] = "remove" /\ place'[r] = place[r]
    PROVE  OpenIsOnDisk' /\ CachedIsOnDisk' /\ Evicted'
<1>1. /\ met' = met /\ req' = req
      /\ \A x \in Requests \ {r} : pc'[x] = pc[x] /\ place'[x] = place[x]
  BY StepFrame
<1>2. \A x \in Requests : \A n : Raced(x, n)' <=> Raced(x, n)
  BY <1>1 DEF Raced
<1>3. OpenIsOnDisk'
  BY <1>1, <1>2 DEF Safe, OpenIsOnDisk, OnDisk, Names
<1>4. CachedIsOnDisk'
  BY <1>1, <1>2, TenantAssumption DEF Safe, CachedIsOnDisk, OnDisk, Shape, TypeOK
<1>5. ASSUME NEW d \in Requests, pc'[d] = "remove"
      PROVE  pc[d] = "remove" /\ place'[d] = place[d]
  BY <1>1, <1>5
<1>6. \A id \in Ids : cache[id] # None => cache[id] \in Requests
  BY DEF Shape, TypeOK
<1>7. Evicted'
  BY <1>2, <1>5, <1>6 DEF Safe, Evicted, Names
<1> QED BY <1>3, <1>4, <1>7

LEMMA ConnectSafe ==
    ASSUME Shape, Safe, NEW r \in Requests, Connect(r)
    PROVE  OpenIsOnDisk' /\ CachedIsOnDisk' /\ Evicted'
<1>1. /\ met' = met /\ req' = req /\ cache' = cache /\ place' = place
      /\ pc[r] = "connect" /\ pc' = [pc EXCEPT ![r] = "migrate"]
      /\ db' = [db EXCEPT ![place[r]] = IF HasDb(place[r]) THEN @ ELSE r]
      /\ pool' = [pool EXCEPT ![r] = <<place[r], db'[place[r]]>>]
  BY DEF Connect, Open, Goto, At
<1>2. \A x \in Requests : \A n : Raced(x, n)' <=> Raced(x, n)
  BY <1>1 DEF Raced
<1>3. place[r] \in Homes
  BY <1>1 DEF Shape, Placed, Opening
<1>4. ASSUME NEW f \in Files, OnDisk(f) PROVE OnDisk(f)'
  BY <1>1, <1>3, <1>4, TenantAssumption DEF OnDisk, HasDb, Files, Shape, TypeOK
<1>5. OnDisk(pool[r])'
  BY <1>1 DEF OnDisk, Shape, TypeOK
<1>6. OpenIsOnDisk'
  <2> SUFFICES ASSUME NEW x \in Requests, pc'[x] \in {"migrate", "seed", "insert"}
               PROVE  (OnDisk(pool[x]) \/ Raced(x, Names(pool[x])))'
    BY DEF OpenIsOnDisk
  <2>1. CASE x = r
    BY <2>1, <1>5 DEF OnDisk
  <2>2. CASE x # r
    <3>1. pc[x] = pc'[x] /\ pool'[x] = pool[x]
      BY <2>2, <1>1 DEF Shape, TypeOK
    <3>2. pool[x] \in Files
      BY <3>1 DEF Shape, Opened
    <3>3. OnDisk(pool[x]) \/ Raced(x, Names(pool[x]))
      BY <3>1 DEF Safe, OpenIsOnDisk
    <3> QED BY <3>1, <3>2, <3>3, <1>2, <1>4 DEF Names, OnDisk
  <2> QED BY <2>1, <2>2
<1>7. ASSUME NEW id \in Ids, cache[id] # None
      PROVE  /\ cache[id] \in Requests /\ pool'[cache[id]] = pool[cache[id]]
             /\ pool[cache[id]] \in Files
  BY <1>1, <1>7 DEF Shape, TypeOK, Cached
<1>8. CachedIsOnDisk'
  <2> SUFFICES ASSUME NEW id \in Ids, cache[id] # None
               PROVE  \/ OnDisk(pool[cache[id]])'
                      \/ Raced(cache[id], Names(pool[cache[id]]))'
    BY <1>1 DEF CachedIsOnDisk, OnDisk, Names
  <2>1. OnDisk(pool[cache[id]]) \/ Raced(cache[id], Names(pool[cache[id]]))
    BY DEF Safe, CachedIsOnDisk, Names
  <2> QED BY <2>1, <1>1, <1>2, <1>4, <1>7 DEF OnDisk, Names
<1>9. Evicted'
  BY <1>1, <1>2, <1>7 DEF Safe, Evicted, Names, Shape, TypeOK
<1> QED BY <1>6, <1>8, <1>9

LEMMA InsertSafe ==
    ASSUME Shape, Safe, NEW r \in Requests, Insert(r)
    PROVE  OpenIsOnDisk' /\ CachedIsOnDisk' /\ Evicted'
<1>1. /\ met' = met /\ req' = req /\ place' = place /\ pool' = pool /\ db' = db
      /\ pc[r] = "insert" /\ pc' = [pc EXCEPT ![r] = "ok"]
      /\ cache' = [cache EXCEPT ![req[r].id] = r]
  BY DEF Insert, Goto, At, disk
<1>2. \A x \in Requests : \A n : Raced(x, n)' <=> Raced(x, n)
  BY <1>1 DEF Raced
<1>3. OpenIsOnDisk'
  BY <1>1, <1>2 DEF Safe, OpenIsOnDisk, OnDisk, Names, Shape, TypeOK
<1>4. OnDisk(pool[r]) \/ Raced(r, Names(pool[r]))
  BY <1>1 DEF Safe, OpenIsOnDisk
<1>5. CachedIsOnDisk'
  BY <1>1, <1>2, <1>4, TenantAssumption
     DEF Safe, CachedIsOnDisk, OnDisk, Names, Shape, TypeOK
<1>6. ASSUME NEW d \in Requests, pc[d] = "remove", place[d][2] \in Names(pool[r])
      PROVE  Raced(r, Names(pool[r]))
  BY <1>1, <1>6, Overlap DEF Safe, Running, Working, Shape, Labels, Is
<1>7. \A d \in Requests : pc'[d] = "remove" => pc[d] = "remove"
  BY <1>1 DEF Shape, TypeOK
<1>8. Evicted'
  BY <1>1, <1>2, <1>6, <1>7, TenantAssumption DEF Safe, Evicted, Names, Shape, TypeOK
<1> QED BY <1>3, <1>5, <1>8

LEMMA EvictSafe ==
    ASSUME Shape, Safe, NEW r \in Requests, Evict(r)
    PROVE  OpenIsOnDisk' /\ CachedIsOnDisk' /\ Evicted'
<1> DEFINE names == {req[r].id} \cup {h[2] : h \in Under(place[r])}
<1>1. /\ met' = met /\ req' = req /\ place' = place /\ pool' = pool /\ db' = db
      /\ pc[r] = "evict" /\ pc' = [pc EXCEPT ![r] = "remove"]
      /\ cache' = [i \in Ids |-> IF i \in names THEN None ELSE cache[i]]
  BY DEF Evict, Goto, At, disk
<1>2. \A x \in Requests : \A n : Raced(x, n)' <=> Raced(x, n)
  BY <1>1 DEF Raced
<1>3. OpenIsOnDisk'
  BY <1>1, <1>2 DEF Safe, OpenIsOnDisk, OnDisk, Names, Shape, TypeOK
<1>4. \A id \in Ids : cache'[id] # None =>
          cache'[id] = cache[id] /\ cache[id] \in Requests /\ id \notin names
  BY <1>1 DEF Shape, TypeOK
<1>5. CachedIsOnDisk'
  BY <1>1, <1>2, <1>4 DEF Safe, CachedIsOnDisk, OnDisk, Names
<1>6. ASSUME NEW id \in Ids, cache'[id] # None, place[r][2] \in Names(pool[cache[id]])
      PROVE  Raced(cache[id], Names(pool[cache[id]]))
  <2> DEFINE f == pool[cache[id]]
  <2>1. cache[id] # None /\ id \notin names
    BY <1>4, <1>6
  <2>2. f \in Files /\ f[1][2] = id
    BY <2>1 DEF Shape, Cached
  <2>3. place[r][2] = req[r].id
    BY <1>1 DEF Shape, Placed
  <2>4. f[1] \in Homes /\ f[1][1] = place[r][2]
    BY <1>6, <2>1, <2>2, <2>3 DEF Names, Files
  <2>5. f[1] \notin dirs
    BY <2>1, <2>2, <2>4 DEF Under
  <2>6. ~OnDisk(f)
    BY <2>2, <2>4, <2>5, TenantAssumption DEF Safe, Tree, OnDisk, HasDb, Files
  <2> QED BY <2>1, <2>6 DEF Safe, CachedIsOnDisk, Names
<1>7. \A d \in Requests : pc'[d] = "remove" => pc[d] = "remove" \/ d = r
  BY <1>1 DEF Shape, TypeOK
<1>8. Evicted'
  BY <1>1, <1>2, <1>4, <1>6, <1>7 DEF Safe, Evicted, Names
<1> QED BY <1>3, <1>5, <1>8

LEMMA UnlinkSafe ==
    ASSUME Shape, Safe, NEW r \in Requests, NEW h \in Homes, Unlink(r, h)
    PROVE  OpenIsOnDisk' /\ CachedIsOnDisk' /\ Evicted'
<1>1. /\ met' = met /\ req' = req /\ place' = place /\ pool' = pool
      /\ pc' = pc /\ cache' = cache /\ db' = [db EXCEPT ![h] = None]
      /\ pc[r] = "remove" /\ h \in {place[r]} \cup Under(place[r])
  BY DEF Unlink, At, files
<1>2. \A x \in Requests : \A n : Raced(x, n)' <=> Raced(x, n)
  BY <1>1 DEF Raced
<1>3. place[r][2] \in {h[1], h[2]}
  BY <1>1 DEF Under
<1>4. ASSUME NEW f \in Files, OnDisk(f), ~OnDisk(f)'
      PROVE  place[r][2] \in Names(f)
  BY <1>1, <1>3, <1>4 DEF OnDisk, Names, Files, Shape, TypeOK
<1>5. OpenIsOnDisk'
  <2> SUFFICES ASSUME NEW x \in Requests, pc[x] \in {"migrate", "seed", "insert"},
                      ~OnDisk(pool[x])'
               PROVE  Raced(x, Names(pool[x]))
    BY <1>1, <1>2 DEF OpenIsOnDisk, Names, OnDisk
  <2>1. pool[x] \in Files
    BY DEF Shape, Opened
  <2>2. Running(x) /\ ~Is(x, "delete")
    BY DEF Running, Working, Shape, Labels, Opening, Is
  <2>3. CASE OnDisk(pool[x])
    BY <2>1, <2>2, <2>3, <1>1, <1>4, Overlap DEF Safe
  <2>4. CASE ~OnDisk(pool[x])
    BY <2>4 DEF Safe, OpenIsOnDisk
  <2> QED BY <2>3, <2>4
<1>6. CachedIsOnDisk'
  <2> SUFFICES ASSUME NEW id \in Ids, cache[id] # None, ~OnDisk(pool[cache[id]])'
               PROVE  Raced(cache[id], Names(pool[cache[id]]))
    <3>1. \A id \in Ids : cache[id] # None => cache[id] \in Requests
      BY DEF Shape, TypeOK
    <3> QED BY <1>1, <1>2, <3>1 DEF CachedIsOnDisk, Names, OnDisk
  <2>1. pool[cache[id]] \in Files
    BY DEF Shape, Cached
  <2>2. CASE OnDisk(pool[cache[id]])
    BY <2>1, <2>2, <1>1, <1>4 DEF Safe, Evicted
  <2>3. CASE ~OnDisk(pool[cache[id]])
    BY <2>3 DEF Safe, CachedIsOnDisk, Names
  <2> QED BY <2>2, <2>3
<1>7. Evicted'
  <2>1. \A id \in Ids : cache[id] # None => cache[id] \in Requests
    BY DEF Shape, TypeOK
  <2> QED BY <1>1, <1>2, <2>1 DEF Safe, Evicted, Names
<1> QED BY <1>5, <1>6, <1>7

LEMMA StepSafe ==
    ASSUME Shape, Safe, NEW r \in Requests, Step(r)
    PROVE  Safe'
<1> SUFFICES OpenIsOnDisk' /\ CachedIsOnDisk' /\ Evicted'
  BY StepMet, StepTree DEF Safe
<1>1. CASE Hit(r) \/ ParentThere(r) \/ Exists(r)
  <2>1. UNCHANGED <<db, cache, pool>> /\ pc'[r] \notin {"migrate", "seed", "insert", "remove"}
    BY <1>1 DEF Hit, ParentThere, Exists, Look, Goto, disk, Shape, TypeOK
  <2> QED BY <2>1, QuietSafe
<1>2. CASE Locate(r) \/ Find(r)
  <2>1. UNCHANGED <<db, cache, pool>> /\ pc'[r] \notin {"migrate", "seed", "insert", "remove"}
    BY <1>2 DEF Locate, Find, Goto, disk, Shape, TypeOK
  <2> QED BY <2>1, QuietSafe
<1>3. CASE Migrate(r) \/ Seed(r)
  <2>1. /\ UNCHANGED <<db, cache, pool>> /\ pc'[r] # "remove"
        /\ pc[r] \in {"migrate", "seed", "insert"}
    BY <1>3 DEF Migrate, Seed, At, Goto, disk, Shape, TypeOK
  <2> QED BY <2>1, QuietSafe
<1>4. CASE Mkdir(r) \/ Fail(r) \/ RemoveDir(r)
  <2>1. UNCHANGED <<db, cache, pool>> /\ pc'[r] \notin {"migrate", "seed", "insert", "remove"}
    BY <1>4 DEF Mkdir, Fail, RemoveDir, Goto, disk, Shape, TypeOK
  <2> QED BY <2>1, QuietSafe
<1>5. CASE \E h \in Homes : RemoveChild(r, h)
  <2>1. UNCHANGED <<db, cache, pool, pc, place>>
    BY <1>5 DEF RemoveChild
  <2> QED BY <2>1, QuietSafe
<1> QED BY <1>1, <1>2, <1>3, <1>4, <1>5, ConnectSafe, InsertSafe, EvictSafe, UnlinkSafe DEF Step

\* A new request meets the deletions at work, a new deletion everyone.
LEMMA StartMet ==
    ASSUME Shape, Met, NEW r \in Requests, NEW q \in Arguments, Start(r, q)
    PROVE  Met'
<1>1. /\ pc[r] = "idle" /\ pc' = [pc EXCEPT ![r] = FirstStep(q)]
      /\ req' = [req EXCEPT ![r] = q]
  BY DEF Start, Goto
<1>2. FirstStep(q) \in {"cache", "find", "exists", "parent"}
  BY ArgumentFields
<1>3. /\ \A x, d \in Requests : <<x, d>> \in met => <<x, d>> \in met'
      /\ q.op = "delete" =>
             \A x \in Requests : Running(x) /\ ~Is(x, "delete") => <<x, r>> \in met'
      /\ q.op # "delete" =>
             \A d \in Requests : Running(d) /\ Is(d, "delete") => <<r, d>> \in met'
      /\ \A x, d \in Requests : <<x, d>> \in met' =>
             \/ <<x, d>> \in met
             \/ x = r /\ Running(d)
             \/ d = r /\ Running(x)
  BY DEF Start
<1>4. \A x \in Requests : x # r => pc'[x] = pc[x] /\ req'[x] = req[x]
  BY <1>1 DEF Shape, TypeOK
<1>5. pc'[r] = FirstStep(q) /\ req'[r] = q /\ ~Running(r)
  BY <1>1 DEF Shape, TypeOK, Running, Working
<1> QED BY <1>2, <1>3, <1>4, <1>5 DEF Met, Running, Working, Is

LEMMA StartSafe ==
    ASSUME Shape, Safe, NEW r \in Requests, NEW q \in Arguments, Start(r, q)
    PROVE  Safe'
<1>1. /\ pc[r] = "idle" /\ pc' = [pc EXCEPT ![r] = FirstStep(q)]
      /\ req' = [req EXCEPT ![r] = q]
      /\ UNCHANGED <<dirs, db, cache, pool>>
      /\ \A d \in Requests \ {r} : place'[d] = place[d]
  BY DEF Start, Goto, disk, files, Shape, TypeOK
<1>2. FirstStep(q) \notin {"migrate", "seed", "insert", "remove"}
  BY ArgumentFields
<1>3. ASSUME NEW x \in Requests, NEW n, Raced(x, n)
      PROVE  \E d \in Requests : <<x, d>> \in met' /\ req'[d].id \in n
  <2>1. PICK d \in Requests : <<x, d>> \in met /\ req[d].id \in n
    BY <1>3 DEF Raced
  <2>2. d # r
    BY <2>1, <1>1 DEF Safe, Met
  <2>3. <<x, d>> \in met' /\ req'[d] = req[d]
    BY <2>1, <2>2, <1>1 DEF Start, Shape, TypeOK
  <2> QED BY <2>1, <2>3
<1>4. \A x \in Requests : \A n : Raced(x, n) => Raced(x, n)'
  BY <1>3 DEF Raced
<1>5. ASSUME NEW x \in Requests, pc'[x] \in {"migrate", "seed", "insert", "remove"}
      PROVE  pc[x] = pc'[x] /\ place'[x] = place[x]
  BY <1>1, <1>2, <1>5 DEF Shape, TypeOK
<1>6. \A id \in Ids : cache[id] # None => cache[id] \in Requests
  BY DEF Shape, TypeOK
<1>7. Met'
  BY StartMet DEF Safe
<1>8. Tree'
  BY <1>1 DEF Safe, Tree, HasDb
<1>9. OpenIsOnDisk'
  BY <1>1, <1>4, <1>5 DEF Safe, OpenIsOnDisk, OnDisk, Names
<1>10. CachedIsOnDisk'
  BY <1>1, <1>4, <1>6 DEF Safe, CachedIsOnDisk, OnDisk, Names
<1>11. Evicted'
  BY <1>1, <1>4, <1>5, <1>6 DEF Safe, Evicted, Names
<1> QED BY <1>7, <1>8, <1>9, <1>10, <1>11 DEF Safe

LEMMA RestartSafe ==
    ASSUME Shape, Safe, Restart
    PROVE  Safe'
<1>1. /\ pc' = [r \in Requests |-> IF Running(r) THEN "lost" ELSE pc[r]]
      /\ cache' = [id \in Ids |-> None]
      /\ met' = met /\ req' = req /\ UNCHANGED <<dirs, db>>
  BY DEF Restart, disk
<1>2. \A r \in Requests : pc'[r] \notin Working /\ (pc[r] # "idle" => pc'[r] # "idle")
  BY <1>1 DEF Running, Working
<1>3. Met'
  BY <1>1, <1>2 DEF Safe, Met, Running
<1>4. Tree' /\ OpenIsOnDisk' /\ CachedIsOnDisk' /\ Evicted'
  BY <1>1, <1>2 DEF Safe, Tree, HasDb, OpenIsOnDisk, CachedIsOnDisk, Evicted, Working
<1> QED BY <1>3, <1>4 DEF Safe

LEMMA NextSafe == Shape /\ Safe /\ [Next]_vars => Safe'
<1> SUFFICES ASSUME Shape, Safe, [Next]_vars PROVE Safe' OBVIOUS
<1>1. CASE UNCHANGED vars
  BY <1>1 DEF vars, disk, files, Safe, Met, Running, Is, Tree, HasDb, OpenIsOnDisk,
     CachedIsOnDisk, Evicted, OnDisk, Raced, Names
<1>2. CASE Next
  BY <1>2, StepSafe, StartSafe, RestartSafe DEF Next
<1> QED BY <1>1, <1>2

\* Whatever overlaps, stops and starts: a pool in the cache is open on the file
\* on disk, unless the lookup that cached it ran beside a deletion of the
\* instance or of its workspace.
THEOREM EvictionIsComplete == Spec => []CachedIsOnDisk
<1>1. Init => Safe
  BY DEF Init, Safe, Met, Running, Working, Tree, OpenIsOnDisk, CachedIsOnDisk, Evicted
<1>2. Safe => CachedIsOnDisk
  BY DEF Safe
<1> QED BY <1>1, <1>2, InitShape, NextShape, NextSafe, PTL DEF Spec

-----------------------------------------------------------------------------
\* No lookup, retry or race makes a database out of nothing or replaces one.
THEOREM CreationIsProvisioning == Spec => OnlyProvisioningCreates
<1>1. ASSUME Shape, [Next]_vars, NEW h \in Homes, db'[h] # db[h], db'[h] # None
      PROVE  db[h] = None /\ Is(db'[h], "provision") /\ At(db'[h], "connect")
  <2>1. PICK r \in Requests : Step(r)
    <3>1. CASE \E r \in Requests : \E q \in Arguments : Start(r, q)
      BY <1>1, <3>1 DEF Start, disk
    <3>2. CASE Restart
      BY <1>1, <3>2 DEF Restart, disk
    <3>3. CASE UNCHANGED vars
      BY <1>1, <3>3 DEF vars, disk
    <3> QED BY <1>1, <3>1, <3>2, <3>3 DEF Next
  <2>2. Connect(r)
    <3>1. CASE \E k \in Homes : Unlink(r, k)
      BY <1>1, <3>1 DEF Unlink, Shape, TypeOK
    <3>2. CASE UNCHANGED db
      BY <1>1, <3>2
    <3> QED BY <2>1, <3>1, <3>2 DEF Step, Hit, Locate, Insert, ParentThere, Exists, Look,
               Mkdir, Migrate, Seed, Find, Evict, RemoveDir, RemoveChild, Fail, disk
  <2>3. /\ pc[r] = "connect" /\ (HasDb(place[r]) \/ Is(r, "provision"))
        /\ db' = [db EXCEPT ![place[r]] = IF HasDb(place[r]) THEN @ ELSE r]
    BY <2>2 DEF Connect, At
  <2>4. db[h] = None /\ db'[h] = r /\ h = place[r]
    BY <1>1, <2>3 DEF HasDb, Shape, TypeOK
  <2>5. Is(r, "provision")
    BY <2>3, <2>4 DEF HasDb
  <2> QED BY <2>3, <2>4, <2>5 DEF At, Is
<1>2. Shape /\ [Next]_vars =>
        [\A h \in Homes : db'[h] # db[h] /\ db'[h] # None =>
             db[h] = None /\ Is(db'[h], "provision") /\ At(db'[h], "connect")]_vars
  BY <1>1
<1> QED BY <1>2, InitShape, NextShape, PTL DEF Spec, OnlyProvisioningCreates

-----------------------------------------------------------------------------
(* Where an orphan comes from.  A provisioning looks at the parent once; it  *)
(* creates the child's database later, and the deletion that unlinks the     *)
(* parent's in between is one the provisioning has met.                      *)

RacedWith(r, w) == \E d \in Requests : <<r, d>> \in met /\ Is(d, "delete") /\ req[d].id = w

Sheltered ==
    \A r \in Requests :
        Is(r, "provision") /\ pc[r] \in {"parent", "exists", "mkdir", "connect"} =>
            /\ place[r] = <<req[r].parent, req[r].id>>
            /\ pc[r] # "parent" /\ place[r][1] # Root =>
                   HasDb(<<Root, place[r][1]>>) \/ RacedWith(r, place[r][1])

LEMMA StepSheltered ==
    ASSUME Shape, Safe, Sheltered, NEW r \in Requests, Step(r)
    PROVE  Sheltered'
<1>1. /\ met' = met /\ req' = req
      /\ \A x \in Requests \ {r} : pc'[x] = pc[x] /\ place'[x] = place[x]
  BY StepFrame
<1>2. \A x \in Requests : \A w : RacedWith(x, w)' <=> RacedWith(x, w)
  BY <1>1 DEF RacedWith, Is
<1>3. ASSUME NEW w, HasDb(<<Root, w>>), ~HasDb(<<Root, w>>)', <<Root, w>> \in Homes
      PROVE  pc[r] = "remove" /\ req[r].id = w
  <2>1. PICK h \in Homes : Unlink(r, h)
    <3>1. CASE Connect(r)
      <4>1. db' = [db EXCEPT ![place[r]] = IF HasDb(place[r]) THEN @ ELSE r]
        BY <3>1 DEF Connect
      <4> QED BY <1>3, <4>1, TenantAssumption DEF HasDb, Shape, TypeOK
    <3>2. CASE UNCHANGED db
      BY <1>3, <3>2 DEF HasDb
    <3>3. CASE ~Connect(r) /\ db' # db
      BY <3>3, Zenon DEF Step, Hit, Locate, Insert, ParentThere, Exists, Look,
         Mkdir, Migrate, Seed, Find, Evict, RemoveDir, RemoveChild, Fail, disk
    <3> QED BY <3>1, <3>2, <3>3
  <2>2. h = <<Root, w>> /\ pc[r] = "remove" /\ h \in {place[r]} \cup Under(place[r])
    BY <1>3, <2>1 DEF Unlink, HasDb, At, Shape, TypeOK
  <2>3. place[r] \in Homes /\ place[r][2] = req[r].id
    BY <2>2 DEF Shape, Placed
  <2>4. h = place[r]
    BY <2>2, <2>3, TenantAssumption DEF Under, Homes, Ids
  <2> QED BY <2>2, <2>3, <2>4
<1>4. ASSUME NEW x \in Requests, Is(x, "provision")',
             pc'[x] \in {"parent", "exists", "mkdir", "connect"}
      PROVE  /\ place'[x] = <<req'[x].parent, req'[x].id>>
             /\ pc'[x] # "parent" /\ place'[x][1] # Root =>
                    (HasDb(<<Root, place[x][1]>>) \/ RacedWith(x, place[x][1]))'
  <2>1. Is(x, "provision") /\ req'[x] = req[x]
    BY <1>1, <1>4 DEF Is
  <2>2. /\ pc[x] \in {"parent", "exists", "mkdir", "connect"}
        /\ place'[x] = place[x]
        /\ pc'[x] # "parent" => pc[x] # "parent" \/ HasDb(<<Root, req[x].parent>>)
    <3>1. CASE x # r
      BY <1>1, <1>4, <3>1
    <3>2. CASE x = r
      <4>1. CASE Hit(r) \/ Locate(r) \/ Insert(r) \/ Find(r) \/ Evict(r)
        BY <2>1, <3>2, <4>1, Zenon DEF Hit, Locate, Insert, Find, Evict, At, Is, Shape, Labels
      <4>2. CASE ParentThere(r) \/ Exists(r)
        BY <1>4, <3>2, <4>2 DEF ParentThere, Exists, Look, At, Goto, Shape, TypeOK
      <4>3. CASE Mkdir(r) \/ Connect(r) \/ Migrate(r) \/ Seed(r)
        BY <1>4, <3>2, <4>3 DEF Mkdir, Connect, Open, Migrate, Seed, At, Goto, Shape, TypeOK
      <4>4. CASE RemoveDir(r) \/ Fail(r)
        BY <1>4, <3>2, <4>4 DEF RemoveDir, Fail, Goto, Shape, TypeOK
      <4>5. CASE \E h \in Homes : Unlink(r, h) \/ RemoveChild(r, h)
        BY <1>4, <3>2, <4>5 DEF Unlink, RemoveChild, At, Shape, TypeOK
      <4> QED BY <4>1, <4>2, <4>3, <4>4, <4>5 DEF Step
    <3> QED BY <3>1, <3>2
  <2>3. place[x] = <<req[x].parent, req[x].id>> /\ place[x] \in Homes
    BY <2>1, <2>2 DEF Sheltered, Shape, Placed, Opening
  <2>4. ASSUME pc'[x] # "parent", place[x][1] # Root
        PROVE  (HasDb(<<Root, place[x][1]>>) \/ RacedWith(x, place[x][1]))'
    <3>1. PICK w : w = req[x].parent
      OBVIOUS
    <3>2. place[x][1] = w /\ place'[x][1] = w /\ <<Root, w>> \in Homes
      BY <2>2, <2>3, <2>4, <3>1, ParentHome
    <3>3. HasDb(<<Root, w>>) \/ RacedWith(x, w)
      BY <2>1, <2>2, <2>4, <3>1, <3>2 DEF Sheltered
    <3>4. ASSUME HasDb(<<Root, w>>), ~HasDb(<<Root, w>>)' PROVE RacedWith(x, w)
      <4>1. pc[r] = "remove" /\ req[r].id = w
        BY <1>3, <3>2, <3>4
      <4>2. Is(r, "delete")
        BY <4>1 DEF Shape, Labels
      <4>3. <<x, r>> \in met
        BY <2>1, <2>2, <4>1, <4>2 DEF Safe, Met, Running, Working, Is
      <4> QED BY <4>1, <4>2, <4>3 DEF RacedWith
    <3>5. RacedWith(x, w)' <=> RacedWith(x, w)
      BY <1>2
    <3>6. HasDb(<<Root, w>>)' \/ RacedWith(x, w)'
      BY <3>3, <3>4, <3>5
    <3> QED BY <3>2, <3>6 DEF HasDb, RacedWith, Is
  <2> QED BY <2>1, <2>2, <2>3, <2>4
<1> QED BY <1>4 DEF Sheltered

\* A deletion that is at its last step, or was stopped there, accounts for the
\* orphans it leaves; one that gets through leaves none.
LEMMA StepOrphans ==
    ASSUME Shape, Safe, Sheltered, OrphansComeFromDeletions, NEW r \in Requests, Step(r)
    PROVE  OrphansComeFromDeletions'
<1>1. /\ met' = met /\ req' = req /\ pc[r] \in Working
      /\ \A x \in Requests \ {r} : pc'[x] = pc[x] /\ place'[x] = place[x]
  BY StepFrame
<1> SUFFICES ASSUME NEW h \in Homes, h[1] # Root, db'[h] # None, db'[<<Root, h[1]>>] = None
             PROVE  \E d \in Requests :
                        /\ req'[d].op = "delete" /\ req'[d].id = h[1]
                        /\ pc'[d] \in {"remove", "failed", "lost"} \/ <<db'[h], d>> \in met'
  BY DEF OrphansComeFromDeletions, HasDb, Is
<1>2. <<Root, h[1]>> \in Homes
  BY ParentHome
<1>3. CASE HasDb(h) /\ ~HasDb(<<Root, h[1]>>) /\ db'[h] = db[h]
  <2>1. PICK d \in Requests :
            /\ Is(d, "delete") /\ req[d].id = h[1]
            /\ pc[d] \in {"remove", "failed", "lost"} \/ <<db[h], d>> \in met
    BY <1>3 DEF OrphansComeFromDeletions
  <2>2. CASE <<db[h], d>> \in met
    BY <2>1, <2>2, <1>1, <1>3 DEF Is
  <2>3. CASE d # r
    BY <2>1, <2>3, <1>1, <1>3 DEF Is
  <2>4. CASE d = r /\ pc[d] \in {"remove", "failed", "lost"}
    <3>1. pc[r] = "remove"
      BY <2>4, <1>1 DEF Working
    <3>2. CASE RemoveDir(r)
      <4>1. Under(place[r]) = {} /\ place[r][2] = h[1]
        BY <3>1, <3>2, <2>1, <2>4 DEF RemoveDir, Shape, Placed
      <4>2. h \in dirs
        BY <1>3 DEF Safe, Tree
      <4> QED BY <4>1, <4>2 DEF Under
    <3>3. CASE ~RemoveDir(r)
      <4>1. pc'[r] \in {"remove", "failed"}
        <5>1. CASE Fail(r)
          BY <5>1 DEF Fail, Goto, Shape, TypeOK
        <5>2. CASE \E k \in Homes : Unlink(r, k) \/ RemoveChild(r, k)
          BY <5>2, <3>1 DEF Unlink, RemoveChild
        <5>3. CASE ~Fail(r) /\ ~(\E k \in Homes : Unlink(r, k) \/ RemoveChild(r, k))
          BY <3>1, <3>3, <5>3 DEF Step, At, Hit, Locate, Insert, ParentThere, Exists,
             Mkdir, Connect, Migrate, Seed, Find, Evict
        <5> QED BY <5>1, <5>2, <5>3
      <4> QED BY <4>1, <2>1, <2>4, <1>1 DEF Is
    <3> QED BY <3>2, <3>3
  <2> QED BY <2>1, <2>2, <2>3, <2>4
<1>4. CASE \E k \in Homes : Unlink(r, k)
  <2>1. PICK k \in Homes : Unlink(r, k)
    BY <1>4
  <2>2. /\ db' = [db EXCEPT ![k] = None] /\ pc'[r] = "remove" /\ pc[r] = "remove"
        /\ k \in {place[r]} \cup Under(place[r])
    BY <2>1 DEF Unlink, At
  <2>3. place[r] \in Homes /\ place[r][2] = req[r].id /\ Is(r, "delete")
    BY <2>2 DEF Shape, Placed, Labels
  <2>4. db'[h] = db[h] /\ HasDb(h)
    BY <2>2 DEF HasDb, Shape, TypeOK
  <2>5. CASE k = <<Root, h[1]>>
    <3>1. k = place[r]
      BY <2>2, <2>3, <2>5, TenantAssumption DEF Under, Homes, Ids
    <3> QED BY <3>1, <2>2, <2>3, <2>5, <1>1 DEF Is
  <2>6. CASE k # <<Root, h[1]>>
    <3>1. ~HasDb(<<Root, h[1]>>)
      BY <1>2, <2>2, <2>6 DEF HasDb, Shape, TypeOK
    <3> QED BY <3>1, <2>4, <1>3
  <2> QED BY <2>5, <2>6
<1>5. CASE Connect(r)
  <2>1. /\ db' = [db EXCEPT ![place[r]] = IF HasDb(place[r]) THEN @ ELSE r]
        /\ pc[r] = "connect" /\ (HasDb(place[r]) \/ Is(r, "provision"))
    BY <1>5 DEF Connect, At
  <2>2. ~HasDb(<<Root, h[1]>>)
    BY <1>2, <2>1, TenantAssumption DEF HasDb, Shape, TypeOK
  <2>3. CASE db'[h] = db[h]
    BY <2>2, <2>3, <1>3 DEF HasDb
  <2>4. CASE db'[h] # db[h]
    <3>1. h = place[r] /\ db'[h] = r /\ Is(r, "provision")
      BY <2>1, <2>4 DEF HasDb, Shape, TypeOK
    <3>2. PICK d \in Requests : <<r, d>> \in met /\ Is(d, "delete") /\ req[d].id = h[1]
      BY <2>1, <2>2, <3>1 DEF Sheltered, RacedWith
    <3> QED BY <3>1, <3>2, <1>1 DEF Is
  <2> QED BY <2>3, <2>4
<1>6. CASE ~Connect(r) /\ ~(\E k \in Homes : Unlink(r, k))
  <2>1. db' = db
    BY <1>6, Zenon DEF Step, Hit, Locate, Insert, ParentThere, Exists, Look,
       Mkdir, Migrate, Seed, Find, Evict, RemoveDir, RemoveChild, Fail, disk
  <2> QED BY <2>1, <1>3 DEF HasDb
<1> QED BY <1>4, <1>5, <1>6

LEMMA StartOrphans ==
    ASSUME Shape, Safe, Sheltered, OrphansComeFromDeletions,
           NEW r \in Requests, NEW q \in Arguments, Start(r, q)
    PROVE  Sheltered' /\ OrphansComeFromDeletions'
<1>1. /\ pc[r] = "idle" /\ pc' = [pc EXCEPT ![r] = FirstStep(q)]
      /\ req' = [req EXCEPT ![r] = q] /\ db' = db
      /\ place' = [place EXCEPT ![r] = IF q.op = "provision" THEN <<q.parent, q.id>> ELSE @]
      /\ met \subseteq met'
  BY DEF Start, Goto, disk
<1>2. \A x \in Requests : x # r =>
          pc'[x] = pc[x] /\ req'[x] = req[x] /\ place'[x] = place[x]
  BY <1>1 DEF Shape, TypeOK
<1>3. pc'[r] = FirstStep(q) /\ req'[r] = q
  BY <1>1 DEF Shape, TypeOK
<1>4. \A d \in Requests : pc[d] # "idle" => d # r
  BY <1>1
<1>5. ASSUME NEW x \in Requests, NEW w, RacedWith(x, w) PROVE RacedWith(x, w)'
  <2>1. PICK d \in Requests : <<x, d>> \in met /\ Is(d, "delete") /\ req[d].id = w
    BY <1>5 DEF RacedWith
  <2>2. req'[d] = req[d]
    BY <2>1, <1>1, <1>2 DEF Safe, Met
  <2>3. <<x, d>> \in met' /\ req'[d].op = "delete" /\ req'[d].id = w
    BY <2>1, <2>2, <1>1 DEF Is
  <2> QED BY <2>3 DEF RacedWith, Is
<1>6. Sheltered'
  <2> SUFFICES ASSUME NEW x \in Requests, req'[x].op = "provision",
                      pc'[x] \in {"parent", "exists", "mkdir", "connect"}
               PROVE  /\ place'[x] = <<req'[x].parent, req'[x].id>>
                      /\ pc'[x] # "parent" /\ place'[x][1] # Root =>
                             (HasDb(<<Root, place[x][1]>>) \/ RacedWith(x, place[x][1]))'
    BY DEF Sheltered, Is
  <2>1. CASE x = r
    <3>1. place'[r] = <<q.parent, q.id>>
      BY <1>1, <1>3, <2>1 DEF Shape, TypeOK
    <3>2. pc'[r] = "exists" => q.parent = Root
      BY <1>3, <2>1 DEF FirstStep
    <3>3. FirstStep(q) \in {"cache", "find", "exists", "parent"}
      BY ArgumentFields
    <3> QED BY <2>1, <1>3, <3>1, <3>2, <3>3
  <2>2. CASE x # r
    <3>1. pc'[x] = pc[x] /\ req'[x] = req[x] /\ place'[x] = place[x]
      BY <1>2, <2>2
    <3>2. /\ place[x] = <<req[x].parent, req[x].id>>
          /\ pc[x] # "parent" /\ place[x][1] # Root =>
                 HasDb(<<Root, place[x][1]>>) \/ RacedWith(x, place[x][1])
      BY <3>1 DEF Sheltered, Is
    <3>3. RacedWith(x, place[x][1]) => RacedWith(x, place[x][1])'
      <4>1. PICK w : w = place[x][1]
        OBVIOUS
      <4>2. RacedWith(x, w) => RacedWith(x, w)'
        BY <1>5
      <4>3. place'[x][1] = w
        BY <4>1, <3>1
      <4> QED BY <4>1, <4>2, <4>3 DEF RacedWith, Is
    <3>4. HasDb(<<Root, place[x][1]>>) => HasDb(<<Root, place[x][1]>>)'
      BY <3>1, <1>1 DEF HasDb
    <3> QED BY <3>1, <3>2, <3>3, <3>4
  <2> QED BY <2>1, <2>2
<1>7. OrphansComeFromDeletions'
  <2> SUFFICES ASSUME NEW h \in Homes, h[1] # Root, HasDb(h), ~HasDb(<<Root, h[1]>>)
               PROVE  \E d \in Requests :
                          /\ req'[d].op = "delete" /\ req'[d].id = h[1]
                          /\ pc'[d] \in {"remove", "failed", "lost"} \/ <<db[h], d>> \in met'
    BY <1>1 DEF OrphansComeFromDeletions, HasDb, Is
  <2>1. PICK d \in Requests :
            /\ Is(d, "delete") /\ req[d].id = h[1]
            /\ pc[d] \in {"remove", "failed", "lost"} \/ <<db[h], d>> \in met
    BY DEF OrphansComeFromDeletions
  <2>2. pc[d] # "idle"
    <3>1. <<db[h], d>> \in met => pc[d] # "idle"
      BY DEF Safe, Met, Shape, TypeOK
    <3> QED BY <2>1, <3>1
  <2> QED BY <2>1, <2>2, <1>1, <1>2 DEF Is
<1> QED BY <1>6, <1>7

LEMMA NextOrphans ==
    Shape /\ Safe /\ Sheltered /\ OrphansComeFromDeletions /\ [Next]_vars
        => Sheltered' /\ OrphansComeFromDeletions'
<1> SUFFICES ASSUME Shape, Safe, Sheltered, OrphansComeFromDeletions, [Next]_vars
             PROVE  Sheltered' /\ OrphansComeFromDeletions'
  OBVIOUS
<1>1. CASE \E r \in Requests : Step(r)
  BY <1>1, StepSheltered, StepOrphans
<1>2. CASE \E r \in Requests : \E q \in Arguments : Start(r, q)
  BY <1>2, StartOrphans
<1>3. CASE Restart
  <2>1. /\ pc' = [r \in Requests |-> IF Running(r) THEN "lost" ELSE pc[r]]
        /\ UNCHANGED <<dirs, db, req, met>>
    BY <1>3 DEF Restart, disk
  <2>2. \A r \in Requests : /\ pc'[r] \notin Working
                            /\ pc[r] \in {"remove", "failed", "lost"} =>
                                   pc'[r] \in {"remove", "failed", "lost"}
    BY <2>1 DEF Running, Working
  <2>3. Sheltered'
    BY <2>2 DEF Sheltered, Working
  <2> QED BY <2>1, <2>2, <2>3 DEF OrphansComeFromDeletions, HasDb, Is
<1>4. CASE UNCHANGED vars
  BY <1>4, Zenon DEF vars, disk, Sheltered, OrphansComeFromDeletions, HasDb, Is, RacedWith
<1> QED BY <1>1, <1>2, <1>3, <1>4 DEF Next

\* An instance is without its workspace only after a deletion of the workspace
\* that got stuck half-way or that ran beside the instance's provisioning.
THEOREM OrphansAreExplained == Spec => []OrphansComeFromDeletions
<1>1. Init => Safe
  BY DEF Init, Safe, Met, Running, Working, Tree, OpenIsOnDisk, CachedIsOnDisk, Evicted
<1>2. Init => Sheltered /\ OrphansComeFromDeletions
  <2> SUFFICES ASSUME Init PROVE Sheltered /\ OrphansComeFromDeletions
    OBVIOUS
  <2>1. Sheltered
    BY DEF Init, Sheltered
  <2>2. \A h \in Homes : h[1] # Root /\ HasDb(h) => HasDb(<<Root, h[1]>>)
    BY ParentHome, TenantAssumption DEF Init, HasDb
  <2> QED BY <2>1, <2>2 DEF OrphansComeFromDeletions
<1> QED BY <1>1, <1>2, InitShape, NextShape, NextSafe, NextOrphans, PTL DEF Spec
=============================================================================
