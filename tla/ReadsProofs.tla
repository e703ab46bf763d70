----------------------------- MODULE ReadsProofs -----------------------------
(***************************************************************************)
(* What the reads of clients show and what their permission checks let     *)
(* through, for every number of callers, assets, pages and requests beside *)
(* them.                                                                   *)
(***************************************************************************)
EXTENDS Reads, PagingProofs

(* What a label says of the request that is at it.                         *)

Single == {"get"} \cup Writes

Fits(label, op) ==
    /\ label \in {"groups", "admin", "log"} => op \in AssetWalks \cup Single
    /\ label \in {"page", "send"} => op \in AssetWalks \cup {"collections", "trail"}
    /\ label = "filter" => op \in AssetWalks
    /\ label \in {"get", "verdict"} => op \in Single
    /\ label = "write" => op \in Writes \cup {"setAuth"}

\* Rows of assets, as the filters compare them.
Legible(page) == \A x \in page : x.id \in Assets /\ x.at \in Int

Labels(r) ==
    /\ pc[r] = "idle" => req[r] = NoRequest /\ mem[r] = NoMemory
    /\ pc[r] # "idle" => req[r] \in Request
    /\ Fits(pc[r], req[r].op)
    /\ pc[r] \in {"groups", "admin", "page", "get"} => mem[r].kept = {}
    /\ pc[r] = "get" => mem[r].page = {}
    /\ pc[r] = "filter" => Legible(mem[r].page)

\* The local variables: no row of a page is there twice, nor an id in a walk more
\* often than it has had pages.
Memory(m) ==
    /\ m = [landed |-> m.landed, groups |-> m.groups, bypass |-> m.bypass, page |-> m.page,
            kept |-> m.kept, cursor |-> m.cursor, shown |-> m.shown, passed |-> m.passed,
            turn |-> m.turn, lost |-> m.lost]
    /\ m.groups \subseteq Groups \cup UNION {p.token : p \in Callers}
    /\ m.kept \subseteq m.page
    /\ IsFiniteSet(m.page) /\ \A x, y \in m.page : x.id = y.id => x = y
    /\ m.shown \in [Ids -> Nat] /\ m.passed \subseteq Ids /\ m.cursor \in Key
    /\ m.turn \in Nat /\ \A i \in Ids : m.shown[i] <= m.turn

Tables ==
    /\ backend \in Backends /\ events \in 0..MaxEvents
    /\ row \in [Assets -> {"live", "deleted"}]
    /\ born \in [Assets -> 0..Now] /\ at \in [Assets -> 0..Now]
    /\ ctx \in [Assets -> Contexts]
    /\ native \subseteq Subs \X Groups
    /\ colls \subseteq Collections /\ trail \subseteq [id : TrailIds, at : 0..Now]
    /\ IsFiniteSet(trail)
    /\ bypasses \subseteq Requests \X Nat /\ \A b \in bypasses : b[2] <= mem[b[1]].turn

Locals ==
    /\ req \in [Requests -> Request \cup {NoRequest}]
    /\ pc \in [Requests -> {"idle"} \cup Working \cup Answers]
    /\ mem = [r \in Requests |-> mem[r]]
    /\ \A r \in Requests : Labels(r) /\ Memory(mem[r])

Shape ==
    /\ Tables /\ Locals
    /\ sure \in [Requests -> SUBSET Ids] /\ plain \in [Requests -> SUBSET Ids]

-----------------------------------------------------------------------------
LEMMA RequestFields ==
    ASSUME NEW q \in Request
    PROVE  /\ q.op \in AssetWalks \cup Single \cup {"collections", "trail", "setAuth"}
           /\ q.op \in AssetWalks \cup Single => q.by \in Callers
           /\ q.op \in AssetWalks \cup {"collections", "trail"} => q.limit \in Limits
           /\ q.op \in Single \cup {"setAuth"} => q.asset \in Assets
           /\ q.op = "setAuth" => q.ctx \in Contexts
BY DEF Request, Single, Writes, AssetWalks

LEMMA NoMemoryIsMemory ==
    /\ Memory(NoMemory)
    /\ \A t \in Nat : Memory([NoMemory EXCEPT !.turn = t])
    /\ NoMemory.page = {} /\ NoMemory.turn = 0
<1>1. NoCursor \in Key
  BY DEF NoCursor, Key
<1>2. Memory(NoMemory) /\ NoMemory.page = {} /\ NoMemory.turn = 0
      /\ \A i \in Ids : NoMemory.shown[i] = 0
  BY <1>1, FS_EmptySet DEF Memory, NoMemory
<1>3. ASSUME NEW t \in Nat PROVE Memory([NoMemory EXCEPT !.turn = t])
  <2>1. PICK m : m = NoMemory
    OBVIOUS
  <2>2. Memory([m EXCEPT !.turn = t])
    BY <1>2, <2>1 DEF Memory
  <2> QED BY <2>1, <2>2
<1> QED BY <1>2, <1>3

LEMMA MemoryDomain ==
    ASSUME NEW m, Memory(m)
    PROVE  DOMAIN m = DOMAIN NoMemory
<1>1. DOMAIN m = {"landed", "groups", "bypass", "page", "kept", "cursor", "shown", "passed",
                  "turn", "lost"}
  BY DEF Memory
<1>2. DOMAIN NoMemory = {"landed", "groups", "bypass", "page", "kept", "cursor", "shown",
                         "passed", "turn", "lost"}
  BY DEF NoMemory
<1> QED BY <1>1, <1>2

LEMMA ShapeTypes == Shape => TypeOK
<1> SUFFICES ASSUME Shape PROVE TypeOK
  OBVIOUS
<1>1. \A r \in Requests : DOMAIN mem[r] = DOMAIN NoMemory
  BY MemoryDomain DEF Shape, Locals
<1>2. \A b \in bypasses : b \in Requests \X Nat /\ b[2] <= mem[b[1]].turn
  BY DEF Shape, Tables
<1>3. ASSUME NEW r \in Requests
      PROVE  /\ DOMAIN mem[r] = DOMAIN NoMemory
             /\ mem[r].groups \subseteq Groups \cup UNION {p.token : p \in Callers}
             /\ mem[r].kept \subseteq mem[r].page
             /\ mem[r].shown \in [Ids -> Nat] /\ mem[r].passed \subseteq Ids
             /\ mem[r].cursor \in Key
             /\ \A i \in Ids : mem[r].shown[i] <= mem[r].turn
  <2>1. Memory(mem[r])
    BY DEF Shape, Locals
  <2> QED BY <1>1, <2>1, Zenon DEF Memory
<1> QED BY <1>2, <1>3, Zenon DEF TypeOK, Shape, Tables, Locals

-----------------------------------------------------------------------------
(* The keys of a walk and its pages.                                         *)

\* The ids a walk is over.
IdsOf(q) == IF q.op \in AssetWalks THEN Assets ELSE IF q.op = "collections" THEN Collections
            ELSE TrailIds

LEMMA KeyFacts ==
    ASSUME Shape, NEW q \in Request, q.op \in AssetWalks \cup {"collections", "trail"}
    PROVE  /\ Keys(q) \subseteq Key /\ IsFiniteSet(Keys(q))
           /\ \A x \in Keys(q) : IdOf(x) \in IdsOf(q)
<1>1. CASE q.op \in AssetWalks
  <2> DEFINE A == {b \in Assets : Live(b)}
             f == [a \in A |-> [id |-> Sign(q) * a, at |-> Sign(q) * Stamp(q, a)]]
  <2>1. Keys(q) = {f[a] : a \in A}
    BY <1>1 DEF Keys, AssetWalks
  <2>2. f \in Surjection(A, Keys(q))
    BY <2>1 DEF Surjection
  <2>3. IsFiniteSet(A)
    <3>1. A \in SUBSET Assets
      OBVIOUS
    <3> QED BY <3>1, FS_Subset, ReadsAssumption
  <2>4. IsFiniteSet(Keys(q))
    <3> HIDE DEF f, A
    <3> QED BY <2>2, <2>3, FS_Surjection
  <2>5. ASSUME NEW a \in Assets
        PROVE  /\ Sign(q) * a \in Int /\ Sign(q) * Stamp(q, a) \in Int
               /\ IF Sign(q) * a < 0 THEN -(Sign(q) * a) = a ELSE Sign(q) * a = a
    <3>1. Stamp(q, a) \in 0..Now /\ a \in Nat \ {0} /\ Now \in Nat
      BY ReadsAssumption DEF Stamp, Shape, Tables
    <3>2. Sign(q) = 1 \/ Sign(q) = -1
      BY DEF Sign
    <3>3. CASE Sign(q) = 1
      BY <3>1, <3>3
    <3>4. CASE Sign(q) = -1
      BY <3>1, <3>4
    <3> QED BY <3>2, <3>3, <3>4
  <2>6. Keys(q) \subseteq Key
    BY <2>1, <2>5 DEF Key
  <2>7. \A x \in Keys(q) : IdOf(x) \in Assets
    BY <2>1, <2>5 DEF IdOf
  <2> QED BY <1>1, <2>4, <2>6, <2>7 DEF IdsOf
<1>2. CASE q.op = "collections"
  <2> DEFINE f == [c \in colls |-> [id |-> -c, at |-> 0]]
  <2>0. q.op \notin AssetWalks
    BY <1>2 DEF AssetWalks
  <2>1. Keys(q) = {f[c] : c \in colls}
    BY <1>2, <2>0 DEF Keys
  <2>2. f \in Surjection(colls, Keys(q))
    BY <2>1 DEF Surjection
  <2>3. IsFiniteSet(colls) /\ colls \subseteq Nat \ {0} /\ colls \subseteq Collections
    <3>1. colls \in SUBSET Collections
      BY DEF Shape, Tables
    <3> QED BY <3>1, FS_Subset, ReadsAssumption
  <2>4. IsFiniteSet(Keys(q))
    <3> HIDE DEF f
    <3> QED BY <2>2, <2>3, FS_Surjection
  <2>5. Keys(q) \subseteq Key
    BY <2>1, <2>3 DEF Key
  <2>6. \A x \in Keys(q) : IdOf(x) \in Collections
    BY <2>1, <2>3 DEF IdOf
  <2> QED BY <1>2, <2>0, <2>4, <2>5, <2>6 DEF IdsOf
<1>3. CASE q.op = "trail"
  <2>1. q.op \notin AssetWalks /\ q.op # "collections"
    BY <1>3 DEF AssetWalks
  <2>2. Keys(q) = trail
    BY <2>1 DEF Keys
  <2>3. trail \subseteq [id : TrailIds, at : 0..Now] /\ IsFiniteSet(trail) /\ TrailIds \subseteq Nat
    BY ReadsAssumption DEF Shape, Tables
  <2> QED BY <2>1, <2>2, <2>3, ReadsAssumption DEF Key, IdOf, IdsOf
<1> QED BY <1>1, <1>2, <1>3

\* What is left of a walk is a finite part of its keys.
LEMMA RestFacts ==
    ASSUME Shape, NEW r \in Requests, pc[r] = "page"
    PROVE  /\ req[r] \in Request /\ req[r].op \in AssetWalks \cup {"collections", "trail"}
           /\ req[r].limit \in Nat \ {0}
           /\ Rest(r) \subseteq Keys(req[r]) /\ Rest(r) \subseteq Keyset /\ IsFiniteSet(Rest(r))
<1>1. req[r] \in Request /\ req[r].op \in AssetWalks \cup {"collections", "trail"}
  BY DEF Shape, Locals, Labels, Fits
<1>2. req[r].limit \in Nat \ {0}
  BY <1>1, RequestFields, ReadsAssumption
<1>3. Rest(r) \subseteq Keys(req[r])
  <2>1. req[r].op = "trail" => Keys(req[r]) = trail
    BY DEF Keys, AssetWalks
  <2> QED BY <2>1 DEF Rest, Behind
<1>4. Rest(r) \in SUBSET Keys(req[r])
  BY <1>3
<1> QED BY <1>1, <1>2, <1>3, <1>4, KeyFacts, FS_Subset DEF Key, Keyset

\* A page is of rows that are left, and so is its cursor.
LEMMA PageFacts ==
    ASSUME Shape, NEW r \in Requests, pc[r] = "page", NEW p \in Pages(r)
    PROVE  /\ p.rows \subseteq Rest(r) /\ p.next \in Rest(r) \cup {NoCursor}
           /\ \A x \in p.rows : IdOf(x) \in IdsOf(req[r])
           /\ p.next # NoCursor => IdOf(p.next) \in IdsOf(req[r])
           /\ p.next \in Key
<1> DEFINE rest == Rest(r)
           k == req[r].limit
<1>1. /\ rest \subseteq Keyset /\ IsFiniteSet(rest) /\ k \in Nat \ {0}
      /\ rest \subseteq Keys(req[r])
      /\ req[r] \in Request /\ req[r].op \in AssetWalks \cup {"collections", "trail"}
  BY RestFacts
<1>2. p.rows \subseteq rest /\ p.next \in rest \cup {NoCursor}
  <2>1. CASE p \in [rows : SUBSET rest, next : rest]
    BY <2>1
  <2>2. CASE p = [rows |-> First(rest, k), next |-> CursorOf(r, rest, k)]
    <3>1. First(rest, k) \subseteq rest
      BY DEF First
    <3>2. CursorOf(r, rest, k) \in rest \cup {NoCursor}
      <4> HIDE DEF rest, k
      <4>1. CASE Cardinality(rest) <= k
        BY <4>1 DEF CursorOf, NextCursor
      <4>2. CASE ~(Cardinality(rest) <= k)
        BY <1>1, <4>2, CursorSplits, BeyondSplits DEF CursorOf
      <4> QED BY <4>1, <4>2
    <3> QED BY <2>2, <3>1, <3>2
  <2> QED BY <2>1, <2>2 DEF Pages
<1>3. \A x \in rest : IdOf(x) \in IdsOf(req[r]) /\ x \in Key
  BY <1>1, KeyFacts
<1>4. NoCursor \in Key
  BY DEF NoCursor, Key
<1> QED BY <1>2, <1>3, <1>4

-----------------------------------------------------------------------------
(* Steps.                                                                    *)

Elsewhere(r) ==
    \A x \in Requests \ {r} : pc'[x] = pc[x] /\ req'[x] = req[x] /\ mem'[x] = mem[x]

\* r goes on to a label that fits, with memory that is sound.
Goes(r, label, m) ==
    /\ Goto(r, label, m) /\ label \in Working \cup Answers /\ Fits(label, req'[r].op)
    /\ Memory(m) /\ m.turn >= mem[r].turn
    /\ label \in {"groups", "admin", "page", "get"} => m.kept = {}
    /\ label = "get" => m.page = {}
    /\ label = "filter" => Legible(m.page)

\* What a step leaves alone of the memory.
KeepsCaller(m, n) ==
    m.landed = n.landed /\ m.groups = n.groups /\ m.bypass = n.bypass /\ m.lost = n.lost
KeepsWalk(m, n) ==
    m.cursor = n.cursor /\ m.shown = n.shown /\ m.passed = n.passed /\ m.turn = n.turn

LEMMA GoesFacts ==
    ASSUME Locals, NEW r \in Requests, NEW label, NEW m, Goes(r, label, m)
    PROVE  /\ pc' = [pc EXCEPT ![r] = label] /\ pc'[r] = label
           /\ mem'[r] = IF label \in Answers THEN [NoMemory EXCEPT !.turn = m.turn] ELSE m
           /\ mem' = [x \in Requests |-> mem'[x]]
           /\ Memory(mem'[r]) /\ mem'[r].turn = m.turn
           /\ \A x \in Requests \ {r} : pc'[x] = pc[x] /\ mem'[x] = mem[x]
           /\ pc' \in [Requests -> {"idle"} \cup Working \cup Answers]
<1>1. PICK n : n = IF label \in Answers THEN [NoMemory EXCEPT !.turn = m.turn] ELSE m
  OBVIOUS
<1>2. mem' = [mem EXCEPT ![r] = n] /\ pc' = [pc EXCEPT ![r] = label]
  BY <1>1, Zenon DEF Goes, Goto
<1>3. Memory(m) /\ m.turn \in Nat
  BY DEF Goes, Memory
<1>4. Memory([NoMemory EXCEPT !.turn = m.turn])
  BY <1>3, NoMemoryIsMemory
<1>5. Memory(n)
  BY <1>1, <1>3, <1>4
<1>6. n.turn = m.turn
  <2>1. [NoMemory EXCEPT !.turn = m.turn].turn = m.turn
    <3>1. PICK z : z = NoMemory
      OBVIOUS
    <3>2. Memory(z)
      BY <3>1, NoMemoryIsMemory
    <3>3. [z EXCEPT !.turn = m.turn].turn = m.turn
      BY <3>2 DEF Memory
    <3> QED BY <3>1, <3>3
  <2> QED BY <1>1, <2>1
<1>7. /\ pc \in [Requests -> {"idle"} \cup Working \cup Answers]
      /\ mem = [x \in Requests |-> mem[x]] /\ label \in Working \cup Answers
  BY DEF Locals, Goes
<1>8. mem'[r] = n /\ mem' = [x \in Requests |-> mem'[x]]
      /\ \A x \in Requests \ {r} : mem'[x] = mem[x]
  BY <1>2, <1>7
<1>9. pc'[r] = label /\ (\A x \in Requests \ {r} : pc'[x] = pc[x])
      /\ pc' \in [Requests -> {"idle"} \cup Working \cup Answers]
  BY <1>2, <1>7
<1> QED BY <1>1, <1>2, <1>5, <1>6, <1>8, <1>9

\* What the local variables of a step are.
LEMMA PrincipalFacts ==
    ASSUME NEW p \in Callers
    PROVE  /\ Bare(p) = [sub |-> p.sub, spn |-> p.spn, role |-> "none", told |-> p.told, token |-> {}]
           /\ p.token \subseteq UNION {q.token : q \in Callers}
<1>1. p = [sub |-> p.sub, spn |-> p.spn, role |-> p.role, told |-> p.told, token |-> p.token]
  BY ReadsAssumption
<1>2. PICK b : b = [p EXCEPT !.role = "none", !.token = {}]
  OBVIOUS
<1>3. /\ b = [sub |-> b.sub, spn |-> b.spn, role |-> b.role, told |-> b.told, token |-> b.token]
      /\ b.sub = p.sub /\ b.spn = p.spn /\ b.role = "none" /\ b.told = p.told /\ b.token = {}
  BY <1>1, <1>2
<1>4. b = [sub |-> p.sub, spn |-> p.spn, role |-> "none", told |-> p.told, token |-> {}]
  BY <1>3
<1> QED BY <1>2, <1>4 DEF Bare

LEMMA ReadGroupsGoes ==
    ASSUME Shape, NEW r \in Requests, ReadGroups(r), UNCHANGED req
    PROVE  \E m, landed, ok :
              /\ Goes(r, "admin", m) /\ KeepsWalk(m, mem[r]) /\ m.page = mem[r].page
              /\ landed \in BOOLEAN /\ ok \in BOOLEAN
              /\ m.landed = landed /\ m.lost = (mem[r].lost \/ ~landed \/ ~ok)
              /\ m.groups = ((IF landed THEN req[r].by.token ELSE {})
                                \cup (IF ok THEN NativeOf(req[r].by.sub) ELSE {}))
<1>1. Memory(mem[r]) /\ pc[r] = "groups" /\ req[r] \in Request /\ mem[r].kept = {}
      /\ req[r].op \in AssetWalks \cup Single
  BY DEF Shape, Locals, Labels, Fits, ReadGroups, At
<1>2. req[r].by \in Callers
  BY <1>1, RequestFields
<1>3. PICK landed \in BOOLEAN, ok \in BOOLEAN :
         Goto(r, "admin", [mem[r] EXCEPT
             !.landed = landed, !.lost = @ \/ ~landed \/ ~ok,
             !.groups = (IF landed THEN req[r].by ELSE Bare(req[r].by)).token
                 \cup (IF ok THEN NativeOf((IF landed THEN req[r].by ELSE Bare(req[r].by)).sub)
                        ELSE {})])
  BY Zenon DEF ReadGroups
<1>4. PICK G : G = ((IF landed THEN req[r].by ELSE Bare(req[r].by)).token
                     \cup (IF ok THEN NativeOf((IF landed THEN req[r].by ELSE Bare(req[r].by)).sub)
                           ELSE {}))
  OBVIOUS
<1>5. G = ((IF landed THEN req[r].by.token ELSE {})
             \cup (IF ok THEN NativeOf(req[r].by.sub) ELSE {}))
  <2>1. (IF landed THEN req[r].by ELSE Bare(req[r].by)).token
          = (IF landed THEN req[r].by.token ELSE {})
    BY <1>2, PrincipalFacts
  <2>2. (IF landed THEN req[r].by ELSE Bare(req[r].by)).sub = req[r].by.sub
    BY <1>2, PrincipalFacts
  <2> QED BY <1>4, <2>1, <2>2, Zenon
<1>6. G \subseteq Groups \cup UNION {p.token : p \in Callers}
  <2>1. NativeOf(req[r].by.sub) \subseteq Groups
    BY DEF NativeOf
  <2>2. req[r].by.token \subseteq UNION {p.token : p \in Callers}
    BY <1>2, PrincipalFacts
  <2> QED BY <1>5, <2>1, <2>2
<1>7. PICK lost : lost = (mem[r].lost \/ ~landed \/ ~ok)
  OBVIOUS
<1>8. PICK m : m = [mem[r] EXCEPT !.landed = landed, !.lost = lost, !.groups = G]
  OBVIOUS
<1>9. Goto(r, "admin", m)
  BY <1>3, <1>4, <1>7, <1>8
<1>10. Memory(m) /\ KeepsWalk(m, mem[r]) /\ m.page = mem[r].page /\ m.kept = {}
       /\ m.landed = landed /\ m.lost = lost /\ m.groups = G
  BY <1>1, <1>6, <1>8 DEF Memory, KeepsWalk
<1>11. m.turn >= mem[r].turn
  BY <1>1, <1>10 DEF Memory, KeepsWalk
<1>12. Goes(r, "admin", m)
  BY <1>1, <1>9, <1>10, <1>11 DEF Goes, Fits, Working
<1> QED BY <1>5, <1>7, <1>10, <1>12

LEMMA ReadAdminGoes ==
    ASSUME Shape, NEW r \in Requests, ReadAdmin(r), UNCHANGED req
    PROVE  \E label, m, ok :
              /\ Goes(r, label, m) /\ KeepsWalk(m, mem[r]) /\ m.page = mem[r].page
              /\ label \in (IF req[r].op \in AssetWalks THEN {"page", "auth_degraded"}
                            ELSE {"verdict"})
              /\ ok \in BOOLEAN /\ m.landed = mem[r].landed /\ m.groups = mem[r].groups
              /\ m.bypass = (ok /\ Admins \in NativeOf(req[r].by.sub))
              /\ m.lost = (mem[r].lost \/ ~ok)
<1>1. Memory(mem[r]) /\ pc[r] = "admin" /\ req[r] \in Request /\ mem[r].kept = {}
      /\ req[r].op \in AssetWalks \cup Single
  BY DEF Shape, Locals, Labels, Fits, ReadAdmin, At
<1>2. PICK label : label = IF req[r].op \notin AssetWalks THEN "verdict"
                           ELSE IF Degraded(req[r].by, mem[r].landed) /\ mem[r].groups = {}
                           THEN "auth_degraded" ELSE "page"
  OBVIOUS
<1>3. PICK ok \in BOOLEAN :
         Goto(r, label, [mem[r] EXCEPT !.bypass = ok /\ Admins \in NativeOf(req[r].by.sub),
                                       !.lost = @ \/ ~ok])
  BY <1>2, Zenon DEF ReadAdmin
<1>4. PICK bypass, lost : bypass = (ok /\ Admins \in NativeOf(req[r].by.sub))
                          /\ lost = (mem[r].lost \/ ~ok)
  OBVIOUS
<1>5. PICK m : m = [mem[r] EXCEPT !.bypass = bypass, !.lost = lost]
  OBVIOUS
<1>6. Goto(r, label, m)
  BY <1>3, <1>4, <1>5
<1>7. Memory(m) /\ KeepsWalk(m, mem[r]) /\ m.page = mem[r].page /\ m.kept = {}
      /\ m.landed = mem[r].landed /\ m.groups = mem[r].groups
      /\ m.bypass = bypass /\ m.lost = lost
  BY <1>1, <1>5 DEF Memory, KeepsWalk
<1>8. m.turn >= mem[r].turn
  BY <1>1, <1>7 DEF Memory, KeepsWalk
<1>9. label \in (IF req[r].op \in AssetWalks THEN {"page", "auth_degraded"} ELSE {"verdict"})
  BY <1>2
<1>10. Goes(r, label, m)
  BY <1>1, <1>6, <1>7, <1>8, <1>9 DEF Goes, Fits, Working, Answers
<1> QED BY <1>4, <1>7, <1>9, <1>10

LEMMA ReadPageGoes ==
    ASSUME Shape, NEW r \in Requests, ReadPage(r), UNCHANGED req
    PROVE  \E p, ids, label, m :
              /\ Goes(r, label, m) /\ KeepsCaller(m, mem[r])
              /\ m.shown = mem[r].shown /\ m.turn = mem[r].turn
              /\ p \in Pages(r) /\ ids = {IdOf(x) : x \in p.rows} /\ m.cursor = p.next
              /\ m.passed = IF p.next = NoCursor THEN mem[r].passed
                            ELSE mem[r].passed \cup {IdOf(p.next)}
              /\ label = IF req[r].op \in AssetWalks THEN "filter" ELSE "send"
              /\ m.page = IF req[r].op \in AssetWalks THEN {Row(a) : a \in ids}
                          ELSE {[id |-> i] : i \in ids}
              /\ req[r].op \notin AssetWalks => m.kept = m.page
<1>1. Memory(mem[r]) /\ pc[r] = "page" /\ req[r] \in Request /\ mem[r].kept = {}
      /\ req[r].op \in AssetWalks \cup {"collections", "trail"}
  BY DEF Shape, Locals, Labels, Fits, ReadPage, At
<1>2. PICK p \in Pages(r) :
         LET ids == {IdOf(x) : x \in p.rows}
             m == [mem[r] EXCEPT !.cursor = p.next,
                       !.passed = IF p.next = NoCursor THEN @ ELSE @ \cup {IdOf(p.next)}] IN
         IF req[r].op \in AssetWalks
         THEN Goto(r, "filter", [m EXCEPT !.page = {Row(a) : a \in ids}])
         ELSE Goto(r, "send", [m EXCEPT !.page = {[id |-> i] : i \in ids},
                                        !.kept = {[id |-> i] : i \in ids}])
  BY Zenon DEF ReadPage
<1>3. PICK ids : ids = {IdOf(x) : x \in p.rows}
  OBVIOUS
<1>4. PICK passed : passed = IF p.next = NoCursor THEN mem[r].passed
                             ELSE mem[r].passed \cup {IdOf(p.next)}
  OBVIOUS
<1>5. PICK n : n = [mem[r] EXCEPT !.cursor = p.next, !.passed = passed]
  OBVIOUS
<1>6. IF req[r].op \in AssetWalks
      THEN Goto(r, "filter", [n EXCEPT !.page = {Row(a) : a \in ids}])
      ELSE Goto(r, "send", [n EXCEPT !.page = {[id |-> i] : i \in ids},
                                     !.kept = {[id |-> i] : i \in ids}])
  <2>1. n = [mem[r] EXCEPT !.cursor = p.next,
                !.passed = IF p.next = NoCursor THEN @ ELSE @ \cup {IdOf(p.next)}]
    BY <1>4, <1>5
  <2> QED BY <1>2, <1>3, <2>1, Zenon
<1>7. /\ p.rows \subseteq Rest(r) /\ (\A x \in p.rows : IdOf(x) \in IdsOf(req[r]))
      /\ p.next # NoCursor => IdOf(p.next) \in IdsOf(req[r])
      /\ p.next \in Key /\ IsFiniteSet(Rest(r))
  BY <1>1, <1>2, PageFacts, RestFacts
<1>8. IdsOf(req[r]) \subseteq Ids
  BY DEF IdsOf, Ids
<1>9. IsFiniteSet(ids) /\ ids \subseteq IdsOf(req[r])
  <2>1. PICK f : f = [x \in p.rows |-> IdOf(x)]
    OBVIOUS
  <2>2. f \in Surjection(p.rows, ids)
    BY <1>3, <2>1 DEF Surjection
  <2>3. IsFiniteSet(p.rows)
    BY <1>7, FS_Subset
  <2> QED BY <1>3, <1>7, <2>2, <2>3, FS_Surjection
<1>10. /\ Memory(n) /\ KeepsCaller(n, mem[r]) /\ n.kept = {}
       /\ n.shown = mem[r].shown /\ n.turn = mem[r].turn
       /\ n.cursor = p.next /\ n.passed = passed
  <2>1. passed \subseteq Ids
    BY <1>1, <1>4, <1>7, <1>8 DEF Memory
  <2> QED BY <1>1, <1>5, <1>7, <2>1 DEF Memory, KeepsCaller
<1> DEFINE Loaded(m, page, kept) ==
              /\ Memory(m) /\ KeepsCaller(m, mem[r]) /\ m.page = page /\ m.kept = kept
              /\ m.shown = mem[r].shown /\ m.turn = mem[r].turn /\ m.turn >= mem[r].turn
              /\ m.cursor = p.next /\ m.passed = passed
<1>11. ASSUME NEW page, NEW kept, kept \subseteq page, IsFiniteSet(page),
              \A x, y \in page : x.id = y.id => x = y
       PROVE  Loaded([n EXCEPT !.page = page, !.kept = kept], page, kept)
  <2> PICK m : m = [n EXCEPT !.page = page, !.kept = kept]
    OBVIOUS
  <2>1. /\ Memory(m) /\ KeepsCaller(m, mem[r]) /\ m.page = page /\ m.kept = kept
        /\ m.shown = mem[r].shown /\ m.turn = mem[r].turn
        /\ m.cursor = p.next /\ m.passed = passed
    BY <1>10, <1>11 DEF Memory, KeepsCaller
  <2>2. m.turn >= mem[r].turn
    BY <1>1, <2>1 DEF Memory
  <2> QED BY <2>1, <2>2
<1> HIDE DEF Loaded
<1>12. CASE req[r].op \in AssetWalks
  <2>1. PICK page : page = {Row(a) : a \in ids}
    OBVIOUS
  <2>2. ids \subseteq Assets
    BY <1>9, <1>12 DEF IdsOf
  <2>3. IsFiniteSet(page)
    <3>1. PICK f : f = [a \in ids |-> Row(a)]
      OBVIOUS
    <3>2. f \in Surjection(ids, page)
      BY <2>1, <3>1 DEF Surjection
    <3> QED BY <1>9, <3>2, FS_Surjection
  <2>4. (\A x, y \in page : x.id = y.id => x = y) /\ Legible(page)
    <3>1. \A a \in ids : Row(a).id = a /\ Row(a).at = at[a] /\ at[a] \in Int
      <4>1. at \in [Assets -> 0..Now]
        BY DEF Shape, Tables
      <4> QED BY <2>2, <4>1, ReadsAssumption DEF Row
    <3>2. \A x \in page : x.id \in ids /\ x = Row(x.id)
      BY <2>1, <3>1
    <3>3. Legible(page)
      BY <2>2, <3>1, <3>2 DEF Legible
    <3> QED BY <3>2, <3>3, Zenon
  <2>5. PICK m : m = [n EXCEPT !.page = page]
    OBVIOUS
  <2>6. m = [n EXCEPT !.page = page, !.kept = {}]
    BY <1>10, <2>5 DEF Memory
  <2>7. Goto(r, "filter", m)
    BY <1>6, <1>12, <2>1, <2>5, Zenon
  <2>8. /\ Memory(m) /\ KeepsCaller(m, mem[r]) /\ m.page = page /\ m.kept = {}
        /\ m.shown = mem[r].shown /\ m.turn = mem[r].turn /\ m.turn >= mem[r].turn
        /\ m.cursor = p.next /\ m.passed = passed
    <3>1. {} \subseteq page
      OBVIOUS
    <3>2. Loaded([n EXCEPT !.page = page, !.kept = {}], page, {})
      BY <1>11, <2>3, <2>4, <3>1
    <3> QED BY <2>6, <3>2 DEF Loaded
  <2>9. Goes(r, "filter", m)
    BY <1>1, <1>12, <2>4, <2>7, <2>8 DEF Goes, Fits, Working
  <2> QED BY <1>2, <1>3, <1>4, <1>12, <2>1, <2>8, <2>9
<1>13. CASE req[r].op \notin AssetWalks
  <2>1. PICK page : page = {[id |-> i] : i \in ids}
    OBVIOUS
  <2>2. IsFiniteSet(page)
    <3>1. PICK f : f = [i \in ids |-> [id |-> i]]
      OBVIOUS
    <3>2. f \in Surjection(ids, page)
      BY <2>1, <3>1 DEF Surjection
    <3> QED BY <1>9, <3>2, FS_Surjection
  <2>3. \A x, y \in page : x.id = y.id => x = y
    BY <2>1
  <2>4. PICK m : m = [n EXCEPT !.page = page, !.kept = page]
    OBVIOUS
  <2>5. Goto(r, "send", m)
    BY <1>6, <1>13, <2>1, <2>4, Zenon
  <2>6. /\ Memory(m) /\ KeepsCaller(m, mem[r]) /\ m.page = page /\ m.kept = page
        /\ m.shown = mem[r].shown /\ m.turn = mem[r].turn /\ m.turn >= mem[r].turn
        /\ m.cursor = p.next /\ m.passed = passed
    <3>1. page \subseteq page
      OBVIOUS
    <3>2. Loaded([n EXCEPT !.page = page, !.kept = page], page, page)
      BY <1>11, <2>2, <2>3, <3>1
    <3> QED BY <2>4, <3>2 DEF Loaded
  <2>7. Goes(r, "send", m)
    BY <1>1, <1>13, <2>5, <2>6 DEF Goes, Fits, Working
  <2>8. /\ "send" = IF req[r].op \in AssetWalks THEN "filter" ELSE "send"
        /\ m.page = IF req[r].op \in AssetWalks THEN {Row(a) : a \in ids} ELSE {[id |-> i] : i \in ids}
        /\ m.kept = m.page
    BY <1>13, <2>1, <2>6
  <2> QED BY <1>2, <1>3, <1>4, <2>6, <2>7, <2>8, Zenon
<1> QED BY <1>12, <1>13

LEMMA FilterGoes ==
    ASSUME Shape, NEW r \in Requests, Filter(r), UNCHANGED req
    PROVE  \E label, m :
              /\ Goes(r, label, m) /\ KeepsWalk(m, mem[r]) /\ KeepsCaller(m, mem[r])
              /\ m.page = mem[r].page
              /\ \/ label = "log" /\ mem[r].bypass /\ m.kept = mem[r].page
                 \/ /\ label = "send" /\ m.kept = Visible(r)
                    /\ ~mem[r].bypass \/ \A x \in mem[r].page : ~Enforced(x)
<1>1. Memory(mem[r]) /\ pc[r] = "filter" /\ req[r] \in Request /\ req[r].op \in AssetWalks
  BY DEF Shape, Locals, Labels, Fits, Filter, At
<1>2. Visible(r) \subseteq mem[r].page
  BY DEF Visible, FilterBatched, FilterByPermission
<1>3. PICK log \in BOOLEAN : log <=> (mem[r].bypass /\ \E x \in mem[r].page : Enforced(x))
  BY Zenon
<1>4. PICK kept : kept = IF log THEN mem[r].page ELSE Visible(r)
  OBVIOUS
<1>5. PICK label : label = IF log THEN "log" ELSE "send"
  OBVIOUS
<1>6. PICK m : m = [mem[r] EXCEPT !.kept = kept]
  OBVIOUS
<1>7. Goto(r, label, m)
  BY <1>3, <1>4, <1>5, <1>6, Zenon DEF Filter
<1>8. Memory(m) /\ KeepsWalk(m, mem[r]) /\ KeepsCaller(m, mem[r]) /\ m.page = mem[r].page
      /\ m.kept = kept
  BY <1>1, <1>2, <1>4, <1>6 DEF Memory, KeepsWalk, KeepsCaller
<1>9. m.turn >= mem[r].turn
  BY <1>1, <1>8 DEF Memory, KeepsWalk
<1>10. Goes(r, label, m)
  BY <1>1, <1>5, <1>7, <1>8, <1>9 DEF Goes, Fits, Working
<1> QED BY <1>3, <1>4, <1>5, <1>8, <1>10, Zenon

\* A request that goes on with the memory it has.
LEMMA OnGoes ==
    ASSUME Shape, NEW r \in Requests, NEW label, On(r, label), label \in Working \cup Answers,
           Fits(label, req'[r].op),
           label \in {"groups", "admin", "page", "get"} => mem[r].kept = {},
           label = "get" => mem[r].page = {}, label = "filter" => Legible(mem[r].page)
    PROVE  Goes(r, label, mem[r])
<1>1. Memory(mem[r]) /\ mem[r].turn >= mem[r].turn
  BY DEF Shape, Locals, Memory
<1>2. Goto(r, label, mem[r])
  BY DEF On
<1> QED BY <1>1, <1>2 DEF Goes

LEMMA GrantedGoes ==
    ASSUME Shape, NEW r \in Requests, Granted(r), UNCHANGED req, req[r].op \in Single
    PROVE  Goes(r, IF req[r].op \in Writes THEN "write" ELSE "ok", mem[r])
<1>1. PICK label : label = IF req[r].op \in Writes THEN "write" ELSE "ok"
  OBVIOUS
<1>2. On(r, label)
  BY <1>1, Zenon DEF Granted
<1>3. label \in Working \cup Answers /\ Fits(label, req'[r].op)
      /\ label \notin {"groups", "admin", "page", "get", "filter"}
  BY <1>1 DEF Working, Answers, Fits, Single
<1>4. Goes(r, label, mem[r])
  BY <1>2, <1>3, OnGoes
<1> QED BY <1>1, <1>4

LEMMA LogGoes ==
    ASSUME Shape, NEW r \in Requests, Log(r), UNCHANGED req
    PROVE  /\ req[r].op \in AssetWalks \cup Single
           /\ bypasses' = bypasses \cup {<<r, mem[r].turn>>}
           /\ Goes(r, IF req[r].op \in AssetWalks THEN "send"
                      ELSE IF req[r].op \in Writes THEN "write" ELSE "ok", mem[r])
<1>1. pc[r] = "log" /\ req[r].op \in AssetWalks \cup Single
  BY DEF Shape, Locals, Labels, Fits, Log, At
<1>2. CASE req[r].op \in AssetWalks
  <2>1. On(r, "send")
    BY <1>2, Zenon DEF Log
  <2>2. Fits("send", req'[r].op)
    BY <1>2 DEF Fits, Log
  <2>3. Goes(r, "send", mem[r])
    BY <2>1, <2>2, OnGoes DEF Working
  <2> QED BY <1>1, <1>2, <2>3 DEF Log
<1>3. CASE req[r].op \notin AssetWalks
  <2>1. Granted(r)
    BY <1>3, Zenon DEF Log
  <2>2. Goes(r, IF req[r].op \in Writes THEN "write" ELSE "ok", mem[r])
    BY <1>1, <1>3, <2>1, GrantedGoes
  <2> QED BY <1>1, <1>3, <2>2 DEF Log
<1> QED BY <1>2, <1>3

\* An id is shown at most once more with each page.
LEMMA ShownFacts ==
    ASSUME Shape, NEW r \in Requests
    PROVE  /\ Shown(r) \in [Ids -> Nat]
           /\ \A i \in Ids : Shown(r)[i] = mem[r].shown[i]
                                 + (IF \E x \in mem[r].kept : x.id = i THEN 1 ELSE 0)
<1>1. Memory(mem[r])
  BY DEF Shape, Locals
<1>2. ASSUME NEW i \in Ids
      PROVE  Cardinality({x \in mem[r].kept : x.id = i})
                 = (IF \E x \in mem[r].kept : x.id = i THEN 1 ELSE 0)
  <2>1. CASE \E x \in mem[r].kept : x.id = i
    <3>1. PICK x \in mem[r].kept : x.id = i
      BY <2>1
    <3>2. {y \in mem[r].kept : y.id = i} = {x}
      BY <1>1, <3>1 DEF Memory
    <3>3. Cardinality({x}) = 1
      BY FS_Singleton
    <3> QED BY <2>1, <3>2, <3>3, Zenon
  <2>2. CASE ~\E x \in mem[r].kept : x.id = i
    <3>1. {y \in mem[r].kept : y.id = i} = {}
      BY <2>2
    <3>2. Cardinality({}) = 0
      BY FS_EmptySet
    <3> QED BY <2>2, <3>1, <3>2, Zenon
  <2> QED BY <2>1, <2>2
<1>3. mem[r].shown \in [Ids -> Nat]
  BY <1>1 DEF Memory
<1> DEFINE more(i) == Cardinality({x \in mem[r].kept : x.id = i})
<1>4. Shown(r) = [i \in Ids |-> mem[r].shown[i] + more(i)]
  BY DEF Shown
<1>5. \A i \in Ids : more(i) = (IF \E x \in mem[r].kept : x.id = i THEN 1 ELSE 0)
  BY <1>2
<1> HIDE DEF more
<1> QED BY <1>3, <1>4, <1>5

LEMMA SendGoes ==
    ASSUME Shape, NEW r \in Requests, Send(r), UNCHANGED req
    PROVE  \/ mem[r].cursor = NoCursor /\ Goes(r, "ok", mem[r])
           \/ /\ mem[r].cursor # NoCursor
              /\ \E label, m :
                    /\ Goes(r, label, m)
                    /\ label = IF req[r].op \in AssetWalks THEN "groups" ELSE "page"
                    /\ m = [NoMemory EXCEPT !.shown = Shown(r), !.turn = mem[r].turn + 1,
                              !.cursor = mem[r].cursor, !.passed = mem[r].passed,
                              !.lost = mem[r].lost]
                    /\ m.shown = Shown(r) /\ m.turn = mem[r].turn + 1 /\ m.kept = {}
                    /\ m.cursor = mem[r].cursor /\ m.passed = mem[r].passed
                    /\ m.lost = mem[r].lost
<1>1. Memory(mem[r]) /\ pc[r] = "send" /\ req[r] \in Request
      /\ req[r].op \in AssetWalks \cup {"collections", "trail"}
  BY DEF Shape, Locals, Labels, Fits, Send, At
<1>2. CASE mem[r].cursor = NoCursor
  <2>1. On(r, "ok")
    BY <1>2, Zenon DEF Send
  <2>2. Fits("ok", req'[r].op)
    BY DEF Fits
  <2>3. Goes(r, "ok", mem[r])
    BY <2>1, <2>2, OnGoes DEF Answers
  <2> QED BY <1>2, <2>3
<1>3. CASE mem[r].cursor # NoCursor
  <2>1. PICK label : label = IF req[r].op \in AssetWalks THEN "groups" ELSE "page"
    OBVIOUS
  <2>2. PICK m : m = [NoMemory EXCEPT !.shown = Shown(r), !.turn = mem[r].turn + 1,
                              !.cursor = mem[r].cursor, !.passed = mem[r].passed,
                              !.lost = mem[r].lost]
    OBVIOUS
  <2>3. Goto(r, label, m)
    BY <1>3, <2>1, <2>2, Zenon DEF Send
  <2>4. \A i \in Ids : Shown(r)[i] \in Nat /\ Shown(r)[i] <= mem[r].turn + 1
    BY <1>1, ShownFacts DEF Memory
  <2>5. Memory(m) /\ m.shown = Shown(r) /\ m.turn = mem[r].turn + 1 /\ m.kept = {}
        /\ m.cursor = mem[r].cursor /\ m.passed = mem[r].passed /\ m.lost = mem[r].lost
    <3>1. PICK z : z = NoMemory
      OBVIOUS
    <3>2. Memory(z) /\ z.kept = {}
      BY <3>1, NoMemoryIsMemory DEF Memory
    <3>3. PICK shown, turn : shown = Shown(r) /\ turn = mem[r].turn + 1
      OBVIOUS
    <3>4. m = [z EXCEPT !.shown = shown, !.turn = turn, !.cursor = mem[r].cursor,
                        !.passed = mem[r].passed, !.lost = mem[r].lost]
      BY <2>2, <3>1, <3>3
    <3>5. shown \in [Ids -> Nat] /\ turn \in Nat /\ \A i \in Ids : shown[i] <= turn
      BY <1>1, <2>4, <3>3, ShownFacts DEF Memory
    <3>6. /\ Memory(m) /\ m.shown = shown /\ m.turn = turn /\ m.kept = {}
          /\ m.cursor = mem[r].cursor /\ m.passed = mem[r].passed /\ m.lost = mem[r].lost
      BY <1>1, <3>2, <3>4, <3>5 DEF Memory
    <3> QED BY <3>3, <3>6
  <2>6. m.turn >= mem[r].turn
    BY <1>1, <2>5 DEF Memory
  <2>7. Goes(r, label, m)
    BY <1>1, <2>1, <2>3, <2>5, <2>6 DEF Goes, Fits, Working
  <2> QED BY <1>3, <2>1, <2>2, <2>5, <2>7
<1> QED BY <1>2, <1>3

LEMMA GetGoes ==
    ASSUME Shape, NEW r \in Requests, Get(r), UNCHANGED req
    PROVE  \E label, m :
              /\ Goes(r, label, m) /\ KeepsWalk(m, mem[r]) /\ KeepsCaller(m, mem[r])
              /\ \/ label = "notfound"
                 \/ /\ label = "groups" /\ Enforced(Row(req[r].asset))
                    /\ m.page = {Row(req[r].asset)}
                 \/ /\ label = (IF req[r].op \in Writes THEN "write" ELSE "ok")
                    /\ ~Enforced(Row(req[r].asset)) /\ m.page = {}
<1>1. Memory(mem[r]) /\ pc[r] = "get" /\ req[r] \in Request /\ mem[r].kept = {}
      /\ req[r].op \in Single /\ mem[r].page = {}
  BY DEF Shape, Locals, Labels, Fits, Get, At
<1> DEFINE x == Row(req[r].asset)
<1>2. CASE ~Live(req[r].asset)
  <2>1. On(r, "notfound")
    BY <1>2, Zenon DEF Get
  <2>2. Goes(r, "notfound", mem[r])
    BY <2>1, OnGoes DEF Answers, Fits
  <2> QED BY <2>2, Zenon DEF KeepsWalk, KeepsCaller
<1>3. CASE Live(req[r].asset) /\ Enforced(x)
  <2>1. PICK page : page = {x}
    OBVIOUS
  <2>2. PICK m : m = [mem[r] EXCEPT !.page = page]
    OBVIOUS
  <2>3. Goto(r, "groups", m)
    BY <1>3, <2>1, <2>2, Zenon DEF Get
  <2>4. IsFiniteSet(page) /\ \A y, z \in page : y.id = z.id => y = z
    BY <2>1, FS_Singleton
  <2>5. Memory(m) /\ KeepsWalk(m, mem[r]) /\ KeepsCaller(m, mem[r]) /\ m.page = page /\ m.kept = {}
    BY <1>1, <2>2, <2>4 DEF Memory, KeepsWalk, KeepsCaller
  <2>6. m.turn >= mem[r].turn
    BY <1>1, <2>5 DEF Memory, KeepsWalk
  <2>7. Goes(r, "groups", m)
    BY <1>1, <2>3, <2>5, <2>6 DEF Goes, Fits, Working
  <2> QED BY <1>3, <2>1, <2>5, <2>7
<1>4. CASE Live(req[r].asset) /\ ~Enforced(x)
  <2>1. Granted(r)
    BY <1>4, Zenon DEF Get
  <2>2. Goes(r, IF req[r].op \in Writes THEN "write" ELSE "ok", mem[r])
    BY <1>1, <2>1, GrantedGoes
  <2> QED BY <1>1, <1>4, <2>2, Zenon DEF KeepsWalk, KeepsCaller
<1> QED BY <1>2, <1>3, <1>4

LEMMA VerdictGoes ==
    ASSUME Shape, NEW r \in Requests, Verdict(r), UNCHANGED req
    PROVE  /\ req[r].op \in Single
           /\ \E label :
                /\ Goes(r, label, mem[r])
                /\ \/ label = "log" /\ mem[r].bypass
                   \/ label = "forbidden"
                   \/ /\ label = (IF req[r].op \in Writes THEN "write" ELSE "ok")
                      /\ \A x \in mem[r].page :
                            CheckPermission(Principal(r), mem[r].groups, ActionOf(req[r].op), x)
<1>1. Memory(mem[r]) /\ pc[r] = "verdict" /\ req[r] \in Request /\ req[r].op \in Single
  BY DEF Shape, Locals, Labels, Fits, Verdict, At
<1> DEFINE allowed == \A x \in mem[r].page :
                CheckPermission(Principal(r), mem[r].groups, ActionOf(req[r].op), x)
<1>2. CASE mem[r].bypass
  <2>1. On(r, "log")
    BY <1>2, Zenon DEF Verdict
  <2>2. Fits("log", req'[r].op)
    BY <1>1 DEF Fits
  <2>3. Goes(r, "log", mem[r])
    BY <2>1, <2>2, OnGoes DEF Working
  <2> QED BY <1>1, <1>2, <2>3
<1>3. CASE ~mem[r].bypass /\ allowed
  <2>1. Granted(r)
    BY <1>3, Zenon DEF Verdict
  <2>2. Goes(r, IF req[r].op \in Writes THEN "write" ELSE "ok", mem[r])
    BY <1>1, <2>1, GrantedGoes
  <2> QED BY <1>1, <1>3, <2>2, Zenon
<1>4. CASE ~mem[r].bypass /\ ~allowed
  <2>1. On(r, "forbidden")
    BY <1>4, Zenon DEF Verdict
  <2>2. Goes(r, "forbidden", mem[r])
    BY <2>1, OnGoes DEF Answers, Fits
  <2> QED BY <1>1, <2>2
<1> QED BY <1>2, <1>3, <1>4

LEMMA WriteGoes ==
    ASSUME Shape, NEW r \in Requests, Write(r), UNCHANGED req
    PROVE  /\ \E label \in {"ok", "notfound"} : Goes(r, label, mem[r])
           /\ row' \in [Assets -> {"live", "deleted"}]
           /\ \A a \in Assets : row[a] = "deleted" => row'[a] = "deleted"
           /\ at' \in [Assets -> 0..Now] /\ ctx' \in [Assets -> Contexts]
           /\ UNCHANGED <<born, native, colls, trail, bypasses>>
<1>1. Memory(mem[r]) /\ pc[r] = "write" /\ req[r] \in Request
      /\ req[r].op \in Writes \cup {"setAuth"}
  BY DEF Shape, Locals, Labels, Fits, Write, At
<1>2. req[r].asset \in Assets /\ (req[r].op = "setAuth" => req[r].ctx \in Contexts)
  BY <1>1, RequestFields DEF Single
<1>3. /\ row \in [Assets -> {"live", "deleted"}] /\ at \in [Assets -> 0..Now]
      /\ ctx \in [Assets -> Contexts]
  BY DEF Shape, Tables
<1> DEFINE a == req[r].asset
<1>4. CASE ~Live(a)
  <2>1. On(r, "notfound") /\ Reading
    BY <1>4, Zenon DEF Write
  <2>2. Goes(r, "notfound", mem[r])
    BY <2>1, OnGoes DEF Answers, Fits
  <2> QED BY <1>3, <2>1, <2>2 DEF Reading, tables
<1>5. CASE Live(a)
  <2>1. /\ On(r, "ok")
        /\ IF req[r].op = "delete"
           THEN row' = [row EXCEPT ![a] = "deleted"] /\ UNCHANGED at
           ELSE (\E t \in {Now, Now - 1} : at' = [at EXCEPT ![a] = t]) /\ UNCHANGED row
        /\ ctx' = IF req[r].op = "setAuth" THEN [ctx EXCEPT ![a] = req[r].ctx] ELSE ctx
        /\ UNCHANGED <<born, native, colls, trail, bypasses>>
    BY <1>5, Zenon DEF Write
  <2>2. Goes(r, "ok", mem[r])
    BY <2>1, OnGoes DEF Answers, Fits
  <2>3. ctx' \in [Assets -> Contexts]
    BY <1>2, <1>3, <2>1
  <2>4. row' \in [Assets -> {"live", "deleted"}]
        /\ \A b \in Assets : row[b] = "deleted" => row'[b] = "deleted"
    BY <1>2, <1>3, <2>1
  <2>5. at' \in [Assets -> 0..Now]
    <3>1. Now \in 0..Now /\ Now - 1 \in 0..Now
      BY ReadsAssumption
    <3> QED BY <1>2, <1>3, <2>1, <3>1
  <2> QED BY <2>1, <2>2, <2>3, <2>4, <2>5
<1> QED BY <1>4, <1>5

LEMMA FailGoes ==
    ASSUME Shape, NEW r \in Requests, Fail(r), UNCHANGED req
    PROVE  Goes(r, "failed", mem[r])
BY OnGoes DEF Fail, Answers, Fits

\* Where a request begins.
FirstLabel(q) == CASE q.op \in AssetWalks -> "groups"
                   [] q.op \in {"collections", "trail"} -> "page"
                   [] q.op = "setAuth" -> "write"
                   [] OTHER -> "get"

LEMMA ArriveGoes ==
    ASSUME Shape, NEW r \in Requests, Arrive(r)
    PROVE  \E q, label, m :
              /\ q \in Request /\ req' = [req EXCEPT ![r] = q] /\ Goes(r, label, m)
              /\ label = FirstLabel(q)
              /\ m = [NoMemory EXCEPT !.turn = 1] /\ m.turn = 1
              /\ m.page = {} /\ m.kept = {} /\ m.cursor = NoCursor /\ m.passed = {}
              /\ m.shown = [i \in Ids |-> 0] /\ m.lost = FALSE
<1>1. pc[r] = "idle" /\ mem[r] = NoMemory
      /\ req \in [Requests -> Request \cup {NoRequest}]
  BY DEF Shape, Locals, Labels, Arrive, At
<1>2. PICK q \in Request :
          /\ req' = [req EXCEPT ![r] = q]
          /\ Goto(r, CASE q.op \in AssetWalks -> "groups"
                      [] q.op \in {"collections", "trail"} -> "page"
                      [] q.op = "setAuth" -> "write"
                      [] OTHER -> "get",
                  [NoMemory EXCEPT !.turn = 1])
  BY Zenon DEF Arrive
<1>3. PICK label : label = FirstLabel(q)
  OBVIOUS
<1>4. PICK m : m = [NoMemory EXCEPT !.turn = 1]
  OBVIOUS
<1>5. Goto(r, label, m)
  BY <1>2, <1>3, <1>4, Zenon DEF FirstLabel
<1>6. Memory(m) /\ m.turn = 1 /\ m.page = {} /\ m.kept = {} /\ m.cursor = NoCursor /\ m.passed = {}
      /\ m.shown = [i \in Ids |-> 0] /\ m.lost = FALSE
  <2>1. Memory(m)
    BY <1>4, NoMemoryIsMemory
  <2>2. PICK z : z = NoMemory
    OBVIOUS
  <2>3. Memory(z) /\ z.page = {} /\ z.kept = {} /\ z.cursor = NoCursor /\ z.passed = {}
        /\ z.shown = [i \in Ids |-> 0] /\ z.lost = FALSE
    BY <2>2, NoMemoryIsMemory DEF NoMemory
  <2>4. m = [z EXCEPT !.turn = 1]
    BY <1>4, <2>2
  <2>5. m.turn = 1 /\ m.page = z.page /\ m.kept = z.kept /\ m.cursor = z.cursor
        /\ m.passed = z.passed /\ m.shown = z.shown /\ m.lost = z.lost
    BY <2>3, <2>4 DEF Memory
  <2> QED BY <2>1, <2>3, <2>5
<1>7. m.turn >= mem[r].turn
  BY <1>1, <1>6, NoMemoryIsMemory
<1>8. label \in {"groups", "page", "write", "get"} /\ Fits(label, q.op)
  <2>1. q.op \in AssetWalks \cup Single \cup {"collections", "trail", "setAuth"}
    BY RequestFields
  <2> QED BY <1>3, <2>1 DEF FirstLabel, Fits, AssetWalks, Single, Writes
<1>9. req'[r] = q
  BY <1>1, <1>2
<1>10. Goes(r, label, m)
  BY <1>5, <1>6, <1>7, <1>8, <1>9 DEF Goes, Working
<1> QED BY <1>2, <1>3, <1>4, <1>6, <1>10

-----------------------------------------------------------------------------
(* Type correctness.                                                         *)

\* What a request does in one step, without the history.
Moves(r) ==
    \/ Arrive(r) /\ UNCHANGED events
    \/ Step(r) /\ UNCHANGED req
    \/ Fail(r) /\ UNCHANGED <<req, events>>

LEMMA CountsFacts ==
    ASSUME events \in 0..MaxEvents, NEW happens \in BOOLEAN, Counts(happens)
    PROVE  events' \in 0..MaxEvents
BY ReadsAssumption DEF Counts

\* A step of one request, whichever it is.
LEMMA StepGoes ==
    ASSUME Shape, NEW r \in Requests, Step(r), UNCHANGED req
    PROVE  \E label, m : Goes(r, label, m)
<1>1. CASE ReadGroups(r)
  BY <1>1, ReadGroupsGoes
<1>2. CASE ReadAdmin(r)
  BY <1>2, ReadAdminGoes
<1>3. CASE ReadPage(r)
  BY <1>3, ReadPageGoes
<1>4. CASE Filter(r)
  BY <1>4, FilterGoes
<1>5. CASE Log(r)
  BY <1>5, LogGoes
<1>6. CASE Send(r)
  BY <1>6, SendGoes
<1>7. CASE Get(r)
  BY <1>7, GetGoes
<1>8. CASE Verdict(r)
  BY <1>8, VerdictGoes
<1>9. CASE Write(r)
  BY <1>9, WriteGoes
<1> QED BY <1>1, <1>2, <1>3, <1>4, <1>5, <1>6, <1>7, <1>8, <1>9 DEF Step

\* The tables under a step: only a write changes assets, only Log the bypasses.
LEMMA StepTables ==
    ASSUME Shape, NEW r \in Requests, Moves(r)
    PROVE  /\ row' \in [Assets -> {"live", "deleted"}]
           /\ \A a \in Assets : row[a] = "deleted" => row'[a] = "deleted"
           /\ at' \in [Assets -> 0..Now] /\ ctx' \in [Assets -> Contexts]
           /\ UNCHANGED <<born, native, colls, trail>>
           /\ bypasses \subseteq bypasses' /\ bypasses' \subseteq bypasses \cup {<<r, mem[r].turn>>}
           /\ events' \in 0..MaxEvents
<1> DEFINE Goal == /\ row' \in [Assets -> {"live", "deleted"}]
                   /\ \A a \in Assets : row[a] = "deleted" => row'[a] = "deleted"
                   /\ at' \in [Assets -> 0..Now] /\ ctx' \in [Assets -> Contexts]
                   /\ UNCHANGED <<born, native, colls, trail>>
                   /\ bypasses \subseteq bypasses'
                   /\ bypasses' \subseteq bypasses \cup {<<r, mem[r].turn>>}
<1>0. /\ row \in [Assets -> {"live", "deleted"}] /\ at \in [Assets -> 0..Now]
      /\ ctx \in [Assets -> Contexts] /\ events \in 0..MaxEvents
  BY DEF Shape, Tables
<1>1. ASSUME Reading PROVE Goal
  BY <1>0, <1>1 DEF Reading, tables
<1>2. ASSUME Log(r) PROVE Goal
  BY <1>0, <1>2 DEF Log
<1>3. ASSUME Write(r), UNCHANGED req PROVE Goal
  BY <1>3, WriteGoes
<1>4. ASSUME ReadGroups(r) PROVE events' \in 0..MaxEvents /\ Reading
  <2>1. PICK landed \in BOOLEAN, ok \in BOOLEAN : Counts(~landed \/ ~ok)
    BY <1>4, Zenon DEF ReadGroups
  <2> QED BY <1>0, <1>4, <2>1, CountsFacts DEF ReadGroups
<1>5. ASSUME ReadAdmin(r) PROVE events' \in 0..MaxEvents /\ Reading
  <2>1. PICK ok \in BOOLEAN : Counts(~ok)
    BY <1>5, Zenon DEF ReadAdmin
  <2> QED BY <1>0, <1>5, <2>1, CountsFacts DEF ReadAdmin
<1>6. CASE Arrive(r) /\ UNCHANGED events
  BY <1>0, <1>1, <1>6 DEF Arrive
<1>7. CASE Fail(r) /\ UNCHANGED <<req, events>>
  BY <1>0, <1>1, <1>7 DEF Fail
<1>8. CASE Step(r) /\ UNCHANGED req
  <2>1. \/ ReadGroups(r) \/ ReadAdmin(r)
        \/ UNCHANGED events /\ (Reading \/ Log(r) \/ Write(r))
    BY <1>8, Zenon DEF Step, ReadPage, Filter, Send, Get, Verdict
  <2> QED BY <1>0, <1>1, <1>2, <1>3, <1>4, <1>5, <1>8, <2>1
<1> QED BY <1>6, <1>7, <1>8 DEF Moves

LEMMA MoveFacts ==
    ASSUME Shape, NEW r \in Requests, Moves(r)
    PROVE  /\ \E label, m : Goes(r, label, m)
           /\ req' \in [Requests -> Request \cup {NoRequest}] /\ req'[r] \in Request
           /\ \A x \in Requests \ {r} : req'[x] = req[x]
<1>0. req \in [Requests -> Request \cup {NoRequest}] /\ (pc[r] # "idle" => req[r] \in Request)
  BY DEF Shape, Locals, Labels
<1>1. CASE Arrive(r) /\ UNCHANGED events
  BY <1>0, <1>1, ArriveGoes
<1>2. CASE Step(r) /\ UNCHANGED req
  <2>1. pc[r] # "idle"
    BY <1>2 DEF Step, At, ReadGroups, ReadAdmin, ReadPage, Filter, Log, Send, Get, Verdict, Write
  <2> QED BY <1>0, <1>2, <2>1, StepGoes
<1>3. CASE Fail(r) /\ UNCHANGED <<req, events>>
  <2>1. pc[r] # "idle"
    BY <1>3 DEF Fail, Working
  <2> QED BY <1>0, <1>3, <2>1, FailGoes
<1> QED BY <1>1, <1>2, <1>3 DEF Moves

LEMMA MovesShape ==
    ASSUME Shape, NEW r \in Requests, Moves(r), UNCHANGED backend
    PROVE  Tables' /\ Locals'
<1>1. PICK label, m : Goes(r, label, m)
  BY MoveFacts
<1>2. Locals
  BY DEF Shape
<1>3. /\ pc'[r] = label /\ mem'[r] = (IF label \in Answers THEN [NoMemory EXCEPT !.turn = m.turn] ELSE m)
      /\ mem' = [x \in Requests |-> mem'[x]]
      /\ Memory(mem'[r]) /\ mem'[r].turn = m.turn
      /\ \A x \in Requests \ {r} : pc'[x] = pc[x] /\ mem'[x] = mem[x]
      /\ pc' \in [Requests -> {"idle"} \cup Working \cup Answers]
  BY <1>1, <1>2, GoesFacts
<1>4. /\ req' \in [Requests -> Request \cup {NoRequest}] /\ req'[r] \in Request
      /\ \A x \in Requests \ {r} : req'[x] = req[x]
  BY MoveFacts
<1>5. /\ label \in Working \cup Answers /\ Fits(label, req'[r].op) /\ m.turn >= mem[r].turn
      /\ label \in {"groups", "admin", "page", "get"} => m.kept = {}
      /\ label = "get" => m.page = {}
      /\ label = "filter" => Legible(m.page)
  BY <1>1 DEF Goes
<1>6. Labels(r)'
  <2>1. label # "idle" /\ (label \in Working => label \notin Answers)
    BY <1>5 DEF Working, Answers
  <2>2. label \in {"groups", "admin", "page", "get", "filter"} => mem'[r] = m
    BY <1>3, <2>1 DEF Working
  <2> QED BY <1>3, <1>4, <1>5, <2>1, <2>2 DEF Labels, Legible
<1>7. \A x \in Requests : Labels(x)' /\ Memory(mem'[x])
  <2>1. ASSUME NEW x \in Requests \ {r} PROVE Labels(x)' /\ Memory(mem'[x])
    <3>1. Labels(x) /\ Memory(mem[x]) /\ pc'[x] = pc[x] /\ mem'[x] = mem[x] /\ req'[x] = req[x]
      BY <1>2, <1>3, <1>4 DEF Locals
    <3> QED BY <3>1, Zenon DEF Labels
  <2> QED BY <1>3, <1>6, <2>1
<1>8. Locals'
  BY <1>3, <1>4, <1>7 DEF Locals
<1>9. Tables'
  <2>1. /\ row' \in [Assets -> {"live", "deleted"}]
        /\ at' \in [Assets -> 0..Now] /\ ctx' \in [Assets -> Contexts]
        /\ UNCHANGED <<born, native, colls, trail>>
        /\ bypasses' \subseteq bypasses \cup {<<r, mem[r].turn>>}
        /\ events' \in 0..MaxEvents
    BY StepTables
  <2>2. /\ backend \in Backends /\ born \in [Assets -> 0..Now]
        /\ native \subseteq Subs \X Groups
        /\ colls \subseteq Collections /\ trail \subseteq [id : TrailIds, at : 0..Now]
        /\ IsFiniteSet(trail)
        /\ bypasses \subseteq Requests \X Nat /\ \A b \in bypasses : b[2] <= mem[b[1]].turn
    BY DEF Shape, Tables
  <2>3. \A x \in Requests : mem[x].turn \in Nat /\ mem'[x].turn \in Nat
                            /\ mem[x].turn <= mem'[x].turn
    <3>1. \A x \in Requests : mem[x].turn \in Nat /\ mem'[x].turn \in Nat
      BY <1>2, <1>8 DEF Locals, Memory
    <3>2. ASSUME NEW x \in Requests PROVE mem[x].turn <= mem'[x].turn
      <4>1. CASE x = r
        BY <1>3, <1>5, <3>1, <4>1
      <4>2. CASE x # r
        BY <1>3, <3>1, <4>2
      <4> QED BY <4>1, <4>2
    <3> QED BY <3>1, <3>2
  <2>4. bypasses' \subseteq Requests \X Nat /\ \A b \in bypasses' : b[2] <= mem'[b[1]].turn
    <3>1. ASSUME NEW b \in bypasses' PROVE b \in Requests \X Nat /\ b[2] <= mem'[b[1]].turn
      <4>1. CASE b \in bypasses
        <5>1. b[1] \in Requests /\ b[2] \in Nat /\ b[2] <= mem[b[1]].turn
          BY <2>2, <4>1
        <5> QED BY <2>2, <2>3, <4>1, <5>1
      <4>2. CASE b = <<r, mem[r].turn>>
        BY <2>3, <4>2
      <4> QED BY <2>1, <4>1, <4>2
    <3> QED BY <3>1
  <2> QED BY <2>1, <2>2, <2>4 DEF Tables
<1> QED BY <1>8, <1>9

LEMMA EditShape ==
    ASSUME Shape, Edit, UNCHANGED backend
    PROVE  Tables' /\ Locals'
<1>1. /\ UNCHANGED <<row, born, at, ctx, bypasses, req, pc, mem>>
      /\ events' \in 0..MaxEvents
  BY CountsFacts DEF Edit, Shape, Tables
<1>2. Locals'
  BY <1>1, Zenon DEF Shape, Locals, Labels
<1>3. /\ native' \subseteq Subs \X Groups /\ colls' \subseteq Collections
      /\ trail' \subseteq [id : TrailIds, at : 0..Now] /\ IsFiniteSet(trail')
  <2>1. /\ native \subseteq Subs \X Groups /\ colls \subseteq Collections
        /\ trail \subseteq [id : TrailIds, at : 0..Now] /\ IsFiniteSet(trail)
    BY DEF Shape, Tables
  <2>2. CASE (\E m \in Subs \X Groups : native' = Toggled(native, m)) /\ UNCHANGED <<colls, trail>>
    BY <2>1, <2>2 DEF Toggled
  <2>3. CASE (\E c \in Collections : colls' = Toggled(colls, c)) /\ UNCHANGED <<native, trail>>
    BY <2>1, <2>3 DEF Toggled
  <2>4. CASE /\ \E i \in TrailIds \ {x.id : x \in trail} : trail' = trail \cup {[id |-> i, at |-> Now]}
             /\ UNCHANGED <<native, colls>>
    <3>1. PICK i \in TrailIds : trail' = trail \cup {[id |-> i, at |-> Now]}
      BY <2>4, Zenon
    <3>2. IsFiniteSet(trail')
      BY <2>1, <3>1, FS_AddElement
    <3>3. [id |-> i, at |-> Now] \in [id : TrailIds, at : 0..Now]
      BY ReadsAssumption
    <3> QED BY <2>1, <2>4, <3>1, <3>2, <3>3
  <2> QED BY <2>2, <2>3, <2>4 DEF Edit
<1>4. Tables'
  BY <1>1, <1>3, Zenon DEF Shape, Tables
<1> QED BY <1>2, <1>4

\* What Observe notes of one request.
Noted(r) ==
    /\ past'[r] = IF pc'[r] \notin Working THEN Seen(NoRequest)
                  ELSE [ctxs |-> past[r].ctxs \cup Seen(req[r])'.ctxs,
                        natives |-> past[r].natives \cup Seen(req[r])'.natives]
    /\ sure'[r] = IF Starts(r) THEN Shows(req[r], past[r].natives)'
                  ELSE IF pc'[r] \in Working
                  THEN (sure[r] \cap Shows(req[r], past[r].natives)') \ Moved(req[r]) ELSE {}
    /\ plain'[r] = IF Starts(r) THEN ShowsAnyone(req[r])'
                   ELSE IF pc'[r] \in Working
                   THEN (plain[r] \cap ShowsAnyone(req[r])') \ Moved(req[r]) ELSE {}

LEMMA ObserveNotes ==
    ASSUME Observe
    PROVE  /\ \A r \in Requests : Noted(r)
           /\ sure' = [r \in Requests |-> sure'[r]] /\ plain' = [r \in Requests |-> plain'[r]]
           /\ past' = [r \in Requests |-> past'[r]]
<1>1. /\ past' = [r \in Requests |->
             IF pc'[r] \notin Working THEN Seen(NoRequest)
             ELSE [ctxs |-> past[r].ctxs \cup Seen(req[r])'.ctxs,
                   natives |-> past[r].natives \cup Seen(req[r])'.natives]]
      /\ sure' = [r \in Requests |->
             IF Starts(r) THEN Shows(req[r], past[r].natives)'
             ELSE IF pc'[r] \in Working
             THEN (sure[r] \cap Shows(req[r], past[r].natives)') \ Moved(req[r]) ELSE {}]
      /\ plain' = [r \in Requests |->
             IF Starts(r) THEN ShowsAnyone(req[r])'
             ELSE IF pc'[r] \in Working
             THEN (plain[r] \cap ShowsAnyone(req[r])') \ Moved(req[r]) ELSE {}]
  BY Zenon DEF Observe
<1> QED BY <1>1, Zenon DEF Noted

\* What a walk has to show is ids.
ShowsAreIds ==
    \A r \in Requests :
        Shows(req[r], past[r].natives) \subseteq Ids /\ ShowsAnyone(req[r]) \subseteq Ids

LEMMA ShowsIds == Tables => ShowsAreIds
<1> SUFFICES ASSUME Tables PROVE ShowsAreIds
  OBVIOUS
<1>1. colls \subseteq Collections /\ trail \subseteq [id : TrailIds, at : 0..Now]
  BY DEF Tables
<1>2. {x.id : x \in trail} \subseteq Ids
  BY <1>1 DEF Ids
<1>3. \A q, N : Entitled(q, N) \cap Ordered(q) \subseteq Ids /\ Unconditional(q) \cap Ordered(q) \subseteq Ids
  BY DEF Entitled, Unconditional, Ids
<1>4. colls \subseteq Ids
  BY <1>1 DEF Ids
<1>5. \A q, N : Shows(q, N) \subseteq Ids /\ ShowsAnyone(q) \subseteq Ids
  BY <1>2, <1>3, <1>4 DEF Shows, ShowsAnyone
<1> QED BY <1>5, Zenon DEF ShowsAreIds

LEMMA ShowsIdsNext == Tables' => ShowsAreIds'
BY ShowsIds, PTL

LEMMA NextShape == Shape /\ [Next]_vars => Shape'
<1> SUFFICES ASSUME Shape, [Next]_vars PROVE Shape'
  OBVIOUS
<1>1. CASE UNCHANGED vars
  <2>1. /\ UNCHANGED <<backend, events, row, born, at, ctx, native, colls, trail, bypasses>>
        /\ UNCHANGED <<req, pc, mem, sure, plain>>
    BY <1>1 DEF vars, tables, history
  <2> QED BY <2>1, Zenon DEF Shape, Tables, Locals, Labels
<1>2. CASE Next
  <2>1. Tables' /\ Locals'
    <3>1. CASE Edit
      BY <1>2, <3>1, EditShape DEF Next
    <3>2. CASE \E r \in Requests : Moves(r)
      BY <1>2, <3>2, MovesShape DEF Next
    <3> QED BY <1>2, <3>1, <3>2, Zenon DEF Next, Moves
  <2>2. ShowsAreIds'
    BY <2>1, ShowsIdsNext
  <2>3. Observe
    BY <1>2 DEF Next
  <2>4. sure \in [Requests -> SUBSET Ids] /\ plain \in [Requests -> SUBSET Ids]
    BY DEF Shape
  <2>5. ASSUME NEW r \in Requests PROVE sure'[r] \subseteq Ids /\ plain'[r] \subseteq Ids
    <3>1. Noted(r)
      BY <2>3, ObserveNotes
    <3>2. Shows(req[r], past[r].natives)' \subseteq Ids /\ ShowsAnyone(req[r])' \subseteq Ids
      BY <2>2, Zenon DEF ShowsAreIds
    <3>3. sure[r] \subseteq Ids /\ plain[r] \subseteq Ids
      BY <2>4
    <3> QED BY <3>1, <3>2, <3>3 DEF Noted
  <2>6. sure' \in [Requests -> SUBSET Ids] /\ plain' \in [Requests -> SUBSET Ids]
    BY <2>3, <2>5, ObserveNotes
  <2> QED BY <2>1, <2>6, Zenon DEF Shape
<1> QED BY <1>1, <1>2

LEMMA InitShape == Init => Shape
<1> SUFFICES ASSUME Init PROVE Shape
  OBVIOUS
<1>1. Tables
  <2>1. /\ backend \in Backends /\ events \in 0..MaxEvents
        /\ row \in [Assets -> {"live", "deleted"}] /\ born \in Births /\ at = born
        /\ ctx \in Initially /\ native = {} /\ colls = Collections /\ trail = Trail
        /\ bypasses = {}
    BY ReadsAssumption DEF Init
  <2>2. born \in [Assets -> 0..Now]
    <3>1. born \in [Assets -> 0..(Now - 1)] /\ 0..(Now - 1) \subseteq 0..Now
      BY <2>1, ReadsAssumption
    <3> QED BY <3>1
  <2> QED BY <2>1, <2>2, ReadsAssumption DEF Tables
<1>2. Locals
  <2>1. /\ req = [r \in Requests |-> NoRequest] /\ pc = [r \in Requests |-> "idle"]
        /\ mem = [r \in Requests |-> NoMemory]
    BY DEF Init
  <2>2. \A r \in Requests : Labels(r)
    BY <2>1 DEF Labels, Fits
  <2>3. \A r \in Requests : Memory(mem[r])
    BY <2>1, NoMemoryIsMemory
  <2>4. mem = [r \in Requests |-> mem[r]]
    BY <2>1
  <2> QED BY <2>1, <2>2, <2>3, <2>4 DEF Locals
<1>3. sure \in [Requests -> SUBSET Ids] /\ plain \in [Requests -> SUBSET Ids]
  BY DEF Init
<1> QED BY <1>1, <1>2, <1>3 DEF Shape

\* The type invariant: among others, no walk shows an id more often than it has
\* answered pages, and no bypass is logged for a page that was not begun.
THEOREM TypeCorrect == Spec => []TypeOK
<1>1. Spec => []Shape
  BY InitShape, NextShape, PTL DEF Spec
<1> QED BY <1>1, ShapeTypes, PTL

-----------------------------------------------------------------------------
(* The bands of a search, and what is let through without a bypass.          *)

\* A verdict depends on nothing but the band of a row.
LEMMA BandDecides ==
    ASSUME NEW p, NEW G, NEW action, NEW x, NEW y, Band(x) = Band(y)
    PROVE  /\ Enforced(x) <=> Enforced(y)
           /\ Evaluate(p, G, action, x) <=> Evaluate(p, G, action, y)
<1>1. x.by = y.by /\ x.vis = y.vis /\ x.groups = y.groups /\ x.instance = y.instance
  BY DEF Band
<1> QED BY <1>1, Zenon DEF Enforced, Evaluate, Permitted, Barred, Created, InTeam

\* The first row of its band stands for a row.
LEMMA BatchedIsExact ==
    ASSUME NEW p, NEW G, NEW action, NEW rows, IsFiniteSet(rows), Legible(rows)
    PROVE  FilterBatched(p, G, action, rows) = FilterByPermission(p, G, action, rows)
<1>1. ASSUME NEW x \in rows, Enforced(x)
      PROVE  Evaluate(p, G, action, Represents(x, rows)) <=> Evaluate(p, G, action, x)
  <2>1. PICK B : B = {y \in rows : Enforced(y) /\ Band(y) = Band(x)}
    OBVIOUS
  <2>2. IsFiniteSet(B) /\ B # {} /\ \A y \in B : y.at \in Int /\ y.id \in Int
    <3>1. B \in SUBSET rows /\ x \in B
      BY <1>1, <2>1
    <3>2. Assets \subseteq Int
      BY ReadsAssumption
    <3> QED BY <3>1, <3>2, FS_Subset DEF Legible
  <2>3. PICK y \in B : \A z \in B : ~Newer(z, y)
    BY <2>2, NewestExists
  <2>4. \E z \in rows : /\ Enforced(z) /\ Band(z) = Band(x)
                        /\ \A w \in rows : Enforced(w) /\ Band(w) = Band(x) => ~Newer(w, z)
    BY <2>1, <2>3, Zenon
  <2>5. Band(Represents(x, rows)) = Band(x)
    BY <2>4, Zenon DEF Represents
  <2> QED BY <2>5, BandDecides
<1> QED BY <1>1, Zenon DEF FilterBatched, FilterByPermission, CheckPermission

\* Where a step of a request ends.
LEMMA EndsAt ==
    ASSUME Shape, NEW r \in Requests, NEW label, NEW m, Goes(r, label, m)
    PROVE  /\ pc'[r] = label /\ label \in Working \cup Answers
           /\ label \in Working => mem'[r] = m
           /\ \A x \in Requests \ {r} : pc'[x] = pc[x] /\ mem'[x] = mem[x]
<1>1. Locals
  BY DEF Shape
<1>2. label \in Working => label \notin Answers
  BY DEF Working, Answers
<1>3. label \in Working \cup Answers
  BY DEF Goes
<1>4. /\ pc'[r] = label
      /\ mem'[r] = IF label \in Answers THEN [NoMemory EXCEPT !.turn = m.turn] ELSE m
      /\ \A x \in Requests \ {r} : pc'[x] = pc[x] /\ mem'[x] = mem[x]
  BY <1>1, GoesFacts
<1> QED BY <1>2, <1>3, <1>4, Zenon

\* What the rows of a page or the asset to be written have passed.
Judged(r) ==
    /\ pc[r] = "send" /\ req[r].op \in AssetWalks /\ <<r, mem[r].turn>> \notin bypasses
       => mem[r].kept = FilterByPermission(Principal(r), mem[r].groups, "View", mem[r].page)
    /\ pc[r] = "write" /\ req[r].op \in Writes /\ <<r, mem[r].turn>> \notin bypasses
       => \A x \in mem[r].page :
              CheckPermission(Principal(r), mem[r].groups, ActionOf(req[r].op), x)

JudgedInv == Shape /\ \A r \in Requests : Judged(r)

LEMMA MovesJudged ==
    ASSUME Shape, NEW r \in Requests, Moves(r)
    PROVE  Judged(r)'
<1>0. bypasses \subseteq bypasses'
  BY StepTables
<1>1. CASE pc'[r] \notin {"send", "write"}
  BY <1>1, Zenon DEF Judged
<1>2. CASE Arrive(r) /\ UNCHANGED events
  <2>1. PICK q, label, m :
              /\ q \in Request /\ req' = [req EXCEPT ![r] = q] /\ Goes(r, label, m)
              /\ label = FirstLabel(q)
    BY <1>2, ArriveGoes
  <2>2. req'[r] = q /\ pc'[r] = FirstLabel(q)
    BY <2>1, EndsAt DEF Shape, Locals
  <2>3. q.op \in AssetWalks \cup Single \cup {"collections", "trail", "setAuth"}
    BY <2>1, RequestFields
  <2>4. pc'[r] # "send" /\ (pc'[r] = "write" => q.op \notin Writes)
    BY <2>2, <2>3 DEF FirstLabel, AssetWalks, Single, Writes
  <2> QED BY <2>2, <2>4 DEF Judged
<1>3. CASE ReadGroups(r) /\ UNCHANGED req
  <2>1. pc'[r] = "admin"
    BY <1>3, ReadGroupsGoes, EndsAt
  <2> QED BY <1>1, <2>1
<1>4. CASE ReadAdmin(r) /\ UNCHANGED req
  <2>1. pc'[r] \in {"page", "auth_degraded", "verdict"}
    BY <1>4, ReadAdminGoes, EndsAt
  <2> QED BY <1>1, <2>1
<1>5. CASE ReadPage(r) /\ UNCHANGED req
  <2>1. pc'[r] = IF req[r].op \in AssetWalks THEN "filter" ELSE "send"
    <3>1. PICK label, m : Goes(r, label, m)
                          /\ label = IF req[r].op \in AssetWalks THEN "filter" ELSE "send"
      BY <1>5, ReadPageGoes, Zenon
    <3> QED BY <3>1, EndsAt
  <2> QED BY <1>1, <1>5, <2>1 DEF Judged
<1>6. CASE Filter(r) /\ UNCHANGED req
  <2>1. PICK label, m :
              /\ Goes(r, label, m) /\ KeepsWalk(m, mem[r]) /\ KeepsCaller(m, mem[r])
              /\ m.page = mem[r].page
              /\ label = "log" \/ (label = "send" /\ m.kept = Visible(r))
    BY <1>6, FilterGoes
  <2>2. pc'[r] = label /\ mem'[r] = m
    BY <2>1, EndsAt DEF Working
  <2>3. Principal(r)' = Principal(r)
    BY <1>6, <2>1, <2>2, Zenon DEF Principal, KeepsCaller
  <2>4. Legible(mem[r].page) /\ IsFiniteSet(mem[r].page)
    BY <1>6 DEF Shape, Locals, Labels, Memory, Filter, At
  <2>5. Visible(r) = FilterByPermission(Principal(r), mem[r].groups, "View", mem[r].page)
    BY <2>4, BatchedIsExact, Zenon DEF Visible
  <2> QED BY <2>1, <2>2, <2>3, <2>5, Zenon DEF Judged, KeepsCaller
<1>7. CASE Log(r) /\ UNCHANGED req
  <2>1. bypasses' = bypasses \cup {<<r, mem[r].turn>>}
    BY <1>7, LogGoes
  <2>2. PICK label : Goes(r, label, mem[r]) /\ label \in {"send", "write", "ok"}
    BY <1>7, LogGoes
  <2>3. pc'[r] = label /\ (label # "ok" => mem'[r] = mem[r])
    BY <2>2, EndsAt DEF Working
  <2>4. CASE label = "ok"
    BY <1>1, <2>3, <2>4
  <2>5. CASE label # "ok"
    BY <2>1, <2>3, <2>5 DEF Judged
  <2> QED BY <2>4, <2>5
<1>8. CASE Send(r) /\ UNCHANGED req
  <2>1. pc'[r] \in {"ok", "groups", "page"}
    <3>1. PICK label, m : Goes(r, label, m) /\ label \in {"ok", "groups", "page"}
      BY <1>8, SendGoes
    <3> QED BY <3>1, EndsAt
  <2> QED BY <1>1, <2>1
<1>9. CASE Get(r) /\ UNCHANGED req
  <2>1. PICK label, m : Goes(r, label, m) /\ label \in {"notfound", "groups", "write", "ok"}
                        /\ (label = "write" => m.page = {})
    BY <1>9, GetGoes
  <2>2. pc'[r] = label /\ (label = "write" => mem'[r].page = {})
    BY <2>1, EndsAt DEF Working
  <2> QED BY <2>1, <2>2 DEF Judged
<1>10. CASE Verdict(r) /\ UNCHANGED req
  <2>1. PICK label :
            /\ Goes(r, label, mem[r]) /\ label \in {"log", "forbidden", "write", "ok"}
            /\ label = "write" => \A x \in mem[r].page :
                    CheckPermission(Principal(r), mem[r].groups, ActionOf(req[r].op), x)
    BY <1>10, VerdictGoes
  <2>2. pc'[r] = label /\ (label = "write" => mem'[r] = mem[r])
    BY <2>1, EndsAt DEF Working
  <2>3. label = "write" => Principal(r)' = Principal(r)
    BY <1>10, <2>2, Zenon DEF Principal
  <2> QED BY <1>10, <2>1, <2>2, <2>3 DEF Judged
<1>11. CASE Write(r) /\ UNCHANGED req
  <2>1. pc'[r] \in {"ok", "notfound"}
    BY <1>11, WriteGoes, EndsAt
  <2> QED BY <1>1, <2>1
<1>12. CASE Fail(r) /\ UNCHANGED <<req, events>>
  <2>1. pc'[r] = "failed"
    BY <1>12, FailGoes, EndsAt
  <2> QED BY <1>1, <2>1
<1> QED BY <1>2, <1>3, <1>4, <1>5, <1>6, <1>7, <1>8, <1>9, <1>10, <1>11, <1>12 DEF Moves, Step

LEMMA NextJudged == JudgedInv /\ [Next]_vars => JudgedInv'
<1> SUFFICES ASSUME JudgedInv, [Next]_vars PROVE JudgedInv'
  OBVIOUS
<1>0. Shape /\ Shape' /\ \A r \in Requests : Judged(r)
  BY NextShape DEF JudgedInv
<1>1. CASE UNCHANGED <<req, pc, mem, bypasses>>
  BY <1>0, <1>1, Zenon DEF JudgedInv, Judged, Principal
<1>2. CASE \E r \in Requests : Moves(r)
  <2>1. PICK r \in Requests : Moves(r)
    BY <1>2
  <2>2. Judged(r)'
    BY <1>0, <2>1, MovesJudged
  <2>3. ASSUME NEW x \in Requests \ {r} PROVE Judged(x)'
    <3>1. pc'[x] = pc[x] /\ mem'[x] = mem[x] /\ req'[x] = req[x]
      BY <1>0, <2>1, MoveFacts, EndsAt
    <3>2. bypasses \subseteq bypasses'
      BY <1>0, <2>1, StepTables
    <3>3. Principal(x)' = Principal(x)
      BY <3>1, Zenon DEF Principal
    <3> QED BY <1>0, <3>1, <3>2, <3>3, Zenon DEF Judged
  <2> QED BY <1>0, <2>2, <2>3 DEF JudgedInv
<1>3. UNCHANGED <<req, pc, mem, bypasses>> \/ \E r \in Requests : Moves(r)
  <2>1. UNCHANGED vars => UNCHANGED <<req, pc, mem, bypasses>>
    BY DEF vars, tables
  <2>2. Edit => UNCHANGED <<req, pc, mem, bypasses>>
    BY DEF Edit
  <2>3. Next => Edit \/ \E r \in Requests : Moves(r)
    BY Zenon DEF Next, Moves
  <2> QED BY <2>1, <2>2, <2>3
<1> QED BY <1>1, <1>2, <1>3

LEMMA JudgedHolds == Spec => []JudgedInv
<1>1. Init => JudgedInv
  <2>1. Init => \A r \in Requests : Judged(r)
    BY DEF Init, Judged
  <2> QED BY <2>1, InitShape DEF JudgedInv
<1> QED BY <1>1, NextJudged, PTL DEF Spec

\* For a search, judging the first row of a band judges every row: whatever was
\* not answered by a bypass is what the policies allow row by row.
THEOREM BatchesAreExact == Spec => []BandsAgree
<1>1. JudgedInv => BandsAgree
  BY Zenon DEF JudgedInv, Judged, BandsAgree, At
<1> QED BY <1>1, JudgedHolds, PTL

\* What goes out or is about to be written beyond the policies has an entry.
THEOREM BypassesAreLogged == Spec => []BypassIsAudited
<1>1. JudgedInv => BypassIsAudited
  <2> SUFFICES ASSUME JudgedInv, NEW r \in Requests, <<r, mem[r].turn>> \notin bypasses,
                      \/ pc[r] = "send" /\ req[r].op \in AssetWalks
                      \/ pc[r] = "write" /\ req[r].op \in Writes
               PROVE  \A x \in (IF pc[r] = "send" THEN mem[r].kept ELSE mem[r].page) :
                         CheckPermission(Principal(r), mem[r].groups, Needed[req[r].op], x)
    BY Zenon DEF BypassIsAudited, At
  <2>1. Judged(r)
    BY DEF JudgedInv
  <2>2. CASE pc[r] = "send" /\ req[r].op \in AssetWalks
    <3>1. Needed[req[r].op] = "View"
      BY <2>2 DEF Needed, AssetWalks
    <3> QED BY <2>1, <2>2, <3>1 DEF Judged, FilterByPermission
  <2>3. CASE pc[r] = "write" /\ req[r].op \in Writes
    <3>1. Needed[req[r].op] = ActionOf(req[r].op)
      BY <2>3 DEF Needed, ActionOf, Writes
    <3> QED BY <2>1, <2>3, <3>1, Zenon DEF Judged
  <2> QED BY <2>2, <2>3
<1> QED BY <1>1, JudgedHolds, PTL

-----------------------------------------------------------------------------
(* What a write was allowed by: contexts and groups that there were since it *)
(* began.                                                                    *)

Writing(r) == pc[r] \in Working /\ req[r].op \in Writes

\* The history holds what there is now.
Current(r) ==
    Writing(r) => /\ ctx[req[r].asset] \in past[r].ctxs
                  /\ NativeOf(req[r].by.sub) \in past[r].natives

\* The row that is judged, but for its stamp, is of a context there was.
RowOf(r, x, c) ==
    /\ x.vis = c.vis /\ x.groups = c.groups
    /\ x.by = Creator[req[r].asset] /\ x.instance = (req[r].asset \in Instances)

Founded(r) ==
    Writing(r) =>
        /\ \A x \in mem[r].page : \E c \in past[r].ctxs : RowOf(r, x, c)
        /\ pc[r] \in {"groups", "admin", "verdict", "log"} => mem[r].page # {}
        /\ pc[r] \in {"admin", "verdict", "log", "write"} /\ mem[r].page # {} =>
               \E G \in past[r].natives : mem[r].groups \subseteq req[r].by.token \cup G
        /\ pc[r] \in {"verdict", "log", "write"} /\ mem[r].page # {} /\ mem[r].bypass =>
               \E G \in past[r].natives : Admins \in G
        /\ pc[r] = "log" => mem[r].bypass
        /\ pc[r] = "write" =>
               \/ mem[r].page = {} /\ \E c \in past[r].ctxs : c.vis = "open"
               \/ mem[r].page # {} /\ mem[r].bypass
               \/ /\ mem[r].page # {}
                  /\ \A x \in mem[r].page :
                        CheckPermission(Principal(r), mem[r].groups, ActionOf(req[r].op), x)

FoundedInv == Shape /\ \A r \in Requests : Current(r) /\ Founded(r)

LEMMA PastGrows ==
    ASSUME NEW r \in Requests, Noted(r), Writing(r)'
    PROVE  /\ past[r].ctxs \subseteq past'[r].ctxs /\ past[r].natives \subseteq past'[r].natives
           /\ Current(r)'
<1>1. /\ past'[r].ctxs = past[r].ctxs \cup Seen(req[r])'.ctxs
      /\ past'[r].natives = past[r].natives \cup Seen(req[r])'.natives
  BY DEF Noted, Writing
<1>2. /\ Seen(req[r])'.ctxs = {ctx'[req'[r].asset]}
      /\ Seen(req[r])'.natives = {NativeOf(req[r].by.sub)'}
  BY DEF Seen, Writing
<1> QED BY <1>1, <1>2, Zenon DEF Current

\* A request that did not move rests on what it rested on.
LEMMA FoundedStays ==
    ASSUME NEW r \in Requests, Founded(r), Noted(r), UNCHANGED <<pc[r], req[r], mem[r]>>
    PROVE  Founded(r)'
<1> SUFFICES ASSUME Writing(r)' PROVE Founded(r)'
  BY Zenon DEF Founded
<1>1. Writing(r) /\ Principal(r)' = Principal(r)
  BY Zenon DEF Writing, Principal
<1>2. past[r].ctxs \subseteq past'[r].ctxs /\ past[r].natives \subseteq past'[r].natives
  BY PastGrows
<1>3. pc'[r] = pc[r] /\ req'[r] = req[r] /\ mem'[r] = mem[r]
  OBVIOUS
<1> QED BY <1>1, <1>2, <1>3, Zenon DEF Founded, RowOf

LEMMA MovesFounded ==
    ASSUME Shape, NEW r \in Requests, Current(r), Founded(r), Moves(r), Noted(r)
    PROVE  Founded(r)'
<1> SUFFICES ASSUME Writing(r)' PROVE Founded(r)'
  BY Zenon DEF Founded
<1>0. /\ past[r].ctxs \subseteq past'[r].ctxs /\ past[r].natives \subseteq past'[r].natives
      /\ req'[r].op \in Writes /\ req'[r].op \notin AssetWalks
  BY PastGrows DEF Writing, Writes, AssetWalks
<1>1. CASE Arrive(r) /\ UNCHANGED events
  <2>1. PICK q, label, m :
              /\ q \in Request /\ req' = [req EXCEPT ![r] = q] /\ Goes(r, label, m)
              /\ label = FirstLabel(q)
              /\ m = [NoMemory EXCEPT !.turn = 1] /\ m.turn = 1
              /\ m.page = {} /\ m.kept = {} /\ m.cursor = NoCursor /\ m.passed = {}
              /\ m.shown = [i \in Ids |-> 0] /\ m.lost = FALSE
    BY <1>1, ArriveGoes, Zenon
  <2>2. req'[r] = q
    BY <2>1 DEF Shape, Locals
  <2>3. label = "get"
    BY <1>0, <2>1, <2>2 DEF FirstLabel, AssetWalks, Writes
  <2>4. pc'[r] = "get" /\ mem'[r].page = {}
    <3>1. Goes(r, "get", m) /\ m.page = {}
      BY <2>1, <2>3, Zenon
    <3>2. pc'[r] = "get" /\ ("get" \in Working => mem'[r] = m)
      BY <3>1, EndsAt, Zenon
    <3>3. "get" \in Working
      BY DEF Working
    <3> QED BY <3>1, <3>2, <3>3, Zenon
  <2> QED BY <2>4 DEF Founded
<1>2. CASE Step(r) /\ UNCHANGED req
  <2>0. /\ req'[r] = req[r] /\ Writing(r) /\ ctx[req[r].asset] \in past[r].ctxs
        /\ NativeOf(req[r].by.sub) \in past[r].natives
        /\ \A x, c : RowOf(r, x, c) => RowOf(r, x, c)'
    <3>1. req'[r] = req[r]
      BY <1>2
    <3>2. pc[r] \in Working
      BY <1>2 DEF Step, At, ReadGroups, ReadAdmin, ReadPage, Filter, Log, Send, Get, Verdict,
                  Write, Working
    <3>3. \A x, c : RowOf(r, x, c) => RowOf(r, x, c)'
      BY <3>1, Zenon DEF RowOf
    <3> QED BY <1>0, <3>1, <3>2, <3>3 DEF Writing, Current
  <2>00. \A x \in mem[r].page : \E c \in past'[r].ctxs : RowOf(r, x, c)'
    BY <1>0, <2>0, Zenon DEF Founded
  <2>1. CASE ReadGroups(r)
    <3>1. PICK m, landed, ok :
              /\ Goes(r, "admin", m) /\ KeepsWalk(m, mem[r]) /\ m.page = mem[r].page
              /\ m.groups = ((IF landed THEN req[r].by.token ELSE {})
                                \cup (IF ok THEN NativeOf(req[r].by.sub) ELSE {}))
      BY <1>2, <2>1, ReadGroupsGoes
    <3>2. pc'[r] = "admin" /\ mem'[r] = m
      BY <3>1, EndsAt DEF Working
    <3>3. mem[r].page # {}
      BY <2>0, <2>1 DEF Founded, ReadGroups, At
    <3>4. \E G \in past'[r].natives : m.groups \subseteq req[r].by.token \cup G
      <4>1. m.groups \subseteq req[r].by.token \cup NativeOf(req[r].by.sub)
        BY <3>1
      <4> QED BY <1>0, <2>0, <4>1
    <3> QED BY <2>0, <2>00, <3>1, <3>2, <3>3, <3>4 DEF Founded
  <2>2. CASE ReadAdmin(r)
    <3>1. PICK label, m, ok :
              /\ Goes(r, label, m) /\ KeepsWalk(m, mem[r]) /\ m.page = mem[r].page
              /\ label = "verdict" /\ m.groups = mem[r].groups
              /\ m.bypass = (ok /\ Admins \in NativeOf(req[r].by.sub))
      BY <1>0, <1>2, <2>0, <2>2, ReadAdminGoes
    <3>2. pc'[r] = "verdict" /\ mem'[r] = m
      BY <3>1, EndsAt DEF Working
    <3>3. mem[r].page # {} /\ \E G \in past[r].natives : mem[r].groups \subseteq req[r].by.token \cup G
      BY <2>0, <2>2 DEF Founded, ReadAdmin, At
    <3>4. \E G \in past'[r].natives : m.groups \subseteq req[r].by.token \cup G
      BY <1>0, <3>1, <3>3
    <3>5. m.bypass => \E G \in past'[r].natives : Admins \in G
      BY <1>0, <2>0, <3>1
    <3> QED BY <2>0, <2>00, <3>1, <3>2, <3>3, <3>4, <3>5 DEF Founded
  <2>3. CASE Get(r)
    <3>0. PICK x : x = Row(req[r].asset)
      OBVIOUS
    <3>1. PICK label, m :
              /\ Goes(r, label, m)
              /\ \/ label = "notfound"
                 \/ label = "groups" /\ m.page = {x}
                 \/ label \in {"write", "ok"} /\ ~Enforced(x) /\ m.page = {}
      BY <1>2, <2>3, <3>0, GetGoes
    <3>2. pc'[r] = label /\ (label \in Working => mem'[r] = m) /\ label \in Working
      BY <3>1, EndsAt DEF Writing
    <3>3. RowOf(r, x, ctx[req[r].asset]) /\ ctx[req[r].asset] \in past'[r].ctxs
      BY <1>0, <2>0, <3>0 DEF RowOf, Row
    <3>4. CASE label = "groups"
      <4>1. m.page = {x}
        BY <3>1, <3>4
      <4> QED BY <2>0, <3>2, <3>3, <3>4, <4>1 DEF Founded
    <3>5. CASE label = "write"
      <4>1. m.page = {} /\ ctx[req[r].asset].vis = "open"
        BY <3>0, <3>1, <3>5 DEF Enforced, Row
      <4> QED BY <3>2, <3>3, <3>5, <4>1 DEF Founded
    <3> QED BY <3>1, <3>2, <3>4, <3>5 DEF Working
  <2>4. CASE Verdict(r)
    <3>1. PICK label :
            /\ Goes(r, label, mem[r])
            /\ \/ label = "log" /\ mem[r].bypass
               \/ label = "forbidden"
               \/ /\ label = "write"
                  /\ \A x \in mem[r].page :
                        CheckPermission(Principal(r), mem[r].groups, ActionOf(req[r].op), x)
      BY <1>0, <1>2, <2>0, <2>4, VerdictGoes
    <3>2. pc'[r] = label /\ mem'[r] = mem[r] /\ label \in {"log", "write"}
      BY <3>1, EndsAt DEF Writing, Working
    <3>3. /\ mem[r].page # {} /\ \E G \in past[r].natives : mem[r].groups \subseteq req[r].by.token \cup G
          /\ mem[r].bypass => \E G \in past[r].natives : Admins \in G
      BY <2>0, <2>4 DEF Founded, Verdict, At
    <3>4. /\ \E G \in past'[r].natives : mem[r].groups \subseteq req[r].by.token \cup G
          /\ mem[r].bypass => \E G \in past'[r].natives : Admins \in G
      BY <1>0, <3>3
    <3>5. Principal(r)' = Principal(r)
      BY <2>0, <3>2, Zenon DEF Principal
    <3> QED BY <2>0, <2>00, <3>1, <3>2, <3>3, <3>4, <3>5 DEF Founded
  <2>5. CASE Log(r)
    <3>1. Goes(r, "write", mem[r])
      BY <1>0, <1>2, <2>0, <2>5, LogGoes
    <3>2. pc'[r] = "write" /\ mem'[r] = mem[r]
      BY <3>1, EndsAt DEF Working
    <3>3. /\ mem[r].page # {} /\ \E G \in past[r].natives : mem[r].groups \subseteq req[r].by.token \cup G
          /\ mem[r].bypass /\ \E G \in past[r].natives : Admins \in G
      BY <2>0, <2>5 DEF Founded, Log, At
    <3>4. /\ \E G \in past'[r].natives : mem[r].groups \subseteq req[r].by.token \cup G
          /\ \E G \in past'[r].natives : Admins \in G
      BY <1>0, <3>3
    <3> QED BY <2>0, <2>00, <3>2, <3>3, <3>4 DEF Founded
  <2>6. CASE ReadPage(r) \/ Filter(r) \/ Send(r)
    <3>1. req[r].op \in AssetWalks \cup {"collections", "trail"}
      BY <2>6 DEF Shape, Locals, Labels, Fits, ReadPage, Filter, Send, At
    <3> QED BY <2>0, <3>1 DEF Writing, Writes, AssetWalks
  <2>7. CASE Write(r)
    <3>1. pc'[r] \in {"ok", "notfound"}
      BY <1>2, <2>7, WriteGoes, EndsAt
    <3> QED BY <3>1 DEF Writing, Working
  <2> QED BY <1>2, <2>1, <2>2, <2>3, <2>4, <2>5, <2>6, <2>7, Zenon DEF Step
<1>3. CASE Fail(r) /\ UNCHANGED <<req, events>>
  <2>1. pc'[r] = "failed"
    BY <1>3, FailGoes, EndsAt
  <2> QED BY <2>1 DEF Writing, Working
<1> QED BY <1>1, <1>2, <1>3 DEF Moves

\* A step is the step of one request, of another client on groups, collections or
\* the trail, or none.
LEMMA NextMoves ==
    ASSUME Shape, Next
    PROVE  /\ \A r \in Requests : Noted(r)
           /\ \/ /\ Edit
                 /\ UNCHANGED <<row, born, at, ctx, bypasses, req, pc, mem>>
              \/ \E r \in Requests :
                    /\ Moves(r)
                    /\ \A x \in Requests \ {r} : UNCHANGED <<pc[x], req[x], mem[x]>>
<1>1. \A r \in Requests : Noted(r)
  BY ObserveNotes DEF Next
<1>2. CASE Edit
  BY <1>1, <1>2 DEF Edit
<1>3. CASE \E r \in Requests : Moves(r)
  <2>1. PICK r \in Requests : Moves(r)
    BY <1>3
  <2>2. \A x \in Requests \ {r} : pc'[x] = pc[x] /\ mem'[x] = mem[x] /\ req'[x] = req[x]
    BY <2>1, MoveFacts, EndsAt
  <2> QED BY <1>1, <2>1, <2>2
<1>4. Edit \/ \E r \in Requests : Moves(r)
  BY Zenon DEF Next, Moves
<1> QED BY <1>2, <1>3, <1>4

LEMMA NextFounded == FoundedInv /\ [Next]_vars => FoundedInv'
<1> SUFFICES ASSUME FoundedInv, [Next]_vars PROVE FoundedInv'
  OBVIOUS
<1>0. Shape /\ Shape' /\ \A r \in Requests : Current(r) /\ Founded(r)
  BY NextShape DEF FoundedInv
<1>1. CASE UNCHANGED vars
  <2>1. UNCHANGED <<req, pc, mem, past, ctx, native>>
    BY <1>1 DEF vars, tables, history
  <2>2. ASSUME NEW r \in Requests PROVE Current(r)' /\ Founded(r)'
    <3>1. Principal(r)' = Principal(r) /\ (\A x, c : RowOf(r, x, c)' <=> RowOf(r, x, c))
          /\ NativeOf(req[r].by.sub)' = NativeOf(req[r].by.sub)
      BY <2>1, Zenon DEF Principal, RowOf, NativeOf
    <3>2. Current(r) /\ Founded(r)
      BY <1>0
    <3>3. Current(r)'
      BY <2>1, <3>1, <3>2, Zenon DEF Current, Writing
    <3>4. Founded(r)'
      BY <2>1, <3>1, <3>2, Zenon DEF Founded, Writing
    <3> QED BY <3>3, <3>4
  <2> QED BY <1>0, <2>2 DEF FoundedInv
<1>2. CASE Next
  <2>1. \A r \in Requests : Noted(r)
    BY <1>0, <1>2, NextMoves
  <2>2. \A r \in Requests : Current(r)'
    <3>1. ASSUME NEW r \in Requests PROVE Current(r)'
      <4>1. CASE Writing(r)'
        BY <2>1, <4>1, PastGrows
      <4>2. CASE ~Writing(r)'
        BY <4>2, Zenon DEF Current
      <4> QED BY <4>1, <4>2
    <3> QED BY <3>1
  <2>3. ASSUME NEW r \in Requests PROVE Founded(r)'
    <3>1. Moves(r) \/ UNCHANGED <<pc[r], req[r], mem[r]>>
      BY <1>0, <1>2, NextMoves
    <3> QED BY <1>0, <2>1, <3>1, MovesFounded, FoundedStays
  <2> QED BY <1>0, <2>2, <2>3 DEF FoundedInv
<1> QED BY <1>1, <1>2

\* What a caller is allowed without some of its claims and groups it is allowed
\* with them.
LEMMA MoreIsAllowed ==
    ASSUME NEW p \in Callers, NEW q \in {p, Bare(p)}, NEW o \in {p, q}, NEW G, NEW H, G \subseteq H,
           NEW action, NEW x, NEW y, x.vis = y.vis, x.groups = y.groups, x.by = y.by,
           x.instance = y.instance, CheckPermission(q, G, action, x)
    PROVE  CheckPermission(o, H, action, y)
<1>1. q.sub = o.sub /\ q.spn = o.spn /\ (q.role = "admin" => o.role = "admin")
  BY PrincipalFacts
<1>2. Enforced(x) <=> Enforced(y)
  BY DEF Enforced
<1>3. InTeam(q, G, x) => InTeam(o, H, y)
  BY <1>1 DEF InTeam
<1>4. Permitted(q, G, action, x) => Permitted(o, H, action, y)
  BY <1>1, <1>3, Zenon DEF Permitted, Administers, Created
<1>5. Barred(o, action, y) => Barred(q, action, x)
  BY <1>1, Zenon DEF Barred, Administers
<1> QED BY <1>2, <1>4, <1>5, Zenon DEF CheckPermission, Evaluate

\* A write rests on a permission that the policies gave for a context and groups
\* there were while it was under way: never on a mixture older than itself.
THEOREM WritesAreFounded == Spec => WritesWereAllowed
<1> DEFINE Allowed(r) ==
              At(r, "write") /\ pc'[r] = "ok" /\ req[r].op \in Writes =>
              \E c \in past[r].ctxs, G \in past[r].natives :
                  \/ Admins \in G
                  \/ CheckPermission(req[r].by, req[r].by.token \cup G, Needed[req[r].op],
                         [Row(req[r].asset) EXCEPT !.vis = c.vis, !.groups = c.groups])
<1>1. ASSUME FoundedInv, NEW r \in Requests PROVE Allowed(r)
  <2> SUFFICES ASSUME pc[r] = "write", req[r].op \in Writes
               PROVE  \E c \in past[r].ctxs, G \in past[r].natives :
                  \/ Admins \in G
                  \/ CheckPermission(req[r].by, req[r].by.token \cup G, Needed[req[r].op],
                         [Row(req[r].asset) EXCEPT !.vis = c.vis, !.groups = c.groups])
    BY DEF At
  <2>1. /\ Shape /\ Current(r) /\ Founded(r) /\ Writing(r)
        /\ req[r] \in Request /\ req[r].by \in Callers
    <3>1. Shape /\ Current(r) /\ Founded(r) /\ Writing(r) /\ req[r] \in Request
      BY <1>1 DEF FoundedInv, Writing, Working, Shape, Locals, Labels
    <3> QED BY <3>1, RequestFields DEF Single
  <2>2. \A c : LET y == [Row(req[r].asset) EXCEPT !.vis = c.vis, !.groups = c.groups] IN
            y.vis = c.vis /\ y.groups = c.groups /\ y.by = Creator[req[r].asset]
            /\ y.instance = (req[r].asset \in Instances)
    BY DEF Row
  <2>3. Needed[req[r].op] = ActionOf(req[r].op)
    BY DEF Needed, ActionOf, Writes
  <2>4. ctx[req[r].asset] \in past[r].ctxs /\ NativeOf(req[r].by.sub) \in past[r].natives
    BY <2>1 DEF Current
  <2>5. CASE mem[r].page = {}
    <3>1. PICK c \in past[r].ctxs : c.vis = "open"
      BY <2>1, <2>5, Zenon DEF Founded
    <3>2. PICK y : y = [Row(req[r].asset) EXCEPT !.vis = c.vis, !.groups = c.groups]
      OBVIOUS
    <3>3. y.vis = "open"
      BY <2>2, <3>1, <3>2
    <3>4. CheckPermission(req[r].by, req[r].by.token \cup NativeOf(req[r].by.sub),
                          Needed[req[r].op], y)
      BY <3>3, Zenon DEF CheckPermission, Enforced
    <3> QED BY <2>4, <3>2, <3>4
  <2>6. CASE mem[r].page # {} /\ mem[r].bypass
    <3>1. \E G \in past[r].natives : Admins \in G
      BY <2>1, <2>6, Zenon DEF Founded
    <3> QED BY <2>4, <3>1
  <2>7. CASE mem[r].page # {} /\ ~mem[r].bypass
    <3>1. \A x \in mem[r].page :
                CheckPermission(Principal(r), mem[r].groups, ActionOf(req[r].op), x)
      BY <2>1, <2>7, Zenon DEF Founded
    <3>2. PICK G \in past[r].natives : mem[r].groups \subseteq req[r].by.token \cup G
      BY <2>1, <2>7, Zenon DEF Founded
    <3>3. PICK x \in mem[r].page : TRUE
      BY <2>7
    <3>4. PICK c \in past[r].ctxs : RowOf(r, x, c)
      BY <2>1, <3>3 DEF Founded
    <3>5. PICK y : y = [Row(req[r].asset) EXCEPT !.vis = c.vis, !.groups = c.groups]
      OBVIOUS
    <3>6. x.vis = y.vis /\ x.groups = y.groups /\ x.by = y.by /\ x.instance = y.instance
      BY <2>2, <3>4, <3>5 DEF RowOf
    <3>7. PICK p : p = req[r].by
      OBVIOUS
    <3>8. PICK q : q = Principal(r)
      OBVIOUS
    <3>9. p \in Callers /\ q \in {p, Bare(p)} /\ p \in {p, q}
      BY <2>1, <3>7, <3>8 DEF Principal
    <3>10. PICK H, action : H = mem[r].groups /\ action = ActionOf(req[r].op)
      OBVIOUS
    <3>11. CheckPermission(q, H, action, x) /\ H \subseteq p.token \cup G
      BY <3>1, <3>2, <3>7, <3>8, <3>10, Zenon
    <3>12. CheckPermission(p, p.token \cup G, action, y)
      <4>1. PICK T : T = p.token \cup G
        OBVIOUS
      <4>2. H \subseteq T
        BY <3>11, <4>1
      <4>3. CheckPermission(p, T, action, y)
        BY <3>6, <3>9, <3>11, <4>2, MoreIsAllowed
      <4> QED BY <4>1, <4>3
    <3>13. CheckPermission(req[r].by, req[r].by.token \cup G, Needed[req[r].op],
                [Row(req[r].asset) EXCEPT !.vis = c.vis, !.groups = c.groups])
      BY <2>3, <3>5, <3>7, <3>10, <3>12, Zenon
    <3> QED BY <3>13, Zenon
  <2> QED BY <2>5, <2>6, <2>7
<1>2. Init => FoundedInv
  <2>1. Init => \A r \in Requests : Current(r) /\ Founded(r)
    <3>1. Init => \A r \in Requests : ~Writing(r)
      BY DEF Init, Writing, Working
    <3> QED BY <3>1, Zenon DEF Current, Founded
  <2> QED BY <2>1, InitShape DEF FoundedInv
<1>3. FoundedInv => [\A r \in Requests : Allowed(r)]_vars
  BY <1>1
<1>4. Spec => [][\A r \in Requests : Allowed(r)]_vars
  BY <1>2, <1>3, NextFounded, PTL DEF Spec
<1> QED BY <1>4 DEF WritesWereAllowed

-----------------------------------------------------------------------------
(* Walks: what the cursor splits.                                            *)

\* SQLite's list of collections names the row beyond a page.
NamesBeyond(r) == req[r].op = "collections" /\ backend = "sqlite"

\* MongoDB's search leaves equal stamps in no order.
Unordered(r) == req[r].op = "search" /\ backend = "mongo"

LEMMA PageSplits ==
    ASSUME Shape, NEW r \in Requests, pc[r] = "page", NEW p \in Pages(r)
    PROVE  /\ p.rows \subseteq Rest(r)
           /\ p.next = NoCursor => p.rows = Rest(r)
           /\ p.next # NoCursor =>
                 /\ p.next \in Rest(r)
                 /\ \A x \in Rest(r) :
                       /\ NamesBeyond(r) => (x \in p.rows <=> Newer(x, p.next))
                       /\ ~NamesBeyond(r)
                          /\ (Unordered(r) => \A y \in Rest(r) : y.at = x.at => y = x)
                          => (x \in p.rows <=> ~Newer(p.next, x))
<1> DEFINE rest == Rest(r)
           k == req[r].limit
<1>1. /\ rest \subseteq Keyset /\ IsFiniteSet(rest) /\ k \in Nat \ {0}
      /\ rest \subseteq Keys(req[r])
      /\ req[r] \in Request /\ req[r].op \in AssetWalks \cup {"collections", "trail"}
  BY RestFacts
<1>2. NoCursor \notin rest
  <2>1. IdsOf(req[r]) \subseteq Nat \ {0}
    BY ReadsAssumption DEF IdsOf
  <2>2. NoCursor \in rest => IdOf(NoCursor) \in IdsOf(req[r])
    BY <1>1, KeyFacts
  <2>3. IdOf(NoCursor) = 0
    BY DEF IdOf, NoCursor
  <2> QED BY <2>1, <2>2, <2>3
<1>3. p.rows \subseteq rest /\ p.next \in rest \cup {NoCursor}
  BY PageFacts
<1>4. CASE Unordered(r) /\ ~(Cardinality(rest) <= k)
  <2>1. /\ p.rows \subseteq rest /\ p.next \in rest /\ p.next \in p.rows
        /\ \A x \in p.rows, y \in rest \ p.rows : x.at >= y.at
        /\ \A x \in p.rows : x.at >= p.next.at
    <3>1. Cardinality(rest) \in Nat
      BY <1>1, FS_CardinalityType
    <3>2. Cardinality(rest) > k
      BY <1>1, <1>4, <3>1
    <3> QED BY <1>4, <3>2 DEF Pages, Unordered
  <2>2. ASSUME NEW x \in rest, \A y \in rest : y.at = x.at => y = x
        PROVE  x \in p.rows <=> ~Newer(p.next, x)
    <3>1. x.at \in Int /\ x.id \in Int /\ p.next.at \in Int /\ p.next.id \in Int
      BY <1>1, <2>1 DEF Keyset
    <3>2. CASE x \in p.rows
      <4>1. x.at >= p.next.at /\ (p.next.at = x.at => p.next = x)
        BY <2>1, <2>2, <3>2
      <4> QED BY <3>1, <3>2, <4>1 DEF Newer
    <3>3. CASE x \notin p.rows
      <4>1. p.next.at >= x.at /\ (p.next.at = x.at => p.next = x) /\ p.next # x
        BY <2>1, <2>2, <3>3
      <4> QED BY <3>1, <3>3, <4>1 DEF Newer
    <3> QED BY <3>2, <3>3
  <2>3. ~NamesBeyond(r)
    BY <1>4 DEF NamesBeyond, Unordered
  <2> QED BY <1>2, <1>4, <2>1, <2>2, <2>3
<1>5. CASE ~(Unordered(r) /\ ~(Cardinality(rest) <= k))
  <2>1. p.rows = First(rest, k) /\ p.next = CursorOf(r, rest, k)
    <3>1. Cardinality(rest) \in Nat
      BY <1>1, FS_CardinalityType
    <3>2. ~(backend = "mongo" /\ req[r].op = "search" /\ Cardinality(rest) > k)
      BY <1>1, <1>5, <3>1 DEF Unordered
    <3> QED BY <3>2 DEF Pages
  <2>2. CASE Cardinality(rest) <= k
    <3> HIDE DEF rest, k
    <3>1. p.next = NoCursor
      BY <2>1, <2>2 DEF CursorOf, NextCursor
    <3>2. p.rows = rest
      BY <1>1, <2>1, <2>2, ShortPage
    <3> QED BY <3>1, <3>2 DEF rest
  <2>3. CASE ~(Cardinality(rest) <= k) /\ NamesBeyond(r)
    <3> HIDE DEF rest, k
    <3>1. p.next = CHOOSE x \in First(rest, k + 1) : x \notin First(rest, k)
      BY <2>1, <2>3 DEF CursorOf, NamesBeyond
    <3>2. p.next \in rest /\ \A x \in rest : x \in First(rest, k) <=> Newer(x, p.next)
      BY <1>1, <2>3, <3>1, BeyondSplits
    <3> QED BY <1>2, <1>3, <2>1, <2>3, <3>2 DEF rest
  <2>4. CASE ~(Cardinality(rest) <= k) /\ ~NamesBeyond(r)
    <3> HIDE DEF rest, k
    <3>1. p.next = NextCursor(rest, k)
      BY <2>1, <2>4 DEF CursorOf, NamesBeyond
    <3>2. p.next \in rest /\ \A x \in rest : x \in First(rest, k) <=> ~Newer(p.next, x)
      BY <1>1, <2>4, <3>1, CursorSplits
    <3> QED BY <1>2, <1>3, <2>1, <2>4, <3>2 DEF rest
  <2> QED BY <2>2, <2>3, <2>4
<1> QED BY <1>4, <1>5

\* What a walk still has to show there is, in the tables and for the caller.
Owing(r) ==
    pc[r] \in Working => /\ sure[r] \subseteq Shows(req[r], past[r].natives)
                         /\ plain[r] \subseteq ShowsAnyone(req[r])

LEMMA OwingNext ==
    ASSUME NEW r \in Requests, Noted(r)
    PROVE  /\ Owing(r)'
           /\ pc'[r] \in Working /\ pc[r] # "idle" =>
                 sure'[r] \subseteq sure[r] \ Moved(req[r]) /\ plain'[r] \subseteq plain[r] \ Moved(req[r])
BY Zenon DEF Owing, Noted, Starts

\* How often an id has been shown with the page that m holds.
WithPage(m, i) == m.shown[i] + (IF \E x \in m.kept : x.id = i THEN 1 ELSE 0)

\* Before a page, after it: what the cursor leaves.
ToCome(m, k) == m.cursor = NoCursor \/ Newer(m.cursor, k)
Later(m, k) == m.cursor # NoCursor /\ Newer(m.cursor, k)

\* The page kept in m is the rows of p.
Lists(m, p) == \A i : (\E y \in m.kept : y.id = i) <=> \E x \in p.rows : IdOf(x) = i

\* A page of collections or entries goes out as it is read.
LEMMA ReadPageShows ==
    ASSUME Shape, NEW r \in Requests, ReadPage(r), UNCHANGED req, req[r].op \notin AssetWalks
    PROVE  \E p, m :
              /\ Goes(r, "send", m) /\ m.shown = mem[r].shown
              /\ p \in Pages(r) /\ m.cursor = p.next
              /\ m.passed = IF p.next = NoCursor THEN mem[r].passed
                            ELSE mem[r].passed \cup {IdOf(p.next)}
              /\ Lists(m, p)
<1>1. PICK p, ids, label, m :
              /\ Goes(r, label, m) /\ KeepsCaller(m, mem[r])
              /\ m.shown = mem[r].shown /\ m.turn = mem[r].turn
              /\ p \in Pages(r) /\ ids = {IdOf(x) : x \in p.rows} /\ m.cursor = p.next
              /\ m.passed = IF p.next = NoCursor THEN mem[r].passed
                            ELSE mem[r].passed \cup {IdOf(p.next)}
              /\ label = IF req[r].op \in AssetWalks THEN "filter" ELSE "send"
              /\ m.page = IF req[r].op \in AssetWalks THEN {Row(a) : a \in ids}
                          ELSE {[id |-> i] : i \in ids}
              /\ req[r].op \notin AssetWalks => m.kept = m.page
  BY ReadPageGoes, Zenon
<1>2. label = "send" /\ m.kept = {[id |-> i] : i \in ids}
  BY <1>1
<1>3. /\ \A y \in m.kept : y.id \in ids
      /\ \A i \in ids : [id |-> i] \in m.kept
  BY <1>2
<1>4. \A i : [id |-> i].id = i
  OBVIOUS
<1>5. \A i : i \in ids <=> \E x \in p.rows : IdOf(x) = i
  BY <1>1
<1>6. Lists(m, p)
  BY <1>3, <1>4, <1>5, Zenon DEF Lists
<1>7. Goes(r, "send", m)
  BY <1>1, <1>2, Zenon
<1>8. /\ m.shown = mem[r].shown /\ p \in Pages(r) /\ m.cursor = p.next
      /\ m.passed = IF p.next = NoCursor THEN mem[r].passed
                    ELSE mem[r].passed \cup {IdOf(p.next)}
  BY <1>1, Zenon
<1> QED BY <1>6, <1>7, <1>8

LEMMA SendShows ==
    ASSUME Shape, NEW r \in Requests, Send(r), UNCHANGED req
    PROVE  \E label, m :
              /\ Goes(r, label, m)
              /\ \/ label = "ok"
                 \/ /\ label = (IF req[r].op \in AssetWalks THEN "groups" ELSE "page")
                    /\ m.shown = Shown(r) /\ m.cursor = mem[r].cursor
                    /\ m.passed = mem[r].passed /\ mem[r].cursor # NoCursor
                    /\ m.lost = mem[r].lost
<1>1. CASE mem[r].cursor = NoCursor /\ Goes(r, "ok", mem[r])
  BY <1>1, Zenon
<1>2. CASE /\ mem[r].cursor # NoCursor
           /\ \E label, m :
                    /\ Goes(r, label, m)
                    /\ label = IF req[r].op \in AssetWalks THEN "groups" ELSE "page"
                    /\ m = [NoMemory EXCEPT !.shown = Shown(r), !.turn = mem[r].turn + 1,
                              !.cursor = mem[r].cursor, !.passed = mem[r].passed,
                              !.lost = mem[r].lost]
                    /\ m.shown = Shown(r) /\ m.turn = mem[r].turn + 1 /\ m.kept = {}
                    /\ m.cursor = mem[r].cursor /\ m.passed = mem[r].passed
                    /\ m.lost = mem[r].lost
  BY <1>2, Zenon
<1> QED BY <1>1, <1>2, SendGoes, Zenon

-----------------------------------------------------------------------------
(* The audit list.                                                           *)

Passed(m, i) == \E j \in m.passed : j < i

EntriesLeft(r) ==
    req[r].op = "trail" =>
        /\ pc[r] = "page" => \A i \in sure[r] :
               mem[r].shown[i] > 0 \/ Passed(mem[r], i)
               \/ mem[r].cursor = NoCursor \/ i < mem[r].cursor.id
        /\ pc[r] = "send" => \A i \in sure[r] :
               WithPage(mem[r], i) > 0 \/ Passed(mem[r], i)
               \/ (mem[r].cursor # NoCursor /\ i < mem[r].cursor.id)

LEMMA EntriesStay ==
    ASSUME NEW r \in Requests, EntriesLeft(r), Noted(r), UNCHANGED <<pc[r], req[r], mem[r]>>
    PROVE  EntriesLeft(r)'
<1>1. pc[r] \in {"page", "send"} => sure'[r] \subseteq sure[r]
  BY OwingNext DEF Working
<1> QED BY <1>1, Zenon DEF EntriesLeft

LEMMA MovesEntries ==
    ASSUME Shape, NEW r \in Requests, Owing(r), EntriesLeft(r), Moves(r), Noted(r)
    PROVE  EntriesLeft(r)'
<1> SUFFICES ASSUME req'[r].op = "trail", pc'[r] \in {"page", "send"} PROVE EntriesLeft(r)'
  BY Zenon DEF EntriesLeft
<1>0. /\ pc'[r] \in Working /\ (pc[r] # "idle" => sure'[r] \subseteq sure[r])
      /\ "trail" \notin AssetWalks
  BY OwingNext DEF Working, AssetWalks
<1>1. CASE Arrive(r) /\ UNCHANGED events
  <2>1. PICK q, label, m :
              /\ q \in Request /\ req' = [req EXCEPT ![r] = q] /\ Goes(r, label, m)
              /\ label = FirstLabel(q)
              /\ m = [NoMemory EXCEPT !.turn = 1] /\ m.turn = 1
              /\ m.page = {} /\ m.kept = {} /\ m.cursor = NoCursor /\ m.passed = {}
              /\ m.shown = [i \in Ids |-> 0] /\ m.lost = FALSE
    BY <1>1, ArriveGoes, Zenon
  <2>2. req'[r] = q
    BY <2>1 DEF Shape, Locals
  <2>3. FirstLabel(q) = "page"
    BY <1>0, <2>2 DEF FirstLabel
  <2>4. pc'[r] = "page" /\ mem'[r] = m
    <3>1. Goes(r, "page", m)
      BY <2>1, <2>3, Zenon
    <3>2. pc'[r] = "page" /\ ("page" \in Working => mem'[r] = m)
      BY <3>1, EndsAt, Zenon
    <3> QED BY <3>2 DEF Working
  <2>5. mem'[r].cursor = NoCursor
    BY <2>1, <2>4, Zenon
  <2> QED BY <2>4, <2>5 DEF EntriesLeft
<1>2. CASE ReadPage(r) /\ UNCHANGED req
  <2>1. PICK p, m :
              /\ Goes(r, "send", m) /\ m.shown = mem[r].shown
              /\ p \in Pages(r) /\ m.cursor = p.next
              /\ m.passed = IF p.next = NoCursor THEN mem[r].passed
                            ELSE mem[r].passed \cup {IdOf(p.next)}
              /\ \A i : (\E y \in m.kept : y.id = i) <=> \E x \in p.rows : IdOf(x) = i
    BY <1>0, <1>2, ReadPageShows DEF Lists
  <2>2. pc'[r] = "send" /\ mem'[r] = m
    BY <2>1, EndsAt DEF Working
  <2>3. pc[r] = "page" /\ Memory(mem[r])
    BY <1>2 DEF ReadPage, At, Shape, Locals
  <2>4. /\ p.rows \subseteq Rest(r)
        /\ p.next = NoCursor => p.rows = Rest(r)
        /\ p.next # NoCursor =>
              /\ p.next \in Rest(r)
              /\ \A x \in Rest(r) : x \in p.rows <=> ~Newer(p.next, x)
    BY <1>2, <2>1, <2>3, PageSplits DEF NamesBeyond, Unordered
  <2>50. trail \subseteq [id : TrailIds, at : 0..Now] /\ TrailIds \subseteq Nat /\ Now \in Nat
    BY ReadsAssumption DEF Shape, Tables
  <2>51. req[r].op = "trail"
    BY <1>2
  <2>5. /\ \A x \in trail : x.id \in TrailIds /\ x.id \in Nat /\ x.at \in Int
        /\ Rest(r) = {x \in trail : mem[r].cursor = NoCursor \/ x.id < mem[r].cursor.id}
    <3>1. \A x \in trail : x.id \in TrailIds /\ x.id \in Nat /\ x.at \in Int
      <4>1. ASSUME NEW x \in trail PROVE x.id \in TrailIds /\ x.id \in Nat /\ x.at \in Int
        <5>1. x \in [id : TrailIds, at : 0..Now]
          BY <2>50
        <5>2. x.id \in TrailIds /\ x.at \in 0..Now
          BY <5>1
        <5>3. x.id \in Nat
          BY <2>50, <5>2
        <5>4. x.at \in Int
          BY <5>2
        <5> QED BY <5>2, <5>3, <5>4
      <4> QED BY <4>1
    <3>2. Rest(r) = {x \in trail : mem[r].cursor = NoCursor \/ x.id < mem[r].cursor.id}
      BY <2>51, Zenon DEF Rest
    <3> QED BY <3>1, <3>2
  <2>6. ASSUME NEW i \in sure'[r]
        PROVE  WithPage(m, i) > 0 \/ Passed(m, i) \/ (m.cursor # NoCursor /\ i < m.cursor.id)
    <3>1. i \in sure[r] /\ sure[r] \subseteq {x.id : x \in trail}
      BY <1>0, <1>2, <2>3 DEF Owing, Working, Shows, AssetWalks
    <3>2. PICK x \in trail : x.id = i
      BY <3>1
    <3>3. i \in Ids /\ i \in Nat /\ m.shown[i] \in Nat
      BY <2>1, <2>3, <2>5, <3>2 DEF Ids, Memory
    <3>4. CASE mem[r].shown[i] > 0
      BY <2>1, <3>3, <3>4 DEF WithPage
    <3>5. CASE Passed(mem[r], i)
      BY <2>1, <3>5 DEF Passed
    <3>6. CASE x \in p.rows
      <4>1. IdOf(x) = i
        BY <3>2, <3>3 DEF IdOf
      <4>2. \E y \in m.kept : y.id = i
        BY <2>1, <3>6, <4>1, Zenon
      <4> QED BY <3>3, <4>2 DEF WithPage
    <3>7. CASE x \in Rest(r) /\ x \notin p.rows
      <4>1. p.next \in Rest(r) /\ p.next # NoCursor /\ Newer(p.next, x)
        BY <2>4, <3>7
      <4>2. p.next.id \in Nat /\ IdOf(p.next) = p.next.id
        BY <2>5, <4>1 DEF IdOf
      <4>3. CASE p.next.id < i
        BY <2>1, <4>1, <4>2, <4>3 DEF Passed
      <4>4. CASE i < p.next.id
        BY <2>1, <4>1, <4>4
      <4>5. CASE i = p.next.id
        <5>1. p.next \in p.rows
          <6>1. ~Newer(p.next, p.next)
            <7>1. p.next.at \in Int /\ p.next.id \in Int
              BY <2>5, <4>1
            <7> QED BY <7>1, NewerIsAnOrder
          <6> QED BY <2>4, <4>1, <6>1
        <5>2. \E y \in m.kept : y.id = i
          BY <2>1, <4>2, <4>5, <5>1, Zenon
        <5> QED BY <3>3, <5>2 DEF WithPage
      <4> QED BY <3>3, <4>2, <4>3, <4>4, <4>5
    <3>8. CASE x \notin Rest(r) /\ ~(mem[r].shown[i] > 0) /\ ~Passed(mem[r], i)
      <4>1. mem[r].cursor = NoCursor \/ i < mem[r].cursor.id
        BY <1>2, <2>3, <3>1, <3>8 DEF EntriesLeft
      <4> QED BY <2>5, <3>2, <3>8, <4>1
    <3> QED BY <3>4, <3>5, <3>6, <3>7, <3>8
  <2> QED BY <2>2, <2>6 DEF EntriesLeft
<1>3. CASE Send(r) /\ UNCHANGED req
  <2>1. pc[r] = "send"
    BY <1>3 DEF Send, At
  <2>2. PICK label, m :
              /\ Goes(r, label, m)
              /\ \/ label = "ok"
                 \/ /\ label = "page" /\ m.shown = Shown(r) /\ m.cursor = mem[r].cursor
                    /\ m.passed = mem[r].passed /\ mem[r].cursor # NoCursor
    BY <1>0, <1>3, SendShows
  <2>3. label = "page" /\ pc'[r] = "page" /\ mem'[r] = m
    BY <2>2, EndsAt DEF Working
  <2>4. \A i \in sure[r] : i \in Ids /\ Shown(r)[i] = WithPage(mem[r], i)
    BY ShownFacts DEF WithPage, Shape
  <2> QED BY <1>0, <1>3, <2>1, <2>2, <2>3, <2>4 DEF EntriesLeft, Passed
<1>4. CASE Step(r) /\ UNCHANGED req /\ ~ReadPage(r) /\ ~Send(r)
  <2>1. req[r].op \in AssetWalks \cup Single \/ pc[r] = "write"
    BY <1>4 DEF Step, Shape, Locals, Labels, Fits, ReadGroups, ReadAdmin, Filter, Log, Get,
                Verdict, Write, At
  <2>2. pc[r] = "write"
    BY <1>0, <1>4, <2>1 DEF Single, Writes
  <2>3. Write(r)
    BY <1>4, <2>2 DEF Step, ReadGroups, ReadAdmin, Filter, Log, Get, Verdict, At
  <2>4. pc'[r] \in {"ok", "notfound"}
    BY <1>4, <2>3, WriteGoes, EndsAt
  <2> QED BY <2>4
<1>5. CASE Fail(r) /\ UNCHANGED <<req, events>>
  <2>1. pc'[r] = "failed"
    BY <1>5, FailGoes, EndsAt
  <2> QED BY <2>1
<1> QED BY <1>1, <1>2, <1>3, <1>4, <1>5 DEF Moves

-----------------------------------------------------------------------------
(* Collections.                                                              *)

Place(c) == [id |-> -c, at |-> 0]

\* SQLite never shows what came just behind a page.
Due(m, c) == IF backend = "sqlite" /\ c \in m.passed THEN 0 ELSE 1

CollectionsLeft(r) ==
    req[r].op = "collections" =>
        /\ pc[r] = "page" => \A c \in sure[r] :
               IF ToCome(mem[r], Place(c)) THEN mem[r].shown[c] = 0 /\ c \notin mem[r].passed
               ELSE mem[r].shown[c] = Due(mem[r], c)
        /\ pc[r] = "send" => \A c \in sure[r] :
               IF Later(mem[r], Place(c)) THEN WithPage(mem[r], c) = 0 /\ c \notin mem[r].passed
               ELSE WithPage(mem[r], c) = Due(mem[r], c)

LEMMA CollectionsStay ==
    ASSUME NEW r \in Requests, CollectionsLeft(r), Noted(r), UNCHANGED backend,
           UNCHANGED <<pc[r], req[r], mem[r]>>
    PROVE  CollectionsLeft(r)'
<1>1. pc[r] \in {"page", "send"} => sure'[r] \subseteq sure[r]
  BY OwingNext DEF Working
<1> QED BY <1>1, Zenon DEF CollectionsLeft, Due

LEMMA MovesCollections ==
    ASSUME Shape, NEW r \in Requests, Owing(r), CollectionsLeft(r), Moves(r), Noted(r),
           UNCHANGED backend
    PROVE  CollectionsLeft(r)'
<1> SUFFICES ASSUME req'[r].op = "collections", pc'[r] \in {"page", "send"}
             PROVE  CollectionsLeft(r)'
  BY Zenon DEF CollectionsLeft
<1>0. /\ pc'[r] \in Working /\ (pc[r] # "idle" => sure'[r] \subseteq sure[r])
      /\ "collections" \notin AssetWalks
  BY OwingNext DEF Working, AssetWalks
<1>1. CASE Arrive(r) /\ UNCHANGED events
  <2>1. PICK q, label, m :
              /\ q \in Request /\ req' = [req EXCEPT ![r] = q] /\ Goes(r, label, m)
              /\ label = FirstLabel(q)
              /\ m = [NoMemory EXCEPT !.turn = 1] /\ m.turn = 1
              /\ m.page = {} /\ m.kept = {} /\ m.cursor = NoCursor /\ m.passed = {}
              /\ m.shown = [i \in Ids |-> 0] /\ m.lost = FALSE
    BY <1>1, ArriveGoes, Zenon
  <2>2. req'[r] = q
    BY <2>1 DEF Shape, Locals
  <2>3. FirstLabel(q) = "page"
    BY <1>0, <2>2 DEF FirstLabel
  <2>4. pc'[r] = "page" /\ mem'[r] = m
    <3>1. Goes(r, "page", m)
      BY <2>1, <2>3, Zenon
    <3>2. pc'[r] = "page" /\ ("page" \in Working => mem'[r] = m)
      BY <3>1, EndsAt, Zenon
    <3> QED BY <3>2 DEF Working
  <2>5. mem'[r].cursor = NoCursor /\ mem'[r].passed = {} /\ mem'[r].shown = [i \in Ids |-> 0]
    BY <2>1, <2>4, Zenon
  <2>6. sure'[r] \subseteq Ids
    <3>1. Owing(r)' /\ pc'[r] = "page"
      BY <2>4, OwingNext
    <3>2. sure'[r] \subseteq colls'
      BY <1>0, <3>1 DEF Owing, Shows, Working
    <3>3. colls' = colls /\ colls \subseteq Collections
      BY StepTables DEF Shape, Tables
    <3> QED BY <3>2, <3>3 DEF Ids
  <2> QED BY <2>4, <2>5, <2>6 DEF CollectionsLeft, ToCome
<1>2. CASE ReadPage(r) /\ UNCHANGED req
  <2>1. PICK p, m :
              /\ Goes(r, "send", m) /\ m.shown = mem[r].shown
              /\ p \in Pages(r) /\ m.cursor = p.next
              /\ m.passed = IF p.next = NoCursor THEN mem[r].passed
                            ELSE mem[r].passed \cup {IdOf(p.next)}
              /\ \A i : (\E y \in m.kept : y.id = i) <=> \E x \in p.rows : IdOf(x) = i
    BY <1>0, <1>2, ReadPageShows DEF Lists
  <2>2. pc'[r] = "send" /\ mem'[r] = m
    BY <2>1, EndsAt DEF Working
  <2>3. pc[r] = "page" /\ Memory(mem[r]) /\ req[r].op = "collections"
    BY <1>2 DEF ReadPage, At, Shape, Locals
  <2>4. /\ p.rows \subseteq Rest(r)
        /\ p.next = NoCursor => p.rows = Rest(r)
        /\ p.next # NoCursor =>
              /\ p.next \in Rest(r)
              /\ \A x \in Rest(r) :
                    IF backend = "sqlite" THEN x \in p.rows <=> Newer(x, p.next)
                    ELSE x \in p.rows <=> ~Newer(p.next, x)
    BY <2>1, <2>3, PageSplits DEF NamesBeyond, Unordered
  <2>5. colls \subseteq Nat \ {0} /\ colls \subseteq Ids
    BY ReadsAssumption DEF Shape, Tables, Ids
  <2>6. \A x \in Rest(r) : /\ \E c \in colls : x = Place(c) /\ IdOf(x) = c
                           /\ ToCome(mem[r], x)
    <3>1. Rest(r) = Behind(Keys(req[r]), mem[r].cursor)
      BY <2>3 DEF Rest
    <3>2. Keys(req[r]) = {Place(c) : c \in colls}
      BY <1>0, <2>3 DEF Keys, Place
    <3>3. ASSUME NEW c \in colls PROVE IdOf(Place(c)) = c
      <4>1. c \in Nat /\ c # 0
        BY <2>5
      <4>2. Place(c).id = -c
        BY DEF Place
      <4> QED BY <4>1, <4>2 DEF IdOf
    <3> QED BY <3>1, <3>2, <3>3 DEF Behind, ToCome
  <2>7. \A c \in colls : ToCome(mem[r], Place(c)) => Place(c) \in Rest(r)
    <3>1. Rest(r) = Behind(Keys(req[r]), mem[r].cursor)
      BY <2>3 DEF Rest
    <3>2. Keys(req[r]) = {Place(c) : c \in colls}
      BY <1>0, <2>3 DEF Keys, Place
    <3> QED BY <3>1, <3>2 DEF Behind, ToCome
  <2>8. ASSUME NEW c \in sure'[r]
        PROVE  IF Later(m, Place(c)) THEN WithPage(m, c) = 0 /\ c \notin m.passed
               ELSE WithPage(m, c) = Due(m, c)
    <3>1. c \in sure[r] /\ c \in colls
      BY <1>0, <1>2, <2>3 DEF Owing, Working, Shows
    <3>2. /\ c \in Nat \ {0} /\ m.shown[c] = mem[r].shown[c] /\ mem[r].shown[c] \in Nat
          /\ Place(c).at \in Int /\ Place(c).id \in Int /\ Place(c) \in Keyset
      BY <2>1, <2>3, <2>5, <3>1 DEF Memory, Place, Keyset
    <3>3. WithPage(m, c) = mem[r].shown[c] + (IF Place(c) \in p.rows THEN 1 ELSE 0)
      <4>1. (\E y \in m.kept : y.id = c) <=> Place(c) \in p.rows
        <5>1. \A x \in p.rows : IdOf(x) = c => x = Place(c)
          BY <2>4, <2>6
        <5>2. IdOf(Place(c)) = c
          BY <3>2 DEF IdOf, Place
        <5> QED BY <2>1, <5>1, <5>2, Zenon
      <4> QED BY <2>1, <4>1 DEF WithPage
    <3>4. p.next # NoCursor =>
             /\ p.next.at \in Int /\ p.next.id \in Int /\ p.next \in Keyset
             /\ IdOf(p.next) = c <=> p.next = Place(c)
             /\ c \in m.passed <=> c \in mem[r].passed \/ p.next = Place(c)
      <4> SUFFICES ASSUME p.next # NoCursor
                   PROVE  /\ p.next.at \in Int /\ p.next.id \in Int /\ p.next \in Keyset
                          /\ IdOf(p.next) = c <=> p.next = Place(c)
                          /\ c \in m.passed <=> c \in mem[r].passed \/ p.next = Place(c)
        OBVIOUS
      <4>1. PICK d \in colls : p.next = Place(d) /\ IdOf(p.next) = d
        BY <2>4, <2>6
      <4>2. IdOf(Place(c)) = c
        BY <3>2 DEF IdOf, Place
      <4>3. d \in Nat
        BY <2>5
      <4> QED BY <2>1, <4>1, <4>2, <4>3 DEF Place, Keyset
    <3>5. CASE ToCome(mem[r], Place(c))
      <4>1. mem[r].shown[c] = 0 /\ c \notin mem[r].passed /\ Place(c) \in Rest(r)
        BY <1>2, <2>3, <2>7, <3>1, <3>5 DEF CollectionsLeft
      <4>2. CASE p.next = NoCursor
        <5>1. ~Later(m, Place(c)) /\ c \notin m.passed /\ Place(c) \in p.rows
          BY <2>1, <2>4, <4>1, <4>2 DEF Later
        <5> QED BY <3>3, <4>1, <5>1 DEF Due
      <4>3. CASE p.next # NoCursor /\ backend = "sqlite"
        <5>1. Place(c) \in p.rows <=> Newer(Place(c), p.next)
          BY <2>4, <4>1, <4>3
        <5>2. Later(m, Place(c)) <=> Newer(p.next, Place(c))
          BY <2>1, <4>3 DEF Later
        <5>3. /\ Newer(p.next, Place(c)) => ~Newer(Place(c), p.next) /\ p.next # Place(c)
              /\ p.next = Place(c) \/ Newer(p.next, Place(c)) \/ Newer(Place(c), p.next)
              /\ p.next = Place(c) => ~Newer(Place(c), p.next)
              /\ Newer(Place(c), p.next) => ~Newer(p.next, Place(c))
          BY <3>2, <3>4, <4>3, NewerIsAnOrder
        <5> QED BY <3>3, <3>4, <4>1, <4>3, <5>1, <5>2, <5>3 DEF Due
      <4>4. CASE p.next # NoCursor /\ backend # "sqlite"
        <5>1. Place(c) \in p.rows <=> ~Newer(p.next, Place(c))
          BY <2>4, <4>1, <4>4
        <5>2. Later(m, Place(c)) <=> Newer(p.next, Place(c))
          BY <2>1, <4>4 DEF Later
        <5>3. p.next = Place(c) => ~Newer(p.next, Place(c))
          BY <3>2, <3>4, <4>4, NewerIsAnOrder
        <5> QED BY <3>3, <3>4, <4>1, <4>4, <5>1, <5>2, <5>3 DEF Due
      <4> QED BY <4>2, <4>3, <4>4
    <3>6. CASE ~ToCome(mem[r], Place(c))
      <4>1. mem[r].shown[c] = Due(mem[r], c)
        BY <1>2, <2>3, <3>1, <3>6 DEF CollectionsLeft
      <4>2. Place(c) \notin Rest(r) /\ Place(c) \notin p.rows
        BY <2>4, <2>6, <3>6
      <4>3. ~Later(m, Place(c)) /\ (c \in m.passed <=> c \in mem[r].passed)
        <5>1. CASE p.next = NoCursor
          BY <2>1, <5>1 DEF Later
        <5>2. CASE p.next # NoCursor
          <6>1. p.next \in Rest(r) /\ Newer(mem[r].cursor, p.next)
                /\ ~Newer(mem[r].cursor, Place(c)) /\ p.next # Place(c)
            BY <2>4, <2>6, <3>6, <4>2, <5>2 DEF ToCome
          <6>2. mem[r].cursor.at \in Int /\ mem[r].cursor.id \in Int
            BY <2>3 DEF Memory, Key
          <6>3. ~Newer(p.next, Place(c))
            BY <3>2, <3>4, <5>2, <6>1, <6>2, NewerIsAnOrder
          <6> QED BY <2>1, <3>4, <5>2, <6>1, <6>3 DEF Later
        <5> QED BY <5>1, <5>2
      <4> QED BY <3>2, <3>3, <4>1, <4>2, <4>3 DEF Due
    <3> QED BY <3>5, <3>6
  <2>9. backend' = backend
    OBVIOUS
  <2> QED BY <2>2, <2>8, <2>9 DEF CollectionsLeft, Due
<1>3. CASE Send(r) /\ UNCHANGED req
  <2>1. pc[r] = "send"
    BY <1>3 DEF Send, At
  <2>2. PICK label, m :
              /\ Goes(r, label, m)
              /\ \/ label = "ok"
                 \/ /\ label = "page" /\ m.shown = Shown(r) /\ m.cursor = mem[r].cursor
                    /\ m.passed = mem[r].passed /\ mem[r].cursor # NoCursor
    BY <1>0, <1>3, SendShows
  <2>3. label = "page" /\ pc'[r] = "page" /\ mem'[r] = m
    BY <2>2, EndsAt DEF Working
  <2>4. \A i \in sure[r] : i \in Ids /\ Shown(r)[i] = WithPage(mem[r], i)
    BY ShownFacts DEF WithPage, Shape
  <2>5. \A c : ToCome(m, Place(c)) <=> Later(mem[r], Place(c))
    BY <2>2, <2>3 DEF ToCome, Later
  <2>6. backend' = backend
    OBVIOUS
  <2> QED BY <1>0, <1>3, <2>1, <2>2, <2>3, <2>4, <2>5, <2>6 DEF CollectionsLeft, Due
<1>4. CASE Step(r) /\ UNCHANGED req /\ ~ReadPage(r) /\ ~Send(r)
  <2>1. req[r].op \in AssetWalks \cup Single \/ pc[r] = "write"
    BY <1>4 DEF Step, Shape, Locals, Labels, Fits, ReadGroups, ReadAdmin, Filter, Log, Get,
                Verdict, Write, At
  <2>2. pc[r] = "write"
    BY <1>0, <1>4, <2>1 DEF Single, Writes
  <2>3. Write(r)
    BY <1>4, <2>2 DEF Step, ReadGroups, ReadAdmin, Filter, Log, Get, Verdict, At
  <2>4. pc'[r] \in {"ok", "notfound"}
    BY <1>4, <2>3, WriteGoes, EndsAt
  <2> QED BY <2>4
<1>5. CASE Fail(r) /\ UNCHANGED <<req, events>>
  <2>1. pc'[r] = "failed"
    BY <1>5, FailGoes, EndsAt
  <2> QED BY <2>1
<1> QED BY <1>1, <1>2, <1>3, <1>4, <1>5 DEF Moves

-----------------------------------------------------------------------------
(* Walks over assets.                                                        *)

\* The key of an asset in the order of a walk.
Mark(r, a) == [id |-> Sign(req[r]) * a, at |-> Sign(req[r]) * Stamp(req[r], a)]

\* What a walk has to show: after a lookup that failed, what anybody may view.
Owed(r) == plain[r] \cup (IF mem[r].lost THEN {} ELSE sure[r])

\* The caller has been looked up since the walk began.
Known(r) ==
    pc[r] \in Working /\ req[r].op \in AssetWalks => NativeOf(req[r].by.sub) \in past[r].natives

WalkLeft(r) ==
    req[r].op \in AssetWalks =>
        /\ pc[r] \in {"groups", "admin", "page"} => \A a \in Owed(r) :
               mem[r].shown[a] = IF ToCome(mem[r], Mark(r, a)) THEN 0 ELSE 1
        /\ pc[r] \in {"admin", "page"} /\ ~mem[r].lost =>
               mem[r].landed /\ req[r].by.token \cup Throughout(past[r].natives) \subseteq mem[r].groups
        /\ pc[r] = "page" /\ ~mem[r].lost /\ Admins \in Throughout(past[r].natives) => mem[r].bypass
        /\ pc[r] = "filter" => \A a \in Owed(r) :
               /\ mem[r].shown[a] + (IF \E x \in mem[r].page : x.id = a THEN 1 ELSE 0)
                      = IF Later(mem[r], Mark(r, a)) THEN 0 ELSE 1
               /\ \A x \in mem[r].page : x.id = a =>
                      mem[r].bypass \/ CheckPermission(Principal(r), mem[r].groups, "View", x)
        /\ pc[r] \in {"log", "send"} => \A a \in Owed(r) :
               WithPage(mem[r], a) = IF Later(mem[r], Mark(r, a)) THEN 0 ELSE 1

LEMMA KnownNext ==
    ASSUME NEW r \in Requests, Noted(r)
    PROVE  /\ Known(r)'
           /\ pc'[r] \in Working => Throughout(past'[r].natives) \subseteq Throughout(past[r].natives)
<1>1. ASSUME pc'[r] \in Working
      PROVE  /\ past'[r].natives = past[r].natives \cup Seen(req[r])'.natives
             /\ past[r].natives \subseteq past'[r].natives
  BY <1>1 DEF Noted
<1>2. Known(r)'
  <2> SUFFICES ASSUME pc'[r] \in Working, req'[r].op \in AssetWalks
               PROVE  NativeOf(req[r].by.sub)' \in past'[r].natives
    BY Zenon DEF Known
  <2>1. Seen(req[r])'.natives = {NativeOf(req[r].by.sub)'}
    BY DEF Seen
  <2> QED BY <1>1, <2>1
<1>3. \A S, T : S \subseteq T => Throughout(T) \subseteq Throughout(S)
  BY DEF Throughout
<1> QED BY <1>1, <1>2, <1>3

\* What is owed after a step was owed before it, at the same place in the order.
LEMMA OwedStays ==
    ASSUME NEW r \in Requests, Noted(r), pc[r] # "idle", pc'[r] \in Working,
           UNCHANGED req[r], req[r].op \in AssetWalks, mem[r].lost => mem'[r].lost, UNCHANGED born
    PROVE  /\ Owed(r)' \subseteq Owed(r)
           /\ \A a \in Owed(r)' : a \in Assets => Mark(r, a)' = Mark(r, a)
<1>1. sure'[r] \subseteq sure[r] \ Moved(req[r]) /\ plain'[r] \subseteq plain[r] \ Moved(req[r])
  BY OwingNext
<1>2. Owed(r)' \subseteq Owed(r) \ Moved(req[r])
  BY <1>1 DEF Owed
<1>3. ASSUME NEW a \in Assets, a \notin Moved(req[r]) PROVE Mark(r, a)' = Mark(r, a)
  <2>1. CASE req[r].op = "list" /\ req[r].sort = "created_at"
    BY <2>1, Zenon DEF Mark, Sign, Stamp
  <2>2. CASE ~(req[r].op = "list" /\ req[r].sort = "created_at")
    <3>1. at'[a] = at[a]
      BY <1>3, <2>2 DEF Moved
    <3> QED BY <2>2, <3>1, Zenon DEF Mark, Sign, Stamp
  <2> QED BY <2>1, <2>2
<1> QED BY <1>2, <1>3

LEMMA OwedAssets ==
    ASSUME NEW r \in Requests, Owing(r), pc[r] \in Working, req[r].op \in AssetWalks
    PROVE  /\ Owed(r) \subseteq {a \in Assets : Live(a)}
           /\ Unordered(r) => \A a \in Owed(r) : Alone(a)
           /\ \A a \in plain[r] : CheckPermission(Bare(req[r].by), {}, "View", Row(a))
           /\ \A a \in sure[r] :
                 \/ Admins \in Throughout(past[r].natives)
                 \/ CheckPermission(req[r].by,
                        req[r].by.token \cup Throughout(past[r].natives), "View", Row(a))
<1>1. /\ sure[r] \subseteq Entitled(req[r], Throughout(past[r].natives)) \cap Ordered(req[r])
      /\ plain[r] \subseteq Unconditional(req[r]) \cap Ordered(req[r])
  <2>1. Shows(req[r], past[r].natives)
          = Entitled(req[r], Throughout(past[r].natives)) \cap Ordered(req[r])
    BY DEF Shows, AssetWalks
  <2>2. ShowsAnyone(req[r]) = Unconditional(req[r]) \cap Ordered(req[r])
    BY DEF ShowsAnyone
  <2> QED BY <2>1, <2>2, Zenon DEF Owing
<1>2. Owed(r) \subseteq sure[r] \cup plain[r]
  BY DEF Owed
<1>3. Unordered(r) => \A a \in Ordered(req[r]) : Alone(a)
  BY Zenon DEF Unordered, Ordered
<1> QED BY <1>1, <1>2, <1>3 DEF Entitled, Unconditional

LEMMA WalkCarries ==
    ASSUME NEW r \in Requests, WalkLeft(r), UNCHANGED <<pc[r], req[r], mem[r]>>,
           \A a \in Owed(r)' : a \in Owed(r) /\ Mark(r, a)' = Mark(r, a),
           Throughout(past[r].natives)' \subseteq Throughout(past[r].natives)
    PROVE  WalkLeft(r)'
<1> SUFFICES ASSUME req[r].op \in AssetWalks,
                    pc[r] \in {"groups", "admin", "page", "filter", "log", "send"}
             PROVE  WalkLeft(r)'
  BY Zenon DEF WalkLeft
<1>1. pc'[r] = pc[r] /\ req'[r] = req[r] /\ mem'[r] = mem[r]
  OBVIOUS
<1>2. Throughout(past[r].natives)' \subseteq Throughout(past[r].natives)
  OBVIOUS
<1>3. \A a \in Owed(r)' : a \in Owed(r) /\ Mark(r, a)' = Mark(r, a)
  OBVIOUS
<1>4. Principal(r)' = Principal(r)
  BY <1>1, Zenon DEF Principal
<1>5. pc[r] \in {"groups", "admin", "page"} => \A a \in Owed(r)' :
               mem'[r].shown[a] = IF ToCome(mem'[r], Mark(r, a)') THEN 0 ELSE 1
  BY <1>1, <1>3 DEF WalkLeft
<1>6. pc[r] \in {"log", "send"} => \A a \in Owed(r)' :
               WithPage(mem'[r], a) = IF Later(mem'[r], Mark(r, a)') THEN 0 ELSE 1
  BY <1>1, <1>3 DEF WalkLeft
<1>7. pc[r] = "filter" => \A a \in Owed(r)' :
               /\ mem'[r].shown[a] + (IF \E x \in mem'[r].page : x.id = a THEN 1 ELSE 0)
                      = IF Later(mem'[r], Mark(r, a)') THEN 0 ELSE 1
               /\ \A x \in mem'[r].page : x.id = a =>
                      mem'[r].bypass \/ CheckPermission(Principal(r)', mem'[r].groups, "View", x)
  <2>1. pc[r] = "filter" => \A a \in Owed(r)' :
               mem'[r].shown[a] + (IF \E x \in mem'[r].page : x.id = a THEN 1 ELSE 0)
                   = IF Later(mem'[r], Mark(r, a)') THEN 0 ELSE 1
    BY <1>1, <1>3 DEF WalkLeft
  <2>2. pc[r] = "filter" => \A a \in Owed(r) : \A x \in mem[r].page : x.id = a =>
               mem[r].bypass \/ CheckPermission(Principal(r), mem[r].groups, "View", x)
    BY Zenon DEF WalkLeft
  <2>3. pc[r] = "filter" => \A a \in Owed(r)' : \A x \in mem'[r].page : x.id = a =>
               mem'[r].bypass \/ CheckPermission(Principal(r)', mem'[r].groups, "View", x)
    BY <1>1, <1>3, <1>4, <2>2, Zenon
  <2> QED BY <2>1, <2>3, Zenon
<1>8. /\ pc[r] \in {"admin", "page"} /\ ~mem[r].lost =>
               /\ mem[r].landed
               /\ req[r].by.token \cup Throughout(past[r].natives)' \subseteq mem[r].groups
      /\ pc[r] = "page" /\ ~mem[r].lost /\ Admins \in Throughout(past[r].natives)' => mem[r].bypass
  BY <1>2 DEF WalkLeft
<1> QED BY <1>1, <1>5, <1>6, <1>7, <1>8, Zenon DEF WalkLeft

LEMMA WalkStays ==
    ASSUME NEW r \in Requests, WalkLeft(r), Owing(r), Noted(r), UNCHANGED born,
           UNCHANGED <<pc[r], req[r], mem[r]>>
    PROVE  WalkLeft(r)'
<1>1. CASE req[r].op \in AssetWalks /\ pc[r] \in Working
  <2>1. /\ pc'[r] = pc[r] /\ req'[r] = req[r] /\ mem'[r] = mem[r] /\ pc[r] # "idle"
    BY <1>1 DEF Working
  <2>2. /\ Owed(r)' \subseteq Owed(r) /\ (\A a \in Owed(r)' : a \in Assets => Mark(r, a)' = Mark(r, a))
        /\ Owed(r) \subseteq Assets
        /\ Throughout(past'[r].natives) \subseteq Throughout(past[r].natives)
    BY <1>1, <2>1, OwedStays, OwedAssets, KnownNext
  <2>3. Throughout(past'[r].natives) = Throughout(past[r].natives)'
    BY DEF Throughout
  <2>4. \A a \in Owed(r)' : a \in Owed(r) /\ Mark(r, a)' = Mark(r, a)
    BY <2>2
  <2> QED BY <2>2, <2>3, <2>4, WalkCarries
<1>2. CASE ~(req[r].op \in AssetWalks /\ pc[r] \in Working)
  <2>1. pc'[r] = pc[r] /\ req'[r] = req[r]
        /\ (req[r].op \in AssetWalks => pc[r] \notin {"groups", "admin", "page", "filter", "log", "send"})
    BY <1>2 DEF Working
  <2> QED BY <2>1, Zenon DEF WalkLeft
<1> QED BY <1>1, <1>2

\* A page of assets as it is read.
LEMMA ReadAssets ==
    ASSUME Shape, NEW r \in Requests, ReadPage(r), UNCHANGED req, req[r].op \in AssetWalks
    PROVE  \E p, m :
              /\ Goes(r, "filter", m) /\ KeepsCaller(m, mem[r]) /\ m.shown = mem[r].shown
              /\ p \in Pages(r) /\ m.cursor = p.next
              /\ \A i : (\E y \in m.page : y.id = i) <=> \E x \in p.rows : IdOf(x) = i
              /\ \A y \in m.page : y = Row(y.id)
<1>1. PICK p, ids, label, m :
              /\ Goes(r, label, m) /\ KeepsCaller(m, mem[r])
              /\ m.shown = mem[r].shown /\ m.turn = mem[r].turn
              /\ p \in Pages(r) /\ ids = {IdOf(x) : x \in p.rows} /\ m.cursor = p.next
              /\ m.passed = IF p.next = NoCursor THEN mem[r].passed
                            ELSE mem[r].passed \cup {IdOf(p.next)}
              /\ label = IF req[r].op \in AssetWalks THEN "filter" ELSE "send"
              /\ m.page = IF req[r].op \in AssetWalks THEN {Row(a) : a \in ids}
                          ELSE {[id |-> i] : i \in ids}
              /\ req[r].op \notin AssetWalks => m.kept = m.page
  BY ReadPageGoes, Zenon
<1>2. label = "filter" /\ m.page = {Row(a) : a \in ids}
  BY <1>1
<1>3. \A a : Row(a).id = a
  BY DEF Row
<1>4. /\ \A y \in m.page : y.id \in ids /\ y = Row(y.id)
      /\ \A a \in ids : Row(a) \in m.page
  BY <1>2, <1>3, Zenon
<1>5. \A i : i \in ids <=> \E x \in p.rows : IdOf(x) = i
  BY <1>1
<1>6. \A i : (\E y \in m.page : y.id = i) <=> \E x \in p.rows : IdOf(x) = i
  BY <1>3, <1>4, <1>5, Zenon
<1>7. Goes(r, "filter", m)
  BY <1>1, <1>2, Zenon
<1> QED BY <1>1, <1>4, <1>6, <1>7, Zenon

\* A page holds what was to come of what is owed and no longer is; the caller
\* may view it as it was looked up.
LEMMA MovesPage ==
    ASSUME Shape, NEW r \in Requests, Owing(r), WalkLeft(r), ReadPage(r), UNCHANGED req,
           req[r].op \in AssetWalks
    PROVE  \E m :
              /\ Goes(r, "filter", m) /\ KeepsCaller(m, mem[r])
              /\ \A a \in Owed(r) :
                    /\ m.shown[a] + (IF \E x \in m.page : x.id = a THEN 1 ELSE 0)
                           = IF Later(m, Mark(r, a)) THEN 0 ELSE 1
                    /\ \A x \in m.page : x.id = a =>
                           m.bypass \/ CheckPermission(Principal(r), m.groups, "View", x)
<1>1. PICK p, m :
              /\ Goes(r, "filter", m) /\ KeepsCaller(m, mem[r]) /\ m.shown = mem[r].shown
              /\ p \in Pages(r) /\ m.cursor = p.next
              /\ \A i : (\E y \in m.page : y.id = i) <=> \E x \in p.rows : IdOf(x) = i
              /\ \A y \in m.page : y = Row(y.id)
  BY ReadAssets, Zenon
<1>2. pc[r] = "page" /\ pc[r] \in Working /\ Memory(mem[r]) /\ req[r] \in Request
      /\ req[r].by \in Callers
  <2>1. pc[r] = "page" /\ pc[r] \in Working /\ Memory(mem[r]) /\ req[r] \in Request
    BY DEF ReadPage, At, Shape, Locals, Labels, Working
  <2> QED BY <2>1, RequestFields
<1>3. /\ p.rows \subseteq Rest(r)
      /\ p.next = NoCursor => p.rows = Rest(r)
      /\ p.next # NoCursor =>
            /\ p.next \in Rest(r)
            /\ \A x \in Rest(r) :
                  (Unordered(r) => \A y \in Rest(r) : y.at = x.at => y = x)
                  => (x \in p.rows <=> ~Newer(p.next, x))
  <2>1. ~NamesBeyond(r)
    BY DEF NamesBeyond, AssetWalks
  <2> QED BY <1>1, <1>2, <2>1, PageSplits, Zenon
<1>4. /\ Owed(r) \subseteq {a \in Assets : Live(a)}
      /\ Unordered(r) => \A a \in Owed(r) : Alone(a)
      /\ \A a \in plain[r] : CheckPermission(Bare(req[r].by), {}, "View", Row(a))
      /\ \A a \in sure[r] :
            \/ Admins \in Throughout(past[r].natives)
            \/ CheckPermission(req[r].by,
                   req[r].by.token \cup Throughout(past[r].natives), "View", Row(a))
  BY <1>2, OwedAssets
<1>5. /\ \A x \in Rest(r) : /\ \E a \in Assets : Live(a) /\ x = Mark(r, a) /\ IdOf(x) = a
                            /\ ToCome(mem[r], x)
      /\ \A a \in Assets : Live(a) /\ ToCome(mem[r], Mark(r, a)) => Mark(r, a) \in Rest(r)
      /\ \A a \in Assets : IdOf(Mark(r, a)) = a /\ Mark(r, a) \in Keyset
                           /\ Mark(r, a).at \in Int /\ Mark(r, a).id \in Int
  <2>1. Rest(r) = Behind(Keys(req[r]), mem[r].cursor)
    BY DEF Rest, AssetWalks
  <2>2. Keys(req[r]) = {Mark(r, a) : a \in {b \in Assets : Live(b)}}
    BY DEF Keys, Mark, AssetWalks
  <2>3. ASSUME NEW a \in Assets
        PROVE  IdOf(Mark(r, a)) = a /\ Mark(r, a) \in Keyset
               /\ Mark(r, a).at \in Int /\ Mark(r, a).id \in Int
    <3>1. PICK sign \in {1, -1} : sign = Sign(req[r])
      BY DEF Sign
    <3>2. PICK stamp \in Int : stamp = Stamp(req[r], a)
      BY ReadsAssumption DEF Stamp, Shape, Tables
    <3>3. Mark(r, a) = [id |-> sign * a, at |-> sign * stamp]
      BY <3>1, <3>2 DEF Mark
    <3>4. a \in Nat /\ a # 0
      BY ReadsAssumption
    <3>5. CASE sign = 1
      BY <3>2, <3>3, <3>4, <3>5 DEF IdOf, Keyset
    <3>6. CASE sign = -1
      BY <3>2, <3>3, <3>4, <3>6 DEF IdOf, Keyset
    <3> QED BY <3>5, <3>6
  <2>4. \A x \in Rest(r) : \E a \in Assets : Live(a) /\ x = Mark(r, a) /\ IdOf(x) = a
    BY <2>1, <2>2, <2>3 DEF Behind
  <2>5. \A x \in Rest(r) : ToCome(mem[r], x)
    BY <2>1 DEF Behind, ToCome
  <2>6. \A a \in Assets : Live(a) /\ ToCome(mem[r], Mark(r, a)) => Mark(r, a) \in Rest(r)
    BY <2>1, <2>2 DEF Behind, ToCome
  <2> QED BY <2>3, <2>4, <2>5, <2>6
<1>6. ASSUME NEW a \in Owed(r)
      PROVE  m.shown[a] + (IF \E x \in m.page : x.id = a THEN 1 ELSE 0)
                 = IF Later(m, Mark(r, a)) THEN 0 ELSE 1
  <2>1. a \in Assets /\ Live(a)
    BY <1>4
  <2>2. (\E x \in m.page : x.id = a) <=> Mark(r, a) \in p.rows
    <3>1. \A x \in p.rows : IdOf(x) = a => x = Mark(r, a)
      BY <1>3, <1>5
    <3>2. IdOf(Mark(r, a)) = a
      BY <1>5, <2>1
    <3> QED BY <1>1, <3>1, <3>2, Zenon
  <2>3. m.shown[a] = IF ToCome(mem[r], Mark(r, a)) THEN 0 ELSE 1
    BY <1>1, <1>2 DEF WalkLeft
  <2>4. Mark(r, a) \in Keyset /\ Mark(r, a).at \in Int /\ Mark(r, a).id \in Int
    BY <1>5, <2>1
  <2>5. CASE ToCome(mem[r], Mark(r, a))
    <3>1. Mark(r, a) \in Rest(r)
      BY <1>5, <2>1, <2>5
    <3>2. Mark(r, a) \in p.rows <=> ~Later(m, Mark(r, a))
      <4>1. CASE p.next = NoCursor
        BY <1>1, <1>3, <3>1, <4>1 DEF Later
      <4>2. CASE p.next # NoCursor
        <5>1. Unordered(r) => \A y \in Rest(r) : y.at = Mark(r, a).at => y = Mark(r, a)
          <6> SUFFICES ASSUME Unordered(r), NEW y \in Rest(r), y.at = Mark(r, a).at
                       PROVE  y = Mark(r, a)
            OBVIOUS
          <6>1. PICK b \in Assets : Live(b) /\ y = Mark(r, b)
            BY <1>5
          <6>2. \A d \in Assets : Mark(r, d).at = at[d]
            <7>1. Sign(req[r]) = 1
              BY DEF Unordered, Sign
            <7>2. \A d \in Assets : Stamp(req[r], d) = at[d] /\ at[d] \in Int
              BY ReadsAssumption DEF Unordered, Stamp, Shape, Tables
            <7> QED BY <7>1, <7>2 DEF Mark
          <6>3. b = a
            BY <1>4, <2>1, <6>1, <6>2 DEF Alone
          <6> QED BY <6>1, <6>3
        <5>2. Mark(r, a) \in p.rows <=> ~Newer(p.next, Mark(r, a))
          BY <1>3, <3>1, <4>2, <5>1
        <5> QED BY <1>1, <4>2, <5>2 DEF Later
      <4> QED BY <4>1, <4>2
    <3> QED BY <2>2, <2>3, <2>5, <3>2
  <2>6. CASE ~ToCome(mem[r], Mark(r, a))
    <3>1. Mark(r, a) \notin p.rows /\ Mark(r, a) \notin Rest(r)
      BY <1>3, <1>5, <2>6
    <3>2. ~Later(m, Mark(r, a))
      <4>1. CASE p.next = NoCursor
        BY <1>1, <4>1 DEF Later
      <4>2. CASE p.next # NoCursor
        <5>1. /\ p.next \in Rest(r) /\ p.next # Mark(r, a)
              /\ mem[r].cursor # NoCursor
              /\ Newer(mem[r].cursor, p.next) /\ ~Newer(mem[r].cursor, Mark(r, a))
          BY <1>3, <1>5, <2>6, <3>1, <4>2 DEF ToCome
        <5>2. mem[r].cursor.at \in Int /\ mem[r].cursor.id \in Int
          BY <1>2 DEF Memory, Key
        <5>3. p.next.at \in Int /\ p.next.id \in Int
          BY <1>5, <5>1
        <5>4. ~Newer(p.next, Mark(r, a))
          BY <2>4, <5>1, <5>2, <5>3, NewerIsAnOrder
        <5> QED BY <1>1, <4>2, <5>4 DEF Later
      <4> QED BY <4>1, <4>2
    <3> QED BY <2>2, <2>3, <2>6, <3>1, <3>2
  <2> QED BY <2>5, <2>6
<1>7. ASSUME NEW a \in Owed(r), NEW x \in m.page, x.id = a
      PROVE  m.bypass \/ CheckPermission(Principal(r), m.groups, "View", x)
  <2>1. x = Row(a) /\ m.groups = mem[r].groups /\ m.bypass = mem[r].bypass
    BY <1>1, <1>7 DEF KeepsCaller
  <2>2. PICK y : y = Row(a)
    OBVIOUS
  <2>3. PICK by : by = req[r].by
    OBVIOUS
  <2>4. PICK q : q = Principal(r)
    OBVIOUS
  <2>5. by \in Callers /\ q \in {by, Bare(by)} /\ (mem[r].landed => q = by)
    BY <1>2, <2>3, <2>4 DEF Principal
  <2>6. CASE a \in plain[r]
    <3>1. CheckPermission(Bare(by), {}, "View", y)
      BY <1>4, <2>2, <2>3, <2>6, Zenon
    <3>2. PICK o : o = Bare(by)
      OBVIOUS
    <3>3. CheckPermission(o, {}, "View", y) /\ o \in {by, Bare(by)} /\ q \in {by, o}
      BY <2>5, <3>1, <3>2
    <3>4. CheckPermission(q, mem[r].groups, "View", y)
      <4>1. PICK H : H = mem[r].groups
        OBVIOUS
      <4>2. CheckPermission(q, H, "View", y)
        BY <2>5, <3>3, MoreIsAllowed
      <4> QED BY <4>1, <4>2, Zenon
    <3> QED BY <2>1, <2>2, <2>4, <3>4, Zenon
  <2>7. CASE a \in sure[r] /\ ~mem[r].lost
    <3>1. /\ mem[r].landed /\ by.token \cup Throughout(past[r].natives) \subseteq mem[r].groups
          /\ Admins \in Throughout(past[r].natives) => mem[r].bypass
      BY <1>2, <2>3, <2>7 DEF WalkLeft
    <3>2. CASE Admins \in Throughout(past[r].natives)
      BY <2>1, <3>1, <3>2
    <3>3. CASE Admins \notin Throughout(past[r].natives)
      <4>1. PICK G, H : G = (by.token \cup Throughout(past[r].natives)) /\ H = mem[r].groups
        OBVIOUS
      <4>2. CheckPermission(by, G, "View", y)
        BY <1>4, <2>2, <2>3, <2>7, <3>3, <4>1, Zenon
      <4>3. G \subseteq H /\ q = by
        BY <2>5, <3>1, <4>1
      <4>4. CheckPermission(q, H, "View", y)
        BY <2>5, <4>2, <4>3, MoreIsAllowed
      <4> QED BY <2>1, <2>2, <2>4, <4>1, <4>4, Zenon
    <3> QED BY <3>2, <3>3
  <2> QED BY <2>6, <2>7 DEF Owed
<1> QED BY <1>1, <1>6, <1>7, Zenon

LEMMA MovesWalk ==
    ASSUME Shape, Shape', NEW r \in Requests, Owing(r), Known(r), WalkLeft(r), Moves(r), Noted(r),
           UNCHANGED born
    PROVE  WalkLeft(r)'
<1> SUFFICES ASSUME req'[r].op \in AssetWalks,
                    pc'[r] \in {"groups", "admin", "page", "filter", "log", "send"}
             PROVE  WalkLeft(r)'
  BY Zenon DEF WalkLeft
<1>0. pc'[r] \in Working
  BY DEF Working
<1>1. CASE Arrive(r) /\ UNCHANGED events
  <2>1. PICK q, label, m :
              /\ q \in Request /\ req' = [req EXCEPT ![r] = q] /\ Goes(r, label, m)
              /\ label = FirstLabel(q)
              /\ m = [NoMemory EXCEPT !.turn = 1] /\ m.turn = 1
              /\ m.page = {} /\ m.kept = {} /\ m.cursor = NoCursor /\ m.passed = {}
              /\ m.shown = [i \in Ids |-> 0] /\ m.lost = FALSE
    BY <1>1, ArriveGoes, Zenon
  <2>2. req'[r] = q
    BY <2>1 DEF Shape, Locals
  <2>3. FirstLabel(q) = "groups"
    BY <2>2 DEF FirstLabel, AssetWalks
  <2>4. pc'[r] = "groups" /\ mem'[r] = m
    <3>1. Goes(r, "groups", m)
      BY <2>1, <2>3, Zenon
    <3>2. pc'[r] = "groups" /\ ("groups" \in Working => mem'[r] = m)
      BY <3>1, EndsAt, Zenon
    <3> QED BY <3>2 DEF Working
  <2>5. mem'[r].cursor = NoCursor /\ mem'[r].shown = [i \in Ids |-> 0]
    BY <2>1, <2>4, Zenon
  <2>6. Owed(r)' \subseteq Ids
    <3>1. sure'[r] \subseteq Ids /\ plain'[r] \subseteq Ids
      BY DEF Shape
    <3> QED BY <3>1 DEF Owed
  <2> QED BY <2>4, <2>5, <2>6 DEF WalkLeft, ToCome
<1>2. CASE Step(r) /\ UNCHANGED req
  <2>0. /\ req'[r] = req[r] /\ req[r].op \in AssetWalks /\ pc[r] \in Working /\ pc[r] # "idle"
        /\ Owed(r) \subseteq Assets /\ Assets \subseteq Ids
        /\ NativeOf(req[r].by.sub) \in past[r].natives
        /\ Throughout(past'[r].natives) \subseteq Throughout(past[r].natives)
        /\ Throughout(past'[r].natives) = Throughout(past[r].natives)'
    <3>1. req'[r] = req[r] /\ req[r].op \in AssetWalks
      BY <1>2
    <3>2. pc[r] \in Working /\ pc[r] # "idle"
      BY <1>2 DEF Step, At, ReadGroups, ReadAdmin, ReadPage, Filter, Log, Send, Get, Verdict,
                  Write, Working
    <3>3. Owed(r) \subseteq Assets
      BY <3>1, <3>2, OwedAssets
    <3>4. Throughout(past'[r].natives) = Throughout(past[r].natives)'
      BY DEF Throughout
    <3>5. Assets \subseteq Ids
      BY DEF Ids
    <3> QED BY <1>0, <3>1, <3>2, <3>3, <3>4, <3>5, KnownNext, Zenon DEF Known
  <2> DEFINE Carried == \A a \in Owed(r)' : a \in Owed(r) /\ Mark(r, a)' = Mark(r, a)
  <2>00. ASSUME mem[r].lost => mem'[r].lost PROVE Carried
    <3>1. Owed(r)' \subseteq Owed(r) /\ \A a \in Owed(r)' : a \in Assets => Mark(r, a)' = Mark(r, a)
      BY <1>0, <2>0, <2>00, OwedStays, Zenon
    <3> QED BY <2>0, <3>1
  <2>1. CASE ReadGroups(r)
    <3>1. PICK m, landed, ok :
              /\ Goes(r, "admin", m) /\ KeepsWalk(m, mem[r]) /\ m.page = mem[r].page
              /\ landed \in BOOLEAN /\ ok \in BOOLEAN
              /\ m.landed = landed /\ m.lost = (mem[r].lost \/ ~landed \/ ~ok)
              /\ m.groups = ((IF landed THEN req[r].by.token ELSE {})
                                \cup (IF ok THEN NativeOf(req[r].by.sub) ELSE {}))
      BY <1>2, <2>1, ReadGroupsGoes, Zenon
    <3>2. pc'[r] = "admin" /\ mem'[r] = m
      BY <3>1, EndsAt DEF Working
    <3>3. Carried
      BY <2>00, <3>1, <3>2
    <3>4. pc[r] = "groups"
      BY <2>1 DEF ReadGroups, At
    <3>5. \A a \in Owed(r)' : mem'[r].shown[a] = IF ToCome(mem'[r], Mark(r, a)') THEN 0 ELSE 1
      BY <2>0, <3>1, <3>2, <3>3, <3>4 DEF WalkLeft, KeepsWalk, ToCome
    <3>6. ~m.lost => m.landed /\ req[r].by.token \cup Throughout(past[r].natives)' \subseteq m.groups
      <4>1. Throughout(past[r].natives) \subseteq NativeOf(req[r].by.sub)
        BY <2>0 DEF Throughout
      <4>2. ~m.lost => landed /\ ok
        BY <3>1
      <4>3. Throughout(past[r].natives)' \subseteq NativeOf(req[r].by.sub)
        BY <2>0, <4>1
      <4> QED BY <3>1, <4>2, <4>3
    <3> QED BY <2>0, <3>2, <3>5, <3>6 DEF WalkLeft
  <2>2. CASE ReadAdmin(r)
    <3>1. PICK label, m, ok :
              /\ Goes(r, label, m) /\ KeepsWalk(m, mem[r]) /\ m.page = mem[r].page
              /\ label \in (IF req[r].op \in AssetWalks THEN {"page", "auth_degraded"}
                            ELSE {"verdict"})
              /\ ok \in BOOLEAN /\ m.landed = mem[r].landed /\ m.groups = mem[r].groups
              /\ m.bypass = (ok /\ Admins \in NativeOf(req[r].by.sub))
              /\ m.lost = (mem[r].lost \/ ~ok)
      BY <1>2, <2>2, ReadAdminGoes, Zenon
    <3>2. label \in {"page", "auth_degraded"} /\ pc'[r] = label
      BY <2>0, <3>1, EndsAt
    <3>3. label = "page" /\ pc'[r] = "page" /\ mem'[r] = m
      BY <3>1, <3>2, EndsAt DEF Working
    <3>4. Carried
      BY <2>00, <3>1, <3>3
    <3>5. pc[r] = "admin"
      BY <2>2 DEF ReadAdmin, At
    <3>6. \A a \in Owed(r)' : mem'[r].shown[a] = IF ToCome(mem'[r], Mark(r, a)') THEN 0 ELSE 1
      BY <2>0, <3>1, <3>3, <3>4, <3>5 DEF WalkLeft, KeepsWalk, ToCome
    <3>7. ~m.lost => /\ m.landed
                     /\ req[r].by.token \cup Throughout(past[r].natives)' \subseteq m.groups
                     /\ Admins \in Throughout(past[r].natives)' => m.bypass
      <4>1. Throughout(past[r].natives) \subseteq NativeOf(req[r].by.sub)
        BY <2>0 DEF Throughout
      <4>2. ~m.lost => ~mem[r].lost /\ ok
        BY <3>1
      <4>3. ~mem[r].lost =>
               /\ mem[r].landed
               /\ req[r].by.token \cup Throughout(past[r].natives) \subseteq mem[r].groups
        BY <2>0, <3>5 DEF WalkLeft
      <4> QED BY <2>0, <3>1, <4>1, <4>2, <4>3
    <3> QED BY <2>0, <3>3, <3>6, <3>7 DEF WalkLeft
  <2>3. CASE ReadPage(r)
    <3>1. PICK m :
              /\ Goes(r, "filter", m) /\ KeepsCaller(m, mem[r])
              /\ \A a \in Owed(r) :
                    /\ m.shown[a] + (IF \E x \in m.page : x.id = a THEN 1 ELSE 0)
                           = IF Later(m, Mark(r, a)) THEN 0 ELSE 1
                    /\ \A x \in m.page : x.id = a =>
                           m.bypass \/ CheckPermission(Principal(r), m.groups, "View", x)
      BY <1>2, <2>0, <2>3, MovesPage
    <3>2. pc'[r] = "filter" /\ mem'[r] = m
      BY <3>1, EndsAt DEF Working
    <3>3. Carried
      BY <2>00, <3>1, <3>2 DEF KeepsCaller
    <3>4. Principal(r)' = Principal(r)
      BY <2>0, <3>1, <3>2, Zenon DEF Principal, KeepsCaller
    <3>5. \A a \in Owed(r)' :
               mem'[r].shown[a] + (IF \E x \in mem'[r].page : x.id = a THEN 1 ELSE 0)
                   = IF Later(mem'[r], Mark(r, a)') THEN 0 ELSE 1
      BY <3>1, <3>2, <3>3
    <3>6. \A a \in Owed(r)' : \A x \in mem'[r].page : x.id = a =>
               mem'[r].bypass \/ CheckPermission(Principal(r)', mem'[r].groups, "View", x)
      <4>1. ASSUME NEW a \in Owed(r)', NEW x \in m.page, x.id = a
            PROVE  m.bypass \/ CheckPermission(Principal(r), m.groups, "View", x)
        <5>1. a \in Owed(r)
          BY <3>3
        <5> QED BY <3>1, <4>1, <5>1, Zenon
      <4> QED BY <3>2, <3>4, <4>1, Zenon
    <3> QED BY <3>2, <3>5, <3>6, Zenon DEF WalkLeft
  <2>4. CASE Filter(r)
    <3>1. PICK label, m :
              /\ Goes(r, label, m) /\ KeepsWalk(m, mem[r]) /\ KeepsCaller(m, mem[r])
              /\ m.page = mem[r].page
              /\ \/ label = "log" /\ mem[r].bypass /\ m.kept = mem[r].page
                 \/ /\ label = "send" /\ m.kept = Visible(r)
                    /\ ~mem[r].bypass \/ \A x \in mem[r].page : ~Enforced(x)
      BY <1>2, <2>4, FilterGoes
    <3>2. pc'[r] \in {"log", "send"} /\ mem'[r] = m
      BY <3>1, EndsAt DEF Working
    <3>3. Carried
      BY <2>00, <3>1, <3>2 DEF KeepsCaller
    <3>4. pc[r] = "filter" /\ Legible(mem[r].page) /\ IsFiniteSet(mem[r].page)
      BY <2>4 DEF Shape, Locals, Labels, Memory, Filter, At
    <3>5. Visible(r) = FilterByPermission(Principal(r), mem[r].groups, "View", mem[r].page)
      BY <3>4, BatchedIsExact, Zenon DEF Visible
    <3>6. ASSUME NEW a \in Owed(r)
          PROVE  (\E x \in m.kept : x.id = a) <=> (\E x \in mem[r].page : x.id = a)
      <4>1. CASE m.kept = mem[r].page
        BY <4>1
      <4>2. CASE m.kept = Visible(r) /\ (~mem[r].bypass \/ \A x \in mem[r].page : ~Enforced(x))
        <5>1. \A x \in mem[r].page : x.id = a =>
                 mem[r].bypass \/ CheckPermission(Principal(r), mem[r].groups, "View", x)
          BY <2>0, <3>4, <3>6, Zenon DEF WalkLeft
        <5>2. \A x \in mem[r].page : x.id = a =>
                 CheckPermission(Principal(r), mem[r].groups, "View", x)
          BY <4>2, <5>1, Zenon DEF CheckPermission
        <5>3. \A x : x \in m.kept <=> x \in mem[r].page
                       /\ CheckPermission(Principal(r), mem[r].groups, "View", x)
          BY <3>5, <4>2, Zenon DEF FilterByPermission
        <5> QED BY <5>2, <5>3, Zenon
      <4> QED BY <3>1, <4>1, <4>2
    <3>7. \A a \in Owed(r) :
             mem[r].shown[a] + (IF \E x \in mem[r].page : x.id = a THEN 1 ELSE 0)
                      = IF Later(mem[r], Mark(r, a)) THEN 0 ELSE 1
      BY <2>0, <3>4 DEF WalkLeft
    <3>8. \A a \in Owed(r) : WithPage(m, a) = IF Later(m, Mark(r, a)) THEN 0 ELSE 1
      BY <3>1, <3>6, <3>7 DEF WithPage, KeepsWalk, Later
    <3> QED BY <3>2, <3>3, <3>8 DEF WalkLeft
  <2>5. CASE Log(r)
    <3>1. Goes(r, "send", mem[r])
      BY <1>2, <2>0, <2>5, LogGoes
    <3>2. pc'[r] = "send" /\ mem'[r] = mem[r] /\ pc[r] = "log"
      BY <2>5, <3>1, EndsAt DEF Working, Log, At
    <3>3. Carried
      BY <2>00, <3>2
    <3>4. \A a \in Owed(r) : WithPage(mem[r], a) = IF Later(mem[r], Mark(r, a)) THEN 0 ELSE 1
      BY <2>0, <3>2 DEF WalkLeft
    <3> QED BY <3>2, <3>3, <3>4 DEF WalkLeft
  <2>6. CASE Send(r)
    <3>1. pc[r] = "send"
      BY <2>6 DEF Send, At
    <3>2. PICK label, m :
              /\ Goes(r, label, m)
              /\ \/ label = "ok"
                 \/ /\ label = "groups" /\ m.shown = Shown(r) /\ m.cursor = mem[r].cursor
                    /\ m.passed = mem[r].passed /\ mem[r].cursor # NoCursor
                    /\ m.lost = mem[r].lost
      BY <1>2, <2>0, <2>6, SendShows
    <3>3. label = "groups" /\ pc'[r] = "groups" /\ mem'[r] = m
      BY <3>2, EndsAt DEF Working
    <3>4. Carried
      BY <2>00, <3>2, <3>3
    <3>5. \A a \in Owed(r) : Shown(r)[a] = WithPage(mem[r], a)
      BY <2>0, ShownFacts DEF WithPage
    <3>6. \A a \in Owed(r) : WithPage(mem[r], a) = IF Later(mem[r], Mark(r, a)) THEN 0 ELSE 1
      BY <2>0, <3>1 DEF WalkLeft
    <3>7. \A k : ToCome(m, k) <=> Later(mem[r], k)
      BY <3>2, <3>3 DEF ToCome, Later
    <3>8. \A a \in Owed(r)' : mem'[r].shown[a] = IF ToCome(mem'[r], Mark(r, a)') THEN 0 ELSE 1
      BY <3>2, <3>3, <3>4, <3>5, <3>6, <3>7
    <3> QED BY <3>3, <3>8 DEF WalkLeft
  <2>7. CASE Get(r) \/ Verdict(r) \/ Write(r)
    <3>1. req[r].op \in Single \cup {"setAuth"}
      BY <2>7 DEF Get, Verdict, Write, At, Shape, Locals, Labels, Fits, Single
    <3> QED BY <2>0, <3>1 DEF Single, Writes, AssetWalks
  <2> QED BY <1>2, <2>1, <2>2, <2>3, <2>4, <2>5, <2>6, <2>7, Zenon DEF Step
<1>3. CASE Fail(r) /\ UNCHANGED <<req, events>>
  <2>1. pc'[r] = "failed"
    BY <1>3, FailGoes, EndsAt
  <2> QED BY <2>1
<1> QED BY <1>1, <1>2, <1>3 DEF Moves

-----------------------------------------------------------------------------
(* What walks show.                                                          *)

Walks(r) == Owing(r) /\ Known(r) /\ EntriesLeft(r) /\ CollectionsLeft(r) /\ WalkLeft(r)

WalkInv == Shape /\ \A r \in Requests : Walks(r)

LEMMA StutterWalks ==
    ASSUME UNCHANGED vars, NEW r \in Requests, Walks(r)
    PROVE  Walks(r)'
<1>1. /\ UNCHANGED <<backend, row, born, at, ctx, native, colls, trail>>
      /\ UNCHANGED <<req, pc, mem, sure, plain, past>>
  BY DEF vars, tables, history
<1>2. \A a : Live(a)' = Live(a) /\ Row(a)' = Row(a) /\ Alone(a)' = Alone(a)
  BY <1>1, Zenon DEF Live, Row, Alone
<1>3. \A q, G : Entitled(q, G)' = Entitled(q, G)
  BY <1>2, Zenon DEF Entitled
<1>4. \A q : Unconditional(q)' = Unconditional(q)
  BY <1>2, Zenon DEF Unconditional
<1>5. \A q : Ordered(q)' = Ordered(q)
  BY <1>1, <1>2, Zenon DEF Ordered
<1>6. Owing(r)'
  <2>1. Shows(req[r], past[r].natives)' = Shows(req[r], past[r].natives)
        /\ ShowsAnyone(req[r])' = ShowsAnyone(req[r])
    BY <1>1, <1>3, <1>4, <1>5, Zenon DEF Shows, ShowsAnyone, Throughout
  <2> QED BY <1>1, <2>1, Zenon DEF Walks, Owing
<1>7. Known(r)' /\ EntriesLeft(r)' /\ CollectionsLeft(r)'
  BY <1>1, Zenon DEF Walks, Known, EntriesLeft, CollectionsLeft, NativeOf, Due
<1>8. WalkLeft(r)'
  <2>1. \A a : Mark(r, a)' = Mark(r, a)
    BY <1>1, Zenon DEF Mark, Sign, Stamp
  <2>2. Owed(r)' = Owed(r) /\ Principal(r)' = Principal(r)
    BY <1>1, Zenon DEF Owed, Principal
  <2>3. Throughout(past[r].natives)' = Throughout(past[r].natives)
    BY <1>1, Zenon DEF Throughout
  <2>4. WalkLeft(r) /\ UNCHANGED <<pc[r], req[r], mem[r]>>
    BY <1>1 DEF Walks
  <2> QED BY <2>1, <2>2, <2>3, <2>4, WalkCarries
<1> QED BY <1>6, <1>7, <1>8 DEF Walks

LEMMA NextWalks == WalkInv /\ [Next]_vars => WalkInv'
<1> SUFFICES ASSUME WalkInv, [Next]_vars PROVE WalkInv'
  OBVIOUS
<1>0. Shape /\ Shape' /\ \A r \in Requests : Walks(r)
  BY NextShape DEF WalkInv
<1>1. CASE UNCHANGED vars
  BY <1>0, <1>1, StutterWalks DEF WalkInv
<1>2. CASE Next
  <2>1. /\ \A r \in Requests : Noted(r)
        /\ \/ /\ Edit
              /\ UNCHANGED <<row, born, at, ctx, bypasses, req, pc, mem>>
           \/ \E r \in Requests :
                 /\ Moves(r)
                 /\ \A x \in Requests \ {r} : UNCHANGED <<pc[x], req[x], mem[x]>>
    BY <1>0, <1>2, NextMoves
  <2>2. UNCHANGED backend /\ UNCHANGED born
    BY <1>0, <1>2, <2>1, StepTables DEF Next
  <2>3. ASSUME NEW r \in Requests PROVE Walks(r)'
    <3>1. Walks(r) /\ Noted(r)
      BY <1>0, <2>1
    <3>2. Owing(r)' /\ Known(r)'
      BY <3>1, OwingNext, KnownNext
    <3>3. CASE Moves(r)
      <4>1. EntriesLeft(r)' /\ CollectionsLeft(r)' /\ WalkLeft(r)'
        BY <1>0, <2>2, <3>1, <3>3, MovesEntries, MovesCollections, MovesWalk DEF Walks
      <4> QED BY <3>2, <4>1 DEF Walks
    <3>4. CASE UNCHANGED <<pc[r], req[r], mem[r]>>
      <4>1. EntriesLeft(r)' /\ CollectionsLeft(r)' /\ WalkLeft(r)'
        BY <2>2, <3>1, <3>4, EntriesStay, CollectionsStay, WalkStays DEF Walks
      <4> QED BY <3>2, <4>1 DEF Walks
    <3> QED BY <2>1, <3>3, <3>4
  <2> QED BY <1>0, <2>3 DEF WalkInv
<1> QED BY <1>1, <1>2

LEMMA InitWalks == Init => WalkInv
<1>1. Init => \A r \in Requests : Walks(r)
  <2> SUFFICES ASSUME Init, NEW r \in Requests PROVE Walks(r)
    OBVIOUS
  <2>1. pc[r] = "idle" /\ req[r].op = "none" /\ pc[r] \notin Working
    BY DEF Init, NoRequest, Working
  <2> QED BY <2>1 DEF Walks, Owing, Known, EntriesLeft, CollectionsLeft, WalkLeft, AssetWalks
<1> QED BY <1>1, InitShape DEF WalkInv

\* A walk that ends has no cursor left, and shows what it holds.
LEMMA LastPage ==
    ASSUME Shape, [Next]_vars, NEW r \in Requests, pc[r] = "send", pc'[r] = "ok"
    PROVE  /\ mem[r].cursor = NoCursor
           /\ \A i \in Ids : Shown(r)[i] = WithPage(mem[r], i)
<1>1. Next
  BY DEF vars
<1>2. Moves(r)
  <2>1. pc'[r] # pc[r]
    OBVIOUS
  <2>2. \/ UNCHANGED <<row, born, at, ctx, bypasses, req, pc, mem>>
        \/ \E s \in Requests :
              /\ Moves(s)
              /\ \A x \in Requests \ {s} : UNCHANGED <<pc[x], req[x], mem[x]>>
    BY <1>1, NextMoves
  <2> QED BY <2>1, <2>2
<1>3. Send(r) /\ UNCHANGED req
  <2>1. ~Arrive(r)
    BY DEF Arrive, At
  <2>2. ~(Fail(r) /\ UNCHANGED <<req, events>>)
    <3>1. Fail(r) /\ UNCHANGED req => pc'[r] = "failed"
      BY FailGoes, EndsAt
    <3> QED BY <3>1
  <2>3. Step(r) /\ UNCHANGED req
    BY <1>2, <2>1, <2>2 DEF Moves
  <2> QED BY <2>3 DEF Step, At, ReadGroups, ReadAdmin, ReadPage, Filter, Log, Get, Verdict, Write
<1>4. mem[r].cursor = NoCursor
  <2>1. PICK label, m :
              /\ Goes(r, label, m)
              /\ \/ label = "ok"
                 \/ label \in {"groups", "page"}
    BY <1>3, SendShows
  <2>2. CASE mem[r].cursor # NoCursor
    <3>1. PICK l, n : Goes(r, l, n) /\ l \in {"groups", "page"}
      BY <1>3, <2>2, SendGoes
    <3>2. pc'[r] = l
      BY <3>1, EndsAt
    <3> QED BY <3>1, <3>2
  <2> QED BY <2>2
<1> QED BY <1>4, ShownFacts DEF WithPage

\* A walk over the audit list loses an entry only behind a cursor of a lower id.
THEOREM EntriesAreShown == Spec => EntriesPassedBy
<1> DEFINE Told(r) ==
              At(r, "send") /\ pc'[r] = "ok" /\ req[r].op = "trail" =>
                  \A i \in sure[r] : Shown(r)[i] > 0 \/ \E j \in mem[r].passed : j < i
<1>1. ASSUME WalkInv, [Next]_vars, NEW r \in Requests PROVE Told(r)
  <2> SUFFICES ASSUME pc[r] = "send", pc'[r] = "ok", req[r].op = "trail", NEW i \in sure[r]
               PROVE  Shown(r)[i] > 0 \/ \E j \in mem[r].passed : j < i
    BY DEF At
  <2>1. Shape /\ EntriesLeft(r) /\ i \in Ids
    BY <1>1 DEF WalkInv, Walks, Shape
  <2>2. mem[r].cursor = NoCursor /\ Shown(r)[i] = WithPage(mem[r], i)
    BY <1>1, <2>1, LastPage
  <2> QED BY <2>1, <2>2 DEF EntriesLeft, Passed
<1>2. WalkInv /\ [Next]_vars => [\A r \in Requests : Told(r)]_vars
  BY <1>1
<1>3. Spec => [][\A r \in Requests : Told(r)]_vars
  BY <1>2, InitWalks, NextWalks, PTL DEF Spec
<1> QED BY <1>3 DEF EntriesPassedBy

\* A walk over collections shows each once that stayed, but on SQLite never those
\* that came just behind a page.
THEOREM CollectionsAreShown == Spec => CollectionsPassedBy
<1> DEFINE Told(r) ==
              At(r, "send") /\ pc'[r] = "ok" /\ req[r].op = "collections" =>
                  \A c \in sure[r] :
                      Shown(r)[c] = IF backend = "sqlite" /\ c \in mem[r].passed THEN 0 ELSE 1
<1>1. ASSUME WalkInv, [Next]_vars, NEW r \in Requests PROVE Told(r)
  <2> SUFFICES ASSUME pc[r] = "send", pc'[r] = "ok", req[r].op = "collections", NEW c \in sure[r]
               PROVE  Shown(r)[c] = IF backend = "sqlite" /\ c \in mem[r].passed THEN 0 ELSE 1
    BY DEF At
  <2>1. Shape /\ CollectionsLeft(r) /\ c \in Ids
    BY <1>1 DEF WalkInv, Walks, Shape
  <2>2. mem[r].cursor = NoCursor /\ Shown(r)[c] = WithPage(mem[r], c)
    BY <1>1, <2>1, LastPage
  <2> QED BY <2>1, <2>2 DEF CollectionsLeft, Later, Due
<1>2. WalkInv /\ [Next]_vars => [\A r \in Requests : Told(r)]_vars
  BY <1>1
<1>3. Spec => [][\A r \in Requests : Told(r)]_vars
  BY <1>2, InitWalks, NextWalks, PTL DEF Spec
<1> QED BY <1>3 DEF CollectionsPassedBy

\* A walk over assets shows each that stayed live and visible once and once only,
\* however many pages it takes and whatever others do meanwhile.
THEOREM WalksAreExact == Spec => WalkIsExact
<1> DEFINE Told(r) ==
              At(r, "send") /\ pc'[r] = "ok" /\ req[r].op \in AssetWalks =>
                  \A a \in plain[r] \cup (IF mem[r].lost THEN {} ELSE sure[r]) : Shown(r)[a] = 1
<1>1. ASSUME WalkInv, [Next]_vars, NEW r \in Requests PROVE Told(r)
  <2> SUFFICES ASSUME pc[r] = "send", pc'[r] = "ok", req[r].op \in AssetWalks, NEW a \in Owed(r)
               PROVE  Shown(r)[a] = 1
    BY DEF At, Owed
  <2>1. Shape /\ WalkLeft(r) /\ a \in Ids
    BY <1>1 DEF WalkInv, Walks, Shape, Owed
  <2>2. mem[r].cursor = NoCursor /\ Shown(r)[a] = WithPage(mem[r], a)
    BY <1>1, <2>1, LastPage
  <2> QED BY <2>1, <2>2 DEF WalkLeft, Later
<1>2. WalkInv /\ [Next]_vars => [\A r \in Requests : Told(r)]_vars
  BY <1>1
<1>3. Spec => [][\A r \in Requests : Told(r)]_vars
  BY <1>2, InitWalks, NextWalks, PTL DEF Spec
<1> QED BY <1>3 DEF WalkIsExact
-----------------------------------------------------------------------------
(* How far a walk goes with a page.                                          *)

\* A later place in the order a walk is in; the audit list goes by id.
Further(q, from, to) == IF q.op = "trail" THEN to.id < from.id ELSE Newer(from, to)

\* Every page but the first begins at a cursor, and the cursor it ends at lies beyond
\* it; nothing else that a walk does moves the cursor.
WalksGoForward ==
    [][\A r \in Requests :
          IF At(r, "page") /\ pc'[r] \in {"filter", "send"}
          THEN /\ mem[r].cursor = NoCursor => mem[r].turn = 1
               /\ \/ mem[r].cursor = NoCursor \/ mem'[r].cursor = NoCursor
                  \/ Further(req[r], mem[r].cursor, mem'[r].cursor)
          ELSE pc[r] # "idle" /\ pc'[r] \in Working => mem'[r].cursor = mem[r].cursor]_vars

\* The walks whose order no write changes, and the place of an id in it.
Still(q) == q.op = "collections" \/ (q.op = "list" /\ q.sort = "created_at")
FixedKey(q, i) ==
    IF q.op = "collections" THEN Place(i) ELSE [id |-> Sign(q) * i, at |-> Sign(q) * born[i]]

\* Such a walk comes to no place twice: it has a page at most for every id, and one.
PagesAreBounded ==
    \A r \in Requests :
        pc[r] \in Working /\ Still(req[r]) =>
            mem[r].turn <= Cardinality(IdsOf(req[r])) + 1

\* At a page to read, the cursor is that of the page before, and every cursor so far
\* was a new id, before the last in the walk's order.
Paced(r) ==
    pc[r] \in Working =>
        /\ pc[r] \in {"get", "groups", "admin", "page"} =>
              mem[r].turn = 1 \/ mem[r].cursor # NoCursor
        /\ Still(req[r]) =>
              /\ mem[r].passed \subseteq IdsOf(req[r])
              /\ mem[r].cursor # NoCursor =>
                    \A j \in mem[r].passed : ~Newer(mem[r].cursor, FixedKey(req[r], j))
              /\ mem[r].turn = Cardinality(mem[r].passed)
                    + (IF pc[r] \in {"groups", "admin", "page"} \/ mem[r].cursor = NoCursor
                       THEN 1 ELSE 0)

PacedInv == Shape /\ \A r \in Requests : Paced(r)

\* The places of such a walk are its keys, whatever is written.
LEMMA KeysAreFixed ==
    ASSUME Shape, NEW q \in Request, Still(q)
    PROVE  /\ \A x \in Keys(q) : IdOf(x) \in IdsOf(q) /\ x = FixedKey(q, IdOf(x))
           /\ \A i \in IdsOf(q) : FixedKey(q, i) \in Keyset
           /\ IsFiniteSet(IdsOf(q))
<1>0. q.op = "collections" \/ (q.op = "list" /\ q.sort = "created_at")
  BY DEF Still
<1>1. CASE q.op = "collections"
  <2>1. q.op \notin AssetWalks
    BY <1>1 DEF AssetWalks
  <2>2. Keys(q) = {Place(c) : c \in colls} /\ IdsOf(q) = Collections
    BY <1>1, <2>1 DEF Keys, Place, IdsOf
  <2>3. colls \subseteq Collections /\ Collections \subseteq Nat \ {0}
    BY ReadsAssumption DEF Shape, Tables
  <2>4. \A c \in Collections : IdOf(Place(c)) = c /\ Place(c) \in Keyset
    BY <2>3 DEF IdOf, Place, Keyset
  <2>5. \A c : FixedKey(q, c) = Place(c)
    BY <1>1 DEF FixedKey
  <2> QED BY <2>2, <2>3, <2>4, <2>5, ReadsAssumption
<1>2. CASE q.op = "list" /\ q.sort = "created_at"
  <2> DEFINE K(a) == [id |-> Sign(q) * a, at |-> Sign(q) * born[a]]
  <2>1. q.op \in AssetWalks /\ q.op # "collections"
    BY <1>2 DEF AssetWalks
  <2>2. IdsOf(q) = Assets /\ \A a : FixedKey(q, a) = K(a)
    BY <2>1 DEF IdsOf, FixedKey
  <2>3. Keys(q) = {K(a) : a \in {b \in Assets : Live(b)}}
    BY <1>2, <2>1 DEF Keys, Stamp
  <2>4. ASSUME NEW a \in Assets PROVE IdOf(K(a)) = a /\ K(a) \in Keyset
    <3>1. a \in Nat \ {0} /\ born[a] \in Int
      BY ReadsAssumption DEF Shape, Tables
    <3>2. Sign(q) = 1 \/ Sign(q) = -1
      BY DEF Sign
    <3>3. CASE Sign(q) = 1
      BY <3>1, <3>3 DEF IdOf, Keyset
    <3>4. CASE Sign(q) = -1
      BY <3>1, <3>4 DEF IdOf, Keyset
    <3> QED BY <3>2, <3>3, <3>4
  <2> HIDE DEF K
  <2> QED BY <2>2, <2>3, <2>4, ReadsAssumption
<1> QED BY <1>0, <1>1, <1>2

\* What a step does to the place a walk is at.
PageTurns(r) ==
    /\ pc[r] = "page" /\ pc'[r] \in {"filter", "send"} /\ req'[r] = req[r]
    /\ \E p \in Pages(r) :
          /\ mem'[r].cursor = p.next /\ mem'[r].turn = mem[r].turn
          /\ mem'[r].passed = IF p.next = NoCursor THEN mem[r].passed
                              ELSE mem[r].passed \cup {IdOf(p.next)}
GoesOn(r) ==
    /\ pc[r] = "send" /\ pc'[r] \in {"groups", "page"} /\ req'[r] = req[r]
    /\ mem[r].cursor # NoCursor /\ mem'[r].cursor = mem[r].cursor
    /\ mem'[r].passed = mem[r].passed /\ mem'[r].turn = mem[r].turn + 1
PlaceStays(r) ==
    /\ pc[r] \in Working \ {"page", "send"} /\ req'[r] = req[r] /\ KeepsWalk(mem'[r], mem[r])
    /\ pc'[r] \in {"get", "groups", "admin", "page"} => pc[r] \in {"get", "groups", "admin"}
    /\ req[r].op \in AssetWalks /\ pc[r] \in {"groups", "admin"} => pc'[r] \in {"admin", "page"}
SetsOut(r) ==
    /\ pc[r] = "idle" /\ pc'[r] \in {"get", "groups", "page", "write"}
    /\ pc'[r] \in {"write", "get"} => req'[r].op \in {"get", "setAuth"} \cup Writes
    /\ mem'[r].cursor = NoCursor /\ mem'[r].passed = {} /\ mem'[r].turn = 1

LEMMA WalkMoves ==
    ASSUME Shape, NEW r \in Requests, Moves(r), pc'[r] \in Working
    PROVE  PageTurns(r) \/ GoesOn(r) \/ PlaceStays(r) \/ SetsOut(r)
<1>0. ASSUME NEW label, NEW m, Goes(r, label, m)
      PROVE  pc'[r] = label /\ mem'[r] = m
  <2>1. pc'[r] = label /\ (label \in Working => mem'[r] = m)
    BY <1>0, EndsAt, Zenon
  <2> QED BY <2>1
<1>1. CASE Arrive(r) /\ UNCHANGED events
  <2>1. PICK q, label, m :
              /\ q \in Request /\ req' = [req EXCEPT ![r] = q] /\ Goes(r, label, m)
              /\ label = FirstLabel(q)
              /\ m = [NoMemory EXCEPT !.turn = 1] /\ m.turn = 1
              /\ m.page = {} /\ m.kept = {} /\ m.cursor = NoCursor /\ m.passed = {}
              /\ m.shown = [i \in Ids |-> 0] /\ m.lost = FALSE
    BY <1>1, ArriveGoes, Zenon
  <2>2. req'[r] = q /\ pc[r] = "idle"
    BY <1>1, <2>1 DEF Shape, Locals, Arrive, At
  <2>3. pc'[r] = label /\ mem'[r] = m
    BY <1>0, <2>1, Zenon
  <2>4. /\ label \in {"get", "groups", "page", "write"}
        /\ label \in {"get", "write"} => q.op \in {"get", "setAuth"} \cup Writes
    <3>1. q.op \in AssetWalks \cup Single \cup {"collections", "trail", "setAuth"}
      BY <2>1, RequestFields
    <3> QED BY <2>1, <3>1 DEF FirstLabel, AssetWalks, Single, Writes
  <2>5. mem'[r].cursor = NoCursor /\ mem'[r].passed = {} /\ mem'[r].turn = 1
    BY <2>1, <2>3, Zenon
  <2>6. SetsOut(r)
    BY <2>2, <2>3, <2>4, <2>5 DEF SetsOut
  <2> QED BY <2>6
<1>2. CASE Step(r) /\ UNCHANGED req
  <2>0. req'[r] = req[r] /\ Fits(pc[r], req[r].op)
    BY <1>2 DEF Shape, Locals, Labels
  <2>1. CASE ReadGroups(r)
    <3>1. PICK m : Goes(r, "admin", m) /\ KeepsWalk(m, mem[r])
      BY <1>2, <2>1, ReadGroupsGoes, Zenon
    <3>2. pc'[r] = "admin" /\ mem'[r] = m
      BY <1>0, <3>1, Zenon
    <3>3. pc[r] = "groups"
      BY <2>1 DEF ReadGroups, At
    <3>4. KeepsWalk(mem'[r], mem[r])
      BY <3>1, <3>2, Zenon
    <3>5. PlaceStays(r)
      BY <2>0, <3>2, <3>3, <3>4 DEF PlaceStays, Working
    <3> QED BY <3>5
  <2>2. CASE ReadAdmin(r)
    <3>1. PICK label, m :
              /\ Goes(r, label, m) /\ KeepsWalk(m, mem[r])
              /\ label \in (IF req[r].op \in AssetWalks THEN {"page", "auth_degraded"}
                            ELSE {"verdict"})
      BY <1>2, <2>2, ReadAdminGoes, Zenon
    <3>2. pc'[r] = label /\ mem'[r] = m
      BY <1>0, <3>1, Zenon
    <3>3. pc[r] = "admin" /\ label # "auth_degraded"
      BY <2>2, <3>2 DEF ReadAdmin, At, Working
    <3>4. KeepsWalk(mem'[r], mem[r])
      BY <3>1, <3>2, Zenon
    <3>5. PlaceStays(r)
      BY <2>0, <3>1, <3>2, <3>3, <3>4 DEF PlaceStays, Working
    <3> QED BY <3>5
  <2>3. CASE ReadPage(r)
    <3>1. PICK p, ids, label, m :
              /\ Goes(r, label, m) /\ KeepsCaller(m, mem[r])
              /\ m.shown = mem[r].shown /\ m.turn = mem[r].turn
              /\ p \in Pages(r) /\ ids = {IdOf(x) : x \in p.rows} /\ m.cursor = p.next
              /\ m.passed = IF p.next = NoCursor THEN mem[r].passed
                            ELSE mem[r].passed \cup {IdOf(p.next)}
              /\ label = IF req[r].op \in AssetWalks THEN "filter" ELSE "send"
              /\ m.page = IF req[r].op \in AssetWalks THEN {Row(a) : a \in ids}
                          ELSE {[id |-> i] : i \in ids}
              /\ req[r].op \notin AssetWalks => m.kept = m.page
      BY <1>2, <2>3, ReadPageGoes, Zenon
    <3>2. pc'[r] = label /\ mem'[r] = m /\ label \in {"filter", "send"}
      <4>1. label \in {"filter", "send"}
        BY <3>1
      <4> QED BY <1>0, <3>1, <4>1, Zenon
    <3>3. pc[r] = "page"
      BY <2>3 DEF ReadPage, At
    <3>4. /\ mem'[r].cursor = p.next /\ mem'[r].turn = mem[r].turn
          /\ mem'[r].passed = IF p.next = NoCursor THEN mem[r].passed
                              ELSE mem[r].passed \cup {IdOf(p.next)}
      BY <3>1, <3>2, Zenon
    <3>5. PageTurns(r)
      BY <2>0, <3>1, <3>2, <3>3, <3>4 DEF PageTurns
    <3> QED BY <3>5
  <2>4. CASE Filter(r)
    <3>1. PICK label, m :
              /\ Goes(r, label, m) /\ KeepsWalk(m, mem[r])
              /\ label \in {"log", "send"}
      BY <1>2, <2>4, FilterGoes
    <3>2. pc'[r] = label /\ mem'[r] = m
      BY <1>0, <3>1, Zenon
    <3>3. pc[r] = "filter"
      BY <2>4 DEF Filter, At
    <3>4. KeepsWalk(mem'[r], mem[r])
      BY <3>1, <3>2, Zenon
    <3>5. PlaceStays(r)
      BY <2>0, <3>1, <3>2, <3>3, <3>4 DEF PlaceStays, Working
    <3> QED BY <3>5
  <2>5. CASE Log(r)
    <3>1. Goes(r, IF req[r].op \in AssetWalks THEN "send"
                  ELSE IF req[r].op \in Writes THEN "write" ELSE "ok", mem[r])
      BY <1>2, <2>5, LogGoes
    <3>2. /\ pc'[r] = IF req[r].op \in AssetWalks THEN "send"
                      ELSE IF req[r].op \in Writes THEN "write" ELSE "ok"
          /\ mem'[r] = mem[r]
      BY <1>0, <3>1, Zenon
    <3>3. pc[r] = "log"
      BY <2>5 DEF Log, At
    <3>4. KeepsWalk(mem'[r], mem[r])
      BY <3>2, Zenon DEF KeepsWalk
    <3>5. PlaceStays(r)
      BY <2>0, <3>2, <3>3, <3>4 DEF PlaceStays, Working
    <3> QED BY <3>5
  <2>6. CASE Send(r)
    <3>1. PICK label, m :
              /\ Goes(r, label, m)
              /\ \/ label = "ok"
                 \/ /\ label = (IF req[r].op \in AssetWalks THEN "groups" ELSE "page")
                    /\ mem[r].cursor # NoCursor /\ m.turn = mem[r].turn + 1
                    /\ m.cursor = mem[r].cursor /\ m.passed = mem[r].passed
      <4>1. CASE mem[r].cursor = NoCursor /\ Goes(r, "ok", mem[r])
        BY <4>1, Zenon
      <4>2. CASE mem[r].cursor # NoCursor
        <5>1. PICK label, m :
                    /\ Goes(r, label, m)
                    /\ label = IF req[r].op \in AssetWalks THEN "groups" ELSE "page"
                    /\ m = [NoMemory EXCEPT !.shown = Shown(r), !.turn = mem[r].turn + 1,
                              !.cursor = mem[r].cursor, !.passed = mem[r].passed,
                              !.lost = mem[r].lost]
                    /\ m.shown = Shown(r) /\ m.turn = mem[r].turn + 1 /\ m.kept = {}
                    /\ m.cursor = mem[r].cursor /\ m.passed = mem[r].passed
                    /\ m.lost = mem[r].lost
          BY <1>2, <2>6, <4>2, SendGoes, Zenon
        <5> QED BY <4>2, <5>1, Zenon
      <4> QED BY <1>2, <2>6, <4>1, <4>2, SendGoes, Zenon
    <3>2. pc'[r] = label /\ mem'[r] = m /\ label # "ok"
      <4>1. "ok" \notin Working
        BY DEF Working
      <4> QED BY <1>0, <3>1, <4>1, Zenon
    <3>3. pc[r] = "send"
      BY <2>6 DEF Send, At
    <3>4. /\ mem[r].cursor # NoCursor /\ mem'[r].cursor = mem[r].cursor
          /\ mem'[r].passed = mem[r].passed /\ mem'[r].turn = mem[r].turn + 1
      BY <3>1, <3>2, Zenon
    <3>5. label \in {"groups", "page"}
      BY <3>1, <3>2
    <3>6. GoesOn(r)
      BY <2>0, <3>2, <3>3, <3>4, <3>5 DEF GoesOn
    <3> QED BY <3>6
  <2>7. CASE Get(r)
    <3>1. PICK label, m :
              /\ Goes(r, label, m) /\ KeepsWalk(m, mem[r])
              /\ label \in {"notfound", "groups", "write", "ok"}
      BY <1>2, <2>7, GetGoes
    <3>2. pc'[r] = label /\ mem'[r] = m
      BY <1>0, <3>1, Zenon
    <3>3. pc[r] = "get"
      BY <2>7 DEF Get, At
    <3>4. KeepsWalk(mem'[r], mem[r])
      BY <3>1, <3>2, Zenon
    <3>5. PlaceStays(r)
      BY <2>0, <3>1, <3>2, <3>3, <3>4 DEF PlaceStays, Working
    <3> QED BY <3>5
  <2>8. CASE Verdict(r)
    <3>1. PICK label :
              /\ Goes(r, label, mem[r])
              /\ label \in {"log", "forbidden", "write", "ok"}
      BY <1>2, <2>8, VerdictGoes
    <3>2. pc'[r] = label /\ mem'[r] = mem[r]
      BY <1>0, <3>1, Zenon
    <3>3. pc[r] = "verdict"
      BY <2>8 DEF Verdict, At
    <3>4. KeepsWalk(mem'[r], mem[r])
      BY <3>2, Zenon DEF KeepsWalk
    <3>5. PlaceStays(r)
      BY <2>0, <3>1, <3>2, <3>3, <3>4 DEF PlaceStays, Working
    <3> QED BY <3>5
  <2>9. CASE Write(r)
    <3>1. PICK label \in {"ok", "notfound"} : Goes(r, label, mem[r])
      BY <1>2, <2>9, WriteGoes
    <3>2. pc'[r] = label
      BY <1>0, <3>1, Zenon
    <3> QED BY <3>1, <3>2 DEF Working
  <2> QED BY <1>2, <2>1, <2>2, <2>3, <2>4, <2>5, <2>6, <2>7, <2>8, <2>9 DEF Step
<1>3. CASE Fail(r) /\ UNCHANGED <<req, events>>
  <2>1. pc'[r] = "failed"
    BY <1>3, FailGoes, EndsAt
  <2> QED BY <2>1 DEF Working
<1> QED BY <1>1, <1>2, <1>3 DEF Moves

\* A page ends beyond the cursor it begins at.
LEMMA PageIsFurther ==
    ASSUME Shape, NEW r \in Requests, pc[r] = "page", NEW p \in Pages(r), p.next # NoCursor
    PROVE  /\ p.next \in Keys(req[r]) /\ p.next \in Keyset
           /\ mem[r].cursor # NoCursor => Further(req[r], mem[r].cursor, p.next)
<1>1. p.next \in Rest(r)
  BY PageFacts
<1>2. p.next \in Keys(req[r]) /\ p.next \in Keyset
  BY <1>1, RestFacts
<1>3. ASSUME mem[r].cursor # NoCursor PROVE Further(req[r], mem[r].cursor, p.next)
  <2>1. CASE req[r].op = "trail"
    BY <1>1, <1>3, <2>1 DEF Rest, Further
  <2>2. CASE req[r].op # "trail"
    BY <1>1, <1>3, <2>2 DEF Rest, Behind, Further
  <2> QED BY <2>1, <2>2
<1> QED BY <1>2, <1>3

\* A new page adds a new id.
LEMMA CursorIsNew ==
    ASSUME Shape, NEW r \in Requests, pc[r] = "page", Paced(r), Still(req[r]),
           NEW p \in Pages(r), p.next # NoCursor
    PROVE  /\ IdOf(p.next) \in IdsOf(req[r]) /\ IdOf(p.next) \notin mem[r].passed
           /\ \A j \in mem[r].passed \cup {IdOf(p.next)} :
                  ~Newer(p.next, FixedKey(req[r], j))
<1>1. req[r] \in Request /\ mem[r].cursor \in Key
  BY RestFacts DEF Shape, Locals, Memory
<1>2. /\ mem[r].passed \subseteq IdsOf(req[r]) /\ IsFiniteSet(mem[r].passed)
      /\ mem[r].cursor # NoCursor =>
            \A j \in mem[r].passed : ~Newer(mem[r].cursor, FixedKey(req[r], j))
      /\ mem[r].cursor = NoCursor => mem[r].passed = {}
  <2>1. /\ mem[r].passed \subseteq IdsOf(req[r])
        /\ mem[r].cursor # NoCursor =>
              \A j \in mem[r].passed : ~Newer(mem[r].cursor, FixedKey(req[r], j))
        /\ mem[r].turn = Cardinality(mem[r].passed) + 1
        /\ mem[r].turn = 1 \/ mem[r].cursor # NoCursor
    BY DEF Paced, Working
  <2>2. mem[r].passed \in SUBSET IdsOf(req[r]) /\ IsFiniteSet(IdsOf(req[r]))
    BY <1>1, <2>1, KeysAreFixed
  <2>3. IsFiniteSet(mem[r].passed)
    BY <2>2, FS_Subset
  <2>4. Cardinality(mem[r].passed) \in Nat
    BY <2>3, FS_CardinalityType
  <2>5. mem[r].cursor = NoCursor => Cardinality(mem[r].passed) = 0
    BY <2>1, <2>4
  <2>6. mem[r].cursor = NoCursor => mem[r].passed = {}
    BY <2>3, <2>5, FS_EmptySet
  <2> QED BY <2>1, <2>3, <2>6
<1>3. /\ p.next \in Keys(req[r]) /\ p.next \in Keyset
      /\ mem[r].cursor # NoCursor => Newer(mem[r].cursor, p.next)
  <2>1. req[r].op # "trail"
    BY DEF Still
  <2> QED BY <2>1, PageIsFurther DEF Further
<1>4. /\ IdOf(p.next) \in IdsOf(req[r]) /\ p.next = FixedKey(req[r], IdOf(p.next))
      /\ \A i \in IdsOf(req[r]) : FixedKey(req[r], i) \in Keyset
  BY <1>1, <1>3, KeysAreFixed
<1>5. ~Newer(p.next, p.next)
  BY <1>3, NewerIsAnOrder DEF Keyset
<1>6. ASSUME NEW j \in mem[r].passed
      PROVE  ~Newer(p.next, FixedKey(req[r], j)) /\ FixedKey(req[r], j) # p.next
  <2> DEFINE c == mem[r].cursor
             f == FixedKey(req[r], j)
  <2>1. c \in Keyset /\ f \in Keyset /\ ~Newer(c, f) /\ Newer(c, p.next)
    BY <1>1, <1>2, <1>3, <1>4 DEF Key, Keyset
  <2>2. c.at \in Int /\ c.id \in Int /\ f.at \in Int /\ f.id \in Int
        /\ p.next.at \in Int /\ p.next.id \in Int
    BY <1>3, <2>1 DEF Keyset
  <2>3. Newer(p.next, f) => Newer(c, f)
    BY <2>1, <2>2, NewerIsAnOrder
  <2> QED BY <2>1, <2>3
<1>7. IdOf(p.next) \notin mem[r].passed
  BY <1>4, <1>6
<1> QED BY <1>4, <1>5, <1>6, <1>7

\* Every step of a request keeps its pace.
LEMMA MovesPaced ==
    ASSUME Shape, NEW r \in Requests, Paced(r), Moves(r), UNCHANGED born
    PROVE  Paced(r)'
<1> SUFFICES ASSUME pc'[r] \in Working PROVE Paced(r)'
  BY DEF Paced
<1>1. CASE SetsOut(r)
  <2>1. mem'[r].turn = 1 /\ mem'[r].cursor = NoCursor /\ mem'[r].passed = {}
    BY <1>1 DEF SetsOut
  <2>2. Cardinality({}) = 0
    BY FS_EmptySet
  <2> QED BY <2>1, <2>2 DEF Paced
<1>2. CASE PlaceStays(r)
  <2>1. /\ mem'[r].cursor = mem[r].cursor /\ mem'[r].passed = mem[r].passed
        /\ mem'[r].turn = mem[r].turn /\ req'[r] = req[r] /\ pc[r] \in Working
    BY <1>2 DEF PlaceStays, KeepsWalk
  <2>2. \A j : FixedKey(req[r], j)' = FixedKey(req[r], j)
    BY <2>1 DEF FixedKey
  <2>3. pc'[r] \in {"get", "groups", "admin", "page"} => pc[r] \in {"get", "groups", "admin"}
    BY <1>2 DEF PlaceStays
  <2>4. ASSUME Still(req[r])
        PROVE  pc'[r] \in {"groups", "admin", "page"} <=> pc[r] \in {"groups", "admin", "page"}
    <3>1. req[r].op \in {"list", "collections"} /\ req[r].op \notin Single
      BY <2>4 DEF Still, Single, Writes
    <3>2. Fits(pc[r], req[r].op)
      BY DEF Shape, Locals, Labels
    <3>3. pc[r] # "page" /\ pc[r] # "get"
      BY <1>2, <3>1, <3>2 DEF PlaceStays, Fits
    <3>4. pc[r] \in {"groups", "admin"} => pc'[r] \in {"admin", "page"}
      BY <1>2, <3>1, <3>2 DEF PlaceStays, Fits, AssetWalks
    <3> QED BY <2>3, <3>3, <3>4
  <2>5. /\ pc[r] \in {"get", "groups", "admin", "page"} =>
              mem[r].turn = 1 \/ mem[r].cursor # NoCursor
        /\ Still(req[r]) =>
              /\ mem[r].passed \subseteq IdsOf(req[r])
              /\ mem[r].cursor # NoCursor =>
                    \A j \in mem[r].passed : ~Newer(mem[r].cursor, FixedKey(req[r], j))
              /\ mem[r].turn = Cardinality(mem[r].passed)
                    + (IF pc[r] \in {"groups", "admin", "page"} \/ mem[r].cursor = NoCursor
                       THEN 1 ELSE 0)
    BY <2>1 DEF Paced
  <2>6. pc'[r] \in {"get", "groups", "admin", "page"} =>
              mem'[r].turn = 1 \/ mem'[r].cursor # NoCursor
    BY <2>1, <2>3, <2>5
  <2>7. ASSUME Still(req[r])
        PROVE  /\ mem'[r].passed \subseteq IdsOf(req[r])
               /\ mem'[r].cursor # NoCursor =>
                    \A j \in mem'[r].passed : ~Newer(mem'[r].cursor, FixedKey(req[r], j)')
               /\ mem'[r].turn = Cardinality(mem'[r].passed)
                    + (IF pc'[r] \in {"groups", "admin", "page"} \/ mem'[r].cursor = NoCursor
                       THEN 1 ELSE 0)
    BY <2>1, <2>2, <2>4, <2>5, <2>7
  <2> QED BY <2>1, <2>6, <2>7 DEF Paced
<1>3. CASE GoesOn(r)
  <2>1. /\ pc[r] = "send" /\ pc'[r] \in {"groups", "page"} /\ req'[r] = req[r]
        /\ mem[r].cursor # NoCursor /\ mem'[r].cursor = mem[r].cursor
        /\ mem'[r].passed = mem[r].passed /\ mem'[r].turn = mem[r].turn + 1
    BY <1>3 DEF GoesOn
  <2>2. \A j : FixedKey(req[r], j)' = FixedKey(req[r], j)
    BY <2>1 DEF FixedKey
  <2>3. ASSUME Still(req[r])
        PROVE  /\ mem[r].passed \subseteq IdsOf(req[r])
               /\ \A j \in mem[r].passed : ~Newer(mem[r].cursor, FixedKey(req[r], j))
               /\ mem[r].turn = Cardinality(mem[r].passed) + 0
    BY <2>1, <2>3 DEF Paced, Working
  <2>4. Still(req[r]) => mem'[r].turn = Cardinality(mem[r].passed) + 1
    <3>1. ASSUME Still(req[r]) PROVE Cardinality(mem[r].passed) \in Nat
      <4>1. req[r] \in Request
        BY <2>1 DEF Shape, Locals, Labels
      <4>2. mem[r].passed \in SUBSET IdsOf(req[r]) /\ IsFiniteSet(IdsOf(req[r]))
        BY <2>3, <3>1, <4>1, KeysAreFixed
      <4> QED BY <4>2, FS_Subset, FS_CardinalityType
    <3> QED BY <2>1, <2>3, <3>1
  <2> QED BY <2>1, <2>2, <2>3, <2>4 DEF Paced
<1>4. CASE PageTurns(r)
  <2>1. PICK p \in Pages(r) :
          /\ mem'[r].cursor = p.next /\ mem'[r].turn = mem[r].turn
          /\ mem'[r].passed = IF p.next = NoCursor THEN mem[r].passed
                              ELSE mem[r].passed \cup {IdOf(p.next)}
    BY <1>4 DEF PageTurns
  <2>2. pc[r] = "page" /\ pc'[r] \in {"filter", "send"} /\ req'[r] = req[r]
    BY <1>4 DEF PageTurns
  <2>3. \A j : FixedKey(req[r], j)' = FixedKey(req[r], j)
    BY <2>2 DEF FixedKey
  <2>4. ASSUME Still(req[r])
        PROVE  /\ mem'[r].passed \subseteq IdsOf(req[r])
               /\ mem'[r].cursor # NoCursor =>
                    \A j \in mem'[r].passed : ~Newer(mem'[r].cursor, FixedKey(req[r], j))
               /\ mem'[r].turn = Cardinality(mem'[r].passed)
                    + (IF mem'[r].cursor = NoCursor THEN 1 ELSE 0)
    <3>1. mem[r].passed \subseteq IdsOf(req[r]) /\ mem[r].turn = Cardinality(mem[r].passed) + 1
      BY <2>2, <2>4 DEF Paced, Working
    <3>2. CASE p.next = NoCursor
      BY <2>1, <3>1, <3>2
    <3>3. CASE p.next # NoCursor
      <4>1. /\ IdOf(p.next) \in IdsOf(req[r]) /\ IdOf(p.next) \notin mem[r].passed
            /\ \A j \in mem[r].passed \cup {IdOf(p.next)} :
                  ~Newer(p.next, FixedKey(req[r], j))
        BY <2>2, <2>4, <3>3, CursorIsNew
      <4>2. IsFiniteSet(mem[r].passed)
        <5>1. req[r] \in Request
          BY <2>2, RestFacts
        <5>2. mem[r].passed \in SUBSET IdsOf(req[r]) /\ IsFiniteSet(IdsOf(req[r]))
          BY <2>4, <3>1, <5>1, KeysAreFixed
        <5> QED BY <5>2, FS_Subset
      <4>3. Cardinality(mem[r].passed \cup {IdOf(p.next)}) = Cardinality(mem[r].passed) + 1
        BY <4>1, <4>2, FS_AddElement
      <4>4. Cardinality(mem[r].passed) \in Nat
        BY <4>2, FS_CardinalityType
      <4>5. mem'[r].passed = mem[r].passed \cup {IdOf(p.next)} /\ mem'[r].cursor # NoCursor
        BY <2>1, <3>3
      <4>6. mem'[r].turn = Cardinality(mem'[r].passed) + 0
        BY <2>1, <3>1, <4>3, <4>4, <4>5
      <4> QED BY <2>1, <3>1, <4>1, <4>5, <4>6
    <3> QED BY <3>2, <3>3
  <2> QED BY <2>2, <2>3, <2>4 DEF Paced
<1> QED BY <1>1, <1>2, <1>3, <1>4, WalkMoves

LEMMA NextPaced == PacedInv /\ [Next]_vars => PacedInv'
<1> SUFFICES ASSUME PacedInv, [Next]_vars PROVE PacedInv'
  OBVIOUS
<1>0. Shape /\ Shape' /\ \A r \in Requests : Paced(r)
  BY NextShape DEF PacedInv
<1>1. ASSUME NEW r \in Requests, UNCHANGED <<pc[r], req[r], mem[r]>>, UNCHANGED born
      PROVE  Paced(r)'
  <2>1. \A j : FixedKey(req[r], j)' = FixedKey(req[r], j)
    BY <1>1 DEF FixedKey
  <2> QED BY <1>0, <1>1, <2>1 DEF Paced
<1>2. CASE UNCHANGED vars
  BY <1>0, <1>1, <1>2 DEF PacedInv, vars, tables
<1>3. CASE Next
  <2>1. \/ UNCHANGED <<row, born, at, ctx, bypasses, req, pc, mem>>
        \/ \E r \in Requests :
              /\ Moves(r)
              /\ \A x \in Requests \ {r} : UNCHANGED <<pc[x], req[x], mem[x]>>
    BY <1>0, <1>3, NextMoves
  <2>2. UNCHANGED born
    BY <1>0, <2>1, StepTables
  <2>3. ASSUME NEW r \in Requests PROVE Paced(r)'
    <3>1. CASE Moves(r)
      BY <1>0, <2>2, <3>1, MovesPaced
    <3>2. CASE UNCHANGED <<pc[r], req[r], mem[r]>>
      BY <1>1, <2>2, <3>2
    <3> QED BY <2>1, <3>1, <3>2
  <2> QED BY <1>0, <2>3 DEF PacedInv
<1> QED BY <1>2, <1>3

LEMMA InitPaced == Init => PacedInv
<1>1. Init => \A r \in Requests : pc[r] \notin Working
  BY DEF Init, Working
<1> QED BY <1>1, InitShape DEF PacedInv, Paced

\* Whatever others do meanwhile, no walk turns back: every page ends beyond the
\* place it began at, and where writes do not reorder the list the walk has as
\* many pages as there are ids at most, and one more.
THEOREM WalksGetOn == Spec => WalksGoForward /\ []PagesAreBounded
<1> DEFINE Told(r) ==
          IF At(r, "page") /\ pc'[r] \in {"filter", "send"}
          THEN /\ mem[r].cursor = NoCursor => mem[r].turn = 1
               /\ \/ mem[r].cursor = NoCursor \/ mem'[r].cursor = NoCursor
                  \/ Further(req[r], mem[r].cursor, mem'[r].cursor)
          ELSE pc[r] # "idle" /\ pc'[r] \in Working => mem'[r].cursor = mem[r].cursor
<1>1. ASSUME PacedInv, [Next]_vars, NEW r \in Requests PROVE Told(r)
  <2>0. Shape /\ Paced(r)
    BY <1>1 DEF PacedInv
  <2>1. CASE UNCHANGED <<pc[r], req[r], mem[r]>>
    BY <2>1 DEF At
  <2>2. CASE Moves(r) /\ pc'[r] \in Working
    <3>1. CASE PageTurns(r)
      <4>1. PICK p \in Pages(r) : mem'[r].cursor = p.next
        BY <3>1 DEF PageTurns
      <4>2. pc[r] = "page" /\ pc'[r] \in {"filter", "send"}
        BY <3>1 DEF PageTurns
      <4>3. mem[r].cursor = NoCursor => mem[r].turn = 1
        BY <2>0, <4>2 DEF Paced, Working
      <4>4. \/ mem[r].cursor = NoCursor \/ mem'[r].cursor = NoCursor
            \/ Further(req[r], mem[r].cursor, mem'[r].cursor)
        BY <2>0, <4>1, <4>2, PageIsFurther
      <4> QED BY <4>2, <4>3, <4>4 DEF At
    <3>2. CASE GoesOn(r)
      BY <3>2 DEF GoesOn, At
    <3>3. CASE PlaceStays(r)
      BY <3>3 DEF PlaceStays, KeepsWalk, At
    <3>4. CASE SetsOut(r)
      BY <3>4 DEF SetsOut, At
    <3> QED BY <2>0, <2>2, <3>1, <3>2, <3>3, <3>4, WalkMoves
  <2>3. CASE pc'[r] \notin Working
    BY <2>3 DEF Working
  <2>4. UNCHANGED <<pc[r], req[r], mem[r]>> \/ Moves(r)
    <3>1. CASE UNCHANGED vars
      BY <3>1 DEF vars
    <3>2. CASE Next
      BY <2>0, <3>2, NextMoves
    <3> QED BY <1>1, <3>1, <3>2
  <2> QED BY <2>1, <2>2, <2>3, <2>4
<1>2. PacedInv /\ [Next]_vars => [\A r \in Requests : Told(r)]_vars
  BY <1>1
<1>3. PacedInv => PagesAreBounded
  <2> SUFFICES ASSUME PacedInv, NEW r \in Requests, pc[r] \in Working, Still(req[r])
               PROVE  mem[r].turn <= Cardinality(IdsOf(req[r])) + 1
    BY DEF PagesAreBounded
  <2>1. /\ mem[r].passed \subseteq IdsOf(req[r])
        /\ mem[r].turn = Cardinality(mem[r].passed)
                + (IF pc[r] \in {"groups", "admin", "page"} \/ mem[r].cursor = NoCursor
                   THEN 1 ELSE 0)
    BY DEF PacedInv, Paced
  <2>2. Shape /\ req[r] \in Request
    BY DEF PacedInv, Shape, Locals, Labels, Working
  <2>3. mem[r].passed \in SUBSET IdsOf(req[r]) /\ IsFiniteSet(IdsOf(req[r]))
    BY <2>1, <2>2, KeysAreFixed
  <2>4. /\ Cardinality(mem[r].passed) <= Cardinality(IdsOf(req[r]))
        /\ Cardinality(mem[r].passed) \in Nat /\ Cardinality(IdsOf(req[r])) \in Nat
    BY <2>3, FS_Subset, FS_CardinalityType
  <2> QED BY <2>1, <2>4
<1>4. Spec => [][\A r \in Requests : Told(r)]_vars
  BY <1>2, InitPaced, NextPaced, PTL DEF Spec
<1>5. Spec => []PagesAreBounded
  BY <1>3, InitPaced, NextPaced, PTL DEF Spec
<1> QED BY <1>4, <1>5 DEF WalksGoForward
=============================================================================
