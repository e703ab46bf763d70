-------------------------- MODULE MaintenanceProofs --------------------------
(***************************************************************************)
(* What the maintenance passes add, miss and remove beside clients, for    *)
(* every number of principals, passes, pages and policies.                 *)
(***************************************************************************)
EXTENDS Maintenance, PagingProofs

(* What a label says of the request that is at it.                         *)

Memory == [walk : 0..4, cursor : Row \cup {NoCursor}, todo : SUBSET (Row \cup Assets),
           cur : Assets, found : SUBSET Row, pruned : SUBSET Row, cutoff : Int,
           policy : Policies \cup {NoPolicy}]

Fits(label, q, m) ==
    /\ label \in {"idle", "gate", "owners", "policy"} =>
           m.walk = 0 /\ m.cursor = NoCursor /\ m.todo = {} /\ m.found = {}
    /\ label = "gate" => q.op \in {"backfill", "prune", "audit_prune"} /\ q.caller \in Assets
    /\ label \in {"owners", "owner_row", "owner_put"} =>
           q.op = "backfill" /\ m.walk = 0 /\ m.cursor = NoCursor
    /\ label = "page" => q.op = "backfill" /\ m.walk \in 1..4 /\ m.todo = {}
    /\ label \in {"tag_get", "tag_put", "tag_bump"} => q.op = "backfill" /\ m.walk \in {1, 2}
    /\ label = "known" => q.op = "backfill" /\ m.walk \in {3, 4}
    /\ label \in {"find", "backing", "refresh", "create", "create_tags", "read"} =>
           q.op = "upsert" \/ (q.op = "backfill" /\ m.walk \in {3, 4})
    /\ label \in {"tag_put", "tag_bump", "owner_put"} => m.cur \in m.todo
    /\ label = "policy" => q.op \in {"prune", "audit_prune"}
    /\ label \in {"candidates"} \cup Deleting => q.op = "prune"
    /\ label \in {"soft_delete", "cascade"} => m.cur \in Ids(m.todo)

Sound(label, q, m) ==
    /\ m \in Memory /\ m.pruned \subseteq m.found
    /\ IsFiniteSet(m.found) /\ Cardinality(m.found) <= Cap
    /\ m.todo \subseteq (IF label \in Deleting THEN m.found ELSE Assets)
    /\ label = "idle" => q = NoRequest
    /\ label # "idle" => q \in Request
    /\ Fits(label, q, m)

Tables ==
    /\ edits \in 0..MaxEdits
    /\ row \in [Assets -> {"live", "deleted"}]
    /\ born \in [Assets -> Time] /\ at \in [Assets -> Time]
    /\ roles \subseteq RoleTag /\ access \subseteq AccessRow /\ entries \subseteq DirectoryEntry

Locals ==
    /\ req \in [Requests -> Request \cup {NoRequest}]
    /\ pc \in [Requests -> {"idle"} \cup Working \cup Answers]
    /\ mem = [r \in Requests |-> mem[r]]
    /\ \A r \in Requests : Sound(pc[r], req[r], mem[r])

Kinds == {"role", "access", "entry"} \X Assets

History ==
    /\ had \in [Requests -> SUBSET Kinds] /\ steady \in [Requests -> SUBSET Assets]
    /\ gone \in [Requests -> SUBSET Assets] /\ slipped \subseteq Assets

Shape == Tables /\ Locals /\ History

LEMMA MemoryDomain ==
    ASSUME NEW m \in Memory
    PROVE  DOMAIN m = DOMAIN NoMemory
<1>1. DOMAIN m = {"walk", "cursor", "todo", "cur", "found", "pruned", "cutoff", "policy"}
  BY DEF Memory
<1>2. DOMAIN NoMemory = {"walk", "cursor", "todo", "cur", "found", "pruned", "cutoff", "policy"}
  BY DEF NoMemory
<1> QED BY <1>1, <1>2

LEMMA ShapeTypes == Shape => TypeOK
<1> SUFFICES ASSUME Shape PROVE TypeOK
  OBVIOUS
<1>1. ASSUME NEW r \in Requests
      PROVE  /\ DOMAIN mem[r] = DOMAIN NoMemory
             /\ mem[r].walk \in 0..4 /\ mem[r].cur \in Assets
             /\ mem[r].cursor \in Row \cup {NoCursor}
             /\ mem[r].todo \subseteq (IF pc[r] \in Deleting THEN mem[r].found ELSE Assets)
             /\ mem[r].pruned \subseteq mem[r].found /\ mem[r].found \subseteq Row
             /\ Cardinality(mem[r].found) <= Cap
             /\ mem[r].cutoff \in Int /\ mem[r].policy \in Policies \cup {NoPolicy}
  <2>1. Sound(pc[r], req[r], mem[r])
    BY DEF Shape, Locals
  <2>2. DOMAIN mem[r] = DOMAIN NoMemory
    BY <2>1, MemoryDomain DEF Sound
  <2> QED BY <2>1, <2>2 DEF Sound, Memory
<1> QED BY <1>1, Zenon DEF TypeOK, Shape, Tables, Locals, History, Kinds

-----------------------------------------------------------------------------
(* The rows of a search and its pages.                                       *)

LEMMA NoCursorIsNoRow == NoCursor \notin Row
BY MaintenanceAssumption DEF NoCursor, Row

LEMMA RowFacts ==
    ASSUME Tables, NEW class
    PROVE  /\ Rows(class) \subseteq Row /\ Rows(class) \subseteq Keyset /\ IsFiniteSet(Rows(class))
           /\ \A x \in Rows(class) : x.id \in Assets /\ Live(x.id) /\ Kind(x.id) = class
                                     /\ x.at = at[x.id]
           /\ \A a \in Assets : Live(a) /\ Kind(a) = class =>
                                    [id |-> a, at |-> at[a]] \in Rows(class)
<1> DEFINE A == {b \in Assets : Live(b) /\ Kind(b) = class}
           f == [a \in A |-> [id |-> a, at |-> at[a]]]
<1>1. Rows(class) = {f[a] : a \in A}
  BY DEF Rows
<1>2. f \in Surjection(A, Rows(class))
  BY <1>1 DEF Surjection
<1>3. IsFiniteSet(A)
  <2>1. A \in SUBSET Assets
    OBVIOUS
  <2> QED BY <2>1, FS_Subset, MaintenanceAssumption
<1>4. IsFiniteSet(Rows(class))
  <2> HIDE DEF f, A
  <2> QED BY <1>2, <1>3, FS_Surjection
<1>5. \A a \in Assets : a \in Int /\ at[a] \in Time /\ at[a] \in Int
  BY MaintenanceAssumption DEF Tables, Time
<1> QED BY <1>1, <1>4, <1>5 DEF Row, Keyset

\* A page is of rows behind the cursor, and what is behind the next cursor is the rest.
LEMMA PageFacts ==
    ASSUME Shape, NEW r \in Requests, NEW class
    PROVE  LET rest == Behind(Rows(class), mem[r].cursor) IN
           /\ Page(r, class) \subseteq rest /\ Page(r, class) \subseteq Rows(class)
           /\ IsFiniteSet(Page(r, class))
           /\ Following(r, class) \in rest \cup {NoCursor}
           /\ Following(r, class) = NoCursor => Page(r, class) = rest
           /\ Following(r, class) # NoCursor =>
                 \A x \in rest : x \in Page(r, class) <=> ~Newer(Following(r, class), x)
<1> DEFINE rest == Behind(Rows(class), mem[r].cursor)
<1>1. rest \in SUBSET Rows(class) /\ IsFiniteSet(rest) /\ rest \subseteq Keyset /\ rest \subseteq Row
  <2>1. rest \in SUBSET Rows(class)
    BY DEF Behind
  <2> QED BY <2>1, RowFacts, FS_Subset DEF Shape
<1> HIDE DEF rest
<1>2. PageSize \in Nat \ {0}
  BY MaintenanceAssumption
<1>3. Page(r, class) = First(rest, PageSize) /\ Following(r, class) = NextCursor(rest, PageSize)
  BY DEF Page, Following, rest
<1>4. Page(r, class) \subseteq rest /\ IsFiniteSet(Page(r, class))
  BY <1>1, <1>2, <1>3, FullPage
<1>5. CASE Cardinality(rest) <= PageSize
  BY <1>1, <1>2, <1>3, <1>4, <1>5, ShortPage DEF NextCursor, rest
<1>6. CASE ~(Cardinality(rest) <= PageSize)
  <2>1. /\ Following(r, class) \in rest
        /\ \A x \in rest : x \in Page(r, class) <=> ~Newer(Following(r, class), x)
    BY <1>1, <1>2, <1>3, <1>6, CursorSplits
  <2> QED BY <1>1, <1>4, <2>1, NoCursorIsNoRow DEF rest
<1> QED BY <1>5, <1>6

-----------------------------------------------------------------------------
(* Steps.                                                                    *)

Elsewhere(r) ==
    \A x \in Requests \ {r} : pc'[x] = pc[x] /\ req'[x] = req[x] /\ mem'[x] = mem[x]

\* What is left of a memory when its request goes on to a label.
Left(label, m) == IF label \notin Answers THEN m
                  ELSE [NoMemory EXCEPT !.found = m.found, !.pruned = m.pruned]

LEMMA NoMemorySound ==
    /\ NoMemory \in Memory /\ NoMemory.found = {} /\ NoMemory.pruned = {} /\ NoMemory.todo = {}
    /\ NoMemory.walk = 0 /\ NoMemory.cursor = NoCursor
<1>1. (CHOOSE a \in Assets : TRUE) \in Assets
  BY MaintenanceAssumption
<1> QED BY <1>1 DEF NoMemory, Memory

LEMMA LeftIsSound ==
    ASSUME NEW label \in Working \cup Answers, NEW q, NEW m, Sound(label, q, m)
    PROVE  /\ Sound(label, q, Left(label, m))
           /\ Left(label, m).found = m.found /\ Left(label, m).pruned = m.pruned
<1>1. CASE label \notin Answers
  BY <1>1 DEF Left
<1>2. CASE label \in Answers
  <2>1. PICK n : n = NoMemory
    OBVIOUS
  <2>2. PICK l : l = [n EXCEPT !.found = m.found, !.pruned = m.pruned]
    OBVIOUS
  <2>3. n \in Memory /\ n.todo = {} /\ m \in Memory
    BY <2>1, NoMemorySound DEF Sound
  <2>4. l \in Memory /\ l.found = m.found /\ l.pruned = m.pruned /\ l.todo = {}
    BY <2>2, <2>3 DEF Memory
  <2>5. l = Left(label, m)
    BY <1>2, <2>1, <2>2 DEF Left
  <2>6. label \notin {"idle"} \cup Working
    BY <1>2 DEF Answers, Working
  <2>7. Fits(label, q, l)
    BY <2>6 DEF Fits, Working, Deleting
  <2>8. Sound(label, q, l)
    BY <2>4, <2>6, <2>7 DEF Sound
  <2> QED BY <2>4, <2>5, <2>8
<1> QED BY <1>1, <1>2

LEMMA GotoFacts ==
    ASSUME Locals, NEW r \in Requests, NEW label \in Working \cup Answers, NEW m, Goto(r, label, m)
    PROVE  /\ pc' = [pc EXCEPT ![r] = label] /\ pc'[r] = label
           /\ mem' = [mem EXCEPT ![r] = Left(label, m)] /\ mem'[r] = Left(label, m)
           /\ pc' \in [Requests -> {"idle"} \cup Working \cup Answers]
           /\ mem' = [x \in Requests |-> mem'[x]]
           /\ \A x \in Requests \ {r} : pc'[x] = pc[x] /\ mem'[x] = mem[x]
<1>1. PICK n : n = Left(label, m)
  OBVIOUS
<1>2. mem' = [mem EXCEPT ![r] = n] /\ pc' = [pc EXCEPT ![r] = label]
  BY <1>1, Zenon DEF Goto, Left
<1>3. /\ pc \in [Requests -> {"idle"} \cup Working \cup Answers]
      /\ mem = [x \in Requests |-> mem[x]]
  BY DEF Locals
<1>4. /\ mem'[r] = n /\ mem' = [x \in Requests |-> mem'[x]]
      /\ \A x \in Requests \ {r} : mem'[x] = mem[x]
  BY <1>2, <1>3
<1>5. /\ pc'[r] = label /\ pc' \in [Requests -> {"idle"} \cup Working \cup Answers]
      /\ \A x \in Requests \ {r} : pc'[x] = pc[x]
  BY <1>2, <1>3
<1> QED BY <1>1, <1>2, <1>4, <1>5

\* r goes on to a label with memory that is sound for it.
Goes(r, label, m) ==
    Goto(r, label, m) /\ label \in Working \cup Answers /\ Sound(label, req'[r], m)

LEMMA GoesKeepsLocals ==
    ASSUME Locals, NEW r \in Requests, NEW label, NEW m, Goes(r, label, m),
           req' \in [Requests -> Request \cup {NoRequest}],
           \A x \in Requests \ {r} : req'[x] = req[x]
    PROVE  Locals'
<1>1. Sound(label, req'[r], Left(label, m))
  BY LeftIsSound DEF Goes
<1>2. /\ pc'[r] = label /\ mem'[r] = Left(label, m)
      /\ pc' \in [Requests -> {"idle"} \cup Working \cup Answers]
      /\ mem' = [x \in Requests |-> mem'[x]]
      /\ \A x \in Requests \ {r} : pc'[x] = pc[x] /\ mem'[x] = mem[x]
  BY GotoFacts DEF Goes
<1>3. ASSUME NEW x \in Requests PROVE Sound(pc'[x], req'[x], mem'[x])
  <2>1. Sound(pc[x], req[x], mem[x])
    BY DEF Locals
  <2> QED BY <1>1, <1>2, <2>1
<1> QED BY <1>2, <1>3, Zenon DEF Locals

\* Where Proceed goes.
ProceedsTo(m, label, n) ==
    \/ m.todo # {} /\ label = Begin(m.walk) /\ n = m
    \/ m.todo = {} /\ m.cursor # NoCursor /\ label = "page" /\ n = m
    \/ /\ m.todo = {} /\ m.cursor = NoCursor /\ m.walk < 4
       /\ label = "page" /\ n = [m EXCEPT !.walk = @ + 1]
    \/ m.todo = {} /\ m.cursor = NoCursor /\ ~(m.walk < 4) /\ label = "ok" /\ n = m

LEMMA BeginOf ==
    ASSUME NEW w \in 0..4
    PROVE  Begin(w) = IF w = 0 THEN "owner_row" ELSE IF w \in {1, 2} THEN "tag_get" ELSE "known"
BY DEF Begin, Scans

LEMMA ProceedGoes ==
    ASSUME NEW r \in Requests, NEW m, Proceed(r, m), m \in Memory, m.pruned \subseteq m.found,
           IsFiniteSet(m.found), Cardinality(m.found) <= Cap, m.todo \subseteq Assets,
           m.walk = 0 => m.cursor = NoCursor,
           req'[r] \in Request, req'[r].op = "backfill"
    PROVE  \E label, n : /\ Goes(r, label, n) /\ n.found = m.found /\ n.pruned = m.pruned
                         /\ ProceedsTo(m, label, n)
<1>1. CASE m.todo # {}
  <2>1. Goto(r, Begin(m.walk), m)
    BY <1>1 DEF Proceed
  <2>2. Begin(m.walk) = IF m.walk = 0 THEN "owner_row"
                        ELSE IF m.walk \in {1, 2} THEN "tag_get" ELSE "known"
    BY BeginOf DEF Memory
  <2>3. Begin(m.walk) \in {"owner_row", "tag_get", "known"} /\ m.walk \in 0..4
    BY <2>2 DEF Memory
  <2>4. Fits(Begin(m.walk), req'[r], m)
    BY <2>2, <2>3 DEF Fits, Deleting
  <2>5. Goes(r, Begin(m.walk), m)
    BY <2>1, <2>3, <2>4 DEF Goes, Sound, Working, Deleting
  <2> QED BY <1>1, <2>5 DEF ProceedsTo
<1>2. CASE m.todo = {} /\ m.cursor # NoCursor
  <2>1. Goto(r, "page", m)
    BY <1>2 DEF Proceed
  <2>2. Fits("page", req'[r], m)
    BY <1>2 DEF Fits, Deleting, Memory
  <2>3. Goes(r, "page", m)
    BY <2>1, <2>2 DEF Goes, Sound, Working, Deleting
  <2> QED BY <1>2, <2>3 DEF ProceedsTo
<1>3. CASE m.todo = {} /\ m.cursor = NoCursor /\ m.walk < 4
  <2>1. Goto(r, "page", [m EXCEPT !.walk = @ + 1])
    BY <1>3 DEF Proceed
  <2>2. PICK n : n = [m EXCEPT !.walk = @ + 1]
    OBVIOUS
  <2>3. n \in Memory /\ n.walk \in 1..4 /\ n.todo = m.todo /\ n.found = m.found
        /\ n.pruned = m.pruned
    BY <1>3, <2>2 DEF Memory
  <2>4. Fits("page", req'[r], n)
    BY <1>3, <2>3 DEF Fits, Deleting
  <2>5. Goes(r, "page", n)
    BY <2>1, <2>2, <2>3, <2>4 DEF Goes, Sound, Working, Deleting
  <2> QED BY <1>3, <2>2, <2>3, <2>5 DEF ProceedsTo
<1>4. CASE m.todo = {} /\ m.cursor = NoCursor /\ ~(m.walk < 4)
  <2>1. Goto(r, "ok", m)
    BY <1>4 DEF Proceed
  <2>2. Fits("ok", req'[r], m)
    BY DEF Fits, Deleting
  <2>3. Goes(r, "ok", m)
    BY <2>1, <2>2 DEF Goes, Sound, Answers, Deleting
  <2> QED BY <1>4, <2>3 DEF ProceedsTo
<1> QED BY <1>1, <1>2, <1>3, <1>4

\* What is found of r before a step, and that a step of the backfill leaves it.
Keeps(r, m) == m.found = mem[r].found /\ m.pruned = mem[r].pruned

LEMMA SoundNow ==
    ASSUME Shape, NEW r \in Requests
    PROVE  Sound(pc[r], req[r], mem[r])
BY DEF Shape, Locals

LEMMA DoneGoes ==
    ASSUME Shape, NEW r \in Requests, NEW a, Done(r, a), UNCHANGED req,
           req[r].op = "backfill", pc[r] \notin Deleting \cup {"idle"},
           mem[r].walk = 0 => mem[r].cursor = NoCursor
    PROVE  \E label, n : /\ Goes(r, label, n) /\ Keeps(r, n)
                         /\ ProceedsTo([mem[r] EXCEPT !.todo = @ \ {a}], label, n)
<1>1. PICK m : m = [mem[r] EXCEPT !.todo = @ \ {a}]
  OBVIOUS
<1>2. Sound(pc[r], req[r], mem[r])
  BY SoundNow
<1>3. /\ m \in Memory /\ m.todo \subseteq Assets /\ m.found = mem[r].found
      /\ m.pruned = mem[r].pruned /\ m.walk = mem[r].walk /\ m.cursor = mem[r].cursor
  BY <1>1, <1>2 DEF Sound, Memory
<1>4. Proceed(r, m)
  BY <1>1, Zenon DEF Done
<1>5. \E label, n : /\ Goes(r, label, n) /\ n.found = m.found /\ n.pruned = m.pruned
                    /\ ProceedsTo(m, label, n)
  BY <1>2, <1>3, <1>4, ProceedGoes DEF Sound
<1> QED BY <1>1, <1>3, <1>5 DEF Keeps

\* Another label with the memory as it is, or with another principal at work.
LEMMA OnGoes ==
    ASSUME Shape, NEW r \in Requests, NEW label \in Working \cup Answers, On(r, label),
           req'[r] \in Request, Fits(label, req'[r], mem[r]),
           mem[r].todo \subseteq (IF label \in Deleting THEN mem[r].found ELSE Assets)
    PROVE  Goes(r, label, mem[r])
<1>1. label # "idle"
  BY DEF Working, Answers
<1> QED BY <1>1, SoundNow DEF On, Goes, Sound

LEMMA AtGoes ==
    ASSUME Shape, NEW r \in Requests, NEW label \in Working \cup Answers, NEW a \in Assets,
           Goto(r, label, [mem[r] EXCEPT !.cur = a]),
           req'[r] \in Request, Fits(label, req'[r], [mem[r] EXCEPT !.cur = a]),
           mem[r].todo \subseteq (IF label \in Deleting THEN mem[r].found ELSE Assets)
    PROVE  \E m : /\ Goes(r, label, m) /\ Keeps(r, m) /\ m = [mem[r] EXCEPT !.cur = a]
                  /\ m.cur = a /\ m.todo = mem[r].todo /\ m.walk = mem[r].walk
                  /\ m.cursor = mem[r].cursor
<1>1. PICK m : m = [mem[r] EXCEPT !.cur = a]
  OBVIOUS
<1>2. label # "idle"
  BY DEF Working, Answers
<1>3. Sound(pc[r], req[r], mem[r])
  BY SoundNow
<1>4. /\ m \in Memory /\ Keeps(r, m) /\ m.todo = mem[r].todo /\ m.cur = a
      /\ m.walk = mem[r].walk /\ m.cursor = mem[r].cursor
  BY <1>1, <1>3 DEF Keeps, Sound, Memory
<1>5. Goto(r, label, m) /\ Fits(label, req'[r], m)
  BY <1>1
<1>6. Sound(label, req'[r], m)
  BY <1>2, <1>3, <1>4, <1>5 DEF Sound, Keeps
<1> QED BY <1>1, <1>4, <1>5, <1>6 DEF Goes

\* What a request at a label has in its memory.
LEMMA AtLabel ==
    ASSUME Shape, NEW r \in Requests, pc[r] # "idle"
    PROVE  /\ req[r] \in Request /\ mem[r] \in Memory /\ Fits(pc[r], req[r], mem[r])
           /\ pc[r] \notin Deleting => mem[r].todo \subseteq Assets
           /\ pc[r] \in Deleting => mem[r].todo \subseteq mem[r].found
           /\ mem[r].pruned \subseteq mem[r].found /\ IsFiniteSet(mem[r].found)
           /\ Cardinality(mem[r].found) <= Cap
BY SoundNow DEF Sound

LEMMA ListOwnersGoes ==
    ASSUME Shape, NEW r \in Requests, UNCHANGED req, ListOwners(r)
    PROVE  \E m, label, n :
              /\ Goes(r, label, n) /\ Keeps(r, n) /\ ProceedsTo(m, label, n)
              /\ m \in Memory /\ m.walk = mem[r].walk /\ m.cursor = mem[r].cursor
              /\ m.todo = {a \in Owners : Live(a)}
<1>0. pc[r] = "owners" /\ pc[r] \notin Deleting
  BY DEF At, Deleting, ListOwners
<1>1. /\ req[r] \in Request /\ mem[r] \in Memory /\ Fits(pc[r], req[r], mem[r])
      /\ mem[r].pruned \subseteq mem[r].found
      /\ IsFiniteSet(mem[r].found) /\ Cardinality(mem[r].found) <= Cap
  BY <1>0, AtLabel
<1>2. PICK m : m = [mem[r] EXCEPT !.todo = {a \in Owners : Live(a)}]
  OBVIOUS
<1>3. Proceed(r, m)
  BY <1>2, Zenon DEF ListOwners
<1>4. /\ m \in Memory /\ m.todo \subseteq Assets /\ m.walk = mem[r].walk /\ m.cursor = mem[r].cursor
      /\ m.found = mem[r].found /\ m.pruned = mem[r].pruned /\ m.todo = {a \in Owners : Live(a)}
  BY <1>1, <1>2, MaintenanceAssumption DEF Memory
<1>5. req[r].op = "backfill" /\ mem[r].cursor = NoCursor
  BY <1>0, <1>1 DEF Fits
<1>6. \E label, n : /\ Goes(r, label, n) /\ n.found = m.found /\ n.pruned = m.pruned
                    /\ ProceedsTo(m, label, n)
  BY <1>1, <1>3, <1>4, <1>5, ProceedGoes
<1> QED BY <1>4, <1>6 DEF Keeps

\* What a page of a scan leaves to do.
LeftOf(r) == IF Scan(r).job = "roles" THEN Unruled(Page(r, Scan(r).class))
             ELSE Ids(Page(r, Scan(r).class))

LEMMA ReadPageGoes ==
    ASSUME Shape, NEW r \in Requests, UNCHANGED req, ReadPage(r)
    PROVE  \E m, label, n :
              /\ Goes(r, label, n) /\ Keeps(r, n) /\ ProceedsTo(m, label, n)
              /\ m \in Memory /\ m.walk = mem[r].walk /\ m.cursor = Following(r, Scan(r).class)
              /\ m.todo = LeftOf(r)
<1>0. pc[r] = "page" /\ pc[r] \notin Deleting
  BY DEF At, Deleting, ReadPage
<1>1. /\ req[r] \in Request /\ mem[r] \in Memory /\ Fits(pc[r], req[r], mem[r])
      /\ mem[r].pruned \subseteq mem[r].found
      /\ IsFiniteSet(mem[r].found) /\ Cardinality(mem[r].found) <= Cap
  BY <1>0, AtLabel
<1>2. req[r].op = "backfill" /\ mem[r].walk # 0
  BY <1>0, <1>1 DEF Fits
<1>3. PICK left : left = LeftOf(r)
  OBVIOUS
<1>4. PICK m : m = [mem[r] EXCEPT !.todo = left, !.cursor = Following(r, Scan(r).class)]
  OBVIOUS
<1>5. Proceed(r, m)
  BY <1>3, <1>4, Zenon DEF ReadPage, LeftOf
<1>6. left \subseteq Assets
  BY <1>3, PageFacts, RowFacts DEF LeftOf, Ids, Unruled, Shape
<1>7. Following(r, Scan(r).class) \in Row \cup {NoCursor}
  <2>1. Following(r, Scan(r).class) \in Rows(Scan(r).class) \cup {NoCursor}
    BY PageFacts DEF Behind
  <2> QED BY <2>1, RowFacts DEF Shape
<1>8. /\ m \in Memory /\ m.todo \subseteq Assets /\ m.walk = mem[r].walk
      /\ m.found = mem[r].found /\ m.pruned = mem[r].pruned
      /\ m.todo = left /\ m.cursor = Following(r, Scan(r).class)
  BY <1>1, <1>4, <1>6, <1>7 DEF Memory
<1>9. \E label, n : /\ Goes(r, label, n) /\ n.found = m.found /\ n.pruned = m.pruned
                    /\ ProceedsTo(m, label, n)
  BY <1>1, <1>2, <1>5, <1>8, ProceedGoes
<1> QED BY <1>3, <1>8, <1>9 DEF Keeps

LEMMA BackfillGoes ==
    ASSUME Shape, NEW r \in Requests, UNCHANGED req,
           Gate(r) \/ ListOwners(r) \/ OwnerRow(r) \/ PutOwner(r) \/ ReadPage(r)
           \/ TagGet(r) \/ TagPut(r) \/ TagBump(r)
    PROVE  \E label, m : Goes(r, label, m) /\ Keeps(r, m)
<1>0. pc[r] \in Working \ Deleting
  BY DEF At, Working, Deleting, Gate, ListOwners, OwnerRow, PutOwner, ReadPage, TagGet, TagPut, TagBump
<1>1. /\ req[r] \in Request /\ mem[r] \in Memory /\ Fits(pc[r], req[r], mem[r])
      /\ mem[r].todo \subseteq Assets /\ mem[r].pruned \subseteq mem[r].found
      /\ IsFiniteSet(mem[r].found) /\ Cardinality(mem[r].found) <= Cap
  BY <1>0, AtLabel DEF Working
<1>2. CASE Gate(r)
  <2>1. On(r, Opened(req[r])) \/ On(r, "forbidden")
    BY <1>2 DEF Gate
  <2>2. pc[r] = "gate"
    BY <1>2 DEF Gate, At
  <2>3. \A label \in {"owners", "policy", "forbidden"} :
            label = Opened(req[r]) \/ label = "forbidden" => Fits(label, req'[r], mem[r])
    BY <1>1, <2>2 DEF Fits, Opened, Deleting
  <2>4. Opened(req[r]) \in {"owners", "policy"}
    BY DEF Opened
  <2>5. PICK label \in {"owners", "policy", "forbidden"} :
            On(r, label) /\ Fits(label, req'[r], mem[r])
    BY <2>1, <2>3, <2>4
  <2>6. label \in Working \cup Answers /\ label \notin Deleting
    BY DEF Working, Answers, Deleting
  <2> QED BY <1>1, <2>5, <2>6, OnGoes DEF Keeps
<1>3. CASE ListOwners(r)
  BY <1>3, ListOwnersGoes, Zenon
<1>4. CASE OwnerRow(r)
  <2>1. pc[r] = "owner_row" /\ req[r].op = "backfill" /\ mem[r].cursor = NoCursor /\ mem[r].walk = 0
    BY <1>1, <1>4 DEF OwnerRow, At, Fits
  <2>2. PICK a \in mem[r].todo :
            IF Shared(a) THEN Done(r, a) ELSE Goto(r, "owner_put", [mem[r] EXCEPT !.cur = a])
    BY <1>4 DEF OwnerRow
  <2>3. CASE Done(r, a)
    BY <1>0, <2>1, <2>3, DoneGoes DEF Working
  <2>4. CASE Goto(r, "owner_put", [mem[r] EXCEPT !.cur = a])
    <3>1. Fits("owner_put", req'[r], [mem[r] EXCEPT !.cur = a])
      BY <1>1, <2>1, <2>2 DEF Fits, Memory, Deleting
    <3>2. "owner_put" \in Working \cup Answers /\ "owner_put" \notin Deleting
      BY DEF Working, Deleting
    <3> QED BY <1>1, <2>2, <2>4, <3>1, <3>2, AtGoes
  <2> QED BY <2>2, <2>3, <2>4
<1>5. CASE PutOwner(r)
  <2>1. pc[r] = "owner_put" /\ req[r].op = "backfill" /\ mem[r].cursor = NoCursor
    BY <1>1, <1>5 DEF PutOwner, At, Fits
  <2>2. Done(r, mem[r].cur)
    BY <1>5 DEF PutOwner
  <2> QED BY <1>0, <2>1, <2>2, DoneGoes DEF Working
<1>6. CASE ReadPage(r)
  BY <1>6, ReadPageGoes, Zenon
<1>7. CASE TagGet(r)
  <2>1. PICK a \in mem[r].todo :
            Goto(r, IF Live(a) THEN "tag_put" ELSE "notfound", [mem[r] EXCEPT !.cur = a])
    BY <1>7 DEF TagGet
  <2>2. PICK label \in {"tag_put", "notfound"} : Goto(r, label, [mem[r] EXCEPT !.cur = a])
    BY <2>1
  <2>3. Fits(label, req'[r], [mem[r] EXCEPT !.cur = a])
    BY <1>1, <1>7, <2>1 DEF Fits, Memory, Deleting, TagGet, At
  <2>4. label \in Working \cup Answers /\ label \notin Deleting
    BY DEF Working, Answers, Deleting
  <2> QED BY <1>1, <2>1, <2>2, <2>3, <2>4, AtGoes
<1>8. CASE TagPut(r)
  <2>1. On(r, "tag_bump")
    BY <1>8 DEF TagPut
  <2>2. Fits("tag_bump", req'[r], mem[r])
    BY <1>1, <1>8 DEF Fits, Deleting, TagPut, At
  <2>3. "tag_bump" \in Working \cup Answers /\ "tag_bump" \notin Deleting
    BY DEF Working, Deleting
  <2> QED BY <1>1, <2>1, <2>2, <2>3, OnGoes DEF Keeps
<1>9. CASE TagBump(r)
  <2>1. req[r].op = "backfill" /\ mem[r].walk # 0
    BY <1>1, <1>9 DEF Fits, TagBump, At
  <2>2. Done(r, mem[r].cur)
    BY <1>9 DEF TagBump
  <2> QED BY <1>0, <2>1, <2>2, DoneGoes DEF Working
<1> QED BY <1>2, <1>3, <1>4, <1>5, <1>6, <1>7, <1>8, <1>9

\* The labels of an upsert.
Upserting == {"find", "backing", "refresh", "create", "create_tags", "read"}

LEMMA UpsertGoes ==
    ASSUME Shape, NEW r \in Requests, UNCHANGED req,
           Known(r) \/ Find(r) \/ Backing(r) \/ Refresh(r) \/ Create(r) \/ CreateTags(r) \/ Read(r)
    PROVE  \E label, m : Goes(r, label, m) /\ Keeps(r, m)
<1>0. pc[r] \in Upserting \cup {"known"} /\ pc[r] \in Working \ Deleting
  BY DEF At, Working, Deleting, Upserting, Known, Find, Backing, Refresh, Create, CreateTags, Read
<1>1. /\ req[r] \in Request /\ mem[r] \in Memory /\ Fits(pc[r], req[r], mem[r])
      /\ mem[r].todo \subseteq Assets
  BY <1>0, AtLabel DEF Working
<1>2. CASE Known(r)
  <2>1. req[r].op = "backfill" /\ mem[r].walk \in {3, 4}
    BY <1>1, <1>2 DEF Known, At, Fits
  <2>2. PICK u \in mem[r].todo :
            IF Listed(u) THEN Done(r, u) ELSE Goto(r, "find", [mem[r] EXCEPT !.cur = u])
    BY <1>2 DEF Known
  <2>3. CASE Done(r, u)
    <3>1. pc[r] \notin Deleting \cup {"idle"} /\ mem[r].walk # 0
      BY <1>0, <2>1 DEF Working
    <3> QED BY <2>1, <2>3, <3>1, DoneGoes
  <2>4. CASE Goto(r, "find", [mem[r] EXCEPT !.cur = u])
    <3>1. Fits("find", req'[r], [mem[r] EXCEPT !.cur = u])
      BY <1>1, <2>1, <2>2 DEF Fits, Memory, Deleting
    <3>2. "find" \in Working \cup Answers /\ "find" \notin Deleting
      BY DEF Working, Deleting
    <3> QED BY <1>1, <2>2, <2>4, <3>1, <3>2, AtGoes
  <2> QED BY <2>2, <2>3, <2>4
<1>3. ASSUME NEW label \in Upserting \cup Answers, On(r, label), pc[r] \in Upserting
      PROVE  \E m : Goes(r, label, m) /\ Keeps(r, m)
  <2>1. Fits(label, req'[r], mem[r])
    BY <1>1, <1>3 DEF Fits, Deleting, Upserting, Answers
  <2>2. label \in Working \cup Answers /\ label \notin Deleting
    BY <1>3 DEF Working, Answers, Deleting, Upserting
  <2> QED BY <1>1, <1>3, <2>1, <2>2, OnGoes DEF Keeps
<1>4. CASE Find(r) \/ Backing(r) \/ Refresh(r) \/ Create(r) \/ CreateTags(r)
  <2>1. \E label \in Upserting \cup Answers : On(r, label) /\ pc[r] \in Upserting
    <3>1. CASE Find(r)
      BY <3>1 DEF Find, Upserting, At
    <3>2. CASE Backing(r)
      BY <3>2 DEF Backing, Upserting, At, Answers
    <3>3. CASE Refresh(r)
      BY <3>3 DEF Refresh, Upserting, At, Answers
    <3>4. CASE Create(r)
      BY <3>4 DEF Create, Upserting, At
    <3>5. CASE CreateTags(r)
      BY <3>5 DEF CreateTags, Upserting, At
    <3> QED BY <1>4, <3>1, <3>2, <3>3, <3>4, <3>5
  <2> QED BY <1>3, <2>1
<1>5. CASE Read(r)
  <2>1. pc[r] = "read"
    BY <1>5 DEF Read, At
  <2>2. CASE On(r, "notfound") \/ On(r, "ok")
    BY <1>3, <2>1, <2>2 DEF Upserting, Answers
  <2>3. CASE req[r].op # "upsert" /\ Done(r, mem[r].cur)
    <3>1. req[r].op = "backfill" /\ mem[r].walk # 0
      BY <1>1, <2>1, <2>3 DEF Fits
    <3> QED BY <1>0, <2>3, <3>1, DoneGoes DEF Working
  <2> QED BY <1>5, <2>2, <2>3 DEF Read
<1> QED BY <1>2, <1>4, <1>5

\* What a page of the prune's walk adds to the candidates.
Added(r) == First(Due(r, Page(r, req[r].class)), Cap - Cardinality(mem[r].found))

LEMMA AddedFacts ==
    ASSUME Shape, NEW r \in Requests, pc[r] = "candidates"
    PROVE  /\ Added(r) \subseteq Page(r, req[r].class) /\ Added(r) \subseteq Row
           /\ \A x \in Added(r) : born[x.id] < mem[r].cutoff
           /\ IsFiniteSet(mem[r].found \cup Added(r))
           /\ Cardinality(mem[r].found \cup Added(r)) <= Cap
           /\ \A x \in Page(r, req[r].class) :
                 born[x.id] < mem[r].cutoff /\ mem[r].found \cap Page(r, req[r].class) = {} =>
                     x \in Added(r) \/ Cardinality(mem[r].found \cup Added(r)) = Cap
<1> DEFINE page == Page(r, req[r].class)
           due == Due(r, page)
           k == Cap - Cardinality(mem[r].found)
<1>1. page \subseteq Rows(req[r].class) /\ IsFiniteSet(page)
      /\ Rows(req[r].class) \subseteq Row /\ Rows(req[r].class) \subseteq Keyset
  BY PageFacts, RowFacts DEF Shape
<1> HIDE DEF page
<1>2. due \in SUBSET page /\ IsFiniteSet(due) /\ due \subseteq Keyset
      /\ (\A x \in due : born[x.id] < mem[r].cutoff)
      /\ \A x \in page : born[x.id] < mem[r].cutoff => x \in due
  <2>1. due \in SUBSET page
    BY DEF Due
  <2> QED BY <1>1, <2>1, FS_Subset DEF Due
<1>3. IsFiniteSet(mem[r].found) /\ Cardinality(mem[r].found) \in Nat /\ k \in Nat
  <2>1. IsFiniteSet(mem[r].found) /\ Cardinality(mem[r].found) <= Cap
    BY AtLabel
  <2> QED BY <2>1, FS_CardinalityType, MaintenanceAssumption
<1>4. Added(r) = First(due, k)
  BY DEF Added, page
<1> HIDE DEF due, k
<1>5. /\ Added(r) \subseteq due /\ IsFiniteSet(Added(r)) /\ Cardinality(Added(r)) <= k
      /\ Cardinality(Added(r)) \in Nat
      /\ Added(r) # due => Cardinality(Added(r)) = k
  BY <1>2, <1>3, <1>4, FullPage, FS_CardinalityType
<1>6. /\ IsFiniteSet(mem[r].found \cup Added(r)) /\ IsFiniteSet(mem[r].found \cap Added(r))
      /\ Cardinality(mem[r].found \cup Added(r)) =
             Cardinality(mem[r].found) + Cardinality(Added(r))
                 - Cardinality(mem[r].found \cap Added(r))
      /\ Cardinality(mem[r].found \cap Added(r)) \in Nat
  BY <1>3, <1>5, FS_Union, FS_Intersection, FS_CardinalityType
<1>7. Cardinality(mem[r].found) + k = Cap
  BY <1>3, MaintenanceAssumption DEF k
<1>8. ASSUME NEW x \in page, born[x.id] < mem[r].cutoff, mem[r].found \cap page = {},
             x \notin Added(r)
      PROVE  Cardinality(mem[r].found \cup Added(r)) = Cap
  <2>1. Added(r) # due /\ mem[r].found \cap Added(r) = {}
    BY <1>2, <1>5, <1>8
  <2> QED BY <1>3, <1>5, <1>6, <1>7, <2>1, FS_EmptySet
<1>9. Cardinality(mem[r].found \cup Added(r)) <= Cap
  BY <1>3, <1>5, <1>6, <1>7
<1> QED BY <1>1, <1>2, <1>5, <1>6, <1>8, <1>9 DEF page

\* Where a page of the walk goes.
WalksTo(r, label, m) ==
    /\ m = [mem[r] EXCEPT !.found = mem[r].found \cup Added(r), !.cursor = Following(r, req[r].class),
                          !.todo = IF label = "get" THEN mem[r].found \cup Added(r) ELSE @]
    /\ m.found = mem[r].found \cup Added(r) /\ m.cursor = Following(r, req[r].class)
    /\ m.cutoff = mem[r].cutoff /\ m.policy = mem[r].policy /\ m.pruned = mem[r].pruned
    /\ \/ label = "candidates" /\ m.cursor # NoCursor /\ Cardinality(m.found) < Cap
       \/ label = "ok" /\ (m.cursor = NoCursor \/ Cardinality(m.found) = Cap)
       \/ /\ label = "get" /\ (m.cursor = NoCursor \/ Cardinality(m.found) = Cap)
          /\ ~req[r].dry /\ m.todo = m.found

LEMMA CandidatesGoes ==
    ASSUME Shape, NEW r \in Requests, UNCHANGED req, Candidates(r)
    PROVE  \E label, m : Goes(r, label, m) /\ WalksTo(r, label, m)
<1>0. pc[r] = "candidates"
  BY DEF Candidates, At
<1>1. /\ req[r] \in Request /\ req[r].op = "prune" /\ mem[r] \in Memory
      /\ mem[r].todo \subseteq Assets /\ mem[r].pruned \subseteq mem[r].found
  BY <1>0, AtLabel DEF Fits, Deleting
<1>2. PICK all : all = mem[r].found \cup Added(r)
  OBVIOUS
<1>3. PICK c : c = Following(r, req[r].class)
  OBVIOUS
<1>4. PICK m : m = [mem[r] EXCEPT !.found = all, !.cursor = c]
  OBVIOUS
<1>5. c \in Row \cup {NoCursor}
  <2>1. c \in Rows(req[r].class) \cup {NoCursor}
    BY <1>3, PageFacts DEF Behind
  <2> QED BY <2>1, RowFacts DEF Shape
<1>6. all \subseteq Row /\ IsFiniteSet(all) /\ Cardinality(all) <= Cap /\ mem[r].found \subseteq all
      /\ Cardinality(all) \in Nat
  BY <1>0, <1>1, <1>2, AddedFacts, FS_CardinalityType DEF Memory
<1>7. /\ m \in Memory /\ m.found = all /\ m.cursor = c /\ m.todo = mem[r].todo
      /\ m.cutoff = mem[r].cutoff /\ m.policy = mem[r].policy /\ m.pruned = mem[r].pruned
  BY <1>1, <1>4, <1>5, <1>6 DEF Memory
<1>8. \/ c # NoCursor /\ Cardinality(all) < Cap /\ Goto(r, "candidates", m)
      \/ (c = NoCursor \/ Cardinality(all) = Cap) /\ Goto(r, "ok", m)
      \/ /\ c = NoCursor \/ Cardinality(all) = Cap
         /\ ~(req[r].dry \/ all = {}) /\ Goto(r, "get", [m EXCEPT !.todo = all])
  <2>1. (CASE m.cursor # NoCursor /\ Cardinality(all) < Cap -> Goto(r, "candidates", m)
           [] (m.cursor = NoCursor \/ Cardinality(all) = Cap) /\ (req[r].dry \/ all = {}) ->
                  Goto(r, "ok", m)
           [] OTHER -> Goto(r, "get", [m EXCEPT !.todo = all]))
    BY <1>2, <1>3, <1>4, Zenon DEF Candidates, Added
  <2>2. ~(Cardinality(all) < Cap) => Cardinality(all) = Cap
    BY <1>6, MaintenanceAssumption
  <2>3. CASE m.cursor # NoCursor /\ Cardinality(all) < Cap
    <3>1. Goto(r, "candidates", m)
      <4>1. ~((m.cursor = NoCursor \/ Cardinality(all) = Cap) /\ (req[r].dry \/ all = {}))
        BY <1>6, <2>3, MaintenanceAssumption
      <4> QED BY <2>1, <2>3, <4>1
    <3> QED BY <1>7, <2>3, <3>1
  <2>4. CASE (m.cursor = NoCursor \/ Cardinality(all) = Cap) /\ (req[r].dry \/ all = {})
    <3>1. ~(m.cursor # NoCursor /\ Cardinality(all) < Cap)
      BY <1>6, <2>4, MaintenanceAssumption
    <3>2. Goto(r, "ok", m)
      BY <2>1, <2>4, <3>1
    <3> QED BY <1>7, <2>4, <3>2
  <2>5. CASE /\ ~(m.cursor # NoCursor /\ Cardinality(all) < Cap)
             /\ ~((m.cursor = NoCursor \/ Cardinality(all) = Cap) /\ (req[r].dry \/ all = {}))
    <3>1. Goto(r, "get", [m EXCEPT !.todo = all])
      BY <2>1, <2>5
    <3> QED BY <1>7, <2>2, <2>5, <3>1
  <2> QED BY <2>3, <2>4, <2>5
<1>9. CASE Goto(r, "candidates", m) /\ c # NoCursor /\ Cardinality(all) < Cap
  <2>1. Fits("candidates", req'[r], m)
    BY <1>1 DEF Fits, Deleting
  <2>2. Goes(r, "candidates", m)
    BY <1>1, <1>6, <1>7, <1>9, <2>1 DEF Goes, Sound, Working, Deleting
  <2>3. WalksTo(r, "candidates", m)
    BY <1>1, <1>2, <1>3, <1>4, <1>7, <1>9 DEF WalksTo, Memory
  <2> QED BY <2>2, <2>3
<1>10. CASE Goto(r, "ok", m) /\ (c = NoCursor \/ Cardinality(all) = Cap)
  <2>1. Fits("ok", req'[r], m)
    BY <1>1 DEF Fits, Deleting
  <2>2. Goes(r, "ok", m)
    BY <1>1, <1>6, <1>7, <1>10, <2>1 DEF Goes, Sound, Answers, Deleting
  <2>3. WalksTo(r, "ok", m)
    BY <1>1, <1>2, <1>3, <1>4, <1>7, <1>10 DEF WalksTo, Memory
  <2> QED BY <2>2, <2>3
<1>11. CASE /\ c = NoCursor \/ Cardinality(all) = Cap
            /\ ~(req[r].dry \/ all = {}) /\ Goto(r, "get", [m EXCEPT !.todo = all])
  <2>1. PICK n : n = [m EXCEPT !.todo = all]
    OBVIOUS
  <2>2. /\ n \in Memory /\ n.found = all /\ n.cursor = c /\ n.todo = all
        /\ n.cutoff = m.cutoff /\ n.policy = m.policy /\ n.pruned = m.pruned
    BY <1>6, <1>7, <2>1 DEF Memory
  <2>3. Fits("get", req'[r], n)
    BY <1>1 DEF Fits, Deleting
  <2>4. Goes(r, "get", n)
    BY <1>1, <1>6, <1>7, <1>11, <2>1, <2>2, <2>3 DEF Goes, Sound, Working, Deleting
  <2>5. n = [mem[r] EXCEPT !.found = all, !.cursor = c, !.todo = all]
    BY <1>1, <1>4, <2>1 DEF Memory
  <2>6. WalksTo(r, "get", n)
    BY <1>2, <1>3, <1>7, <1>11, <2>2, <2>5 DEF WalksTo
  <2> QED BY <2>4, <2>6
<1> QED BY <1>8, <1>9, <1>10, <1>11

LEMMA PolicyGoes ==
    ASSUME Shape, NEW r \in Requests, UNCHANGED req, Policy(r)
    PROVE  \E label, m, p, enabled :
              /\ Goes(r, label, m) /\ Keeps(r, m)
              /\ p \in Policies \cup {NoPolicy} /\ enabled \in BOOLEAN
              /\ label \in {"forbidden", "candidates", "handed_over"}
              /\ label = "candidates" => /\ req[r].op = "prune"
                                         /\ req[r].dry \/ (enabled /\ Cleared(p, req[r]))
              /\ m.cutoff = Now - req[r].days /\ (~req[r].dry => m.policy = p)
              /\ m.found = {} /\ m.cursor = NoCursor
<1>0. pc[r] = "policy"
  BY DEF Policy, At
<1>1. /\ req[r] \in Request /\ req[r].op \in {"prune", "audit_prune"} /\ mem[r] \in Memory
      /\ mem[r].todo = {} /\ mem[r].found = {} /\ mem[r].cursor = NoCursor
      /\ mem[r].pruned \subseteq mem[r].found
  BY <1>0, AtLabel DEF Fits
<1>2. req[r].days \in Nat /\ Now \in Nat
  BY <1>1, MaintenanceAssumption DEF Request
<1>3. PICK p \in Policies \cup {NoPolicy}, enabled \in BOOLEAN :
          Goto(r, IF ~req[r].dry /\ ~(enabled /\ Cleared(p, req[r])) THEN "forbidden"
                  ELSE IF req[r].op = "prune" THEN "candidates" ELSE "handed_over",
               [mem[r] EXCEPT !.cutoff = Now - req[r].days, !.policy = IF req[r].dry THEN @ ELSE p])
  BY Zenon DEF Policy
<1>4. PICK m, c, read : /\ c = Now - req[r].days
                         /\ read = (IF req[r].dry THEN mem[r].policy ELSE p)
                         /\ m = [mem[r] EXCEPT !.cutoff = c, !.policy = read]
  OBVIOUS
<1>5. PICK label : label = IF ~req[r].dry /\ ~(enabled /\ Cleared(p, req[r])) THEN "forbidden"
                           ELSE IF req[r].op = "prune" THEN "candidates" ELSE "handed_over"
  OBVIOUS
<1>6. Goto(r, label, m)
  BY <1>3, <1>4, <1>5
<1>7. /\ m \in Memory /\ Keeps(r, m) /\ m.todo = {} /\ m.found = {} /\ m.cursor = NoCursor
      /\ m.cutoff = Now - req[r].days /\ (~req[r].dry => m.policy = p)
  <2>1. c \in Int /\ read \in Policies \cup {NoPolicy}
    BY <1>1, <1>2, <1>4 DEF Memory
  <2> QED BY <1>1, <1>4, <2>1 DEF Memory, Keeps
<1>8. Fits(label, req'[r], m)
  BY <1>5, <1>1 DEF Fits, Deleting
<1>9. Goes(r, label, m)
  <2>1. label \in Working \cup Answers /\ label # "idle"
    BY <1>5 DEF Working, Answers
  <2>2. m.found = {} /\ IsFiniteSet(m.found) /\ Cardinality(m.found) <= Cap /\ m.pruned = {}
    BY <1>1, <1>7, FS_EmptySet, MaintenanceAssumption DEF Keeps
  <2> QED BY <1>1, <1>6, <1>7, <1>8, <2>1, <2>2 DEF Goes, Sound
<1> QED BY <1>5, <1>7, <1>9

\* A candidate has been dealt with, and deleted when yes.
Settles(r, m, x, yes) ==
    /\ m.found = mem[r].found /\ m.cutoff = mem[r].cutoff /\ m.policy = mem[r].policy
    /\ x \in mem[r].todo /\ m.pruned = IF yes THEN mem[r].pruned \cup {x} ELSE mem[r].pruned

LEMMA SettledGoes ==
    ASSUME Shape, NEW r \in Requests, UNCHANGED req, pc[r] \in Deleting,
           NEW x \in mem[r].todo, NEW yes \in BOOLEAN, Settled(r, x, yes)
    PROVE  \E label, m : Goes(r, label, m) /\ label \in {"ok", "get"} /\ Settles(r, m, x, yes)
<1>0. pc[r] # "idle"
  BY DEF Deleting
<1>1. /\ req[r] \in Request /\ req[r].op = "prune" /\ mem[r] \in Memory
      /\ mem[r].todo \subseteq mem[r].found /\ mem[r].pruned \subseteq mem[r].found
      /\ IsFiniteSet(mem[r].found) /\ Cardinality(mem[r].found) <= Cap
  BY <1>0, AtLabel DEF Fits
<1>2. PICK m : m = [mem[r] EXCEPT !.todo = @ \ {x},
                                  !.pruned = IF yes THEN @ \cup {x} ELSE @]
  OBVIOUS
<1>3. PICK label : label = IF mem[r].todo = {x} THEN "ok" ELSE "get"
  OBVIOUS
<1>4. Goto(r, label, m)
  BY <1>2, <1>3, Zenon DEF Settled
<1>5. m \in Memory /\ m.todo = mem[r].todo \ {x} /\ Settles(r, m, x, yes)
  BY <1>1, <1>2 DEF Memory, Settles
<1>6. label \in {"ok", "get"} /\ label \in Working \cup Answers
      /\ (label = "ok" => m.todo = {}) /\ label # "idle" /\ (label = "get" => label \in Deleting)
  BY <1>3, <1>5 DEF Working, Answers, Deleting
<1>7. Fits(label, req'[r], m)
  BY <1>1, <1>6 DEF Fits, Deleting
<1>8. Goes(r, label, m)
  BY <1>1, <1>4, <1>5, <1>6, <1>7 DEF Goes, Sound, Settles
<1> QED BY <1>5, <1>6, <1>8

\* What a statement of a candidate's delete does.
DeletesTo(r, label, m) ==
    \/ \E x, yes : /\ label \in {"ok", "get"} /\ yes \in BOOLEAN /\ Settles(r, m, x, yes)
                   /\ yes => pc[r] = "cascade" /\ x.id = mem[r].cur
    \/ /\ pc[r] = "get" /\ label = "soft_delete" /\ m = [mem[r] EXCEPT !.cur = m.cur]
       /\ m.cur \in Ids(mem[r].todo)
    \/ pc[r] = "soft_delete" /\ label = "cascade" /\ m = mem[r]

LEMMA DeleteGoes ==
    ASSUME Shape, NEW r \in Requests, UNCHANGED req,
           \/ Get(r) \/ SoftDelete(r) \/ Cascade(r)
           \/ pc[r] \in Deleting /\ Fail(r)
    PROVE  /\ pc[r] \in Deleting
           /\ \E label, m : Goes(r, label, m) /\ DeletesTo(r, label, m)
<1>0. pc[r] \in Deleting /\ pc[r] # "idle"
  BY DEF Deleting, Get, SoftDelete, Cascade, At
<1> SUFFICES \E label, m : Goes(r, label, m) /\ DeletesTo(r, label, m)
  BY <1>0
<1>1. /\ req[r] \in Request /\ req[r].op = "prune" /\ mem[r] \in Memory
      /\ mem[r].todo \subseteq mem[r].found /\ mem[r].todo \subseteq Row
      /\ Fits(pc[r], req[r], mem[r])
  BY <1>0, AtLabel DEF Fits, Memory
<1>2. ASSUME NEW x \in mem[r].todo, Settled(r, x, FALSE)
      PROVE  \E label, m : Goes(r, label, m) /\ DeletesTo(r, label, m)
  <2>1. \E label, m : Goes(r, label, m) /\ label \in {"ok", "get"} /\ Settles(r, m, x, FALSE)
    BY <1>0, <1>2, SettledGoes
  <2> QED BY <2>1, Zenon DEF DeletesTo
<1>3. CASE Get(r)
  <2>1. PICK x \in mem[r].todo :
            IF Live(x.id) THEN Goto(r, "soft_delete", [mem[r] EXCEPT !.cur = x.id])
            ELSE Settled(r, x, FALSE)
    BY <1>3 DEF Get
  <2>2. CASE Goto(r, "soft_delete", [mem[r] EXCEPT !.cur = x.id])
    <3>1. x.id \in Assets /\ x.id \in Ids(mem[r].todo) /\ pc[r] = "get"
      BY <1>1, <1>3, <2>1 DEF Row, Ids, Get, At
    <3>2. "soft_delete" \in Working \cup Answers /\ "soft_delete" \in Deleting
      BY DEF Working, Deleting
    <3>3. Fits("soft_delete", req'[r], [mem[r] EXCEPT !.cur = x.id])
      <4>1. PICK n : n = [mem[r] EXCEPT !.cur = x.id]
        OBVIOUS
      <4>2. n.cur = x.id /\ n.todo = mem[r].todo
        BY <1>1, <4>1 DEF Memory
      <4>3. Fits("soft_delete", req'[r], n)
        BY <1>1, <3>1, <4>2 DEF Fits, Deleting
      <4> QED BY <4>1, <4>3
    <3>4. PICK m : /\ Goes(r, "soft_delete", m) /\ Keeps(r, m) /\ m = [mem[r] EXCEPT !.cur = x.id]
                   /\ m.cur = x.id /\ m.todo = mem[r].todo /\ m.walk = mem[r].walk
                   /\ m.cursor = mem[r].cursor
      BY <1>1, <2>2, <3>1, <3>2, <3>3, AtGoes
    <3> QED BY <3>1, <3>4 DEF DeletesTo
  <2> QED BY <1>2, <2>1, <2>2
<1>4. CASE SoftDelete(r)
  <2>1. CASE On(r, "cascade")
    <3>1. Fits("cascade", req'[r], mem[r])
      BY <1>1, <1>4 DEF Fits, Deleting, SoftDelete, At
    <3>2. "cascade" \in Working \cup Answers /\ "cascade" \in Deleting
      BY DEF Working, Deleting
    <3>3. Goes(r, "cascade", mem[r])
      BY <1>1, <2>1, <3>1, <3>2, OnGoes
    <3> QED BY <1>4, <3>3 DEF DeletesTo, SoftDelete, At
  <2>2. CASE \E x \in Candidate(r) : Settled(r, x, FALSE)
    <3>1. PICK x \in Candidate(r) : Settled(r, x, FALSE)
      BY <2>2
    <3> QED BY <1>2, <3>1 DEF Candidate
  <2> QED BY <1>4, <2>1, <2>2 DEF SoftDelete
<1>5. CASE Cascade(r)
  <2>1. PICK x \in Candidate(r) : Settled(r, x, TRUE)
    BY <1>5 DEF Cascade
  <2>2. x \in mem[r].todo /\ x.id = mem[r].cur
    BY <2>1 DEF Candidate
  <2>3. PICK label, m : /\ Goes(r, label, m) /\ label \in {"ok", "get"}
                        /\ Settles(r, m, x, TRUE)
    BY <1>0, <2>1, <2>2, SettledGoes
  <2> QED BY <1>5, <2>2, <2>3 DEF DeletesTo, Cascade, At
<1>6. CASE Fail(r)
  <2>1. \E x \in mem[r].todo : Settled(r, x, FALSE)
    <3>1. CASE pc[r] = "get"
      <4>1. At(r, "get") /\ ~At(r, "known") /\ pc[r] \notin {"soft_delete", "cascade"}
        BY <3>1 DEF At
      <4> QED BY <1>6, <4>1 DEF Fail
    <3>2. CASE pc[r] \in {"soft_delete", "cascade"}
      <4>1. ~At(r, "get") /\ ~At(r, "known")
        BY <3>2 DEF At
      <4>2. \E x \in Candidate(r) : Settled(r, x, FALSE)
        BY <1>6, <3>2, <4>1 DEF Fail
      <4> QED BY <4>2 DEF Candidate
    <3> QED BY <1>0, <3>1, <3>2 DEF Deleting
  <2> QED BY <1>2, <2>1
<1> QED BY <1>0, <1>3, <1>4, <1>5, <1>6

LEMMA FailGoes ==
    ASSUME Shape, NEW r \in Requests, UNCHANGED req, Fail(r), pc[r] \notin Deleting
    PROVE  \E label, m : /\ Goes(r, label, m) /\ Keeps(r, m)
                         /\ \/ label = "failed"
                            \/ /\ pc[r] = "known" /\ label = "find"
                               /\ m.todo = mem[r].todo /\ m.walk = mem[r].walk
                               /\ m.cursor = mem[r].cursor /\ m.cur \in mem[r].todo
<1>0. pc[r] # "idle"
  BY DEF Fail, Working
<1>1. /\ req[r] \in Request /\ mem[r] \in Memory /\ Fits(pc[r], req[r], mem[r])
      /\ mem[r].todo \subseteq Assets
  BY <1>0, AtLabel
<1>2. CASE At(r, "known")
  <2>1. PICK u \in mem[r].todo : Goto(r, "find", [mem[r] EXCEPT !.cur = u])
    <3>1. ~At(r, "get") /\ pc[r] \notin {"soft_delete", "cascade"}
      BY <1>2 DEF At
    <3> QED BY <1>2, <3>1 DEF Fail
  <2>2. Fits("find", req'[r], [mem[r] EXCEPT !.cur = u])
    BY <1>1, <1>2, <2>1 DEF Fits, Memory, Deleting, At
  <2>3. "find" \in Working \cup Answers /\ "find" \notin Deleting
    BY DEF Working, Deleting
  <2>4. u \in Assets
    BY <1>1
  <2>5. PICK m : /\ Goes(r, "find", m) /\ Keeps(r, m) /\ m = [mem[r] EXCEPT !.cur = u]
                 /\ m.cur = u /\ m.todo = mem[r].todo /\ m.walk = mem[r].walk
                 /\ m.cursor = mem[r].cursor
    BY <1>1, <2>1, <2>2, <2>3, <2>4, AtGoes
  <2>6. pc[r] = "known" /\ m.cur \in mem[r].todo
    BY <1>2, <2>1, <2>5 DEF At
  <2> QED BY <2>5, <2>6, Zenon
<1>3. CASE ~At(r, "known")
  <2>1. ~At(r, "get") /\ pc[r] \notin {"soft_delete", "cascade"}
    BY DEF At, Deleting
  <2>2. On(r, "failed")
    BY <1>3, <2>1 DEF Fail
  <2>3. Fits("failed", req'[r], mem[r]) /\ "failed" \in Answers /\ "failed" \notin Deleting
    BY DEF Fits, Answers, Deleting
  <2>4. Goes(r, "failed", mem[r])
    BY <1>1, <2>2, <2>3, OnGoes
  <2> QED BY <2>4 DEF Keeps
<1> QED BY <1>2, <1>3

LEMMA ArriveGoes ==
    ASSUME Shape, NEW r \in Requests, Arrive(r)
    PROVE  \E q, label, m :
              /\ q \in Request /\ req' = [req EXCEPT ![r] = q] /\ Goes(r, label, m) /\ Keeps(r, m)
              /\ label \in {"find", "gate", "owners", "policy"}
<1>0. pc[r] = "idle" /\ req \in [Requests -> Request \cup {NoRequest}]
  BY DEF Arrive, At, Shape, Locals
<1>1. PICK q \in Request :
          /\ req' = [req EXCEPT ![r] = q]
          /\ IF q.op = "upsert" THEN Goto(r, "find", [mem[r] EXCEPT !.cur = q.uuid])
             ELSE On(r, IF q.caller # Token THEN "gate" ELSE Opened(q))
  BY DEF Arrive
<1>2. req'[r] = q
  BY <1>0, <1>1
<1>3. Sound("idle", req[r], mem[r])
  BY <1>0, SoundNow
<1>4. mem[r].walk = 0 /\ mem[r].cursor = NoCursor /\ mem[r].todo = {} /\ mem[r].found = {}
  BY <1>3 DEF Sound, Fits
<1>5. CASE q.op = "upsert"
  <2>1. q.uuid \in Assets
    BY <1>5 DEF Request
  <2>2. Fits("find", req'[r], [mem[r] EXCEPT !.cur = q.uuid])
    BY <1>2, <1>5 DEF Fits, Deleting
  <2>3. "find" \in Working \cup Answers /\ "find" \notin Deleting
    BY DEF Working, Deleting
  <2>4. \E m : /\ Goes(r, "find", m) /\ Keeps(r, m) /\ m = [mem[r] EXCEPT !.cur = q.uuid]
               /\ m.cur = q.uuid /\ m.todo = mem[r].todo /\ m.walk = mem[r].walk
               /\ m.cursor = mem[r].cursor
    BY <1>1, <1>2, <1>4, <1>5, <2>1, <2>2, <2>3, AtGoes
  <2> QED BY <1>1, <2>4
<1>6. CASE q.op # "upsert"
  <2>1. q.op \in {"backfill", "prune", "audit_prune"} /\ q.caller \in Callers
    BY <1>6 DEF Request
  <2>2. PICK label : label = IF q.caller # Token THEN "gate" ELSE Opened(q)
    OBVIOUS
  <2>3. label \in {"gate", "owners", "policy"} /\ On(r, label)
    BY <1>1, <1>6, <2>2 DEF Opened
  <2>4. Fits(label, req'[r], mem[r])
    BY <1>2, <1>4, <2>1, <2>2, MaintenanceAssumption DEF Fits, Opened, Deleting
  <2>5. label \in Working \cup Answers /\ label \notin Deleting
    BY <2>3 DEF Working, Deleting
  <2>6. Goes(r, label, mem[r])
    BY <1>2, <1>4, <2>3, <2>4, <2>5, OnGoes
  <2> QED BY <1>1, <2>3, <2>6 DEF Keeps
<1> QED BY <1>5, <1>6

-----------------------------------------------------------------------------
(* Type correctness.                                                         *)

\* What a request does in one step, without the history.
Moves(r) == Arrive(r) \/ ((Step(r) \/ Fail(r)) /\ UNCHANGED req)

LEMMA NextMoves ==
    ASSUME [Next]_vars
    PROVE  \/ \E r \in Requests : Moves(r) /\ UNCHANGED edits /\ Observe(r)
           \/ Edit /\ Observe(Client)
           \/ UNCHANGED vars
BY Zenon DEF Next, Moves

LEMMA MovesGo ==
    ASSUME Shape, NEW r \in Requests, Moves(r)
    PROVE  /\ pc[r] # pc'[r] \/ pc[r] \in Working
           /\ req' \in [Requests -> Request \cup {NoRequest}]
           /\ \A x \in Requests \ {r} : req'[x] = req[x]
           /\ \E label, m : /\ Goes(r, label, m)
                            /\ pc[r] \notin {"candidates"} \cup Deleting => Keeps(r, m)
<1>0. req \in [Requests -> Request \cup {NoRequest}]
  BY DEF Shape, Locals
<1>1. CASE Arrive(r)
  <2>1. PICK q, label, m :
              /\ q \in Request /\ req' = [req EXCEPT ![r] = q] /\ Goes(r, label, m) /\ Keeps(r, m)
              /\ label \in {"find", "gate", "owners", "policy"}
    BY <1>1, ArriveGoes, Zenon
  <2>2. pc[r] = "idle" /\ pc'[r] = label
    BY <1>1, <2>1, GotoFacts DEF Arrive, At, Goes, Shape
  <2> QED BY <1>0, <2>1, <2>2
<1>2. CASE Step(r) /\ UNCHANGED req
  <2>1. CASE Gate(r) \/ ListOwners(r) \/ OwnerRow(r) \/ PutOwner(r) \/ ReadPage(r)
             \/ TagGet(r) \/ TagPut(r) \/ TagBump(r)
    <3>1. pc[r] \in Working
      BY <2>1 DEF At, Working, Gate, ListOwners, OwnerRow, PutOwner, ReadPage, TagGet, TagPut, TagBump
    <3> QED BY <1>0, <1>2, <2>1, <3>1, BackfillGoes
  <2>2. CASE Known(r) \/ Find(r) \/ Backing(r) \/ Refresh(r) \/ Create(r) \/ CreateTags(r) \/ Read(r)
    <3>1. pc[r] \in Working
      BY <2>2 DEF At, Working, Known, Find, Backing, Refresh, Create, CreateTags, Read
    <3> QED BY <1>0, <1>2, <2>2, <3>1, UpsertGoes
  <2>3. CASE Policy(r)
    <3>1. \E label, m : Goes(r, label, m) /\ Keeps(r, m)
      BY <1>2, <2>3, PolicyGoes, Zenon
    <3>2. pc[r] \in Working
      BY <2>3 DEF At, Working, Policy
    <3> QED BY <1>0, <1>2, <3>1, <3>2
  <2>4. CASE Candidates(r)
    <3>1. \E label, m : Goes(r, label, m)
      BY <1>2, <2>4, CandidatesGoes, Zenon
    <3>2. pc[r] = "candidates" /\ pc[r] \in Working
      BY <2>4 DEF At, Working, Candidates
    <3> QED BY <1>0, <1>2, <3>1, <3>2
  <2>5. CASE Get(r) \/ SoftDelete(r) \/ Cascade(r)
    <3>1. pc[r] \in Deleting /\ \E label, m : Goes(r, label, m)
      BY <1>2, <2>5, DeleteGoes, Zenon
    <3>2. pc[r] \in Working
      BY <3>1 DEF Working, Deleting
    <3> QED BY <1>0, <1>2, <3>1, <3>2
  <2> QED BY <1>2, <2>1, <2>2, <2>3, <2>4, <2>5 DEF Step
<1>3. CASE Fail(r) /\ UNCHANGED req
  <2>1. CASE pc[r] \in Deleting
    <3>1. \E label, m : Goes(r, label, m)
      BY <1>3, <2>1, DeleteGoes, Zenon
    <3> QED BY <1>0, <1>3, <2>1, <3>1 DEF Fail
  <2>2. CASE pc[r] \notin Deleting
    <3>1. \E label, m : Goes(r, label, m) /\ Keeps(r, m)
      BY <1>3, <2>2, FailGoes, Zenon
    <3> QED BY <1>0, <1>3, <3>1 DEF Fail
  <2> QED BY <2>1, <2>2
<1> QED BY <1>1, <1>2, <1>3 DEF Moves

\* The statements that write.
LEMMA TableMoves ==
    ASSUME NEW r \in Requests, Moves(r)
    PROVE  \/ UNCHANGED tables
           \/ /\ UNCHANGED req
              /\ \/ PutOwner(r) \/ TagPut(r) \/ TagBump(r) \/ Create(r) \/ CreateTags(r)
                 \/ SoftDelete(r) \/ Cascade(r)
<1>1. ASSUME \/ Gate(r) \/ ListOwners(r) \/ OwnerRow(r) \/ ReadPage(r) \/ TagGet(r) \/ Known(r)
             \/ Find(r) \/ Backing(r) \/ Refresh(r) \/ Read(r) \/ Policy(r) \/ Candidates(r) \/ Get(r)
      PROVE  UNCHANGED tables
  BY <1>1, Zenon DEF Reads, Gate, ListOwners, OwnerRow, ReadPage, TagGet, Known, Find, Backing,
      Refresh, Read, Policy, Candidates, Get
<1>2. ASSUME Fail(r) \/ Arrive(r) PROVE UNCHANGED tables
  BY <1>2, Zenon DEF Reads, Fail, Arrive
<1> QED BY <1>1, <1>2, Zenon DEF Moves, Step

LEMMA TablesStep ==
    ASSUME Shape, NEW r \in Requests, Moves(r), UNCHANGED edits
    PROVE  /\ Tables' /\ born' = born /\ roles \subseteq roles'
           /\ \A a \in Assets : ~Live(a) => row'[a] = row[a]
<1>0. Tables
  BY DEF Shape
<1>1. CASE UNCHANGED tables
  BY <1>0, <1>1 DEF Tables, tables, Live
<1>2. CASE PutOwner(r)
  <2>1. mem[r].cur \in Assets /\ pc[r] = "owner_put"
    BY <1>2, AtLabel DEF PutOwner, At, Memory
  <2>2. access' = access \cup {[asset |-> mem[r].cur, by |-> r]}
        /\ UNCHANGED <<row, born, at, roles, entries>>
    BY <1>2, Zenon DEF PutOwner
  <2> QED BY <1>0, <2>1, <2>2 DEF Tables, AccessRow, Writers, Live
<1>3. CASE TagPut(r)
  <2>1. mem[r].cur \in Assets /\ pc[r] = "tag_put" /\ mem[r].walk \in {1, 2}
    BY <1>3, AtLabel DEF TagPut, At, Memory, Fits
  <2>2. Scan(r).class \in Classes
    BY <2>1 DEF Scan, Scans, Classes
  <2>3. roles' = roles \cup {[asset |-> mem[r].cur, by |-> r, value |-> Scan(r).class]}
        /\ UNCHANGED <<row, born, at, access, entries>>
    BY <1>3, Zenon DEF TagPut
  <2> QED BY <1>0, <2>1, <2>2, <2>3 DEF Tables, RoleTag, Writers, Live
<1>4. CASE TagBump(r)
  <2>1. mem[r].cur \in Assets /\ pc[r] = "tag_bump"
    BY <1>4, AtLabel DEF TagBump, At, Memory
  <2>2. PICK t \in Stamps : at' = [at EXCEPT ![mem[r].cur] = t]
    BY <1>4, Zenon DEF TagBump
  <2>3. UNCHANGED <<row, born, roles, access, entries>>
    BY <1>4, Zenon DEF TagBump
  <2>4. t \in Time
    BY MaintenanceAssumption DEF Stamps, Time
  <2>5. at' \in [Assets -> Time]
    BY <1>0, <2>2, <2>4 DEF Tables
  <2> QED BY <1>0, <2>3, <2>5 DEF Tables, Live
<1>5. CASE Create(r)
  <2>1. mem[r].cur \in Assets /\ pc[r] = "create"
    BY <1>5, AtLabel DEF Create, At, Memory
  <2>2. entries' = entries \cup {[uuid |-> mem[r].cur, by |-> r, found |-> FALSE]}
        /\ UNCHANGED <<row, born, at, roles, access>>
    BY <1>5, Zenon DEF Create
  <2>3. [uuid |-> mem[r].cur, by |-> r, found |-> FALSE] \in DirectoryEntry
    BY <2>1 DEF DirectoryEntry
  <2> QED BY <1>0, <2>2, <2>3 DEF Tables, Live
<1>6. CASE CreateTags(r)
  <2>1. /\ entries' = {[e EXCEPT !.found = @ \/ (e.uuid = mem[r].cur /\ e.by = r)] : e \in entries}
        /\ UNCHANGED <<row, born, at, roles, access>>
    BY <1>6, Zenon DEF CreateTags
  <2>2. entries' \subseteq DirectoryEntry
    <3>1. ASSUME NEW e \in entries, NEW b \in BOOLEAN
          PROVE  [e EXCEPT !.found = e.found \/ b] \in DirectoryEntry
      <4>1. e \in DirectoryEntry
        BY <1>0 DEF Tables
      <4>2. (e.found \/ b) \in BOOLEAN
        OBVIOUS
      <4> QED BY <4>1, <4>2 DEF DirectoryEntry
    <3>2. \A e \in entries : (e.uuid = mem[r].cur /\ e.by = r) \in BOOLEAN
      OBVIOUS
    <3> QED BY <2>1, <3>1, <3>2
  <2> QED BY <1>0, <2>1, <2>2 DEF Tables, Live
<1>7. CASE SoftDelete(r)
  <2>1. mem[r].cur \in Assets /\ pc[r] = "soft_delete"
    BY <1>7, AtLabel DEF SoftDelete, At, Memory
  <2>2. /\ row' = row \/ row' = [row EXCEPT ![mem[r].cur] = "deleted"]
        /\ UNCHANGED <<born, at, roles, access, entries>>
    BY <1>7, Zenon DEF SoftDelete
  <2>3. row' \in [Assets -> {"live", "deleted"}] /\ \A a \in Assets : ~Live(a) => row'[a] = row[a]
    BY <1>0, <2>1, <2>2 DEF Tables, Live
  <2> QED BY <1>0, <2>2, <2>3 DEF Tables
<1>8. CASE Cascade(r)
  <2>1. access' = {x \in access : x.asset # mem[r].cur} /\ UNCHANGED <<row, born, at, roles, entries>>
    BY <1>8, Zenon DEF Cascade
  <2> QED BY <1>0, <2>1 DEF Tables, Live
<1> QED BY <1>1, <1>2, <1>3, <1>4, <1>5, <1>6, <1>7, <1>8, TableMoves

LEMMA EditTables ==
    ASSUME Shape, Edit
    PROVE  /\ Tables' /\ born' = born /\ roles \subseteq roles'
           /\ \A a \in Assets : ~Live(a) => row'[a] = row[a]
<1>0. Tables
  BY DEF Shape
<1>1. edits' \in 0..MaxEdits
  BY <1>0, MaintenanceAssumption DEF Edit, Tables
<1>2. PICK a \in Assets :
          \/ /\ Live(a) /\ \E t \in Stamps : at' = [at EXCEPT ![a] = t]
             /\ UNCHANGED <<row, born, roles, access, entries>>
          \/ /\ Live(a) /\ row' = [row EXCEPT ![a] = "deleted"]
             /\ access' = {x \in access : x.asset # a}
             /\ UNCHANGED <<born, at, roles, entries>>
          \/ /\ Live(a)
             /\ roles' = roles \cup {[asset |-> a, by |-> Client, value |-> "admin"]}
             /\ at' = [at EXCEPT ![a] = Now]
             /\ UNCHANGED <<row, born, access, entries>>
          \/ /\ Live(a) /\ a \in Owners /\ access' = access \cup {[asset |-> a, by |-> Client]}
             /\ UNCHANGED <<row, born, at, roles, entries>>
          \/ /\ \E e \in entries : e.uuid = a /\ entries' = entries \ {e}
             /\ UNCHANGED <<row, born, at, roles, access>>
  BY Zenon DEF Edit
<1>3. Stamps \subseteq Time /\ Now \in Time
  BY MaintenanceAssumption DEF Stamps, Time
<1>4. CASE /\ Live(a) /\ \E t \in Stamps : at' = [at EXCEPT ![a] = t]
           /\ UNCHANGED <<row, born, roles, access, entries>>
  <2>1. PICK t \in Stamps : at' = [at EXCEPT ![a] = t]
    BY <1>4
  <2>2. at' \in [Assets -> Time]
    BY <1>0, <1>3, <2>1 DEF Tables
  <2> QED BY <1>0, <1>1, <1>4, <2>2 DEF Tables, Live
<1>5. CASE /\ Live(a) /\ row' = [row EXCEPT ![a] = "deleted"]
           /\ access' = {x \in access : x.asset # a}
           /\ UNCHANGED <<born, at, roles, entries>>
  <2>1. row' \in [Assets -> {"live", "deleted"}] /\ \A b \in Assets : ~Live(b) => row'[b] = row[b]
    BY <1>0, <1>5 DEF Tables, Live
  <2> QED BY <1>0, <1>1, <1>5, <2>1 DEF Tables
<1>6. CASE /\ Live(a)
           /\ roles' = roles \cup {[asset |-> a, by |-> Client, value |-> "admin"]}
           /\ at' = [at EXCEPT ![a] = Now]
           /\ UNCHANGED <<row, born, access, entries>>
  <2>1. at' \in [Assets -> Time]
    BY <1>0, <1>3, <1>6 DEF Tables
  <2> QED BY <1>0, <1>1, <1>6, <2>1 DEF Tables, RoleTag, Writers, Live
<1>7. CASE /\ Live(a) /\ a \in Owners /\ access' = access \cup {[asset |-> a, by |-> Client]}
           /\ UNCHANGED <<row, born, at, roles, entries>>
  BY <1>0, <1>1, <1>7 DEF Tables, AccessRow, Writers, Live
<1>8. CASE /\ \E e \in entries : e.uuid = a /\ entries' = entries \ {e}
           /\ UNCHANGED <<row, born, at, roles, access>>
  BY <1>0, <1>1, <1>8 DEF Tables, Live
<1> QED BY <1>2, <1>4, <1>5, <1>6, <1>7, <1>8

LEMMA ExistingKinds == Tables => Existing \subseteq Kinds
BY DEF Existing, Kinds

LEMMA HistoryStep ==
    ASSUME Shape, Locals', Tables', NEW who, Observe(who)
    PROVE  History'
<1>1. Existing \subseteq Kinds /\ Existing' \subseteq Kinds
  <2>1. Existing \subseteq Kinds
    BY ExistingKinds DEF Shape
  <2>2. Existing' \subseteq Kinds
    BY DEF Existing, Kinds
  <2> QED BY <2>1, <2>2
<1>2. had' \in [Requests -> SUBSET Kinds]
  <2>1. had' = [q \in Requests |-> IF Starts(q) THEN Existing
                                   ELSE IF pc'[q] \in Working THEN had[q] \cap Existing' ELSE {}]
    BY DEF Observe
  <2> HIDE DEF Existing
  <2> QED BY <1>1, <2>1 DEF Shape, History
<1>3. steady' \in [Requests -> SUBSET Assets]
  <2>1. steady' = [q \in Requests |->
            IF Starts(q) THEN {a \in Assets : Live(a)}
            ELSE IF pc'[q] \notin Working THEN {}
                 ELSE IF q = who THEN steady[q] ELSE {a \in steady[q] : ~Written(a)}]
    BY DEF Observe
  <2> QED BY <2>1 DEF Shape, History
<1>4. gone' \in [Requests -> SUBSET Assets]
  <2>1. gone' = [q \in Requests |->
            IF q = who /\ At(q, "soft_delete") /\ pc'[q] = "cascade"
            THEN gone[q] \cup {mem[q].cur} ELSE gone[q]]
    BY DEF Observe
  <2>2. \A q \in Requests : At(q, "soft_delete") => mem[q].cur \in Assets
    BY AtLabel DEF At, Memory
  <2> QED BY <2>1, <2>2 DEF Shape, History
<1>5. slipped' \subseteq Assets
  BY DEF Observe, Shape, History
<1> QED BY <1>2, <1>3, <1>4, <1>5 DEF History

LEMMA InitShape == Init => Shape
<1> SUFFICES ASSUME Init PROVE Shape
  OBVIOUS
<1>1. /\ edits = 0 /\ row = [a \in Assets |-> "live"]
      /\ born \in [Assets -> 0..(Now - 1)] /\ at = born
      /\ access = {} /\ entries = {}
      /\ req = [r \in Requests |-> NoRequest] /\ pc = [r \in Requests |-> "idle"]
      /\ mem = [r \in Requests |-> NoMemory]
      /\ had = [r \in Requests |-> {}] /\ steady = [r \in Requests |-> {}]
      /\ gone = [r \in Requests |-> {}] /\ slipped = {}
  BY DEF Init
<1>2. roles \subseteq RoleTag
  <2>1. PICK A \in SUBSET (Callers \cap Assets) :
            roles = [asset : A, by : {Client}, value : {"admin"}]
    BY DEF Init
  <2> QED BY <2>1 DEF RoleTag, Writers
<1>3. Tables
  BY <1>1, <1>2, MaintenanceAssumption DEF Tables, Time
<1>4. Sound("idle", NoRequest, NoMemory)
  <2>1. Fits("idle", NoRequest, NoMemory)
    BY NoMemorySound DEF Fits, Deleting
  <2>2. IsFiniteSet(NoMemory.found) /\ Cardinality(NoMemory.found) <= Cap
    BY NoMemorySound, FS_EmptySet, MaintenanceAssumption
  <2> QED BY <2>1, <2>2, NoMemorySound DEF Sound
<1>5. Locals
  <2>1. PICK n : n = NoMemory
    OBVIOUS
  <2>2. mem = [r \in Requests |-> n] /\ Sound("idle", NoRequest, n)
    BY <1>1, <1>4, <2>1
  <2> QED BY <1>1, <2>2 DEF Locals
<1> QED BY <1>1, <1>3, <1>5 DEF Shape, History

LEMMA ShapeStep == Shape /\ [Next]_vars => Shape'
<1> SUFFICES ASSUME Shape, [Next]_vars PROVE Shape'
  OBVIOUS
<1>1. CASE \E r \in Requests : Moves(r) /\ UNCHANGED edits /\ Observe(r)
  <2>1. PICK r \in Requests : Moves(r) /\ UNCHANGED edits /\ Observe(r)
    BY <1>1
  <2>2. Tables'
    BY <2>1, TablesStep
  <2>3. Locals'
    <3>1. PICK label, m : Goes(r, label, m)
      BY <2>1, MovesGo
    <3> QED BY <2>1, <3>1, MovesGo, GoesKeepsLocals DEF Shape
  <2> QED BY <2>1, <2>2, <2>3, HistoryStep DEF Shape
<1>2. CASE Edit /\ Observe(Client)
  <2>1. Tables'
    BY <1>2, EditTables
  <2>2. Locals'
    <3>1. UNCHANGED <<req, pc, mem>>
      BY <1>2, Zenon DEF Edit
    <3> QED BY <3>1 DEF Shape, Locals
  <2> QED BY <1>2, <2>1, <2>2, HistoryStep DEF Shape
<1>3. CASE UNCHANGED vars
  <2>1. UNCHANGED <<edits, row, born, at, roles, access, entries, req, pc, mem, had, steady, gone,
                    slipped>>
    BY <1>3, Zenon DEF vars, tables, history
  <2> QED BY <2>1 DEF Shape, Tables, Locals, History
<1> QED BY <1>1, <1>2, <1>3, NextMoves

LEMMA Basics == Spec => []Shape
BY InitShape, ShapeStep, PTL DEF Spec

\* The tables, the local variables and the report of every pass keep their types,
\* and no prune finds more candidates than the cap.
THEOREM TypeCorrect == Spec => []TypeOK
BY Basics, ShapeTypes, PTL

-----------------------------------------------------------------------------
(* What a prune removes and reports.                                         *)

Pruning == {"candidates"} \cup Deleting

LEMMA GoesTo ==
    ASSUME Shape, NEW r \in Requests, NEW label, NEW m, Goes(r, label, m)
    PROVE  /\ pc'[r] = label /\ mem'[r].found = m.found /\ mem'[r].pruned = m.pruned
           /\ label \notin Answers => mem'[r] = m
           /\ \A x \in Requests \ {r} : pc'[x] = pc[x] /\ mem'[x] = mem[x]
           /\ Sound(pc'[r], req'[r], mem'[r])
<1>1. Goto(r, label, m) /\ label \in Working \cup Answers /\ Sound(label, req'[r], m)
  BY DEF Goes
<1>2. /\ Sound(label, req'[r], Left(label, m))
      /\ Left(label, m).found = m.found /\ Left(label, m).pruned = m.pruned
  BY <1>1, LeftIsSound
<1>3. /\ pc'[r] = label /\ mem'[r] = Left(label, m)
      /\ \A x \in Requests \ {r} : pc'[x] = pc[x] /\ mem'[x] = mem[x]
  BY <1>1, GotoFacts DEF Shape
<1>4. label \notin Answers => Left(label, m) = m
  BY DEF Left
<1> QED BY <1>2, <1>3, <1>4

\* The steps that have to do with the candidates of r.
LEMMA PruneSteps ==
    ASSUME Shape, NEW r \in Requests, Moves(r)
    PROVE  \/ /\ pc'[r] \notin Pruning
              /\ mem'[r].found = mem[r].found /\ mem'[r].pruned = mem[r].pruned
           \/ /\ Policy(r) /\ UNCHANGED req /\ pc'[r] = "candidates"
              /\ mem'[r].found = {} /\ mem'[r].cursor = NoCursor /\ mem'[r].pruned = mem[r].pruned
              /\ mem'[r].cutoff = Now - req[r].days
              /\ req[r].dry \/ Cleared(mem'[r].policy, req[r])
           \/ /\ Candidates(r) /\ UNCHANGED req /\ pc[r] = "candidates"
              /\ \E label, m : Goes(r, label, m) /\ WalksTo(r, label, m)
           \/ /\ pc[r] \in Deleting /\ UNCHANGED req
              /\ Get(r) \/ SoftDelete(r) \/ Cascade(r) \/ Fail(r)
              /\ \E label, m : Goes(r, label, m) /\ DeletesTo(r, label, m)
<1>1. ASSUME NEW label, NEW m, Goes(r, label, m), Keeps(r, m), label \notin Pruning
      PROVE  /\ pc'[r] \notin Pruning
             /\ mem'[r].found = mem[r].found /\ mem'[r].pruned = mem[r].pruned
  BY <1>1, GoesTo DEF Keeps
<1>2. ASSUME NEW label, NEW m, Goes(r, label, m), req'[r].op # "prune"
      PROVE  label \notin Pruning
  BY <1>2 DEF Goes, Sound, Fits, Pruning
<1>3. CASE Arrive(r)
  <2>1. PICK q, label, m :
              /\ q \in Request /\ req' = [req EXCEPT ![r] = q] /\ Goes(r, label, m) /\ Keeps(r, m)
              /\ label \in {"find", "gate", "owners", "policy"}
    BY <1>3, ArriveGoes, Zenon
  <2> QED BY <1>1, <2>1 DEF Pruning, Deleting
<1>4. CASE Gate(r) /\ UNCHANGED req
  <2>1. PICK label, m : Goes(r, label, m) /\ Keeps(r, m)
    BY <1>4, BackfillGoes
  <2>2. pc'[r] \in {"owners", "policy", "forbidden"}
    <3>1. On(r, Opened(req[r])) \/ On(r, "forbidden")
      BY <1>4 DEF Gate
    <3>2. Opened(req[r]) \in {"owners", "policy"}
      BY DEF Opened
    <3>3. r \in DOMAIN pc
      BY DEF Shape, Locals
    <3> QED BY <3>1, <3>2, <3>3 DEF On, Goto
  <2>3. label \notin Pruning
    BY <2>1, <2>2, GoesTo DEF Pruning, Deleting
  <2> QED BY <1>1, <2>1, <2>3
<1>5. CASE /\ UNCHANGED req
           /\ ListOwners(r) \/ OwnerRow(r) \/ PutOwner(r) \/ ReadPage(r)
              \/ TagGet(r) \/ TagPut(r) \/ TagBump(r)
  <2>1. PICK label, m : Goes(r, label, m) /\ Keeps(r, m)
    BY <1>5, BackfillGoes
  <2>2. pc[r] \in {"owners", "owner_row", "owner_put", "page", "tag_get", "tag_put", "tag_bump"}
    BY <1>5 DEF At, ListOwners, OwnerRow, PutOwner, ReadPage, TagGet, TagPut, TagBump
  <2>3. req[r].op = "backfill"
    BY <2>2, AtLabel DEF Fits
  <2> QED BY <1>1, <1>2, <1>5, <2>1, <2>3
<1>6. CASE /\ UNCHANGED req
           /\ Known(r) \/ Find(r) \/ Backing(r) \/ Refresh(r) \/ Create(r) \/ CreateTags(r) \/ Read(r)
  <2>1. PICK label, m : Goes(r, label, m) /\ Keeps(r, m)
    BY <1>6, UpsertGoes
  <2>2. pc[r] \in {"known", "find", "backing", "refresh", "create", "create_tags", "read"}
    BY <1>6 DEF At, Known, Find, Backing, Refresh, Create, CreateTags, Read
  <2>3. req[r].op \in {"backfill", "upsert"}
    BY <2>2, AtLabel DEF Fits
  <2> QED BY <1>1, <1>2, <1>6, <2>1, <2>3
<1>7. CASE Policy(r) /\ UNCHANGED req
  <2>1. PICK label, m, p, enabled :
              /\ Goes(r, label, m) /\ Keeps(r, m)
              /\ p \in Policies \cup {NoPolicy} /\ enabled \in BOOLEAN
              /\ label \in {"forbidden", "candidates", "handed_over"}
              /\ label = "candidates" => /\ req[r].op = "prune"
                                         /\ req[r].dry \/ (enabled /\ Cleared(p, req[r]))
              /\ m.cutoff = Now - req[r].days /\ (~req[r].dry => m.policy = p)
              /\ m.found = {} /\ m.cursor = NoCursor
    BY <1>7, PolicyGoes, Zenon
  <2>2. CASE label = "candidates"
    <3>1. pc'[r] = "candidates" /\ mem'[r] = m
      BY <2>1, <2>2, GoesTo DEF Answers
    <3> QED BY <1>7, <2>1, <2>2, <3>1 DEF Keeps
  <2>3. CASE label # "candidates"
    <3>1. label \notin Pruning
      BY <2>1, <2>3 DEF Pruning, Deleting
    <3> QED BY <1>1, <2>1, <3>1
  <2> QED BY <2>2, <2>3
<1>8. CASE Candidates(r) /\ UNCHANGED req
  <2>1. \E label, m : Goes(r, label, m) /\ WalksTo(r, label, m)
    BY <1>8, CandidatesGoes, Zenon
  <2> QED BY <1>8, <2>1 DEF Candidates, At
<1>9. CASE /\ UNCHANGED req
           /\ Get(r) \/ SoftDelete(r) \/ Cascade(r) \/ (pc[r] \in Deleting /\ Fail(r))
  <2>1. pc[r] \in Deleting /\ \E label, m : Goes(r, label, m) /\ DeletesTo(r, label, m)
    BY <1>9, DeleteGoes, Zenon
  <2> QED BY <1>9, <2>1
<1>10. CASE UNCHANGED req /\ Fail(r) /\ pc[r] \notin Deleting
  <2>1. PICK label, m : /\ Goes(r, label, m) /\ Keeps(r, m)
                        /\ \/ label = "failed"
                           \/ /\ pc[r] = "known" /\ label = "find"
                              /\ m.todo = mem[r].todo /\ m.walk = mem[r].walk
                              /\ m.cursor = mem[r].cursor /\ m.cur \in mem[r].todo
    BY <1>10, FailGoes, Zenon
  <2> QED BY <1>1, <2>1 DEF Pruning, Deleting
<1> QED BY <1>3, <1>4, <1>5, <1>6, <1>7, <1>8, <1>9, <1>10 DEF Moves, Step

\* What a prune calls deleted it has marked, of what it has found, and nobody else.
Removals(r) ==
    /\ pc[r] = "cascade" => mem[r].cur \in gone[r]
    /\ gone[r] \subseteq Ids(mem[r].found) /\ Ids(mem[r].pruned) \subseteq gone[r]
    /\ \A a \in gone[r] : ~Live(a)

GoneInv ==
    /\ \A r \in Requests : Removals(r)
    /\ \A q, r \in Requests : q # r => gone[q] \cap gone[r] = {}

LEMMA GoneMoves ==
    ASSUME Shape, NEW who, Observe(who)
    PROVE  \A q \in Requests :
              gone'[q] = IF q = who /\ pc[q] = "soft_delete" /\ pc'[q] = "cascade"
                         THEN gone[q] \cup {mem[q].cur} ELSE gone[q]
BY DEF Observe, At

LEMMA SoftDeletes ==
    ASSUME Shape, NEW r \in Requests, Moves(r), pc[r] = "soft_delete", pc'[r] = "cascade"
    PROVE  /\ Live(mem[r].cur) /\ row'[mem[r].cur] = "deleted"
           /\ mem[r].cur \in Assets /\ mem[r].cur \in Ids(mem[r].found)
<1>1. SoftDelete(r)
  <2>1. ~Fail(r)
    <3>1. SUFFICES ASSUME Fail(r) PROVE FALSE
      OBVIOUS
    <3>2. ~At(r, "known") /\ ~At(r, "get")
      BY DEF At
    <3>3. PICK x \in Candidate(r) : Settled(r, x, FALSE)
      BY <3>1, <3>2 DEF Fail
    <3>4. pc'[r] \in {"ok", "get"}
      BY <3>3 DEF Settled, Goto, Shape, Locals
    <3> QED BY <3>4
  <2> QED BY <2>1 DEF Moves, Step, At, Arrive, Gate, ListOwners, OwnerRow, PutOwner, ReadPage, TagGet,
             TagPut, TagBump, Known, Find, Backing, Refresh, Create, CreateTags, Read, Policy,
             Candidates, Get, Cascade
<1>2. CASE Live(mem[r].cur) /\ row' = [row EXCEPT ![mem[r].cur] = "deleted"]
  <2>1. mem[r].cur \in Assets /\ mem[r].cur \in Ids(mem[r].todo) /\ mem[r].todo \subseteq mem[r].found
    BY AtLabel DEF Fits, Memory, Deleting
  <2> QED BY <1>2, <2>1 DEF Ids, Shape, Tables
<1>3. CASE \E x \in Candidate(r) : Settled(r, x, FALSE)
  <2>1. pc'[r] \in {"ok", "get"}
    BY <1>3 DEF Settled, Goto, Shape, Locals
  <2> QED BY <2>1
<1> QED BY <1>1, <1>2, <1>3 DEF SoftDelete

LEMMA GoneStep == Shape /\ GoneInv /\ [Next]_vars => GoneInv'
<1> SUFFICES ASSUME Shape, GoneInv, [Next]_vars PROVE GoneInv'
  OBVIOUS
<1>1. ASSUME NEW r \in Requests, Moves(r), UNCHANGED edits, Observe(r)
      PROVE  GoneInv'
  <2>0. \A a \in Assets : ~Live(a) => ~Live(a)'
    BY <1>1, TablesStep DEF Live
  <2>1. \A x \in Requests \ {r} : pc'[x] = pc[x] /\ mem'[x] = mem[x]
    <3>1. PICK label, m : Goes(r, label, m)
      BY <1>1, MovesGo
    <3> QED BY <3>1, GoesTo
  <2>2. \A q \in Requests : gone[q] \subseteq Assets /\ Removals(q)
    BY DEF Shape, History, GoneInv
  <2>3. ASSUME NEW q \in Requests, q # r PROVE Removals(q)'
    BY <1>1, <2>0, <2>1, <2>2, <2>3, GoneMoves DEF Removals
  <2>4. Ids(mem[r].found) \subseteq Ids(mem'[r].found)
        /\ (Ids(mem'[r].pruned) \subseteq Ids(mem[r].pruned) \/
               (pc[r] = "cascade" /\ Ids(mem'[r].pruned) \subseteq Ids(mem[r].pruned) \cup {mem[r].cur}))
        /\ (pc'[r] = "cascade" => pc[r] = "soft_delete" /\ mem'[r].cur = mem[r].cur)
    <3>1. CASE /\ pc'[r] \notin Pruning
               /\ mem'[r].found = mem[r].found /\ mem'[r].pruned = mem[r].pruned
      BY <3>1 DEF Pruning, Deleting
    <3>2. CASE Policy(r) /\ pc'[r] = "candidates" /\ mem'[r].pruned = mem[r].pruned
      <4>1. mem[r].found = {}
        BY <3>2, AtLabel DEF Policy, At, Fits
      <4> QED BY <3>2, <4>1 DEF Ids
    <3>3. CASE \E label, m : Goes(r, label, m) /\ WalksTo(r, label, m)
      <4>1. PICK label, m : Goes(r, label, m) /\ WalksTo(r, label, m)
        BY <3>3
      <4>2. /\ mem'[r].found = mem[r].found \cup Added(r) /\ mem'[r].pruned = mem[r].pruned
            /\ pc'[r] # "cascade"
        <5>1. /\ m.found = mem[r].found \cup Added(r) /\ m.pruned = mem[r].pruned
              /\ label \in {"candidates", "ok", "get"}
          BY <4>1, Zenon DEF WalksTo
        <5> QED BY <4>1, <5>1, GoesTo
      <4> QED BY <4>2 DEF Ids
    <3>4. CASE \E label, m : Goes(r, label, m) /\ DeletesTo(r, label, m)
      <4>1. PICK label, m : Goes(r, label, m) /\ DeletesTo(r, label, m)
        BY <3>4
      <4>2. CASE \E x, yes : /\ label \in {"ok", "get"} /\ yes \in BOOLEAN /\ Settles(r, m, x, yes)
                             /\ yes => pc[r] = "cascade" /\ x.id = mem[r].cur
        BY <4>1, <4>2, GoesTo DEF Settles, Ids
      <4>3. CASE /\ pc[r] = "get" /\ label = "soft_delete" /\ m = [mem[r] EXCEPT !.cur = m.cur]
                 /\ m.cur \in Ids(mem[r].todo)
        <5>1. mem[r] \in Memory
          BY <4>3, AtLabel
        <5>2. PICK c : c = m.cur
          OBVIOUS
        <5>3. m.found = mem[r].found /\ m.pruned = mem[r].pruned
          BY <4>3, <5>1, <5>2 DEF Memory
        <5> QED BY <4>1, <4>3, <5>3, GoesTo
      <4>4. CASE pc[r] = "soft_delete" /\ label = "cascade" /\ m = mem[r]
        BY <4>1, <4>4, GoesTo DEF Answers
      <4> QED BY <4>1, <4>2, <4>3, <4>4 DEF DeletesTo
    <3> QED BY <1>1, <3>1, <3>2, <3>3, <3>4, PruneSteps, Zenon
  <2>5. CASE pc[r] = "soft_delete" /\ pc'[r] = "cascade"
    <3>1. /\ Live(mem[r].cur) /\ row'[mem[r].cur] = "deleted"
          /\ mem[r].cur \in Assets /\ mem[r].cur \in Ids(mem[r].found)
      BY <1>1, <2>5, SoftDeletes
    <3>2. gone'[r] = gone[r] \cup {mem[r].cur} /\ \A q \in Requests \ {r} : gone'[q] = gone[q]
      BY <1>1, <2>5, GoneMoves
    <3>3. Removals(r)'
      BY <2>0, <2>2, <2>4, <2>5, <3>1, <3>2 DEF Removals, Live
    <3>4. \A q \in Requests : mem[r].cur \notin gone[q]
      BY <2>2, <3>1 DEF Removals
    <3>5. \A q, p \in Requests : q # p => gone'[q] \cap gone'[p] = {}
      BY <3>2, <3>4 DEF GoneInv
    <3> QED BY <2>3, <3>3, <3>5 DEF GoneInv
  <2>6. CASE ~(pc[r] = "soft_delete" /\ pc'[r] = "cascade")
    <3>1. \A q \in Requests : gone'[q] = gone[q]
      BY <1>1, <2>6, GoneMoves
    <3>2. Removals(r)'
      BY <2>0, <2>2, <2>4, <2>6, <3>1 DEF Removals
    <3> QED BY <2>3, <3>1, <3>2 DEF GoneInv
  <2> QED BY <2>5, <2>6
<1>2. CASE Edit /\ Observe(Client)
  <2>1. \A a \in Assets : ~Live(a) => ~Live(a)'
    BY <1>2, EditTables DEF Live
  <2>2. UNCHANGED <<req, pc, mem>>
    BY <1>2, Zenon DEF Edit
  <2>3. \A q \in Requests : gone'[q] = gone[q] /\ gone[q] \subseteq Assets
    BY <1>2, <2>2, GoneMoves DEF Shape, History
  <2> QED BY <2>1, <2>2, <2>3 DEF GoneInv, Removals
<1>3. CASE UNCHANGED vars
  <2>1. UNCHANGED <<row, pc, mem, gone>>
    BY <1>3, Zenon DEF vars, tables, history
  <2> QED BY <2>1 DEF GoneInv, Removals, Live
<1> QED BY <1>1, <1>2, <1>3, NextMoves

\* What a delete leaves of the memory.
LEMMA DeleteKeeps ==
    ASSUME Shape, NEW r \in Requests, pc[r] \in Deleting, NEW label, NEW m,
           Goes(r, label, m), DeletesTo(r, label, m)
    PROVE  /\ mem'[r].found = mem[r].found /\ pc'[r] \in Deleting \cup {"ok"}
           /\ pc'[r] \in Deleting => mem'[r].cutoff = mem[r].cutoff /\ mem'[r].policy = mem[r].policy
<1>1. /\ pc'[r] = label /\ mem'[r].found = m.found /\ (label \notin Answers => mem'[r] = m)
  BY GoesTo
<1>2. \A l \in Deleting : l \notin Answers
  BY DEF Deleting, Answers
<1>3. CASE \E x, yes : /\ label \in {"ok", "get"} /\ yes \in BOOLEAN /\ Settles(r, m, x, yes)
                       /\ yes => pc[r] = "cascade" /\ x.id = mem[r].cur
  BY <1>1, <1>2, <1>3 DEF Settles, Deleting
<1>4. CASE /\ pc[r] = "get" /\ label = "soft_delete" /\ m = [mem[r] EXCEPT !.cur = m.cur]
           /\ m.cur \in Ids(mem[r].todo)
  <2>1. mem[r] \in Memory
    BY <1>4, AtLabel
  <2>2. PICK c : c = m.cur
    OBVIOUS
  <2>3. m.found = mem[r].found /\ m.cutoff = mem[r].cutoff /\ m.policy = mem[r].policy
    BY <1>4, <2>1, <2>2 DEF Memory
  <2> QED BY <1>1, <1>2, <1>4, <2>3 DEF Deleting
<1>5. CASE pc[r] = "soft_delete" /\ label = "cascade" /\ m = mem[r]
  BY <1>1, <1>2, <1>5 DEF Deleting
<1> QED BY <1>3, <1>4, <1>5 DEF DeletesTo

\* What a page of the walk leaves of it.
LEMMA WalkKeeps ==
    ASSUME Shape, NEW r \in Requests, pc[r] = "candidates", NEW label, NEW m,
           Goes(r, label, m), WalksTo(r, label, m)
    PROVE  /\ mem'[r].found = mem[r].found \cup Added(r)
           /\ pc'[r] \in {"candidates", "get", "ok"}
           /\ pc'[r] \in Pruning => /\ mem'[r].cutoff = mem[r].cutoff /\ mem'[r].policy = mem[r].policy
                                    /\ mem'[r].cursor = Following(r, req[r].class)
           /\ pc'[r] = "candidates" => mem'[r].cursor # NoCursor /\ Cardinality(mem'[r].found) < Cap
           /\ pc'[r] # "candidates" => \/ Following(r, req[r].class) = NoCursor
                                       \/ Cardinality(mem'[r].found) = Cap
           /\ pc'[r] = "get" => ~req[r].dry
<1>1. /\ m.found = mem[r].found \cup Added(r) /\ m.cursor = Following(r, req[r].class)
      /\ m.cutoff = mem[r].cutoff /\ m.policy = mem[r].policy /\ m.pruned = mem[r].pruned
      /\ \/ label = "candidates" /\ m.cursor # NoCursor /\ Cardinality(m.found) < Cap
         \/ label = "ok" /\ (m.cursor = NoCursor \/ Cardinality(m.found) = Cap)
         \/ /\ label = "get" /\ (m.cursor = NoCursor \/ Cardinality(m.found) = Cap)
            /\ ~req[r].dry /\ m.todo = m.found
  BY Zenon DEF WalksTo
<1>2. /\ pc'[r] = label /\ mem'[r].found = m.found /\ (label \notin Answers => mem'[r] = m)
  BY GoesTo
<1>3. label \in Pruning => label \notin Answers
  BY DEF Pruning, Deleting, Answers
<1>4. label \in {"candidates", "get"} => label \in Pruning
  BY DEF Pruning, Deleting
<1> QED BY <1>1, <1>2, <1>3, <1>4

\* What a prune has found is of its class and due by the policy it read.
Chosen(r) ==
    /\ pc[r] \in Pruning =>
          /\ mem[r].cutoff = Now - req[r].days /\ (req[r].dry \/ Cleared(mem[r].policy, req[r]))
          /\ \A x \in mem[r].found : Kind(x.id) = req[r].class /\ born[x.id] < mem[r].cutoff
    /\ pc[r] \in Deleting => ~req[r].dry

ChosenInv == \A r \in Requests : Chosen(r)

LEMMA ChosenStep == Shape /\ ChosenInv /\ [Next]_vars => ChosenInv'
<1> SUFFICES ASSUME Shape, ChosenInv, [Next]_vars PROVE ChosenInv'
  OBVIOUS
<1>1. ASSUME NEW r \in Requests, Moves(r), UNCHANGED edits, Observe(r)
      PROVE  ChosenInv'
  <2>0. born' = born
    BY <1>1, TablesStep
  <2>1. \A x \in Requests \ {r} : pc'[x] = pc[x] /\ mem'[x] = mem[x] /\ req'[x] = req[x]
    <3>1. PICK label, m : Goes(r, label, m)
      BY <1>1, MovesGo
    <3> QED BY <1>1, <3>1, GoesTo, MovesGo
  <2>2. ASSUME NEW q \in Requests, q # r PROVE Chosen(q)'
    BY <2>0, <2>1, <2>2 DEF ChosenInv, Chosen
  <2>3. Chosen(r)
    BY DEF ChosenInv
  <2>4. CASE pc'[r] \notin Pruning
    BY <2>2, <2>4 DEF ChosenInv, Chosen, Pruning
  <2>5. CASE /\ Policy(r) /\ UNCHANGED req /\ pc'[r] = "candidates"
             /\ mem'[r].found = {} /\ mem'[r].cursor = NoCursor /\ mem'[r].pruned = mem[r].pruned
             /\ mem'[r].cutoff = Now - req[r].days
             /\ req[r].dry \/ Cleared(mem'[r].policy, req[r])
    <3>1. Chosen(r)'
      BY <2>5 DEF Chosen, Deleting
    <3> QED BY <2>2, <3>1 DEF ChosenInv
  <2>6. CASE /\ Candidates(r) /\ UNCHANGED req /\ pc[r] = "candidates"
             /\ \E label, m : Goes(r, label, m) /\ WalksTo(r, label, m)
    <3>1. PICK label, m : Goes(r, label, m) /\ WalksTo(r, label, m)
      BY <2>6
    <3>2. /\ mem'[r].found = mem[r].found \cup Added(r)
          /\ pc'[r] \in {"candidates", "get", "ok"} /\ (pc'[r] = "get" => ~req[r].dry)
          /\ pc'[r] \in Pruning => mem'[r].cutoff = mem[r].cutoff /\ mem'[r].policy = mem[r].policy
      BY <2>6, <3>1, WalkKeeps
    <3>3. \A x \in Added(r) : Kind(x.id) = req[r].class /\ born[x.id] < mem[r].cutoff
      <4>1. \A x \in Added(r) : x \in Rows(req[r].class) /\ born[x.id] < mem[r].cutoff
        BY <2>6, AddedFacts, PageFacts
      <4> QED BY <4>1, RowFacts DEF Shape
    <3>4. pc[r] \in Pruning
      BY <2>6 DEF Pruning
    <3>5. Chosen(r)'
      BY <2>0, <2>3, <2>6, <3>2, <3>3, <3>4 DEF Chosen, Deleting
    <3> QED BY <2>2, <3>5 DEF ChosenInv
  <2>7. CASE /\ pc[r] \in Deleting /\ UNCHANGED req
             /\ \E label, m : Goes(r, label, m) /\ DeletesTo(r, label, m)
    <3>1. PICK label, m : Goes(r, label, m) /\ DeletesTo(r, label, m)
      BY <2>7
    <3>2. /\ mem'[r].found = mem[r].found /\ pc'[r] \in Deleting \cup {"ok"}
          /\ pc'[r] \in Deleting => mem'[r].cutoff = mem[r].cutoff /\ mem'[r].policy = mem[r].policy
      BY <2>7, <3>1, DeleteKeeps
    <3>3. pc[r] \in Pruning /\ (pc'[r] \in Pruning => pc'[r] \in Deleting)
      BY <2>7, <3>2 DEF Pruning
    <3>4. Chosen(r)'
      BY <2>0, <2>3, <2>7, <3>2, <3>3 DEF Chosen
    <3> QED BY <2>2, <3>4 DEF ChosenInv
  <2> QED BY <1>1, <2>4, <2>5, <2>6, <2>7, PruneSteps, Zenon
<1>2. CASE Edit /\ Observe(Client)
  <2>1. UNCHANGED <<req, pc, mem>>
    BY <1>2, Zenon DEF Edit
  <2>2. born' = born
    BY <1>2, EditTables
  <2> QED BY <2>1, <2>2 DEF ChosenInv, Chosen
<1>3. CASE UNCHANGED vars
  <2>1. UNCHANGED <<born, req, pc, mem>>
    BY <1>3, Zenon DEF vars, tables
  <2> QED BY <2>1 DEF ChosenInv, Chosen
<1> QED BY <1>1, <1>2, <1>3, NextMoves

\* What a policy clears an asset prune by.
LEMMA ClearedMeans ==
    ASSUME NEW p \in Policies \cup {NoPolicy}, NEW q \in Request, q.op = "prune", Cleared(p, q)
    PROVE  \E i \in DOMAIN p.classes :
              /\ p.classes[i].class = q.class /\ p.classes[i].disposition = "soft_delete"
              /\ q.days >= p.classes[i].window /\ p.classes[i].window \in Nat
              /\ \A j \in 1..(i - 1) : p.classes[j].class # q.class
<1>1. p.classes \in Seq([class : STRING, window : Nat, disposition : STRING])
  <2>1. PICK R : R = [class : STRING, window : Nat, disposition : STRING]
    OBVIOUS
  <2>2. \A o \in Policies : o.classes \in Seq(R)
    BY <2>1, MaintenanceAssumption, Zenon
  <2>3. p = NoPolicy => p.classes = << >>
    BY DEF NoPolicy
  <2>4. << >> \in Seq(R)
    OBVIOUS
  <2>5. p.classes \in Seq(R)
    BY <2>2, <2>3, <2>4
  <2> QED BY <2>1, <2>5, Zenon
<1>2. Evaluate(p, q.class, q.days)
  BY DEF Cleared
<1>3. PICK i \in Matching(p, q.class) :
          /\ \A j \in Matching(p, q.class) : i <= j
          /\ p.classes[i].disposition = "soft_delete"
          /\ q.days >= p.classes[i].window
  BY <1>2 DEF Evaluate
<1>4. DOMAIN p.classes = 1..Len(p.classes) /\ Len(p.classes) \in Nat
  BY <1>1
<1>5. i \in DOMAIN p.classes /\ p.classes[i].class = q.class
  BY <1>3 DEF Matching
<1>6. p.classes[i].window \in Nat
  <2>1. \A R : p.classes \in Seq(R) => \A k \in 1..Len(p.classes) : p.classes[k] \in R
    OBVIOUS
  <2>2. p.classes[i] \in [class : STRING, window : Nat, disposition : STRING]
    BY <1>1, <1>4, <1>5, <2>1, Zenon
  <2> QED BY <2>2
<1>7. ASSUME NEW j \in 1..(i - 1), p.classes[j].class = q.class PROVE FALSE
  <2>1. j \in DOMAIN p.classes /\ i \in Int /\ j < i
    BY <1>4, <1>5
  <2>2. j \in Matching(p, q.class)
    BY <1>7, <2>1 DEF Matching
  <2> QED BY <1>3, <2>1, <2>2
<1> QED BY <1>3, <1>5, <1>6, <1>7

LEMMA ChosenIsDue == Shape /\ ChosenInv => PrunedWasDue
<1> SUFFICES ASSUME Shape, ChosenInv, NEW r \in Requests, At(r, "cascade")
             PROVE  LET a == mem[r].cur
                        classes == mem[r].policy.classes IN
                    \E i \in DOMAIN classes :
                        /\ classes[i].class = Kind(a) /\ classes[i].disposition = "soft_delete"
                        /\ Now - born[a] > classes[i].window
                        /\ \A j \in 1..(i - 1) : classes[j].class # Kind(a)
  BY DEF PrunedWasDue
<1>1. pc[r] = "cascade" /\ pc[r] \in Pruning /\ pc[r] \in Deleting
  BY DEF At, Pruning, Deleting
<1>2. /\ req[r] \in Request /\ req[r].op = "prune" /\ mem[r] \in Memory
      /\ mem[r].cur \in Ids(mem[r].todo) /\ mem[r].todo \subseteq mem[r].found
  BY <1>1, AtLabel DEF Fits
<1>3. /\ mem[r].cutoff = Now - req[r].days /\ Cleared(mem[r].policy, req[r])
      /\ \A x \in mem[r].found : Kind(x.id) = req[r].class /\ born[x.id] < mem[r].cutoff
  BY <1>1 DEF ChosenInv, Chosen
<1>4. Kind(mem[r].cur) = req[r].class /\ born[mem[r].cur] < Now - req[r].days
  BY <1>2, <1>3 DEF Ids
<1>5. mem[r].policy \in Policies \cup {NoPolicy} /\ mem[r].cur \in Assets
      /\ born[mem[r].cur] \in Int /\ req[r].days \in Int /\ Now \in Int
  <2>1. mem[r].policy \in Policies \cup {NoPolicy} /\ mem[r].cur \in Assets
    BY <1>2 DEF Memory
  <2>2. Now \in Int /\ \A t \in Time : t \in Int
    BY MaintenanceAssumption DEF Time
  <2>3. born[mem[r].cur] \in Time
    BY <2>1 DEF Shape, Tables
  <2>4. req[r].days \in Windows
    BY <1>2 DEF Request
  <2>5. \A w \in Windows : w \in Int
    <3>1. Windows \subseteq Nat
      BY Zenon, MaintenanceAssumption
    <3> QED BY <3>1
  <2>6. req[r].days \in Int
    BY <2>4, <2>5, Zenon
  <2> QED BY <2>1, <2>2, <2>3, <2>6, Zenon
<1>6. PICK i \in DOMAIN mem[r].policy.classes :
          LET c == mem[r].policy.classes IN
          /\ c[i].class = req[r].class /\ c[i].disposition = "soft_delete"
          /\ req[r].days >= c[i].window /\ c[i].window \in Nat
          /\ \A j \in 1..(i - 1) : c[j].class # req[r].class
  BY <1>2, <1>3, <1>5, ClearedMeans
<1>7. Now - born[mem[r].cur] > mem[r].policy.classes[i].window
  BY <1>4, <1>5, <1>6
<1> QED BY <1>4, <1>6, <1>7

LEMMA InitChosen == Init => ChosenInv
<1> SUFFICES ASSUME Init, NEW r \in Requests PROVE Chosen(r)
  BY DEF ChosenInv
<1>1. pc[r] = "idle"
  BY DEF Init
<1> QED BY <1>1 DEF Chosen, Pruning, Deleting

\* What a prune removes was old enough by the entry of the policy it read that
\* decides for its class, whatever clients and other passes write meanwhile.
THEOREM RemovalsWereDue == Spec => []PrunedWasDue
BY Basics, InitChosen, ChosenStep, ChosenIsDue, PTL DEF Spec
-----------------------------------------------------------------------------
(* What a prune's walk finds, and what its report adds up to.                *)

\* A row found was at most as new as its asset is now, unless a late stamp moved
\* the asset down; while a prune walks, what it has found is behind its cursor.
Walked(r) ==
    /\ \A x \in mem[r].found : x.at <= at[x.id] \/ x.id \in slipped
    /\ \A x, y \in mem[r].found : x.id = y.id /\ x # y => x.id \in slipped
    /\ pc[r] = "candidates" =>
          /\ mem[r].cursor = NoCursor => mem[r].found = {}
          /\ mem[r].cursor # NoCursor => \A x \in mem[r].found : ~Newer(mem[r].cursor, x)

FoundInv == \A r \in Requests : Walked(r)

LEMMA Slips ==
    ASSUME Shape, Shape', NEW who, Observe(who)
    PROVE  /\ slipped \subseteq slipped'
           /\ \A a \in Assets : at[a] <= at'[a] \/ a \in slipped'
           /\ \A a \in Assets : at[a] \in Int /\ at'[a] \in Int
<1>1. slipped' = slipped \cup {a \in Assets : at'[a] < at[a]}
  BY DEF Observe
<1>2. \A t \in Time : t \in Int
  BY MaintenanceAssumption DEF Time
<1>3. \A a \in Assets : at[a] \in Time /\ at'[a] \in Time
  BY DEF Shape, Tables
<1>4. \A a \in Assets : at[a] \in Int /\ at'[a] \in Int
  BY <1>2, <1>3
<1> QED BY <1>1, <1>4

LEMMA RowIsKeyset == Row \subseteq Keyset
<1>1. \A t \in Time : t \in Int
  BY MaintenanceAssumption DEF Time
<1>2. \A a \in Assets : a \in Int
  BY MaintenanceAssumption
<1> QED BY <1>1, <1>2 DEF Row, Keyset

\* Rows that were found stay behind their assets.
LEMMA FoundStays ==
    ASSUME Shape, Shape', FoundInv, NEW who, Observe(who), NEW q \in Requests,
           NEW x \in mem[q].found
    PROVE  x.at <= at'[x.id] \/ x.id \in slipped'
<1>1. mem[q].found \subseteq Row
  BY SoundNow DEF Sound, Memory
<1>2. x.id \in Assets /\ x.at \in Int
  BY <1>1, RowIsKeyset DEF Row, Keyset
<1>3. x.at <= at[x.id] \/ x.id \in slipped
  BY DEF FoundInv, Walked
<1> QED BY <1>2, <1>3, Slips

\* The walk's pages are behind what it has found.
LEMMA PageIsNew ==
    ASSUME Shape, NEW r \in Requests, pc[r] = "candidates", Walked(r)
    PROVE  /\ mem[r].found \cap Page(r, req[r].class) = {}
           /\ \A x \in mem[r].found, y \in Page(r, req[r].class) :
                 x.id = y.id => x.id \in slipped
           /\ Following(r, req[r].class) # NoCursor =>
                 \A x \in mem[r].found \cup Page(r, req[r].class) :
                     ~Newer(Following(r, req[r].class), x)
<1> DEFINE page == Page(r, req[r].class)
           next == Following(r, req[r].class)
           rest == Behind(Rows(req[r].class), mem[r].cursor)
<1>1. /\ page \subseteq rest /\ page \subseteq Rows(req[r].class) /\ next \in rest \cup {NoCursor}
      /\ next # NoCursor => \A x \in rest : x \in page <=> ~Newer(next, x)
  BY PageFacts
<1>2. Rows(req[r].class) \subseteq Row /\ rest \subseteq Rows(req[r].class)
      /\ \A y \in Rows(req[r].class) : y.at = at[y.id]
  BY RowFacts DEF Shape, Behind
<1>3. mem[r].found \subseteq Row /\ mem[r].cursor \in Row \cup {NoCursor}
  BY SoundNow DEF Sound, Memory
<1>4. Row \subseteq Keyset
  BY RowIsKeyset
<1>5. mem[r].cursor # NoCursor => \A y \in rest : Newer(mem[r].cursor, y)
  BY DEF Behind
<1> HIDE DEF page, next, rest
<1>6. CASE mem[r].cursor = NoCursor
  <2>1. mem[r].found = {}
    BY <1>6 DEF Walked
  <2> QED BY <1>1, <2>1 DEF page, next
<1>7. CASE mem[r].cursor # NoCursor
  <2>1. mem[r].cursor \in Keyset /\ \A x \in mem[r].found : x \in Keyset /\ ~Newer(mem[r].cursor, x)
    BY <1>3, <1>4, <1>7 DEF Walked
  <2>2. mem[r].found \cap page = {}
    BY <1>1, <1>5, <1>7, <2>1
  <2>3. ASSUME NEW x \in mem[r].found, NEW y \in page, x.id = y.id, x.id \notin slipped PROVE FALSE
    <3>1. y \in Keyset /\ x \in Keyset /\ Newer(mem[r].cursor, y) /\ y.at = at[y.id]
      BY <1>1, <1>2, <1>4, <1>5, <1>7, <2>1
    <3>2. x.at <= y.at
      BY <2>3, <3>1 DEF Walked
    <3>3. x = y \/ Newer(y, x)
      BY <2>3, <3>1, <3>2 DEF Newer, Keyset
    <3>4. Newer(mem[r].cursor, x)
      <4>1. /\ mem[r].cursor.at \in Int /\ mem[r].cursor.id \in Int /\ x.at \in Int /\ x.id \in Int
            /\ y.at \in Int /\ y.id \in Int
        BY <2>1, <3>1 DEF Keyset
      <4> QED BY <3>1, <3>3, <4>1, NewerIsAnOrder
    <3> QED BY <2>1, <3>4
  <2>4. ASSUME next # NoCursor, NEW x \in mem[r].found, Newer(next, x) PROVE FALSE
    <3>1. next \in rest /\ next \in Keyset /\ Newer(mem[r].cursor, next) /\ x \in Keyset
      BY <1>1, <1>2, <1>4, <1>5, <1>7, <2>1, <2>4
    <3>2. Newer(mem[r].cursor, x)
      <4>1. /\ mem[r].cursor.at \in Int /\ mem[r].cursor.id \in Int /\ x.at \in Int /\ x.id \in Int
            /\ next.at \in Int /\ next.id \in Int
        BY <2>1, <3>1 DEF Keyset
      <4> QED BY <2>4, <3>1, <4>1, NewerIsAnOrder
    <3> QED BY <2>1, <3>2
  <2> QED BY <1>1, <2>2, <2>3, <2>4 DEF page, next
<1> QED BY <1>6, <1>7

LEMMA FoundStep == Shape /\ FoundInv /\ [Next]_vars => FoundInv'
<1> SUFFICES ASSUME Shape, FoundInv, [Next]_vars PROVE FoundInv'
  OBVIOUS
<1>0. Shape'
  BY ShapeStep
<1>1. ASSUME NEW r \in Requests, Moves(r), UNCHANGED edits, Observe(r)
      PROVE  FoundInv'
  <2>0. slipped \subseteq slipped'
    BY <1>0, <1>1, Slips
  <2>1. \A x \in Requests \ {r} : pc'[x] = pc[x] /\ mem'[x] = mem[x]
    <3>1. PICK label, m : Goes(r, label, m)
      BY <1>1, MovesGo
    <3> QED BY <3>1, GoesTo
  <2>2. ASSUME NEW q \in Requests, mem'[q].found = mem[q].found, pc'[q] # "candidates"
        PROVE  Walked(q)'
    <3>1. \A x \in mem[q].found : x.at <= at'[x.id] \/ x.id \in slipped'
      BY <1>0, <1>1, FoundStays
    <3> QED BY <2>0, <2>2, <3>1 DEF FoundInv, Walked
  <2>3. ASSUME NEW q \in Requests, q # r PROVE Walked(q)'
    <3>1. \A x \in mem[q].found : x.at <= at'[x.id] \/ x.id \in slipped'
      BY <1>0, <1>1, FoundStays
    <3> QED BY <2>0, <2>1, <2>3, <3>1 DEF FoundInv, Walked
  <2>4. Walked(r)
    BY DEF FoundInv
  <2>5. CASE pc'[r] \notin Pruning /\ mem'[r].found = mem[r].found
    <3>1. pc'[r] # "candidates"
      BY <2>5 DEF Pruning
    <3> QED BY <2>2, <2>3, <2>5, <3>1 DEF FoundInv
  <2>6. CASE mem'[r].found = {} /\ mem'[r].cursor = NoCursor
    <3>1. Walked(r)'
      BY <2>6 DEF Walked
    <3> QED BY <2>3, <3>1 DEF FoundInv
  <2>7. CASE /\ Candidates(r) /\ UNCHANGED req /\ pc[r] = "candidates"
             /\ \E label, m : Goes(r, label, m) /\ WalksTo(r, label, m)
    <3>1. PICK label, m : Goes(r, label, m) /\ WalksTo(r, label, m)
      BY <2>7
    <3>2. /\ mem'[r].found = mem[r].found \cup Added(r)
          /\ pc'[r] \in Pruning => mem'[r].cursor = Following(r, req[r].class)
          /\ pc'[r] = "candidates" => mem'[r].cursor # NoCursor
      BY <2>7, <3>1, WalkKeeps
    <3>3. Added(r) \subseteq Page(r, req[r].class) /\ Added(r) \subseteq Row
      BY <2>7, AddedFacts
    <3>4. \A x \in mem[r].found : x.at <= at'[x.id] \/ x.id \in slipped'
      BY <1>0, <1>1, FoundStays
    <3>5. \A x \in Added(r) : x.at <= at'[x.id]
      <4>1. \A x \in Added(r) : x.at = at[x.id] /\ x.id \in Assets
        BY <3>3, PageFacts, RowFacts DEF Shape
      <4>2. UNCHANGED at
        BY <2>7, Zenon DEF Candidates, Reads, tables
      <4>3. \A a \in Assets : at[a] \in Int
        BY <1>0, <1>1, Slips
      <4> QED BY <4>1, <4>2, <4>3
    <3>6. \A x \in mem[r].found \cup Added(r), y \in mem[r].found \cup Added(r) :
             x.id = y.id /\ x # y => x.id \in slipped
      <4>1. \A x \in mem[r].found, y \in Page(r, req[r].class) : x.id = y.id => x.id \in slipped
        BY <2>4, <2>7, PageIsNew
      <4>2. \A x, y \in Added(r) : x.id = y.id => x = y
        <5>1. \A x \in Added(r) : x.at = at[x.id] /\ x \in Row
          BY <3>3, PageFacts, RowFacts DEF Shape
        <5> QED BY <5>1 DEF Row
      <4>3. \A x, y \in mem[r].found : x.id = y.id /\ x # y => x.id \in slipped
        BY <2>4 DEF Walked
      <4> QED BY <3>3, <4>1, <4>2, <4>3
    <3>7. pc'[r] = "candidates" => \A x \in mem'[r].found : ~Newer(mem'[r].cursor, x)
      <4>1. pc'[r] = "candidates" => mem'[r].cursor = Following(r, req[r].class)
                                     /\ mem'[r].cursor # NoCursor
        BY <3>2 DEF Pruning
      <4>2. Following(r, req[r].class) # NoCursor =>
               \A x \in mem[r].found \cup Page(r, req[r].class) :
                   ~Newer(Following(r, req[r].class), x)
        BY <2>4, <2>7, PageIsNew
      <4> QED BY <3>2, <3>3, <4>1, <4>2
    <3>8. Walked(r)'
      BY <2>0, <3>2, <3>4, <3>5, <3>6, <3>7 DEF Walked
    <3> QED BY <2>3, <3>8 DEF FoundInv
  <2>8. CASE /\ pc[r] \in Deleting
             /\ \E label, m : Goes(r, label, m) /\ DeletesTo(r, label, m)
    <3>1. PICK label, m : Goes(r, label, m) /\ DeletesTo(r, label, m)
      BY <2>8
    <3>2. mem'[r].found = mem[r].found /\ pc'[r] # "candidates"
      BY <2>8, <3>1, DeleteKeeps DEF Deleting
    <3> QED BY <2>2, <2>3, <3>2 DEF FoundInv
  <2> QED BY <1>1, <2>5, <2>6, <2>7, <2>8, PruneSteps, Zenon
<1>2. CASE Edit /\ Observe(Client)
  <2>1. UNCHANGED <<pc, mem>>
    BY <1>2, Zenon DEF Edit
  <2>2. slipped \subseteq slipped'
    BY <1>0, <1>2, Slips
  <2>3. \A q \in Requests : \A x \in mem[q].found : x.at <= at'[x.id] \/ x.id \in slipped'
    BY <1>0, <1>2, FoundStays
  <2> QED BY <2>1, <2>2, <2>3 DEF FoundInv, Walked
<1>3. CASE UNCHANGED vars
  <2>1. UNCHANGED <<at, pc, mem, slipped>>
    BY <1>3, Zenon DEF vars, tables, history
  <2> QED BY <2>1 DEF FoundInv, Walked
<1> QED BY <1>1, <1>2, <1>3, NextMoves

LEMMA InitReport == Init => GoneInv /\ FoundInv
<1> SUFFICES ASSUME Init PROVE GoneInv /\ FoundInv
  OBVIOUS
<1>1. \A r \in Requests : /\ pc[r] = "idle" /\ mem[r] = NoMemory /\ gone[r] = {}
  BY DEF Init
<1>2. \A r \in Requests : mem[r].found = {} /\ mem[r].pruned = {}
  BY <1>1, NoMemorySound
<1> QED BY <1>1, <1>2 DEF GoneInv, Removals, FoundInv, Walked, Ids

LEMMA ReportIsRight == GoneInv /\ FoundInv => PruneReportAddsUp
<1> SUFFICES ASSUME GoneInv, FoundInv PROVE PruneReportAddsUp
  OBVIOUS
<1>1. \A r \in Requests : Removals(r) /\ Walked(r)
  BY DEF GoneInv, FoundInv
<1>2. \A q, r \in Requests : q # r => gone[q] \cap gone[r] = {}
  BY DEF GoneInv
<1> QED BY <1>1, <1>2 DEF PruneReportAddsUp, Removals, Walked

LEMMA Reports == Spec => [](GoneInv /\ FoundInv)
<1>1. Shape /\ (GoneInv /\ FoundInv) /\ [Next]_vars => (GoneInv /\ FoundInv)'
  BY GoneStep, FoundStep
<1> QED BY Basics, InitReport, <1>1, PTL DEF Spec

\* What a prune reports as pruned it has itself marked, and matched, and no other
\* prune has marked it too; it matches an asset twice only when a stamp taken
\* before another write and stored after it moved the asset down.
THEOREM ReportsAddUp == Spec => []PruneReportAddsUp
BY Reports, ReportIsRight, PTL
-----------------------------------------------------------------------------
(* What nobody else writes while a pass runs.                                *)

\* Before it deletes, what is steady for a request is live.
SteadyInv ==
    \A r \in Requests : pc[r] \in Working \ Deleting => \A a \in steady[r] : Live(a)

\* What another's step leaves of an asset that stays steady.
Unwritten(a) == /\ row'[a] = row[a] /\ at'[a] = at[a]
                /\ (<<"entry", a>> \in Existing) = (<<"entry", a>> \in Existing')

LEMMA SteadyMoves ==
    ASSUME Shape, NEW who, Observe(who), NEW q \in Requests
    PROVE  /\ pc'[q] \notin Working /\ ~Starts(q) => steady'[q] = {}
           /\ Starts(q) => steady'[q] = {a \in Assets : Live(a)}
           /\ ~Starts(q) => steady'[q] \subseteq steady[q]
           /\ ~Starts(q) /\ q # who => \A a \in steady'[q] : Unwritten(a)
           /\ steady[q] \subseteq Assets
<1>1. steady'[q] = IF Starts(q) THEN {a \in Assets : Live(a)}
                   ELSE IF pc'[q] \notin Working THEN {}
                        ELSE IF q = who THEN steady[q] ELSE {a \in steady[q] : ~Written(a)}
  BY Zenon DEF Observe
<1>2. steady[q] \subseteq Assets
  BY DEF Shape, History
<1>3. \A a : ~Written(a) => Unwritten(a)
  BY DEF Written, Unwritten
<1> QED BY <1>1, <1>2, <1>3

\* Only a delete writes the rows' marks.
LEMMA RowsKept ==
    ASSUME NEW r \in Requests, Moves(r), pc[r] \notin Deleting
    PROVE  UNCHANGED row
<1>1. ~SoftDelete(r)
  BY DEF SoftDelete, At, Deleting
<1>2. ASSUME PutOwner(r) \/ TagPut(r) \/ TagBump(r) \/ Create(r) \/ CreateTags(r) \/ Cascade(r)
      PROVE  UNCHANGED row
  BY <1>2, Zenon DEF PutOwner, TagPut, TagBump, Create, CreateTags, Cascade
<1>3. UNCHANGED tables => UNCHANGED row
  BY Zenon DEF tables
<1> QED BY <1>1, <1>2, <1>3, TableMoves, Zenon

\* A delete goes on or answers.
LEMMA DeletesOn ==
    ASSUME Shape, NEW r \in Requests, Moves(r), pc[r] \in Deleting
    PROVE  pc'[r] \in Deleting \cup {"ok"}
<1>1. Get(r) \/ SoftDelete(r) \/ Cascade(r) \/ Fail(r)
  BY DEF Deleting, Moves, Step, At, Arrive, Gate, ListOwners, OwnerRow, PutOwner, ReadPage, TagGet,
         TagPut, TagBump, Known, Find, Backing, Refresh, Create, CreateTags, Read, Policy, Candidates
<1>2. UNCHANGED req
  BY DEF Deleting, Moves, Arrive, At
<1>3. PICK label, m : Goes(r, label, m) /\ DeletesTo(r, label, m)
  BY <1>1, <1>2, DeleteGoes
<1> QED BY <1>3, DeleteKeeps

\* A request that is answered stays so.
LEMMA MovesFrom ==
    ASSUME NEW r \in Requests, Moves(r)
    PROVE  pc[r] \in {"idle"} \cup Working
BY DEF Moves, Step, At, Working, Fail, Arrive, Gate, ListOwners, OwnerRow, PutOwner, ReadPage, TagGet,
       TagPut, TagBump, Known, Find, Backing, Refresh, Create, CreateTags, Read, Policy, Candidates,
       Get, SoftDelete, Cascade

LEMMA SteadyStep == Shape /\ SteadyInv /\ [Next]_vars => SteadyInv'
<1> SUFFICES ASSUME Shape, SteadyInv, [Next]_vars PROVE SteadyInv'
  OBVIOUS
<1>1. ASSUME NEW r \in Requests, Moves(r), UNCHANGED edits, Observe(r)
      PROVE  SteadyInv'
  <2>1. \A x \in Requests \ {r} : pc'[x] = pc[x]
    <3>1. PICK label, m : Goes(r, label, m)
      BY <1>1, MovesGo
    <3> QED BY <3>1, GoesTo
  <2>2. ASSUME NEW q \in Requests, q # r, pc'[q] \in Working \ Deleting, NEW a \in steady'[q]
        PROVE  Live(a)'
    <3>1. ~Starts(q)
      BY <2>1, <2>2 DEF Starts
    <3>2. a \in steady[q] /\ row'[a] = row[a]
      BY <1>1, <2>2, <3>1, SteadyMoves DEF Unwritten
    <3> QED BY <2>1, <2>2, <3>2 DEF SteadyInv, Live
  <2>3. ASSUME pc'[r] \in Working \ Deleting, NEW a \in steady'[r]
        PROVE  Live(a)'
    <3>1. pc[r] \notin Deleting
      BY <1>1, <2>3, DeletesOn DEF Working
    <3>2. UNCHANGED row
      BY <1>1, <3>1, RowsKept
    <3>3. CASE Starts(r)
      BY <1>1, <2>3, <3>2, <3>3, SteadyMoves DEF Live
    <3>4. CASE ~Starts(r)
      <4>1. pc[r] \in Working \ Deleting
        BY <1>1, <2>3, <3>1, <3>4, MovesFrom DEF Starts, Working
      <4> QED BY <1>1, <2>3, <3>2, <3>4, <4>1, SteadyMoves DEF SteadyInv, Live
    <3> QED BY <3>3, <3>4
  <2> QED BY <2>2, <2>3 DEF SteadyInv
<1>2. CASE Edit /\ Observe(Client)
  <2>1. UNCHANGED pc
    BY <1>2, Zenon DEF Edit
  <2>2. ASSUME NEW q \in Requests, pc'[q] \in Working \ Deleting, NEW a \in steady'[q]
        PROVE  Live(a)'
    <3>1. ~Starts(q) /\ q # Client
      BY <2>1, MaintenanceAssumption DEF Starts
    <3>2. a \in steady[q] /\ row'[a] = row[a]
      BY <1>2, <2>2, <3>1, SteadyMoves DEF Unwritten
    <3> QED BY <2>1, <2>2, <3>2 DEF SteadyInv, Live
  <2> QED BY <2>2 DEF SteadyInv
<1>3. CASE UNCHANGED vars
  <2>1. UNCHANGED <<row, pc, steady>>
    BY <1>3, Zenon DEF vars, tables, history
  <2> QED BY <2>1 DEF SteadyInv, Live
<1> QED BY <1>1, <1>2, <1>3, NextMoves

-----------------------------------------------------------------------------
(* A prune's walk is complete.                                               *)

RowOf(a) == [id |-> a, at |-> at[a]]

\* A due asset that stays steady is found or ahead of the walk.
Ahead(r) ==
    pc[r] = "candidates" =>
        \A a \in steady[r] :
            Kind(a) = req[r].class /\ born[a] < mem[r].cutoff =>
                \/ a \in Ids(mem[r].found)
                \/ mem[r].cursor = NoCursor
                \/ Newer(mem[r].cursor, RowOf(a))

AheadInv == \A r \in Requests : Ahead(r)

\* What a page does not find it leaves to the next.
LEMMA WalkFinds ==
    ASSUME Shape, NEW r \in Requests, pc[r] = "candidates", Walked(r), Ahead(r),
           NEW label, NEW m, Goes(r, label, m), WalksTo(r, label, m),
           NEW a \in steady[r], Live(a), Kind(a) = req[r].class, born[a] < mem[r].cutoff
    PROVE  \/ a \in Ids(mem'[r].found)
           \/ Following(r, req[r].class) # NoCursor /\ Newer(Following(r, req[r].class), RowOf(a))
           \/ Cardinality(mem'[r].found) = Cap
<1> DEFINE page == Page(r, req[r].class)
           next == Following(r, req[r].class)
           rest == Behind(Rows(req[r].class), mem[r].cursor)
<1>1. mem'[r].found = mem[r].found \cup Added(r)
  BY WalkKeeps
<1>2. CASE a \in Ids(mem[r].found)
  BY <1>1, <1>2 DEF Ids
<1>3. CASE a \notin Ids(mem[r].found)
  <2>1. a \in Assets
    BY DEF Shape, History
  <2>2. RowOf(a) \in Rows(req[r].class)
    BY <2>1, RowFacts DEF RowOf, Shape
  <2>3. RowOf(a) \in rest
    BY <1>3, <2>2 DEF Ahead, Behind
  <2>4. /\ next = NoCursor => page = rest
        /\ next # NoCursor => \A x \in rest : x \in page <=> ~Newer(next, x)
    BY PageFacts
  <2> HIDE DEF next, rest
  <2>5. CASE next # NoCursor /\ Newer(next, RowOf(a))
    BY <2>5 DEF next
  <2>6. CASE RowOf(a) \in page
    <3>1. mem[r].found \cap page = {}
      BY PageIsNew
    <3>2. RowOf(a).id = a
      BY DEF RowOf
    <3>3. \A x \in page : born[x.id] < mem[r].cutoff /\ mem[r].found \cap page = {} =>
              x \in Added(r) \/ Cardinality(mem[r].found \cup Added(r)) = Cap
      BY AddedFacts
    <3> HIDE DEF page
    <3>4. RowOf(a) \in Added(r) \/ Cardinality(mem[r].found \cup Added(r)) = Cap
      BY <2>6, <3>1, <3>2, <3>3
    <3> QED BY <1>1, <3>2, <3>4 DEF Ids
  <2> QED BY <2>3, <2>4, <2>5, <2>6
<1> QED BY <1>2, <1>3

LEMMA AheadStep == Shape /\ FoundInv /\ SteadyInv /\ AheadInv /\ [Next]_vars => AheadInv'
<1> SUFFICES ASSUME Shape, FoundInv, SteadyInv, AheadInv, [Next]_vars PROVE AheadInv'
  OBVIOUS
<1>1. ASSUME NEW who, Observe(who), NEW q \in Requests, q # who, UNCHANGED born,
             pc'[q] = pc[q], mem'[q] = mem[q], req'[q] = req[q]
      PROVE  Ahead(q)'
  <2>1. ~Starts(q)
    BY <1>1 DEF Starts
  <2>2. \A a \in steady'[q] : a \in steady[q] /\ at'[a] = at[a]
    BY <1>1, <2>1, SteadyMoves DEF Unwritten
  <2> QED BY <1>1, <2>2 DEF AheadInv, Ahead, RowOf
<1>2. ASSUME NEW r \in Requests, Moves(r), UNCHANGED edits, Observe(r)
      PROVE  AheadInv'
  <2>0. born' = born
    BY <1>2, TablesStep
  <2>1. \A x \in Requests \ {r} : pc'[x] = pc[x] /\ mem'[x] = mem[x] /\ req'[x] = req[x]
    <3>1. PICK label, m : Goes(r, label, m)
      BY <1>2, MovesGo
    <3> QED BY <1>2, <3>1, GoesTo, MovesGo
  <2>2. \A q \in Requests \ {r} : Ahead(q)'
    BY <1>1, <1>2, <2>0, <2>1
  <2>3. SUFFICES ASSUME pc'[r] = "candidates" PROVE Ahead(r)'
    BY <2>2 DEF AheadInv, Ahead
  <2>4. CASE mem'[r].cursor = NoCursor
    BY <2>4 DEF Ahead
  <2>5. CASE /\ Candidates(r) /\ UNCHANGED req /\ pc[r] = "candidates"
             /\ \E label, m : Goes(r, label, m) /\ WalksTo(r, label, m)
    <3>1. PICK label, m : Goes(r, label, m) /\ WalksTo(r, label, m)
      BY <2>5
    <3>2. /\ mem'[r].cutoff = mem[r].cutoff /\ mem'[r].cursor = Following(r, req[r].class)
          /\ Cardinality(mem'[r].found) < Cap
      BY <2>3, <2>5, <3>1, WalkKeeps DEF Pruning
    <3>3. ~Starts(r)
      BY <2>5 DEF Starts
    <3>4. UNCHANGED at
      BY <2>5, Zenon DEF Candidates, Reads, tables
    <3>5. ASSUME NEW a \in steady'[r], Kind(a) = req[r].class, born[a] < mem[r].cutoff
          PROVE  \/ a \in Ids(mem'[r].found)
                 \/ mem'[r].cursor = NoCursor
                 \/ Newer(mem'[r].cursor, RowOf(a))
      <4>1. a \in steady[r]
        BY <1>2, <3>3, <3>5, SteadyMoves
      <4>2. Live(a)
        BY <2>5, <4>1 DEF SteadyInv, Working, Deleting
      <4>3. Walked(r) /\ Ahead(r)
        BY DEF FoundInv, AheadInv
      <4>4. \/ a \in Ids(mem'[r].found)
            \/ Following(r, req[r].class) # NoCursor /\ Newer(Following(r, req[r].class), RowOf(a))
            \/ Cardinality(mem'[r].found) = Cap
        BY <2>5, <3>1, <3>5, <4>1, <4>2, <4>3, WalkFinds
      <4>5. Cap \in Int
        BY MaintenanceAssumption
      <4>6. Cardinality(mem'[r].found) # Cap
        BY <3>2, <4>5
      <4> QED BY <3>2, <4>4, <4>6
    <3> QED BY <2>0, <2>5, <3>2, <3>4, <3>5 DEF Ahead, RowOf
  <2>6. CASE pc'[r] \notin Pruning
    BY <2>3, <2>6 DEF Pruning
  <2>7. CASE pc[r] \in Deleting
    BY <1>2, <2>3, <2>7, DeletesOn DEF Deleting
  <2> QED BY <1>2, <2>4, <2>5, <2>6, <2>7, PruneSteps, Zenon
<1>3. CASE Edit /\ Observe(Client)
  <2>1. UNCHANGED <<req, pc, mem>>
    BY <1>3, Zenon DEF Edit
  <2>2. born' = born
    BY <1>3, EditTables
  <2>3. \A q \in Requests : q # Client
    BY MaintenanceAssumption
  <2> QED BY <1>1, <1>3, <2>1, <2>2, <2>3 DEF AheadInv
<1>4. CASE UNCHANGED vars
  <2>1. UNCHANGED <<born, at, req, pc, mem, steady>>
    BY <1>4, Zenon DEF vars, tables, history
  <2> QED BY <2>1 DEF AheadInv, Ahead, RowOf
<1> QED BY <1>2, <1>3, <1>4, NextMoves

LEMMA WalkEnds ==
    ASSUME Shape, FoundInv, SteadyInv, AheadInv, [Next]_vars, NEW r \in Requests,
           At(r, "candidates"), pc'[r] \in {"ok", "get"}, NEW a \in steady[r],
           Kind(a) = req[r].class, born[a] < mem[r].cutoff
    PROVE  a \in Ids(mem'[r].found) \/ Cardinality(mem'[r].found) = Cap
<1>0. pc[r] = "candidates" /\ pc'[r] # pc[r]
  BY DEF At
<1>1. Moves(r)
  <2>1. ~(UNCHANGED vars) /\ ~Edit
    BY <1>0 DEF vars, Edit
  <2>2. PICK q \in Requests : Moves(q)
    BY <2>1, NextMoves
  <2>3. PICK label, m : Goes(q, label, m)
    BY <2>2, MovesGo
  <2>4. q = r
    BY <1>0, <2>3, GoesTo
  <2> QED BY <2>2, <2>4
<1>2. Candidates(r) \/ pc'[r] \notin {"ok", "get"}
  <2>1. CASE Candidates(r)
    BY <2>1
  <2>2. CASE Fail(r)
    <3>1. ~At(r, "known") /\ ~At(r, "get") /\ pc[r] \notin {"soft_delete", "cascade"}
      BY <1>0 DEF At
    <3>2. On(r, "failed")
      BY <2>2, <3>1 DEF Fail
    <3>3. pc'[r] = "failed"
      BY <3>2 DEF On, Goto, Shape, Locals
    <3> QED BY <3>3
  <2> QED BY <1>0, <1>1, <2>1, <2>2 DEF Moves, Step, At, Arrive, Gate, ListOwners, OwnerRow, PutOwner,
        ReadPage, TagGet, TagPut, TagBump, Known, Find, Backing, Refresh, Create, CreateTags, Read,
        Policy, Get, SoftDelete, Cascade
<1>3. Candidates(r) /\ UNCHANGED req
  BY <1>0, <1>1, <1>2 DEF Moves, Arrive, At
<1>4. PICK label, m : Goes(r, label, m) /\ WalksTo(r, label, m)
  BY <1>3, CandidatesGoes, Zenon
<1>5. Following(r, req[r].class) = NoCursor \/ Cardinality(mem'[r].found) = Cap
  BY <1>0, <1>4, WalkKeeps
<1>6. Live(a)
  BY <1>0 DEF SteadyInv, Working, Deleting
<1>7. Walked(r) /\ Ahead(r)
  BY DEF FoundInv, AheadInv
<1>8. \/ a \in Ids(mem'[r].found)
      \/ Following(r, req[r].class) # NoCursor /\ Newer(Following(r, req[r].class), RowOf(a))
      \/ Cardinality(mem'[r].found) = Cap
  BY <1>0, <1>4, <1>6, <1>7, WalkFinds
<1> QED BY <1>5, <1>8

LEMMA InitAhead == Init => SteadyInv /\ AheadInv
<1> SUFFICES ASSUME Init PROVE SteadyInv /\ AheadInv
  OBVIOUS
<1>1. \A r \in Requests : pc[r] = "idle"
  BY DEF Init
<1> QED BY <1>1 DEF SteadyInv, AheadInv, Ahead, Working

LEMMA Walks == Spec => [](Shape /\ FoundInv /\ SteadyInv /\ AheadInv)
<1>1. Shape /\ FoundInv /\ SteadyInv /\ AheadInv /\ [Next]_vars =>
          (Shape /\ FoundInv /\ SteadyInv /\ AheadInv)'
  BY ShapeStep, FoundStep, SteadyStep, AheadStep
<1> QED BY InitShape, InitReport, InitAhead, <1>1, PTL DEF Spec

\* A prune's walk that ends before the cap has found every asset of its class that
\* is due and that nobody else writes, wherever its pages are cut and whatever is
\* written or deleted around them.
THEOREM WalksAreComplete == Spec => WalkIsComplete
<1>1. Shape /\ FoundInv /\ SteadyInv /\ AheadInv /\ [Next]_vars =>
          [\A r \in Requests :
              At(r, "candidates") /\ pc'[r] \in {"ok", "get"} =>
                  \A a \in steady[r] :
                      Kind(a) = req[r].class /\ born[a] < mem[r].cutoff =>
                          a \in Ids(mem'[r].found) \/ Cardinality(mem'[r].found) = Cap]_vars
  BY WalkEnds, Zenon
<1> QED BY Walks, <1>1, PTL DEF Spec, WalkIsComplete
-----------------------------------------------------------------------------
(* The steps of the backfill and the upsert.                                 *)

Passing == {"owner_row", "owner_put", "page", "tag_get", "tag_put", "tag_bump", "known"}
           \cup Upserting

\* r proceeds with memory m.
Advances(r, m) ==
    /\ m \in Memory
    /\ \E label, n : /\ ProceedsTo(m, label, n) /\ pc'[r] = label
                     /\ label # "ok" => mem'[r] = n

\* A loop is done with principal a.
DoneWith(r, a) ==
    \/ OwnerRow(r) /\ Shared(a)
    \/ PutOwner(r) /\ a = mem[r].cur
    \/ TagBump(r) /\ a = mem[r].cur
    \/ Known(r) /\ Listed(a)
    \/ Read(r) /\ Listed(a) /\ a = mem[r].cur

\* A loop goes on to the next principal, page or scan, with memory m.
LoopsBy(r, m) ==
    /\ Advances(r, m) /\ m.walk = mem[r].walk
    /\ \/ /\ ListOwners(r) /\ m.cursor = mem[r].cursor /\ m.todo = {a \in Owners : Live(a)}
       \/ ReadPage(r) /\ m.cursor = Following(r, Scan(r).class) /\ m.todo = LeftOf(r)
       \/ \E a : DoneWith(r, a) /\ m.cursor = mem[r].cursor /\ m.todo = mem[r].todo \ {a}

LoopsOn(r) == \E m : LoopsBy(r, m)

\* A principal is dealt with.
WorksOn(r) ==
    /\ mem'[r].todo = mem[r].todo /\ mem'[r].walk = mem[r].walk /\ mem'[r].cursor = mem[r].cursor
    /\ \/ OwnerRow(r) /\ pc'[r] = "owner_put" /\ ~Shared(mem'[r].cur)
       \/ TagGet(r) /\ pc'[r] = "tag_put"
       \/ TagPut(r) /\ pc'[r] = "tag_bump" /\ mem'[r].cur = mem[r].cur
       \/ pc[r] = "known" /\ pc'[r] = "find" /\ Reads
       \/ Find(r) /\ pc'[r] = "create" /\ ~Listed(mem[r].cur) /\ mem'[r].cur = mem[r].cur
       \/ /\ Find(r) \/ Backing(r) \/ Refresh(r) \/ Create(r) \/ CreateTags(r)
          /\ pc'[r] \in Upserting \ {"create"}

LEMMA AdvancesBy ==
    ASSUME Shape, NEW r \in Requests, NEW label, NEW n, Goes(r, label, n),
           NEW m \in Memory, ProceedsTo(m, label, n)
    PROVE  Advances(r, m)
<1>1. label # "ok" => label \notin Answers
  <2>1. Begin(m.walk) \in {"owner_row", "tag_get", "known"}
    BY BeginOf DEF Memory
  <2> QED BY <2>1 DEF ProceedsTo, Answers
<1>2. pc'[r] = label /\ (label # "ok" => mem'[r] = n)
  BY <1>1, GoesTo
<1> QED BY <1>2 DEF Advances

LEMMA DoneLoops ==
    ASSUME Shape, NEW r \in Requests, NEW a, Done(r, a), UNCHANGED req, DoneWith(r, a),
           req[r].op = "backfill", pc[r] \notin Deleting \cup {"idle"},
           mem[r].walk = 0 => mem[r].cursor = NoCursor
    PROVE  LoopsOn(r)
<1>1. PICK label, n : /\ Goes(r, label, n) /\ Keeps(r, n)
                      /\ ProceedsTo([mem[r] EXCEPT !.todo = @ \ {a}], label, n)
  BY DoneGoes
<1>2. PICK m : m = [mem[r] EXCEPT !.todo = @ \ {a}]
  OBVIOUS
<1>3. m \in Memory /\ m.walk = mem[r].walk /\ m.cursor = mem[r].cursor /\ m.todo = mem[r].todo \ {a}
  <2>1. mem[r] \in Memory
    BY SoundNow DEF Sound
  <2> QED BY <1>2, <2>1 DEF Memory
<1>4. ProceedsTo(m, label, n)
  BY <1>1, <1>2, Zenon
<1>5. Advances(r, m)
  BY <1>1, <1>3, <1>4, AdvancesBy
<1> QED BY <1>3, <1>5, Zenon DEF LoopsOn, LoopsBy

\* Another principal, or the same, at another label.
LEMMA GotoWorks ==
    ASSUME Shape, NEW r \in Requests, NEW label \in Working, NEW a,
           Goto(r, label, [mem[r] EXCEPT !.cur = a]) \/ (On(r, label) /\ a = mem[r].cur)
    PROVE  /\ mem'[r].todo = mem[r].todo /\ mem'[r].walk = mem[r].walk
           /\ mem'[r].cursor = mem[r].cursor /\ mem'[r].cur = a /\ pc'[r] = label
<1>1. label \notin Answers
  BY DEF Working, Answers
<1>2. mem[r] \in Memory
  BY SoundNow DEF Sound
<1>3. \A m : Goto(r, label, m) => mem'[r] = m /\ pc'[r] = label
  <2>1. SUFFICES ASSUME NEW m, Goto(r, label, m) PROVE mem'[r] = m /\ pc'[r] = label
    OBVIOUS
  <2>2. Locals /\ label \in Working \cup Answers
    BY DEF Shape
  <2>3. mem'[r] = Left(label, m) /\ pc'[r] = label
    BY <2>1, <2>2, GotoFacts
  <2> QED BY <1>1, <2>3 DEF Left
<1>4. CASE Goto(r, label, [mem[r] EXCEPT !.cur = a])
  <2>1. PICK m : m = [mem[r] EXCEPT !.cur = a]
    OBVIOUS
  <2>2. /\ m.todo = mem[r].todo /\ m.walk = mem[r].walk /\ m.cursor = mem[r].cursor /\ m.cur = a
    BY <1>2, <2>1 DEF Memory
  <2> QED BY <1>3, <1>4, <2>1, <2>2
<1>5. CASE On(r, label) /\ a = mem[r].cur
  BY <1>3, <1>5 DEF On
<1> QED BY <1>4, <1>5

LEMMA PassSteps ==
    ASSUME Shape, NEW r \in Requests, Moves(r)
    PROVE  \/ pc'[r] \notin Passing /\ (pc'[r] = "ok" => req'[r].op # "backfill")
           \/ Arrive(r) /\ pc'[r] = "find" /\ req'[r].op # "backfill"
           \/ UNCHANGED req /\ req[r].op = "backfill" /\ LoopsOn(r)
           \/ UNCHANGED req /\ WorksOn(r)
<1>0. /\ \A label \in Answers : label \notin Passing
      /\ \A label \in Pruning \cup {"gate", "owners", "policy"} : label \notin Passing /\ label # "ok"
      /\ Passing \subseteq Working
  BY DEF Answers, Passing, Upserting, Pruning, Deleting, Working
<1>1. ASSUME NEW label, On(r, label), label \in (Answers \ {"ok"}) \cup {"gate", "owners", "policy"}
      PROVE  pc'[r] \notin Passing /\ pc'[r] # "ok"
  <2>1. pc'[r] = label
    BY <1>1 DEF On, Goto, Shape, Locals
  <2> QED BY <1>0, <1>1, <2>1
<1>2. CASE Arrive(r)
  <2>1. PICK q, label, m :
              /\ q \in Request /\ req' = [req EXCEPT ![r] = q] /\ Goes(r, label, m) /\ Keeps(r, m)
              /\ label \in {"find", "gate", "owners", "policy"}
    BY <1>2, ArriveGoes, Zenon
  <2>2. pc'[r] = label
    BY <2>1, GoesTo
  <2>3. CASE label = "find"
    <3>1. req'[r].op # "backfill"
      <4>1. PICK p \in Request :
                /\ req' = [req EXCEPT ![r] = p]
                /\ IF p.op = "upsert" THEN Goto(r, "find", [mem[r] EXCEPT !.cur = p.uuid])
                   ELSE On(r, IF p.caller # Token THEN "gate" ELSE Opened(p))
        BY <1>2 DEF Arrive
      <4>2. req'[r] = p
        BY <4>1 DEF Shape, Locals
      <4>3. CASE p.op = "upsert"
        BY <4>2, <4>3
      <4>4. CASE p.op # "upsert"
        <5>1. PICK l : l = IF p.caller # Token THEN "gate" ELSE Opened(p)
          OBVIOUS
        <5>2. On(r, l) /\ l # "find"
          BY <4>1, <4>4, <5>1 DEF Opened
        <5>3. pc'[r] = l
          BY <5>2 DEF On, Goto, Shape, Locals
        <5> QED BY <2>2, <2>3, <5>2, <5>3
      <4> QED BY <4>3, <4>4
    <3> QED BY <1>2, <2>2, <2>3, <3>1
  <2>4. CASE label # "find"
    BY <1>0, <2>1, <2>2, <2>4
  <2> QED BY <2>3, <2>4
<1> SUFFICES ASSUME ~Arrive(r), UNCHANGED req, Step(r) \/ Fail(r)
             PROVE  \/ pc'[r] \notin Passing /\ (pc'[r] = "ok" => req[r].op # "backfill")
                    \/ req[r].op = "backfill" /\ LoopsOn(r)
                    \/ WorksOn(r)
  BY <1>2 DEF Moves
<1>3. pc[r] \in Working /\ pc[r] # "idle"
  BY DEF Step, Fail, At, Working, Gate, ListOwners, OwnerRow, PutOwner, ReadPage, TagGet,
         TagPut, TagBump, Known, Find, Backing, Refresh, Create, CreateTags, Read, Policy, Candidates,
         Get, SoftDelete, Cascade
<1>4. /\ req[r] \in Request /\ mem[r] \in Memory /\ Fits(pc[r], req[r], mem[r])
  BY <1>3, AtLabel
<1>5. CASE Gate(r)
  <2>1. On(r, Opened(req[r])) \/ On(r, "forbidden")
    BY <1>5 DEF Gate
  <2>2. Opened(req[r]) \in {"owners", "policy"} /\ "forbidden" \in Answers
    BY DEF Opened, Answers
  <2>3. PICK label \in {"owners", "policy", "forbidden"} : On(r, label)
    BY <2>1, <2>2
  <2>4. pc'[r] \notin Passing /\ pc'[r] # "ok"
    BY <1>1, <2>2, <2>3
  <2> QED BY <2>4
<1>6. CASE ListOwners(r)
  <2>1. PICK m, label, n :
              /\ Goes(r, label, n) /\ Keeps(r, n) /\ ProceedsTo(m, label, n)
              /\ m \in Memory /\ m.walk = mem[r].walk /\ m.cursor = mem[r].cursor
              /\ m.todo = {a \in Owners : Live(a)}
    BY <1>6, ListOwnersGoes, Zenon
  <2>2. Advances(r, m) /\ req[r].op = "backfill"
    BY <1>4, <1>6, <2>1, AdvancesBy DEF ListOwners, At, Fits
  <2> QED BY <1>6, <2>1, <2>2, Zenon DEF LoopsOn, LoopsBy
<1>7. CASE ReadPage(r)
  <2>1. PICK m, label, n :
              /\ Goes(r, label, n) /\ Keeps(r, n) /\ ProceedsTo(m, label, n)
              /\ m \in Memory /\ m.walk = mem[r].walk /\ m.cursor = Following(r, Scan(r).class)
              /\ m.todo = LeftOf(r)
    BY <1>7, ReadPageGoes, Zenon
  <2>2. Advances(r, m) /\ req[r].op = "backfill"
    BY <1>4, <1>7, <2>1, AdvancesBy DEF ReadPage, At, Fits
  <2> QED BY <1>7, <2>1, <2>2, Zenon DEF LoopsOn, LoopsBy
<1>8. CASE OwnerRow(r)
  <2>0. pc[r] = "owner_row" /\ req[r].op = "backfill" /\ mem[r].cursor = NoCursor
    BY <1>4, <1>8 DEF OwnerRow, At, Fits
  <2>1. PICK a \in mem[r].todo :
            IF Shared(a) THEN Done(r, a) ELSE Goto(r, "owner_put", [mem[r] EXCEPT !.cur = a])
    BY <1>8 DEF OwnerRow
  <2>2. CASE Shared(a) /\ Done(r, a)
    BY <1>8, <2>0, <2>2, DoneLoops DEF DoneWith, Deleting
  <2>3. CASE ~Shared(a) /\ Goto(r, "owner_put", [mem[r] EXCEPT !.cur = a])
    <3>1. "owner_put" \in Working
      BY DEF Working
    <3> QED BY <1>8, <2>3, <3>1, GotoWorks DEF WorksOn
  <2> QED BY <2>1, <2>2, <2>3
<1>9. CASE PutOwner(r)
  <2>0. pc[r] = "owner_put" /\ req[r].op = "backfill" /\ mem[r].cursor = NoCursor /\ Done(r, mem[r].cur)
    BY <1>4, <1>9 DEF PutOwner, At, Fits
  <2> QED BY <1>9, <2>0, DoneLoops DEF DoneWith, Deleting
<1>10. CASE TagGet(r)
  <2>1. PICK a \in mem[r].todo :
            Goto(r, IF Live(a) THEN "tag_put" ELSE "notfound", [mem[r] EXCEPT !.cur = a])
    BY <1>10 DEF TagGet
  <2>2. CASE Goto(r, "tag_put", [mem[r] EXCEPT !.cur = a])
    <3>1. "tag_put" \in Working
      BY DEF Working
    <3> QED BY <1>10, <2>2, <3>1, GotoWorks DEF WorksOn
  <2>3. CASE Goto(r, "notfound", [mem[r] EXCEPT !.cur = a])
    <3>1. pc'[r] = "notfound"
      BY <2>3 DEF Goto, Shape, Locals
    <3> QED BY <1>0, <3>1 DEF Answers
  <2> QED BY <2>1, <2>2, <2>3
<1>11. CASE TagPut(r)
  <2>1. On(r, "tag_bump") /\ "tag_bump" \in Working
    BY <1>11 DEF TagPut, Working
  <2>2. /\ mem'[r].todo = mem[r].todo /\ mem'[r].walk = mem[r].walk
        /\ mem'[r].cursor = mem[r].cursor /\ mem'[r].cur = mem[r].cur /\ pc'[r] = "tag_bump"
    BY <2>1, GotoWorks
  <2> QED BY <1>11, <2>2 DEF WorksOn
<1>12. CASE TagBump(r)
  <2>0. pc[r] = "tag_bump" /\ req[r].op = "backfill" /\ mem[r].walk # 0 /\ Done(r, mem[r].cur)
    BY <1>4, <1>12 DEF TagBump, At, Fits
  <2> QED BY <1>12, <2>0, DoneLoops DEF DoneWith, Deleting
<1>13. CASE Known(r)
  <2>0. pc[r] = "known" /\ req[r].op = "backfill" /\ mem[r].walk # 0
    BY <1>4, <1>13 DEF Known, At, Fits
  <2>1. PICK u \in mem[r].todo :
            IF Listed(u) THEN Done(r, u) ELSE Goto(r, "find", [mem[r] EXCEPT !.cur = u])
    BY <1>13 DEF Known
  <2>2. CASE Listed(u) /\ Done(r, u)
    BY <1>13, <2>0, <2>2, DoneLoops DEF DoneWith, Deleting
  <2>3. CASE Goto(r, "find", [mem[r] EXCEPT !.cur = u])
    <3>1. "find" \in Working /\ Reads
      BY <1>13 DEF Working, Known
    <3> QED BY <2>0, <2>3, <3>1, GotoWorks DEF WorksOn
  <2> QED BY <2>1, <2>2, <2>3
<1>14. CASE Find(r) \/ Backing(r) \/ Refresh(r) \/ Create(r) \/ CreateTags(r)
  <2>1. PICK label \in (Upserting \ {"create"}) \cup {"create", "failed", "notfound"} :
            /\ On(r, label) /\ (label = "create" => Find(r) /\ ~Listed(mem[r].cur))
    <3>1. CASE Find(r)
      BY <3>1 DEF Find, Upserting
    <3>2. CASE Backing(r)
      BY <3>2 DEF Backing, Upserting
    <3>3. CASE Refresh(r)
      BY <3>3 DEF Refresh, Upserting
    <3>4. CASE Create(r)
      BY <3>4 DEF Create, Upserting
    <3>5. CASE CreateTags(r)
      BY <3>5 DEF CreateTags, Upserting
    <3> QED BY <1>14, <3>1, <3>2, <3>3, <3>4, <3>5
  <2>2. CASE label \in {"failed", "notfound"}
    BY <1>1, <2>1, <2>2 DEF Answers
  <2>3. CASE label \in Upserting
    <3>1. label \in Working
      BY <2>3 DEF Upserting, Working
    <3>2. /\ mem'[r].todo = mem[r].todo /\ mem'[r].walk = mem[r].walk
          /\ mem'[r].cursor = mem[r].cursor /\ mem'[r].cur = mem[r].cur /\ pc'[r] = label
      BY <2>1, <3>1, GotoWorks
    <3> QED BY <1>14, <2>1, <2>3, <3>2 DEF WorksOn
  <2> QED BY <2>2, <2>3 DEF Upserting
<1>15. CASE Read(r)
  <2>0. pc[r] = "read"
    BY <1>15 DEF Read, At
  <2>1. CASE On(r, "notfound")
    BY <1>1, <2>1 DEF Answers
  <2>2. CASE req[r].op = "upsert" /\ On(r, "ok")
    <3>1. pc'[r] = "ok"
      BY <2>2 DEF On, Goto, Shape, Locals
    <3> QED BY <1>0, <2>2, <3>1 DEF Answers
  <2>3. CASE Listed(mem[r].cur) /\ req[r].op # "upsert" /\ Done(r, mem[r].cur)
    <3>1. req[r].op = "backfill" /\ mem[r].walk # 0
      BY <1>4, <2>0, <2>3 DEF Fits
    <3> QED BY <1>15, <2>0, <2>3, <3>1, DoneLoops DEF DoneWith, Deleting
  <2> QED BY <1>15, <2>1, <2>2, <2>3 DEF Read
<1>16. CASE Policy(r)
  <2>1. PICK label, m, p, enabled :
              /\ Goes(r, label, m) /\ Keeps(r, m)
              /\ p \in Policies \cup {NoPolicy} /\ enabled \in BOOLEAN
              /\ label \in {"forbidden", "candidates", "handed_over"}
              /\ label = "candidates" => /\ req[r].op = "prune"
                                         /\ req[r].dry \/ (enabled /\ Cleared(p, req[r]))
              /\ m.cutoff = Now - req[r].days /\ (~req[r].dry => m.policy = p)
              /\ m.found = {} /\ m.cursor = NoCursor
    BY <1>16, PolicyGoes, Zenon
  <2>2. pc'[r] = label
    BY <2>1, GoesTo
  <2> QED BY <1>0, <2>1, <2>2 DEF Answers, Pruning
<1>17. CASE Candidates(r)
  <2>0. pc[r] = "candidates" /\ req[r].op = "prune"
    BY <1>4, <1>17 DEF Candidates, At, Fits
  <2>1. PICK label, m : Goes(r, label, m) /\ WalksTo(r, label, m)
    BY <1>17, CandidatesGoes, Zenon
  <2>2. pc'[r] \in {"candidates", "get", "ok"}
    BY <2>0, <2>1, WalkKeeps
  <2> QED BY <1>0, <2>0, <2>2 DEF Answers, Pruning, Deleting
<1>18. CASE pc[r] \in Deleting
  <2>1. pc'[r] \in Deleting \cup {"ok"} /\ req[r].op = "prune"
    BY <1>4, <1>18, DeletesOn DEF Fits, Moves
  <2> QED BY <1>0, <2>1 DEF Answers, Pruning
<1>19. CASE Fail(r) /\ pc[r] \notin Deleting
  <2>1. PICK label, m : /\ Goes(r, label, m) /\ Keeps(r, m)
                        /\ \/ label = "failed"
                           \/ /\ pc[r] = "known" /\ label = "find"
                              /\ m.todo = mem[r].todo /\ m.walk = mem[r].walk
                              /\ m.cursor = mem[r].cursor /\ m.cur \in mem[r].todo
    BY <1>19, FailGoes, Zenon
  <2>2. pc'[r] = label /\ (label \notin Answers => mem'[r] = m)
    BY <2>1, GoesTo
  <2>3. CASE label = "failed"
    BY <1>0, <2>2, <2>3 DEF Answers
  <2>4. CASE label = "find"
    <3>1. Reads /\ label \notin Answers
      BY <1>19, <2>4 DEF Fail, Answers
    <3> QED BY <2>1, <2>2, <2>4, <3>1 DEF WorksOn
  <2> QED BY <2>1, <2>3, <2>4
<1>20. CASE Get(r) \/ SoftDelete(r) \/ Cascade(r)
  BY <1>18, <1>20 DEF Get, SoftDelete, Cascade, At, Deleting
<1> QED BY <1>5, <1>6, <1>7, <1>8, <1>9, <1>10, <1>11, <1>12, <1>13, <1>14, <1>15, <1>16, <1>17,
           <1>18, <1>19, <1>20 DEF Step
-----------------------------------------------------------------------------
(* A re-run adds nothing twice.                                              *)

LEMMA ExistingMeans ==
    ASSUME NEW a \in Assets
    PROVE  /\ <<"role", a>> \in Existing <=> Ruled(a)
           /\ <<"access", a>> \in Existing <=> Shared(a)
           /\ <<"entry", a>> \in Existing <=> Listed(a)
<1>1. PICK R, S, T : /\ R = {b \in Assets : Ruled(b)} /\ S = {b \in Assets : Shared(b)}
                     /\ T = {b \in Assets : Listed(b)}
  OBVIOUS
<1>2. Existing = {<<"role", b>> : b \in R} \cup {<<"access", b>> : b \in S}
                 \cup {<<"entry", b>> : b \in T}
  BY <1>1, Zenon DEF Existing
<1>3. (a \in R <=> Ruled(a)) /\ (a \in S <=> Shared(a)) /\ (a \in T <=> Listed(a))
  BY <1>1
<1> QED BY <1>2, <1>3

\* What a pass found absent it has not seen there since it began.
Untouched(r) ==
    /\ had[r] \subseteq Existing
    /\ pc[r] = "owner_put" => <<"access", mem[r].cur>> \notin had[r]
    /\ pc[r] \in {"tag_get", "tag_put", "tag_bump"} =>
          \A a \in mem[r].todo : <<"role", a>> \notin had[r]
    /\ pc[r] = "create" => <<"entry", mem[r].cur>> \notin had[r]

UntouchedInv == \A r \in Requests : Untouched(r)

LEMMA HadMoves ==
    ASSUME NEW who, Observe(who), NEW q \in Requests
    PROVE  /\ Starts(q) => had'[q] = Existing
           /\ ~Starts(q) => had'[q] \subseteq had[q] /\ had'[q] \subseteq Existing'
<1>1. had'[q] = IF Starts(q) THEN Existing
                ELSE IF pc'[q] \in Working THEN had[q] \cap Existing' ELSE {}
  BY Zenon DEF Observe
<1> QED BY <1>1

LEMMA WorkingOn ==
    ASSUME NEW r \in Requests, LoopsOn(r) \/ WorksOn(r)
    PROVE  pc[r] \in Passing \cup {"owners"} /\ pc[r] # "idle"
<1>1. CASE LoopsOn(r)
  <2>1. \/ ListOwners(r) \/ ReadPage(r) \/ OwnerRow(r) \/ PutOwner(r) \/ TagBump(r) \/ Known(r)
        \/ Read(r)
    BY <1>1 DEF LoopsOn, LoopsBy, DoneWith
  <2> QED BY <2>1 DEF Passing, Upserting, ListOwners, ReadPage, OwnerRow, PutOwner, TagBump, Known,
                      Read, At
<1>2. CASE WorksOn(r)
  BY <1>2 DEF WorksOn, Passing, Upserting, OwnerRow, TagGet, TagPut, Find, Backing, Refresh, Create,
              CreateTags, At
<1> QED BY <1>1, <1>2

LEMMA UntouchedStep == Shape /\ UntouchedInv /\ [Next]_vars => UntouchedInv'
<1> SUFFICES ASSUME Shape, UntouchedInv, [Next]_vars PROVE UntouchedInv'
  OBVIOUS
<1>1. ASSUME NEW who, Observe(who), NEW q \in Requests, pc'[q] = pc[q], mem'[q] = mem[q]
      PROVE  Untouched(q)'
  <2>1. ~Starts(q)
    BY <1>1 DEF Starts
  <2>2. had'[q] \subseteq had[q] /\ had'[q] \subseteq Existing'
    BY <1>1, <2>1, HadMoves
  <2>3. Untouched(q)
    BY DEF UntouchedInv
  <2> QED BY <1>1, <2>2, <2>3 DEF Untouched
<1>2. ASSUME NEW r \in Requests, Moves(r), UNCHANGED edits, Observe(r)
      PROVE  UntouchedInv'
  <2>1. \A x \in Requests \ {r} : pc'[x] = pc[x] /\ mem'[x] = mem[x]
    <3>1. PICK label, m : Goes(r, label, m)
      BY <1>2, MovesGo
    <3> QED BY <3>1, GoesTo
  <2>2. \A q \in Requests \ {r} : Untouched(q)'
    BY <1>1, <1>2, <2>1
  <2>3. Untouched(r)
    BY DEF UntouchedInv
  <2>4. had'[r] \subseteq Existing'
    <3>1. CASE Starts(r)
      <4>1. Arrive(r)
        BY <1>2, <3>1 DEF Starts, Moves, Step, Fail, At, Working, Gate, ListOwners, OwnerRow, PutOwner,
               ReadPage, TagGet, TagPut, TagBump, Known, Find, Backing, Refresh, Create, CreateTags,
               Read, Policy, Candidates, Get, SoftDelete, Cascade
      <4>2. UNCHANGED <<roles, access, entries>>
        BY <4>1, Zenon DEF Arrive, Reads, tables
      <4>3. Existing' = Existing
        BY <4>2 DEF Existing, Ruled, RolesOf, Shared, Listed
      <4> QED BY <1>2, <3>1, <4>3, HadMoves
    <3>2. CASE ~Starts(r)
      BY <1>2, <3>2, HadMoves
    <3> QED BY <3>1, <3>2
  <2>5. SUFFICES Untouched(r)'
    BY <2>2 DEF UntouchedInv
  <2>6. CASE pc'[r] \notin Passing
    BY <2>4, <2>6 DEF Untouched, Passing, Upserting
  <2>7. CASE pc'[r] = "find"
    BY <2>4, <2>7 DEF Untouched
  <2>8. ASSUME LoopsOn(r) \/ WorksOn(r)
        PROVE  /\ had'[r] \subseteq had[r] /\ pc[r] # "idle"
               /\ req[r] \in Request /\ mem[r] \in Memory /\ Fits(pc[r], req[r], mem[r])
               /\ pc[r] \notin Deleting
    <3>1. ~Starts(r) /\ pc[r] # "idle" /\ pc[r] \notin Deleting
      BY <2>8, WorkingOn DEF Starts, Passing, Upserting, Deleting
    <3> QED BY <1>2, <3>1, HadMoves, AtLabel
  <2>9. CASE req[r].op = "backfill" /\ LoopsOn(r)
    <3>1. PICK m :
             /\ Advances(r, m) /\ m.walk = mem[r].walk
             /\ \/ /\ ListOwners(r) /\ m.cursor = mem[r].cursor /\ m.todo = {a \in Owners : Live(a)}
                \/ ReadPage(r) /\ m.cursor = Following(r, Scan(r).class) /\ m.todo = LeftOf(r)
                \/ \E a : DoneWith(r, a) /\ m.cursor = mem[r].cursor /\ m.todo = mem[r].todo \ {a}
      BY <2>9, Zenon DEF LoopsOn, LoopsBy
    <3>2. PICK label, n : ProceedsTo(m, label, n) /\ pc'[r] = label /\ (label # "ok" => mem'[r] = n)
      BY <3>1 DEF Advances
    <3>3. /\ Fits(pc[r], req[r], mem[r]) /\ had'[r] \subseteq had[r] /\ mem[r] \in Memory
      BY <2>8, <2>9
    <3>4. Begin(m.walk) = IF m.walk = 0 THEN "owner_row"
                          ELSE IF m.walk \in {1, 2} THEN "tag_get" ELSE "known"
      BY <3>1, BeginOf DEF Advances, Memory
    <3>5. label \in {"owner_row", "known", "page", "ok"} \/
             (label = "tag_get" /\ m.walk \in {1, 2} /\ n = m)
      BY <3>2, <3>4 DEF ProceedsTo
    <3>6. CASE label \in {"owner_row", "known", "page", "ok"}
      BY <2>4, <3>2, <3>6 DEF Untouched
    <3>7. CASE label = "tag_get" /\ m.walk \in {1, 2} /\ n = m
      <4>1. \A a \in m.todo : <<"role", a>> \notin had[r]
        <5>1. CASE ListOwners(r)
          BY <3>1, <3>3, <3>7, <5>1 DEF ListOwners, At, Fits
        <5>2. CASE ReadPage(r) /\ m.todo = LeftOf(r)
          <6>1. Scan(r).job = "roles"
            BY <3>1, <3>7 DEF Scan, Scans
          <6>2. m.todo = Unruled(Page(r, Scan(r).class))
            BY <5>2, <6>1 DEF LeftOf
          <6>3. \A a \in m.todo : a \in Assets /\ ~Ruled(a)
            <7>1. Page(r, Scan(r).class) \subseteq Rows(Scan(r).class)
              BY PageFacts
            <7>2. \A x \in Rows(Scan(r).class) : x.id \in Assets
              BY RowFacts DEF Shape
            <7> QED BY <6>2, <7>1, <7>2 DEF Unruled, Ids
          <6> QED BY <2>3, <6>3, ExistingMeans DEF Untouched
        <5>3. CASE \E a : DoneWith(r, a) /\ m.todo = mem[r].todo \ {a}
          <6>1. PICK a : DoneWith(r, a) /\ m.todo = mem[r].todo \ {a}
            BY <5>3
          <6>2. pc[r] \in {"owner_row", "owner_put", "tag_bump", "known", "read"}
            BY <6>1 DEF DoneWith, OwnerRow, PutOwner, TagBump, Known, Read, At
          <6>3. pc[r] = "tag_bump"
            BY <2>9, <3>1, <3>3, <3>7, <6>2 DEF Fits
          <6> QED BY <2>3, <6>1, <6>3 DEF Untouched
        <5> QED BY <3>1, <5>1, <5>2, <5>3
      <4> QED BY <2>4, <3>2, <3>3, <3>7, <4>1 DEF Untouched
    <3> QED BY <3>5, <3>6, <3>7
  <2>10. CASE WorksOn(r)
    <3>1. /\ had'[r] \subseteq had[r] /\ mem[r] \in Memory
          /\ mem'[r].todo = mem[r].todo
      BY <2>8, <2>10 DEF WorksOn
    <3>2. mem'[r] \in Memory
      <4>1. PICK l, m : Goes(r, l, m)
        BY <1>2, MovesGo
      <4> QED BY <4>1, GoesTo DEF Sound
    <3>3. CASE pc'[r] = "owner_put" /\ ~Shared(mem'[r].cur)
      <4>1. PICK a \in Assets : a = mem'[r].cur
        BY <3>2 DEF Memory
      <4>2. <<"access", a>> \notin had[r]
        BY <2>3, <3>3, <4>1, ExistingMeans DEF Untouched
      <4> QED BY <2>4, <3>1, <3>3, <4>1, <4>2 DEF Untouched
    <3>4. CASE TagGet(r) /\ pc'[r] = "tag_put"
      BY <2>3, <2>4, <3>1, <3>4 DEF Untouched, TagGet, At
    <3>5. CASE TagPut(r) /\ pc'[r] = "tag_bump"
      BY <2>3, <2>4, <3>1, <3>5 DEF Untouched, TagPut, At
    <3>6. CASE pc'[r] = "create" /\ ~Listed(mem[r].cur) /\ mem'[r].cur = mem[r].cur
      <4>1. PICK a \in Assets : a = mem'[r].cur
        BY <3>2 DEF Memory
      <4>2. <<"entry", a>> \notin had[r]
        BY <2>3, <3>6, <4>1, ExistingMeans DEF Untouched
      <4> QED BY <2>4, <3>1, <3>6, <4>1, <4>2 DEF Untouched
    <3>7. CASE pc'[r] \in Upserting \ {"create"}
      BY <2>4, <3>7 DEF Untouched, Upserting
    <3> QED BY <2>7, <2>10, <3>3, <3>4, <3>5, <3>6, <3>7 DEF WorksOn
  <2> QED BY <1>2, <2>6, <2>7, <2>9, <2>10, PassSteps, Zenon
<1>3. CASE Edit /\ Observe(Client)
  <2>1. UNCHANGED <<pc, mem>>
    BY <1>3, Zenon DEF Edit
  <2> QED BY <1>1, <1>3, <2>1 DEF UntouchedInv
<1>4. CASE UNCHANGED vars
  <2>1. UNCHANGED <<roles, access, entries, pc, mem, had>>
    BY <1>4, Zenon DEF vars, tables, history
  <2>2. Existing' = Existing
    BY <2>1 DEF Existing, Ruled, RolesOf, Shared, Listed
  <2> QED BY <2>1, <2>2 DEF UntouchedInv, Untouched
<1> QED BY <1>2, <1>3, <1>4, NextMoves

\* Who writes a role tag, a has_access row and a directory entry.
LEMMA WhoAdds ==
    ASSUME Shape, [Next]_vars, NEW r \in Requests
    PROVE  /\ \A t \in roles' \ roles : t.by = r => pc[r] = "tag_put" /\ t.asset = mem[r].cur
           /\ \A x \in access' \ access : x.by = r => pc[r] = "owner_put" /\ x.asset = mem[r].cur
           /\ \A e \in entries' \ entries :
                 e.by = r /\ ~e.found => pc[r] = "create" /\ e.uuid = mem[r].cur
<1>1. ASSUME NEW q \in Requests, Moves(q)
      PROVE  /\ \A t \in roles' \ roles : t.by = r => pc[r] = "tag_put" /\ t.asset = mem[r].cur
             /\ \A x \in access' \ access : x.by = r => pc[r] = "owner_put" /\ x.asset = mem[r].cur
             /\ \A e \in entries' \ entries :
                   e.by = r /\ ~e.found => pc[r] = "create" /\ e.uuid = mem[r].cur
  <2>1. CASE UNCHANGED <<roles, access, entries>>
    BY <2>1
  <2>2. UNCHANGED tables => UNCHANGED <<roles, access, entries>>
    BY Zenon DEF tables
  <2>3. CASE PutOwner(q)
    <3>1. /\ pc[q] = "owner_put" /\ access' = access \cup {[asset |-> mem[q].cur, by |-> q]}
          /\ UNCHANGED <<roles, entries>>
      BY <2>3, Zenon DEF PutOwner, At
    <3> QED BY <3>1
  <2>4. CASE TagPut(q)
    <3>1. /\ pc[q] = "tag_put"
          /\ roles' = roles \cup {[asset |-> mem[q].cur, by |-> q, value |-> Scan(q).class]}
          /\ UNCHANGED <<access, entries>>
      BY <2>4, Zenon DEF TagPut, At
    <3> QED BY <3>1
  <2>5. CASE TagBump(q) \/ SoftDelete(q)
    <3>1. UNCHANGED <<roles, access, entries>>
      BY <2>5, Zenon DEF TagBump, SoftDelete
    <3> QED BY <2>1, <3>1
  <2>6. CASE Create(q)
    <3>1. /\ pc[q] = "create"
          /\ entries' = entries \cup {[uuid |-> mem[q].cur, by |-> q, found |-> FALSE]}
          /\ UNCHANGED <<roles, access>>
      BY <2>6, Zenon DEF Create, At
    <3> QED BY <3>1
  <2>7. CASE CreateTags(q)
    <3>1. /\ entries' = {[e EXCEPT !.found = @ \/ (e.uuid = mem[q].cur /\ e.by = q)] : e \in entries}
          /\ UNCHANGED <<roles, access>>
      BY <2>7, Zenon DEF CreateTags
    <3>2. ASSUME NEW d \in entries', ~d.found PROVE d \in entries
      <4>1. PICK e \in entries : d = [e EXCEPT !.found = e.found \/ (e.uuid = mem[q].cur /\ e.by = q)]
        BY <3>1
      <4>2. e \in DirectoryEntry
        BY DEF Shape, Tables
      <4>3. d.found = (e.found \/ (e.uuid = mem[q].cur /\ e.by = q))
        BY <4>1, <4>2 DEF DirectoryEntry
      <4>4. e.found = FALSE /\ (e.found \/ (e.uuid = mem[q].cur /\ e.by = q)) = FALSE
        BY <3>2, <4>2, <4>3 DEF DirectoryEntry
      <4>5. PICK f : f = (e.found \/ (e.uuid = mem[q].cur /\ e.by = q))
        OBVIOUS
      <4>6. d = [e EXCEPT !.found = f] /\ f = e.found
        BY <4>1, <4>4, <4>5
      <4> QED BY <4>2, <4>6 DEF DirectoryEntry
    <3> QED BY <3>1, <3>2
  <2>8. CASE Cascade(q)
    <3>1. access' = {x \in access : x.asset # mem[q].cur} /\ UNCHANGED <<roles, entries>>
      BY <2>8, Zenon DEF Cascade
    <3> QED BY <3>1
  <2> QED BY <1>1, <2>1, <2>2, <2>3, <2>4, <2>5, <2>6, <2>7, <2>8, TableMoves
<1>2. CASE Edit
  <2>1. PICK a \in Assets :
            \/ UNCHANGED <<roles, access, entries>>
            \/ /\ access' = {x \in access : x.asset # a} /\ UNCHANGED <<roles, entries>>
            \/ /\ roles' = roles \cup {[asset |-> a, by |-> Client, value |-> "admin"]}
               /\ UNCHANGED <<access, entries>>
            \/ /\ access' = access \cup {[asset |-> a, by |-> Client]} /\ UNCHANGED <<roles, entries>>
            \/ /\ \E e \in entries : entries' = entries \ {e} /\ UNCHANGED <<roles, access>>
    BY <1>2, Zenon DEF Edit
  <2>2. r # Client
    BY MaintenanceAssumption
  <2> QED BY <2>1, <2>2
<1>3. CASE UNCHANGED vars
  BY <1>3, Zenon DEF vars, tables
<1> QED BY <1>1, <1>2, <1>3, NextMoves

LEMMA AddsOnce ==
    ASSUME Shape, UntouchedInv, [Next]_vars, NEW r \in Requests
    PROVE  /\ \A t \in roles' \ roles : t.by = r => <<"role", t.asset>> \notin had[r]
           /\ \A x \in access' \ access : x.by = r => <<"access", x.asset>> \notin had[r]
           /\ \A e \in entries' \ entries :
                 e.by = r /\ ~e.found => <<"entry", e.uuid>> \notin had[r]
<1>1. Untouched(r)
  BY DEF UntouchedInv
<1>2. pc[r] = "tag_put" => mem[r].cur \in mem[r].todo
  BY SoundNow DEF Sound, Fits
<1> QED BY <1>1, <1>2, WhoAdds DEF Untouched

LEMMA InitUntouched == Init => UntouchedInv
<1> SUFFICES ASSUME Init, NEW r \in Requests PROVE Untouched(r)
  BY DEF UntouchedInv
<1>1. pc[r] = "idle" /\ had[r] = {}
  BY DEF Init
<1> QED BY <1>1 DEF Untouched

LEMMA Reruns == Spec => [](Shape /\ UntouchedInv)
<1>1. Shape /\ UntouchedInv /\ [Next]_vars => (Shape /\ UntouchedInv)'
  BY ShapeStep, UntouchedStep
<1> QED BY InitShape, InitUntouched, <1>1, PTL DEF Spec

\* A backfill that is run again, beside clients and other backfills, stores no role
\* tag, owner row or directory entry for what has had one since it began.
THEOREM RerunsStayClean == Spec => RerunsAreClean
<1>1. Shape /\ UntouchedInv /\ [Next]_vars =>
          [\A r \in Requests :
              /\ \A t \in roles' \ roles : t.by = r => <<"role", t.asset>> \notin had[r]
              /\ \A x \in access' \ access : x.by = r => <<"access", x.asset>> \notin had[r]
              /\ \A e \in entries' \ entries :
                    e.by = r /\ ~e.found => <<"entry", e.uuid>> \notin had[r]]_vars
  BY AddsOnce, Zenon
<1> QED BY Reruns, <1>1, PTL DEF Spec, RerunsAreClean
-----------------------------------------------------------------------------
(* A backfill that answers has reached everyone.                             *)

Served(a, w) == IF Scans[w].job = "roles" THEN Ruled(a) ELSE Listed(a)

\* Principal a of a backfill with memory m: its owner row is there or to come, the
\* scans behind have served it, and the one at work has it done, in hand or ahead;
\* a fresh scan has read no page yet.
ReachedBy(a, m, fresh) ==
    /\ a \in Owners => Shared(a) \/ (m.walk = 0 /\ a \in m.todo)
    /\ \A w \in 1..4 : Kind(a) = Scans[w].class =>
          /\ m.walk > w => Served(a, w)
          /\ m.walk = w /\ ~fresh => \/ Served(a, w) \/ a \in m.todo
                                     \/ m.cursor # NoCursor /\ Newer(m.cursor, RowOf(a))

Fresh(r) == pc[r] = "page" /\ mem[r].cursor = NoCursor

Reaching(r) ==
    req[r].op = "backfill" /\ pc[r] \in Passing =>
        /\ \A a \in steady[r] : ReachedBy(a, mem[r], Fresh(r))
        /\ pc[r] = "tag_bump" => Ruled(mem[r].cur)

ReachingInv == \A r \in Requests : Reaching(r)

LEMMA ScansOf ==
    /\ \A w \in 1..4 : /\ Scans[w].class \in Classes
                       /\ Scans[w].job = "roles" <=> w \in {1, 2}
    /\ Scans[1].class = "agent" /\ Scans[2].class = "user"
    /\ Scans[3].class = "user" /\ Scans[4].class = "agent"
BY DEF Scans, Classes

\* What a step leaves of a principal's tags, owner row and entry.
Lasts(a) == (Shared(a) => Shared(a)') /\ (Ruled(a) => Ruled(a)') /\ (Listed(a) => Listed(a)')

LEMMA ReachedLasts ==
    ASSUME NEW a, NEW m, NEW fresh, Lasts(a), at'[a] = at[a], ReachedBy(a, m, fresh)
    PROVE  ReachedBy(a, m, fresh)'
BY DEF Lasts, ReachedBy, Served, RowOf

LEMMA RulesLast ==
    ASSUME roles \subseteq roles', NEW a
    PROVE  Ruled(a) => Ruled(a)'
BY DEF Ruled, RolesOf

LEMMA MovesLast ==
    ASSUME Shape, GoneInv, NEW r \in Requests, Moves(r), UNCHANGED edits, NEW a, Live(a)
    PROVE  Lasts(a)
<1>1. Ruled(a) => Ruled(a)'
  BY TablesStep, RulesLast
<1>2. CASE UNCHANGED <<access, entries>>
  BY <1>1, <1>2 DEF Lasts, Shared, Listed
<1>3. UNCHANGED tables => UNCHANGED <<access, entries>>
  BY Zenon DEF tables
<1>4. TagPut(r) \/ TagBump(r) \/ SoftDelete(r) => UNCHANGED <<access, entries>>
  BY Zenon DEF TagPut, TagBump, SoftDelete
<1>5. CASE PutOwner(r)
  <2>1. access' = access \cup {[asset |-> mem[r].cur, by |-> r]} /\ UNCHANGED entries
    BY <1>5, Zenon DEF PutOwner
  <2> QED BY <1>1, <2>1 DEF Lasts, Shared, Listed
<1>6. CASE Create(r)
  <2>1. /\ entries' = entries \cup {[uuid |-> mem[r].cur, by |-> r, found |-> FALSE]}
        /\ UNCHANGED access
    BY <1>6, Zenon DEF Create
  <2> QED BY <1>1, <2>1 DEF Lasts, Shared, Listed
<1>7. CASE CreateTags(r)
  <2>1. /\ entries' = {[e EXCEPT !.found = @ \/ (e.uuid = mem[r].cur /\ e.by = r)] : e \in entries}
        /\ UNCHANGED access
    BY <1>7, Zenon DEF CreateTags
  <2>2. ASSUME NEW e \in entries, e.uuid = a, e.found PROVE Listed(a)'
    <3>1. e \in DirectoryEntry
      BY DEF Shape, Tables
    <3>2. PICK d : d = [e EXCEPT !.found = e.found \/ (e.uuid = mem[r].cur /\ e.by = r)]
      OBVIOUS
    <3>3. d \in entries'
      BY <2>1, <3>2
    <3>4. d.uuid = a /\ d.found = (e.found \/ (e.uuid = mem[r].cur /\ e.by = r))
      BY <2>2, <3>1, <3>2 DEF DirectoryEntry
    <3>5. d.found
      BY <2>2, <3>4
    <3> QED BY <3>3, <3>4, <3>5 DEF Listed
  <2> QED BY <1>1, <2>1, <2>2 DEF Lasts, Shared, Listed
<1>8. CASE Cascade(r)
  <2>1. /\ access' = {x \in access : x.asset # mem[r].cur} /\ UNCHANGED entries
        /\ pc[r] = "cascade"
    BY <1>8, Zenon DEF Cascade, At
  <2>2. ~Live(mem[r].cur)
    BY <2>1 DEF GoneInv, Removals
  <2> QED BY <1>1, <2>1, <2>2 DEF Lasts, Shared, Listed
<1> QED BY <1>2, <1>3, <1>4, <1>5, <1>6, <1>7, <1>8, TableMoves

LEMMA EditLasts ==
    ASSUME Shape, Edit, NEW a \in Assets, Live(a), Unwritten(a)
    PROVE  Lasts(a)
<1>1. Ruled(a) => Ruled(a)'
  BY EditTables, RulesLast
<1>2. Listed(a) => Listed(a)'
  <2>1. <<"entry", a>> \in Existing <=> Listed(a)
    BY ExistingMeans
  <2>2. <<"entry", a>> \in Existing' => Listed(a)'
    <3>1. ASSUME <<"entry", a>> \in Existing' PROVE Listed(a)'
      <4>1. PICK R, S, T : /\ R = {b \in Assets : Ruled(b)'} /\ S = {b \in Assets : Shared(b)'}
                           /\ T = {b \in Assets : Listed(b)'}
        OBVIOUS
      <4>2. Existing' = {<<"role", b>> : b \in R} \cup {<<"access", b>> : b \in S}
                        \cup {<<"entry", b>> : b \in T}
        BY <4>1, Zenon DEF Existing
      <4>3. a \in T
        BY <3>1, <4>2
      <4> QED BY <4>1, <4>3
    <3> QED BY <3>1
  <2> QED BY <2>1, <2>2 DEF Unwritten
<1>3. Shared(a) => Shared(a)'
  <2>1. \/ access' = access
        \/ \E b \in Assets : row' = [row EXCEPT ![b] = "deleted"] /\ access' = {x \in access : x.asset # b}
        \/ \E b \in Assets : access' = access \cup {[asset |-> b, by |-> Client]}
    BY Zenon DEF Edit
  <2>2. ASSUME NEW b \in Assets, row' = [row EXCEPT ![b] = "deleted"],
               access' = {x \in access : x.asset # b}
        PROVE  Shared(a) => Shared(a)'
    <3>1. b # a
      BY <2>2 DEF Unwritten, Live, Shape, Tables
    <3> QED BY <2>2, <3>1 DEF Shared
  <2> QED BY <2>1, <2>2 DEF Shared
<1> QED BY <1>1, <1>2, <1>3 DEF Lasts

\* What has been reached before Proceed has been reached after it.
LEMMA Proceeding ==
    ASSUME NEW a, NEW m \in Memory, NEW label, NEW n, ProceedsTo(m, label, n),
           ReachedBy(a, m, FALSE)'
    PROVE  /\ label # "ok" => ReachedBy(a, n, label = "page" /\ n.cursor = NoCursor)'
           /\ label = "ok" => /\ a \in Owners => Shared(a)'
                              /\ \A w \in 1..4 : Kind(a) = Scans[w].class => Served(a, w)'
           /\ label \notin {"tag_bump"}
<1>1. m.walk \in 0..4
  BY DEF Memory
<1>2. Begin(m.walk) \in {"owner_row", "tag_get", "known"}
  BY <1>1, BeginOf
<1>3. CASE m.todo # {} /\ label = Begin(m.walk) /\ n = m
  BY <1>2, <1>3 DEF ReachedBy
<1>4. CASE m.todo = {} /\ m.cursor # NoCursor /\ label = "page" /\ n = m
  BY <1>4 DEF ReachedBy
<1>5. CASE /\ m.todo = {} /\ m.cursor = NoCursor /\ m.walk < 4
           /\ label = "page" /\ n = [m EXCEPT !.walk = @ + 1]
  <2>1. n.walk = m.walk + 1 /\ n.cursor = NoCursor /\ n.todo = {}
    BY <1>5 DEF Memory
  <2>2. \A w \in 1..4 : n.walk > w => m.walk > w \/ m.walk = w
    BY <1>1, <2>1
  <2> QED BY <1>5, <2>1, <2>2 DEF ReachedBy
<1>6. CASE m.todo = {} /\ m.cursor = NoCursor /\ ~(m.walk < 4) /\ label = "ok" /\ n = m
  <2>1. \A w \in 1..4 : m.walk > w \/ m.walk = w
    BY <1>1, <1>6
  <2> QED BY <1>6, <2>1 DEF ReachedBy
<1> QED BY <1>3, <1>4, <1>5, <1>6 DEF ProceedsTo

LEMMA LoopReaches ==
    ASSUME Shape, GoneInv, SteadyInv, NEW r \in Requests, Reaching(r), Moves(r), UNCHANGED edits,
           req[r].op = "backfill", NEW m, LoopsBy(r, m), NEW a \in steady[r]
    PROVE  ReachedBy(a, m, FALSE)'
<1>0. pc[r] \in Passing \cup {"owners"} /\ pc[r] # "idle" /\ m \in Memory
  BY WorkingOn DEF LoopsOn, LoopsBy, Advances
<1>1. /\ mem[r] \in Memory /\ Fits(pc[r], req[r], mem[r]) /\ m.walk = mem[r].walk
      /\ mem[r].walk \in 0..4
  BY <1>0, AtLabel DEF LoopsBy, Memory
<1>2. a \in Assets /\ Live(a)
  BY <1>0 DEF Shape, History, SteadyInv, Passing, Upserting, Working, Deleting
<1>3. Lasts(a)
  BY <1>2, MovesLast
<1>4. CASE ListOwners(r) /\ m.todo = {b \in Owners : Live(b)}
  <2>1. m.walk = 0
    BY <1>1, <1>4 DEF ListOwners, At, Fits
  <2> QED BY <1>2, <1>4, <2>1 DEF ReachedBy
<1>5. CASE ReadPage(r) /\ m.cursor = Following(r, Scan(r).class) /\ m.todo = LeftOf(r)
  <2> DEFINE page == Page(r, Scan(r).class)
             next == Following(r, Scan(r).class)
             rest == Behind(Rows(Scan(r).class), mem[r].cursor)
  <2>1. pc[r] = "page" /\ mem[r].todo = {} /\ mem[r].walk \in 1..4
    BY <1>1, <1>5 DEF ReadPage, At, Fits
  <2>2. ReachedBy(a, mem[r], Fresh(r)) /\ UNCHANGED at
    <3>1. UNCHANGED at
      BY <1>5, Zenon DEF ReadPage, Reads, tables
    <3> QED BY <2>1, <3>1 DEF Reaching, Passing
  <2>3. ASSUME Kind(a) = Scans[mem[r].walk].class
        PROVE  \/ Served(a, mem[r].walk) \/ a \in m.todo
               \/ m.cursor # NoCursor /\ Newer(m.cursor, RowOf(a))
    <3>1. RowOf(a) \in Rows(Scan(r).class)
      BY <1>2, <2>3, RowFacts DEF RowOf, Shape, Scan
    <3>2. CASE Served(a, mem[r].walk)
      BY <3>2
    <3>3. CASE ~Served(a, mem[r].walk)
      <4>1. mem[r].cursor = NoCursor \/ Newer(mem[r].cursor, RowOf(a))
        BY <2>1, <2>2, <2>3, <3>3 DEF ReachedBy, Fresh
      <4>2. RowOf(a) \in rest
        BY <3>1, <4>1 DEF Behind
      <4>3. /\ next = NoCursor => page = rest
            /\ next # NoCursor => \A x \in rest : x \in page <=> ~Newer(next, x)
        BY PageFacts
      <4> HIDE DEF rest, next, page
      <4>4. RowOf(a) \in page \/ (next # NoCursor /\ Newer(next, RowOf(a)))
        BY <4>2, <4>3
      <4>5. CASE RowOf(a) \in page
        <5>1. a \in Ids(page)
          BY <4>5 DEF RowOf, Ids
        <5>2. Scan(r).job = "roles" => ~Ruled(a)
          BY <3>3 DEF Served, Scan
        <5>3. a \in LeftOf(r)
          BY <5>1, <5>2 DEF LeftOf, Unruled, page
        <5> QED BY <1>5, <5>3
      <4> QED BY <1>5, <4>4, <4>5 DEF next
    <3> QED BY <3>2, <3>3
  <2>4. ReachedBy(a, m, FALSE)
    BY <1>1, <2>1, <2>2, <2>3 DEF ReachedBy
  <2> QED BY <1>3, <2>2, <2>4, ReachedLasts
<1>6. ASSUME NEW b, DoneWith(r, b), m.cursor = mem[r].cursor, m.todo = mem[r].todo \ {b}
      PROVE  ReachedBy(a, m, FALSE)'
  <2>1. pc[r] \in {"owner_row", "owner_put", "tag_bump", "known", "read"}
    BY <1>6 DEF DoneWith, OwnerRow, PutOwner, TagBump, Known, Read, At
  <2>2. /\ ReachedBy(a, mem[r], FALSE) /\ (pc[r] = "tag_bump" => Ruled(mem[r].cur))
    <3>1. pc[r] \in Passing /\ Fresh(r) = FALSE
      BY <2>1 DEF Passing, Upserting, Fresh
    <3> QED BY <3>1 DEF Reaching
  <2>3. CASE a # b
    <3>1. at'[a] = at[a]
      <4>1. CASE OwnerRow(r) \/ PutOwner(r) \/ Known(r) \/ Read(r)
        <5>1. UNCHANGED at
          BY <4>1, Zenon DEF OwnerRow, PutOwner, Known, Read, Reads, tables
        <5> QED BY <5>1
      <4>2. CASE TagBump(r) /\ b = mem[r].cur
        <5>1. PICK t \in Stamps : at' = [at EXCEPT ![b] = t]
          BY <4>2, Zenon DEF TagBump
        <5> QED BY <1>2, <2>3, <5>1 DEF Shape, Tables
      <4> QED BY <1>6, <4>1, <4>2 DEF DoneWith
    <3> QED BY <1>1, <1>3, <1>6, <2>2, <2>3, <3>1 DEF Lasts, ReachedBy, Served, RowOf
  <2>4. CASE a = b
    <3>1. a \in Owners => Shared(a)'
      <4>1. CASE OwnerRow(r) /\ Shared(b)
        BY <1>3, <2>4, <4>1 DEF Lasts
      <4>2. CASE PutOwner(r) /\ b = mem[r].cur
        <5>1. access' = access \cup {[asset |-> b, by |-> r]}
          BY <4>2, Zenon DEF PutOwner
        <5>2. PICK x : x = [asset |-> b, by |-> r]
          OBVIOUS
        <5>3. x \in access' /\ x.asset = a
          BY <2>4, <5>1, <5>2
        <5> QED BY <5>3, Zenon DEF Shared
      <4>3. CASE TagBump(r) \/ Known(r) \/ Read(r)
        <5>1. mem[r].walk # 0
          BY <1>1, <4>3 DEF TagBump, Known, Read, At, Fits
        <5> QED BY <1>3, <2>2, <5>1 DEF Lasts, ReachedBy
      <4> QED BY <1>6, <4>1, <4>2, <4>3 DEF DoneWith
    <3>2. \A w \in 1..4 : Kind(a) = Scans[w].class /\ m.walk = w => Served(a, w)'
      <4>1. CASE OwnerRow(r) \/ PutOwner(r)
        <5>1. mem[r].walk = 0
          BY <1>1, <4>1 DEF OwnerRow, PutOwner, At, Fits
        <5> QED BY <1>1, <5>1
      <4>2. CASE TagBump(r) /\ b = mem[r].cur
        <5>1. mem[r].walk \in {1, 2} /\ Ruled(a)'
          BY <1>1, <1>3, <2>2, <2>4, <4>2 DEF TagBump, At, Fits, Lasts
        <5> QED BY <1>1, <5>1, ScansOf DEF Served
      <4>3. CASE (Known(r) \/ Read(r)) /\ Listed(b)
        <5>1. mem[r].walk \in {3, 4} /\ Listed(a)'
          BY <1>1, <1>3, <2>4, <4>3 DEF Known, Read, At, Fits, Lasts
        <5>2. \A w \in 1..4 : m.walk = w => Scans[w].job # "roles"
          BY <1>1, <5>1, ScansOf
        <5> QED BY <5>1, <5>2 DEF Served
      <4> QED BY <1>6, <4>1, <4>2, <4>3 DEF DoneWith
    <3>3. \A w \in 1..4 : Kind(a) = Scans[w].class /\ m.walk > w => Served(a, w)'
      BY <1>1, <1>3, <2>2 DEF Lasts, ReachedBy, Served
    <3> QED BY <3>1, <3>2, <3>3 DEF ReachedBy
  <2> QED BY <2>3, <2>4
<1> QED BY <1>4, <1>5, <1>6 DEF LoopsBy
LEMMA ReachingStep ==
    Shape /\ GoneInv /\ SteadyInv /\ ReachingInv /\ [Next]_vars => ReachingInv'
<1> SUFFICES ASSUME Shape, GoneInv, SteadyInv, ReachingInv, [Next]_vars PROVE ReachingInv'
  OBVIOUS
<1>0. Passing \subseteq Working \ Deleting
  BY DEF Passing, Upserting, Working, Deleting
<1>1. ASSUME NEW who, Observe(who), NEW q \in Requests, q # who,
             pc'[q] = pc[q], mem'[q] = mem[q], req'[q] = req[q], roles \subseteq roles',
             \A a \in Assets : Live(a) /\ Unwritten(a) => Lasts(a)
      PROVE  Reaching(q)'
  <2>1. ~Starts(q)
    BY <1>1 DEF Starts
  <2>2. \A a \in steady'[q] : a \in steady[q] /\ a \in Assets /\ Unwritten(a)
    BY <1>1, <2>1, SteadyMoves
  <2>3. SUFFICES ASSUME req[q].op = "backfill", pc[q] \in Passing
                 PROVE  /\ (\A a \in steady[q] : ReachedBy(a, mem[q], Fresh(q)))'
                        /\ pc[q] = "tag_bump" => Ruled(mem[q].cur)'
    BY <1>1 DEF Reaching
  <2>4. PICK m, fresh : m = mem[q] /\ fresh = Fresh(q)
    OBVIOUS
  <2>5. mem'[q] = m /\ Fresh(q)' = fresh
    BY <1>1, <2>4 DEF Fresh
  <2>6. ASSUME NEW a \in steady'[q] PROVE ReachedBy(a, m, fresh)'
    <3>1. Live(a)
      BY <1>0, <2>2, <2>3 DEF SteadyInv
    <3>2. Lasts(a) /\ at'[a] = at[a]
      BY <1>1, <2>2, <3>1 DEF Unwritten
    <3>3. ReachedBy(a, m, fresh)
      BY <2>2, <2>3, <2>4 DEF ReachingInv, Reaching
    <3> QED BY <3>2, <3>3, ReachedLasts
  <2>7. pc[q] = "tag_bump" => Ruled(m.cur)'
    BY <1>1, <2>3, <2>4, RulesLast DEF ReachingInv, Reaching
  <2> QED BY <2>5, <2>6, <2>7
<1>2. ASSUME NEW r \in Requests, Moves(r), UNCHANGED edits, Observe(r)
      PROVE  ReachingInv'
  <2>1. \A x \in Requests \ {r} : pc'[x] = pc[x] /\ mem'[x] = mem[x] /\ req'[x] = req[x]
    <3>1. PICK label, m : Goes(r, label, m)
      BY <1>2, MovesGo
    <3> QED BY <1>2, <3>1, GoesTo, MovesGo
  <2>2. \A q \in Requests \ {r} : Reaching(q)'
    <3>1. roles \subseteq roles' /\ \A a \in Assets : Live(a) => Lasts(a)
      BY <1>2, TablesStep, MovesLast
    <3> QED BY <1>1, <1>2, <2>1, <3>1
  <2>3. Reaching(r)
    BY DEF ReachingInv
  <2>4. SUFFICES ASSUME req'[r].op = "backfill", pc'[r] \in Passing
                 PROVE  /\ (\A a \in steady[r] : ReachedBy(a, mem[r], Fresh(r)))'
                        /\ pc'[r] = "tag_bump" => Ruled(mem[r].cur)'
    BY <2>2 DEF ReachingInv, Reaching
  <2>5. ASSUME LoopsOn(r) \/ WorksOn(r)
        PROVE  steady'[r] \subseteq steady[r] /\ pc[r] # "idle"
    <3>1. pc[r] # "idle"
      BY <2>5, WorkingOn
    <3> QED BY <1>2, <3>1, SteadyMoves DEF Starts
  <2>6. CASE req[r].op = "backfill" /\ LoopsOn(r)
    <3>1. PICK m : LoopsBy(r, m)
      BY <2>6 DEF LoopsOn
    <3>2. PICK label, n : ProceedsTo(m, label, n) /\ pc'[r] = label /\ (label # "ok" => mem'[r] = n)
      BY <3>1 DEF LoopsBy, Advances
    <3>3. m \in Memory /\ label # "ok"
      BY <2>4, <3>1, <3>2 DEF LoopsBy, Advances, Passing, Upserting
    <3>4. PICK fresh : fresh = (label = "page" /\ n.cursor = NoCursor)
      OBVIOUS
    <3>5. Fresh(r)' = fresh /\ mem'[r] = n
      BY <3>2, <3>3, <3>4 DEF Fresh
    <3>6. ASSUME NEW a \in steady'[r] PROVE ReachedBy(a, n, fresh)'
      <4>1. ReachedBy(a, m, FALSE)'
        BY <1>2, <2>3, <2>5, <2>6, <3>1, LoopReaches
      <4>2. ReachedBy(a, n, label = "page" /\ n.cursor = NoCursor)'
        BY <3>2, <3>3, <4>1, Proceeding
      <4> QED BY <3>4, <4>2
    <3>7. label # "tag_bump"
      <4>1. Begin(m.walk) \in {"owner_row", "tag_get", "known"}
        BY <3>3, BeginOf DEF Memory
      <4> QED BY <3>2, <4>1 DEF ProceedsTo
    <3> QED BY <3>2, <3>5, <3>6, <3>7
  <2>7. CASE UNCHANGED req /\ WorksOn(r)
    <3>1. /\ mem'[r].todo = mem[r].todo /\ mem'[r].walk = mem[r].walk
          /\ mem'[r].cursor = mem[r].cursor
      BY <2>7, Zenon DEF WorksOn
    <3>2. /\ UNCHANGED at /\ pc[r] \in Passing \ {"page"} /\ pc'[r] # "page"
      <4>1. ASSUME OwnerRow(r) \/ TagGet(r) \/ TagPut(r) \/ Find(r) \/ Backing(r) \/ Refresh(r)
                   \/ Create(r) \/ CreateTags(r) \/ Reads
            PROVE  UNCHANGED at
        BY <4>1, Zenon DEF OwnerRow, TagGet, TagPut, Find, Backing, Refresh, Create, CreateTags,
                           Reads, tables
      <4>2. UNCHANGED at
        BY <2>7, <4>1, Zenon DEF WorksOn
      <4>3. pc[r] \in Passing \ {"page"} /\ pc'[r] # "page"
        BY <2>7 DEF WorksOn, Passing, Upserting, OwnerRow, TagGet, TagPut, Find, Backing, Refresh,
                    Create, CreateTags, At
      <4> QED BY <4>2, <4>3
    <3>3. req[r].op = "backfill" /\ Fresh(r) = FALSE /\ Fresh(r)' = FALSE
      BY <2>4, <2>7, <3>2 DEF Fresh
    <3>4. PICK m, n : m = mem[r] /\ n = mem'[r]
      OBVIOUS
    <3>5. ASSUME NEW a \in steady'[r] PROVE ReachedBy(a, n, FALSE)'
      <4>1. a \in steady[r] /\ a \in Assets /\ Live(a)
        BY <1>0, <2>5, <2>7, <3>2 DEF SteadyInv, Shape, History
      <4>2. Lasts(a) /\ at'[a] = at[a]
        BY <1>2, <3>2, <4>1, MovesLast
      <4>3. ReachedBy(a, m, FALSE)
        BY <2>3, <3>2, <3>3, <3>4, <4>1 DEF Reaching
      <4>4. ReachedBy(a, n, FALSE)
        BY <3>1, <3>4, <4>3 DEF ReachedBy
      <4> QED BY <4>2, <4>4, ReachedLasts
    <3>6. pc'[r] = "tag_bump" => Ruled(n.cur)'
      <4>1. SUFFICES ASSUME pc'[r] = "tag_bump" PROVE Ruled(n.cur)'
        OBVIOUS
      <4>2. TagPut(r) /\ mem'[r].cur = mem[r].cur
        BY <2>7, <4>1 DEF WorksOn, Upserting
      <4>3. roles' = roles \cup {[asset |-> mem[r].cur, by |-> r, value |-> Scan(r).class]}
        BY <4>2, Zenon DEF TagPut
      <4>4. PICK t : t = [asset |-> mem[r].cur, by |-> r, value |-> Scan(r).class]
        OBVIOUS
      <4>5. t \in roles' /\ t.asset = n.cur
        BY <3>4, <4>2, <4>3, <4>4
      <4> QED BY <4>5 DEF Ruled, RolesOf
    <3> QED BY <3>3, <3>4, <3>5, <3>6
  <2>8. CASE Arrive(r) /\ pc'[r] = "find" /\ req'[r].op # "backfill"
    BY <2>4, <2>8
  <2>9. CASE pc'[r] \notin Passing
    BY <2>4, <2>9
  <2> QED BY <1>2, <2>6, <2>7, <2>8, <2>9, PassSteps, Zenon
<1>3. CASE Edit /\ Observe(Client)
  <2>1. UNCHANGED <<req, pc, mem>>
    BY <1>3, Zenon DEF Edit
  <2>2. roles \subseteq roles' /\ \A a \in Assets : Live(a) /\ Unwritten(a) => Lasts(a)
    BY <1>3, EditTables, EditLasts
  <2>3. \A q \in Requests : q # Client
    BY MaintenanceAssumption
  <2> QED BY <1>1, <1>3, <2>1, <2>2, <2>3 DEF ReachingInv
<1>4. CASE UNCHANGED vars
  <2>1. UNCHANGED <<at, roles, access, entries, req, pc, mem, steady>>
    BY <1>4, Zenon DEF vars, tables, history
  <2> QED BY <2>1 DEF ReachingInv, Reaching, ReachedBy, Fresh, Served, RowOf, Ruled, RolesOf, Shared,
              Listed
<1> QED BY <1>2, <1>3, <1>4, NextMoves

LEMMA ReachesAll ==
    ASSUME Shape, GoneInv, SteadyInv, ReachingInv, [Next]_vars, NEW r \in Requests,
           req[r].op = "backfill", pc[r] \in Working, pc'[r] = "ok", NEW a \in steady[r]
    PROVE  /\ <<"role", a>> \in Existing' /\ <<"entry", a>> \in Existing'
           /\ a \in Owners => <<"access", a>> \in Existing'
<1>0. pc'[r] # pc[r] /\ pc[r] # "idle"
  BY DEF Working
<1>1. Moves(r) /\ UNCHANGED edits
  <2>1. ~(UNCHANGED vars) /\ ~Edit
    BY <1>0 DEF vars, Edit
  <2>2. PICK q \in Requests : Moves(q) /\ UNCHANGED edits
    BY <2>1, NextMoves
  <2>3. PICK label, m : Goes(q, label, m)
    BY <2>2, MovesGo
  <2>4. q = r
    BY <1>0, <2>3, GoesTo
  <2> QED BY <2>2, <2>4
<1>2. LoopsOn(r)
  <2>1. UNCHANGED req /\ ~Arrive(r)
    BY <1>0, <1>1 DEF Moves, Arrive, At
  <2>2. pc'[r] \notin Passing
    BY DEF Passing, Upserting
  <2>3. ~WorksOn(r)
    BY DEF WorksOn, Upserting
  <2> QED BY <1>1, <2>1, <2>2, <2>3, PassSteps
<1>3. PICK m : LoopsBy(r, m)
  BY <1>2 DEF LoopsOn
<1>4. PICK label, n : ProceedsTo(m, label, n) /\ pc'[r] = label
  BY <1>3 DEF LoopsBy, Advances
<1>5. ReachedBy(a, m, FALSE)'
  BY <1>1, <1>3, LoopReaches DEF ReachingInv
<1>6. m \in Memory /\ label = "ok"
  BY <1>3, <1>4 DEF LoopsBy, Advances
<1>7. /\ a \in Owners => Shared(a)'
      /\ \A w \in 1..4 : Kind(a) = Scans[w].class => Served(a, w)'
  BY <1>4, <1>5, <1>6, Proceeding
<1>8. Ruled(a)' /\ Listed(a)'
  <2>1. CASE Kind(a) = "agent"
    <3>1. Served(a, 1)' /\ Served(a, 4)'
      BY <1>7, <2>1, ScansOf
    <3> QED BY <3>1, ScansOf DEF Served
  <2>2. CASE Kind(a) = "user"
    <3>1. Served(a, 2)' /\ Served(a, 3)'
      BY <1>7, <2>2, ScansOf
    <3> QED BY <3>1, ScansOf DEF Served
  <2> QED BY <2>1, <2>2 DEF Kind
<1>9. a \in Assets
  BY DEF Shape, History
<1> QED BY <1>7, <1>8, <1>9 DEF Existing

LEMMA InitReaching == Init => ReachingInv
<1> SUFFICES ASSUME Init, NEW r \in Requests PROVE Reaching(r)
  BY DEF ReachingInv
<1>1. pc[r] = "idle"
  BY DEF Init
<1> QED BY <1>1 DEF Reaching, Passing, Upserting

LEMMA Backfills == Spec => [](Shape /\ GoneInv /\ SteadyInv /\ ReachingInv)
<1>1. Shape /\ GoneInv /\ SteadyInv /\ ReachingInv /\ [Next]_vars =>
          (Shape /\ GoneInv /\ SteadyInv /\ ReachingInv)'
  BY ShapeStep, GoneStep, SteadyStep, ReachingStep
<1> QED BY InitShape, InitReport, InitAhead, InitReaching, <1>1, PTL DEF Spec

\* A backfill that answers ok leaves every principal that was there from its start
\* and that nobody else has written with a global role, a directory entry and, when
\* it owns an instance, the owner's row, although its own tags move the principals
\* through the pages it reads.
THEOREM BackfillsAreComplete == Spec => BackfillIsComplete
<1>1. Shape /\ GoneInv /\ SteadyInv /\ ReachingInv /\ [Next]_vars =>
          [\A r \in Requests :
              req[r].op = "backfill" /\ pc[r] \in Working /\ pc'[r] = "ok" =>
                  \A a \in steady[r] :
                      /\ <<"role", a>> \in Existing' /\ <<"entry", a>> \in Existing'
                      /\ a \in Owners => <<"access", a>> \in Existing']_vars
  BY ReachesAll, Zenon
<1> QED BY Backfills, <1>1, PTL DEF Spec, BackfillIsComplete
=============================================================================
