----------------------------- MODULE Maintenance -----------------------------
(***************************************************************************)
(* The maintenance passes over a live registry: the backfill of owner      *)
(* rows, global roles and directory entries, the directory upsert, and the *)
(* retention prune, each a loop of statements beside client requests.      *)
(*                                                                         *)
(* A principal is an asset and its uuid the asset's id.  The passes walk   *)
(* paged searches that order by updated_at, which every write moves.  A    *)
(* search and its hydration are one statement, so are a relation's insert  *)
(* and a client's write; a delete's cascade and entry are one after it.    *)
(***************************************************************************)
EXTENDS Paging, Retention, Integers

CONSTANTS
    Requests,     \* maintenance requests and upserts, each sent once
    Client,       \* the writer of what other requests store
    Token,        \* a caller whose token carries role=admin
    Callers,      \* who sends maintenance requests: Token or principals
    Assets,       \* ids of principals: positive numbers, ordered as the keys
    Agents,       \* the principals of type agent, the others are users
    Owners,       \* principals with a has_instance relation
    PageSize,     \* rows of a search page
    Cap,          \* MAX_CANDIDATE_WALK
    Policies,     \* what PDT_PRUNE_POLICY_PATH can hold
    Windows,      \* values of older_than_days
    MaxEdits,     \* bound: the writes of clients
    Now           \* the day of all this, and the stamp of its last moment

ASSUME MaintenanceAssumption ==
    /\ Client \notin Requests /\ Token \notin Assets /\ Callers \subseteq Assets \cup {Token}
    /\ Assets \subseteq Nat \ {0} /\ Assets # {} /\ IsFiniteSet(Assets)
    /\ Agents \subseteq Assets /\ Owners \subseteq Assets
    /\ PageSize \in Nat \ {0} /\ Cap \in Nat \ {0}
    /\ \A p \in Policies :
          p.classes \in Seq([class : STRING, window : Nat, disposition : STRING])
    /\ Windows \subseteq Nat /\ MaxEdits \in Nat /\ Now \in Nat \ {0}

VARIABLES
    row,      \* the assets table: deleted_at NULL, deleted_at set
    born, at, \* created_at and updated_at
    roles,    \* the global_role tags
    access,   \* the has_access rows of the owners
    entries,  \* directory entries; found once its tags are stored
    edits,
    req, pc,
    mem       \* the local variables of a request, and at the end its report

\* What the tables forget; no action reads it.
VARIABLES
    had,      \* what was there when a request began and has been since
    steady,   \* live since a request began, written by no other
    gone,     \* soft-deleted by a prune
    slipped   \* assets whose updated_at has moved backwards

tables == <<row, born, at, roles, access, entries>>
history == <<had, steady, gone, slipped>>
vars == <<edits, tables, req, pc, mem, history>>

Time == 0..Now
Classes == {"user", "agent"}
Kind(a) == IF a \in Agents THEN "agent" ELSE "user"

Writers == Requests \cup {Client}
RoleTag == [asset : Assets, by : Writers, value : {"admin"} \cup Classes]
AccessRow == [asset : Assets, by : Writers]
DirectoryEntry == [uuid : Assets, by : Requests, found : BOOLEAN]
Row == [id : Assets, at : Time]

\* walk: the scan a backfill is at.  cursor: where the next page begins.  todo:
\* what is left of a page, or of the candidates.  cur: the principal a loop is at.
\* found: the candidates, as the rows the walk has read.  pruned: those whose
\* delete answered ok; the others are in failed.
NoMemory == [walk |-> 0, cursor |-> NoCursor, todo |-> {}, cur |-> CHOOSE a \in Assets : TRUE,
             found |-> {}, pruned |-> {}, cutoff |-> 0, policy |-> NoPolicy]

Request ==
    [op : {"backfill"}, caller : Callers]
    \cup [op : {"upsert"}, uuid : Assets]
    \cup [op : {"prune"}, caller : Callers, class : Classes,
          days : Windows, dry : BOOLEAN]
    \cup [op : {"audit_prune"}, caller : Callers, days : Windows, dry : BOOLEAN]

NoRequest == [op |-> "none"]

Working == {"gate", "owners", "owner_row", "owner_put", "page", "tag_get", "tag_put",
            "tag_bump", "known", "find", "backing", "refresh", "create", "create_tags",
            "read", "policy", "candidates", "get", "soft_delete", "cascade"}
Deleting == {"get", "soft_delete", "cascade"}
Answers == {"ok", "handed_over", "forbidden", "notfound", "failed"}

TypeOK ==
    /\ edits \in 0..MaxEdits
    /\ row \in [Assets -> {"live", "deleted"}]
    /\ born \in [Assets -> Time] /\ at \in [Assets -> Time]
    /\ roles \subseteq RoleTag /\ access \subseteq AccessRow /\ entries \subseteq DirectoryEntry
    /\ req \in [Requests -> Request \cup {NoRequest}]
    /\ pc \in [Requests -> {"idle"} \cup Working \cup Answers]
    /\ \A r \in Requests :
          /\ DOMAIN mem[r] = DOMAIN NoMemory
          /\ mem[r].walk \in 0..4 /\ mem[r].cur \in Assets
          /\ mem[r].cursor \in Row \cup {NoCursor}
          /\ mem[r].todo \subseteq (IF pc[r] \in Deleting THEN mem[r].found ELSE Assets)
          /\ mem[r].pruned \subseteq mem[r].found /\ mem[r].found \subseteq Row
          /\ Cardinality(mem[r].found) <= Cap
          /\ mem[r].cutoff \in Int /\ mem[r].policy \in Policies \cup {NoPolicy}
    /\ gone \in [Requests -> SUBSET Assets] /\ steady \in [Requests -> SUBSET Assets]
    /\ had \in [Requests -> SUBSET ({"role", "access", "entry"} \X Assets)]
    /\ slipped \subseteq Assets

-----------------------------------------------------------------------------
Live(a) == row[a] = "live"
RolesOf(a) == {t \in roles : t.asset = a}
Ruled(a) == RolesOf(a) # {}
Shared(a) == \E x \in access : x.asset = a
Listed(u) == \E e \in entries : e.uuid = u /\ e.found       \* find_entry

\* The rows of the search type = class; a page of them, and the cursor behind it.
Rows(class) == {[id |-> a, at |-> at[a]] : a \in {b \in Assets : Live(b) /\ Kind(b) = class}}
Page(r, class) == First(Behind(Rows(class), mem[r].cursor), PageSize)
Following(r, class) == NextCursor(Behind(Rows(class), mem[r].cursor), PageSize)
Ids(rows) == {x.id : x \in rows}

\* A stamp is taken before the statement that stores it, and may be late.
Stamps == {Now, Now - 1}

At(r, label) == pc[r] = label
Reads == UNCHANGED tables

\* r goes on to label with memory m; of a request that is answered only the
\* report is left.
Goto(r, label, m) ==
    /\ pc' = [pc EXCEPT ![r] = label]
    /\ mem' = [mem EXCEPT ![r] = IF label \notin Answers THEN m
                  ELSE [NoMemory EXCEPT !.found = m.found, !.pruned = m.pruned]]
On(r, label) == Goto(r, label, mem[r])

-----------------------------------------------------------------------------
\* admin_gate: the token's role, else the global role the registry answers.

Opened(q) == IF q.op = "backfill" THEN "owners" ELSE "policy"

\* find_principal falls back to the id; of several role tags any comes first.
Gate(r) ==
    /\ At(r, "gate") /\ Reads
    /\ LET values == {t.value : t \in RolesOf(req[r].caller)} IN
          \/ /\ Live(req[r].caller) /\ "admin" \in values
             /\ On(r, Opened(req[r]))
          \/ /\ ~Live(req[r].caller) \/ values # {"admin"}
             /\ On(r, "forbidden")

-----------------------------------------------------------------------------
\* RolesService::backfill and DirectoryService::backfill.

\* The scans, in order: the two of the roles, the two of the directory.
Scans == <<[class |-> "agent", job |-> "roles"], [class |-> "user", job |-> "roles"],
           [class |-> "user", job |-> "directory"], [class |-> "agent", job |-> "directory"]>>
Scan(r) == Scans[mem[r].walk]

Begin(walk) == IF walk = 0 THEN "owner_row"
               ELSE IF Scans[walk].job = "roles" THEN "tag_get" ELSE "known"

\* Mutant of Proceed: the last scan is not recognised as the last.
ProceedPast(r, m) ==
    CASE m.todo # {} -> Goto(r, Begin(m.walk), m)
      [] m.todo = {} /\ m.cursor # NoCursor -> Goto(r, "page", m)
      [] OTHER -> Goto(r, "page", [m EXCEPT !.walk = @ + 1])

\* What follows on memory m: the next principal of its page, the next page, the
\* next scan, or the answer.
Proceed(r, m) ==
    CASE m.todo # {} -> Goto(r, Begin(m.walk), m)
      [] m.todo = {} /\ m.cursor # NoCursor -> Goto(r, "page", m)
      [] m.todo = {} /\ m.cursor = NoCursor /\ m.walk < 4 ->
             Goto(r, "page", [m EXCEPT !.walk = @ + 1])
      [] OTHER -> Goto(r, "ok", m)

\* A loop is done with principal a.
Done(r, a) == Proceed(r, [mem[r] EXCEPT !.todo = @ \ {a}])

ListOwners(r) ==
    /\ At(r, "owners") /\ Reads
    /\ Proceed(r, [mem[r] EXCEPT !.todo = {a \in Owners : Live(a)}])

\* Any has_access row of the pair will do.
OwnerRow(r) ==
    /\ At(r, "owner_row") /\ Reads
    /\ \E a \in mem[r].todo :
          IF Shared(a) THEN Done(r, a) ELSE Goto(r, "owner_put", [mem[r] EXCEPT !.cur = a])

PutOwner(r) ==
    /\ At(r, "owner_put")
    /\ access' = access \cup {[asset |-> mem[r].cur, by |-> r]}
    /\ Done(r, mem[r].cur)
    /\ UNCHANGED <<row, born, at, roles, entries>>

\* Mutant of Unruled: the role tag is not looked for.
UnruledAll(rows) == Ids(rows)

\* The principals of a page whose tags, as read with it, hold no global role.
Unruled(rows) == {a \in Ids(rows) : ~Ruled(a)}

\* Mutant of ReadPage: the walk ends with a page that has nothing to do.
ReadPageOnce(r) ==
    /\ At(r, "page") /\ Reads
    /\ LET page == Page(r, Scan(r).class)
           left == IF Scan(r).job = "roles" THEN Unruled(page) ELSE Ids(page) IN
          Proceed(r, [mem[r] EXCEPT !.todo = left,
                         !.cursor = IF left = {} THEN NoCursor ELSE Following(r, Scan(r).class)])

ReadPage(r) ==
    /\ At(r, "page") /\ Reads
    /\ LET page == Page(r, Scan(r).class) IN
          Proceed(r, [mem[r] EXCEPT
                         !.todo = IF Scan(r).job = "roles" THEN Unruled(page) ELSE Ids(page),
                         !.cursor = Following(r, Scan(r).class)])

\* add_tag: the asset must be live, or the whole backfill ends.
TagGet(r) ==
    /\ At(r, "tag_get") /\ Reads
    /\ \E a \in mem[r].todo :
          Goto(r, IF Live(a) THEN "tag_put" ELSE "notfound", [mem[r] EXCEPT !.cur = a])

TagPut(r) ==
    /\ At(r, "tag_put")
    /\ roles' = roles \cup {[asset |-> mem[r].cur, by |-> r, value |-> Scan(r).class]}
    /\ On(r, "tag_bump")
    /\ UNCHANGED <<row, born, at, access, entries>>

TagBump(r) ==
    /\ At(r, "tag_bump")
    /\ \E t \in Stamps : at' = [at EXCEPT ![mem[r].cur] = t]
    /\ Done(r, mem[r].cur)
    /\ UNCHANGED <<row, born, roles, access, entries>>

\* The backfill leaves a principal alone that resolves.
Known(r) ==
    /\ At(r, "known") /\ Reads
    /\ \E u \in mem[r].todo :
          IF Listed(u) THEN Done(r, u) ELSE Goto(r, "find", [mem[r] EXCEPT !.cur = u])

-----------------------------------------------------------------------------
\* DirectoryService::upsert, for the backfill's principal or a request's.

Find(r) ==
    /\ At(r, "find") /\ Reads
    /\ On(r, IF Listed(mem[r].cur) THEN "backing" ELSE "create")

\* The entry is looked for again; one that vanished is an internal error.
Backing(r) ==
    /\ At(r, "backing") /\ Reads
    /\ On(r, IF Listed(mem[r].cur) THEN "refresh" ELSE "failed")

\* The update of an entry, which may be gone by then.
Refresh(r) ==
    /\ At(r, "refresh") /\ Reads
    /\ On(r, IF Listed(mem[r].cur) THEN "read" ELSE "notfound")

Create(r) ==
    /\ At(r, "create")
    /\ entries' = entries \cup {[uuid |-> mem[r].cur, by |-> r, found |-> FALSE]}
    /\ On(r, "create_tags")
    /\ UNCHANGED <<row, born, at, roles, access>>

\* The tags make the row findable.
CreateTags(r) ==
    /\ At(r, "create_tags")
    /\ entries' = {[e EXCEPT !.found = @ \/ (e.uuid = mem[r].cur /\ e.by = r)] : e \in entries}
    /\ On(r, "read")
    /\ UNCHANGED <<row, born, at, roles, access>>

\* The answer is the entry as resolved at the end.
Read(r) ==
    /\ At(r, "read") /\ Reads
    /\ IF ~Listed(mem[r].cur) THEN On(r, "notfound")
       ELSE IF req[r].op = "upsert" THEN On(r, "ok") ELSE Done(r, mem[r].cur)

-----------------------------------------------------------------------------
\* The retention prune, and the gate of the audit prune.

Cleared(p, q) == IF q.op = "prune" THEN Evaluate(p, q.class, q.days)
                 ELSE EvaluateAuditEntries(p, q.days)

\* The policy is read now, PDT_PRUNE_ENABLED is whatever the environment says; a
\* dry run needs neither.  The cutoff is taken when the walk begins.
Policy(r) ==
    /\ At(r, "policy") /\ Reads
    /\ \E p \in Policies \cup {NoPolicy}, enabled \in BOOLEAN :
          Goto(r, IF ~req[r].dry /\ ~(enabled /\ Cleared(p, req[r])) THEN "forbidden"
                  ELSE IF req[r].op = "prune" THEN "candidates" ELSE "handed_over",
               [mem[r] EXCEPT !.cutoff = Now - req[r].days, !.policy = IF req[r].dry THEN @ ELSE p])

\* Mutant of Due: the age of the last update instead of that of the asset.
DueByUpdate(r, rows) == {x \in rows : x.at < mem[r].cutoff}

Due(r, rows) == {x \in rows : born[x.id] < mem[r].cutoff}

\* A page of prune_candidates; the walk returns as soon as Cap is reached.
Candidates(r) ==
    /\ At(r, "candidates") /\ Reads
    /\ LET due == Due(r, Page(r, req[r].class))
           all == mem[r].found \cup First(due, Cap - Cardinality(mem[r].found))
           m == [mem[r] EXCEPT !.found = all, !.cursor = Following(r, req[r].class)] IN
          CASE m.cursor # NoCursor /\ Cardinality(all) < Cap -> Goto(r, "candidates", m)
            [] (m.cursor = NoCursor \/ Cardinality(all) = Cap) /\ (req[r].dry \/ all = {}) ->
                   Goto(r, "ok", m)
            [] OTHER -> Goto(r, "get", [m EXCEPT !.todo = all])

\* A candidate's delete has been answered; an error only counts.
Settled(r, x, deleted) ==
    Goto(r, IF mem[r].todo = {x} THEN "ok" ELSE "get",
         [mem[r] EXCEPT !.todo = @ \ {x}, !.pruned = IF deleted THEN @ \cup {x} ELSE @])

\* The candidate at work: the row the walk has read of it.
Candidate(r) == {x \in mem[r].todo : x.id = mem[r].cur}

\* AssetService::delete: the asset is looked up,
Get(r) ==
    /\ At(r, "get") /\ Reads
    /\ \E x \in mem[r].todo :
          IF Live(x.id) THEN Goto(r, "soft_delete", [mem[r] EXCEPT !.cur = x.id])
          ELSE Settled(r, x, FALSE)

\* Mutant of SoftDelete: the update does not ask whether the asset is live.
SoftDeleteAnyway(r) ==
    /\ At(r, "soft_delete")
    /\ row' = [row EXCEPT ![mem[r].cur] = "deleted"] /\ On(r, "cascade")
    /\ UNCHANGED <<born, at, roles, access, entries>>

\* ... marked, unless another request was first,
SoftDelete(r) ==
    /\ At(r, "soft_delete")
    /\ IF Live(mem[r].cur)
       THEN row' = [row EXCEPT ![mem[r].cur] = "deleted"] /\ On(r, "cascade")
       ELSE (\E x \in Candidate(r) : Settled(r, x, FALSE)) /\ UNCHANGED row
    /\ UNCHANGED <<born, at, roles, access, entries>>

\* ... and its relations removed, with the entry.
Cascade(r) ==
    /\ At(r, "cascade")
    /\ access' = {x \in access : x.asset # mem[r].cur}
    /\ \E x \in Candidate(r) : Settled(r, x, TRUE)
    /\ UNCHANGED <<row, born, at, roles, entries>>

Step(r) ==
    \/ Gate(r) \/ ListOwners(r) \/ OwnerRow(r) \/ PutOwner(r) \/ ReadPage(r)
    \/ TagGet(r) \/ TagPut(r) \/ TagBump(r) \/ Known(r)
    \/ Find(r) \/ Backing(r) \/ Refresh(r) \/ Create(r) \/ CreateTags(r) \/ Read(r)
    \/ Policy(r) \/ Candidates(r) \/ Get(r) \/ SoftDelete(r) \/ Cascade(r)

\* A statement of r fails.  The backfill takes it for an unknown principal when it
\* resolves one, the prune counts the candidate as failed; else the request ends.
Fail(r) ==
    /\ pc[r] \in Working /\ Reads
    /\ CASE At(r, "known") -> \E u \in mem[r].todo : Goto(r, "find", [mem[r] EXCEPT !.cur = u])
         [] At(r, "get") -> \E x \in mem[r].todo : Settled(r, x, FALSE)
         [] pc[r] \in {"soft_delete", "cascade"} -> \E x \in Candidate(r) : Settled(r, x, FALSE)
         [] OTHER -> On(r, "failed")

\* A caller whose token carries the role passes the gate without a read.
Arrive(r) ==
    /\ At(r, "idle") /\ Reads
    /\ \E q \in Request :
          /\ req' = [req EXCEPT ![r] = q]
          /\ IF q.op = "upsert" THEN Goto(r, "find", [mem[r] EXCEPT !.cur = q.uuid])
             ELSE On(r, IF q.caller # Token THEN "gate" ELSE Opened(q))

-----------------------------------------------------------------------------
\* Clients: an asset is written, deleted, made an admin, shared by
\* its owner; an entry is deleted.
Edit ==
    /\ edits < MaxEdits /\ edits' = edits + 1
    /\ \E a \in Assets :
          \/ /\ Live(a) /\ \E t \in Stamps : at' = [at EXCEPT ![a] = t]
             /\ UNCHANGED <<row, born, roles, access, entries>>
          \/ /\ Live(a) /\ row' = [row EXCEPT ![a] = "deleted"]
             /\ access' = {x \in access : x.asset # a}
             /\ UNCHANGED <<born, at, roles, entries>>
          \/ /\ Live(a)
             /\ roles' = roles \cup {[asset |-> a, by |-> Client, value |-> "admin"]}
             /\ at' = [at EXCEPT ![a] = Now]
             /\ UNCHANGED <<row, born, access, entries>>
          \/ /\ Live(a) /\ a \in Owners /\ access' = access \cup {[asset |-> a, by |-> Client]}
             /\ UNCHANGED <<row, born, at, roles, entries>>
          \/ /\ \E e \in entries : e.uuid = a /\ entries' = entries \ {e}
             /\ UNCHANGED <<row, born, at, roles, access>>
    /\ UNCHANGED <<req, pc, mem>>

\* What exists of a kind: what a pass must not add again.
Existing == {<<"role", a>> : a \in {b \in Assets : Ruled(b)}}
            \cup {<<"access", a>> : a \in {b \in Assets : Shared(b)}}
            \cup {<<"entry", a>> : a \in {b \in Assets : Listed(b)}}
Written(a) == \/ row'[a] # row[a] \/ at'[a] # at[a]
              \/ (<<"entry", a>> \in Existing) # (<<"entry", a>> \in Existing')

Starts(q) == pc[q] = "idle" /\ pc'[q] # "idle"
Observe(who) ==
    /\ had' = [q \in Requests |-> IF Starts(q) THEN Existing
                                  ELSE IF pc'[q] \in Working THEN had[q] \cap Existing' ELSE {}]
    /\ steady' = [q \in Requests |->
          IF Starts(q) THEN {a \in Assets : Live(a)}
          ELSE IF pc'[q] \notin Working THEN {}
               ELSE IF q = who THEN steady[q] ELSE {a \in steady[q] : ~Written(a)}]
    /\ gone' = [q \in Requests |->
          IF q = who /\ At(q, "soft_delete") /\ pc'[q] = "cascade"
          THEN gone[q] \cup {mem[q].cur} ELSE gone[q]]
    /\ slipped' = slipped \cup {a \in Assets : at'[a] < at[a]}

-----------------------------------------------------------------------------
Init ==
    /\ edits = 0
    /\ row = [a \in Assets |-> "live"]
    /\ born \in [Assets -> 0..(Now - 1)] /\ at = born
    /\ \E A \in SUBSET (Callers \cap Assets) :
          roles = [asset : A, by : {Client}, value : {"admin"}]
    /\ access = {} /\ entries = {}
    /\ req = [r \in Requests |-> NoRequest] /\ pc = [r \in Requests |-> "idle"]
    /\ mem = [r \in Requests |-> NoMemory]
    /\ had = [r \in Requests |-> {}] /\ steady = [r \in Requests |-> {}]
    /\ gone = [r \in Requests |-> {}] /\ slipped = {}

Next ==
    \/ \E r \in Requests :
          /\ \/ Arrive(r)
             \/ Step(r) /\ UNCHANGED req
             \/ Fail(r) /\ UNCHANGED req
          /\ UNCHANGED edits /\ Observe(r)
    \/ Edit /\ Observe(Client)

Spec == Init /\ [][Next]_vars

-----------------------------------------------------------------------------
\* "Re-runs clean": a pass adds no role, owner row or entry to what had one when
\* it began and has kept it; only what appears beside it can end up twice.
RerunsAreClean ==
    [][\A r \in Requests :
          /\ \A t \in roles' \ roles : t.by = r => <<"role", t.asset>> \notin had[r]
          /\ \A x \in access' \ access : x.by = r => <<"access", x.asset>> \notin had[r]
          /\ \A e \in entries' \ entries :
                e.by = r /\ ~e.found => <<"entry", e.uuid>> \notin had[r]]_vars

\* A backfill that answers ok has reached every principal that was there from the
\* start and that nobody else has written: its pages miss none of them although
\* the backfill itself moves the principals it tags.
BackfillIsComplete ==
    [][\A r \in Requests :
          req[r].op = "backfill" /\ pc[r] \in Working /\ pc'[r] = "ok" =>
              \A a \in steady[r] :
                  /\ <<"role", a>> \in Existing' /\ <<"entry", a>> \in Existing'
                  /\ a \in Owners => <<"access", a>> \in Existing']_vars

\* An asset that a prune removes is older than the window of the first entry of
\* its class in the policy it read, and the entry says soft delete.
PrunedWasDue ==
    \A r \in Requests : At(r, "cascade") =>
        LET a == mem[r].cur
            classes == mem[r].policy.classes IN
        \E i \in DOMAIN classes :
            /\ classes[i].class = Kind(a) /\ classes[i].disposition = "soft_delete"
            /\ Now - born[a] > classes[i].window
            /\ \A j \in 1..(i - 1) : classes[j].class # Kind(a)

\* The report of a prune: what it calls pruned it has removed, what it has removed
\* it has matched, no other prune removed the same asset, and an asset is matched
\* twice only when a late stamp moved it down.
PruneReportAddsUp ==
    \A r \in Requests :
        /\ Ids(mem[r].pruned) \subseteq gone[r]
        /\ gone[r] \subseteq Ids(mem[r].found)
        /\ \A q \in Requests \ {r} : gone[q] \cap gone[r] = {}
        /\ \A x, y \in mem[r].found : x.id = y.id /\ x # y => x.id \in slipped

\* A prune's walk misses no asset that is due and that no other request writes,
\* unless it ends at the cap.
WalkIsComplete ==
    [][\A r \in Requests :
          At(r, "candidates") /\ pc'[r] \in {"ok", "get"} =>
              \A a \in steady[r] :
                  Kind(a) = req[r].class /\ born[a] < mem[r].cutoff =>
                      a \in Ids(mem'[r].found) \/ Cardinality(mem'[r].found) = Cap]_vars
=============================================================================
