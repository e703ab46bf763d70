-------------------------------- MODULE Reads --------------------------------
(***************************************************************************)
(* The reads of clients, and the permission check before their writes.     *)
(*                                                                         *)
(* A client walks a list page by page.  Each page is a request of its own: *)
(* the caller's groups and its membership of instance-admins are looked    *)
(* up, the page is read, and the rows the caller may not view are dropped. *)
(* A write first reads the asset, then looks the caller up, then writes:   *)
(* a statement each, between those of other requests.                      *)
(***************************************************************************)
EXTENDS Access, Integers

CONSTANTS
    Requests,     \* walks and requests, each begun once
    Asks,         \* the operations a request may ask for
    Callers,      \* principals with the claims of their tokens
    Assets,       \* asset ids: positive numbers, ordered as the keys
    Creator,      \* an asset's created_by
    Instances,    \* the assets tagged as instance types
    Contexts,     \* authorization contexts, "open" for none
    Initially,    \* the contexts assets start with
    Groups,       \* groups of the instance
    Admins,       \* the instance-admins group
    Collections,  \* collection ids: positive numbers
    Trail,        \* the audit entries at the start
    TrailIds,     \* ids of audit entries: positive numbers
    Limits,       \* page sizes clients ask for
    Backends,     \* the stores to look at
    Births,       \* what created_at can be at the start
    MaxEvents,    \* bound: lookups that fail, and changes of groups, collections
                  \* and the trail
    Now           \* the stamp of what is written now

ASSUME ReadsAssumption ==
    /\ Assets \subseteq Nat \ {0} /\ Collections \subseteq Nat \ {0}
    /\ TrailIds \subseteq Nat \ {0} /\ Limits \subseteq Nat \ {0}
    /\ Trail \subseteq [id : TrailIds, at : 0..Now]
    /\ Initially \subseteq [Assets -> Contexts]
    /\ Births \subseteq [Assets -> 0..(Now - 1)]
    /\ Admins \in Groups /\ Instances \subseteq Assets
    /\ MaxEvents \in Nat /\ Now \in Nat \ {0}
    /\ Backends \subseteq {"sqlite", "mongo"}
    /\ IsFiniteSet(Assets) /\ IsFiniteSet(Collections) /\ IsFiniteSet(Trail)
    /\ \A p \in Callers : p = [sub |-> p.sub, spn |-> p.spn, role |-> p.role,
                              told |-> p.told, token |-> p.token]

VARIABLES
    backend,  \* the repositories the store is opened with
    row,      \* the assets table: deleted_at NULL, deleted_at set
    born, at, \* created_at and updated_at
    ctx,      \* the authorization context of an asset
    native,   \* the members of the instance's groups
    colls, trail,
    bypasses, \* the AdminBypass entries: the request and its turn
    events,
    req, pc,
    mem       \* the local variables of a request, the client's of a walk

\* What the tables forget; no action reads it.
VARIABLES
    sure,     \* what a walk has to show when every lookup succeeds
    plain,    \* what it has to show also when some fail
    past      \* the contexts and groups there were since a request began

tables == <<row, born, at, ctx, native, colls, trail, bypasses>>
history == <<sure, plain, past>>
vars == <<backend, events, tables, req, pc, mem, history>>

Ids == Assets \cup Collections \cup TrailIds
Subs == {p.sub : p \in Callers}
Key == [id : Int, at : Int]

Writes == {"edit", "delete", "tag"}
AssetWalks == {"list", "search"}
Request ==
    [op : {"list"}, by : Callers, sort : {"created_at", "updated_at"},
     order : {"asc", "desc"}, limit : Limits]
    \cup [op : {"search"}, by : Callers, limit : Limits]
    \cup [op : {"collections", "trail"}, limit : Limits]
    \cup [op : {"get"} \cup Writes, by : Callers, asset : Assets]
    \cup [op : {"setAuth"}, asset : Assets, ctx : Contexts]
NoRequest == [op |-> "none"]

Working == {"groups", "admin", "page", "filter", "log", "send", "get", "verdict", "write"}
Answers == {"ok", "auth_degraded", "notfound", "forbidden", "failed"}

\* An asset as a query returns it.
Row(a) == [id |-> a, at |-> at[a], by |-> Creator[a], instance |-> a \in Instances,
           vis |-> ctx[a].vis, groups |-> ctx[a].groups]

\* landed: the token's claims came through enrichment.  page, kept: the rows read
\* and those left by the filter.  shown: how often the walk has shown an id.
\* passed: the ids of its cursors.  turn: the page a walk is at.  lost: a lookup
\* has failed.
NoMemory == [landed |-> FALSE, groups |-> {}, bypass |-> FALSE, page |-> {}, kept |-> {},
             cursor |-> NoCursor, shown |-> [i \in Ids |-> 0], passed |-> {},
             turn |-> 0, lost |-> FALSE]

TypeOK ==
    /\ backend \in Backends /\ events \in 0..MaxEvents
    /\ row \in [Assets -> {"live", "deleted"}]
    /\ born \in [Assets -> 0..Now] /\ at \in [Assets -> 0..Now]
    /\ ctx \in [Assets -> Contexts]
    /\ native \subseteq Subs \X Groups
    /\ colls \subseteq Collections /\ trail \subseteq [id : TrailIds, at : 0..Now]
    /\ \A b \in bypasses : b \in Requests \X Nat /\ b[2] <= mem[b[1]].turn
    /\ req \in [Requests -> Request \cup {NoRequest}]
    /\ pc \in [Requests -> {"idle"} \cup Working \cup Answers]
    /\ \A r \in Requests :
          /\ DOMAIN mem[r] = DOMAIN NoMemory
          /\ mem[r].groups \subseteq Groups \cup UNION {p.token : p \in Callers}
          /\ mem[r].kept \subseteq mem[r].page
          /\ mem[r].shown \in [Ids -> Nat] /\ mem[r].passed \subseteq Ids
          /\ mem[r].cursor \in Key
          /\ \A i \in Ids : mem[r].shown[i] <= mem[r].turn
    /\ sure \in [Requests -> SUBSET Ids] /\ plain \in [Requests -> SUBSET Ids]

-----------------------------------------------------------------------------
Live(a) == row[a] = "live"
NativeOf(sub) == {g \in Groups : <<sub, g>> \in native}

\* The caller of r, with the claims of its token and without them: an unenriched
\* principal carries neither role nor groups.
Bare(p) == [p EXCEPT !.role = "none", !.token = {}]
Principal(r) == IF mem[r].landed THEN req[r].by ELSE Bare(req[r].by)

\* classify_enrichment: did a role or a groups claim land?
Degraded(p, landed) == ~landed \/ (p.role = "none" /\ ~p.told)

\* Mutant of ActionOf: a delete is judged as an edit.
ActionOfEdit(op) == CASE op \in {"edit", "delete"} -> "Edit" [] op = "tag" -> "Tag" [] OTHER -> "View"

\* The action of the policies that a request is judged by.
ActionOf(op) == CASE op = "edit" -> "Edit" [] op = "delete" -> "Delete"
                  [] op = "tag" -> "Tag" [] OTHER -> "View"

At(r, label) == pc[r] = label
Reading == UNCHANGED tables
Goto(r, label, m) ==
    /\ pc' = [pc EXCEPT ![r] = label]
    /\ mem' = [mem EXCEPT ![r] = IF label \in Answers THEN [NoMemory EXCEPT !.turn = m.turn] ELSE m]
On(r, label) == Goto(r, label, mem[r])

\* An event is counted against the bound.
Counts(happens) == IF happens THEN events < MaxEvents /\ events' = events + 1
                   ELSE UNCHANGED events

-----------------------------------------------------------------------------
\* resolve_instance_authz: two lookups, one after the other.

\* The groups of the instance join those of the token; a lookup that fails leaves
\* the token's.
ReadGroups(r) ==
    /\ At(r, "groups") /\ Reading
    /\ \E landed, ok \in BOOLEAN :
          LET p == IF landed THEN req[r].by ELSE Bare(req[r].by) IN
          /\ Counts(~landed \/ ~ok)
          /\ Goto(r, "admin", [mem[r] EXCEPT
                 !.landed = landed, !.lost = @ \/ ~landed \/ ~ok,
                 !.groups = p.token \cup (IF ok THEN NativeOf(p.sub) ELSE {})])

\* A failed lookup is no bypass.  A list or search by an unenriched caller without
\* any group is refused, so that it is not answered with an empty page.
ReadAdmin(r) ==
    /\ At(r, "admin") /\ Reading
    /\ \E ok \in BOOLEAN :
          /\ Counts(~ok)
          /\ Goto(r, IF req[r].op \notin AssetWalks THEN "verdict"
                     ELSE IF Degraded(req[r].by, mem[r].landed) /\ mem[r].groups = {}
                     THEN "auth_degraded" ELSE "page",
                  [mem[r] EXCEPT !.bypass = ok /\ Admins \in NativeOf(req[r].by.sub),
                                 !.lost = @ \/ ~ok])

-----------------------------------------------------------------------------
\* A page.

\* Ascending is descending in the negated keys.
Sign(q) == IF q.op = "list" /\ q.order = "asc" THEN -1 ELSE 1
Stamp(q, a) == IF q.op = "list" /\ q.sort = "created_at" THEN born[a] ELSE at[a]
IdOf(k) == IF k.id < 0 THEN -k.id ELSE k.id

Keys(q) ==
    CASE q.op \in AssetWalks ->
             {[id |-> Sign(q) * a, at |-> Sign(q) * Stamp(q, a)] : a \in {b \in Assets : Live(b)}}
      [] q.op = "collections" -> {[id |-> -c, at |-> 0] : c \in colls}
      [] OTHER -> trail

\* Mutant of Rest: the audit list continues after the stamp alone.
RestByStamp(r) ==
    IF req[r].op # "trail" THEN Behind(Keys(req[r]), mem[r].cursor)
    ELSE {x \in trail : mem[r].cursor = NoCursor \/ x.at < mem[r].cursor.at}

\* What is left of a walk; the audit list continues after the id alone.
Rest(r) ==
    IF req[r].op # "trail" THEN Behind(Keys(req[r]), mem[r].cursor)
    ELSE {x \in trail : mem[r].cursor = NoCursor \/ x.id < mem[r].cursor.id}

\* Mutant of CursorOf: the row beyond the page, whatever is listed.
CursorBeyond(r, rest, k) ==
    IF Cardinality(rest) <= k THEN NoCursor
    ELSE CHOOSE x \in First(rest, k + 1) : x \notin First(rest, k)

\* The last row of the page.  SQLite's collection list takes the cursor before it
\* drops the row beyond the page.
CursorOf(r, rest, k) ==
    IF req[r].op # "collections" \/ backend # "sqlite" \/ Cardinality(rest) <= k
    THEN NextCursor(rest, k)
    ELSE CHOOSE x \in First(rest, k + 1) : x \notin First(rest, k)

\* The pages a query may answer.  MongoDB's search does not order equal stamps.
Pages(r) ==
    LET rest == Rest(r)
        k == req[r].limit IN
    IF backend = "mongo" /\ req[r].op = "search" /\ Cardinality(rest) > k
    THEN {p \in [rows : SUBSET rest, next : rest] :
             /\ Cardinality(p.rows) = k /\ p.next \in p.rows
             /\ \A x \in p.rows, y \in rest \ p.rows : x.at >= y.at
             /\ \A x \in p.rows : x.at >= p.next.at}
    ELSE {[rows |-> First(rest, k), next |-> CursorOf(r, rest, k)]}

\* The total beside the page is a count nothing depends on.
ReadPage(r) ==
    /\ At(r, "page") /\ Reading
    /\ \E p \in Pages(r) :
          LET ids == {IdOf(x) : x \in p.rows}
              m == [mem[r] EXCEPT !.cursor = p.next,
                        !.passed = IF p.next = NoCursor THEN @ ELSE @ \cup {IdOf(p.next)}] IN
          IF req[r].op \in AssetWalks
          THEN Goto(r, "filter", [m EXCEPT !.page = {Row(a) : a \in ids}])
          ELSE Goto(r, "send", [m EXCEPT !.page = {[id |-> i] : i \in ids},
                                         !.kept = {[id |-> i] : i \in ids}])

\* Mutant of Visible: the rows of the whole store, not of the page.
VisibleEverywhere(r) ==
    FilterByPermission(Principal(r), mem[r].groups, "View", {Row(a) : a \in {b \in Assets : Live(b)}})

\* The search judges bands, the list rows.
Visible(r) ==
    IF req[r].op = "search" THEN FilterBatched(Principal(r), mem[r].groups, "View", mem[r].page)
    ELSE FilterByPermission(Principal(r), mem[r].groups, "View", mem[r].page)

\* A bypass is only used when some row is enforced, and logged before the answer.
Filter(r) ==
    /\ At(r, "filter") /\ Reading
    /\ IF mem[r].bypass /\ \E x \in mem[r].page : Enforced(x)
       THEN Goto(r, "log", [mem[r] EXCEPT !.kept = mem[r].page])
       ELSE Goto(r, "send", [mem[r] EXCEPT !.kept = Visible(r)])

\* A request that may proceed: a read answers, a write writes.
Granted(r) == On(r, IF req[r].op \in Writes THEN "write" ELSE "ok")

Log(r) ==
    /\ At(r, "log")
    /\ bypasses' = bypasses \cup {<<r, mem[r].turn>>}
    /\ IF req[r].op \in AssetWalks THEN On(r, "send") ELSE Granted(r)
    /\ UNCHANGED <<row, born, at, ctx, native, colls, trail>>

\* How often each id has been shown with this page.
Shown(r) == [i \in Ids |-> mem[r].shown[i] + Cardinality({x \in mem[r].kept : x.id = i})]

\* The page is answered; the client asks for the next, if there is one.
Send(r) ==
    /\ At(r, "send") /\ Reading
    /\ IF mem[r].cursor = NoCursor THEN On(r, "ok")
       ELSE Goto(r, IF req[r].op \in AssetWalks THEN "groups" ELSE "page",
                 [NoMemory EXCEPT !.shown = Shown(r), !.turn = mem[r].turn + 1,
                     !.cursor = mem[r].cursor, !.passed = mem[r].passed, !.lost = mem[r].lost])

-----------------------------------------------------------------------------
\* One asset: read, judged, written.

Get(r) ==
    /\ At(r, "get") /\ Reading
    /\ LET x == Row(req[r].asset) IN
          IF ~Live(req[r].asset) THEN On(r, "notfound")
          ELSE IF Enforced(x) THEN Goto(r, "groups", [mem[r] EXCEPT !.page = {x}])
          ELSE Granted(r)

Verdict(r) ==
    /\ At(r, "verdict") /\ Reading
    /\ IF mem[r].bypass THEN On(r, "log")
       ELSE IF \A x \in mem[r].page :
                  CheckPermission(Principal(r), mem[r].groups, ActionOf(req[r].op), x)
       THEN Granted(r) ELSE On(r, "forbidden")

\* What the services do to the asset, in one step; a stamp may be late.
Write(r) ==
    /\ At(r, "write")
    /\ LET a == req[r].asset IN
          IF ~Live(a) THEN On(r, "notfound") /\ Reading
          ELSE /\ On(r, "ok")
               /\ IF req[r].op = "delete"
                  THEN row' = [row EXCEPT ![a] = "deleted"] /\ UNCHANGED at
                  ELSE (\E t \in {Now, Now - 1} : at' = [at EXCEPT ![a] = t]) /\ UNCHANGED row
               /\ ctx' = IF req[r].op = "setAuth" THEN [ctx EXCEPT ![a] = req[r].ctx] ELSE ctx
               /\ UNCHANGED <<born, native, colls, trail, bypasses>>

Step(r) ==
    \/ ReadGroups(r) \/ ReadAdmin(r)
    \/ /\ \/ ReadPage(r) \/ Filter(r) \/ Log(r) \/ Send(r)
          \/ Get(r) \/ Verdict(r) \/ Write(r)
       /\ UNCHANGED events

\* Mutant of Fail: an entry that cannot be written is only logged.
FailOpen(r) ==
    /\ pc[r] \in Working /\ Reading
    /\ IF At(r, "log") THEN (IF req[r].op \in AssetWalks THEN On(r, "send") ELSE Granted(r))
       ELSE On(r, "failed")

\* The middleware refuses, the store cannot be opened, or a statement fails; a
\* bypass that cannot be logged is none.
Fail(r) == pc[r] \in Working /\ Reading /\ On(r, "failed")

Arrive(r) ==
    /\ At(r, "idle") /\ Reading
    /\ \E q \in {p \in Request : p.op \in Asks[r]} :
          /\ req' = [req EXCEPT ![r] = q]
          /\ Goto(r, CASE q.op \in AssetWalks -> "groups"
                      [] q.op \in {"collections", "trail"} -> "page"
                      [] q.op = "setAuth" -> "write"
                      [] OTHER -> "get",
                  [NoMemory EXCEPT !.turn = 1])

Toggled(S, x) == IF x \in S THEN S \ {x} ELSE S \cup {x}

\* Other requests: a member joins or leaves a group, a collection is created or
\* deleted, an entry is written under an id nobody can foresee.
Edit ==
    /\ Counts(TRUE)
    /\ \/ /\ \E m \in Subs \X Groups : native' = Toggled(native, m)
          /\ UNCHANGED <<colls, trail>>
       \/ /\ \E c \in Collections : colls' = Toggled(colls, c)
          /\ UNCHANGED <<native, trail>>
       \/ /\ \E i \in TrailIds \ {x.id : x \in trail} : trail' = trail \cup {[id |-> i, at |-> Now]}
          /\ UNCHANGED <<native, colls>>
    /\ UNCHANGED <<row, born, at, ctx, bypasses, req, pc, mem>>

-----------------------------------------------------------------------------
\* What a walk has to show: every asset the caller is entitled to by its token and
\* the groups it has had throughout, or that anybody may view; every collection;
\* every entry.
Throughout(natives) == {g \in Groups : \A N \in natives : g \in N}
Entitled(q, G) == {a \in Assets : Live(a) /\
    (Admins \in G \/ CheckPermission(q.by, q.by.token \cup G, "View", Row(a)))}
Unconditional(q) == {a \in Assets : Live(a) /\ CheckPermission(Bare(q.by), {}, "View", Row(a))}

Alone(a) == \A b \in Assets \ {a} : ~Live(b) \/ at[b] # at[a]
Ordered(q) == {a \in Assets : q.op = "search" /\ backend = "mongo" => Alone(a)}

Shows(q, natives) ==
    CASE q.op \in AssetWalks -> Entitled(q, Throughout(natives)) \cap Ordered(q)
      [] q.op = "collections" -> colls
      [] q.op = "trail" -> {x.id : x \in trail}
      [] OTHER -> {}
ShowsAnyone(q) == IF q.op \in AssetWalks THEN Unconditional(q) \cap Ordered(q) ELSE {}

\* A walk by updated_at may miss or repeat what is written meanwhile.
Moved(q) == IF q.op \notin AssetWalks \/ (q.op = "list" /\ q.sort = "created_at") THEN {}
            ELSE {a \in Assets : at'[a] # at[a]}

Seen(q) == [ctxs |-> IF q.op \in Writes THEN {ctx[q.asset]} ELSE {},
            natives |-> IF q.op \in Writes \cup AssetWalks THEN {NativeOf(q.by.sub)} ELSE {}]

Starts(r) == pc[r] = "idle" /\ pc'[r] # "idle"
Observe ==
    LET still(r, before, now) ==
            IF Starts(r) THEN now
            ELSE IF pc'[r] \in Working THEN (before \cap now) \ Moved(req[r]) ELSE {} IN
    /\ past' = [r \in Requests |->
          IF pc'[r] \notin Working THEN Seen(NoRequest)
          ELSE [ctxs |-> past[r].ctxs \cup Seen(req[r])'.ctxs,
                natives |-> past[r].natives \cup Seen(req[r])'.natives]]
    /\ sure' = [r \in Requests |-> still(r, sure[r], Shows(req[r], past[r].natives)')]
    /\ plain' = [r \in Requests |-> still(r, plain[r], ShowsAnyone(req[r])')]

-----------------------------------------------------------------------------
Init ==
    /\ backend \in Backends /\ events = 0
    /\ row = [a \in Assets |-> "live"]
    /\ born \in Births /\ at = born
    /\ ctx \in Initially
    /\ native = {} /\ colls = Collections /\ trail = Trail /\ bypasses = {}
    /\ req = [r \in Requests |-> NoRequest] /\ pc = [r \in Requests |-> "idle"]
    /\ mem = [r \in Requests |-> NoMemory]
    /\ sure = [r \in Requests |-> {}] /\ plain = [r \in Requests |-> {}]
    /\ past = [r \in Requests |-> Seen(NoRequest)]

Next ==
    /\ \/ \E r \in Requests :
              /\ \/ Arrive(r) /\ UNCHANGED events
                 \/ Step(r) /\ UNCHANGED req
                 \/ Fail(r) /\ UNCHANGED <<req, events>>
       \/ Edit
    /\ UNCHANGED backend /\ Observe

Spec == Init /\ [][Next]_vars

-----------------------------------------------------------------------------
\* The permission that a request needs.
Needed == [list |-> "View", search |-> "View", edit |-> "Edit", delete |-> "Delete", tag |-> "Tag"]

\* What is answered without a bypass is what the policies allow row by row: one
\* verdict for a band of a search is the verdict of each of its rows.
BandsAgree ==
    \A r \in Requests :
        At(r, "send") /\ req[r].op \in AssetWalks /\ <<r, mem[r].turn>> \notin bypasses =>
            mem[r].kept = FilterByPermission(Principal(r), mem[r].groups, "View", mem[r].page)

\* No page goes out and no write begins beyond what the policies allow the caller,
\* as it was looked up, without an AdminBypass entry of its own.
BypassIsAudited ==
    \A r \in Requests :
        \/ At(r, "send") /\ req[r].op \in AssetWalks
        \/ At(r, "write") /\ req[r].op \in Writes /\ mem[r].page # {}
        => \/ <<r, mem[r].turn>> \in bypasses
           \/ \A x \in (IF At(r, "send") THEN mem[r].kept ELSE mem[r].page) :
                  CheckPermission(Principal(r), mem[r].groups, Needed[req[r].op], x)

\* A walk over assets that answers its last page has shown once, and once only,
\* each asset that stayed live and visible to the caller and that, in a walk by
\* updated_at, nobody wrote; when a lookup failed, those at least that
\* anybody may view.
WalkIsExact ==
    [][\A r \in Requests :
          At(r, "send") /\ pc'[r] = "ok" /\ req[r].op \in AssetWalks =>
              \A a \in plain[r] \cup (IF mem[r].lost THEN {} ELSE sure[r]) : Shown(r)[a] = 1]_vars

\* A walk over collections shows each one that stayed exactly once; on SQLite those
\* that came just behind a page are never shown.
CollectionsPassedBy ==
    [][\A r \in Requests :
          At(r, "send") /\ pc'[r] = "ok" /\ req[r].op = "collections" =>
              \A c \in sure[r] :
                  Shown(r)[c] = IF backend = "sqlite" /\ c \in mem[r].passed THEN 0 ELSE 1]_vars

\* A walk over the audit list ends, and an entry it has not shown has an id above
\* that of some page's last entry.
EntriesPassedBy ==
    [][\A r \in Requests :
          At(r, "send") /\ pc'[r] = "ok" /\ req[r].op = "trail" =>
              \A i \in sure[r] : Shown(r)[i] > 0 \/ \E j \in mem[r].passed : j < i]_vars

\* An asset is only changed by a caller to whom a context and a set of
\* groups that there were since the request began allow it.
WritesWereAllowed ==
    [][\A r \in Requests :
          At(r, "write") /\ pc'[r] = "ok" /\ req[r].op \in Writes =>
              \E c \in past[r].ctxs, G \in past[r].natives :
                  \/ Admins \in G
                  \/ CheckPermission(req[r].by, req[r].by.token \cup G, Needed[req[r].op],
                         [Row(req[r].asset) EXCEPT !.vis = c.vis, !.groups = c.groups])]_vars
=============================================================================
