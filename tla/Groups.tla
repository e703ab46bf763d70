------------------------------- MODULE Groups -------------------------------
(***************************************************************************)
(* The groups of one store: the bootstrap of the instance-admins group at  *)
(* every store open, the requests that change groups and members, and the  *)
(* resolution of a principal's group names.                                *)
(*                                                                         *)
(* A request is a sequence of statements (pc) that interleave with those   *)
(* of others; each can fail, and the server can stop between any two.  The *)
(* two repositories are one model: backend is chosen at the start.  A      *)
(* group's id is the request that created it, a uuid otherwise.            *)
(* Descriptions and time stamps are left out.                              *)
(***************************************************************************)
EXTENDS Naturals, FiniteSets

CONSTANTS
    Requests,    \* store opens and client requests, each sent once
    Subs,        \* the principals: token subs
    Seeds,       \* PDT_SEED_INSTANCE_ADMINS
    Platform,    \* the principals whose token carries role=admin
    Names,       \* names clients give to groups, Reserved among them
    Reserved,    \* INSTANCE_ADMINS_GROUP
    Fixed,       \* INSTANCE_ADMINS_GROUP_ID
    Boot,        \* the open that prepared a store that is not new
    Old,         \* a group such a store already holds
    Nobody,      \* no principal
    Backends

ASSUME GroupsAssumption ==
    /\ Fixed # Boot /\ Fixed # Old /\ Boot # Old /\ {Fixed, Boot, Old} \cap Requests = {}
    /\ Seeds \subseteq Subs /\ Platform \subseteq Subs /\ Nobody \notin Subs
    /\ Reserved \in Names
    /\ Backends \subseteq {"sqlite", "mongo"}

VARIABLES
    backend,   \* the repositories the store is opened with
    serving,   \* an open has succeeded since the server started
    groups,    \* the groups table
    members,   \* the group_members table; by is the request that put the row
    audit,     \* entries of audit_entries about groups
    req, pc,
    at,        \* the group found by name
    cur,       \* the principal being seeded
    todo,      \* principals or groups a loop has left
    names      \* the names a resolution has found

\* What the tables forget; no action reads it.
VARIABLES
    wasAdmin,  \* everyone who has been an instance admin
    twins,     \* names inserted while another request held a check of that name
    stray,     \* members inserted after their group was gone
    excused,   \* seeds of an open whose insert failed or who were removed again
    unlogged,  \* seeds whose audit entry failed
    some, all  \* the groups a principal has had at some time, all the time, of its
               \* resolution

tables == <<groups, members, audit>>
locals == <<at, cur, todo, names>>
history == <<wasAdmin, twins, stray, excused, unlogged, some, all>>
vars == <<backend, serving, tables, req, pc, locals, history>>

Ids == Requests \cup {Fixed, Boot, Old}
Writers == Requests \cup {Boot}

Group == [id : Ids, name : Names]
Member == [group : Ids, sub : Subs, by : Writers]
Entry == [by : Requests, act : {"create", "delete", "add_member", "remove_member"},
          group : Ids, sub : Subs \cup {Nobody}]

Request ==
    [op : {"open"}]
    \cup [op : {"create"}, caller : Subs, name : Names]
    \cup [op : {"delete"}, caller : Subs, group : Ids]
    \cup [op : {"add", "remove"}, caller : Subs, group : Ids, sub : Subs]
    \cup [op : {"resolve"}, sub : Subs]

NoRequest == [op |-> "none"]

Working == {"migrate", "ensure", "check", "insert", "seed", "list", "list_rows", "next",
            "gate", "gate_row", "get", "put", "drop", "drop_members", "drop_member",
            "log", "names", "name"}
Answers == {"ok", "notfound", "invalid", "conflict", "forbidden", "failed"}

TypeOK ==
    /\ backend \in Backends /\ serving \in BOOLEAN
    /\ groups \subseteq Group /\ members \subseteq Member /\ audit \subseteq Entry
    /\ req \in [Requests -> Request \cup {NoRequest}]
    /\ pc \in [Requests -> {"idle"} \cup Working \cup Answers]
    /\ at \in [Requests -> Ids] /\ cur \in [Requests -> Subs \cup {Nobody}]
    /\ todo \in [Requests -> (SUBSET Subs) \cup (SUBSET Ids)]
    /\ names \in [Requests -> SUBSET Names]
    /\ wasAdmin \subseteq Subs /\ twins \subseteq Names /\ stray \subseteq Member
    /\ excused \subseteq Requests \X Subs /\ unlogged \subseteq Requests \X Subs
    /\ some \in [Requests -> SUBSET Group] /\ all \in [Requests -> SUBSET Group]

-----------------------------------------------------------------------------
\* What the queries answer.

HasGroup(i) == \E g \in groups : g.id = i                        \* get_group
Named(n) == {g \in groups : g.name = n}                          \* get_group_by_name
HasMember(i, s) == \E m \in members : m.group = i /\ m.sub = s
SubsOf(i) == {m.sub : m \in {x \in members : x.group = i}}       \* list_members
GroupsOf(s) == {m.group : m \in {x \in members : x.sub = s}}
Holdings(s) == {g \in groups : g.id \in GroupsOf(s)}
NamesIn(G) == {g.name : g \in G}
NamesOf(s) == NamesIn(Holdings(s))                              \* memberships_for
Admins == UNION {SubsOf(g.id) : g \in Named(Reserved)}

At(r, label) == pc[r] = label
Goto(r, label) == pc' = [pc EXCEPT ![r] = label]
IsOpen(r) == req[r].op = "open"

\* The group a statement is about, and the principal.
Target(r) == IF IsOpen(r) THEN at[r] ELSE req[r].group
Who(r) == IF IsOpen(r) THEN cur[r]
          ELSE IF req[r].op \in {"add", "remove"} THEN req[r].sub ELSE Nobody

\* An open that meets an error fails as a whole.
Refuse(r, answer) == Goto(r, IF IsOpen(r) THEN "failed" ELSE answer)

-----------------------------------------------------------------------------
\* A store open: migration 002 (SQLite), ensure_instance_admins_group and
\* seed_instance_admins.

\* INSERT OR IGNORE: a row of the same id or name makes it a no-op.
Migrate(r) ==
    /\ At(r, "migrate")
    /\ groups' = IF HasGroup(Fixed) \/ Named(Reserved) # {} THEN groups
                 ELSE groups \cup {[id |-> Fixed, name |-> Reserved]}
    /\ Goto(r, "ensure")
    /\ UNCHANGED <<members, audit, locals>>

Ensure(r) ==
    /\ At(r, "ensure")
    /\ Goto(r, IF Named(Reserved) = {} THEN "check"
               ELSE IF Seeds = {} THEN "ok" ELSE "seed")
    /\ UNCHANGED <<tables, locals>>

FindAdmins(r) ==
    /\ At(r, "seed")
    /\ IF Named(Reserved) = {} THEN Goto(r, "failed") /\ UNCHANGED at
       ELSE \E g \in Named(Reserved) : at' = [at EXCEPT ![r] = g.id] /\ Goto(r, "list")
    /\ UNCHANGED <<tables, cur, todo, names>>

ListChecks(r) ==
    /\ At(r, "list")
    /\ Goto(r, IF HasGroup(at[r]) THEN "list_rows" ELSE "failed")
    /\ UNCHANGED <<tables, locals>>

\* Who is a member already is skipped; the order of the others is left open.
ListRows(r) ==
    /\ At(r, "list_rows")
    /\ LET missing == Seeds \ SubsOf(at[r]) IN
          /\ todo' = [todo EXCEPT ![r] = missing]
          /\ Goto(r, IF missing = {} THEN "ok" ELSE "next")
    /\ UNCHANGED <<tables, at, cur, names>>

Onward(r, left) == Goto(r, IF left = {} THEN "ok" ELSE "next")

\* Mutant of GiveUp: one principal's error ends the loop.
GiveUpAll(r, left) == todo' = [todo EXCEPT ![r] = {}] /\ Goto(r, "ok")

\* A principal's error is logged and the loop goes on.
GiveUp(r, left) == todo' = [todo EXCEPT ![r] = left] /\ Onward(r, left)

\* add_member's get_group for the next principal.
SeedNext(r) ==
    /\ At(r, "next")
    /\ \E s \in todo[r] :
          /\ cur' = [cur EXCEPT ![r] = s]
          /\ IF HasGroup(at[r])
             THEN todo' = [todo EXCEPT ![r] = @ \ {s}] /\ Goto(r, "put")
             ELSE GiveUp(r, todo[r] \ {s})
    /\ UNCHANGED <<tables, at, names>>

-----------------------------------------------------------------------------
\* The repositories' writes.

NameToCheck(r) == IF IsOpen(r) THEN Reserved ELSE req[r].name

\* Mutant of CheckName: the insert is trusted to refuse a taken name.
CheckNothing(r) == At(r, "check") /\ Goto(r, "insert") /\ UNCHANGED <<tables, locals>>

\* create_group: the name is looked up, then inserted.
CheckName(r) ==
    /\ At(r, "check")
    /\ IF Named(NameToCheck(r)) = {} THEN Goto(r, "insert") ELSE Refuse(r, "conflict")
    /\ UNCHANGED <<tables, locals>>

\* SQLite ignores a taken name and reports no row; MongoDB has no unique index.
InsertGroup(r) ==
    /\ At(r, "insert")
    /\ IF backend = "sqlite" /\ Named(NameToCheck(r)) # {}
       THEN Refuse(r, "conflict") /\ UNCHANGED groups
       ELSE /\ groups' = groups \cup {[id |-> r, name |-> NameToCheck(r)]}
            /\ Goto(r, IF ~IsOpen(r) THEN "log" ELSE IF Seeds = {} THEN "ok" ELSE "seed")
    /\ UNCHANGED <<members, audit, locals>>

\* Mutant of CheckGroup: nothing protects the instance-admins group.
CheckGroupOnly(r) ==
    /\ At(r, "get")
    /\ IF ~HasGroup(req[r].group) THEN Goto(r, "notfound")
       ELSE IF req[r].op = "add" THEN Goto(r, "put") ELSE Goto(r, "drop")
    /\ UNCHANGED <<tables, locals>>

\* get_group before a delete or an add; the instance-admins id is protected.
CheckGroup(r) ==
    /\ At(r, "get")
    /\ IF ~HasGroup(req[r].group) THEN Goto(r, "notfound")
       ELSE IF req[r].op = "add" THEN Goto(r, "put")
       ELSE Goto(r, IF req[r].group = Fixed THEN "invalid" ELSE "drop")
    /\ UNCHANGED <<tables, locals>>

\* A row that is there already stays as it is: OR IGNORE, or $setOnInsert.
WithMember(r) ==
    members \cup (IF HasMember(Target(r), Who(r)) THEN {}
                  ELSE {[group |-> Target(r), sub |-> Who(r), by |-> r]})

\* INSERT OR IGNORE under a foreign key on SQLite, an upsert on MongoDB.
PutMember(r) ==
    /\ At(r, "put")
    /\ IF backend = "sqlite" /\ ~HasGroup(Target(r))
       THEN /\ IF IsOpen(r) THEN GiveUp(r, todo[r]) ELSE Goto(r, "failed") /\ UNCHANGED todo
            /\ UNCHANGED members
       ELSE /\ members' = WithMember(r)
            /\ Goto(r, "log") /\ UNCHANGED todo
    /\ UNCHANGED <<groups, audit, at, cur, names>>

\* Mutants of DropGroup: the members stay, as without foreign_keys(true); a
\* DELETE that found no row counts as done.
DropGroupAlone(r) ==
    /\ At(r, "drop")
    /\ groups' = {g \in groups : g.id # req[r].group}
    /\ Goto(r, IF ~HasGroup(req[r].group) THEN "notfound"
               ELSE IF backend = "sqlite" THEN "log" ELSE "drop_members")
    /\ UNCHANGED <<members, audit, locals>>
DropGroupTwice(r) ==
    /\ At(r, "drop")
    /\ groups' = {g \in groups : g.id # req[r].group}
    /\ members' = {m \in members : m.group # req[r].group}
    /\ Goto(r, "log")
    /\ UNCHANGED <<audit, locals>>

\* DELETE: no row means another request was first.  SQLite cascades to the
\* members; MongoDB deletes them in a statement of its own.
DropGroup(r) ==
    /\ At(r, "drop")
    /\ groups' = {g \in groups : g.id # req[r].group}
    /\ members' = IF backend = "sqlite" THEN {m \in members : m.group # req[r].group}
                  ELSE members
    /\ Goto(r, IF ~HasGroup(req[r].group) THEN "notfound"
               ELSE IF backend = "sqlite" THEN "log" ELSE "drop_members")
    /\ UNCHANGED <<audit, locals>>

DropMembers(r) ==
    /\ At(r, "drop_members")
    /\ members' = {m \in members : m.group # req[r].group}
    /\ Goto(r, "log")
    /\ UNCHANGED <<groups, audit, locals>>

DropMember(r) ==
    /\ At(r, "drop_member")
    /\ members' = {m \in members : ~(m.group = req[r].group /\ m.sub = req[r].sub)}
    /\ Goto(r, "log")
    /\ UNCHANGED <<groups, audit, locals>>

\* Mutant of Act: the operation of the request instead of the action.
ActOp(r) == req[r].op

Act(r) == CASE req[r].op \in {"open", "add"} -> "add_member"
            [] req[r].op = "remove" -> "remove_member"
            [] OTHER -> req[r].op
EntryOf(r) == [by |-> r, act |-> Act(r), sub |-> Who(r),
               group |-> IF req[r].op = "create" THEN r ELSE Target(r)]

\* Mutant of Log: only client requests write entries.
LogClients(r) ==
    /\ At(r, "log")
    /\ audit' = IF IsOpen(r) THEN audit ELSE audit \cup {EntryOf(r)}
    /\ IF IsOpen(r) THEN Onward(r, todo[r]) ELSE Goto(r, "ok")
    /\ UNCHANGED <<groups, members, locals>>

\* The audit entry, the last statement about a principal or of a request.
Log(r) ==
    /\ At(r, "log")
    /\ audit' = audit \cup {EntryOf(r)}
    /\ IF IsOpen(r) THEN Onward(r, todo[r]) ELSE Goto(r, "ok")
    /\ UNCHANGED <<groups, members, locals>>

-----------------------------------------------------------------------------
\* require_group_manager, and the resolution of a principal's groups.

\* Behind the gate: the reserved name is refused before any statement.
Admitted(q) ==
    CASE q.op = "create" -> IF q.name = Reserved THEN "conflict" ELSE "check"
      [] q.op = "remove" -> "drop_member"
      [] OTHER -> "get"

\* is_instance_admin: the group by its name, then the membership row.
GateGroup(r) ==
    /\ At(r, "gate")
    /\ IF Named(Reserved) = {} THEN Goto(r, "forbidden") /\ UNCHANGED at
       ELSE \E g \in Named(Reserved) : at' = [at EXCEPT ![r] = g.id] /\ Goto(r, "gate_row")
    /\ UNCHANGED <<tables, cur, todo, names>>

GateRow(r) ==
    /\ At(r, "gate_row")
    /\ Goto(r, IF HasMember(at[r], req[r].caller) THEN Admitted(req[r]) ELSE "forbidden")
    /\ UNCHANGED <<tables, locals>>

\* memberships_for: a join on SQLite; on MongoDB the rows, then group by group.
ResolveRows(r) ==
    /\ At(r, "names")
    /\ IF backend = "sqlite"
       THEN names' = [names EXCEPT ![r] = NamesOf(req[r].sub)] /\ Goto(r, "ok") /\ UNCHANGED todo
       ELSE /\ todo' = [todo EXCEPT ![r] = GroupsOf(req[r].sub)]
            /\ Goto(r, IF GroupsOf(req[r].sub) = {} THEN "ok" ELSE "name")
            /\ UNCHANGED names
    /\ UNCHANGED <<tables, at, cur>>

NextName(r, left) ==
    /\ todo' = [todo EXCEPT ![r] = left]
    /\ Goto(r, IF left = {} THEN "ok" ELSE "name")

\* Mutant of ResolveName: only the first group is looked up.
ResolveOne(r) ==
    /\ At(r, "name")
    /\ \E i \in todo[r] :
          /\ names' = [names EXCEPT ![r] = @ \cup NamesIn({g \in groups : g.id = i})]
          /\ NextName(r, {})
    /\ UNCHANGED <<tables, at, cur>>

\* A row whose group is gone gives no name.
ResolveName(r) ==
    /\ At(r, "name")
    /\ \E i \in todo[r] :
          /\ names' = [names EXCEPT ![r] = @ \cup NamesIn({g \in groups : g.id = i})]
          /\ NextName(r, todo[r] \ {i})
    /\ UNCHANGED <<tables, at, cur>>

Step(r) ==
    \/ Migrate(r) \/ Ensure(r) \/ FindAdmins(r) \/ ListChecks(r) \/ ListRows(r)
    \/ SeedNext(r) \/ CheckName(r) \/ InsertGroup(r) \/ CheckGroup(r) \/ PutMember(r)
    \/ DropGroup(r) \/ DropMembers(r) \/ DropMember(r) \/ Log(r)
    \/ GateGroup(r) \/ GateRow(r) \/ ResolveRows(r) \/ ResolveName(r)

-----------------------------------------------------------------------------
\* Mutant of Fail: an error of the gate's reads lets the request through.
FailOpenGate(r) ==
    /\ pc[r] \in Working
    /\ CASE At(r, "gate") \/ At(r, "gate_row") -> Goto(r, Admitted(req[r])) /\ UNCHANGED <<cur, todo>>
         [] At(r, "next") ->
                \E s \in todo[r] : cur' = [cur EXCEPT ![r] = s] /\ GiveUp(r, todo[r] \ {s})
         [] IsOpen(r) /\ pc[r] \in {"put", "log"} -> GiveUp(r, todo[r]) /\ UNCHANGED cur
         [] At(r, "name") -> (\E i \in todo[r] : NextName(r, todo[r] \ {i})) /\ UNCHANGED cur
         [] OTHER -> Goto(r, "failed") /\ UNCHANGED <<cur, todo>>
    /\ UNCHANGED <<tables, at, names>>

\* A statement of r fails.  An error of the gate counts as not an admin, one of
\* a principal's seeding or of a name's lookup is passed over, any other ends
\* the request.
Fail(r) ==
    /\ pc[r] \in Working
    /\ CASE At(r, "gate") \/ At(r, "gate_row") -> Goto(r, "forbidden") /\ UNCHANGED <<cur, todo>>
         [] At(r, "next") ->
                \E s \in todo[r] : cur' = [cur EXCEPT ![r] = s] /\ GiveUp(r, todo[r] \ {s})
         [] IsOpen(r) /\ pc[r] \in {"put", "log"} -> GiveUp(r, todo[r]) /\ UNCHANGED cur
         [] At(r, "name") -> (\E i \in todo[r] : NextName(r, todo[r] \ {i})) /\ UNCHANGED cur
         [] OTHER -> Goto(r, "failed") /\ UNCHANGED <<cur, todo>>
    /\ UNCHANGED <<tables, at, names>>

\* An instance's SQLite store is opened by every lookup that misses the cache,
\* the MongoDB store once by a starting server.
MayOpen == backend = "sqlite" \/ (~serving /\ \A r \in Requests : pc[r] \notin Working)

First(q) ==
    CASE q.op = "open" -> IF backend = "sqlite" THEN "migrate" ELSE "ensure"
      [] q.op = "resolve" -> "names"
      [] OTHER -> "gate"

\* A platform admin passes the gate without a read.
Arrive(r) ==
    /\ pc[r] = "idle"
    /\ \E q \in Request :
          /\ IF q.op = "open" THEN MayOpen ELSE serving
          /\ q.op \in {"delete", "add", "remove"} => q.group \notin {i \in Requests : pc[i] = "idle"}
          /\ req' = [req EXCEPT ![r] = q]
          /\ pc' = [pc EXCEPT ![r] =
                       IF q.op \in {"open", "resolve"} \/ q.caller \notin Platform
                       THEN First(q) ELSE Admitted(q)]
    /\ UNCHANGED <<tables, locals>>

\* The server stops: every request ends where it stands.
Crash ==
    /\ \E r \in Requests : pc[r] \in Working
    /\ pc' = [r \in Requests |-> IF pc[r] \in Working THEN "failed" ELSE pc[r]]
    /\ serving' = FALSE
    /\ UNCHANGED <<backend, tables, req, locals>>

\* The store is handed out once it is open.
Serve(r) ==
    /\ serving' = (serving \/ (IsOpen(r) /\ pc'[r] = "ok"))
    /\ UNCHANGED backend

Row(q, s) == [group : {at[q]}, sub : {s}, by : Writers]
Seeding(q) == IsOpen(q) /\ pc[q] \in {"next", "put", "log"}
Resolving(q) == req'[q].op = "resolve" /\ pc[q] \in {"idle", "names", "name"}

\* A step of r; a lookup that failed is one its resolution misses.
Observe(r, failed) ==
    /\ wasAdmin' = wasAdmin \cup Admins'
    /\ twins' = twins \cup {g.name : g \in {x \in groups' \ groups :
          \E q \in Requests \ {r} : At(q, "insert") /\ NameToCheck(q) = x.name}}
    /\ stray' = stray \cup {m \in members' \ members : \A g \in groups' : g.id # m.group}
    /\ excused' = excused
          \cup {e \in Requests \X Seeds :
                   Seeding(e[1]) /\ Row(e[1], e[2]) \cap (members \ members') # {}}
          \cup {<<r, s>> : s \in {x \in Seeds \cap {cur'[r]} :
                   Seeding(r) /\ pc[r] # "log" /\ pc'[r] # "put" /\ Row(r, x) \cap members' = {}}}
    /\ unlogged' = unlogged \cup
          (IF failed /\ IsOpen(r) /\ At(r, "log") THEN {<<r, cur[r]>>} ELSE {})
    /\ some' = [q \in Requests |->
          IF Resolving(q) THEN some[q] \cup Holdings(req[q].sub)' ELSE some[q]]
    /\ all' = [q \in Requests |->
          IF ~Resolving(q) THEN all[q]
          ELSE {g \in Holdings(req[q].sub)' : At(q, "idle") \/ g \in all[q]}
                  \ (IF failed /\ q = r /\ At(q, "name")
                     THEN {g \in groups : g.id \in todo[q] \ todo'[q]} ELSE {})]

\* A new store is empty; one that has been open before holds the instance-admins
\* group with those seeds nobody has removed, and another group.
AdminsId(b) == IF b = "sqlite" THEN Fixed ELSE Boot
Init ==
    /\ backend \in Backends
    /\ \/ groups = {} /\ members = {} /\ serving = FALSE
       \/ /\ serving = TRUE
          /\ \E n \in Names \ {Reserved} :
                groups = {[id |-> AdminsId(backend), name |-> Reserved], [id |-> Old, name |-> n]}
          /\ \E S \in SUBSET Seeds :
                members = [group : {AdminsId(backend)}, sub : S, by : {Boot}]
    /\ audit = {}
    /\ req = [r \in Requests |-> NoRequest] /\ pc = [r \in Requests |-> "idle"]
    /\ at = [r \in Requests |-> Fixed] /\ cur = [r \in Requests |-> Nobody]
    /\ todo = [r \in Requests |-> {}] /\ names = [r \in Requests |-> {}]
    /\ wasAdmin = Admins /\ twins = {} /\ stray = {} /\ excused = {} /\ unlogged = {}
    /\ some = [r \in Requests |-> {}] /\ all = [r \in Requests |-> {}]

Next ==
    \/ \E r \in Requests :
          /\ \/ Arrive(r) /\ Observe(r, FALSE)
             \/ Step(r) /\ UNCHANGED req /\ Observe(r, FALSE)
             \/ Fail(r) /\ UNCHANGED req /\ Observe(r, TRUE)
          /\ Serve(r)
    \/ Crash /\ UNCHANGED history

Spec == Init /\ [][Next]_vars

-----------------------------------------------------------------------------
\* A name stands for one group: always on SQLite, on MongoDB unless two creates
\* held their checks of it at once; and the name the admin bypass goes by is
\* never among those.
NamesAreUnique ==
    \A g, h \in groups : g.name = h.name /\ g # h =>
        backend = "mongo" /\ g.name \in twins /\ g.name # Reserved

\* A store that is being served has its instance-admins group, whoever deletes
\* groups: on SQLite, where the group carries the protected id.
AdminsGroupStays ==
    backend = "sqlite" /\ serving => [id |-> Fixed, name |-> Reserved] \in groups

\* A member row belongs to a group.  Only MongoDB leaves one behind: while, or
\* because, a delete did not get to its second statement, or when an insert that
\* had found the group came after it was gone.
MembersHaveAGroup ==
    \A m \in members : HasGroup(m.group) \/
        /\ backend = "mongo"
        /\ \/ m \in stray
           \/ \E r \in Requests : /\ pc[r] \in {"drop_members", "failed"}
                                  /\ req[r].op = "delete" /\ req[r].group = m.group

\* However many deletes of one group race, one of them is answered ok and writes
\* the entry, and then the group is gone for good.
OneGroupDeletion ==
    \A i \in Ids :
        LET deletions == {e \in audit : e.act = "delete" /\ e.group = i} IN
        Cardinality(deletions) <= 1 /\ (deletions # {} => ~HasGroup(i))

\* Who is a member is in the audit trail: the entry of the request that put the
\* row is written, or about to be, or was lost with a failed request or a failed
\* seed entry.
MembershipsAreAudited ==
    \A m \in members :
        \/ m.by = Boot \/ <<m.by, m.sub>> \in unlogged
        \/ pc[m.by] \in {"log", "failed"}
        \/ \E e \in audit : e.by = m.by /\ e.act = "add_member"
                            /\ e.group = m.group /\ e.sub = m.sub

\* Groups and members change only by an open, or for a platform admin, or for
\* someone who is or has been an instance admin, or (MongoDB) whose membership
\* was stored when its group was gone: the gate fails closed.
ChangedByManagers ==
    [][\A r \in Requests :
          pc[r] \in Working /\ pc'[r] # pc[r] /\ <<groups, members>>' # <<groups, members>> =>
              IsOpen(r) \/ req[r].caller \in Platform \cup wasAdmin \cup {m.sub : m \in stray}]_vars

\* When an open succeeds every seed is an instance admin, except whose own insert
\* failed and who was removed meanwhile: one seed's error costs no other.
SeedsLand ==
    [][\A r \in Requests :
          IsOpen(r) /\ pc[r] \in Working /\ pc'[r] = "ok" =>
              \A s \in Seeds : s \in Admins' \/ <<r, s>> \in excused']_vars

\* The names a resolution answers were the principal's at some time while it ran,
\* and none is missing that was the principal's all the time, a lookup that
\* failed aside.
ResolutionIsCurrent ==
    \A r \in Requests :
        req[r].op = "resolve" /\ At(r, "ok") =>
            names[r] \subseteq NamesIn(some[r]) /\ NamesIn(all[r]) \subseteq names[r]
=============================================================================
