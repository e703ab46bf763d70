---------------------------- MODULE GroupsProofs ----------------------------
(***************************************************************************)
(* What the groups of a store guarantee for every number of principals,    *)
(* groups, store opens and client requests, on both repositories.          *)
(***************************************************************************)
EXTENDS Groups, FiniteSetTheorems, TLAPS

(* What a label says of the request that is at it.                         *)

Opened == {"migrate", "ensure", "seed", "list", "list_rows", "next"}

Labels(r) ==
    /\ pc[r] # "idle" => req[r] \in Request
    /\ pc[r] \in Opened => req[r].op = "open"
    /\ pc[r] \in {"check", "insert"} => req[r].op \in {"open", "create"}
    /\ pc[r] \in {"gate", "gate_row"} => req[r].op \in {"create", "delete", "add", "remove"}
    /\ pc[r] = "get" => req[r].op \in {"delete", "add"}
    /\ pc[r] = "put" => req[r].op \in {"open", "add"}
    /\ pc[r] \in {"drop", "drop_members"} => req[r].op = "delete"
    /\ pc[r] = "drop_member" => req[r].op = "remove"
    /\ pc[r] = "log" => req[r].op # "resolve"
    /\ pc[r] \in {"names", "name"} => req[r].op = "resolve"
    /\ pc[r] = "migrate" => backend = "sqlite"
    /\ pc[r] \in {"drop_members", "name"} => backend = "mongo"

\* No client creates a second instance-admins group, or deletes the protected.
Unreserved(r) ==
    /\ req[r].op = "create" /\ pc[r] \in {"check", "insert", "log"} => req[r].name # Reserved
    /\ req[r].op = "delete" /\ pc[r] \in {"drop", "drop_members", "log"} => req[r].group # Fixed

\* What an open works through are seeds.
SeedData(r) ==
    /\ pc[r] = "idle" => req[r] = NoRequest /\ todo[r] = {} /\ names[r] = {}
    /\ req[r].op = "open" => todo[r] \subseteq Seeds
    /\ req[r].op = "open" /\ pc[r] \in {"put", "log"} => cur[r] \in Seeds

Shape == TypeOK /\ \A r \in Requests : Labels(r) /\ Unreserved(r) /\ SeedData(r)

-----------------------------------------------------------------------------
LEMMA RequestFields ==
    ASSUME NEW q \in Request
    PROVE  /\ q.op \in {"open", "create", "delete", "add", "remove", "resolve"}
           /\ q.op \in {"create", "delete", "add", "remove"} => q.caller \in Subs
           /\ q.op = "create" => q.name \in Names
           /\ q.op \in {"delete", "add", "remove"} => q.group \in Ids
           /\ q.op \in {"add", "remove", "resolve"} => q.sub \in Subs
BY DEF Request

\* Where a request goes from idle, and behind the gate.
LEMMA Entrances ==
    ASSUME NEW q \in Request
    PROVE  /\ q.op = "open" => First(q) = IF backend = "sqlite" THEN "migrate" ELSE "ensure"
           /\ q.op = "resolve" => First(q) = "names"
           /\ q.op \notin {"open", "resolve"} => First(q) = "gate"
           /\ q.op = "create" => Admitted(q) = IF q.name = Reserved THEN "conflict" ELSE "check"
           /\ q.op = "remove" => Admitted(q) = "drop_member"
           /\ q.op \in {"delete", "add"} => Admitted(q) = "get"
BY RequestFields DEF First, Admitted

\* The parts of the state a request's own step does not reach.
Elsewhere(r) ==
    \A x \in Requests \ {r} :
        /\ pc'[x] = pc[x] /\ req'[x] = req[x] /\ at'[x] = at[x] /\ cur'[x] = cur[x]
        /\ todo'[x] = todo[x] /\ names'[x] = names[x]

\* An arrival.
LEMMA ArriveFacts ==
    ASSUME TypeOK, NEW r \in Requests, Arrive(r)
    PROVE  /\ UNCHANGED <<groups, members, audit, at, cur, todo, names>>
           /\ Elsewhere(r) /\ pc[r] = "idle"
           /\ pc' \in [Requests -> {"idle"} \cup Working \cup Answers]
           /\ req' \in [Requests -> Request \cup {NoRequest}]
           /\ req'[r] \in Request
           /\ req'[r].op = "open" => MayOpen
           /\ req'[r].op # "open" => serving
           /\ \/ pc'[r] = First(req'[r])
              \/ /\ pc'[r] = Admitted(req'[r])
                 /\ req'[r].op \notin {"open", "resolve"} /\ req'[r].caller \in Platform
           /\ req'[r].op \in {"delete", "add", "remove"} =>
                  req'[r].group \notin {i \in Requests : pc[i] = "idle"}
<1>1. UNCHANGED <<groups, members, audit, at, cur, todo, names>> /\ pc[r] = "idle"
  BY Zenon DEF Arrive, tables, locals
<1>2. PICK q \in Request :
          /\ IF q.op = "open" THEN MayOpen ELSE serving
          /\ q.op \in {"delete", "add", "remove"} => q.group \notin {i \in Requests : pc[i] = "idle"}
          /\ req' = [req EXCEPT ![r] = q]
          /\ pc' = [pc EXCEPT ![r] =
                       IF q.op \in {"open", "resolve"} \/ q.caller \notin Platform
                       THEN First(q) ELSE Admitted(q)]
  BY Zenon DEF Arrive
<1>3. First(q) \in Working \cup Answers
  BY Entrances, RequestFields DEF Working, Answers
<1>4. q.op \notin {"open", "resolve"} => Admitted(q) \in Working \cup Answers
  BY Entrances, RequestFields DEF Working, Answers
<1>5. req'[r] = q
  BY <1>2 DEF TypeOK
<1>6. \/ pc'[r] = First(q)
      \/ pc'[r] = Admitted(q) /\ q.op \notin {"open", "resolve"} /\ q.caller \in Platform
  BY <1>2 DEF TypeOK
<1>7. pc' \in [Requests -> {"idle"} \cup Working \cup Answers]
  BY <1>2, <1>3, <1>4 DEF TypeOK
<1>8. req' \in [Requests -> Request \cup {NoRequest}]
  BY <1>2 DEF TypeOK
<1>9. Elsewhere(r)
  BY <1>1, <1>2 DEF TypeOK, Elsewhere
<1> QED BY <1>1, <1>2, <1>5, <1>6, <1>7, <1>8, <1>9

\* A statement, done or failed.
LEMMA StepFacts ==
    ASSUME Shape, NEW r \in Requests, Step(r) \/ Fail(r), UNCHANGED req
    PROVE  /\ Elsewhere(r)
           /\ pc[r] \in Working /\ pc'[r] \in Working \cup Answers
           /\ pc' \in [Requests -> {"idle"} \cup Working \cup Answers]
<1>0. TypeOK
  BY DEF Shape
<1> USE <1>0 DEF TypeOK, Elsewhere, At, Goto, Working, Answers
<1>1. CASE Migrate(r) \/ Ensure(r) \/ FindAdmins(r) \/ ListChecks(r) \/ ListRows(r)
  BY <1>1 DEF Migrate, Ensure, FindAdmins, ListChecks, ListRows, tables, locals
<1>2. CASE SeedNext(r)
  BY <1>2 DEF SeedNext, GiveUp, Onward, tables
<1>3. CASE CheckName(r) \/ InsertGroup(r)
  BY <1>3 DEF CheckName, InsertGroup, Refuse, tables, locals
<1>4. CASE CheckGroup(r)
  <2>1. req[r].op \in {"delete", "add"}
    BY <1>4 DEF CheckGroup, Shape, Labels
  <2> QED BY <1>4, <2>1 DEF CheckGroup, tables, locals
<1>5. CASE PutMember(r)
  BY <1>5 DEF PutMember, GiveUp, Onward
<1>6. CASE DropGroup(r) \/ DropMembers(r) \/ DropMember(r) \/ Log(r)
  BY <1>6 DEF DropGroup, DropMembers, DropMember, Log, Onward, locals
<1>7. CASE GateGroup(r) \/ GateRow(r)
  <2>1. req[r] \in Request /\ req[r].op \in {"create", "delete", "add", "remove"}
    BY <1>7 DEF GateGroup, GateRow, Shape, Labels
  <2>2. Admitted(req[r]) \in {"conflict", "check", "drop_member", "get"}
    BY <2>1, Entrances
  <2> QED BY <1>7, <2>2 DEF GateGroup, GateRow, tables, locals
<1>8. CASE ResolveRows(r) \/ ResolveName(r)
  BY <1>8 DEF ResolveRows, ResolveName, NextName, tables
<1>9. CASE Fail(r)
  BY <1>9 DEF Fail, NextName, GiveUp, Onward, tables
<1> QED BY <1>1, <1>2, <1>3, <1>4, <1>5, <1>6, <1>7, <1>8, <1>9 DEF Step

\* Every label fits the request that comes to it.
LEMMA StepFits ==
    ASSUME Shape, NEW r \in Requests, Step(r) \/ Fail(r), UNCHANGED <<req, backend>>
    PROVE  \A x \in Requests : (Labels(x) /\ Unreserved(x) /\ SeedData(x))'
<1>1. Elsewhere(r)
  BY StepFacts
<1>2. \A x \in Requests \ {r} : (Labels(x) /\ Unreserved(x) /\ SeedData(x))'
  BY <1>1 DEF Elsewhere, Shape, Labels, Unreserved, SeedData
<1>3. /\ pc \in [Requests -> {"idle"} \cup Working \cup Answers]
      /\ cur \in [Requests -> Subs \cup {Nobody}]
      /\ todo \in [Requests -> (SUBSET Subs) \cup (SUBSET Ids)]
      /\ names \in [Requests -> SUBSET Names]
      /\ Labels(r) /\ Unreserved(r) /\ SeedData(r) /\ req' = req /\ backend' = backend
      /\ backend \in {"sqlite", "mongo"}
  BY GroupsAssumption DEF Shape, TypeOK
<1>4. (Labels(r) /\ Unreserved(r) /\ SeedData(r))'
  <2> USE <1>3 DEF Labels, Unreserved, SeedData, Opened, At, Goto, Answers
  <2>1. CASE Migrate(r) \/ Ensure(r) \/ FindAdmins(r) \/ ListChecks(r) \/ ListRows(r)
    BY <2>1 DEF Migrate, Ensure, FindAdmins, ListChecks, ListRows, tables, locals
  <2>2. CASE SeedNext(r)
    BY <2>2 DEF SeedNext, GiveUp, Onward, tables
  <2>3. CASE CheckName(r) \/ InsertGroup(r)
    BY <2>3 DEF CheckName, InsertGroup, Refuse, IsOpen, tables, locals
  <2>4. CASE CheckGroup(r)
    BY <2>4 DEF CheckGroup, tables, locals
  <2>5. CASE PutMember(r)
    BY <2>5 DEF PutMember, GiveUp, Onward, IsOpen
  <2>6. CASE DropGroup(r) \/ DropMembers(r) \/ DropMember(r)
    BY <2>6 DEF DropGroup, DropMembers, DropMember, locals
  <2>7. CASE Log(r)
    BY <2>7 DEF Log, Onward, IsOpen, locals
  <2>8. CASE GateGroup(r)
    BY <2>8 DEF GateGroup, tables
  <2>9. CASE GateRow(r)
    <3>1. req[r] \in Request /\ req[r].op \in {"create", "delete", "add", "remove"}
      BY <2>9 DEF GateRow
    <3>2. /\ UNCHANGED locals
          /\ pc'[r] \in {Admitted(req[r]), "forbidden"}
      BY <2>9 DEF GateRow
    <3> QED BY <3>1, <3>2, Entrances DEF locals
  <2>10. CASE ResolveRows(r) \/ ResolveName(r)
    BY <2>10 DEF ResolveRows, ResolveName, NextName, tables
  <2>11. CASE Fail(r)
    <3>1. /\ pc'[r] \in {"forbidden", "failed", "ok", "next", "name"}
          /\ pc'[r] = "next" => req[r].op = "open"
          /\ pc'[r] = "name" => pc[r] = "name"
          /\ todo'[r] \subseteq todo[r] /\ pc[r] # "idle"
      BY <2>11 DEF Fail, NextName, GiveUp, Onward, IsOpen, Working
    <3> QED BY <3>1
  <2> QED BY <2>1, <2>2, <2>3, <2>4, <2>5, <2>6, <2>7, <2>8, <2>9, <2>10, <2>11 DEF Step
<1> QED BY <1>2, <1>4

\* What a statement does to the tables.
LEMMA StepTables ==
    ASSUME NEW r \in Requests, Step(r) \/ Fail(r)
    PROVE  /\ groups' = groups \/ Migrate(r) \/ InsertGroup(r) \/ DropGroup(r)
           /\ members' = members \/ PutMember(r) \/ DropGroup(r) \/ DropMembers(r) \/ DropMember(r)
           /\ audit' = audit \/ Log(r)
<1>1. CASE Migrate(r) \/ InsertGroup(r) \/ DropGroup(r) \/ PutMember(r) \/ DropMembers(r)
           \/ DropMember(r) \/ Log(r)
  BY <1>1, Zenon DEF Migrate, InsertGroup, DropGroup, PutMember, DropMembers, DropMember, Log
<1>2. CASE UNCHANGED tables
  BY <1>2 DEF tables
<1>3. CASE ~(Migrate(r) \/ InsertGroup(r) \/ DropGroup(r) \/ PutMember(r) \/ DropMembers(r)
             \/ DropMember(r) \/ Log(r)) /\ ~UNCHANGED tables
  BY <1>3, Zenon DEF Step, Ensure, FindAdmins, ListChecks, ListRows, SeedNext, CheckName,
     CheckGroup, GateGroup, GateRow, ResolveRows, ResolveName, Fail
<1> QED BY <1>1, <1>2, <1>3

\* The tables and the locals keep their types.
LEMMA StepTypes ==
    ASSUME Shape, NEW r \in Requests, Step(r) \/ Fail(r), UNCHANGED <<req, backend>>
    PROVE  /\ groups' \subseteq Group /\ members' \subseteq Member /\ audit' \subseteq Entry
           /\ at' \in [Requests -> Ids] /\ cur' \in [Requests -> Subs \cup {Nobody}]
           /\ todo' \in [Requests -> (SUBSET Subs) \cup (SUBSET Ids)]
           /\ names' \in [Requests -> SUBSET Names]
<1>1. /\ groups \subseteq Group /\ members \subseteq Member /\ audit \subseteq Entry
      /\ at \in [Requests -> Ids] /\ cur \in [Requests -> Subs \cup {Nobody}]
      /\ todo \in [Requests -> (SUBSET Subs) \cup (SUBSET Ids)]
      /\ names \in [Requests -> SUBSET Names]
      /\ Labels(r) /\ SeedData(r)
  BY DEF Shape, TypeOK
<1>2. r \in Ids /\ r \in Writers /\ Fixed \in Ids /\ Reserved \in Names /\ Seeds \subseteq Subs
  BY GroupsAssumption DEF Ids, Writers
<1>3. groups' \subseteq Group
  <2>1. CASE Migrate(r)
    BY <2>1, <1>1, <1>2 DEF Migrate, Group
  <2>2. CASE InsertGroup(r)
    <3>1. NameToCheck(r) \in Names
      BY <2>2, <1>1, <1>2, RequestFields DEF InsertGroup, At, NameToCheck, IsOpen, Labels
    <3> QED BY <2>2, <3>1, <1>1, <1>2 DEF InsertGroup, Group
  <2>3. CASE DropGroup(r)
    BY <2>3, <1>1 DEF DropGroup
  <2> QED BY <2>1, <2>2, <2>3, <1>1, StepTables
<1>4. members' \subseteq Member
  <2>1. CASE PutMember(r)
    <3>1. Target(r) \in Ids /\ Who(r) \in Subs
      BY <2>1, <1>1, <1>2, RequestFields
         DEF PutMember, At, Target, Who, IsOpen, Labels, SeedData
    <3> QED BY <2>1, <3>1, <1>1, <1>2 DEF PutMember, WithMember, Member
  <2>2. CASE DropGroup(r) \/ DropMembers(r) \/ DropMember(r)
    BY <2>2, <1>1 DEF DropGroup, DropMembers, DropMember
  <2> QED BY <2>1, <2>2, <1>1, StepTables
<1>5. audit' \subseteq Entry
  <2>1. CASE Log(r)
    <3>1. req[r] \in Request /\ req[r].op # "resolve"
      BY <2>1, <1>1 DEF Log, At, Labels
    <3>2. /\ Act(r) \in {"create", "delete", "add_member", "remove_member"}
          /\ Who(r) \in Subs \cup {Nobody}
          /\ req[r].op = "create" \/ Target(r) \in Ids
      BY <3>1, <1>1, RequestFields DEF Act, Who, Target, IsOpen
    <3>3. EntryOf(r) \in Entry
      BY <3>2, <1>2 DEF EntryOf, Entry
    <3> QED BY <2>1, <3>3, <1>1 DEF Log
  <2> QED BY <2>1, <1>1, StepTables
<1>6. at' \in [Requests -> Ids]
  <2>1. at' = at \/ \E g \in groups : at' = [at EXCEPT ![r] = g.id]
    <3>1. CASE FindAdmins(r) \/ GateGroup(r)
      BY <3>1, Zenon DEF FindAdmins, GateGroup, Named
    <3>2. CASE ~FindAdmins(r) /\ ~GateGroup(r)
      BY <3>2, Zenon DEF Step, Migrate, Ensure, ListChecks, ListRows, SeedNext, CheckName,
         InsertGroup, CheckGroup, PutMember, DropGroup, DropMembers, DropMember, Log,
         GateRow, ResolveRows, ResolveName, Fail, locals
    <3> QED BY <3>1, <3>2
  <2>2. \A g \in groups : g.id \in Ids
    BY <1>1 DEF Group
  <2> QED BY <2>1, <2>2, <1>1
<1>7. names' \in [Requests -> SUBSET Names]
  <2>1. \A G \in SUBSET groups : NamesIn(G) \subseteq Names
    BY <1>1 DEF NamesIn, Group
  <2>2. CASE ResolveRows(r)
    <3>1. NamesOf(req[r].sub) \subseteq Names
      BY <2>1 DEF NamesOf, Holdings
    <3> QED BY <2>2, <3>1, <1>1 DEF ResolveRows
  <2>3. CASE ResolveName(r)
    <3>1. PICK i \in todo[r] :
             names' = [names EXCEPT ![r] = @ \cup NamesIn({g \in groups : g.id = i})]
      BY <2>3, Zenon DEF ResolveName
    <3>2. NamesIn({g \in groups : g.id = i}) \subseteq Names
      BY <2>1
    <3> QED BY <3>1, <3>2, <1>1
  <2>4. CASE ~ResolveRows(r) /\ ~ResolveName(r)
    <3>1. names' = names
      BY <2>4, Zenon DEF Step, Migrate, Ensure, FindAdmins, ListChecks, ListRows, SeedNext,
         CheckName, InsertGroup, CheckGroup, PutMember, DropGroup, DropMembers, DropMember,
         Log, GateGroup, GateRow, Fail, locals
    <3> QED BY <3>1, <1>1
  <2> QED BY <2>2, <2>3, <2>4
<1>8. /\ cur' \in [Requests -> Subs \cup {Nobody}]
      /\ todo' \in [Requests -> (SUBSET Subs) \cup (SUBSET Ids)]
  <2>1. \A S : S \subseteq todo[r] => S \in (SUBSET Subs) \cup (SUBSET Ids)
    BY <1>1
  <2>2. pc[r] = "next" => todo[r] \subseteq Subs
    BY <1>1, <1>2 DEF SeedData, Labels, Opened
  <2> USE <1>1, <1>2, <2>1, <2>2 DEF At, Goto
  <2>3. CASE ListRows(r)
    BY <2>3 DEF ListRows
  <2>4. CASE SeedNext(r)
    BY <2>4 DEF SeedNext, GiveUp
  <2>5. CASE PutMember(r)
    BY <2>5 DEF PutMember, GiveUp
  <2>6. CASE ResolveRows(r)
    <3>1. GroupsOf(req[r].sub) \subseteq Ids
      BY DEF GroupsOf, Member
    <3> QED BY <2>6, <3>1 DEF ResolveRows
  <2>7. CASE ResolveName(r)
    BY <2>7 DEF ResolveName, NextName
  <2>8. CASE Fail(r)
    <3>1. CASE UNCHANGED <<cur, todo>>
      BY <3>1
    <3>2. CASE At(r, "next") /\ \E s \in todo[r] : cur' = [cur EXCEPT ![r] = s]
                                               /\ GiveUp(r, todo[r] \ {s})
      BY <3>2 DEF GiveUp
    <3>3. CASE UNCHANGED cur /\ GiveUp(r, todo[r])
      BY <3>3 DEF GiveUp
    <3>4. CASE UNCHANGED cur /\ \E i \in todo[r] : NextName(r, todo[r] \ {i})
      BY <3>4 DEF NextName
    <3> QED BY <2>8, <3>1, <3>2, <3>3, <3>4 DEF Fail
  <2>9. CASE Migrate(r) \/ Ensure(r) \/ FindAdmins(r) \/ ListChecks(r) \/ CheckName(r)
             \/ InsertGroup(r) \/ CheckGroup(r) \/ DropGroup(r) \/ DropMembers(r)
             \/ DropMember(r) \/ Log(r) \/ GateGroup(r) \/ GateRow(r)
    <3>1. cur' = cur /\ todo' = todo
      BY <2>9, Zenon DEF Migrate, Ensure, FindAdmins, ListChecks, CheckName, InsertGroup,
         CheckGroup, DropGroup, DropMembers, DropMember, Log, GateGroup, GateRow, locals
    <3> QED BY <3>1
  <2> QED BY <2>3, <2>4, <2>5, <2>6, <2>7, <2>8, <2>9 DEF Step
<1> QED BY <1>3, <1>4, <1>5, <1>6, <1>7, <1>8

\* The history is made of what the tables hold or held.
LEMMA ObserveTypes ==
    ASSUME TypeOK, NEW r \in Requests, NEW failed \in BOOLEAN, Observe(r, failed),
           groups' \subseteq Group, members' \subseteq Member,
           failed /\ IsOpen(r) /\ pc[r] = "log" => cur[r] \in Subs
    PROVE  /\ wasAdmin' \subseteq Subs /\ twins' \subseteq Names /\ stray' \subseteq Member
           /\ excused' \subseteq Requests \X Subs /\ unlogged' \subseteq Requests \X Subs
           /\ some' \in [Requests -> SUBSET Group] /\ all' \in [Requests -> SUBSET Group]
<1>1. wasAdmin' \subseteq Subs
  <2>1. \A i : SubsOf(i)' \subseteq Subs
    BY DEF SubsOf, Member
  <2> QED BY <2>1 DEF Observe, Admins, TypeOK
<1>2. twins' \subseteq Names /\ stray' \subseteq Member
  BY DEF Observe, TypeOK, Group
<1>3. excused' \subseteq Requests \X Subs /\ unlogged' \subseteq Requests \X Subs
  BY GroupsAssumption DEF Observe, TypeOK, At
<1>4. some' \in [Requests -> SUBSET Group]
  <2>1. \A q \in Requests : Holdings(req[q].sub)' \subseteq groups'
    BY DEF Holdings
  <2> QED BY <2>1 DEF Observe, TypeOK
<1>5. all' \in [Requests -> SUBSET Group]
  <2>1. \A q \in Requests : Holdings(req[q].sub)' \subseteq groups'
    BY DEF Holdings
  <2>2. \A q \in Requests : all'[q] \subseteq all[q] \/ all'[q] \subseteq Holdings(req[q].sub)'
    BY DEF Observe
  <2>3. all' = [q \in Requests |-> all'[q]]
    BY DEF Observe
  <2>4. \A q \in Requests : all'[q] \subseteq Group
    BY <2>1, <2>2 DEF TypeOK
  <2> QED BY <2>3, <2>4
<1> QED BY <1>1, <1>2, <1>3, <1>4, <1>5

\* One request's arrival or step, whichever way it ends.
Moves(r, failed) ==
    /\ \/ Arrive(r) /\ ~failed
       \/ Step(r) /\ UNCHANGED req /\ ~failed
       \/ Fail(r) /\ UNCHANGED req /\ failed
    /\ Observe(r, failed) /\ Serve(r)

LEMMA NextMoves ==
    Next => (\E r \in Requests, failed \in BOOLEAN : Moves(r, failed)) \/ (Crash /\ UNCHANGED history)
BY Zenon DEF Next, Moves

LEMMA MoveShape ==
    ASSUME Shape, NEW r \in Requests, NEW failed \in BOOLEAN, Moves(r, failed)
    PROVE  Shape'
<1>1. backend' = backend /\ serving' \in BOOLEAN
  BY DEF Moves, Serve, Shape, TypeOK
<1>2. CASE Arrive(r)
  <2>1. /\ UNCHANGED <<groups, members, audit, at, cur, todo, names>> /\ Elsewhere(r)
        /\ pc[r] = "idle"
        /\ pc' \in [Requests -> {"idle"} \cup Working \cup Answers]
        /\ req' \in [Requests -> Request \cup {NoRequest}]
        /\ req'[r] \in Request
        /\ \/ pc'[r] = First(req'[r])
           \/ pc'[r] = Admitted(req'[r]) /\ req'[r].op \notin {"open", "resolve"}
    BY <1>2, ArriveFacts DEF Shape
  <2>2. TypeOK'
    <3>1. groups' \subseteq Group /\ members' \subseteq Member
      BY <2>1 DEF Shape, TypeOK
    <3>2. /\ wasAdmin' \subseteq Subs /\ twins' \subseteq Names /\ stray' \subseteq Member
          /\ excused' \subseteq Requests \X Subs /\ unlogged' \subseteq Requests \X Subs
          /\ some' \in [Requests -> SUBSET Group] /\ all' \in [Requests -> SUBSET Group]
      <4>1. pc[r] # "log" /\ Observe(r, failed) /\ TypeOK
        BY <2>1 DEF Moves, Shape
      <4> QED BY <3>1, <4>1, ObserveTypes
    <3> QED BY <1>1, <2>1, <3>1, <3>2 DEF Shape, TypeOK
  <2>3. ASSUME NEW x \in Requests \ {r} PROVE (Labels(x) /\ Unreserved(x) /\ SeedData(x))'
    BY <1>1, <2>1 DEF Elsewhere, Shape, Labels, Unreserved, SeedData
  <2>4. (Labels(r) /\ Unreserved(r) /\ SeedData(r))'
    <3>1. todo[r] = {} /\ names[r] = {} /\ pc'[r] # "idle"
      BY <2>1, Entrances, RequestFields DEF Shape, SeedData
    <3>2. \/ /\ pc'[r] \in {"migrate", "ensure"} /\ req'[r].op = "open"
             /\ pc'[r] = "migrate" => backend = "sqlite"
          \/ pc'[r] = "names" /\ req'[r].op = "resolve"
          \/ pc'[r] = "gate" /\ req'[r].op \in {"create", "delete", "add", "remove"}
          \/ pc'[r] = "conflict" /\ req'[r].op = "create"
          \/ pc'[r] = "check" /\ req'[r].op = "create" /\ req'[r].name # Reserved
          \/ pc'[r] = "drop_member" /\ req'[r].op = "remove"
          \/ pc'[r] = "get" /\ req'[r].op \in {"delete", "add"}
      BY <2>1, Entrances, RequestFields
    <3> QED BY <1>1, <2>1, <3>1, <3>2 DEF Labels, Unreserved, SeedData, Opened
  <2> QED BY <2>2, <2>3, <2>4 DEF Shape
<1>3. CASE (Step(r) \/ Fail(r)) /\ UNCHANGED req
  <2>1. UNCHANGED <<req, backend>>
    BY <1>1, <1>3
  <2>2. /\ groups' \subseteq Group /\ members' \subseteq Member /\ audit' \subseteq Entry
        /\ at' \in [Requests -> Ids] /\ cur' \in [Requests -> Subs \cup {Nobody}]
        /\ todo' \in [Requests -> (SUBSET Subs) \cup (SUBSET Ids)]
        /\ names' \in [Requests -> SUBSET Names]
    BY <1>3, <2>1, StepTypes
  <2>3. /\ wasAdmin' \subseteq Subs /\ twins' \subseteq Names /\ stray' \subseteq Member
        /\ excused' \subseteq Requests \X Subs /\ unlogged' \subseteq Requests \X Subs
        /\ some' \in [Requests -> SUBSET Group] /\ all' \in [Requests -> SUBSET Group]
    <3>1. IsOpen(r) /\ pc[r] = "log" => cur[r] \in Subs
      BY GroupsAssumption DEF Shape, SeedData, IsOpen
    <3>2. Observe(r, failed) /\ TypeOK
      BY DEF Moves, Shape
    <3> QED BY <2>2, <3>1, <3>2, ObserveTypes
  <2>4. pc' \in [Requests -> {"idle"} \cup Working \cup Answers]
    BY <1>3, <2>1, StepFacts
  <2>5. TypeOK'
    BY <1>1, <2>1, <2>2, <2>3, <2>4 DEF Shape, TypeOK
  <2> QED BY <1>3, <2>1, <2>5, StepFits DEF Shape
<1> QED BY <1>2, <1>3 DEF Moves

LEMMA InitShape == Init => Shape
<1> SUFFICES ASSUME Init PROVE Shape
  OBVIOUS
<1>1. TypeOK
  <2>1. groups \subseteq Group /\ members \subseteq Member
    <3>1. /\ AdminsId(backend) \in Ids /\ Old \in Ids /\ Fixed \in Ids
          /\ Boot \in Writers /\ Reserved \in Names /\ Seeds \subseteq Subs
      BY GroupsAssumption DEF Ids, Writers, AdminsId
    <3>2. CASE groups = {} /\ members = {}
      BY <3>2
    <3>3. CASE \E n \in Names \ {Reserved} : groups =
                  {[id |-> AdminsId(backend), name |-> Reserved], [id |-> Old, name |-> n]}
      <4>1. groups \subseteq Group
        BY <3>1, <3>3 DEF Group
      <4>2. \A S \in SUBSET Seeds :
                [group : {AdminsId(backend)}, sub : S, by : {Boot}] \subseteq Member
        BY <3>1 DEF Member
      <4>3. members = {} \/ \E S \in SUBSET Seeds :
                members = [group : {AdminsId(backend)}, sub : S, by : {Boot}]
        BY Zenon DEF Init
      <4> QED BY <4>1, <4>2, <4>3
    <3> QED BY <3>2, <3>3, Zenon DEF Init
  <2>2. Admins \subseteq Subs
    BY <2>1 DEF Admins, SubsOf, Member
  <2> QED BY <2>1, <2>2, GroupsAssumption DEF Init, TypeOK, Ids
<1>2. ASSUME NEW r \in Requests PROVE Labels(r) /\ Unreserved(r) /\ SeedData(r)
  BY DEF Init, Labels, Unreserved, SeedData, Opened, NoRequest
<1> QED BY <1>1, <1>2 DEF Shape

LEMMA NextShape == Shape /\ [Next]_vars => Shape'
<1> SUFFICES ASSUME Shape, [Next]_vars PROVE Shape'
  OBVIOUS
<1>1. CASE \E r \in Requests, failed \in BOOLEAN : Moves(r, failed)
  BY <1>1, MoveShape
<1>2. CASE Crash /\ UNCHANGED history
  <2>1. /\ pc' = [r \in Requests |-> IF pc[r] \in Working THEN "failed" ELSE pc[r]]
        /\ serving' = FALSE /\ UNCHANGED <<backend, req, groups, members, audit, at, cur, todo, names>>
        /\ UNCHANGED <<wasAdmin, twins, stray, excused, unlogged, some, all>>
    BY <1>2 DEF Crash, tables, locals, history
  <2>2. TypeOK'
    BY <2>1 DEF Shape, TypeOK, Answers
  <2>3. ASSUME NEW x \in Requests PROVE (Labels(x) /\ Unreserved(x) /\ SeedData(x))'
    <3>1. pc'[x] = "failed" \/ pc'[x] = pc[x]
      BY <2>1
    <3>2. pc[x] = "idle" => pc'[x] = "idle"
      BY <2>1 DEF Working
    <3>3. /\ Labels(x) /\ Unreserved(x) /\ SeedData(x)
          /\ pc'[x] = "failed" => pc[x] # "idle"
      BY <3>2 DEF Shape
    <3> QED BY <2>1, <3>1, <3>2, <3>3 DEF Labels, Unreserved, SeedData, Opened
  <2> QED BY <2>2, <2>3 DEF Shape
<1>3. CASE UNCHANGED vars
  BY <1>3 DEF vars, tables, locals, history, Shape, TypeOK, Labels, Unreserved, SeedData
<1> QED BY <1>1, <1>2, <1>3, NextMoves

\* Every variable keeps its type, the history among them.
THEOREM TypeCorrect == Spec => []TypeOK
<1>1. Shape => TypeOK
  BY DEF Shape
<1> QED BY <1>1, InitShape, NextShape, PTL DEF Spec

-----------------------------------------------------------------------------
(* Ids and names.                                                            *)

\* Before its insert, if it makes one.
Unborn == {"idle", "migrate", "ensure", "check", "insert", "gate", "gate_row"}
Born(i) == i \in Requests => pc[i] \notin Unborn

LEMMA Successors ==
    ASSUME Shape, NEW r \in Requests, Step(r) \/ Fail(r)
    PROVE  /\ pc[r] \notin Unborn => pc'[r] \notin Unborn
           /\ pc[r] = "insert" => pc'[r] \notin Unborn
           /\ pc'[r] = "insert" => /\ pc[r] = "check" /\ Named(NameToCheck(r)) = {}
                                   /\ groups' = groups
           /\ pc'[r] = "check" /\ IsOpen(r) => pc[r] = "ensure" /\ Named(Reserved) = {}
           /\ pc'[r] = "ensure" => Migrate(r)
           /\ pc'[r] = "seed" => pc[r] \in {"ensure", "insert"}
           /\ pc[r] = "migrate" => pc'[r] \in {"ensure", "failed"}
<1>1. pc \in [Requests -> {"idle"} \cup Working \cup Answers] /\ Labels(r)
  BY DEF Shape, TypeOK
<1> USE <1>1 DEF At, Goto, Unborn, IsOpen
<1>2. CASE Migrate(r) \/ Ensure(r) \/ FindAdmins(r) \/ ListChecks(r) \/ ListRows(r)
  BY <1>2 DEF Migrate, Ensure, FindAdmins, ListChecks, ListRows, tables
<1>3. CASE SeedNext(r) \/ PutMember(r) \/ Log(r)
  BY <1>3 DEF SeedNext, PutMember, Log, GiveUp, Onward
<1>4. CASE CheckName(r) \/ InsertGroup(r)
  BY <1>4 DEF CheckName, InsertGroup, Refuse, tables
<1>5. CASE CheckGroup(r)
  BY <1>5 DEF CheckGroup, Labels
<1>6. CASE DropGroup(r) \/ DropMembers(r) \/ DropMember(r) \/ GateGroup(r)
  BY <1>6 DEF DropGroup, DropMembers, DropMember, GateGroup
<1>7. CASE GateRow(r)
  <2>1. req[r] \in Request /\ req[r].op \in {"create", "delete", "add", "remove"}
    BY <1>7 DEF GateRow, Labels
  <2>2. pc'[r] \in {Admitted(req[r]), "forbidden"} /\ pc[r] = "gate_row"
    BY <1>7 DEF GateRow
  <2> QED BY <2>1, <2>2, Entrances
<1>8. CASE ResolveRows(r) \/ ResolveName(r)
  BY <1>8 DEF ResolveRows, ResolveName, NextName
<1>9. CASE Fail(r)
  <2>1. /\ pc'[r] \in {"forbidden", "failed", "ok", "next", "name"}
        /\ pc[r] = "migrate" => pc'[r] = "failed"
    BY <1>9 DEF Fail, NextName, GiveUp, Onward
  <2> QED BY <2>1
<1> QED BY <1>2, <1>3, <1>4, <1>5, <1>6, <1>7, <1>8, <1>9 DEF Step

\* What the statements of a step do to a group's row.
LEMMA GroupChanges ==
    ASSUME Shape, NEW r \in Requests, Step(r) \/ Fail(r)
    PROVE  \/ groups' = groups
           \/ /\ pc[r] = "migrate" /\ req[r].op = "open" /\ backend = "sqlite"
              /\ ~HasGroup(Fixed) /\ Named(Reserved) = {}
              /\ groups' = groups \cup {[id |-> Fixed, name |-> Reserved]}
           \/ /\ pc[r] = "insert" /\ req[r].op \in {"open", "create"}
              /\ backend = "mongo" \/ Named(NameToCheck(r)) = {}
              /\ groups' = groups \cup {[id |-> r, name |-> NameToCheck(r)]}
           \/ /\ pc[r] = "drop" /\ req[r].op = "delete"
              /\ groups' = {g \in groups : g.id # req[r].group}
<1>1. backend \in {"sqlite", "mongo"} /\ Labels(r)
  BY GroupsAssumption DEF Shape, TypeOK
<1>2. CASE Migrate(r)
  BY <1>1, <1>2 DEF Migrate, At, Labels, Opened
<1>3. CASE InsertGroup(r)
  BY <1>1, <1>3 DEF InsertGroup, At, Labels
<1>4. CASE DropGroup(r)
  BY <1>1, <1>4 DEF DropGroup, At, Labels
<1> QED BY <1>2, <1>3, <1>4, StepTables

\* An id names one row, and no request that has not inserted it yet.
RowsHaveIds ==
    /\ \A g, h \in groups : g.id = h.id => g = h
    /\ \A g \in groups : Born(g.id)

\* SQLite: the reserved name goes with the fixed id, and the row is there for
\* every open that is past its migration.
AdminsGroup == [id |-> Fixed, name |-> Reserved]
Prepared == {"ensure", "seed", "list", "list_rows", "next", "put", "log", "ok"}
SqliteNames ==
    backend = "sqlite" =>
        /\ \A g \in groups : g.id = Fixed <=> g.name = Reserved
        /\ \A g, h \in groups : g.name = h.name => g = h
        /\ serving => AdminsGroup \in groups
        /\ \A r \in Requests : IsOpen(r) =>
              /\ pc[r] \notin {"check", "insert"}
              /\ pc[r] \in Prepared => AdminsGroup \in groups

\* MongoDB: an open has the store for itself.
Alone ==
    backend = "mongo" =>
        \A r \in Requests : IsOpen(r) /\ pc[r] \in Working =>
            ~serving /\ \A x \in Requests \ {r} : pc[x] \notin Working

\* MongoDB: whoever is about to insert a taken name was overtaken.
MongoNames ==
    backend = "mongo" =>
        /\ Reserved \notin twins
        /\ \A g, h \in groups : g.name = h.name /\ g # h => g.name \in twins
        /\ \A r \in Requests : pc[r] = "insert" /\ Named(NameToCheck(r)) # {} =>
              NameToCheck(r) \in twins

NamesInv == RowsHaveIds /\ SqliteNames /\ Alone /\ MongoNames

LEMMA ArriveNames ==
    ASSUME Shape, NamesInv, NEW r \in Requests, Moves(r, FALSE), Arrive(r)
    PROVE  NamesInv'
<1>1. /\ groups' = groups /\ Elsewhere(r) /\ pc[r] = "idle" /\ req'[r] \in Request
      /\ req'[r].op = "open" => MayOpen
      /\ req'[r].op # "open" => serving
      /\ \/ pc'[r] = First(req'[r])
         \/ pc'[r] = Admitted(req'[r]) /\ req'[r].op \notin {"open", "resolve"}
  BY ArriveFacts DEF Shape
<1>2. serving' = serving /\ backend' = backend
  <2>1. req[r].op = "none"
    BY <1>1 DEF Shape, SeedData, NoRequest
  <2> QED BY <2>1 DEF Moves, Serve, IsOpen, Shape, TypeOK
<1>3. /\ pc'[r] \notin ({"insert"} \cup Prepared) \ {"ensure"}
      /\ req'[r].op = "open" /\ backend = "sqlite" => pc'[r] = "migrate"
      /\ req'[r].op = "open" => pc'[r] \in {"migrate", "ensure"}
  BY <1>1, Entrances, RequestFields DEF Prepared
<1>4. twins' = twins
  BY <1>1 DEF Moves, Observe
<1>5. RowsHaveIds'
  BY <1>1 DEF NamesInv, RowsHaveIds, Born, Elsewhere, Unborn
<1>6. SqliteNames'
  BY <1>1, <1>2, <1>3 DEF NamesInv, SqliteNames, Elsewhere, IsOpen, AdminsGroup, Prepared
<1>7. Alone'
  <2> SUFFICES ASSUME backend = "mongo", NEW x \in Requests, req'[x].op = "open",
                      pc'[x] \in Working
               PROVE  ~serving /\ \A y \in Requests \ {x} : pc'[y] \notin Working
    BY <1>2 DEF Alone, IsOpen
  <2>1. CASE x = r
    BY <2>1, <1>1 DEF MayOpen, Elsewhere
  <2>2. CASE x # r
    <3>1. ~serving /\ \A y \in Requests \ {x} : pc[y] \notin Working
      BY <2>2, <1>1 DEF NamesInv, Alone, IsOpen, Elsewhere
    <3>2. MayOpen => pc[x] \notin Working
      BY DEF MayOpen
    <3> QED BY <2>2, <3>1, <3>2, <1>1 DEF Elsewhere
  <2> QED BY <2>1, <2>2
<1>8. MongoNames'
  <2>1. \A x \in Requests : pc'[x] = "insert" => pc[x] = "insert" /\ req'[x] = req[x]
    BY <1>1, <1>3 DEF Elsewhere
  <2> QED BY <1>1, <1>2, <1>4, <2>1, Zenon
          DEF NamesInv, MongoNames, Named, NameToCheck, IsOpen
<1> QED BY <1>5, <1>6, <1>7, <1>8 DEF NamesInv

LEMMA StepRows ==
    ASSUME Shape, RowsHaveIds, NEW r \in Requests, Step(r) \/ Fail(r), UNCHANGED req
    PROVE  RowsHaveIds'
<1>1. \A i : Born(i) => Born(i)'
  BY StepFacts, Successors DEF Born, Elsewhere
<1>2. \A g \in groups : g = [id |-> g.id, name |-> g.name]
  BY DEF Shape, TypeOK, Group
<1>3. CASE groups' = groups
  BY <1>1, <1>3 DEF RowsHaveIds
<1>4. CASE groups' = groups \cup {[id |-> Fixed, name |-> Reserved]} /\ ~HasGroup(Fixed)
  <2>1. Born(Fixed)'
    BY GroupsAssumption DEF Born
  <2> QED BY <1>1, <1>4, <2>1 DEF RowsHaveIds, HasGroup
<1>5. CASE groups' = groups \cup {[id |-> r, name |-> NameToCheck(r)]} /\ pc[r] = "insert"
  <2>1. Born(r)' /\ ~Born(r)
    BY <1>5, Successors DEF Born, Unborn
  <2>2. \A g \in groups : g.id # r
    BY <2>1 DEF RowsHaveIds
  <2> QED BY <1>1, <1>5, <2>1, <2>2 DEF RowsHaveIds
<1>6. CASE groups' = {g \in groups : g.id # req[r].group}
  BY <1>1, <1>6 DEF RowsHaveIds
<1> QED BY <1>3, <1>4, <1>5, <1>6, GroupChanges

LEMMA StepSqlite ==
    ASSUME Shape, NamesInv, NEW r \in Requests, NEW failed \in BOOLEAN, Moves(r, failed),
           Step(r) \/ Fail(r), UNCHANGED req
    PROVE  SqliteNames'
<1> SUFFICES ASSUME backend = "sqlite" PROVE SqliteNames'
  BY DEF SqliteNames, Moves, Serve
<1>1. \A g \in groups : g = [id |-> g.id, name |-> g.name]
  BY DEF Shape, TypeOK, Group
<1>2. \A g \in groups : (g.id = Fixed <=> g.name = Reserved) /\ (g.id = Fixed => g = AdminsGroup)
  BY <1>1 DEF NamesInv, SqliteNames, AdminsGroup
<1>3. AdminsGroup \in groups => AdminsGroup \in groups'
  <2>1. pc[r] = "drop" /\ req[r].op = "delete" => req[r].group # Fixed
    BY DEF Shape, Unreserved
  <2> QED BY <2>1, GroupChanges DEF AdminsGroup
<1>4. pc[r] = "migrate" /\ pc'[r] = "ensure" => AdminsGroup \in groups'
  <2>1. Migrate(r) => HasGroup(Fixed) \/ Named(Reserved) # {} \/ AdminsGroup \in groups'
    BY DEF Migrate, AdminsGroup
  <2>2. HasGroup(Fixed) \/ Named(Reserved) # {} => AdminsGroup \in groups
    BY <1>2 DEF HasGroup, Named
  <2> QED BY <1>3, <2>1, <2>2, Successors
<1>5. \A g \in groups' : g.id = Fixed <=> g.name = Reserved
  <2>1. pc[r] = "insert" => r # Fixed /\ NameToCheck(r) # Reserved
    BY GroupsAssumption DEF NamesInv, SqliteNames, NameToCheck, IsOpen, Shape, Labels, Unreserved
  <2> QED BY <2>1, <1>2, GroupChanges
<1>6. \A g, h \in groups' : g.name = h.name => g = h
  BY GroupChanges DEF NamesInv, SqliteNames, Named
<1>7. ASSUME IsOpen(r)
      PROVE  /\ pc'[r] \notin {"check", "insert"}
             /\ pc'[r] \in Prepared => AdminsGroup \in groups'
  <2>1. pc[r] \notin {"check", "insert"} /\ (pc[r] \in Prepared => AdminsGroup \in groups)
    BY <1>7 DEF NamesInv, SqliteNames
  <2>2. pc[r] \in Working /\ pc[r] \in Prepared \cup {"migrate", "check", "insert"}
    <3>1. pc[r] \in Working
      BY StepFacts
    <3> QED BY <3>1, <1>7 DEF Working, Prepared, Shape, Labels, IsOpen
  <2>3. pc[r] = "ensure" => Named(Reserved) # {}
    BY <2>1 DEF Prepared, Named, AdminsGroup
  <2>4. pc'[r] \notin {"check", "insert"}
    BY <2>1, <2>3, <1>7, Successors
  <2>5. CASE pc[r] \in Prepared
    BY <2>1, <2>4, <2>5, <1>3
  <2>6. CASE pc[r] = "migrate"
    BY <2>4, <2>6, <1>4, Successors DEF Prepared
  <2> QED BY <2>1, <2>2, <2>5, <2>6
<1>8. serving' => AdminsGroup \in groups'
  <2>1. serving' => serving \/ (IsOpen(r) /\ pc'[r] = "ok")
    BY DEF Moves, Serve
  <2> QED BY <2>1, <1>3, <1>7 DEF NamesInv, SqliteNames, Prepared
<1>9. \A x \in Requests : req'[x].op = "open" =>
          pc'[x] \notin {"check", "insert"} /\ (pc'[x] \in Prepared => AdminsGroup \in groups')
  BY <1>3, <1>7, StepFacts DEF Elsewhere, NamesInv, SqliteNames, IsOpen
<1> QED BY <1>5, <1>6, <1>8, <1>9 DEF SqliteNames, IsOpen, AdminsGroup

LEMMA StepMongo ==
    ASSUME Shape, NamesInv, NEW r \in Requests, NEW failed \in BOOLEAN, Moves(r, failed),
           Step(r) \/ Fail(r), UNCHANGED req
    PROVE  Alone' /\ MongoNames'
<1> SUFFICES ASSUME backend = "mongo" PROVE Alone' /\ MongoNames'
  BY DEF Alone, MongoNames, Moves, Serve
<1>1. Elsewhere(r) /\ pc[r] \in Working
  BY StepFacts
<1>2. \A x \in Requests \ {r} : IsOpen(x) => pc[x] \notin Working
  BY <1>1 DEF NamesInv, Alone
<1>3. Alone'
  <2>1. IsOpen(r) => ~serving /\ \A x \in Requests \ {r} : pc[x] \notin Working
    BY <1>1 DEF NamesInv, Alone
  <2>2. serving' => serving \/ (IsOpen(r) /\ pc'[r] = "ok")
    BY DEF Moves, Serve
  <2> QED BY <1>1, <1>2, <2>1, <2>2 DEF Alone, IsOpen, Elsewhere, Working
<1>4. \A x \in Requests : pc[x] = "insert" /\ NameToCheck(x) = Reserved => IsOpen(x)
  BY DEF NameToCheck, Shape, Labels, Unreserved, IsOpen
<1>5. \A x \in Requests : NameToCheck(x)' = NameToCheck(x)
  BY DEF NameToCheck, IsOpen
<1>6. \A n : n \in twins' <=> n \in twins \/ \E g \in groups' \ groups :
          g.name = n /\ \E q \in Requests \ {r} : pc[q] = "insert" /\ NameToCheck(q) = n
  BY Zenon DEF Moves, Observe, At
<1>7. Reserved \notin twins'
  <2>1. \A q \in Requests \ {r} : pc[q] = "insert" => NameToCheck(q) # Reserved
    BY <1>2, <1>4 DEF Working
  <2> QED BY <1>6, <2>1 DEF NamesInv, MongoNames
<1>8. ASSUME NEW g \in groups' \ groups PROVE g.id = r /\ g.name = NameToCheck(r) /\ pc[r] = "insert"
  BY <1>8, GroupChanges
<1>9. \A g, h \in groups' : g.name = h.name /\ g # h => g.name \in twins'
  <2> SUFFICES ASSUME NEW g \in groups', NEW h \in groups', g.name = h.name, g # h,
                      h \in groups
               PROVE  g.name \in twins'
    <3>1. \A g, h \in groups' : g \notin groups /\ h \notin groups => g = h
      BY GroupChanges
    <3> QED BY <3>1, Zenon
  <2>1. CASE g \in groups
    BY <2>1, <1>6 DEF NamesInv, MongoNames
  <2>2. CASE g \notin groups
    BY <2>2, <1>6, <1>8 DEF NamesInv, MongoNames, Named
  <2> QED BY <2>1, <2>2
<1>10. ASSUME NEW x \in Requests, pc'[x] = "insert", NEW g \in groups', g.name = NameToCheck(x)
       PROVE  NameToCheck(x) \in twins'
  <2>1. CASE x = r
    BY <2>1, <1>10, Successors DEF Named
  <2>2. CASE x # r
    <3>1. pc[x] = "insert"
      BY <2>2, <1>1, <1>10 DEF Elsewhere
    <3>2. CASE g \in groups
      BY <3>1, <3>2, <1>6, <1>10 DEF NamesInv, MongoNames, Named
    <3>3. CASE g \notin groups
      BY <2>2, <3>1, <3>3, <1>6, <1>10
    <3> QED BY <3>2, <3>3
  <2> QED BY <2>1, <2>2
<1>11. MongoNames'
  BY <1>5, <1>7, <1>9, <1>10 DEF MongoNames, Named
<1> QED BY <1>3, <1>11

LEMMA NextNames == Shape /\ NamesInv /\ [Next]_vars => NamesInv'
<1> SUFFICES ASSUME Shape, NamesInv, [Next]_vars PROVE NamesInv'
  OBVIOUS
<1>1. ASSUME NEW r \in Requests, NEW failed \in BOOLEAN, Moves(r, failed) PROVE NamesInv'
  <2>1. CASE Arrive(r) /\ ~failed
    BY <1>1, <2>1, ArriveNames
  <2>2. CASE (Step(r) \/ Fail(r)) /\ UNCHANGED req
    BY <1>1, <2>2, StepRows, StepSqlite, StepMongo DEF NamesInv
  <2> QED BY <1>1, <2>1, <2>2 DEF Moves
<1>2. CASE Crash /\ UNCHANGED history
  <2>1. /\ \A r \in Requests : pc'[r] = IF pc[r] \in Working THEN "failed" ELSE pc[r]
        /\ serving' = FALSE /\ UNCHANGED <<backend, req, groups, twins>>
    BY <1>2 DEF Crash, tables, history
  <2>2. RowsHaveIds'
    BY <2>1 DEF NamesInv, RowsHaveIds, Born, Unborn
  <2>3. SqliteNames'
    BY <2>1 DEF NamesInv, SqliteNames, IsOpen, Prepared, AdminsGroup
  <2>4. Alone' /\ MongoNames'
    BY <2>1 DEF NamesInv, Alone, MongoNames, Working, Named, NameToCheck, IsOpen
  <2> QED BY <2>2, <2>3, <2>4 DEF NamesInv
<1>3. CASE UNCHANGED vars
  BY <1>3, Zenon DEF vars, tables, history, NamesInv, RowsHaveIds, Born, SqliteNames, Alone, MongoNames,
     IsOpen, Named, NameToCheck, AdminsGroup
<1> QED BY <1>1, <1>2, <1>3, NextMoves

LEMMA InitNames == Init => NamesInv
<1> SUFFICES ASSUME Init PROVE NamesInv
  OBVIOUS
<1>1. groups = {} \/ \E n \in Names \ {Reserved} : groups =
          {[id |-> AdminsId(backend), name |-> Reserved], [id |-> Old, name |-> n]}
  BY DEF Init
<1>2. groups = {} => ~serving
  BY DEF Init
<1>3. Old \notin Requests /\ AdminsId(backend) \notin Requests /\ AdminsId(backend) # Old
  BY GroupsAssumption DEF AdminsId
<1>4. RowsHaveIds
  BY <1>1, <1>3 DEF RowsHaveIds, Born
<1>5. \A g, h \in groups : g.name = h.name => g = h
  BY <1>1
<1>6. \A r \in Requests : pc[r] = "idle" /\ ~IsOpen(r)
  BY DEF Init, IsOpen, NoRequest
<1>7. backend = "sqlite" =>
          /\ \A g \in groups : g.id = Fixed <=> g.name = Reserved
          /\ serving => AdminsGroup \in groups
  BY <1>1, <1>2, GroupsAssumption DEF AdminsId, AdminsGroup
<1>8. SqliteNames
  BY <1>5, <1>6, <1>7 DEF SqliteNames
<1>9. Alone /\ MongoNames
  BY <1>5, <1>6 DEF Alone, MongoNames, Init
<1> QED BY <1>4, <1>8, <1>9 DEF NamesInv

LEMMA NamesHold == Spec => [](Shape /\ NamesInv)
BY InitShape, InitNames, NextShape, NextNames, PTL DEF Spec

\* However creates and opens overlap, a name stands for one group on SQLite; on
\* MongoDB for more only after two creates held their checks of it at once, and
\* the instance-admins group never has a double.
THEOREM OneGroupPerName == Spec => []NamesAreUnique
<1>1. Shape /\ NamesInv => NamesAreUnique
  BY GroupsAssumption DEF Shape, TypeOK, NamesInv, SqliteNames, MongoNames, NamesAreUnique
<1> QED BY <1>1, NamesHold, PTL

\* A served SQLite store keeps its instance-admins group, whoever deletes what.
THEOREM AdminsGroupIsKept == Spec => []AdminsGroupStays
<1>1. NamesInv => AdminsGroupStays
  BY DEF NamesInv, SqliteNames, AdminsGroupStays, AdminsGroup
<1> QED BY <1>1, NamesHold, PTL

-----------------------------------------------------------------------------
(* Deletions and members.                                                    *)

LEMMA MemberChanges ==
    ASSUME Shape, NEW r \in Requests, Step(r) \/ Fail(r)
    PROVE  \/ members' = members
           \/ /\ pc[r] = "put" /\ pc'[r] = "log"
              /\ backend = "sqlite" => HasGroup(Target(r))
              /\ members' = WithMember(r)
              /\ UNCHANGED <<groups, at, cur>>
           \/ /\ \/ pc[r] = "drop" /\ backend = "sqlite"
                 \/ pc[r] = "drop_members" /\ backend = "mongo"
              /\ members' = {m \in members : m.group # req[r].group}
           \/ /\ pc[r] = "drop_member" /\ groups' = groups
              /\ members' = {m \in members : ~(m.group = req[r].group /\ m.sub = req[r].sub)}
<1>1. pc \in [Requests -> {"idle"} \cup Working \cup Answers] /\ Labels(r)
  BY DEF Shape, TypeOK
<1>2. CASE PutMember(r)
  BY <1>1, <1>2 DEF PutMember, At, Goto
<1>3. CASE DropGroup(r)
  BY <1>3 DEF DropGroup, At
<1>4. CASE DropMembers(r)
  BY <1>1, <1>4 DEF DropMembers, At, Labels
<1>5. CASE DropMember(r)
  BY <1>5 DEF DropMember, At
<1> QED BY <1>2, <1>3, <1>4, <1>5, StepTables

\* The request whose statement removed the group's row.
Deleting(r, i) ==
    /\ req[r].op = "delete" /\ req[r].group = i
    /\ pc[r] \in {"drop_members", "log"} \/ \E e \in audit : e.by = r /\ e.act = "delete"

DeletedOnce ==
    /\ \A e \in audit : e.act = "delete" =>
           /\ req[e.by].op = "delete" /\ pc[e.by] = "ok"
           /\ e = [by |-> e.by, act |-> "delete", group |-> req[e.by].group, sub |-> Nobody]
    /\ \A r \in Requests, i \in Ids : Deleting(r, i) => ~HasGroup(i) /\ Born(i) /\ i # Fixed
    /\ \A r, q \in Requests, i \in Ids : Deleting(r, i) /\ Deleting(q, i) => r = q

\* A step makes its request the one that deletes, if the row was there.
LEMMA DeletingSteps ==
    ASSUME Shape, DeletedOnce, NEW r \in Requests, Step(r) \/ Fail(r), UNCHANGED req,
           NEW x \in Requests, NEW i \in Ids, Deleting(x, i)'
    PROVE  \/ Deleting(x, i)
           \/ x = r /\ HasGroup(i) /\ i # Fixed /\ groups' = {g \in groups : g.id # i}
<1>1. Elsewhere(r) /\ req' = req /\ Labels(r) /\ Unreserved(r)
  BY StepFacts DEF Shape
<1>2. ASSUME x # r, NEW e \in audit', e.by = x, e.act = "delete" PROVE e \in audit
  BY <1>2, StepTables DEF Log, EntryOf
<1>3. CASE x # r
  BY <1>1, <1>2, <1>3 DEF Deleting, Elsewhere
<1>4. CASE x = r
  <2>1. req[r].op = "delete" /\ req[r].group = i
    BY <1>1, <1>4 DEF Deleting
  <2>2. CASE DropGroup(r)
    <3>1. /\ pc[r] = "drop" /\ groups' = {g \in groups : g.id # i} /\ audit' = audit
          /\ pc'[r] \in {"drop_members", "log"} => HasGroup(i)
      BY <2>1, <2>2 DEF DropGroup, At, Goto, Shape, TypeOK
    <3> QED BY <1>1, <1>4, <2>1, <3>1 DEF Deleting, Unreserved
  <2>3. CASE DropMembers(r) \/ Log(r)
    BY <1>4, <2>1, <2>3 DEF DropMembers, Log, At, Deleting
  <2>4. CASE ~DropGroup(r) /\ ~DropMembers(r) /\ ~Log(r)
    <3>1. pc'[r] \notin {"drop_members", "log"}
      <4>1. CASE Fail(r)
        BY <4>1 DEF Fail, NextName, GiveUp, Onward, Goto, Shape, TypeOK
      <4>2. CASE InsertGroup(r) \/ PutMember(r) \/ DropMember(r)
        BY <4>2, <2>1, <1>1 DEF InsertGroup, PutMember, DropMember, At, Labels
      <4>3. CASE Migrate(r) \/ Ensure(r) \/ FindAdmins(r) \/ ListChecks(r) \/ ListRows(r)
                 \/ SeedNext(r) \/ CheckName(r) \/ CheckGroup(r)
        BY <4>3, <1>1, <2>1 DEF Migrate, Ensure, FindAdmins, ListChecks, ListRows, SeedNext,
           CheckName, CheckGroup, Refuse, GiveUp, Onward, IsOpen, At, Goto, Labels, Opened, Shape, TypeOK
      <4>4. CASE GateGroup(r) \/ GateRow(r) \/ ResolveRows(r) \/ ResolveName(r)
        <5>1. req[r] \in Request \/ ~GateRow(r)
          BY <1>1 DEF GateRow, At, Labels
        <5>2. GateRow(r) => pc'[r] \in {Admitted(req[r]), "forbidden"}
          BY DEF GateRow, Goto, Shape, TypeOK
        <5>3. ~GateRow(r) => pc'[r] \in {"forbidden", "gate_row", "ok", "name"}
          BY <4>4 DEF GateGroup, ResolveRows, ResolveName, NextName, Goto, Shape, TypeOK
        <5> QED BY <2>1, <5>1, <5>2, <5>3, Entrances
      <4> QED BY <2>4, <4>1, <4>2, <4>3, <4>4 DEF Step
    <3>2. audit' = audit
      BY <2>4, StepTables
    <3> QED BY <1>1, <1>4, <2>1, <3>1, <3>2 DEF Deleting
  <2> QED BY <2>2, <2>3, <2>4
<1> QED BY <1>3, <1>4

LEMMA StepDeleted ==
    ASSUME Shape, RowsHaveIds, DeletedOnce, NEW r \in Requests, Step(r) \/ Fail(r), UNCHANGED req
    PROVE  DeletedOnce'
<1>1. Elsewhere(r) /\ pc[r] \in Working
  BY StepFacts
<1>2. ASSUME NEW e \in audit', e.act = "delete"
      PROVE  /\ req'[e.by].op = "delete" /\ pc'[e.by] = "ok"
             /\ e = [by |-> e.by, act |-> "delete", group |-> req'[e.by].group, sub |-> Nobody]
  <2>1. CASE e \in audit
    <3>1. e.by \in Requests /\ req[e.by].op = "delete" /\ pc[e.by] = "ok"
      BY <1>2, <2>1 DEF DeletedOnce, Shape, TypeOK, Entry
    <3>2. e.by # r
      BY <3>1, <1>1 DEF Working
    <3> QED BY <2>1, <3>1, <3>2, <1>1, <1>2 DEF DeletedOnce, Elsewhere
  <2>2. CASE e \notin audit
    <3>1. Log(r) /\ e = EntryOf(r)
      BY <2>2, StepTables DEF Log
    <3>2. req[r].op = "delete"
      <4>1. req[r] \in Request
        BY <1>1 DEF Shape, Labels, Working
      <4> QED BY <3>1, <4>1, <1>2, RequestFields DEF EntryOf, Act
    <3>3. pc'[r] = "ok"
      BY <3>1, <3>2 DEF Log, IsOpen, Goto, Shape, TypeOK
    <3> QED BY <3>1, <3>2, <3>3 DEF EntryOf, Act, Who, Target, IsOpen
  <2> QED BY <2>1, <2>2
<1>3. ASSUME NEW x \in Requests, NEW i \in Ids, Deleting(x, i)
      PROVE  ~HasGroup(i)' /\ Born(i)' /\ i # Fixed
  <2>1. ~HasGroup(i) /\ Born(i) /\ i # Fixed
    BY <1>3 DEF DeletedOnce
  <2>2. Born(i)'
    BY <2>1, <1>1, Successors DEF Born, Elsewhere
  <2>3. pc[r] = "insert" => i # r
    BY <2>1 DEF Born, Unborn
  <2> QED BY <2>1, <2>2, <2>3, GroupChanges DEF HasGroup
<1>4. ASSUME NEW x \in Requests, NEW i \in Ids, Deleting(x, i)', ~Deleting(x, i)
      PROVE  /\ x = r /\ ~HasGroup(i)' /\ Born(i)' /\ i # Fixed
             /\ \A q \in Requests : ~Deleting(q, i)
  <2>1. x = r /\ HasGroup(i) /\ i # Fixed /\ groups' = {g \in groups : g.id # i}
    BY <1>4, DeletingSteps
  <2>2. Born(i)
    BY <2>1 DEF HasGroup, RowsHaveIds
  <2>3. Born(i)'
    BY <2>2, <1>1, Successors DEF Born, Elsewhere
  <2> QED BY <2>1, <2>3 DEF HasGroup, DeletedOnce
<1>5. \A x \in Requests, i \in Ids : Deleting(x, i)' => ~HasGroup(i)' /\ Born(i)' /\ i # Fixed
  BY <1>3, <1>4
<1>6. \A x, q \in Requests, i \in Ids : Deleting(x, i)' /\ Deleting(q, i)' => x = q
  BY <1>4 DEF DeletedOnce
<1> QED BY <1>2, <1>5, <1>6 DEF DeletedOnce

LEMMA NextDeleted == Shape /\ RowsHaveIds /\ DeletedOnce /\ [Next]_vars => DeletedOnce'
<1> SUFFICES ASSUME Shape, RowsHaveIds, DeletedOnce, [Next]_vars PROVE DeletedOnce'
  OBVIOUS
<1>0. \A e \in audit : e.by \in Requests
  BY DEF Shape, TypeOK, Entry
<1>1. ASSUME NEW r \in Requests, Arrive(r) PROVE DeletedOnce'
  <2>1. /\ groups' = groups /\ audit' = audit /\ Elsewhere(r) /\ pc[r] = "idle" /\ req'[r] \in Request
        /\ \/ pc'[r] = First(req'[r])
           \/ pc'[r] = Admitted(req'[r]) /\ req'[r].op \notin {"open", "resolve"}
    BY <1>1, ArriveFacts DEF Shape
  <2>2. pc'[r] \notin {"drop_members", "log"}
    BY <2>1, Entrances, RequestFields
  <2>3. \A e \in audit : e.act = "delete" => e.by # r
    BY <2>1 DEF DeletedOnce
  <2>4. \A x \in Requests, i \in Ids : Deleting(x, i)' => Deleting(x, i)
    BY <2>1, <2>2, <2>3, Zenon DEF Deleting, Elsewhere
  <2>5. \A i : Born(i) => Born(i)'
    BY <2>1 DEF Born, Unborn, Elsewhere
  <2>6. \A e \in audit' : e.act = "delete" =>
           /\ req'[e.by].op = "delete" /\ pc'[e.by] = "ok"
           /\ e = [by |-> e.by, act |-> "delete", group |-> req'[e.by].group, sub |-> Nobody]
    BY <1>0, <2>1, <2>3 DEF DeletedOnce, Elsewhere
  <2> QED BY <2>1, <2>4, <2>5, <2>6 DEF DeletedOnce, HasGroup
<1>2. ASSUME NEW r \in Requests, NEW failed \in BOOLEAN, Moves(r, failed) PROVE DeletedOnce'
  BY <1>1, <1>2, StepDeleted DEF Moves
<1>3. CASE Crash /\ UNCHANGED history
  <2>1. /\ \A r \in Requests : pc'[r] = IF pc[r] \in Working THEN "failed" ELSE pc[r]
        /\ UNCHANGED <<req, groups, audit>>
    BY <1>3 DEF Crash, tables
  <2>2. \A x \in Requests, i \in Ids : Deleting(x, i)' => Deleting(x, i)
    BY <2>1, Zenon DEF Deleting
  <2>3. \A i : Born(i) => Born(i)'
    BY <2>1 DEF Born, Unborn
  <2> QED BY <1>0, <2>1, <2>2, <2>3 DEF DeletedOnce, HasGroup, Working
<1>4. CASE UNCHANGED vars
  BY <1>4, Zenon DEF vars, tables, DeletedOnce, Deleting, HasGroup, Born
<1> QED BY <1>2, <1>3, <1>4, NextMoves

\* However many deletes of one group race, one is answered ok and audited, and
\* no later request brings the group back.
THEOREM DeletionHappensOnce == Spec => []OneGroupDeletion
<1>1. Init => DeletedOnce
  BY DEF Init, DeletedOnce, Deleting, NoRequest
<1>2. Shape /\ DeletedOnce => OneGroupDeletion
  <2> SUFFICES ASSUME Shape, DeletedOnce, NEW i \in Ids
               PROVE  LET deletions == {e \in audit : e.act = "delete" /\ e.group = i} IN
                      Cardinality(deletions) <= 1 /\ (deletions # {} => ~HasGroup(i))
    BY DEF OneGroupDeletion
  <2> DEFINE deletions == {e \in audit : e.act = "delete" /\ e.group = i}
  <2>1. ASSUME NEW e \in deletions
        PROVE  /\ Deleting(e.by, i) /\ e.by \in Requests
               /\ e = [by |-> e.by, act |-> "delete", group |-> i, sub |-> Nobody]
    BY <2>1 DEF DeletedOnce, Deleting, Shape, TypeOK, Entry
  <2>2. \A e, f \in deletions : e = f
    BY <2>1 DEF DeletedOnce
  <2>3. deletions = {} \/ \E e : deletions = {e}
    BY <2>2
  <2>4. Cardinality(deletions) <= 1
    <3>1. Cardinality(deletions) = 0 \/ Cardinality(deletions) = 1
      <4> HIDE DEF deletions
      <4> QED BY <2>3, FS_EmptySet, FS_Singleton
    <3> HIDE DEF deletions
    <3> QED BY <3>1
  <2>5. deletions # {} => ~HasGroup(i)
    BY <2>1 DEF DeletedOnce
  <2> QED BY <2>4, <2>5
<1>3. Shape /\ NamesInv => RowsHaveIds
  BY DEF NamesInv
<1> QED BY <1>1, <1>2, <1>3, NamesHold, NextDeleted, PTL DEF Spec

\* A group's row goes with its members on SQLite, and with a request that is
\* about to remove them on MongoDB.
LEMMA StepHomes ==
    ASSUME Shape, MembersHaveAGroup, NEW r \in Requests, NEW failed \in BOOLEAN, Observe(r, failed),
           Step(r) \/ Fail(r), UNCHANGED <<req, backend>>
    PROVE  MembersHaveAGroup'
<1>1. Elsewhere(r) /\ stray \subseteq stray' /\ backend \in {"sqlite", "mongo"}
      /\ pc[r] \in Working
  BY StepFacts, GroupsAssumption DEF Observe, Shape, TypeOK
<1> DEFINE Excuse(i) == \E x \in Requests : /\ pc[x] \in {"drop_members", "failed"}
                                            /\ req[x].op = "delete" /\ req[x].group = i
<1>2. SUFFICES ASSUME NEW m \in members', ~HasGroup(m.group)'
               PROVE  backend = "mongo" /\ (m \in stray' \/ Excuse(m.group)')
  BY DEF MembersHaveAGroup, HasGroup
<1>3. CASE m \in members /\ ~HasGroup(m.group)
  <2>1. backend = "mongo" /\ (m \in stray \/ Excuse(m.group))
    BY <1>3 DEF MembersHaveAGroup
  <2>2. ASSUME NEW x \in Requests, pc[x] \in {"drop_members", "failed"},
               req[x].op = "delete", req[x].group = m.group
        PROVE  Excuse(m.group)'
    <3>1. CASE x # r
      BY <2>2, <3>1, <1>1 DEF Elsewhere
    <3>2. CASE x = r
      <4>1. pc[r] = "drop_members"
        BY <2>2, <3>2, <1>1 DEF Working
      <4>2. DropMembers(r) \/ Fail(r)
        BY <4>1 DEF Step, At, Migrate, Ensure, FindAdmins, ListChecks, ListRows, SeedNext,
           CheckName, InsertGroup, CheckGroup, PutMember, DropGroup, DropMember, Log,
           GateGroup, GateRow, ResolveRows, ResolveName
      <4>3. ~DropMembers(r)
        BY <2>2, <3>2 DEF DropMembers
      <4>4. pc'[r] = "failed"
        BY <4>1, <4>2, <4>3, <2>2, <3>2 DEF Fail, At, Goto, IsOpen, Shape, TypeOK
      <4> QED BY <2>2, <3>2, <4>4
    <3> QED BY <3>1, <3>2
  <2> QED BY <1>1, <2>1, <2>2
<1>4. CASE m \in members /\ HasGroup(m.group)
  <2>1. DropGroup(r) /\ req[r].group = m.group
    BY <1>2, <1>4, StepTables DEF HasGroup, Migrate, InsertGroup, DropGroup
  <2>2. backend = "mongo" /\ pc'[r] = "drop_members"
    BY <1>1, <1>2, <1>4, <2>1 DEF DropGroup, Goto, Shape, TypeOK
  <2>3. req[r].op = "delete"
    BY <2>1 DEF DropGroup, At, Shape, Labels
  <2> QED BY <2>1, <2>2, <2>3
<1>5. CASE m \notin members
  <2>1. /\ backend = "sqlite" => HasGroup(Target(r))
        /\ m.group = Target(r) /\ groups' = groups
    BY <1>2, <1>5, MemberChanges DEF WithMember
  <2>2. backend = "mongo"
    BY <1>1, <1>2, <2>1 DEF HasGroup
  <2>3. m \in stray'
    BY <1>2, <1>5 DEF Observe, HasGroup
  <2> QED BY <2>2, <2>3
<1> QED BY <1>3, <1>4, <1>5

LEMMA InitMembers ==
    Init => \A m \in members : m.by = Boot /\ HasGroup(m.group)
<1> SUFFICES ASSUME Init, NEW m \in members PROVE m.by = Boot /\ HasGroup(m.group)
  OBVIOUS
<1>1. CASE groups = {} /\ members = {}
  BY <1>1
<1>2. CASE /\ \E n \in Names \ {Reserved} : groups =
                  {[id |-> AdminsId(backend), name |-> Reserved], [id |-> Old, name |-> n]}
           /\ \E S \in SUBSET Seeds :
                  members = [group : {AdminsId(backend)}, sub : S, by : {Boot}]
  <2>1. m.by = Boot /\ m.group = AdminsId(backend)
    BY <1>2
  <2>2. HasGroup(AdminsId(backend))
    BY <1>2 DEF HasGroup
  <2> QED BY <2>1, <2>2
<1> QED BY <1>1, <1>2, Zenon DEF Init

\* A member row is of a group that exists; on MongoDB a delete that is or was
\* between its two statements, or that an insert came after, leaves it behind.
THEOREM MembersBelong == Spec => []MembersHaveAGroup
<1>1. Init => MembersHaveAGroup
  BY InitMembers DEF MembersHaveAGroup
<1>2. Shape /\ MembersHaveAGroup /\ [Next]_vars => MembersHaveAGroup'
  <2> SUFFICES ASSUME Shape, MembersHaveAGroup, [Next]_vars PROVE MembersHaveAGroup'
    OBVIOUS
  <2>1. ASSUME NEW r \in Requests, NEW failed \in BOOLEAN, Moves(r, failed)
        PROVE  MembersHaveAGroup'
    <3>1. backend' = backend
      BY <2>1 DEF Moves, Serve
    <3>2. CASE Arrive(r)
      <4>1. /\ groups' = groups /\ members' = members /\ Elsewhere(r) /\ pc[r] = "idle"
        BY <3>2, ArriveFacts DEF Shape
      <4>2. stray \subseteq stray'
        BY <2>1 DEF Moves, Observe
      <4>3. \A x \in Requests : pc[x] # "idle" => pc'[x] = pc[x] /\ req'[x] = req[x]
        BY <4>1 DEF Elsewhere
      <4> QED BY <3>1, <4>1, <4>2, <4>3, SMT DEF MembersHaveAGroup, HasGroup
    <3> QED BY <2>1, <3>1, <3>2, StepHomes DEF Moves
  <2>2. CASE Crash /\ UNCHANGED history
    <3>1. /\ \A r \in Requests : pc'[r] = IF pc[r] \in Working THEN "failed" ELSE pc[r]
          /\ UNCHANGED <<backend, req, groups, members, stray>>
      BY <2>2 DEF Crash, tables, history
    <3> QED BY <3>1 DEF MembersHaveAGroup, HasGroup, Working
  <2>3. CASE UNCHANGED vars
    BY <2>3, Zenon DEF vars, tables, history, MembersHaveAGroup, HasGroup
  <2> QED BY <2>1, <2>2, <2>3, NextMoves
<1> QED BY <1>1, <1>2, InitShape, NextShape, PTL DEF Spec

-----------------------------------------------------------------------------
(* Who put a member there.                                                   *)

HasEntry(m) == \E e \in audit : /\ e.by = m.by /\ e.act = "add_member"
                                /\ e.group = m.group /\ e.sub = m.sub

\* A row's request has written the entry or is about to write this very one.
Accounted ==
    \A m \in members : m.by # Boot =>
        /\ req[m.by].op \in {"open", "add"} /\ pc[m.by] # "idle"
        /\ \/ <<m.by, m.sub>> \in unlogged \/ HasEntry(m) \/ pc[m.by] = "failed"
           \/ pc[m.by] = "log" /\ m.group = Target(m.by) /\ m.sub = Who(m.by)

LEMMA StepAccounted ==
    ASSUME Shape, Accounted, NEW r \in Requests, NEW failed \in BOOLEAN, Observe(r, failed),
           (Step(r) /\ ~failed) \/ (Fail(r) /\ failed), UNCHANGED req
    PROVE  Accounted'
<1>1. Elsewhere(r) /\ pc[r] \in Working /\ pc'[r] \in Working \cup Answers
  BY StepFacts
<1>2. unlogged \subseteq unlogged' /\ audit \subseteq audit'
  BY StepTables DEF Observe, Log
<1>3. SUFFICES ASSUME NEW m \in members', m.by # Boot
               PROVE  /\ req[m.by].op \in {"open", "add"} /\ pc'[m.by] # "idle"
                      /\ \/ <<m.by, m.sub>> \in unlogged' \/ HasEntry(m)'
                         \/ pc'[m.by] = "failed"
                         \/ pc'[m.by] = "log" /\ m.group = Target(m.by)' /\ m.sub = Who(m.by)'
  BY DEF Accounted
<1>4. CASE m \notin members
  <2>1. /\ pc[r] = "put" /\ pc'[r] = "log" /\ UNCHANGED <<at, cur>>
        /\ m.by = r /\ m.group = Target(r) /\ m.sub = Who(r)
    BY <1>3, <1>4, MemberChanges DEF WithMember
  <2>2. req[r].op \in {"open", "add"}
    BY <2>1 DEF Shape, Labels
  <2>3. Target(r)' = Target(r) /\ Who(r)' = Who(r)
    BY <2>1 DEF Target, Who, IsOpen
  <2> QED BY <2>1, <2>2, <2>3
<1>5. CASE m \in members
  <2>1. m.by \in Requests
    BY <1>3, <1>5 DEF Shape, TypeOK, Member, Writers
  <2>2. /\ req[m.by].op \in {"open", "add"} /\ pc[m.by] # "idle"
        /\ \/ <<m.by, m.sub>> \in unlogged \/ HasEntry(m) \/ pc[m.by] = "failed"
           \/ pc[m.by] = "log" /\ m.group = Target(m.by) /\ m.sub = Who(m.by)
    BY <1>3, <1>5 DEF Accounted
  <2>3. HasEntry(m) => HasEntry(m)'
    BY <1>2 DEF HasEntry
  <2>4. CASE m.by # r
    <3>1. Target(m.by)' = Target(m.by) /\ Who(m.by)' = Who(m.by)
      BY <1>1, <2>1, <2>4 DEF Elsewhere, Target, Who, IsOpen
    <3>2. pc'[m.by] = pc[m.by]
      BY <1>1, <2>1, <2>4 DEF Elsewhere
    <3> QED BY <1>2, <2>2, <2>3, <3>1, <3>2
  <2>5. CASE m.by = r
    <3>1. pc[r] # "failed" /\ pc'[r] # "idle"
      BY <1>1 DEF Working, Answers
    <3>2. CASE pc[r] = "log" /\ m.group = Target(r) /\ m.sub = Who(r)
      <4>1. Log(r) \/ Fail(r)
        BY <3>2 DEF Step, At, Migrate, Ensure, FindAdmins, ListChecks, ListRows, SeedNext,
           CheckName, InsertGroup, CheckGroup, PutMember, DropGroup, DropMembers, DropMember,
           GateGroup, GateRow, ResolveRows, ResolveName
      <4>2. CASE Log(r)
        <5>1. EntryOf(r) \in audit'
          BY <4>2 DEF Log
        <5>2. /\ EntryOf(r).by = m.by /\ EntryOf(r).act = "add_member"
              /\ EntryOf(r).group = m.group /\ EntryOf(r).sub = m.sub
          BY <2>2, <2>5, <3>2 DEF EntryOf, Act
        <5>3. HasEntry(m)'
          BY <5>1, <5>2 DEF HasEntry
        <5> QED BY <2>2, <2>5, <3>1, <5>3
      <4>3. CASE Fail(r) /\ failed
        <5>1. CASE IsOpen(r)
          <6>1. <<r, cur[r]>> \in unlogged'
            BY <3>2, <4>3, <5>1 DEF Observe, At
          <6> QED BY <2>2, <2>5, <3>1, <3>2, <5>1, <6>1 DEF Who
        <5>2. CASE ~IsOpen(r)
          <6>1. pc'[r] = "failed"
            BY <3>2, <4>3, <5>2 DEF Fail, At, Goto, Shape, TypeOK
          <6> QED BY <2>2, <2>5, <6>1
        <5> QED BY <5>1, <5>2
      <4>4. CASE ~Log(r) /\ Step(r)
        BY <4>4, <3>2 DEF Step, At, Migrate, Ensure, FindAdmins, ListChecks, ListRows, SeedNext,
           CheckName, InsertGroup, CheckGroup, PutMember, DropGroup, DropMembers, DropMember,
           GateGroup, GateRow, ResolveRows, ResolveName
      <4> QED BY <4>1, <4>2, <4>3, <4>4
    <3> QED BY <1>2, <2>2, <2>3, <2>5, <3>1, <3>2
  <2> QED BY <2>4, <2>5
<1> QED BY <1>4, <1>5

LEMMA NextAccounted == Shape /\ Accounted /\ [Next]_vars => Accounted'
<1> SUFFICES ASSUME Shape, Accounted, [Next]_vars PROVE Accounted'
  OBVIOUS
<1>0. \A m \in members : m.by # Boot => m.by \in Requests
  BY DEF Shape, TypeOK, Member, Writers
<1>1. ASSUME NEW r \in Requests, NEW failed \in BOOLEAN, Moves(r, failed) PROVE Accounted'
  <2>1. CASE Arrive(r)
    <3>1. /\ UNCHANGED <<members, audit, at, cur>> /\ Elsewhere(r) /\ pc[r] = "idle"
      BY <2>1, ArriveFacts DEF Shape
    <3>2. unlogged \subseteq unlogged'
      BY <1>1 DEF Moves, Observe
    <3>3. \A x \in Requests : pc[x] # "idle" =>
              /\ pc'[x] = pc[x] /\ req'[x] = req[x]
              /\ Target(x)' = Target(x) /\ Who(x)' = Who(x)
      BY <3>1 DEF Elsewhere, Target, Who, IsOpen
    <3> QED BY <1>0, <3>1, <3>2, <3>3 DEF Accounted, HasEntry
  <2> QED BY <1>1, <2>1, StepAccounted DEF Moves
<1>2. CASE Crash /\ UNCHANGED history
  <2>1. /\ \A r \in Requests : pc'[r] = IF pc[r] \in Working THEN "failed" ELSE pc[r]
        /\ UNCHANGED <<req, members, audit, unlogged>>
    BY <1>2 DEF Crash, tables, history
  <2> QED BY <1>0, <2>1 DEF Accounted, HasEntry, Working
<1>3. CASE UNCHANGED vars
  BY <1>3, Zenon DEF vars, tables, locals, history, Accounted, HasEntry, Target, Who, IsOpen
<1> QED BY <1>1, <1>2, <1>3, NextMoves

\* Who is a member is in the audit trail, or its entry is on the way, or was
\* lost with a request or a seed that failed.
THEOREM MembersAreAudited == Spec => []MembershipsAreAudited
<1>1. Init => Accounted
  BY InitMembers DEF Accounted
<1>2. Accounted => MembershipsAreAudited
  BY DEF Accounted, HasEntry, MembershipsAreAudited
<1> QED BY <1>1, <1>2, InitShape, NextShape, NextAccounted, PTL DEF Spec

-----------------------------------------------------------------------------
(* The gate.                                                                 *)

Behind == {"check", "insert", "get", "put", "drop", "drop_members", "drop_member", "log"}
Managers == Platform \cup wasAdmin \cup {m.sub : m \in stray}

\* The id of a group that was the instance admins': whoever is a member of it
\* is or was an instance admin, or became a member after it was gone.
OnceAdmins(i) ==
    /\ Born(i)
    /\ \A g \in groups : g.id = i => g.name = Reserved
    /\ \A m \in members : m.group = i => m.sub \in Managers

Gated ==
    /\ Admins \subseteq wasAdmin
    /\ \A r \in Requests : pc[r] = "gate_row" => OnceAdmins(at[r])
    /\ \A r \in Requests : ~IsOpen(r) /\ pc[r] \in Behind => req[r].caller \in Managers

\* The gate is the only way in.
LEMMA GateSteps ==
    ASSUME Shape, NEW r \in Requests, Step(r) \/ Fail(r)
    PROVE  /\ pc'[r] = "gate_row" => GateGroup(r)
           /\ pc'[r] \in Behind /\ ~IsOpen(r) =>
                  pc[r] \in Behind \/ (GateRow(r) /\ HasMember(at[r], req[r].caller))
<1>1. pc \in [Requests -> {"idle"} \cup Working \cup Answers] /\ Labels(r)
  BY DEF Shape, TypeOK
<1> USE <1>1 DEF At, Goto, Behind, IsOpen, Labels, Opened
<1>2. CASE Migrate(r) \/ Ensure(r) \/ FindAdmins(r) \/ ListChecks(r) \/ ListRows(r)
  BY <1>2 DEF Migrate, Ensure, FindAdmins, ListChecks, ListRows
<1>3. CASE SeedNext(r) \/ PutMember(r) \/ Log(r)
  BY <1>3 DEF SeedNext, PutMember, Log, GiveUp, Onward
<1>4. CASE CheckName(r) \/ InsertGroup(r)
  BY <1>4 DEF CheckName, InsertGroup, Refuse
<1>5. CASE CheckGroup(r)
  BY <1>5 DEF CheckGroup
<1>6. CASE DropGroup(r) \/ DropMembers(r) \/ DropMember(r)
  BY <1>6 DEF DropGroup, DropMembers, DropMember
<1>7. CASE GateGroup(r)
  BY <1>7 DEF GateGroup
<1>8. CASE GateRow(r)
  <2>1. req[r] \in Request /\ req[r].op \in {"create", "delete", "add", "remove"}
    BY <1>8 DEF GateRow
  <2>2. pc'[r] = IF HasMember(at[r], req[r].caller) THEN Admitted(req[r]) ELSE "forbidden"
    BY <1>8 DEF GateRow
  <2> QED BY <1>8, <2>1, <2>2, Entrances
<1>9. CASE ResolveRows(r) \/ ResolveName(r)
  BY <1>9 DEF ResolveRows, ResolveName, NextName
<1>10. CASE Fail(r)
  <2>1. /\ pc'[r] \in {"forbidden", "failed", "ok", "next", "name"}
    BY <1>10 DEF Fail, NextName, GiveUp, Onward
  <2> QED BY <2>1
<1> QED BY <1>2, <1>3, <1>4, <1>5, <1>6, <1>7, <1>8, <1>9, <1>10 DEF Step

LEMMA ObserveManagers ==
    ASSUME NEW r, NEW failed, Observe(r, failed)
    PROVE  /\ Admins' \subseteq wasAdmin' /\ Managers \subseteq Managers'
           /\ wasAdmin' \subseteq Managers'
BY Zenon DEF Observe, Managers

LEMMA SameTables ==
    ASSUME groups' = groups, members' = members
    PROVE  Admins' = Admins
<1>1. Named(Reserved)' = Named(Reserved)
  BY DEF Named
<1>2. \A i : SubsOf(i)' = SubsOf(i)
  BY DEF SubsOf
<1> QED BY <1>1, <1>2 DEF Admins

LEMMA StepGated ==
    ASSUME Shape, RowsHaveIds, Gated, NEW r \in Requests, NEW failed \in BOOLEAN,
           Observe(r, failed), Step(r) \/ Fail(r), UNCHANGED req
    PROVE  Gated'
<1>1. Elsewhere(r) /\ Admins' \subseteq wasAdmin' /\ Managers \subseteq Managers'
      /\ wasAdmin' \subseteq Managers'
  BY StepFacts, ObserveManagers
<1>2. ASSUME NEW i, OnceAdmins(i) PROVE OnceAdmins(i)'
  <2>1. Born(i)'
    BY <1>1, <1>2, Successors DEF OnceAdmins, Born, Elsewhere
  <2>2. \A g \in groups' : g.id = i => g.name = Reserved
    <3>1. pc[r] = "insert" => i # r
      BY <1>2 DEF OnceAdmins, Born, Unborn
    <3> QED BY <1>2, <3>1, GroupChanges DEF OnceAdmins
  <2>3. ASSUME NEW m \in members', m.group = i PROVE m.sub \in Managers'
    <3>1. CASE m \in members
      BY <1>1, <1>2, <2>3, <3>1 DEF OnceAdmins
    <3>2. CASE m \notin members /\ \E g \in groups' : g.id = i
      <4>1. m.sub \in Admins'
        BY <2>2, <2>3, <3>2 DEF Admins, Named, SubsOf
      <4> QED BY <1>1, <4>1
    <3>3. CASE m \notin members /\ ~\E g \in groups' : g.id = i
      <4>1. m \in stray'
        BY <2>3, <3>3 DEF Observe
      <4> QED BY <4>1 DEF Managers
    <3> QED BY <3>1, <3>2, <3>3
  <2> QED BY <2>1, <2>2, <2>3 DEF OnceAdmins
<1>3. ASSUME NEW x \in Requests, pc'[x] = "gate_row" PROVE OnceAdmins(at[x])'
  <2>1. PICK i : i = at'[x]
    OBVIOUS
  <2>2. OnceAdmins(i)
    <3>1. CASE x # r
      BY <1>1, <1>3, <2>1, <3>1 DEF Elsewhere, Gated
    <3>2. CASE x = r
      <4>1. GateGroup(r)
        BY <1>3, <3>2, GateSteps
      <4>2. PICK g \in Named(Reserved) : at' = [at EXCEPT ![r] = g.id]
        <5>1. pc'[r] # "forbidden"
          BY <1>3, <3>2
        <5>2. pc \in [Requests -> {"idle"} \cup Working \cup Answers]
          BY DEF Shape, TypeOK
        <5> QED BY <4>1, <5>1, <5>2 DEF GateGroup, Goto
      <4>3. i = g.id /\ g \in groups /\ g.name = Reserved
        BY <2>1, <3>2, <4>2 DEF Named, Shape, TypeOK
      <4>4. \A m \in members : m.group = i => m.sub \in Admins
        BY <4>2, <4>3 DEF Admins, SubsOf
      <4> QED BY <4>3, <4>4 DEF OnceAdmins, RowsHaveIds, Gated, Managers
    <3> QED BY <3>1, <3>2
  <2>3. OnceAdmins(i)'
    BY <1>2, <2>2
  <2> QED BY <2>1, <2>3 DEF OnceAdmins, Born
<1>4. ASSUME NEW x \in Requests, ~IsOpen(x), pc'[x] \in Behind PROVE req[x].caller \in Managers
  <2>1. CASE x # r
    BY <1>1, <1>4, <2>1 DEF Elsewhere, Gated
  <2>2. CASE x = r /\ pc[r] \in Behind
    BY <1>4, <2>2 DEF Gated
  <2>3. CASE x = r /\ GateRow(r) /\ HasMember(at[r], req[r].caller)
    <3>1. OnceAdmins(at[r])
      BY <2>3 DEF GateRow, At, Gated
    <3> QED BY <2>3, <3>1 DEF OnceAdmins, HasMember
  <2> QED BY <1>4, <2>1, <2>2, <2>3, GateSteps
<1> QED BY <1>1, <1>3, <1>4 DEF Gated, IsOpen

LEMMA NextGated == Shape /\ RowsHaveIds /\ Gated /\ [Next]_vars => Gated'
<1> SUFFICES ASSUME Shape, RowsHaveIds, Gated, [Next]_vars PROVE Gated'
  OBVIOUS
<1>1. ASSUME NEW r \in Requests, NEW failed \in BOOLEAN, Moves(r, failed) PROVE Gated'
  <2>1. CASE Arrive(r)
    <3>1. /\ UNCHANGED <<groups, members, at>> /\ Elsewhere(r) /\ pc[r] = "idle"
          /\ req'[r] \in Request
          /\ \/ pc'[r] = First(req'[r])
             \/ /\ pc'[r] = Admitted(req'[r])
                /\ req'[r].op \notin {"open", "resolve"} /\ req'[r].caller \in Platform
      BY <2>1, ArriveFacts DEF Shape
    <3>2. Admins' \subseteq wasAdmin' /\ Managers \subseteq Managers'
      BY <1>1, ObserveManagers DEF Moves
    <3>3. /\ pc'[r] # "gate_row"
          /\ pc'[r] \in Behind => req'[r].caller \in Managers'
      BY <3>1, Entrances, RequestFields DEF Behind, Managers
    <3>4. \A i : OnceAdmins(i) => OnceAdmins(i)'
      BY <3>1, <3>2 DEF OnceAdmins, Born, Unborn, Elsewhere
    <3>5. ASSUME NEW x \in Requests, pc'[x] = "gate_row" PROVE OnceAdmins(at[x])'
      <4>1. PICK i : i = at'[x]
        OBVIOUS
      <4>2. OnceAdmins(i)'
        BY <3>1, <3>3, <3>4, <3>5, <4>1 DEF Elsewhere, Gated
      <4> QED BY <4>1, <4>2 DEF OnceAdmins, Born
    <3>6. ASSUME NEW x \in Requests, req'[x].op # "open", pc'[x] \in Behind
          PROVE  req'[x].caller \in Managers'
      BY <3>1, <3>2, <3>3, <3>6 DEF Elsewhere, Gated, IsOpen
    <3> QED BY <3>2, <3>5, <3>6 DEF Gated, IsOpen
  <2> QED BY <1>1, <2>1, StepGated DEF Moves
<1>2. CASE Crash /\ UNCHANGED history
  <2>1. /\ \A r \in Requests : pc'[r] = IF pc[r] \in Working THEN "failed" ELSE pc[r]
        /\ UNCHANGED <<req, groups, members, at, wasAdmin, stray>>
    BY <1>2 DEF Crash, tables, locals, history
  <2>2. \A r \in Requests : pc'[r] # "gate_row" /\ pc'[r] \notin Behind
    BY <2>1 DEF Behind, Working
  <2>3. groups' = groups /\ members' = members /\ wasAdmin' = wasAdmin
    BY <2>1
  <2>4. Admins' = Admins
    BY <2>3, SameTables
  <2>5. (Admins \subseteq wasAdmin)'
    BY <2>3, <2>4 DEF Gated
  <2> QED BY <2>2, <2>5, Zenon DEF Gated
<1>3. CASE UNCHANGED vars
  <2>1. UNCHANGED <<groups, members, wasAdmin, stray, pc, req, at>>
    BY <1>3, Zenon DEF vars, tables, locals, history
  <2>2. Admins' = Admins
    BY <2>1, SameTables
  <2> QED BY <2>1, <2>2 DEF Gated, OnceAdmins, Born, Managers, IsOpen
<1> QED BY <1>1, <1>2, <1>3, NextMoves

\* The gate fails closed: no request changes a group or a member unless it is an
\* open, or its caller is a platform admin, was an instance admin, or held a
\* membership stored after its group was gone.
THEOREM GateFailsClosed == Spec => ChangedByManagers
<1>1. Init => Gated
  <2> SUFFICES ASSUME Init PROVE Gated
    OBVIOUS
  <2>1. Admins \subseteq wasAdmin /\ \A r \in Requests : pc[r] = "idle"
    BY DEF Init
  <2> QED BY <2>1 DEF Gated, Behind
<1>2. ASSUME Shape, Gated, [Next]_vars, NEW x \in Requests, pc[x] \in Working, pc'[x] # pc[x],
             <<groups, members>>' # <<groups, members>>
      PROVE  IsOpen(x) \/ req[x].caller \in Platform \cup wasAdmin \cup {m.sub : m \in stray}
  <2>1. PICK r \in Requests : (Step(r) \/ Fail(r)) /\ UNCHANGED req
    <3>1. CASE Crash
      BY <1>2, <3>1 DEF Crash, tables
    <3>2. CASE UNCHANGED vars
      BY <1>2, <3>2 DEF vars, tables
    <3>3. ASSUME NEW r \in Requests, Arrive(r) PROVE FALSE
      BY <1>2, <3>3 DEF Arrive, tables
    <3> QED BY <1>2, <3>1, <3>2, <3>3, NextMoves DEF Moves
  <2>2. x = r
    BY <1>2, <2>1, StepFacts DEF Elsewhere
  <2>3. IsOpen(r) \/ pc[r] \in Behind
    BY <1>2, <2>1, GroupChanges, MemberChanges DEF Behind, IsOpen
  <2>4. IsOpen(r) \/ req[r].caller \in Managers
    BY <1>2, <2>3 DEF Gated
  <2> QED BY <2>2, <2>4 DEF Managers
<1>3. Shape /\ Gated /\ [Next]_vars =>
        [\A r \in Requests :
          pc[r] \in Working /\ pc'[r] # pc[r] /\ <<groups, members>>' # <<groups, members>> =>
              IsOpen(r) \/ req[r].caller \in Platform \cup wasAdmin \cup {m.sub : m \in stray}]_vars
  BY <1>2
<1>4. NamesInv => RowsHaveIds
  BY DEF NamesInv
<1> QED BY <1>1, <1>3, <1>4, NamesHold, NextGated, PTL DEF Spec, ChangedByManagers

-----------------------------------------------------------------------------
(* Resolutions.                                                              *)

\* A member row, or one about to be put, is of a group that has been inserted.
RowsAreBorn ==
    /\ \A m \in members : Born(m.group)
    /\ \A r \in Requests : pc[r] = "put" => Born(Target(r))

\* What a resolution has found, has still to look up, and can no longer miss.
Resolved(r) ==
    /\ names[r] \subseteq NamesIn(some[r])
    /\ pc[r] \in {"names", "name"} =>
           Holdings(req[r].sub) \subseteq some[r] /\ all[r] \subseteq Holdings(req[r].sub)
    /\ pc[r] = "name" =>
           /\ \A i \in todo[r] : Born(i) /\ \A g \in groups : g.id = i => g \in some[r]
           /\ \A g \in all[r] : g.id \in todo[r] \/ g.name \in names[r]
    /\ pc[r] = "ok" => NamesIn(all[r]) \subseteq names[r]

Resolutions == \A r \in Requests : req[r].op = "resolve" => Resolved(r)

LEMMA PutSteps ==
    ASSUME Shape, NEW r \in Requests, Step(r) \/ Fail(r), UNCHANGED req, pc'[r] = "put"
    PROVE  HasGroup(Target(r)) /\ Target(r)' = Target(r)
<1>1. pc \in [Requests -> {"idle"} \cup Working \cup Answers] /\ Labels(r)
  BY DEF Shape, TypeOK
<1> USE <1>1 DEF At, Goto, IsOpen, Labels, Opened, Target
<1>2. CASE Migrate(r) \/ Ensure(r) \/ FindAdmins(r) \/ ListChecks(r) \/ ListRows(r)
  BY <1>2 DEF Migrate, Ensure, FindAdmins, ListChecks, ListRows
<1>3. CASE SeedNext(r)
  BY <1>3 DEF SeedNext, GiveUp, Onward
<1>4. CASE PutMember(r) \/ Log(r)
  BY <1>4 DEF PutMember, Log, GiveUp, Onward
<1>5. CASE CheckName(r) \/ InsertGroup(r)
  BY <1>5 DEF CheckName, InsertGroup, Refuse
<1>6. CASE CheckGroup(r)
  <2>1. req[r].op \in {"delete", "add"} /\ req[r].op # "open" /\ req'[r] = req[r]
    BY <1>6 DEF CheckGroup
  <2>2. HasGroup(req[r].group)
    BY <1>6, <2>1 DEF CheckGroup
  <2> QED BY <2>1, <2>2
<1>7. CASE DropGroup(r) \/ DropMembers(r) \/ DropMember(r) \/ GateGroup(r)
  BY <1>7 DEF DropGroup, DropMembers, DropMember, GateGroup
<1>8. CASE GateRow(r)
  <2>1. req[r] \in Request /\ req[r].op \in {"create", "delete", "add", "remove"}
    BY <1>8 DEF GateRow
  <2>2. pc'[r] = IF HasMember(at[r], req[r].caller) THEN Admitted(req[r]) ELSE "forbidden"
    BY <1>8 DEF GateRow
  <2> QED BY <1>8, <2>1, <2>2, Entrances
<1>9. CASE ResolveRows(r) \/ ResolveName(r)
  BY <1>9 DEF ResolveRows, ResolveName, NextName
<1>10. CASE Fail(r)
  <2>1. /\ pc'[r] \in {"forbidden", "failed", "ok", "next", "name"}
    BY <1>10 DEF Fail, NextName, GiveUp, Onward
  <2> QED BY <2>1
<1> QED BY <1>2, <1>3, <1>4, <1>5, <1>6, <1>7, <1>8, <1>9, <1>10 DEF Step

LEMMA StepBorn ==
    ASSUME Shape, RowsHaveIds, RowsAreBorn, NEW r \in Requests, Step(r) \/ Fail(r), UNCHANGED req
    PROVE  RowsAreBorn' /\ \A i : Born(i) => Born(i)'
<1>1. Elsewhere(r)
  BY StepFacts
<1>2. \A i : Born(i) => Born(i)'
  BY <1>1, Successors DEF Born, Elsewhere
<1>3. ASSUME NEW m \in members' PROVE Born(m.group)'
  <2>1. m \in members \/ (pc[r] = "put" /\ m.group = Target(r))
    BY MemberChanges DEF WithMember
  <2>2. Born(m.group)
    BY <2>1 DEF RowsAreBorn
  <2> QED BY <1>2, <2>2
<1>4. ASSUME NEW x \in Requests, pc'[x] = "put" PROVE Born(Target(x))'
  <2>1. PICK i : i = Target(x)'
    OBVIOUS
  <2>2. Born(i)
    <3>1. CASE x = r
      BY <1>4, <2>1, <3>1, PutSteps DEF HasGroup, RowsHaveIds
    <3>2. CASE x # r
      <4>1. Target(x)' = Target(x) /\ pc[x] = "put"
        BY <1>1, <1>4, <3>2 DEF Elsewhere, Target, IsOpen
      <4> QED BY <2>1, <4>1 DEF RowsAreBorn
    <3> QED BY <3>1, <3>2
  <2>3. Born(i)'
    BY <1>2, <2>2
  <2> QED BY <2>1, <2>3 DEF Born
<1> QED BY <1>2, <1>3, <1>4 DEF RowsAreBorn

\* What a step adds to the groups and members a resolution has seen.
LEMMA ObserveHoldings ==
    ASSUME NEW r, NEW failed, Observe(r, failed), NEW q \in Requests,
           req'[q].op = "resolve"
    PROVE  /\ pc[q] \in {"idle", "names", "name"} =>
                  /\ some'[q] = some[q] \cup Holdings(req[q].sub)'
                  /\ all'[q] \subseteq Holdings(req[q].sub)'
                  /\ pc[q] # "idle" => all'[q] \subseteq all[q]
                  /\ failed /\ q = r /\ pc[q] = "name" =>
                         \A g \in all'[q] : ~(g \in groups /\ g.id \in todo[q] \ todo'[q])
           /\ pc[q] \notin {"idle", "names", "name"} => some'[q] = some[q] /\ all'[q] = all[q]
BY DEF Observe, Resolving, At

\* A resolution keeps what it knows while another request takes a step.
LEMMA OthersResolved ==
    ASSUME Shape, Resolutions, NEW q \in Requests, req[q].op = "resolve",
           NEW r \in Requests \ {q}, NEW failed, Observe(r, failed),
           UNCHANGED <<pc[q], req[q], todo[q], names[q]>>,
           \A i : Born(i) => Born(i)',
           pc[q] = "name" => \A g \in groups' : g \in groups \/ ~Born(g.id)
    PROVE  Resolved(q)'
<1>1. Resolved(q) /\ pc[q] # "idle"
  BY DEF Resolutions, Shape, SeedData, NoRequest
<1>2. CASE pc[q] \in {"names", "name"}
  <2>1. /\ some'[q] = some[q] \cup Holdings(req[q].sub)'
        /\ all'[q] \subseteq Holdings(req[q].sub)' /\ all'[q] \subseteq all[q]
    BY <1>2, ObserveHoldings
  <2>2. names'[q] \subseteq NamesIn(some'[q])
    BY <1>1, <2>1 DEF Resolved, NamesIn
  <2>3. pc[q] = "name" =>
           /\ \A i \in todo[q] : Born(i)' /\ \A g \in groups' : g.id = i => g \in some'[q]
           /\ \A g \in all'[q] : g.id \in todo[q] \/ g.name \in names[q]
    BY <1>1, <2>1 DEF Resolved
  <2> QED BY <1>2, <2>1, <2>2, <2>3 DEF Resolved, NamesIn
<1>3. CASE pc[q] \notin {"names", "name"}
  <2>1. some'[q] = some[q] /\ all'[q] = all[q]
    BY <1>1, <1>3, ObserveHoldings
  <2> QED BY <1>1, <1>3, <2>1 DEF Resolved, NamesIn
<1> QED BY <1>2, <1>3

\* A resolution's own statements.
LEMMA OwnResolved ==
    ASSUME Shape, RowsAreBorn, Resolutions, NEW r \in Requests, req[r].op = "resolve",
           NEW failed \in BOOLEAN, Observe(r, failed),
           (Step(r) /\ ~failed) \/ (Fail(r) /\ failed), UNCHANGED <<req, backend>>,
           \A i : Born(i) => Born(i)'
    PROVE  Resolved(r)'
<1>1. /\ Resolved(r) /\ Labels(r) /\ pc[r] \in Working
      /\ pc \in [Requests -> {"idle"} \cup Working \cup Answers]
      /\ todo \in [Requests -> (SUBSET Subs) \cup (SUBSET Ids)]
      /\ names \in [Requests -> SUBSET Names] /\ backend \in {"sqlite", "mongo"}
  BY StepFacts, GroupsAssumption DEF Resolutions, Shape, TypeOK
<1>2. pc[r] \in {"names", "name"}
  BY <1>1 DEF Labels, Opened, Working
<1>3. \/ ResolveRows(r) /\ ~failed /\ pc[r] = "names"
      \/ ResolveName(r) /\ ~failed /\ pc[r] = "name"
      \/ Fail(r) /\ failed
  BY <1>2 DEF Step, At, Migrate, Ensure, FindAdmins, ListChecks, ListRows, SeedNext,
     CheckName, InsertGroup, CheckGroup, PutMember, DropGroup, DropMembers, DropMember, Log,
     GateGroup, GateRow, ResolveRows, ResolveName
<1>4. groups' = groups /\ members' = members
  BY <1>2, GroupChanges, MemberChanges
<1>5. \A s : Holdings(s)' = Holdings(s)
  <2>1. \A s : GroupsOf(s)' = GroupsOf(s)
    BY <1>4 DEF GroupsOf
  <2> QED BY <1>4, <2>1 DEF Holdings
<1>6. /\ some'[r] = some[r] \cup Holdings(req[r].sub)
      /\ all'[r] \subseteq Holdings(req[r].sub) /\ all'[r] \subseteq all[r]
  BY <1>2, <1>5, ObserveHoldings
<1>7. Holdings(req[r].sub)' = Holdings(req[r].sub) /\ Holdings(req[r].sub) \subseteq groups
  BY <1>5 DEF Holdings
<1> USE <1>1 DEF At, Goto
<1>8. CASE ResolveRows(r) /\ pc[r] = "names"
  <2>1. CASE backend = "sqlite"
    <3>1. names'[r] = NamesIn(Holdings(req[r].sub)) /\ pc'[r] = "ok"
      BY <1>8, <2>1 DEF ResolveRows, NamesOf
    <3> QED BY <1>6, <3>1 DEF Resolved, NamesIn
  <2>2. CASE backend = "mongo"
    <3>1. /\ names'[r] = names[r] /\ todo'[r] = GroupsOf(req[r].sub)
          /\ pc'[r] = IF GroupsOf(req[r].sub) = {} THEN "ok" ELSE "name"
      BY <1>8, <2>2 DEF ResolveRows
    <3>2. \A g \in Holdings(req[r].sub) : g.id \in GroupsOf(req[r].sub)
      BY DEF Holdings
    <3>3. \A g \in groups : g.id \in GroupsOf(req[r].sub) => g \in some'[r]
      BY <1>6 DEF Holdings
    <3>4. \A i \in GroupsOf(req[r].sub) : Born(i)'
      BY DEF GroupsOf, RowsAreBorn
    <3>5. names[r] \subseteq NamesIn(some[r])
      BY DEF Resolved
    <3> QED BY <1>4, <1>6, <1>7, <3>1, <3>2, <3>3, <3>4, <3>5 DEF Resolved, NamesIn
  <2> QED BY <2>1, <2>2
<1>9. CASE pc[r] = "name" /\ (ResolveName(r) \/ (Fail(r) /\ failed))
  <2>1. PICK i \in todo[r] :
           /\ \/ names'[r] = names[r] \cup NamesIn({g \in groups : g.id = i})
              \/ failed /\ names'[r] = names[r]
           /\ todo'[r] = todo[r] \ {i}
           /\ pc'[r] = IF todo[r] \ {i} = {} THEN "ok" ELSE "name"
    BY <1>9 DEF ResolveName, Fail, NextName, IsOpen
  <2>2. /\ \A j \in todo[r] : Born(j) /\ \A g \in groups : g.id = j => g \in some[r]
        /\ \A g \in all[r] : g.id \in todo[r] \/ g.name \in names[r]
        /\ names[r] \subseteq NamesIn(some[r])
    BY <1>9 DEF Resolved
  <2>3. names'[r] \subseteq NamesIn(some'[r])
    <3>1. NamesIn({g \in groups : g.id = i}) \subseteq NamesIn(some[r])
      BY <2>2 DEF NamesIn
    <3>2. NamesIn(some[r]) \subseteq NamesIn(some'[r])
      BY <1>6 DEF NamesIn
    <3> QED BY <2>1, <2>2, <3>1, <3>2
  <2>4. ASSUME NEW g \in all'[r] PROVE g.id \in todo'[r] \/ g.name \in names'[r]
    <3>1. g \in all[r] /\ g \in groups
      BY <1>6, <1>7, <2>4
    <3>2. CASE g.id = i /\ ~failed
      <4>1. g.name \in NamesIn({h \in groups : h.id = i})
        BY <3>1, <3>2 DEF NamesIn
      <4> QED BY <2>1, <3>2, <4>1
    <3>3. CASE g.id = i /\ failed
      BY <1>9, <2>1, <2>4, <3>1, <3>3, ObserveHoldings
    <3>4. CASE g.id # i
      BY <2>1, <2>2, <3>1, <3>4
    <3> QED BY <3>2, <3>3, <3>4
  <2>5. \A j \in todo'[r] : Born(j)' /\ \A g \in groups' : g.id = j => g \in some'[r]
    BY <1>4, <1>6, <2>1, <2>2
  <2>6. pc'[r] = "ok" => todo'[r] = {}
    BY <2>1
  <2> QED BY <1>6, <1>7, <2>1, <2>3, <2>4, <2>5, <2>6 DEF Resolved, NamesIn
<1>10. CASE pc[r] = "names" /\ Fail(r)
  <2>1. pc'[r] = "failed" /\ names'[r] = names[r]
    BY <1>10 DEF Fail, IsOpen
  <2>2. names[r] \subseteq NamesIn(some[r])
    BY DEF Resolved
  <2> QED BY <1>6, <2>1, <2>2 DEF Resolved, NamesIn
<1> QED BY <1>2, <1>3, <1>8, <1>9, <1>10

LEMMA NextResolved ==
    Shape /\ RowsHaveIds /\ RowsAreBorn /\ Resolutions /\ [Next]_vars
      => RowsAreBorn' /\ Resolutions'
<1> SUFFICES ASSUME Shape, RowsHaveIds, RowsAreBorn, Resolutions, [Next]_vars
             PROVE  RowsAreBorn' /\ Resolutions'
  OBVIOUS
<1>1. ASSUME NEW r \in Requests, NEW failed \in BOOLEAN, Moves(r, failed)
      PROVE  RowsAreBorn' /\ Resolutions'
  <2>1. Observe(r, failed) /\ backend' = backend
    BY <1>1 DEF Moves, Serve
  <2>2. CASE Arrive(r)
    <3>1. /\ UNCHANGED <<groups, members, at, todo, names>> /\ Elsewhere(r) /\ pc[r] = "idle"
          /\ req'[r] \in Request /\ pc'[r] \notin {"put", "idle"}
          /\ req'[r].op = "resolve" => pc'[r] = "names"
      BY <2>2, ArriveFacts, Entrances, RequestFields DEF Shape
    <3>2. \A i : Born(i) => Born(i)'
      BY <3>1 DEF Born, Unborn, Elsewhere
    <3>3. RowsAreBorn'
      <4>1. \A m \in members' : Born(m.group)'
        BY <3>1, <3>2 DEF RowsAreBorn
      <4>2. ASSUME NEW x \in Requests, pc'[x] = "put" PROVE Born(Target(x))'
        <5>1. x # r
          BY <3>1, <4>2
        <5>2. Target(x)' = Target(x) /\ pc[x] = "put"
          BY <3>1, <4>2, <5>1 DEF Elsewhere, Target, IsOpen
        <5>3. PICK i : i = Target(x)
          OBVIOUS
        <5>4. Born(i)'
          BY <3>2, <5>2, <5>3 DEF RowsAreBorn
        <5> QED BY <5>2, <5>3, <5>4 DEF Born
      <4> QED BY <4>1, <4>2 DEF RowsAreBorn
    <3>4. ASSUME NEW q \in Requests, req'[q].op = "resolve" PROVE Resolved(q)'
      <4>1. CASE q = r
        <5>1. names'[r] = {} /\ pc'[r] = "names"
          BY <3>1, <3>4, <4>1 DEF Shape, SeedData
        <5>2. some'[r] = some[r] \cup Holdings(req[r].sub)' /\ all'[r] \subseteq Holdings(req[r].sub)'
          BY <2>1, <3>1, <3>4, <4>1, ObserveHoldings
        <5> QED BY <4>1, <5>1, <5>2 DEF Resolved
      <4>2. CASE q # r
        BY <2>1, <3>1, <3>2, <3>4, <4>2, OthersResolved DEF Elsewhere
      <4> QED BY <4>1, <4>2
    <3> QED BY <3>3, <3>4 DEF Resolutions
  <2>3. CASE (Step(r) /\ ~failed /\ UNCHANGED req) \/ (Fail(r) /\ failed /\ UNCHANGED req)
    <3>1. RowsAreBorn' /\ (\A i : Born(i) => Born(i)') /\ Elsewhere(r) /\ req' = req
      BY <2>3, StepBorn, StepFacts
    <3>2. ASSUME NEW q \in Requests, req[q].op = "resolve" PROVE Resolved(q)'
      <4>1. CASE q = r
        BY <2>1, <2>3, <3>1, <3>2, <4>1, OwnResolved
      <4>2. CASE q # r
        <5>1. pc[q] = "name" => \A g \in groups' : g \in groups \/ ~Born(g.id)
          <6>1. pc[q] = "name" => backend = "mongo"
            BY DEF Shape, Labels
          <6>2. pc[r] = "insert" => ~Born(r)
            BY DEF Born, Unborn
          <6> QED BY <2>3, <6>1, <6>2, GroupChanges
        <5> QED BY <2>1, <3>1, <3>2, <4>2, <5>1, OthersResolved DEF Elsewhere
      <4> QED BY <4>1, <4>2
    <3> QED BY <3>1, <3>2 DEF Resolutions
  <2> QED BY <1>1, <2>2, <2>3 DEF Moves
<1>2. CASE Crash /\ UNCHANGED history
  <2>1. /\ \A r \in Requests : pc'[r] = IF pc[r] \in Working THEN "failed" ELSE pc[r]
        /\ UNCHANGED <<req, groups, members, todo, names, some, all>>
    BY <1>2 DEF Crash, tables, locals, history
  <2>2. \A r \in Requests : /\ pc'[r] \notin {"put", "names", "name"}
                            /\ pc'[r] = "ok" => pc[r] = "ok"
    BY <2>1 DEF Working
  <2>3. \A i : Born(i) => Born(i)'
    BY <2>1 DEF Born, Unborn, Working
  <2>4. RowsAreBorn'
    BY <2>1, <2>2, <2>3 DEF RowsAreBorn
  <2>5. \A q \in Requests : req[q].op = "resolve" => Resolved(q)'
    BY <2>1, <2>2 DEF Resolutions, Resolved, NamesIn
  <2> QED BY <2>1, <2>4, <2>5 DEF Resolutions
<1>3. CASE UNCHANGED vars
  <2>1. UNCHANGED <<groups, members, req, pc, at, todo, names, some, all>>
    BY <1>3, Zenon DEF vars, tables, locals, history
  <2>2. \A i : Born(i)' <=> Born(i)
    BY <2>1 DEF Born
  <2>3. RowsAreBorn'
    BY <2>1, <2>2 DEF RowsAreBorn, Target, IsOpen, Born
  <2>4. \A s : Holdings(s)' = Holdings(s)
    BY <2>1 DEF Holdings, GroupsOf
  <2>5. \A q \in Requests : Resolved(q) => Resolved(q)'
    BY <2>1, <2>2, <2>4 DEF Resolved, NamesIn
  <2> QED BY <2>1, <2>3, <2>5 DEF Resolutions
<1> QED BY <1>1, <1>2, <1>3, NextMoves

\* The names a resolution answers were the principal's while it ran, and none is
\* missing that was the principal's all the time and whose lookup did not fail.
THEOREM ResolutionsAreCurrent == Spec => []ResolutionIsCurrent
<1>1. Init => RowsAreBorn /\ Resolutions
  <2> SUFFICES ASSUME Init PROVE RowsAreBorn /\ Resolutions
    OBVIOUS
  <2>1. \A m \in members : HasGroup(m.group)
    BY InitMembers
  <2>2. \A r \in Requests : pc[r] = "idle" /\ req[r].op = "none"
    BY DEF Init, NoRequest
  <2>3. \A g \in groups : Born(g.id)
    BY InitNames DEF NamesInv, RowsHaveIds
  <2> QED BY <2>1, <2>2, <2>3 DEF RowsAreBorn, Resolutions, HasGroup
<1>2. Resolutions => ResolutionIsCurrent
  BY DEF Resolutions, Resolved, ResolutionIsCurrent, At
<1>3. NamesInv => RowsHaveIds
  BY DEF NamesInv
<1> QED BY <1>1, <1>2, <1>3, NamesHold, NextResolved, PTL DEF Spec

-----------------------------------------------------------------------------
(* Seeds.                                                                    *)

\* The group an open has found by name stays the instance-admins group while
\* it works: on SQLite nobody may delete it, on MongoDB nobody else is there.
Found ==
    \A r \in Requests : IsOpen(r) /\ pc[r] \in {"list", "list_rows", "next", "put", "log"} =>
        [id |-> at[r], name |-> Reserved] \in groups

\* A seed the loop is done with is a member, unless it is excused.
DoneWith(r, s) == HasMember(at[r], s) \/ <<r, s>> \in excused
Landing ==
    \A r \in Requests : Seeding(r) =>
        \A s \in Seeds : s \in todo[r] \/ (pc[r] = "put" /\ s = cur[r]) \/ DoneWith(r, s)

LEMMA FindSteps ==
    ASSUME Shape, NEW r \in Requests, Step(r) \/ Fail(r), IsOpen(r)
    PROVE  /\ pc'[r] = "list" => FindAdmins(r)
           /\ pc'[r] \in {"list_rows", "next", "put", "log"} =>
                 /\ pc[r] \in {"list", "list_rows", "next", "put", "log"}
                 /\ at'[r] = at[r] /\ groups' = groups
           /\ pc'[r] \in {"next", "put", "log", "ok"} /\ Seeds # {} =>
                 ListRows(r) \/ SeedNext(r) \/ PutMember(r) \/ Log(r) \/ Fail(r)
<1>1. pc \in [Requests -> {"idle"} \cup Working \cup Answers] /\ Labels(r)
      /\ at \in [Requests -> Ids]
  BY DEF Shape, TypeOK
<1> USE <1>1 DEF At, Goto, IsOpen, Labels, Opened
<1>2. CASE Migrate(r) \/ Ensure(r) \/ FindAdmins(r)
  BY <1>2 DEF Migrate, Ensure, FindAdmins
<1>3. CASE ListChecks(r) \/ ListRows(r) \/ SeedNext(r)
  BY <1>3 DEF ListChecks, ListRows, SeedNext, GiveUp, Onward, tables, locals
<1>4. CASE PutMember(r) \/ Log(r)
  BY <1>4 DEF PutMember, Log, GiveUp, Onward, locals
<1>5. CASE CheckName(r) \/ InsertGroup(r)
  BY <1>5 DEF CheckName, InsertGroup, Refuse
<1>6. CASE CheckGroup(r) \/ DropGroup(r) \/ DropMembers(r) \/ DropMember(r)
  BY <1>6 DEF CheckGroup, DropGroup, DropMembers, DropMember
<1>7. CASE GateGroup(r) \/ GateRow(r) \/ ResolveRows(r) \/ ResolveName(r)
  BY <1>7 DEF GateGroup, GateRow, ResolveRows, ResolveName
<1>8. CASE Fail(r)
  BY <1>8 DEF Fail, NextName, GiveUp, Onward, tables, Working
<1> QED BY <1>2, <1>3, <1>4, <1>5, <1>6, <1>7, <1>8 DEF Step

\* Nobody takes the group an open has found.
LEMMA StepFound ==
    ASSUME Shape, NamesInv, Found, NEW r \in Requests, Step(r) \/ Fail(r), UNCHANGED req
    PROVE  Found'
<1>1. Elsewhere(r) /\ pc[r] \in Working
      /\ (\A g \in groups : g = [id |-> g.id, name |-> g.name])
      /\ at \in [Requests -> Ids] /\ backend \in {"sqlite", "mongo"}
      /\ pc \in [Requests -> {"idle"} \cup Working \cup Answers]
  BY StepFacts, GroupsAssumption DEF Shape, TypeOK, Group
<1>2. SUFFICES ASSUME NEW x \in Requests, IsOpen(x),
                      pc'[x] \in {"list", "list_rows", "next", "put", "log"}
               PROVE  [id |-> at'[x], name |-> Reserved] \in groups'
  BY DEF Found, IsOpen
<1>3. CASE x = r
  <2>1. CASE FindAdmins(r)
    <3>1. groups' = groups
      BY <2>1 DEF FindAdmins, tables
    <3>2. \E g \in Named(Reserved) : at'[r] = g.id
      BY <1>1, <1>2, <1>3, <2>1 DEF FindAdmins, At, Goto
    <3> QED BY <1>1, <1>3, <3>1, <3>2 DEF Named
  <2>2. CASE ~FindAdmins(r)
    BY <1>2, <1>3, <2>2, FindSteps DEF Found
  <2> QED BY <2>1, <2>2
<1>4. CASE x # r
  <2>1. /\ [id |-> at[x], name |-> Reserved] \in groups /\ at'[x] = at[x]
        /\ pc[x] \in {"list", "list_rows", "next", "put", "log"}
    BY <1>1, <1>2, <1>4 DEF Found, Elsewhere
  <2>2. pc[x] \in Working
    BY <2>1 DEF Working
  <2>3. backend = "sqlite"
    BY <1>1, <1>2, <1>4, <2>2 DEF NamesInv, Alone
  <2>4. at[x] = Fixed
    BY <2>1, <2>3 DEF NamesInv, SqliteNames
  <2>5. pc[r] = "drop" /\ req[r].op = "delete" => req[r].group # Fixed
    BY DEF Shape, Unreserved
  <2> QED BY <2>1, <2>4, <2>5, GroupChanges
<1> QED BY <1>3, <1>4

\* What the history says of an open's seeds after a step of r.
LEMMA ObserveExcused ==
    ASSUME Shape, NEW r \in Requests, NEW failed, Observe(r, failed), members' \subseteq Member
    PROVE  /\ excused \subseteq excused'
           /\ \A q \in Requests, s \in Seeds, m \in members :
                 Seeding(q) /\ m.group = at[q] /\ m.sub = s => m \in members' \/ <<q, s>> \in excused'
           /\ \A s \in Seeds :
                 Seeding(r) /\ pc[r] # "log" /\ pc'[r] # "put" /\ s = cur'[r] =>
                     <<r, s>> \in excused' \/ \E m \in members' : m.group = at[r] /\ m.sub = s
<1>1. \A q : \A s : \A m \in Member : m \in Row(q, s) <=> m.group = at[q] /\ m.sub = s
  BY DEF Row, Member
<1>2. members \subseteq Member
  BY DEF Shape, TypeOK
<1>3. \A q \in Requests, s \in Seeds :
         Seeding(q) /\ Row(q, s) \cap (members \ members') # {} => <<q, s>> \in excused'
  BY DEF Observe
<1>4. \A s \in Seeds : Seeding(r) /\ pc[r] # "log" /\ pc'[r] # "put" /\ s = cur'[r]
         /\ Row(r, s) \cap members' = {} => <<r, s>> \in excused'
  BY Zenon DEF Observe
<1>5. excused \subseteq excused'
  BY DEF Observe
<1>6. ASSUME NEW q \in Requests, NEW s \in Seeds, NEW m \in members,
             Seeding(q), m.group = at[q], m.sub = s
      PROVE  m \in members' \/ <<q, s>> \in excused'
  <2>1. m \in Row(q, s)
    BY <1>1, <1>2, <1>6
  <2> QED BY <1>3, <1>6, <2>1
<1>7. ASSUME NEW s \in Seeds, Seeding(r), pc[r] # "log", pc'[r] # "put", s = cur'[r]
      PROVE  <<r, s>> \in excused' \/ \E m \in members' : m.group = at[r] /\ m.sub = s
  BY <1>1, <1>4, <1>7
<1> QED BY <1>5, <1>6, <1>7

\* An open's own statements: what they leave of its seeds.
LEMMA OwnLanding ==
    ASSUME Shape, Found, Landing, NEW r \in Requests, NEW failed, Observe(r, failed),
           Step(r) \/ Fail(r), UNCHANGED <<req, backend>>, IsOpen(r),
           Seeds # {}, pc'[r] \in {"next", "put", "log", "ok"}
    PROVE  /\ \A s \in Seeds : s \in todo'[r] \/ (pc'[r] = "put" /\ s = cur'[r]) \/ DoneWith(r, s)'
           /\ pc'[r] = "ok" => todo'[r] = {}
           /\ at'[r] = at[r] /\ groups' = groups
           /\ pc[r] \in {"list_rows", "next", "put", "log"}
<1>1. /\ Labels(r) /\ SeedData(r) /\ pc[r] \in Working
      /\ pc \in [Requests -> {"idle"} \cup Working \cup Answers]
      /\ todo \in [Requests -> (SUBSET Subs) \cup (SUBSET Ids)]
      /\ cur \in [Requests -> Subs \cup {Nobody}]
      /\ members' \subseteq Member
  BY StepFacts, StepTypes DEF Shape, TypeOK
<1>2. pc[r] \in {"next", "put", "log"} =>
        \A s \in Seeds : s \in todo[r] \/ (pc[r] = "put" /\ s = cur[r]) \/ DoneWith(r, s)
  BY DEF Landing, Seeding
<1>3. ListRows(r) \/ SeedNext(r) \/ PutMember(r) \/ Log(r) \/ Fail(r)
  BY FindSteps
<1>4. /\ pc[r] \in {"list_rows", "next", "put", "log"}
      /\ at'[r] = at[r] /\ groups' = groups
  <2>1. CASE Fail(r)
    <3>1. pc[r] \in {"next", "put", "log"}
      BY <1>1, <2>1 DEF Fail, At, Goto, IsOpen, Labels
    <3> QED BY <2>1, <3>1 DEF Fail, tables
  <2> QED BY <1>3, <2>1, Zenon DEF ListRows, SeedNext, PutMember, Log, At, tables, locals
<1>5. ASSUME NEW s \in Seeds, DoneWith(r, s), pc[r] \in {"next", "put", "log"} PROVE DoneWith(r, s)'
  BY <1>4, <1>5, ObserveExcused, <1>1 DEF DoneWith, HasMember, Seeding
<1>6. ASSUME pc[r] \in {"next", "put"}, pc'[r] # "put", NEW s \in Seeds, s = cur'[r]
      PROVE  DoneWith(r, s)'
  BY <1>1, <1>4, <1>6, ObserveExcused DEF DoneWith, HasMember, Seeding
<1> USE <1>1 DEF At, Goto
<1>7. CASE ListRows(r)
  <2>1. /\ todo'[r] = Seeds \ SubsOf(at[r])
        /\ pc'[r] = "ok" => todo'[r] = {}
        /\ members' = members /\ pc[r] = "list_rows"
    BY <1>7 DEF ListRows, tables
  <2>2. \A s \in Seeds : s \in todo'[r] \/ HasMember(at[r], s)
    BY <2>1 DEF HasMember, SubsOf
  <2> QED BY <1>4, <2>1, <2>2 DEF DoneWith, HasMember
<1>8. CASE pc[r] = "next" /\ (SeedNext(r) \/ Fail(r))
  <2>1. PICK s \in todo[r] : /\ todo'[r] = todo[r] \ {s} /\ cur'[r] = s
                             /\ pc'[r] = "ok" => todo'[r] = {}
    BY <1>8 DEF SeedNext, Fail, GiveUp, Onward
  <2>2. s \in Seeds
    BY <2>1 DEF IsOpen, SeedData
  <2>3. CASE pc'[r] = "put"
    BY <1>2, <1>4, <1>5, <1>8, <2>1, <2>3
  <2>4. CASE pc'[r] # "put"
    BY <1>2, <1>4, <1>5, <1>6, <1>8, <2>1, <2>2, <2>4
  <2> QED BY <2>3, <2>4
<1>9. CASE PutMember(r)
  <2>1. HasGroup(at[r])
    BY <1>9 DEF PutMember, Found, HasGroup
  <2>2. /\ members' = WithMember(r) /\ pc'[r] = "log" /\ todo' = todo /\ pc[r] = "put"
    BY <1>9, <2>1 DEF PutMember, Target, IsOpen
  <2>3. cur' = cur
    BY <1>9 DEF PutMember
  <2>4. HasMember(at[r], cur[r])'
    <3>1. \E m \in WithMember(r) : m.group = at[r] /\ m.sub = cur[r]
      <4>1. Target(r) = at[r] /\ Who(r) = cur[r]
        BY DEF Target, Who, IsOpen
      <4>2. CASE HasMember(at[r], cur[r])
        BY <4>1, <4>2 DEF WithMember, HasMember
      <4>3. CASE ~HasMember(at[r], cur[r])
        <5>1. [group |-> at[r], sub |-> cur[r], by |-> r] \in WithMember(r)
          BY <4>1, <4>3 DEF WithMember
        <5> QED BY <5>1
      <4> QED BY <4>2, <4>3
    <3> QED BY <1>4, <2>2, <2>3, <3>1 DEF HasMember
  <2> QED BY <1>2, <1>4, <1>5, <2>2, <2>3, <2>4 DEF DoneWith, HasMember
<1>10. CASE Log(r)
  <2>1. /\ todo' = todo /\ pc[r] = "log" /\ pc'[r] # "put"
        /\ pc'[r] = "ok" => todo[r] = {}
    BY <1>10 DEF Log, Onward, IsOpen, locals
  <2> QED BY <1>2, <1>4, <1>5, <2>1
<1>11. CASE Fail(r) /\ pc[r] \in {"put", "log"}
  <2>1. /\ todo'[r] = todo[r] /\ cur' = cur /\ pc'[r] # "put"
        /\ pc'[r] = "ok" => todo'[r] = {}
    BY <1>11 DEF Fail, GiveUp, Onward, IsOpen
  <2>2. pc[r] = "put" => cur[r] \in Seeds
    BY DEF SeedData, IsOpen
  <2> QED BY <1>2, <1>4, <1>5, <1>6, <1>11, <2>1, <2>2
<1>12. CASE Fail(r)
  <2>1. pc[r] # "list_rows"
    BY <1>12 DEF Fail, IsOpen
  <2> QED BY <1>4, <1>8, <1>11, <1>12, <2>1
<1> QED BY <1>3, <1>7, <1>8, <1>9, <1>10, <1>12 DEF SeedNext

LEMMA NextLanding ==
    Shape /\ NamesInv /\ Found /\ Landing /\ [Next]_vars => Found' /\ Landing'
<1> SUFFICES ASSUME Shape, NamesInv, Found, Landing, [Next]_vars PROVE Found' /\ Landing'
  OBVIOUS
<1>1. ASSUME NEW r \in Requests, NEW failed \in BOOLEAN, Moves(r, failed)
      PROVE  Found' /\ Landing'
  <2>1. Observe(r, failed) /\ UNCHANGED backend
    BY <1>1 DEF Moves, Serve
  <2>2. CASE Arrive(r)
    <3>1. /\ UNCHANGED <<groups, members, at, cur, todo>> /\ Elsewhere(r)
          /\ req'[r].op = "open" => pc'[r] \in {"migrate", "ensure"}
      BY <2>2, ArriveFacts, Entrances DEF Shape
    <3>2. excused \subseteq excused'
      BY <2>1 DEF Observe
    <3>3. \A x \in Requests : req'[x].op = "open" /\ pc'[x] \notin {"migrate", "ensure"} =>
              IsOpen(x) /\ pc'[x] = pc[x]
      BY <3>1 DEF Elsewhere, IsOpen
    <3>4. Found'
      BY <3>1, <3>3 DEF Found, IsOpen
    <3>5. Landing'
      BY <3>1, <3>2, <3>3 DEF Landing, Seeding, DoneWith, HasMember, IsOpen
    <3> QED BY <3>4, <3>5
  <2>3. CASE (Step(r) \/ Fail(r)) /\ UNCHANGED req
    <3>1. Found' /\ Elsewhere(r) /\ members' \subseteq Member
      BY <2>1, <2>3, StepFound, StepFacts, StepTypes
    <3>2. SUFFICES ASSUME NEW x \in Requests, IsOpen(x), pc'[x] \in {"next", "put", "log"},
                          NEW s \in Seeds
                   PROVE  s \in todo'[x] \/ (pc'[x] = "put" /\ s = cur'[x]) \/ DoneWith(x, s)'
      BY <2>3, <3>1 DEF Landing, Seeding, IsOpen
    <3>3. CASE x = r
      BY <2>1, <2>3, <3>2, <3>3, OwnLanding
    <3>4. CASE x # r
      <4>1. /\ pc'[x] = pc[x] /\ at'[x] = at[x] /\ todo'[x] = todo[x] /\ cur'[x] = cur[x]
            /\ Seeding(x)
        BY <3>1, <3>2, <3>4 DEF Elsewhere, Seeding
      <4>2. DoneWith(x, s) => DoneWith(x, s)'
        BY <2>1, <3>1, <4>1, ObserveExcused DEF DoneWith, HasMember
      <4> QED BY <4>1, <4>2 DEF Landing
    <3> QED BY <3>3, <3>4
  <2> QED BY <1>1, <2>2, <2>3 DEF Moves
<1>2. CASE Crash /\ UNCHANGED history
  <2>1. /\ \A r \in Requests : pc'[r] = IF pc[r] \in Working THEN "failed" ELSE pc[r]
    BY <1>2 DEF Crash
  <2>2. \A r \in Requests : pc'[r] \notin {"list", "list_rows", "next", "put", "log"}
    BY <2>1 DEF Working
  <2> QED BY <2>2 DEF Found, Landing, Seeding
<1>3. CASE UNCHANGED vars
  <2>1. UNCHANGED <<groups, members, req, pc, at, todo, cur, excused>>
    BY <1>3, Zenon DEF vars, tables, locals, history
  <2> QED BY <2>1 DEF Found, Landing, Seeding, DoneWith, HasMember, IsOpen
<1> QED BY <1>1, <1>2, <1>3, NextMoves

\* When an open succeeds each seed is an instance admin, but for those whose own
\* insert failed and those whom someone removed while it ran.
THEOREM EverySeedLands == Spec => SeedsLand
<1>1. Init => Found /\ Landing
  BY DEF Init, Found, Landing, Seeding
<1>2. ASSUME Shape, NamesInv, Found, Landing, [Next]_vars, NEW x \in Requests, IsOpen(x),
             pc[x] \in Working, pc'[x] = "ok", NEW s \in Seeds
      PROVE  s \in Admins' \/ <<x, s>> \in excused'
  <2>1. PICK r \in Requests, failed \in BOOLEAN : Moves(r, failed)
    <3>1. ~Crash
      BY <1>2 DEF Crash
    <3>2. ~UNCHANGED vars
      BY <1>2 DEF vars, Working
    <3> QED BY <1>2, <3>1, <3>2, NextMoves
  <2>2. Observe(r, failed) /\ UNCHANGED backend
    BY <2>1 DEF Moves, Serve
  <2>3. x = r /\ (Step(r) \/ Fail(r)) /\ UNCHANGED req
    <3>1. ~Arrive(r)
      <4>1. CASE Arrive(r)
        <5>1. Elsewhere(r) /\ pc[r] = "idle"
          BY <1>2, <4>1, ArriveFacts DEF Shape
        <5> QED BY <1>2, <5>1 DEF Elsewhere, Working
      <4> QED BY <4>1
    <3>2. (Step(r) \/ Fail(r)) /\ UNCHANGED req
      BY <2>1, <3>1 DEF Moves
    <3> QED BY <1>2, <3>2, StepFacts DEF Elsewhere, Working
  <2>4. /\ DoneWith(r, s)' /\ at'[r] = at[r] /\ groups' = groups
        /\ pc[r] \in {"list_rows", "next", "put", "log"}
    BY <1>2, <2>2, <2>3, OwnLanding
  <2>5. [id |-> at'[r], name |-> Reserved] \in groups'
    BY <1>2, <2>3, <2>4 DEF Found
  <2>6. HasMember(at[r], s)' => s \in Admins'
    BY <2>5 DEF HasMember, Admins, Named, SubsOf
  <2> QED BY <2>3, <2>4, <2>6 DEF DoneWith
<1>3. Shape /\ NamesInv /\ Found /\ Landing /\ [Next]_vars =>
        [\A r \in Requests :
          IsOpen(r) /\ pc[r] \in Working /\ pc'[r] = "ok" =>
              \A s \in Seeds : s \in Admins' \/ <<r, s>> \in excused']_vars
  BY <1>2
<1> QED BY <1>1, <1>3, NamesHold, NextLanding, PTL DEF Spec, SeedsLand
=============================================================================
