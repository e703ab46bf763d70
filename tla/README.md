# PDT in TLA+

PDT is a REST service that keeps knowledge assets, the relations between them,
collections of them, and an audit trail of every change, one SQLite database per
instance (a MongoDB backend exists beside it). This directory holds TLA+ models
of the service, the TLC configurations that check them, and theorems about them
with proofs for TLAPS.

    tlc -workers 2 -config catalogue.cfg MCCatalogue     # any row of "Runs"
    tlapm CatalogueProofs.tla                            # any *Proofs module

## 1. The system

| Component | State it keeps | Operations that change it |
|---|---|---|
| Asset store (`service/asset_service.rs`, `repository/sqlite_asset_repository.rs`) | tables `assets`, `tags`, `asset_metadata` | create, adopt, update, delete (soft, with cascade), add_tag, remove_tag, update_auth_context (with cascade), retention prune |
| Relations (`relation_service.rs`, `sqlite_relation_repository.rs`) | table `relations` | create after a cycle check, delete, removal by an asset's cascade |
| Collections (`collection_service.rs`, `sqlite_collection_repository.rs`) | `collections`, `collection_assets` | create, update, delete, add_asset, remove_asset, removal by an asset's cascade |
| Audit trail (`audit_service.rs`, `sqlite_audit_repository.rs`) | `audit_entries`, archive files | append (the last statement of every service call), archive-then-delete prune |
| Tenant pools (`tenant.rs`) | cache of open databases, instance directories | get_services (lazy open), provision, delete |
| Groups (`group_service.rs`, `sqlite_group_repository.rs`, `mongo_group_repository.rs`) | `groups`, `group_members` | create, delete, add and remove member, bootstrap, seed |
| Roles (`roles_service.rs`) | none of its own: relations and tags | resolve, backfill |
| Directory (`directory_service.rs`) | none of its own: assets with a `principal` tag | resolve, upsert, backfill |
| Cedar enforcement (`cedar/`, `policies/rbac.cedar`) | none; the evaluator is an external library | permission checks, batched filter, audited admin bypass |
| Retention policy (`prune_policy.rs`) | none: a JSON file read at each call | a verdict for a class and a window |
| Handlers, router, authentication | none between requests | extract, check permission, call one service |
| MongoDB backend (`mongo_*_repository.rs`) | documents | the same traits as SQLite |

Interaction is by calls: a handler resolves the tenant's `Services`, may read the
asset for a permission check, and calls one service function; the service calls
repository functions; a repository function is one or more SQL statements. The only
shared state is the database, the pool cache and the archive directory. There are
no background tasks, callbacks or messages: every difficulty comes from

* **requests interleaving between statements.** Each request is a task of its own
  and `.await`s after every statement. Except for `adopt`, no transaction spans two
  statements, so every check-then-act is a race.
* **requests stopping between statements.** A statement fails, the client goes away
  and the future is dropped, or the process dies. What was done stays done; nothing
  is resumed.
* **walks over changing data.** Breadth-first walks over the relations and paged
  walks over the tables take many statements while others write.
* **deletion of the record itself.** The audit prune removes rows of the audit
  trail and must not lose any.

What makes each component correct: deleted assets stay deleted and deletion
happens once; what a cascade removes is recorded; nothing is stored without an
entry in the trail; relations stay acyclic; walks end; the audit trail only grows
whatever prunes do; a pool never outlives its database; a group name and a
principal stay unique; a filter answers the same in batches as row by row.

## 2. Modules

| Module | Models |
|---|---|
| `Vocabulary` | rows, requests and audit entries; the constants |
| `Store` | the tables, what a request keeps in its local variables, the queries, arrival, failure, the audit entry |
| `AssetOps` | `AssetService` over the SQLite asset repository, one action per statement |
| `LinkOps` | `RelationService` and `CollectionService`, one action per statement |
| `Catalogue` | the requests on one store interleaved; history variables; the properties |
| `Registry` | the abstract API: every request one atomic change or a refusal |
| `CatalogueSerial` | `Catalogue` with one request at a time, and the refinement to `Registry` |
| `AuditPrune` | the retention prune of the audit trail with its archive files |
| `AuditLedger` | the abstract append-only ledger `AuditPrune` implements |
| `TenantPools` | lookup, provisioning and deletion of instance databases, and the cache of pools |
| `Groups` | groups and members of one store on either backend: bootstrap, seed, requests, resolution |
| `Paging` | keyset pagination: the order, the page behind a cursor, the next cursor |
| `Retention` | the retention policy's verdicts |
| `Maintenance` | backfills of roles and directory, directory upsert, retention prune of assets, beside clients |
| `Access` | the Cedar policies for assets, the entities they see, and the filters of lists and searches |
| `Reads` | paged walks and checked writes of clients, beside requests that change what they see |
| `CatalogueProofs` | theorems about `Catalogue` and their proofs |
| `CatalogueSerialProofs` | the proof that `CatalogueSerial` implements `Registry` |
| `AuditPruneProofs`, `TenantPoolsProofs`, `GroupsProofs`, `ReadsProofs`, `MaintenanceProofs` | the same for the module each is named after |
| `PagingProofs` | what a page of a finite table holds; used by `ReadsProofs` and `MaintenanceProofs` |
| `MC*` | instances for TLC |

### How `Catalogue` corresponds to the code

A request is a record (`req[r]`): the operation and the ids a client can name. `pc[r]` is
the next SQL statement of its handler or the answer it got (`ok`, `notfound` 404,
`invalid` 400, `conflict` 409, `failed` for an error or an abandoned request). An
action is one statement together with the code up to the next `.await`; its name
says which: `deleteAsset` is `DeleteGet`, `Snapshot`, `SoftDelete`,
`DropRelations`, `DropMembers`, `WriteAudit`, in the order of
`AssetService::delete`. Inside adopt's transaction nothing interleaves, so
`AdoptTx` is one action; `AdoptDuplicate` is its primary-key error.

Values are abstracted to *who wrote them*: a title, a metadata row, a tag, a field
of the authorization context or a collection's name is the request that stored it
(`Seed` for what was there before). So a lost update, a resurrected row or a
mixture of two writers is a different state. The local variables are `snap` (the
relations read for the audit entry), `seen` and `todo` (a walk's visited set and
queue; the order of the queue is left open, which covers the code's order), `ctx`
(the merged authorization context about to be written) and `child` (the descendant
the cascade is at).

Left out, on purpose: time stamps and the statements that only set `updated_at`;
contents (written as the title is); `created_by` and `updated_by`; types of
relations (no modelled decision looks at them); tags and descriptions of a
collection; input validation; the permission reads of the handlers, which precede
the modelled statements and write nothing. Hydrating an asset takes three SELECTs
and is modelled as the first of them, which alone decides the answer.

Client inputs (`Arguments`): created ids are fresh uuids; `adopt` may name any id but
one being minted by a create; all others name rows that have existed.

### How `AuditPrune` corresponds to the code

The clock counts seconds, the resolution of `audit-archive-%Y%m%dT%H%M%SZ.jsonl`. A
row is its id and its time; ids are random uuids, so a fresh row may get any unused
id. Appending is two steps, as in `create`: the stamp (`Stamp`) and the INSERT
(`Land`), at most `MaxDelay` seconds later. A prune fixes its cutoff and counts
(`Count`, also the end of a dry run), creates the file (`Open`), reads page after
page (`ReadPage`), flushes and syncs (`Sync`), compares the counts and refuses or
goes on (`Verify`), deletes (`Delete`), counts again (`PostCount`) and appends its
own entry (`Record`). `Fail` ends it at any point and leaves what was written of
the file. `File::create` truncates a file of the same name: `linked` holds the files that have
a name in the directory, `path` the second in it, and a file two prunes write
at their own offsets is `mixed`, any part of which may be left. Rows written but not yet synced are
not readable, the worst case of the `BufWriter`.

### How `TenantPools` corresponds to the code

A request is a lookup (`get_services`), a provisioning or a deletion, and `pc[r]` the
step it is at. Lookup: `Hit`, `Locate`, then the four steps of
`open_instance_services` (`Mkdir`, `Connect`, `Migrate`, `Seed`), then `Insert` into the
cache. Provisioning: `ParentThere`, `Exists`, and the same four steps, with a
`Connect` that may create the file. Deletion: `Find`, `Evict` under the cache's lock,
and `remove_dir_all` entry by entry (`Unlink`, `RemoveChild`, `RemoveDir`). `Fail` ends a request with
what it did so far on disk; `Restart` empties the cache and loses every request that
is running. `dirs` and `db` are the directory tree; a file is the request that
created it, so a database deleted and provisioned again is another file, and a
pool (`pool[r]`) is the file its first connection opened. Opening more connections of a pool
later is left out; so are paths, the id check and the two listings, which only read.

### How `Groups` corresponds to the code

A request is a store open, a client's request about groups, or a resolution; `pc[r]` is
its next statement. An open is migration 002 (`Migrate`, SQLite only),
`ensure_instance_admins_group` (`Ensure`, then `CheckName` and `InsertGroup` of
`create_group`) and `seed_instance_admins` (`FindAdmins`, `ListChecks`, `ListRows`, then per
seed `SeedNext`, `PutMember`, `Log`). A client's request passes the gate
(`GateGroup`, `GateRow`), unless its token is a platform admin's, and then runs its repository
calls and its audit entry. `backend` is chosen at the start, because the two repositories differ
where it matters: SQLite has a unique name, a foreign key that cascades, and the fixed id of the
instance-admins row; MongoDB checks names by reading, deletes in two statements, resolves
memberships group by group, and gives the instance-admins group a random id. `Fail` is an
error of the next statement, with the code's three different answers to one (an error of the
gate is "no", one of a seed's is passed over, any other ends the request); `Crash` is the server
stopping. An instance's SQLite store is opened by any lookup that misses the cache, several at
once, a MongoDB store once per server start (`MayOpen`).

### How `Maintenance` corresponds to the code

A maintenance request passes `admin_gate` (`Gate`: the token, or the global role the
registry holds) and then runs its loops. The backfill is four scans after the owners
(`Scans`): `ReadPage` reads a page of the search, and each principal takes `TagGet`, `TagPut`,
`TagBump` (roles) or `Known` and the statements of `upsert` (directory). The prune reads the policy
(`Policy`), walks the search page by page (`Candidates`) and deletes each candidate with the
statements of `AssetService::delete` (`Get`, `SoftDelete`, `Cascade`). All walks order by
`updated_at`, which the passes themselves and every client move: `at` is that stamp, `born` is
`created_at`. A stamp is taken before the statement that stores it, so it may be one unit late
(`Stamps`). `Edit` is a client: it writes, deletes, tags, shares, or deletes a directory entry.
The prune's cascade is one statement here; its statements are in `AssetOps`. `PutOwner` is one statement also
in the code: `backfill_owners` calls the repository's `create`, a single INSERT, and not `RelationService::create`
with its checks and its entry.

### How `Reads` corresponds to the code

A page of a walk is a request of its own: `ReadGroups` and `ReadAdmin` are
`resolve_instance_authz` (and the refusal of a degraded caller), `ReadPage` the query, `Filter` the
permission filter, `Log` the audit entry of a bypass, `Send` the answer; the client keeps only the
cursor. The walks of collections and of the audit list are not filtered. A write on one asset is `Get`,
the same two lookups, `Verdict`, `Log`, and `Write`, which is one step here (its statements are in
`AssetOps`). `Access` holds the policies of `rbac.cedar` by their meaning, over what the enforcement
layer hands to Cedar: a creator, a visibility, owner groups, and whether the asset is an
instance type. The list judges row by row, the search once per key (`Band`); the keys join group names
with commas, so that the key stands for the set assumes no name holds a comma. The handlers
rebuild the caller's claims with the issuer `pdt`, so its `spn` is `<username>@pdt`.
`Pages` is a set because MongoDB's search sorts by `updated_at` alone. With a text query MongoDB sorts
by score, and its cursor then means nothing; that is left out, as are totals and snippets.

## 3. Runs

| Run | What it shows |
|---|---|
| `catalogue` | two requests of every kind, failing anywhere: `WritesAreAudited`, `CascadeLeavesNothing`, `AcyclicUnlessRaced`, types |
| `catalogue_races` | three requests around the deletion of an asset: `OneDeletion`, `RemovedIsRecorded`, `DeletedStaysDeleted` |
| `catalogue_liveness` | on a graph with a cycle in it: `EveryRequestIsAnswered` |
| `catalogue_serial` | one request at a time, no errors: the statement-level model implements `Registry` |
| `cascade_record` | expected violation: `CascadeIsRecorded` |
| `audit_prune` | two prunes with archives of different seconds: `NoSilentDelete`, `VerifiedReportIsExact`, `TrailOnlyGrows`, types |
| `audit_prune_same_second` | expected violation: `NoSilentDelete` without that condition |
| `tenant_pools` | lookups, provisionings, deletions, errors and restarts: `CachedIsOnDisk`, `ServedIsReady`, `OrphansComeFromDeletions`, `OnlyProvisioningCreates`, types |
| `tenant_stale_pool` | expected violation: `RemovedIsDropped` |
| `groups` | `NamesAreUnique`, `AdminsGroupStays`, `MembersHaveAGroup`, `OneGroupDeletion`, `MembershipsAreAudited`, `ChangedByManagers`, `SeedsLand`, `ResolutionIsCurrent`, types |
| `maintenance` | `RerunsAreClean`, `BackfillIsComplete`, `PrunedWasDue`, `WalkIsComplete`, `PruneReportAddsUp`, types |
| `reads` | `WalkIsExact`, `CollectionsPassedBy`, `EntriesPassedBy`, `BandsAgree`, `BypassIsAudited`, `WritesWereAllowed`, types |

The properties are stated with the excuses the code needs and no more. For
example `RemovedIsRecorded` allows a removed relation to be unrecorded while the
request that removed it is at work or after it failed, and when the relation was
inserted between the snapshot and the cascade; `WritesAreAudited` says exactly when
an answered request may have written without an entry: its asset was deleted (or
its collection dropped) before the handler read it back. The history variables
`ever`, `late`, `stray` and `raced` exist only to state those excuses.

**What the three violations show.** `AssetService::delete` reads the asset's
relations, soft-deletes the asset and then deletes whatever relations touch it at
that time. A relation inserted in between goes unrecorded, although the
function's comment calls the entry the only forensic record of what the cascade
removed. And two prunes that create their archive in the same second use the same
file, so the second truncates the archive of rows the first one deletes or has
deleted from the table, although the function's comment says the archive is the record. With
`PDT_AUDIT_ARCHIVE_DIR` set the prunes need not even be of the same instance. Last,
`get_services` looks at the disk before it opens a pool and not again when it
caches it; a deletion that evicts in between leaves the cache serving a removed file,
also after the instance is provisioned anew. `CachedIsOnDisk` shows that this overlap is the only
way to get there.

**What the runs say about groups, maintenance and reads.**

* On MongoDB two creates can give one name to two groups, and a deletion can leave member rows
  behind; on SQLite neither happens (`NamesAreUnique`, `MembersHaveAGroup`). The name the admin
  bypass goes by is never among the doubles, because only an open creates it and a server runs one.
* `delete_group` protects the instance-admins group by its fixed id. On MongoDB the group does not
  have that id, so `AdminsGroupStays` is stated for SQLite only: a manager can delete the group there,
  although `handlers/group.rs:122` says it cannot be deleted, and it is back after the next start.
* A group is changed only by an open, for a platform admin, or for someone who is or was an instance
  admin (`ChangedByManagers`). On MongoDB there is one exception: a membership stored after the
  instance-admins group was deleted lets a request that had already found the group pass the gate.
* A seed that a manager removed is a member again after every later open.
* A second backfill adds nothing to what had a role, an owner row or an entry when it began
  (`RerunsAreClean`); two that overlap can add it twice. Two role tags of different value make the
  admin gate's answer depend on their order. A backfill ends with an error when one asset is deleted
  between its page and its tag.
* A backfill reaches every principal that nobody else writes, although tagging moves rows to the front of the order
  it walks in (`BackfillIsComplete`). The prune's walk likewise (`WalkIsComplete`), up to its cap, which its report
  does not mention, although the comment at `asset_service.rs:425` promises an honest report.
* A candidate whose cascade failed is reported as failed although it is gone: `PruneReportAddsUp` says
  that all reported as pruned are removed, not the converse, and that all removed were matched, also when the prune failed.
* A walk over assets shows exactly once what stays live, unwritten and visible (`WalkIsExact`). Visible
  has to mean: by the groups the caller had throughout. An asset to which the caller is entitled at every moment, but for changing
  reasons, can be missed, since groups are read before the page. MongoDB's search misses or repeats rows of equal stamp.
* SQLite's collection list takes its cursor from the row beyond the page, which is then on no page
  (`CollectionsPassedBy`); MongoDB's does not. The audit list orders by time and continues by
  id, so entries are skipped and repeated (`EntriesPassedBy` says which may be).
* A caller whose token says nothing and who has no group is answered 503 on lists and searches, also an author of private assets.
* A write is judged on an asset and groups read before it; each was there at some time since the request began (`WritesWereAllowed`),
  but not necessarily at the same time, nor at the write. `update_auth_context` is not judged by any policy.
* Directory and role writes go to the repository directly and leave no entry in the audit trail.

**What the properties leave open.** The entry of an authorization context's cascade names the number of descendants
found, also when some were not updated; no property speaks of that number. An archive left by a failed prune is a step of
`AuditPrune` and harmless to the trail; that the file stays, against the comment at `audit_service.rs:56`, is
stated by no property. A walk that ended early would archive too few rows, and the prune would refuse: nothing is lost, and no property says that
a prune must succeed. The run of `DeletedStaysDeleted` has neither updates nor `setAuth`; `DeletedIsFinal` is about all
operations. Doubles from overlapping backfills or upserts are excused by `RerunsAreClean`.

**Bounds.** Two stored assets with a relation, one id not yet stored, and one
collection are enough for every check of every handler to go both ways, for a
chain of relations that closes a cycle (three assets) and for an adopt, a create and their races. Two
requests show every pairwise interleaving of statements; the deletion
properties, which need a deleter, a competitor and a writer, get three. The
liveness run starts from the cycle two racing creates leave, the state in which a
walk could run forever. For the prune: pages of one row make every walk take several
pages, end on an exactly full page, and straddle appends; two stored rows and room
for two more, a window of two seconds, a delay of one and a clock of five seconds
let a prune meet rows older and younger than its cutoff, another prune's entry, and
rows inserted while it walks. The constants `LastSecond`, `Ids` and `PageSize`
carry those bounds. For the pools: two workspaces and a child that may exist under either, all
subsets of them there at the start, and three requests, which is a lookup, a deletion and a
provisioning at once, or a provisioning that is lost, one that finds its file
and a lookup. For the groups: two requests of every kind, three principals of which two are seeds and one a platform
admin, an old and a new store on each backend. For the maintenance: two passes, two principals, pages of one row, a
cap equal to the number of principals, and one write of a client at any point; with pages of one row every walk
takes a page per principal, and one write moves a row across a cursor. For the reads: three assets of which two share a stamp, pages of two rows,
one walker or writer beside one request that changes a context or deletes, and one event (a lookup that fails, a change of groups,
collections or trail) at any point; two callers, one entitled by the token's groups, one by authorship and the store's groups.
`MaxEdits`, `MaxEvents`, `Cap` and `Now` carry those bounds. Requests and prunes are symmetric; symmetry is not used in
the liveness run, nor in `reads`, whose two requests differ. A request that was answered stays answered, so runs may end:
`CHECK_DEADLOCK FALSE`.

**Fairness.** Only `EveryRequestIsAnswered` needs it: weak fairness of each
request's next statement. tokio polls a woken task eventually and SQLite answers
each statement or reports an error. Nothing is assumed of arrivals or failures, or
of the order in which requests proceed.

## 4. Theorems

Every theorem below holds for every value of the constants that the assumptions at the end of this
section allow: any number of requests, rows and pages, where a run has two or three. The arguments
are inductive invariants. Every property that a run checks was checked there first; the three bounds on the steps left
(`RequestsAreBounded`, `PrunesAreBounded`, `WalksGetOn`) are stated with the proofs and belong to no run.

### `CatalogueProofs`

| Theorem | States |
|---|---|
| `TypeCorrect` | `Spec => []TypeOK` |
| `DeletedIsFinal` | `Spec => DeletedStaysDeleted` |
| `DeletedOnce` | `Spec => []OneDeletion` |
| `CascadeIsComplete` | `Spec => []CascadeLeavesNothing` |
| `RemovalsAreTraced` | `Spec => []RemovedIsRecorded` |
| `NoCycleUnlessRaced` | `Spec /\ Acyclic => []AcyclicUnlessRaced` |
| `AnswersAreAudited` | `Spec => []WritesAreAudited` |
| `RequestsAreBounded` | `Spec => []WorkIsBounded /\ [][WorkGetsDone]_vars`, for finitely many assets |

`OneDeletion` is not inductive: nothing in it says why a second deleter gets no
entry. The invariant `DeletionInv` adds `FreshIds` (an id a create is minting is named by no
other request and has no row, so `InsertRow` never meets a deleted asset),
`OneWinner` (of the requests that delete one asset at most one is past its soft
delete, and then the asset is deleted) and `EntriesAreEarned` (an entry is written
only by a request that has been answered `ok`, for what it was asked).

`CascadeIsComplete` needs to know what a deletion still owes: `RelationsOwed` and `MembersOwed` say of
every link to a deleted asset whose statement will remove it, or why none will. `RemovalsAreTraced` rests on
`SnapshotsHold` (what a deletion read still covers what it is about to remove, but for relations
that came since) and `RemovalsTraced` (who removed a relation carries it until the entry).

`NoCycleUnlessRaced` avoids paths, which would need induction over their length: `Apart(u, v)` is a set of
assets that relations do not leave, which holds `v` and not `u`. `Searched` says that what a breadth-first search
has expanded leads only to what it has seen; when the queue is empty the seen assets are such a set, so the
relation that is inserted next closes no cycle (`CycleInv`).

`AnswersAreAudited` needs what each request may have stored by the statement it is at (`Unmarked`, `Underway`,
`Overtaken`), and whose fields another request is about to write back (`Held`, `Writing`): a lost update may
store an answered request's value again.

`RequestsAreBounded` is the half of `EveryRequestIsAnswered` that needs no fairness: no handler can run for ever.
`LeftToDo` counts what a request may still do, from its label and, in the two loops, from the assets still to visit
and those not yet seen; an asset enters the queue only when it is first seen, so relations added during a search
cannot prolong it. With n assets that is at most 3n + 10. It falls with each of the request's own steps, errors
included, never rises with another's, and is zero exactly when the request is answered.

### `CatalogueSerialProofs`

| Theorem | States |
|---|---|
| `HandlersAreAtomic` | `SerialSpec => EachRequestIsAtomic`, the refinement of `Registry` |

The refinement mapping keeps `settled`, the tables as they were when the request at work arrived. `SerialInv` says what
the tables are now, for every operation and label, as a change of `settled` (`Creating`, `Adopting`, ..., joined in
`Progress`): nothing yet, the statements done so far, or all of `Registry`'s change, when only the entry is owed. Each
lemma `...Progress` takes the statements of one operation: a statement leads to the next place, or the request
`Concludes` with the whole change and its entry or with the refusal `Registry` names. Two handlers loop, and need to
know what the loop has done:

* the searches of the cycle check and of the cascade keep `Visiting`: what was seen descends from the start, and what
  was expanded leads only to what was seen. With the queue empty the seen assets are exactly the descendants, which
  `Registry` defines without paths, as what lies in every set that relations do not leave;
* the cascade has written exactly the live assets it has taken from its queue (`Shared`), one at a time, each with the
  fields it had for those the request does not set.

`Whole`, which a deletion and a created asset need, says that no metadata is stored without an asset and no membership
without a collection.

### `AuditPruneProofs`

| Theorem | States |
|---|---|
| `TypeCorrect` | `Spec => []TypeOK` |
| `DeletedIsArchived` | `SpacedSpec => []NoSilentDelete` |
| `TrailIsAppendOnly` | `SpacedSpec => TrailOnlyGrows`, the refinement of `AuditLedger` |
| `VerifiedIsTrue` | `SpacedSpec => []VerifiedReportIsExact` |
| `PrunesAreBounded` | `Spec => []PruneIsBounded /\ PruneGetsDone` |

Rows older than the cutoff no longer arrive once the prune has
started (`CutoffIsPast`, from `MaxDelay < Window`); with archives of different
seconds a file belongs to one prune (`OwnFile`); the walk has read every old row up to
its cursor (`WalkIsExact`); so after the sync the file holds every old row in the table
(`FileIsComplete`), and what was ever deleted is in a linked file (`Kept`). Their
conjunction `IInv` is inductive. `ReportInv` adds that the two counts are of finite, nested sets, so that equal
numbers mean equal sets (`CountsAreNested`), and that nothing comes back below a verified cutoff (`VerifiedIsOver`).

`PrunesAreBounded` needs no distinct seconds. The walk reads until a page is empty, beside writers that append all
the time, but what it has left is the old rows beyond its cursor, and no new row is old (`EntriesAreYoung`). After
its count of n rows a prune makes at most n + 7 steps (`StepsLeft`).

### `TenantPoolsProofs`

| Theorem | States |
|---|---|
| `TypeCorrect` | `Spec => []TypeOK` |
| `EvictionIsComplete` | `Spec => []CachedIsOnDisk` |
| `ServesReadyStores` | `Spec => []ServedIsReady` |
| `CreationIsProvisioning` | `Spec => OnlyProvisioningCreates` |
| `OrphansAreExplained` | `Spec => []OrphansComeFromDeletions` |

`CachedIsOnDisk` says nothing of the time between a pool's opening and its caching, nor of
a deletion that has evicted and not yet removed. The invariant `Safe` adds both:
`OpenIsOnDisk` (a pool being opened is on the file on disk, or a deletion ran
beside it) and `Evicted` (what a deletion removes is out of the cache, or a lookup it met
put it there), with `Met` (requests at work at the same time have met) and `Tree` (a
database lies in a directory that exists, so the eviction's listing finds it). `Shape` says
what a request at each step holds. `OrphansAreExplained` adds `Sheltered`: a child that is being provisioned has its
workspace's database still there, or has met the deletion that took it.

### `GroupsProofs`

| Theorem | States | Invariant |
|---|---|---|
| `TypeCorrect` | `Spec => []TypeOK` | `Shape`: what a request at each label holds |
| `OneGroupPerName` | `Spec => []NamesAreUnique` | `NamesInv`: an id names one row; on SQLite the reserved name goes with the fixed id; on MongoDB an open has the store for itself |
| `AdminsGroupIsKept` | `Spec => []AdminsGroupStays` | the same (`Prepared`) |
| `DeletionHappensOnce` | `Spec => []OneGroupDeletion` | `DeletedOnce`: of all that delete a group one statement removed the row, and it is gone for good |
| `MembersBelong` | `Spec => []MembersHaveAGroup` | the property itself, with `Shape` |
| `MembersAreAudited` | `Spec => []MembershipsAreAudited` | `Accounted`: the row's request has written the entry or is about to write this very one |
| `GateFailsClosed` | `Spec => ChangedByManagers` | `Gated`, over the ids that were ever the admins' (`OnceAdmins`) |
| `ResolutionsAreCurrent` | `Spec => []ResolutionIsCurrent` | `Resolved`: what is found, still to look up, and can no longer be missed |
| `EverySeedLands` | `Spec => SeedsLand` | `Landing`: a seed the loop is done with is a member unless excused |

### `PagingProofs`, `ReadsProofs`

Keyset pagination is a strict order (`NewerIsAnOrder`); the cursor of a page splits the table into the page and what
is behind the cursor (`CursorSplits`, `BeyondSplits`, `FullPage`). A page is defined by the number of its rows, so
these need a largest page to exist: finiteness of the table gives it.

| Theorem of `ReadsProofs` | States | Invariant |
|---|---|---|
| `TypeCorrect` | `Spec => []TypeOK` | `Shape` |
| `BatchesAreExact` | `Spec => []BandsAgree` | `JudgedInv`: what a page's rows, or the asset to be written, have passed, and when an entry is due |
| `BypassesAreLogged` | `Spec => []BypassIsAudited` | `JudgedInv` |
| `WritesAreFounded` | `Spec => WritesWereAllowed` | `FoundedInv`: what was judged is of a context, and groups, there have been since the arrival |
| `WalksAreExact` | `Spec => WalkIsExact` | `WalkInv`: what is to be shown has been shown once and is behind the cursor, or not and is ahead |
| `CollectionsAreShown` | `Spec => CollectionsPassedBy` | the same, with the row the cursor steps over |
| `EntriesAreShown` | `Spec => EntriesPassedBy` | `EntriesLeft` |
| `WalksGetOn` | `Spec => WalksGoForward /\ []PagesAreBounded` | `PacedInv`: the cursors so far are as many ids as pages, each before the next |

`WalksGetOn` says that a client that follows the cursors gets somewhere: a page that has a next one ends strictly
beyond the place it began at, and no other step moves the cursor. Where writes do not change the order (collections,
assets by `created_at`), a cursor never comes back to an id, and a walk has at most one page more than there are ids.
For assets by `updated_at`, whose rows writes move, and for the audit list only the direction is claimed: the latter's
cursor falls from id to id.

### `MaintenanceProofs`

| Theorem | States | Invariant |
|---|---|---|
| `TypeCorrect` | `Spec => []TypeOK` | `Shape`: labels and local variables fit (`Fits`, `Sound`) |
| `RemovalsWereDue` | `Spec => []PrunedWasDue` | `ChosenInv`: what was found is of the class and due by the policy that was read |
| `ReportsAddUp` | `Spec => []PruneReportAddsUp` | `GoneInv` (who marked what), `FoundInv` (what was found lies behind the cursor, unless a late stamp moved it down) |
| `WalksAreComplete` | `Spec => WalkIsComplete` | `AheadInv`: a due asset that stays steady is found or ahead of the walk |
| `RerunsStayClean` | `Spec => RerunsAreClean` | `UntouchedInv`: what a pass found absent has not been there since it began |
| `BackfillsAreComplete` | `Spec => BackfillIsComplete` | `ReachingInv` |

`BackfillIsComplete` is the least obvious one. The four scans page through an order their own writes change, and the
principals a client touches move too. `ReachedBy` says for each principal nobody else writes that the scans behind
have served it and that the one at work has it done, in hand or ahead of the cursor. A tag by the pass moves a
row to the front, hence behind the cursor, but only once it has been served.
The steps of a pass are described once (`PassSteps`, `PruneSteps`: where a request goes and what it keeps), and every
invariant's proof goes over those descriptions instead of the actions.

### Assumptions

* `StoreAssumption`: the seed is no request, something is stored at the
  start, given relations join stored assets.
* `PruneAssumption`: ids and sizes are numbers, the stored rows are finite, the page is not empty, and an INSERT
  never takes longer than the window. The last one has content: it excludes a policy window
  of zero days and clocks that jump back by more than a window. `SpacedSpec` assumes
  what the second violation shows to be needed.
* `TenantAssumption`: workspaces and children have different ids (they are uuids), the markers are no requests.
* `GroupsAssumption`: the markers differ and are no requests, seeds and platform admins are principals.
* `ReadsAssumption`, `MaintenanceAssumption`: ids are positive numbers in the order of the uuids, tables are finite,
  pages are not empty, a caller and a policy have the fields the code reads.
* `RequestsAreBounded` assumes that `Assets` is finite: its bound is a number of assets.
* `NoCycleUnlessRaced` assumes that the stored relations have no cycle, which the property is about.

### Model-checked only

* `EveryRequestIsAnswered`: it needs fairness and the ENABLED of every statement, which the prover does not handle.
  That a request has finitely much to do is proved (`RequestsAreBounded`).
* The three violations, which TLC refutes.

## 5. Not modelled, and the plan

Next, in order:

1. The seat checks before membership writes (`check_membership_permission`): the caller's seat is
   read, judged and only then the row is written, as in `WritesWereAllowed`. And the checks before other relation
   writes, which know no bypass.
2. The writes of the MongoDB repositories; its `adopt` compensates instead of using a transaction.

Not planned: token validation and the evaluation of policy texts (external libraries, no state
between requests), the birth guard (pure), full-text search, formatting, configuration, generated OpenAPI
documents. A crash of the operating system that loses the archive's directory
entry (the directory is not synced) and clocks that run backwards are outside
`AuditPrune`.
