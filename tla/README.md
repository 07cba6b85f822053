# OpenARDP in TLA+

OpenARDP is a local, single-machine document-evidence store: files are ingested
into an immutable content-addressed object store, described in one SQLite
catalog, and served to agents. Several processes (command line, watcher, MCP
server, maintenance commands) work on one workspace at the same time, each with
its own wall clock, and any of them may be killed. What keeps the workspace
right is a small number of protocols written into catalog transactions and file
system steps. This directory models those protocols, checks them with TLC and
proves what they promise, all but liveness, for every value of the constants
with TLAPS.

Paths below are relative to `src/openardp/` of the repository.

## 1. Inventory of the system

Every component shares one catalog file. A catalog operation is one
`BEGIN IMMEDIATE` transaction (`adapters/sqlite_catalog_core.py`,
`_write_connection`), so it is atomic; nothing spans two of them. File system
effects are never in the transaction. That is where the hard behaviour is.

| component | state it keeps | operations | hard behaviour | what makes it correct |
|---|---|---|---|---|
| Job queue (`adapters/sqlite_catalog_jobs.py`) | `jobs`, `job_events`, `job_object_references` | create, claim, claim for a watched root, renew, complete, fail, cancel, acknowledge, recover expired | lease expiry against late reports, repeated calls, clocks that disagree, cancellation at any time | one holder at a time, bounded attempts, truthful answers, terminal rows final, log explains row, every job settles |
| Reclamation (`services/maintenance.py`, `adapters/sqlite_catalog_maintenance.py`, `adapters/filesystem_maintenance.py`) | holds, quarantine batches, maintenance operations; the active and the quarantine tree | plan, hold, release, quarantine, restore, commit, recover | crash between any two file steps, two calls on one operation, late calls, writers beside it | nothing referred to or held is lost, trees and catalog agree, the fence lifts |
| Object store (`adapters/filesystem_cas.py`, `compact_objects.py`) | one file per object, staging files | publish, reuse, verify, read, optimise a form, inventory | link/unlink publication by several processes, a crash between the two, a reader in between | an object is complete and single when visible |
| Source versions (`services/persistence.py`) | documents, versions, references | publish, verify, commit a version | verification and commit are separate steps | a visible version has its bytes |
| Catalog core (`adapters/sqlite_catalog_core.py`, `sqlite_migrations_*.py`) | schema history, write fence, backup reservation | initialise, migrate, back up, optimise storage, fence | migration interrupted, backup against writers | history is a prefix of the known one; a fenced catalog admits no ordinary write |
| Watcher (`services/watcher.py`, `adapters/sqlite_catalog_watch*.py`, `local_watch.py`) | roots, observations, job targets, watch events | register, scan, reconcile, run a cycle | files that change, vanish and return while jobs for them run; five-minute leases never renewed | one job per stable content, tombstones only from complete scans, no stale content ingested |
| Representations (`adapters/sqlite_catalog_representations.py`, `services/ingestion.py`) | representation rows with a lease, blocks, document heads, ingestion events | acquire, renew, fail, commit, record a cache hit | takeover of an expired lease, forced parse, out-of-order observations | a READY row is complete; the head follows the newest observation |
| Rich ingestion (`services/rich_ingestion.py`, `adapters/sqlite_catalog_rich.py`) | as above, with artifacts | as above | as above | as above |
| Derivations (`adapters/sqlite_catalog_derivations.py`) | slots, nodes, edges, lifecycle events | publish, supersede, stale, fail | dependencies that change between reading and publishing | a CURRENT node has CURRENT inputs |
| Reconciliation (`adapters/sqlite_catalog_reconciliation.py`) | block correspondences, invalidations | commit, invalidate, reactivate | repeated and reordered reconciliations | lifecycle follows the current version |
| Graph sync (`services/graph_sync.py`, `adapters/mock_graph.py`) | a cursor and items per scope | fetch pages, commit, resynchronise | two synchronisations, expired cursors, retried pages | the state is what the cursor stands for |
| Storage optimisation (`services/storage_optimization.py`) | an operation of its own kind behind the same fence | claim, rewrite, complete | a crash leaves the fence | the fence lifts, bytes never change |
| Backup (`adapters/filesystem_backup.py`) | a copy and its manifest | back up, restore to a fresh place | writers during the copy | the copy is a consistent cut |
| Isolated workers (`adapters/isolated_*.py`) | a child process | run with limits | timeout against exit | one outcome, no child left |
| Context compilation (`services/context_compiler.py`, `adapters/context_candidates.py`, `adapters/sqlite_catalog_search.py`) | compilations and their receipts; reads heads, the lexical index, rich and visual records | compile, persist, replay | many reads of a catalog that changes between them: heads move, pages of the index are ranked anew, images are added | discovery is exact or refused, a replay arrives at its receipt, a receipt accounts for everything |
| Reachability, semantic retrieval, visual evidence, interchange, agent access, MCP and command line, release tooling | derived data or none | reads, deterministic computations, framing | little concurrency of their own | determinism |

How they interact: the watcher drives the job queue and calls ingestion;
ingestion publishes to the object store and commits to the catalog;
reclamation moves files of the object store according to what the catalog
refers to, and while an operation of it is unfinished **every ordinary write
transaction of every other component is refused** ("fenced"). Nobody sends
messages; all interaction is through the catalog, the trees and the clock.

`PROJECT.json` lists every component with its status, and every hazard of the
code with the line where it bites and the properties that would catch it.

## 2. Modules

| module | models |
|---|---|
| `JobLifecycle.tla` | abstract: what the job table promises, with no clock, lease, revision or token |
| `JobQueue.tla` | `adapters/sqlite_catalog_jobs.py`, one action per operation |
| `JobQueueProofs.tla` | theorems about `JobQueue`, and that it implements `JobLifecycle` |
| `ObjectRetention.tla` | abstract: an object is live, aside or gone, and what may happen to it |
| `Maintenance.tla` | reclamation, the two trees, the fence, and writers beside it |
| `Watcher.tla` | the cycle of the watcher over files that change, composed with the rows of `JobQueue` |
| `Representations.tla` | plain and rich ingestion of one document: lease, takeover, head |
| `Derivations.tla` | the graph of derived artifacts and its reconciliation with new versions |
| `ObjectStore.tla` | one object of the store, at the grain of file-system calls, with storage optimization |
| `GraphSync.tla` | delta synchronisation of a remote drive |
| `ContextCompiler.tla` | compiling a context bundle and replaying its receipt, while documents are ingested |
| `Backup.tla` | backup and restore of a workspace beside the writers and calls of `Maintenance` |
| `MaintenanceProofs.tla` | theorems about `Maintenance`, that it implements `ObjectRetention`, and about `Backup`, which extends it |
| `WatcherProofs.tla` | theorems about `Watcher`, and that its jobs implement `JobLifecycle` |
| `RepresentationsProofs.tla`, `DerivationsProofs.tla`, `ObjectStoreProofs.tla`, `GraphSyncProofs.tla`, `ContextCompilerProofs.tla` | theorems about these modules |
| `MC*.tla` | finite instances, with the definitions for their constants |

How they are composed: `Watcher` uses the row operators of `JobQueue` (instance
`Table`) for everything it does to a job, so a claim, a recovery or a report is
the same transition in both; its jobs implement `JobLifecycle` as those of
`JobQueue` do. `Maintenance` and `ObjectStore` look at the object store from two
distances: `Maintenance` sees a publication as one step and many objects,
`ObjectStore` sees every call of the file system and one object. The fence of
the catalog is in both. `Backup` adds its own steps to those of `Maintenance`
and keeps from it, for a while, the ones that write to the catalog. `Representations` produces the heads that `Derivations`
moves between, and which `ContextCompiler` reads one by one.

### 2.1 JobQueue

A row of the table is the record `job[j]`, its log `events[j]`. A *worker* is a
pair of owner and lease token: the code identifies a holder by nothing else, so
two processes that share both are one worker and a process that draws a new
token is another. `held[w][j]` is what a worker was last told (revision and
expiry of its lease), `told` every outcome a caller was given. The two are
history: the code does not read them, but they are what callers act on.

| action | code |
|---|---|
| `CreateJob`, `RepeatCreate` | `create_job`, first call and equivalent retry |
| `ClaimJob`, `ReplayClaim` | `claim_job` with and without a kind, `claim_watch_job`; the second is the branch that returns a lease the caller still has |
| `RenewJob`, `ReplayRenewal` | `renew_job`, and its branch for a renewal made already |
| `CompleteJob`, `FailJob`, `AcknowledgeCancellation` | the three reports, each with its replay branch (`ReplayReport`) |
| `RequestCancellation` | `request_job_cancellation` |
| `RecoverExpired` | `recover_expired_jobs`, all expired rows in one transaction |
| `Refresh` | `get_job` by a holder |
| `Tick` | the wall clock |

Every call carries a time read up to `MaxLag` before the step (`Readings`) and
any revision its caller has ever seen, so late, repeated and overtaken calls
are all present. A call the code refuses raises and changes nothing, so it is
not a step. Claims range over pools: all jobs, a kind, a root. The order in
which a claim picks (`ClaimsBefore`) leaves ties to choice, where the code
breaks them by job id. Left out: object references and watch outcomes written
in the same transactions, and the fence of maintenance (a fenced call is a
refused call).

### 2.2 Maintenance

A *call* is one run of `quarantine`, `restore`, `commit` or `recover` in some
process: `task[c]` is where it stands. A catalog transaction is a step and a
file-system operation is a step; a move is a link and an unlink, two steps, and
a call may die anywhere (`Crash`), leaving `intent`, the active row of
`maintenance_operations`, behind. The trees are `files[tree][o]`, a generation
number standing for inode and modification time: equal generations in the two
trees are two links of one file, different ones are two files.

| action | code |
|---|---|
| `Publish`, `Verify`, `CommitReference`, `Abandon` | `put_chunks`, `verify`, `commit_source_version`, a writer that gives up |
| `SightForHold`, `AddHold`, `ReleaseHold`, `HoldExpires` | `add_hold` (inventory, then transaction), `release_hold`, expiry |
| `Observe` | `quarantine`: reproducing the plan |
| `ClaimQuarantine`, `ClaimRestore`, `ClaimCommit` | the three claim transactions |
| `Recover` | `recover`, and a call that finds its own operation active |
| `MarkApplying`, `FindMoved`, `Link`, `Unlink`, `Remove`, `Refused`, `Complete` | `_apply_move` / `_apply_commit` with `transition`, `_converge_transition`, `remove` and the completing transaction |
| `Age`, `GraceElapses` | the minimum age and the grace period run out |

A plan is the value its digest is taken of (roots, holds, inventory,
candidates), and has no time of day, as in the code. Abstracted: digests,
lengths and verification of bytes (they are always right here), the physical
form of an object, limits, capacity, diagnostics and audit events. One hold per
object. Plans without candidates, which move nothing, are left out. An
inventory is one step.

### 2.3 Watcher

Several processes watch one root. A file has a *content*, which stands for its
fingerprint (device, inode, length, modification time, mode): a file that is
moved away and back has the content it had. `job[<<f, c>>]` is the job whose
deduplication key is that file and content, with its target; `obs[f]` is the
observation row, `proc[p]` where a process stands in its cycle.

| action | code |
|---|---|
| `Recover` | `recover_expired_jobs` at the start of `run_cycle` |
| `ScanCompletely`, `ScanIncompletely` | `LocalWatchScanner.scan` |
| `Reconcile`, `ReconcileIncomplete`, `RefuseScan` | `reconcile_watch_scan`: tombstones, observations, jobs and the root in one transaction, or nothing |
| `Claim`, `NothingToClaim` | `claim_watch_job` |
| `Revalidate`, `Ingest`, `Read` | `_run_one` up to the report: target check, cancellation checkpoints, ingestion, the row read again |
| `Report`, `Acknowledge`, `Resolve` | `complete_job`, `_fail_job`, `acknowledge_job_cancellation`, and the handler of a refused completion |
| `Abort`, `Restart` | `run_cycle` raises and, since `run_forever` catches nothing, the command exits (`services/watcher.py:124`, `interfaces/cli.py:587`); somebody runs it again |
| `Cancel`, `Change`, `Crash`, `Tick` | an operator, the file system, a killed process, the clock |

A step never spans two transactions: a scan is separate from its
reconciliation, a claim from the check of its target, the reading of a row from
the report that uses its revision. One parser profile; the order in which
files are considered for the places that are left is free. The token of a claim
is drawn afresh by the code for every job; a process runs one job at a time, so
the process stands for it. Left out: registration, events of the watch log, and
rename hints, which nothing reads.

### 2.4 Representations

One document, one parser recipe: a representation is named by its version. An
ingestion reads the clock *first*, and that reading is at once the time of the
observation, the time of the claim and the start of the lease; the file is read
later, and the commit carries a second reading taken after the parser.
`row[v]` is `document_representations`, `head` is `document_heads`, `log` the
events.

| action | code |
|---|---|
| `Observe`, `Snapshot` | `ingest`: `observed_at`, `snapshot_to`, registration |
| `Acquire` | `acquire_representation`: ready, busy, too old, first claim or takeover |
| `VerifyReady`, `Record` | a cache hit and `record_ready_ingest` |
| `Parse`, `Commit`, `CommitAgain` | the parser, `commit_ready_representation` under the lease, or a forced repetition of what is ready |
| `RecordFailure` | `fail_representation` on the way out of an exception |
| `Advance` | `_advance_head_and_event`, a part of the three that succeed |

Left out: `renew_representation` (it has no caller), the race of two first
registrations of one version, `source_modified_at`, and repetitions of a commit
whose answer was lost (the services do not repeat it).

### 2.5 Derivations and reconciliation

Artifacts, their slots, and what they are made from are constants; a *binding*
stands for the lineage and content of a block. Every operation is one
transaction, so the hard part is the order of operations: publications and
failures, new heads, reconciliations of the head with an earlier version, and
their repetition.

| action | code |
|---|---|
| `Publish`, `PublishFailure` | `publish_derivation` with its validation of dependencies and its supersession |
| `MoveHead` | ingestion advances the head |
| `Reconcile`, `ReconcileAgain` | `commit_reconciliation`, a new run and a repeated one |
| `Affected` | the recursive query of `_invalidation_artifact_ids` |
| `Revived` | the fixed point at the end of `_apply_reconciliation_lifecycle` |
| `Canonical` | the validator of `ReconciliationResult`: ids that are not ascending refuse the result, inside the transaction, which rolls back |

The code returns the revived ids in the order of its passes, each of them
ascending. `Canonical` says of the sets what that comes to: an artifact that is
made from a revived one is revived in a later pass if its id is smaller, and its
id then stands behind a larger one.

`owed` is history: whether the head has been reconciled with every version it
replaced. Left out: matching of blocks (pure), objects that are missing or
corrupt, and publication of the same artifact twice (which the code answers
from the row).

### 2.6 ObjectStore and storage optimization

One object whose bytes are a derived block and, by collision, a source
document. `name[form]` says whether the ordinary and the compact form are
there and whether a staged file is still a second link to them.

| action | code |
|---|---|
| `LookOrdinary`, `LookCompact`, `Check` | `verify`: two `lstat`s, then the forms are opened and read |
| `Stage`, `Link`, `UnlinkStaged`, `UnlinkFails`, `Reread`, `Stored` | `put_chunks`, `put_canonical_block`, `_publish_physical_bytes`, `_reuse_existing` |
| `PutChunks`, `CommitSource`, `Retain`, `RetainPeer`, `RetainUnlink` | an ingestion of the source, up to `retain_ordinary_authority` |
| `PutCanonicalBlock`, `CommitBlock` | an ingestion that writes the block |
| `ClaimOptimization`, `Choose`, `DropOrdinary`, `CompleteOptimization` | `StorageOptimizationService.optimize` over `optimize_derived_block` |
| `Crash` | death between any two calls; staged files and second links stay |

The POSIX branch of publication is modelled, not the Windows one. Waiting for a
publication to settle is a repetition that may also give up.

### 2.7 GraphSync

The drive is the sequence of its changes, a cursor a position in it. A page is
any stretch after the cursor, the last page of a cycle ends at the present.

| action | code |
|---|---|
| `Load`, `Page`, `Cycle`, `Throttle`, `EndCycle` | `GraphSyncService.reconcile` and `_fetch_with_retry` |
| `Commit`, `CommitFails` | the optimistic commit of `mock_graph.py`, items and cursor together |
| `Change` | the provider (external: modelled from how the service uses its pages) |

### 2.8 ContextCompiler

The default profile of the context compiler, for one task. A compilation is a
sequence of read transactions, and every one is a step: a head for each
document, one page of the lexical index at a time, the rich records, the visual
records of each representation. `order` is the order in which the index returns
its rows: bm25 looks at all texts, so every text that is ingested, whatever it
says, may permute it (`Rankings`). Evidence is numbered in the total order by
which candidates are ranked; what an item costs, says and shows are constants.

| action | code |
|---|---|
| `Compile`, `Resolve` | `compile_and_persist`, `_resolve_snapshot_rows` |
| `Page` | one round of `_match_rows`, and `TextLexicalCandidateSource.discover` on its rows |
| `Scan`, `ListVisual` | the rich and the visual source |
| `Select` | the rest of `_compile_with_snapshot`: classification, deduplication, quotas, rounds, budget, notices, limits, receipt |
| `Commit` | `commit_context_compilation` |
| `Replay`, `Compare` | `_replay`: recorded scopes and default limits, and the comparison at the end |
| `Ingest`, `CommitVisualEvidence` | what other processes write meanwhile |
| `Abandon` | cancellation, death, any other exception |

An image is decided on under the identity of the projection it shows
(`Subject`), and `SelectionReceipt` refuses two decisions on one subject
(`Exclusive`): a compilation that decides on two images of one projection, the
second of which is rejected as a duplicate, raises, and so does a replay.

`Selection` measures the bundle as the code does, with the digits of its own
size in it (`Usage`, the fixed point of `additive_usage_fixed_point`). `Digits`
counts up to ten digits; a budget is 16 MiB at most
(`domain/context_compilation.py:268`). What the code sorts, by ranks that may be
equal, is `Listed`: some order in which nothing stands before what is ahead of
it, always the same for the same set. `made` is
history: which images and limits a stored receipt came from. Left out: trust
zones and sensitivity (everything is admitted), objects (published and verified
before the row that names them), the time in the snapshot, retrieval tiers and
the semantic profile with its prepared cache.

### 2.9 Backup

`Backup` extends `Maintenance` with a backup that runs beside the writers and
the calls. The difficulty is that it reads the catalog, the active tree, the
quarantine tree and then file after file, at different times. The catalog is
kept still by the write transaction that the backup holds open (`Reserved`):
commits of references, holds, claims and the ends of operations wait, and give
up when they wait too long (`GiveUp`); files are published, and linked and
unlinked, all the same (`Unreserved`).

| action | code |
|---|---|
| `Reserve` | `consistent_backup`: `BEGIN IMMEDIATE`, refused with an operation active, and the copy of the catalog |
| `ListActive`, `ListQuarantine` | `FilesystemMaintenanceStore.inventory`, then the check for objects in both trees and for roots in neither |
| `Copy` | `_copy_backup_file`, refused when the file is gone or has two links |
| `PublishBackup` | the renames up to `COMPLETE`, and the end of the reservation |
| `BreakOff` | an exception or a death anywhere before that |
| `RestoreBackup`, `KeepBackup` | `restore_workspace`, or nothing |

After `RestoreBackup` the model goes on in the restored workspace, with the
catalog of the copy, new files and nobody at work, so that the invariants are
checked there too. What a copy becomes does not depend on when it is restored,
so the model restores it at once or not at all. The run of `Backup` checks safety only. `BackupIsWhole` also fails when a call that lags behind its
operation (`CallsMayLag`, see the assumptions on timing) leaves an object in
quarantine that the catalog calls restored: the copy is as good as the
workspace it is taken from.

### 2.10 Abstract specifications

`JobLifecycle` is what a user of the queue relies on: submit, start within the
budget, report by the holder only, ask to cancel, lose a holder. `JobQueue`
implements it under the mapping at the end of that module
(`ImplementsLifecycle`): renewals, refreshes, ticks and replays are stuttering.
So does `Watcher`, with its processes as the workers: a cycle that outlives its
lease, or reports after a cancellation, does nothing the lifecycle forbids.
`ObjectRetention` is what reclamation promises: only unprotected live objects
are set aside, only unprotected objects that are aside are destroyed, references
are made to existing bytes only. `Maintenance` implements it
(`ImplementsRetention`), with "live" meaning a file in the active tree, and
"aside" a file in quarantine only.

## 3. Runs

| run | instance | what it shows |
|---|---|---|
| `jobqueue_core` | 1 job, 2 workers, lag 1, leases of 1 and 2, 2 attempts, no renewal at revision 3 or later, fair (683 k states) | all safety and action properties, the refinement of `JobLifecycle`, and every job settles if renewals end |
| `maintenance_solo` | 2 objects, one of them published twice, 1 call at a time, 2 batches, a hold, 1 crash, fair (760 k states) | what reclamation keeps, batches against trees, refinement of `ObjectRetention`, and the fence lifts unless an object of the operation was published again |
| `backup_duo` | 2 objects, one of them published twice, 2 calls at once on one operation, backups and restores, 1 crash (1.9 M states) | nothing referred to is lost with concurrent calls, a published backup is whole, and so is what is restored from it |
| `watcher_pair` | 1 file, 1 content, 2 processes, 2 changes, 1 crash or broken scan, 2 attempts (2.9 M states) | tombstones are true, the refinement of `JobLifecycle` |
| `watcher_alone` | 1 file, 2 contents, 1 process, 2 changes, 1 live job, fair (1.6 M states) | only stable contents are scheduled, backpressure is remembered, and every content that stays comes to an end |
| `watcher_came_back` | 1 file, 1 content, fair, no fault | *violation*: a file that comes back is never scheduled |
| `representations_leases` | 2 versions, 2 processes, 2 ingestions each, lease 2, time up to 4 (5.6 M states) | one holder, READY is final, the head is the newest observation and was true |
| `derivations_lineage` | 3 versions, 5 artifacts, 4 slots, no bound (12 k states) | slots and lifecycle agree, staleness reaches everything, a revival that is not refused is a fixed point |
| `objectstore_forms` | 2 sources, 1 block writer, 1 optimizer, no bound on crashes (1.0 M states) | what was reported stored is there, what was promised in ordinary form is there in it |
| `objectstore_two_optimizers` | 1 source, 1 block writer, 2 optimizers | *violation*: the object is lost |
| `graphsync_overlap` | 2 items, 2 processes, 3 changes of the drive, 2 pages (85 k states) | the published state is that of the drive at its cursor |
| `contextcompiler_replay` | 2 documents, 4 representations, 10 pieces of evidence, 1 compiler, 1 receipt, pages of 1 row (280 k states) | discovery is exact or refused, replays reproduce, receipts account for everything |

Each property of a passing run has a mutant, a definition of the module with a
plausible bug in it (marked "A defect" or "Mutant"), under which the same run
finds the property violated.

### Bounds, and why they are enough

- **Jobs.** Transactions on different rows do not touch each other except
  through the choice of a claim and through recovery, which takes all expired
  rows; one job shows all the rest, and the two rows of `watcher_alone` compete
  for a claim. Two workers give a holder and an interloper; which is which is
  symmetric.
- **Time.** Leases of 1 and 2 and a lag of 1 give every order of "reading
  before, at, after expiry" on both sides. `Tick` stops once no reading can tell
  a live row's timestamps from the past; later states would only repeat.
- **Revisions.** `MaxRevision` stops renewals only, the one operation that can
  be repeated without end; everything else is bounded by `MaxAttempts`. At 3
  the first attempt may be renewed twice, to a longer or a shorter lease; the
  renewal reads no attempt count, so a later attempt shows nothing new. For
  safety this is a bound like others; for liveness it grants what
  `EveryJobSettles` states as its hypothesis (see Fairness).
- **Objects.** Two objects are needed for an operation that is half done and
  for two plans that overlap; a third adds nothing an entry list does not
  already have. Two publications give a file and its later namesake, two
  batches a plan and its successor. `MaxPuts` gives every object its number of
  publications: the first entry of an operation may be published twice in
  `maintenance_solo`, the last in `backup_duo`; two objects published twice are
  beyond the time a run has, and an operation stops at the first entry it
  cannot apply.
- **Crashes.** One crash per behaviour leaves an operation for another call to
  resume; with `backup_duo` the resuming call also runs beside a live one. In
  `Derivations`, `ObjectStore` and `Representations` crashes are not bounded.
- **Watching.** Two processes reach every order of scans and reconciliations;
  two changes let a file go and come back, or, in `watcher_alone` with its two
  contents, change while its window runs, which resets the window; one fault is
  a broken scan or a dead holder. Two contents with two processes are beyond
  the time a run has: for several processes whose scans are reconciled in any
  order, `StableBeforeScheduled` rests on its theorem (`OnlyStableScheduled`,
  section 5.2). Exits of a process and its restarts are not bounded. Rows of different files meet only in the limit of live jobs and the
  choice of a claim, which two contents of one file show as well
  (`MaxActive` = 1). Lease, delay and window of one tick each give before, at
  and after.
- **Ingestion.** Two processes with two ingestions each are a holder, its
  successor and a late holder that returns; a lease of 2 in a time of 4 lets two
  leases follow each other. One change puts two versions in either order.
- **Derivations.** The graph of `MCDerivations` has two rivals for one slot and,
  over the first, a chain of three whose ids ascend, so that a revival of the
  chain is committed; a fourth artifact over its end and over a block has a
  smaller id, so that a revival of all four is refused. Versions share a block or
  do not. No state is cut off.
- **Store.** A form has at most one name, so two publishers, a remover of each
  form and a reader are all the roles there are.
- **Synchronisation.** Three changes over two items give an item changed twice,
  deleted after it was changed, and untouched; two pages of at most two changes
  meet both limits.
- **Compilation.** One compiler is enough: compilers share nothing but the
  stored receipts, and what the rest of the system does is free. Document 1 has
  a second version, so heads move under a compilation and a replay; its three
  rows on pages of one give every way of losing or repeating a row; document 2
  goes from rich to text, so a text without any match changes the ranks. The
  evidence has a duplicate, an irrelevant item, one over the quota, one the
  index alone takes for a match, and two images of one projection. The two sets
  of limits (`Wide` is the default) make both cuts and refusals happen, the
  budget of 25 an item that is omitted, a bundle that fills it exactly, and one
  that fails for the sake of a notice. A page of the code has 100 rows and
  its limits are hundreds or thousands; only their order matters to the control.

### Assumptions on timing

Some interleavings of `Maintenance` need a process to be suspended for
unreasonably long. They are separated, so that the runs say what holds without
them and section 4 what happens with them:

- `NobodyWaits` (always): no call and no writer stays between two of its steps
  for the 24 hours or more that the minimum age and the grace period take.
- `RecoveryMayBeLate`: may an interrupted quarantine wait that long before it is
  recovered? Nothing in the code prevents it; FALSE in the passing runs.
- `CallsMayLag`: may a call still be at an operation that has ended, or at a
  plan it observed earlier, when another operation is claimed? Nothing in the
  code prevents that either; FALSE in the passing runs.

### Fairness

- `JobQueue`: the clock advances; somebody keeps claiming and keeps recovering
  (every cycle of the watcher does both). A worker that holds a lease may stop
  at any time, and nothing is assumed of the client, or of the maintenance
  fence, which is taken to be open (see `FenceLifts`). One thing is assumed of
  workers: `renew_job` has no limit, so a holder that renews for ever keeps its
  job for ever. `EveryJobSettles` therefore has the hypothesis `RenewalsEnd`,
  that no job is renewed for ever; in the run `MaxRevision` makes it true.
- `Maintenance`: a maintenance call that is not killed goes on (weak fairness of
  its steps), and an operator keeps running `recover` while the workspace is
  fenced (strong fairness, because a refused recovery ends and is begun again).
  Nothing is assumed of writers, which is why `FenceLifts` has an exception:
  `Obstructed(o)`, an object of the active operation that was published again
  while it was in quarantine. Then every recovery may be refused (finding 3).
- `Watcher`: the clock advances, and every process goes on with the cycle it is
  in and with the next (`run_forever`). Nothing is assumed of scans (the faults
  are bounded), of the outcome of an ingestion, or of operators who cancel. A
  process whose cycle raises exits: `run_forever` catches nothing
  (`services/watcher.py:124-135`) and the command ends with the exception
  (`interfaces/cli.py:580-587`, `:850`). Nothing in the repository starts it
  again. That somebody does (a supervisor, an operator) is the assumption
  `Restarted`, a conjunct of `FairSpec` of its own; without it no job settles
  once the only process has exited.

Deadlock is checked for `JobQueue` (a repeated `create_job` is always
possible), `Backup` (so is a backup, or a recovery), `Derivations`, `ObjectStore`, `GraphSync` and `ContextCompiler`. The runs of the others
stop once the bounds on publications and batches, on changes and faults, or on
time and ingestions are used up, hence `CHECK_DEADLOCK FALSE`.

## 4. Where the code and its documents disagree

Two runs end in a violation; `PROJECT.json` quotes both sides.

- **`watcher_came_back`.** The identity of a job is the file and its
  fingerprint, and the target of a job that exists is compared with one that
  bears the instant of the new observation
  (`adapters/sqlite_catalog_watch_records.py:287`). A file that is tombstoned
  and comes back as it was (moved away and back, for instance) makes the whole
  reconciliation fail, in every cycle in which it is there and stable, so that
  the other files of the root are not scheduled either. The exception also ends
  the process, and one that is started again exits as soon as the file has been
  stable for its window. `EveryContentSettles`
  excludes this case by name (`CameBack`) and holds otherwise. The repository's
  test of reappearance writes a new file, which has a new fingerprint.
- **`objectstore_two_optimizers`.** A second `storage-optimize` joins the active
  operation and may end it, and so lift the fence, while the first still works
  through the objects it was given. A source with the same bytes is then
  committed and keeps the ordinary form, the optimizer keeps the compact one,
  each removes the other's and nothing is left. With one optimizer
  (`objectstore_forms`) this cannot happen.

The following were found while modelling and are not runs of the project. For
1 to 8, set the constants of `Maintenance_solo.cfg` or `JobQueue_core.cfg` as
said and check the formula; the counterexamples are short.

1. `create_job` compares `available_at` with the request although a retry has
   moved it: an equivalent retry is a conflict (no `RepeatCreate` is possible
   after a `FailJob` with a retry).
2. Recovery is the one operation that does not check that time moves forward:
   `updated_at` may decrease, when a recovery with a late reading ends a job
   whose cancellation was requested after its lease had run out.
3. An object in quarantine that is ingested again makes commit ("removal
   conflicts with active object state") and restore ("transition locations
   conflict") fail every time, and the catalog stays fenced. `FenceLifts`
   excludes this case by name (`Obstructed`): without the exception,
   `Fenced ~> ~Fenced` fails in `maintenance_solo`.
4. After a restore the same plan comes out of the dry run. Its batch exists and
   has ended: `quarantine` raises "requires explicit recovery", `recover` finds
   nothing.
5. `mark_operation_applying` hands an ended operation back and the call goes
   on. With a restore in progress both sides find the two links and each removes
   the other's: `ReferencedSurvives` with two calls and `CallsMayLag = TRUE`.
6. `not_before` is set at the claim. If the quarantine is completed by a
   recovery a day later, the commit may follow at once: `ReferencedSurvives`
   with `RecoveryMayBeLate = TRUE`.
7. Objects are verified before the commit of a version, and an old unreferenced
   object that is reused stays a candidate: it may be in quarantine when the
   version becomes visible, though not destroyed.
8. `claim_quarantine` does not revalidate the inventory of the plan: with
   `CallsMayLag = TRUE` one object can be in two unfinished batches.
9. The dependents of a superseded artifact stay CURRENT: `\A a \in Current :
   Uses[a] \subseteq Current` does not hold, `InputsNeverStale` is what does
   (`adapters/sqlite_catalog_derivations.py:95`).
10. A head that was reconciled with one earlier version cannot be reconciled
    with another; when it replaced two, what depended on the first stays as it
    is. `EvidenceIsActive` therefore speaks of heads that owe nothing (`owed`).
11. A death between `os.link` and the `unlink` of the staged file leaves a file
    with two links that nobody opens, reuses or repairs: the object is there
    (`StoredIsKept`) and unusable until somebody removes the staged file.
12. Between the commit of a source and `retain_ordinary_authority` the source
    may have the compact form only; only another ingestion changes that.
13. Visual evidence belongs to a representation, not to a snapshot: an image
    recorded after a compilation makes every later replay of its receipt diverge, though the receipt's snapshot is pinned
    (`ReplayReproduces` excludes this by `saw`, and the limits, which a receipt
    does not record, by name; only the second is documented).
14. The text source asks whether the limit is reached before it asks whether the
    row belongs to the snapshot. With exactly as many matches as the limit, a
    row of another version after the last of them refuses the compilation, or
    the replay, and one before it does not.
15. Heads are read one transaction each: the snapshot of a compilation over
    several documents may never have been the state of the catalog.
16. Evidence is selected up to the ceiling and notices are added afterwards; a
    selection that leaves no room for its notice fails as a whole
    ("bundle_exceeds_budget") where one with an item less would have passed.
17. `_apply_reconciliation_lifecycle` returns the ids it revives in the order of
    its passes, and `ReconciliationResult` refuses ids that do not ascend
    (`domain/reconciliation.py:239`). A document that goes back to an earlier
    content, which should revive what was made from it, is therefore never
    reconciled if an artifact revives after one with a larger id: the
    transaction rolls back, every time, and everything stays stale, where the
    repository's `specs/010-reconciliation-derivation-dag/spec.md:265` (FR-021)
    and `:349` (SC-007) have it current again. Ids are digests, so that for a
    chain of two this is as likely as not. `Canonical` is the refusal,
    `OnlyOrderRefuses` (section 5.5) says that nothing else is refused.
18. Two images of one projection are candidates under one identity
    (`adapters/context_candidates.py:579`), the second is rejected as
    "duplicate_candidate" (`services/context_ranking.py:128`), and
    `SelectionReceipt` refuses two decisions on one identity
    (`domain/context_compilation.py:643`): a compilation that decides on both
    fails, and so does every replay of a receipt that has one of them, once the
    other is recorded.

## 5. Proofs

Checked by TLAPS for every value of the constants that meets the named
assumptions of the module. No theorem bounds a set, a time or a count that the
runs bound: the `Max*` constants are any natural numbers. A component's
theorems are in `<component>Proofs.tla`. Where a safety property is not
inductive as it stands, `IInv` is what is, and the section says what it adds and
why. Each proof that a step keeps an invariant has one lemma or case per action.

| theorem | states |
|---|---|
| JobQueue: `TypeCorrect`, `Inductive` | `Spec => []TypeOK`, `Spec => []IInv` |
| `AttemptsAreBounded`, `LeasesExclude`, `RepliesAreTruthful` | `[]AttemptBudget`, `[]LeaseExclusive`, `[]RepliesTruthful` |
| `EventsAreComplete` | `[]EventsExplainRow` |
| `TableImplementsLifecycle` | `Spec => ImplementsLifecycle`, the refinement of `JobLifecycle` |
| Watcher: `TypeCorrect`, `NothingForgotten` | `[]TypeOK`, `[]NothingStableForgotten` |
| `OnlyStableScheduled`, `GoneIsGone` | `Spec => StableBeforeScheduled`, `Spec => TombstonesAreTrue` |
| `WatcherImplementsLifecycle` | `Spec => ImplementsLifecycle`, the refinement of `JobLifecycle` |
| GraphSync: `TypeCorrect`, `Inductive`, `MirrorIsTrue` | `[]TypeOK`, `[]IInv`, `[]MirrorsDrive` |
| Representations: `TypeCorrect` | `[]TypeOK` |
| `LeasesExclude`, `HeadOrdered`, `HeadTruthful` | `[]LeaseExclusive`, `[]HeadIsNewest`, `[]HeadWasTrue` |
| `ReadyStays` | `Spec => ReadyIsFinal` |
| Derivations: `TypeCorrect` | `[]TypeOK` |
| `SlotsHold`, `StaleSpreads`, `EvidenceHolds`, `RevivalEnds` | `[]SlotsAgree`, `[]InputsNeverStale`, `[]EvidenceIsActive`, `[]NothingLeftStale`, over the reconciliations that commit |
| `OnlyOrderRefuses` | a reconciliation is refused only where an artifact is made from one that revives with it and has a larger id |
| ObjectStore: `TypeCorrect` | `[]TypeOK` |
| `StoredStays`, `SourceStays` (one optimizer) | `[]StoredIsKept`, `[]SourceIsOrdinary` |
| Maintenance: `TypeCorrect` | `[]TypeOK` |
| `QuarantineHasOwners`, `BatchesAreWhole`, `OutcomesAreTrue` (one call) | `[]QuarantineIsOwned`, `[]BatchIsWhole`, `OutcomeIsTrue` |
| `ReferencedStay`, `TreesImplementRetention` (one call, prompt recovery) | `[]ReferencedSurvives`, `ImplementsRetention`, the refinement of `ObjectRetention` |
| ContextCompiler: `TypeCorrect` | `[]TypeOK` |
| `DiscoveryExact`, `ReplaysReproduce`, `ReceiptsAccounted` | `[]DiscoveryIsExact`, `[]ReplayReproduces`, `[]ReceiptsAccount` |
| `UsageIsAFixedPoint` | the usage a bundle states is the one it has when it states it, after four rounds of eight |
| Backup: `CopiesAreWhole`, `ReferencedStayRestored` (one call, prompt recovery) | `BackupSpec => []BackupIsWhole`, `BackupSpec => []ReferencedSurvives` |

### 5.1 JobQueue

For any sets of jobs, workers and pools, any attempt budget, lease lengths,
delays, lag and revision bound.

`TypeOK` and `AttemptBudget` are inductive together, but `LeaseExclusive` is
not: it speaks of the clock, and says nothing of how long the lease in the row
is. `LeaseInv` adds that a belief is never longer than the lease in the row and
that only a running row has a lease. Then recovery, whose reading is never
ahead of the clock, can only end leases in which nobody believes any more; a
claim needs a QUEUED row, in which nobody believes; and time only shortens
beliefs. `RepliesTruthful` needs `ToldInv`: success and failure carry, in the
row, the token of the worker that was told, and terminal rows do not change, so
that a second worker's repeated call is not answered. Lemmas about the rows each
operation writes (`ReleasedRow`, `RecoveredRow`, ...) and about the four shapes
of effect on what workers know (`ReportInv`, `ReplayReportInv`, `LearnInv`,
`GrantInv`) carry the work.

`EventsExplainRow` is inductive beside `IInv`. `OneEventMore` says what one more
event makes of the log, `WriteExplains` that an operation which writes a row and
appends its event keeps the two together; recovery is the same for all expired
rows at once.

The refinement needs two facts besides `IInv`: a row that nobody runs has no
owner and no pending cancellation (`RestInv`), and the outcome that a row
ascribes to a worker was told to it when the row was written, so that a repeated
call tells nothing new (`AscribedInv`). `OneRow` turns a
step that writes one row of the table into a step of the lifecycle, `Invisible`
says which steps stutter, and `RecoverRefines` shows that a recovery, which
writes many rows, is one step of the lifecycle that loses many holders.

### 5.2 Watcher

For any finite set of files (`WatchAssumption`; a scan lists them), any
contents, watching processes, limits, delays and stability window, and any
number of changes, crashes and broken scans.

The action properties speak of what a reconciliation writes, but what it writes
depends on a scan that was made earlier, by a process that other processes and
the files have overtaken. `ScanTrue` says what is left of such a scan: what it
found in a file had been seen there by then, and what it missed is not there, or
was away since. `OthersKept` shows that this outlives every step of everybody
else. `SeenInv` ties an observation to the first sight of its content; with
both, `ObservedFacts` gives that what is scheduled was seen a window ago and that
what is declared gone is. The consistency that `WatchObservation` insists on is
what `GoneIsGone` needs: an older scan of a file that is now missing is refused.
`NothingForgotten` counts: `LimitKept` says that a reconciliation adds no more
live jobs than there is room for, all other steps add none.

The refinement reuses the row operators of `JobQueue`; `Written` says what they
have in common when an attempt ends. A reconciliation is one submission of many
jobs, the recovery at the start of a cycle one loss of many holders, and every
other step writes one row or none (`Harmless`). What the proof needs beyond the
types is little (`Sound`): a waiting job has an attempt left, and a row that
nobody runs has no owner and no cancellation pending.

### 5.3 GraphSync

For any items, processes, limits and number of changes (from
`GraphSyncAssumption`: the limits are natural numbers and `None` is none).

`MirrorsDrive` is not inductive: it says nothing of what a
cycle under way holds, so a commit could publish anything. `IInv` adds
`Collected`: a cycle holds, for every item, the last change between the cursor
it loaded and the cursor it has reached. A page extends that stretch, and
`LatestOfTwo` says that the last change of two adjoining stretches is that of
the second, if it has one. A commit is accepted only if the published cursor is
still the one loaded, so the published items and the collected changes adjoin as
well, and the same lemma gives the mirror at the new cursor: this is the only
place where the optimistic check is needed, and the proof fails without it.
`LaterChanges` says that what is appended to the drive's history leaves all
earlier stretches as they were. That a last change exists (`MaxExists`) rests on
the well-foundedness of the natural numbers.

### 5.4 Representations

For any versions, ingesters, lease and bounds, from `RepresentationAssumption`.

The claim of `acquire_representation` uses a reading taken before the file was
read, so a claimant may write an expiry that has passed. What saves
`LeaseExclusive` is that a row's token is checked with the claimant's own
reading, which is never ahead of the clock: `ClaimInv` says that a lease that
may still run is in the row, as its holder wrote it, `TokenInv` that a token in
a row was drawn and belongs to the ingestion that claimed the row, so that
nobody finds another's token for its own. `OthersKept` says once for all steps
what a step of one ingester leaves of the others. `HeadWasTrue` needs
`PlaceInv`: the version an ingestion carries was in the file between its
observation and its second reading. `HeadIsNewest` needs `EventInv`, that an
ingestion writes one event at most: the head counts the events that moved it, and a second one of
the same token would not be a new event. `ReadyStays` is an action property
from the same invariant.

### 5.5 Derivations

For any finite set of artifacts, any graph of inputs and evidence and any
assignment to slots, from `DerivationAssumption`; no bound is involved. The
graph is not assumed to be acyclic: the code does not check it either.

Two recursions carry the component, and both are proved from their definitions.
`AffectedIsClosed`: the recursive query returns a set closed under "current and
made from it", so what stays current uses nothing that is staled.
`RevivedFacts`: the loop that revives artifacts, one a pass, is a recursive
function of the number of the pass; that the function exists, that each pass
revives only what has its inputs, and that as many passes as there are
artifacts leave nothing to revive are proved by `Climb`, an induction over sets
of numbers that follows from well-foundedness (the library's induction theorem
takes an operator as a parameter). `EvidenceIsActive` is not inductive, because
it is silent about heads that owe a reconciliation; `OwedInv` says what their current
artifacts are made from: evidence of the head or of the one version it owes.

The theorems speak of the reconciliations that commit. `OnlyOrderRefuses` says
which do not: the two conditions of `ReconciliationResult` are both in
`Canonical`, the first never fails (what a reconciliation stales lacks an input
for as long as it lasts, and is not revived by it), and the second fails only
where an artifact is made from one that revives with it and has a larger id.

### 5.6 ObjectStore

`TypeCorrect` is for any processes. `StoredStays` and `SourceStays` are proved
under `OneOptimizer` and are false without it: `objectstore_two_optimizers` is
the counterexample. Ingesters and writers are any number, and all may die
anywhere.

The invariant says what each process can rely on while others go on between its
system calls. A busy optimizer relies on the fence, on the absence of a source
and on the forms it has verified (`OptimizerInv`); an ingestion that retains the
ordinary form on its reference, which keeps optimizers away, and on a settled
ordinary form before it removes the compact one (`RetainerInv`); a publisher on
its own second link (`OwnsLink`). `OthersKept` says which steps
disturb nobody; only the two removals of a form, and the steps that set fence and references, need more.

### 5.7 Maintenance

`TypeCorrect` is for any number of calls, and for all values of
`RecoveryMayBeLate` and `CallsMayLag`. The other theorems have hypotheses:

- `OneCall`: one maintenance call at a time, any number of which may die. With
  two, a call may observe a plan while the other's operation is moving files,
  and claim it after that operation has ended: the claim compares catalog facts
  only (`adapters/sqlite_catalog_maintenance.py:187`), and one object is then in
  two unfinished batches. That is finding 8 of section 4 without a lag, so the
  theorem could not be stated for two.
- `RecoveryIsPrompt` (`RecoveryMayBeLate` is FALSE), for what is never lost and
  for the refinement only: finding 6.

The fence is the heart of the argument. `StateInv` ties the states of the
batches to the active operation, `TaskInv` what a call is doing to the entries
that are done, `Spared` says that what an operation moves away or deletes is
unprotected as long as the fence is up: it was when the claim was made, in one
transaction, and the fence keeps roots and holds from growing. `Apart` and
`Owned` give every file in quarantine one unfinished batch, hence
`QuarantineIsOwned`; an entry that is done stays done, which gives `BatchIsWhole`
and `OutcomeIsTrue` at the transaction that records the end. `ReferencedSurvives`
adds `PresentInv`, that what is referred to or about to be referred to is there,
and `RipeInv`, that a batch whose grace is over has nothing in quarantine alone
that a writer verified earlier: this is where the grace period matters.
`TreesImplementRetention` maps each step to one of `ObjectRetention` or to a
stutter: `Link` of a quarantine and both steps of a restore but one do nothing
to see, `Unlink` sets aside, `Remove` destroys.

### 5.8 Backup

Under the two hypotheses of `ReferencedStay`, for any number of backups and
restores, breaking off anywhere.

`SavingInv` follows a copy that is being made: the reservation keeps the
catalog as it was copied, no operation is active, and so no file leaves a tree
while files are listed and copied, though new ones appear (`BesideBackup`).
Everything referred to was therefore found when the trees were listed, and what
was found was there to be copied. `SavedInv` says that a published copy has
every object it refers to and every object of a batch that waits, which is
`BackupIsWhole`; and, since batches of a copy share nothing and every file in
its quarantine has an owner, that a workspace restored from it satisfies the
invariant of `Maintenance` again. From there `ReferencedSurvives` goes on.
Generations are natural numbers in `TypeOK`, not numbers up to `MaxPuts`,
because a restored file is one generation more.

### 5.9 ContextCompiler

For any documents, versions, evidence, costs, budgets, quotas, limits, size of a
page and number of compilers, from `ContextAssumption`: evidence is a finite set
of numbers, costs and limits are natural numbers, an item the index finds is a
block of a text.

`DiscoveryIsExact` is about what is lost between two pages, when every text that
is ingested may rank all rows anew. `Reads` says what a search relies on before
it ends: all it has seen of the document at hand are rows that exist, and what
it should have accepted of them it has. It ends when it has seen as many
different rows as the index counts at that moment, and so has seen them all, in
whatever order they came (`PageKeeps`): the count that must not change and the
row that must not come twice (`Drifts`) are both needed. What matches in a scope
never changes once the scope is ready, so at the end `found` is a function of
the scopes (`Finds`), and a receipt one of its scopes, the visual records seen
and the limits (`MadeInv`, `Arrives`). `ReplayReproduces` follows. It is not
inductive by itself: it says nothing of a replay before its end.

`ReceiptsAccount` is about `Compiled`, whatever it is applied to
(`CompiledFacts`): admission, the cut at the candidates and selection each split
a set in two, and `CountThree` counts the parts. That no projection has two
images in a receipt is what `Exclusive` leaves of the compilations. That nothing is left out which
would still fit needs that a bundle only grows and that `Usage` grows with it
(`UsageMonotone`): then what did not fit once does not in the end. The zero that
selection carries along is the total of what it selected (`Accounts`), by
induction over the candidates.

`UsageIsAFixedPoint` answers whether "budget_fixed_point_diverged" can be raised
by `additive_usage_fixed_point`: it cannot. The second measurement is the first
plus at most twenty, which adds one digit at most, and the next two digits are
not reached by adding twenty again (`DigitsGrowOnce`).

The recursive functions of the model are `CHOOSE` to TLAPS. `RecursionExists`
builds the function that a recursion over `0..n` describes, from
well-foundedness (`Climb`), and `UsageFacts`, `TotalFacts`, `SelectionFacts` and
`RowsOfFacts` apply it. `ListedFacts` says that a set can be listed when its
relation has a least element in every part of it.

### 5.10 Only model-checked

- Liveness: `EveryJobSettles`, `FenceLifts`, `EveryContentSettles`, with the
  hypotheses of section 3. Liveness
  under fairness, and ENABLED, are out of the prover's reach.
- `ReferencedSurvives` and `BackupIsWhole` with two maintenance calls at a time
  (`backup_duo`): the theorems have one. With two, the calls of the run neither
  lag nor recover late, and its bounds keep it from the two plans of finding 8.
- The two runs that end in a violation: what they refute is not provable.

## 6. What is left

1. `ReferencedSurvives` for two maintenance calls under a hypothesis that
   excludes the interleavings of finding 8 and no others.
2. The composition of `Maintenance` with the publication steps of
   `ObjectStore`, in place of its one-step `Publish`.

## 7. Not modelled, and why

Rendering, parsing, scoring, packaging and the release tooling are
deterministic computations over immutable inputs or input and output without
state of their own. They are most of the repository's lines, which is why the
part of it that is mapped is small: the protocols are in a few thousand lines,
and those are modelled. Migrations run alone, and bulk ingestion is a loop over ingestion; isolated parsers are
one parent waiting for one child, whose possible outcomes are choices in
`Watcher` and `Representations`. SQLite's own atomicity and durability and the
file system's `link`/`unlink` semantics are taken as the code takes them. The
Windows branch of publications and moves (`os.rename`) is not modelled.
Corruption of bytes on disk is not modelled: verification fails only for the
link count and absence.
