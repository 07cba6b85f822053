------------------------------- MODULE Watcher -------------------------------
(***************************************************************************)
(* Watching a directory: services/watcher.py drives cycles of recovery,    *)
(* scan, reconciliation and bounded work over the catalog operations of    *)
(* adapters/sqlite_catalog_watch.py, while the files change, vanish and    *)
(* come back.                                                              *)
(*                                                                         *)
(* Several processes may watch one root.  A file's content stands for its  *)
(* fingerprint (device, inode, length, modification time, mode), so a file *)
(* that is moved away and back comes back with the content it had.  The    *)
(* job of a content is named by its deduplication key: <<file, content>>.  *)
(* The job table is that of JobQueue, whose row operators are used here    *)
(* (Table); a process runs one job at a time under a token drawn for it,   *)
(* so the process itself stands for the token.                             *)
(***************************************************************************)
EXTENDS Integers, FiniteSets

CONSTANTS
    Files,        \* relative locators under the root
    Contents,     \* fingerprints a file may have
    Watchers,     \* watching processes
    None,         \* no file, no content, SQL NULL
    MaxAttempts,  \* config.max_attempts
    Lease,        \* _JOB_LEASE
    RetryBase, RetryMax,  \* config.retry_base_ms, config.retry_max_ms
    Stability,    \* config.stability_ms
    MaxActive,    \* config.max_active_jobs
    MaxJobs,      \* config.max_jobs_per_cycle
    MaxChanges,   \* bound: changes of files
    MaxFaults     \* bound: crashes and incomplete scans

ASSUME WatchAssumption ==
    /\ IsFiniteSet(Files) /\ None \notin Files \union Contents \union Watchers
    /\ MaxAttempts \in Nat \ {0} /\ Lease \in Nat \ {0} /\ MaxActive \in Nat \ {0}
    /\ {RetryBase, RetryMax, Stability, MaxJobs, MaxChanges, MaxFaults} \subseteq Nat
    /\ RetryBase \in 1..RetryMax

VARIABLES
    clock,   \* the wall clock
    file,    \* the content of every file, None when it is not there
    rescan,  \* watch_roots.rescan_required
    obs,     \* watch_observations
    job,     \* jobs and watch_job_targets
    proc,    \* where every process stands in its cycle
    told,    \* outcomes the cycles were given: <<process, job, answer>>
    sight,   \* history: when a scan first saw a content in a file
    gone,    \* history: when a file was last not there
    spent    \* bounds used up

vars == <<clock, file, rescan, obs, job, proc, told, sight, gone, spent>>

Keys == Files \X Contents

Table == INSTANCE JobQueue WITH
    Jobs <- Keys, Workers <- Watchers, Pools <- {Keys}, Client <- None,
    LeaseLengths <- {Lease}, Delays <- {RetryBase}, MaxLag <- 0, MaxRevision <- 0,
    FailureCodes <- {"source_changed", "ingestion_failed"},
    LeaseExpired <- "lease_expired",
    events <- << >>, request <- << >>, held <- << >>

Unseen == [state |-> "UNSEEN", print |-> None, first |-> 0, since |-> 0, key |-> None]
Observation == [state: {"UNSEEN", "CANDIDATE", "STABLE", "TOMBSTONED"},
                print: Contents \union {None}, first: Nat, since: Nat,
                key: Contents \union {None}]

NoScan == [complete |-> FALSE, entries |-> << >>, at |-> 0]
Idle == [at |-> "idle", scan |-> NoScan, left |-> 0, task |-> None,
         verdict |-> None, rev |-> 0]

\* run_cycle has raised, or the process was killed: it has exited.
Down == [Idle EXCEPT !.at = "down"]

Init ==
    /\ clock = 1
    /\ file \in [Files -> Contents \union {None}]
    /\ rescan = TRUE
    /\ obs = [f \in Files |-> Unseen]
    /\ job = [k \in Keys |-> Table!NoRow]
    /\ proc = [p \in Watchers |-> Idle]
    /\ told = {}
    /\ sight = [k \in Keys |-> 0]
    /\ gone = [f \in Files |-> 0]
    /\ spent = [changes |-> 0, faults |-> 0]
-----------------------------------------------------------------------------
At(p, place) == proc[p].at = place
Goto(p, next) == proc' = [proc EXCEPT ![p] = next]
Row(p) == job[proc[p].task]

\* run_cycle raises.  run_forever catches nothing and the command exits: the
\* process is gone, whatever it had begun.
Abort(p) == Goto(p, Down)

\* A defect: the limit of a cycle is tested one job late.
NextJob_OneMore(p) ==
    Goto(p, IF proc[p].left = 0 THEN Idle
            ELSE [Idle EXCEPT !.at = "work", !.left = proc[p].left - 1])

\* One job of the cycle has ended.
NextJob(p) ==
    Goto(p, IF proc[p].left = 1 THEN Idle
            ELSE [Idle EXCEPT !.at = "work", !.left = proc[p].left - 1])

Live(k) == job[k].state \in {"QUEUED", "RUNNING"}

\* A defect: a process that starts again trusts that nobody else died.
Recover_Nothing(p) ==
    /\ At(p, "idle")
    /\ Goto(p, [Idle EXCEPT !.at = "scan"])
    /\ UNCHANGED <<clock, file, rescan, obs, job, told, sight, gone, spent>>

\* recover_expired_jobs at the start of a cycle (the root is registered).
Recover(p) ==
    /\ At(p, "idle")
    /\ job' = [k \in Keys |->
           IF k \in Table!Expired(clock) THEN Table!Recovered(k, clock) ELSE job[k]]
    /\ Goto(p, [Idle EXCEPT !.at = "scan"])
    /\ UNCHANGED <<clock, file, rescan, obs, told, sight, gone, spent>>

\* A scan that read the whole tree.
ScanCompletely(p) ==
    /\ At(p, "scan")
    /\ Goto(p, [Idle EXCEPT !.at = "reconcile",
                            !.scan = [complete |-> TRUE, entries |-> file, at |-> clock]])
    /\ sight' = [k \in Keys |-> IF file[k[1]] = k[2] /\ sight[k] = 0 THEN clock ELSE sight[k]]
    /\ UNCHANGED <<clock, file, rescan, obs, job, told, gone, spent>>

\* A defect: a scan that broke off counts as complete.
ScanIncompletely_Trusted(p) ==
    /\ At(p, "scan") /\ spent.faults < MaxFaults
    /\ spent' = [spent EXCEPT !.faults = @ + 1]
    /\ Goto(p, [Idle EXCEPT !.at = "reconcile",
                  !.scan = [complete |-> TRUE, entries |-> [f \in Files |-> None],
                            at |-> clock]])
    /\ UNCHANGED <<clock, file, rescan, obs, job, told, sight, gone>>

\* A scan that met a limit, a changing directory or an error: no entries.
ScanIncompletely(p) ==
    /\ At(p, "scan") /\ spent.faults < MaxFaults
    /\ spent' = [spent EXCEPT !.faults = @ + 1]
    /\ Goto(p, [Idle EXCEPT !.at = "reconcile",
                  !.scan = [complete |-> FALSE, entries |-> [f \in Files |-> None],
                            at |-> clock]])
    /\ UNCHANGED <<clock, file, rescan, obs, job, told, sight, gone>>
-----------------------------------------------------------------------------
\* A defect: the age of the old content counts for the one that replaces it.
Seen_KeepsAge(f, print, at) ==
    LET old == obs[f]
        first == IF old.print = None THEN at ELSE old.first
        stable == at >= first + Stability
    IN  [state |-> IF stable THEN "STABLE" ELSE "CANDIDATE", print |-> print,
         first |-> first, since |-> IF stable THEN at ELSE 0,
         key |-> IF old.print = print THEN old.key ELSE None]

\* _watch_entry_transition: a new, reappeared or changed content starts its
\* stability window; an unchanged one may end it.
Seen(f, print, at) ==
    LET old == obs[f]
        stable == at >= old.first + Stability
        fresh == [state |-> IF Stability = 0 THEN "STABLE" ELSE "CANDIDATE",
                  print |-> print, first |-> at,
                  since |-> IF Stability = 0 THEN at ELSE 0, key |-> None]
    IN  IF old.print # print THEN fresh
        ELSE [old EXCEPT !.state = IF stable THEN "STABLE" ELSE "CANDIDATE",
                         !.since = IF ~stable THEN 0 ELSE IF @ = 0 THEN at ELSE @]

\* _tombstone_missing_watch_entries, for one file that was known.
Missing(f) ==
    [obs[f] EXCEPT !.state = IF @ = "UNSEEN" THEN "UNSEEN" ELSE "TOMBSTONED",
                   !.print = None, !.since = 0]

Observed(f, scan) ==
    IF scan.entries[f] = None THEN Missing(f) ELSE Seen(f, scan.entries[f], scan.at)

\* What WatchObservation refuses to be: an observation that ends before it
\* began.  An older scan of an unchanged or missing file runs into this.
Consistent(f, scan) ==
    LET new == Observed(f, scan)
    IN  \/ new = obs[f] /\ new.print = None
        \/ new.first <= scan.at /\ new.since <= scan.at

\* Stable observations whose content has not been scheduled.
Due(new) == {f \in Files : new[f].state = "STABLE" /\ new[f].key # new[f].print}

\* A defect: one job too many.
Room_OneMore == (MaxActive + 1) - Cardinality({k \in Keys : Live(k)})

\* How many jobs may still be scheduled: max_active_jobs less the live ones.
Room == MaxActive - Cardinality({k \in Keys : Live(k)})

\* The files one reconciliation schedules: all that are due, as long as there
\* is room (in the order of their names; here, in any order).
Chosen(due) ==
    {chosen \in SUBSET due :
        Cardinality(chosen) = IF Cardinality(due) <= Room THEN Cardinality(due) ELSE Room}

\* _create_watch_job_and_target refuses a job whose target is another's: a
\* target bears the instant of its creation, so any earlier one is.
Clashes(f, print) ==
    job[<<f, print>>].state # "ABSENT" /\ job[<<f, print>>].created # clock

NewJob == [Table!NoRow EXCEPT !.state = "QUEUED", !.available = clock,
                              !.created = clock, !.updated = clock]

\* Something that is due has to wait: backpressure.
Postponed(due, chosen) == chosen # due

\* Reconciling a complete scan: observations, jobs and root together.
Reconcile(p) ==
    LET scan == proc[p].scan
        new == [f \in Files |-> Observed(f, scan)]
        due == Due(new)
    IN  /\ At(p, "reconcile") /\ scan.complete
        /\ \A f \in Files : Consistent(f, scan)
        /\ \E chosen \in Chosen(due) :
              /\ \A f \in chosen : ~Clashes(f, new[f].print)
              /\ obs' = [f \in Files |->
                     IF f \in chosen THEN [new[f] EXCEPT !.key = new[f].print] ELSE new[f]]
              /\ job' = [k \in Keys |->
                     IF k[1] \in chosen /\ new[k[1]].print = k[2] /\ job[k].state = "ABSENT"
                     THEN NewJob ELSE job[k]]
              /\ rescan' = Postponed(due, chosen)
        /\ Goto(p, IF MaxJobs = 0 THEN Idle ELSE [Idle EXCEPT !.at = "work", !.left = MaxJobs])
        /\ UNCHANGED <<clock, file, told, sight, gone, spent>>

\* An incomplete scan leaves the observations alone.
ReconcileIncomplete(p) ==
    /\ At(p, "reconcile") /\ ~proc[p].scan.complete
    /\ rescan' = TRUE
    /\ Goto(p, IF MaxJobs = 0 THEN Idle ELSE [Idle EXCEPT !.at = "work", !.left = MaxJobs])
    /\ UNCHANGED <<clock, file, obs, job, told, sight, gone, spent>>

\* A reconciliation that is refused, all of it: nothing is written.
RefuseScan(p) ==
    LET scan == proc[p].scan
        new == [f \in Files |-> Observed(f, scan)]
    IN  /\ At(p, "reconcile") /\ scan.complete
        /\ \/ \E f \in Files : ~Consistent(f, scan)
           \/ \E chosen \in Chosen(Due(new)) : \E f \in chosen : Clashes(f, new[f].print)
        /\ Abort(p)
        /\ UNCHANGED <<clock, file, rescan, obs, job, told, sight, gone, spent>>
-----------------------------------------------------------------------------
Claimable == {k \in Keys : job[k].state = "QUEUED" /\ job[k].available <= clock}

\* claim_watch_job: the oldest queued job that is due, for five minutes.
Claim(p) ==
    /\ At(p, "work")
    /\ \E k \in Claimable :
          /\ \A l \in Claimable : Table!ClaimsBefore(k, l)
          /\ job' = [job EXCEPT ![k] = Table!Claimed(k, p, clock, Lease)]
          /\ Goto(p, [proc[p] EXCEPT !.at = "check", !.task = k])
    /\ UNCHANGED <<clock, file, rescan, obs, told, sight, gone, spent>>

NothingToClaim(p) ==
    /\ At(p, "work") /\ Claimable = {}
    /\ Goto(p, Idle)
    /\ UNCHANGED <<clock, file, rescan, obs, job, told, sight, gone, spent>>

\* The process will report this outcome, once it has read the row again.
Intend(p, verdict) == Goto(p, [proc[p] EXCEPT !.at = "read", !.verdict = verdict])

\* revalidate_target: the file must still be the one that was scheduled.
Revalidate(p) ==
    /\ At(p, "check")
    /\ IF file[proc[p].task[1]] = proc[p].task[2]
       THEN Goto(p, [proc[p] EXCEPT !.at = "ingest"])
       ELSE Intend(p, "RETRY")
    /\ UNCHANGED <<clock, file, rescan, obs, job, told, sight, gone, spent>>

\* _raise_if_cancelled, _cancellation_requested
CancelSeen(p) == Row(p).cancel \/ Row(p).state = "CANCELLED"

\* The checkpoint before ingestion, and ingestion as it may turn out: the file
\* as it is now is ingested, or is gone, or the parser fails in either way.
Ingest(p) ==
    /\ At(p, "ingest")
    /\ IF CancelSeen(p) THEN Intend(p, "CANCELLED")
       ELSE IF file[proc[p].task[1]] = None THEN Intend(p, "RETRY")
       ELSE \E verdict \in {"SUCCEEDED", "RETRY", "FAILED"} : Intend(p, verdict)
    /\ UNCHANGED <<clock, file, rescan, obs, job, told, sight, gone, spent>>

\* get_job before the report; the checkpoint after ingestion may come between.
Read(p) ==
    /\ At(p, "read")
    /\ \E verdict \in {proc[p].verdict} \union
                      (IF CancelSeen(p) /\ proc[p].verdict = "SUCCEEDED"
                       THEN {"CANCELLED"} ELSE {}) :
          Goto(p, [proc[p] EXCEPT
              !.at = IF verdict # "CANCELLED" /\ Row(p).cancel THEN "acknowledge" ELSE "report",
              !.verdict = verdict, !.rev = Row(p).rev])
    /\ UNCHANGED <<clock, file, rescan, obs, job, told, sight, gone, spent>>

\* The job table moves the job as p asks and tells p so.
Settle(p, row) ==
    /\ job' = [job EXCEPT ![proc[p].task] = row]
    /\ told' = told \union {<<p, proc[p].task, row.state>>}
    /\ NextJob(p)
    /\ UNCHANGED <<clock, file, rescan, obs, sight, gone, spent>>

Refuse(p, next) ==
    /\ Goto(p, next)
    /\ UNCHANGED <<clock, file, rescan, obs, job, told, sight, gone, spent>>

\* acknowledge_job_cancellation at the revision p has read, or repeated.
Acknowledges(p) ==
    LET k == proc[p].task
    IN  /\ Table!HoldsLease(p, k, clock) /\ Row(p).cancel /\ Row(p).rev = proc[p].rev
        /\ Settle(p, Table!Released(k, "CANCELLED", p, None, clock))

HearsCancelled(p) ==
    /\ Row(p).state = "CANCELLED" /\ Row(p).last = p
    /\ Settle(p, Row(p))

CanAcknowledge(p) ==
    \/ /\ Table!HoldsLease(p, proc[p].task, clock)
       /\ Row(p).cancel /\ Row(p).rev = proc[p].rev
    \/ Row(p).state = "CANCELLED" /\ Row(p).last = p

\* A cancellation p has seen.  A refusal is looked into where it comes after
\* the ingestion or at the checkpoint before it; elsewhere it ends the process.
Acknowledge(p) ==
    /\ At(p, "acknowledge") \/ (At(p, "report") /\ proc[p].verdict = "CANCELLED")
    /\ \/ Acknowledges(p) \/ HearsCancelled(p)
       \/ /\ ~CanAcknowledge(p)
          /\ \/ /\ proc[p].verdict \in {"SUCCEEDED", "CANCELLED"}
                /\ Refuse(p, [proc[p] EXCEPT !.at = "resolve"])
             \/ proc[p].verdict # "SUCCEEDED" /\ Refuse(p, Down)

\* watch_retry_delay_ms: doubled with every attempt, up to a maximum.
RetryDelay(attempt) ==
    LET delay == RetryBase * 2 ^ (attempt - 1)
    IN  IF delay < RetryMax THEN delay ELSE RetryMax

\* The row complete_job or fail_job writes for the verdict of p.
Outcome(p) ==
    LET k == proc[p].task
    IN  CASE proc[p].verdict = "SUCCEEDED" ->
               Table!Released(k, "SUCCEEDED", p, None, clock)
          [] proc[p].verdict = "RETRY" /\ Row(p).attempt < MaxAttempts ->
               Table!Requeued(k, p, "source_changed", clock, RetryDelay(Row(p).attempt))
          [] proc[p].verdict = "RETRY" ->
               Table!Released(k, "FAILED", p, "source_changed", clock)
          [] OTHER -> Table!Released(k, "FAILED", p, "ingestion_failed", clock)

\* A defect: the revision just read is taken for the lease.
Report_ByRevision(p) ==
    /\ At(p, "report") /\ proc[p].verdict # "CANCELLED"
    /\ Row(p).state = "RUNNING" /\ Row(p).rev = proc[p].rev
    /\ Settle(p, Outcome(p))

\* complete_job and _fail_job, under the lease that was claimed and has not
\* been renewed since.
Report(p) ==
    LET mine == Table!ActiveLease(p, proc[p].task, proc[p].rev, clock)
    IN  /\ At(p, "report") /\ proc[p].verdict # "CANCELLED"
        /\ \/ mine /\ Settle(p, Outcome(p))
           \/ ~mine /\ Refuse(p, IF proc[p].verdict = "SUCCEEDED"
                                 THEN [proc[p] EXCEPT !.at = "resolve"] ELSE Down)

\* The handler of a refused completion: was the job cancelled?
Resolve(p) ==
    LET k == proc[p].task
        mine == Table!HoldsLease(p, k, clock) /\ Row(p).cancel
    IN  /\ At(p, "resolve")
        /\ \/ Row(p).state = "CANCELLED" /\ Settle(p, Row(p))
           \/ mine /\ Settle(p, Table!Released(k, "CANCELLED", p, None, clock))
           \/ Row(p).state # "CANCELLED" /\ ~mine /\ Refuse(p, Down)
-----------------------------------------------------------------------------
\* Somebody writes, removes, or moves back a file.
Change(f) ==
    /\ spent.changes < MaxChanges
    /\ spent' = [spent EXCEPT !.changes = @ + 1]
    /\ \E content \in (Contents \union {None}) \ {file[f]} :
          file' = [file EXCEPT ![f] = content]
    /\ gone' = [gone EXCEPT ![f] = IF file[f] = None THEN clock ELSE @]
    /\ UNCHANGED <<clock, rescan, obs, job, proc, told, sight>>

\* request_job_cancellation by an operator.
Cancel(k) ==
    /\ \/ /\ job[k].state = "QUEUED"
          /\ job' = [job EXCEPT ![k] = Table!Released(k, "CANCELLED", None, None, clock)]
       \/ /\ job[k].state = "RUNNING" /\ ~job[k].cancel
          /\ job' = [job EXCEPT ![k] = Table!Cancelling(k, clock)]
    /\ UNCHANGED <<clock, file, rescan, obs, proc, told, sight, gone, spent>>

\* A process is killed.
Crash(p) ==
    /\ proc[p].at \notin {"idle", "down"} /\ spent.faults < MaxFaults
    /\ spent' = [spent EXCEPT !.faults = @ + 1]
    /\ Abort(p)
    /\ UNCHANGED <<clock, file, rescan, obs, job, told, sight, gone>>

\* A supervisor or an operator runs the command again.
Restart(p) ==
    /\ At(p, "down")
    /\ Goto(p, Idle)
    /\ UNCHANGED <<clock, file, rescan, obs, job, told, sight, gone, spent>>

\* Time passes while a lease, a delay or a stability window runs.
Tick ==
    /\ \/ \E k \in Keys : /\ Live(k)
                          /\ job[k].expires > clock \/ job[k].available > clock
       \/ \E f \in Files : /\ obs[f].state = "CANDIDATE"
                           /\ obs[f].first + Stability > clock
    /\ clock' = clock + 1
    /\ UNCHANGED <<file, rescan, obs, job, proc, told, sight, gone, spent>>

Step(p) ==
    \/ Recover(p) \/ ScanCompletely(p)
    \/ Reconcile(p) \/ ReconcileIncomplete(p) \/ RefuseScan(p)
    \/ Claim(p) \/ NothingToClaim(p)
    \/ Revalidate(p) \/ Ingest(p) \/ Read(p)
    \/ Report(p) \/ Acknowledge(p) \/ Resolve(p)

Next ==
    \/ \E p \in Watchers : Step(p) \/ ScanIncompletely(p) \/ Crash(p) \/ Restart(p)
    \/ \E f \in Files : Change(f)
    \/ \E k \in Keys : Cancel(k)
    \/ Tick

Spec == Init /\ [][Next]_vars

\* An assumption on the environment, for nothing in the code does it: whoever
\* runs the watcher runs it again after it has exited.
Restarted == \A p \in Watchers : WF_vars(Restart(p))

\* The clock advances, and run_forever repeats its cycles until one raises;
\* crashes and incomplete scans are bounded, so some scans are complete.
FairSpec ==
    Spec /\ WF_vars(Tick) /\ (\A p \in Watchers : WF_vars(Step(p))) /\ Restarted
-----------------------------------------------------------------------------
Place == {"idle", "scan", "reconcile", "work", "check", "ingest", "read",
          "report", "acknowledge", "resolve", "down"}

Scans == [complete: BOOLEAN, entries: [Files -> Contents \union {None}], at: Nat]

Verdicts == {"SUCCEEDED", "RETRY", "FAILED", "CANCELLED"}

Proc == [at: Place, scan: Scans \union {NoScan}, left: 0..MaxJobs,
         task: Keys \union {None}, verdict: Verdicts \union {None}, rev: Nat]

\* Every variable has its type, and a process at work has a job left to do.
TypeOK ==
    /\ clock \in Nat
    /\ file \in [Files -> Contents \union {None}]
    /\ rescan \in BOOLEAN
    /\ obs \in [Files -> Observation]
    /\ job \in [Keys -> Table!Row]
    /\ proc \in [Watchers -> Proc]
    /\ \A p \in Watchers : At(p, "work") => proc[p].left > 0
    /\ told \subseteq Watchers \X Keys \X Table!Answers
    /\ sight \in [Keys -> Nat]
    /\ gone \in [Files -> Nat]
    /\ spent \in [changes: 0..MaxChanges, faults: 0..MaxFaults]

\* No stable content is forgotten: one that has no job yet waits for a scan
\* that is marked as required, and the live jobs never exceed their limit.
NothingStableForgotten ==
    /\ (\E f \in Files : obs[f].state = "STABLE" /\ obs[f].key # obs[f].print) => rescan
    /\ Cardinality({k \in Keys : Live(k)}) <= MaxActive

\* A content is scheduled only after some scan saw it a whole stability window
\* earlier, though the window is reset and measured in rows that scans of
\* several processes write in any order.
StableBeforeScheduled ==
    [][\A k \in Keys : job[k].state = "ABSENT" /\ job'[k].state # "ABSENT" =>
          clock >= sight[k] + Stability /\ sight[k] > 0]_vars

\* A file is declared gone only when it has been gone since its content was
\* first seen, however late the scan that missed it is reconciled and whatever
\* other scans broke off.
TombstonesAreTrue ==
    [][\A f \in Files : obs[f].state # "TOMBSTONED" /\ obs'[f].state = "TOMBSTONED" =>
          file[f] = None \/ gone[f] >= obs[f].first]_vars

\* A file that is back with a content whose job exists, and that its
\* observation does not bear: it cannot be scheduled, and as long as it is
\* there every reconciliation of the root that would schedule it is refused.
CameBack(f) ==
    /\ file[f] # None
    /\ job[<<f, file[f]>>].state # "ABSENT"
    /\ obs[f].key # file[f]

\* Whatever changes, crashes and is cancelled before: a content that stays is
\* scheduled and its job comes to an end, unless a file came back.
EveryContentSettles ==
    \A k \in Keys : <>[](file[k[1]] = k[2]) =>
        <>(job[k].state \in Table!Terminal) \/ <>[](\E f \in Files : CameBack(f))

\* A content that stays is in the end the scheduled one of its file, also when
\* the file was away, or had another content, in between.
ReappearingFilesSettle ==
    \A k \in Keys : <>[](file[k[1]] = k[2]) => []<>(obs[k[1]].key = k[2])

\* The jobs of a root implement the lifecycle of JobLifecycle, with the cycles
\* of the watchers as its workers.
Lifecycle == INSTANCE JobLifecycle WITH
    Jobs <- Keys, Workers <- Watchers,
    phase <- [k \in Keys |-> job[k].state],
    attempts <- [k \in Keys |-> job[k].attempt],
    holder <- [k \in Keys |-> job[k].owner],
    cancelling <- [k \in Keys |-> job[k].cancel],
    reported <- told

ImplementsLifecycle == Lifecycle!Spec
=============================================================================
