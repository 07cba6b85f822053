------------------------------ MODULE JobQueue ------------------------------
(***************************************************************************)
(* The durable job table of the SQLite catalog: one action per catalog     *)
(* operation of adapters/sqlite_catalog_jobs.py.  Every operation is one   *)
(* write transaction, hence one step; what interleaves are the calls of    *)
(* the workers, of the client that enqueues and cancels, and of recovery.  *)
(*                                                                         *)
(* A worker stands for one pair (owner_id, lease_token): the only identity *)
(* the table knows.  A call carries the wall-clock time its caller read    *)
(* before the transaction began, so a call may be up to MaxLag behind the  *)
(* clock; it also carries a revision the caller saw, the newest one or (a  *)
(* late or repeated call) an older one.  A refused call changes nothing    *)
(* and is not a step.                                                      *)
(***************************************************************************)
EXTENDS Naturals, Sequences, FiniteSets

CONSTANTS
    Jobs,          \* job identities; each has one deduplication key
    Workers,       \* (owner, lease token) pairs
    Pools,         \* the sets of jobs one claim ranges over: all, a kind, a root
    Client,        \* whoever enqueues jobs
    None,          \* SQL NULL
    MaxAttempts,   \* max_attempts of every job
    LeaseLengths,  \* lease_until - now
    Delays,        \* available_at - created_at, and retry_at - now
    FailureCodes,  \* the codes workers report
    LeaseExpired,  \* the code recovery writes
    MaxLag,        \* how far behind the clock a caller's reading may be
    MaxRevision    \* bound: no renewal of a row at this revision (renew_job has none)

ASSUME JobsAssumption ==
    Pools \subseteq SUBSET Jobs /\ None \notin Workers /\ Client \notin Workers
ASSUME BudgetAssumption == MaxAttempts \in Nat \ {0}
ASSUME TimeAssumption ==
    /\ LeaseLengths \subseteq Nat \ {0}
    /\ Delays \subseteq Nat
    /\ MaxLag \in Nat
    /\ MaxRevision \in Nat
ASSUME CodesAssumption ==
    LeaseExpired \notin FailureCodes /\ None \notin FailureCodes \union {LeaseExpired}

VARIABLES
    clock,    \* the wall clock
    job,      \* jobs: the row of every job
    events,   \* job_events: the append-only evidence of every job
    request,  \* what the client asked for when it created the job
    held,     \* what every worker was last told: a revision and a lease expiry
    told      \* every outcome a caller was given: <<caller, job, answer>>

vars == <<clock, job, events, request, held, told>>

Terminal == {"SUCCEEDED", "FAILED", "CANCELLED"}
Live == {"QUEUED", "RUNNING"}

\* A row of the jobs table.  A lease expiry of 0 stands for NULL.
Row == [state: Live \union Terminal \union {"ABSENT"}, attempt: Nat, rev: Nat,
        available: Nat, owner: Workers \union {None}, expires: Nat,
        cancel: BOOLEAN, last: Workers \union {None},
        failure: FailureCodes \union {LeaseExpired, None},
        created: Nat, updated: Nat]

NoRow == [state |-> "ABSENT", attempt |-> 0, rev |-> 0, available |-> 0,
          owner |-> None, expires |-> 0, cancel |-> FALSE, last |-> None,
          failure |-> None, created |-> 0, updated |-> 0]

EventTypes == {"ENQUEUED", "CLAIMED", "RENEWED", "COMPLETED", "RETRY_QUEUED",
               "FAILED", "CANCEL_REQUESTED", "CANCELLED", "LEASE_RECOVERED",
               "LEASE_EXHAUSTED"}

Event == [type: EventTypes, from: Live \union {"ABSENT"}, to: Live \union Terminal,
          at: Nat, attempt: Nat, owner: Workers \union {None}]

Answers == Terminal \union {"QUEUED", "RETURNED", "CONFLICT"}

Init ==
    /\ clock = 0
    /\ job = [j \in Jobs |-> NoRow]
    /\ events = [j \in Jobs |-> << >>]
    /\ request = [j \in Jobs |-> [created |-> 0, available |-> 0]]
    /\ held = [w \in Workers |-> [j \in Jobs |-> [rev |-> 0, until |-> 0]]]
    /\ told = {}
-----------------------------------------------------------------------------
\* The instants a caller may carry: read at or before the clock of the step.
Readings == {t \in 0..clock : clock <= t + MaxLag}

\* Write one row and append its event, in one transaction.
Write(j, row, type, now, who) ==
    /\ job' = [job EXCEPT ![j] = row]
    /\ events' = [events EXCEPT ![j] = Append(@,
           [type |-> type, from |-> job[j].state, to |-> row.state, at |-> now,
            attempt |-> row.attempt, owner |-> who])]

\* The caller learns a revision and the expiry of a lease that is its own.
Learn(w, j, row) ==
    held' = [held EXCEPT ![w][j] = [rev |-> row.rev, until |-> row.expires]]

Tell(who, j, answer) == told' = told \union {<<who, j, answer>>}

\* A row that has left RUNNING: the lease is gone, the fencing token is kept.
Released(j, state, token, code, now) ==
    [job[j] EXCEPT !.state = state, !.rev = @ + 1, !.owner = None, !.expires = 0,
                   !.cancel = FALSE, !.last = token, !.failure = code, !.updated = now]

\* The row of a failed attempt that may be retried once the delay is over.
Requeued(j, token, code, now, delay) ==
    [Released(j, "QUEUED", token, code, now) EXCEPT !.available = now + delay]

\* A defect: a renewal does not advance the revision.
Renewed_SameRevision(j, now, length) ==
    [job[j] EXCEPT !.expires = now + length, !.updated = now]

\* The rows a claim, a renewal and a cancellation request write.
Claimed(j, w, now, length) ==
    [job[j] EXCEPT !.state = "RUNNING", !.attempt = @ + 1, !.rev = @ + 1,
                   !.owner = w, !.expires = now + length, !.updated = now]

Renewed(j, now, length) ==
    [job[j] EXCEPT !.rev = @ + 1, !.expires = now + length, !.updated = now]

Cancelling(j, now) ==
    [job[j] EXCEPT !.rev = @ + 1, !.cancel = TRUE, !.updated = now]

\* The lease checks of a worker's call at revision r (cancellation apart).
HoldsLease(w, j, now) ==
    job[j].state = "RUNNING" /\ job[j].owner = w /\ job[j].expires > now

ActiveLease(w, j, r, now) ==
    HoldsLease(w, j, now) /\ ~job[j].cancel /\ job[j].rev = r

\* A transition may not be dated before the row's last one.
TransitionTime(j, now) == job[j].updated <= now
-----------------------------------------------------------------------------
\* create_job for a key that is not in the table.
CreateJob(j, now, delay) ==
    /\ job[j].state = "ABSENT"
    /\ Write(j, [NoRow EXCEPT !.state = "QUEUED", !.available = now + delay,
                              !.created = now, !.updated = now],
             "ENQUEUED", now, None)
    /\ request' = [request EXCEPT ![j] = [created |-> now, available |-> now + delay]]
    /\ UNCHANGED <<clock, held, told>>

\* Does the row still equal the specification it was created from?
JobMatchesSpec(j, spec) ==
    job[j].available = spec.available /\ job[j].created = spec.created

\* create_job repeated with the same specification.
RepeatCreate(j) ==
    /\ job[j].state # "ABSENT"
    /\ Tell(Client, j, IF JobMatchesSpec(j, request[j]) THEN "RETURNED" ELSE "CONFLICT")
    /\ UNCHANGED <<clock, job, events, request, held>>

\* A worker that still holds a lease in the pool is given that lease again.
ReplayClaim(w, pool, now) ==
    /\ \E j \in pool : HoldsLease(w, j, now) /\ Learn(w, j, job[j])
    /\ UNCHANGED <<clock, job, events, request, told>>

\* Oldest availability first, then oldest creation (ties: by job id).
ClaimsBefore(j, k) ==
    \/ job[j].available < job[k].available
    \/ job[j].available = job[k].available /\ job[j].created <= job[k].created

\* claim_job and claim_watch_job: a queued job that is due becomes RUNNING.
ClaimJob(w, pool, now, length) ==
    LET queued == {j \in pool : job[j].state = "QUEUED"}
        due == {j \in queued : job[j].available <= now}
    IN  /\ \A j \in pool : ~HoldsLease(w, j, now)
        /\ \A j \in queued : TransitionTime(j, now)
        /\ \E j \in due :
              /\ \A k \in due : ClaimsBefore(j, k)
              /\ Write(j, Claimed(j, w, now, length), "CLAIMED", now, w)
              /\ Learn(w, j, Claimed(j, w, now, length))
        /\ UNCHANGED <<clock, request, told>>

\* renew_job at the current revision: the lease is replaced.
RenewJob(w, j, r, now, length) ==
    /\ ActiveLease(w, j, r, now)
    /\ TransitionTime(j, now)
    /\ job[j].rev < MaxRevision
    /\ Write(j, Renewed(j, now, length), "RENEWED", now, w)
    /\ Learn(w, j, Renewed(j, now, length))
    /\ UNCHANGED <<clock, request, told>>

\* renew_job repeated: one revision behind a lease that is long enough already.
ReplayRenewal(w, j, r, now, length) ==
    /\ HoldsLease(w, j, now) /\ ~job[j].cancel
    /\ job[j].rev = r + 1
    /\ job[j].expires >= now + length
    /\ TransitionTime(j, now)
    /\ Learn(w, j, job[j])
    /\ UNCHANGED <<clock, job, events, request, told>>

\* A call of w that leaves RUNNING: the row, its event, and the answer w gets.
Report(w, j, row, type, now) ==
    /\ Write(j, row, type, now, w)
    /\ Learn(w, j, row)
    /\ Tell(w, j, row.state)
    /\ UNCHANGED <<clock, request>>

\* A defect: whoever repeats the call is told that it succeeded.
ReplayReport_AnyToken(w, j, states) ==
    /\ job[j].state \in states
    /\ Learn(w, j, job[j])
    /\ Tell(w, j, job[j].state)
    /\ UNCHANGED <<clock, job, events, request>>

\* A repeated call whose transition was made by the same token already.
ReplayReport(w, j, states) ==
    /\ job[j].state \in states /\ job[j].last = w
    /\ Learn(w, j, job[j])
    /\ Tell(w, j, job[j].state)
    /\ UNCHANGED <<clock, job, events, request>>

CompleteJob(w, j, r, now) ==
    \/ ReplayReport(w, j, {"SUCCEEDED"})
    \/ /\ ActiveLease(w, j, r, now)
       /\ TransitionTime(j, now)
       /\ Report(w, j, Released(j, "SUCCEEDED", w, None, now), "COMPLETED", now)

\* retryable: back to QUEUED, due at retry_at, while attempts are left.
FailJob(w, j, r, now, retryable, delay, code) ==
    \/ job[j].failure = code /\ ReplayReport(w, j, {"QUEUED", "FAILED"})
    \/ /\ ActiveLease(w, j, r, now)
       /\ TransitionTime(j, now)
       /\ LET retry == retryable /\ job[j].attempt < MaxAttempts
          IN  IF retry
              THEN Report(w, j, Requeued(j, w, code, now, delay), "RETRY_QUEUED", now)
              ELSE Report(w, j, Released(j, "FAILED", w, code, now), "FAILED", now)

\* request_job_cancellation: immediate when QUEUED, a flag when RUNNING.
RequestCancellation(j, now) ==
    /\ TransitionTime(j, now)
    /\ \/ /\ job[j].state = "QUEUED"
          /\ Write(j, Released(j, "CANCELLED", None, None, now), "CANCELLED", now, None)
       \/ /\ job[j].state = "RUNNING" /\ ~job[j].cancel
          /\ Write(j, Cancelling(j, now), "CANCEL_REQUESTED", now, job[j].owner)
    /\ UNCHANGED <<clock, request, held, told>>

AcknowledgeCancellation(w, j, r, now) ==
    \/ ReplayReport(w, j, {"CANCELLED"})
    \/ /\ HoldsLease(w, j, now) /\ job[j].cancel /\ job[j].rev = r
       /\ TransitionTime(j, now)
       /\ Report(w, j, Released(j, "CANCELLED", w, None, now), "CANCELLED", now)

\* A defect: one requeue too many.
Recovered_OneTooMany(j, now) ==
    IF job[j].cancel THEN Released(j, "CANCELLED", job[j].owner, None, now)
    ELSE IF job[j].attempt <= MaxAttempts
         THEN Released(j, "QUEUED", job[j].owner, LeaseExpired, now)
         ELSE Released(j, "FAILED", job[j].owner, LeaseExpired, now)

\* A defect: a requested cancellation is forgotten.
Recovered_ForgetsCancel(j, now) ==
    IF job[j].attempt < MaxAttempts
    THEN Released(j, "QUEUED", job[j].owner, LeaseExpired, now)
    ELSE Released(j, "FAILED", job[j].owner, LeaseExpired, now)

\* The row recovery writes for an expired lease; it does not look at updated.
Recovered(j, now) ==
    IF job[j].cancel THEN Released(j, "CANCELLED", job[j].owner, None, now)
    ELSE IF job[j].attempt < MaxAttempts
         THEN Released(j, "QUEUED", job[j].owner, LeaseExpired, now)
         ELSE Released(j, "FAILED", job[j].owner, LeaseExpired, now)

\* A defect: an event type the table does not know.
RecoveryEvent_Unknown(j) == "LEASE_EXPIRED"

RecoveryEvent(j) ==
    IF job[j].cancel THEN "CANCELLED"
    ELSE IF job[j].attempt < MaxAttempts THEN "LEASE_RECOVERED" ELSE "LEASE_EXHAUSTED"

\* A defect: leases are taken away at the instant before they expire.
Expired_Early(now) ==
    {j \in Jobs : job[j].state = "RUNNING" /\ job[j].expires <= now + 1}

\* A defect: a job that is to be cancelled is left to its holder.
Expired_LeavesCancelled(now) ==
    {j \in Jobs : job[j].state = "RUNNING" /\ job[j].expires <= now /\ ~job[j].cancel}

\* The jobs whose lease is over at that instant.
Expired(now) == {j \in Jobs : job[j].state = "RUNNING" /\ job[j].expires <= now}

\* recover_expired_jobs: every expired lease, in one transaction.
RecoverExpired(now) ==
    /\ Expired(now) # {}
    /\ job' = [j \in Jobs |-> IF j \in Expired(now) THEN Recovered(j, now) ELSE job[j]]
    /\ events' = [j \in Jobs |->
           IF j \in Expired(now)
           THEN Append(events[j],
                  [type |-> RecoveryEvent(j), from |-> "RUNNING",
                   to |-> Recovered(j, now).state, at |-> now,
                   attempt |-> job[j].attempt, owner |-> job[j].owner])
           ELSE events[j]]
    /\ UNCHANGED <<clock, request, held, told>>

\* get_job: a worker that holds a job reads its current revision.
Refresh(w, j) ==
    /\ held[w][j].rev # 0
    /\ held' = [held EXCEPT ![w][j].rev = job[j].rev]
    /\ UNCHANGED <<clock, job, events, request, told>>

\* Time passes while some reading could still tell a timestamp from the past.
Tick ==
    /\ \E j \in Jobs : /\ job[j].state \in Live
                       /\ \/ job[j].available + MaxLag > clock
                          \/ job[j].expires + MaxLag > clock
                          \/ job[j].updated + MaxLag > clock
    /\ clock' = clock + 1
    /\ UNCHANGED <<job, events, request, held, told>>
-----------------------------------------------------------------------------
ClaimSome == \E w \in Workers, pool \in Pools, now \in Readings, n \in LeaseLengths :
                 ClaimJob(w, pool, now, n)

RecoverSome == \E now \in Readings : RecoverExpired(now)

\* A call of a worker about a job it once held, at a revision it once saw.
WorkerCall(w, j, r, now) ==
    \/ CompleteJob(w, j, r, now)
    \/ AcknowledgeCancellation(w, j, r, now)
    \/ \E code \in FailureCodes :
          \/ FailJob(w, j, r, now, FALSE, 0, code)
          \/ \E d \in Delays : FailJob(w, j, r, now, TRUE, d, code)
    \/ \E n \in LeaseLengths :
          RenewJob(w, j, r, now, n) \/ ReplayRenewal(w, j, r, now, n)

Next ==
    \/ \E j \in Jobs, now \in Readings, d \in Delays : CreateJob(j, now, d)
    \/ \E j \in Jobs : RepeatCreate(j)
    \/ \E w \in Workers, pool \in Pools, now \in Readings : ReplayClaim(w, pool, now)
    \/ ClaimSome
    \/ \E w \in Workers, j \in Jobs, now \in Readings :
          \E r \in 1..held[w][j].rev : WorkerCall(w, j, r, now)
    \/ \E j \in Jobs, now \in Readings : RequestCancellation(j, now)
    \/ RecoverSome
    \/ \E w \in Workers, j \in Jobs : Refresh(w, j)
    \/ Tick

Spec == Init /\ [][Next]_vars

\* The watcher loop recovers and claims in every cycle; the clock advances.
\* Nothing is assumed of a worker that holds a lease: it may stop for good, or
\* (renew_job has no limit) renew for as long as it lives.
Fairness == WF_vars(Tick) /\ WF_vars(RecoverSome) /\ WF_vars(ClaimSome)

FairSpec == Spec /\ Fairness
-----------------------------------------------------------------------------
\* Every variable has its type; the log of a job is a sequence of events.
TypeOK ==
    /\ clock \in Nat
    /\ job \in [Jobs -> Row]
    /\ events \in [Jobs -> Seq(Event)]
    /\ request \in [Jobs -> [created: Nat, available: Nat]]
    /\ held \in [Workers -> [Jobs -> [rev: Nat, until: Nat]]]
    /\ told \subseteq (Workers \union {Client}) \X Jobs \X Answers

\* The attempt budget: a queued job can still be started, a running one has
\* not been started too often, and recovery gave up only on spent budgets.
AttemptBudget ==
    \A j \in Jobs :
        /\ job[j].attempt <= MaxAttempts
        /\ job[j].state = "QUEUED" => job[j].attempt < MaxAttempts
        /\ job[j].failure = LeaseExpired /\ job[j].state = "FAILED"
               => job[j].attempt = MaxAttempts

\* Does w believe that it holds an unexpired lease on j?
BelievesHeld(w, j) == held[w][j].until > clock

\* Mutual exclusion: while a worker's last known lease has not run out and it
\* has reported no outcome, the job is running and is its own, whatever
\* recovery, cancellation and the other workers do (hence at most one worker
\* believes it holds a job).
LeaseExclusive ==
    \A w \in Workers, j \in Jobs :
        BelievesHeld(w, j) => job[j].state = "RUNNING" /\ job[j].owner = w

\* Why it holds: a belief is never longer than the lease in the row, and only
\* a running row has a lease.
LeaseInv ==
    /\ \A j \in Jobs : job[j].state # "RUNNING" => job[j].expires = 0
    /\ \A w \in Workers, j \in Jobs :
          BelievesHeld(w, j) => /\ job[j].state = "RUNNING" /\ job[j].owner = w
                                /\ held[w][j].until <= job[j].expires

\* What a caller was told about an outcome is, and stays, what happened; no
\* two workers are told that they made the same job succeed, or fail for good.
RepliesTruthful ==
    \A v, w \in Workers, j \in Jobs :
        /\ \A answer \in Terminal :
              <<w, j, answer>> \in told => job[j].state = answer
        /\ \A answer \in {"SUCCEEDED", "FAILED"} :
              <<w, j, answer>> \in told /\ <<v, j, answer>> \in told => v = w

\* Why it holds: success and failure carry the token of the one who was told.
ToldInv ==
    \A w \in Workers, j \in Jobs, answer \in Terminal :
        <<w, j, answer>> \in told =>
            /\ job[j].state = answer
            /\ answer \in {"SUCCEEDED", "FAILED"} => job[j].last = w

\* The inductive invariant behind AttemptBudget, LeaseExclusive and RepliesTruthful.
IInv == TypeOK /\ LeaseInv /\ AttemptBudget /\ ToldInv

\* The events of a job replay to its row: they chain from ABSENT to the row's
\* state, there is one per revision, and the CLAIMED ones count its attempts.
EventsExplainRow ==
    \A j \in Jobs :
        LET log == events[j]
            claims == {i \in 1..Len(log) : log[i].type = "CLAIMED"}
        IN  IF log = << >> THEN job[j] = NoRow
            ELSE /\ log[1].from = "ABSENT"
                 /\ \A i \in 2..Len(log) : log[i].from = log[i - 1].to
                 /\ log[Len(log)].to = job[j].state
                 /\ Len(log) = job[j].rev + 1
                 /\ Cardinality(claims) = job[j].attempt

\* A renewal of j.
Renews(j) ==
    \E w \in Workers, r \in 1..job[j].rev, now \in Readings, n \in LeaseLengths :
        RenewJob(w, j, r, now, n)

\* The assumption on workers: no job is renewed for ever.  The code does not
\* enforce it; in a run the bound MaxRevision grants it.
RenewalsEnd == \A j \in Jobs : <>[][~Renews(j)]_vars

\* If renewals end, every job that was created settles, though any worker may
\* stop at any time, holding its lease or not.
EveryJobSettles ==
    RenewalsEnd => \A j \in Jobs : job[j].state \in Live ~> job[j].state \in Terminal

\* The table implements the lifecycle it promises.
Lifecycle == INSTANCE JobLifecycle WITH
    phase <- [j \in Jobs |-> job[j].state],
    attempts <- [j \in Jobs |-> job[j].attempt],
    holder <- [j \in Jobs |-> job[j].owner],
    cancelling <- [j \in Jobs |-> job[j].cancel],
    reported <- {t \in told : t[1] # Client}

\* Every step of the table is a step of the lifecycle or invisible to it.
ImplementsLifecycle == Lifecycle!Spec
=============================================================================
