--------------------------- MODULE JobQueueProofs ---------------------------
(***************************************************************************)
(* Theorems about the job table, for every value of its constants.  The    *)
(* first part says what rows the actions write, the second that the types  *)
(* are kept, the third that the inductive invariant is, the fourth that    *)
(* the events of a job explain its row, and the last that every step of    *)
(* the table is a step of JobLifecycle or invisible to it.                 *)
(***************************************************************************)
EXTENDS JobQueue, FiniteSetTheorems, TLAPS

USE JobsAssumption, BudgetAssumption, TimeAssumption, CodesAssumption

\* Every row of a well-typed table is a row, and its revision has a successor.
LEMMA RowsAreTyped == TypeOK => \A j \in Jobs : job[j] \in Row /\ job[j].rev + 1 \in Nat
  BY DEF TypeOK, Row

\* A caller's reading is a time, and not ahead of the clock.
LEMMA ReadingsAreTimes == TypeOK => \A now \in Readings : now \in Nat /\ now <= clock
  BY DEF TypeOK, Readings

\* What a row that left RUNNING says.
LEMMA ReleasedRow ==
    ASSUME TypeOK, NEW j \in Jobs, NEW state \in Live \union Terminal,
           NEW token \in Workers \union {None},
           NEW code \in FailureCodes \union {LeaseExpired, None}, NEW now \in Nat
    PROVE  LET row == Released(j, state, token, code, now)
           IN  /\ row \in Row
               /\ row.state = state /\ row.attempt = job[j].attempt
               /\ row.owner = None /\ row.expires = 0 /\ ~row.cancel
               /\ row.last = token /\ row.failure = code /\ row.rev = job[j].rev + 1
<1> DEFINE n == job[j].rev + 1
           row == [job[j] EXCEPT !.state = state, !.rev = n, !.owner = None,
                      !.expires = 0, !.cancel = FALSE, !.last = token,
                      !.failure = code, !.updated = now]
<1>1. Released(j, state, token, code, now) = row
  BY DEF Released
<1>2. job[j] \in Row /\ n \in Nat
  BY RowsAreTyped
<1> HIDE DEF n
<1>3. /\ row \in Row
      /\ row.state = state /\ row.attempt = job[j].attempt
      /\ row.owner = None /\ row.expires = 0 /\ ~row.cancel
      /\ row.last = token /\ row.failure = code /\ row.rev = n
  BY <1>2 DEF Row
<1> QED
  BY <1>1, <1>3 DEF n

\* A requeued row differs from it in its availability only.
LEMMA RequeuedRow ==
    ASSUME TypeOK, NEW j \in Jobs, NEW token \in Workers, NEW code \in FailureCodes,
           NEW now \in Nat, NEW delay \in Nat
    PROVE  LET row == Requeued(j, token, code, now, delay)
           IN  /\ row \in Row
               /\ row.state = "QUEUED" /\ row.attempt = job[j].attempt
               /\ row.owner = None /\ row.expires = 0 /\ ~row.cancel
               /\ row.last = token /\ row.failure = code /\ row.rev = job[j].rev + 1
<1> DEFINE base == Released(j, "QUEUED", token, code, now)
           due == now + delay
           row == [base EXCEPT !.available = due]
<1>1. Requeued(j, token, code, now, delay) = row
  BY DEF Requeued
<1>2. /\ base \in Row
      /\ base.state = "QUEUED" /\ base.attempt = job[j].attempt
      /\ base.owner = None /\ base.expires = 0 /\ ~base.cancel
      /\ base.last = token /\ base.failure = code /\ base.rev = job[j].rev + 1
  <2>1. "QUEUED" \in Live \union Terminal
    BY DEF Live
  <2> QED
    BY <2>1, ReleasedRow
<1>3. due \in Nat
  OBVIOUS
<1> HIDE DEF base, due
<1> QED
  BY <1>1, <1>2, <1>3 DEF Row

\* What claim_job writes: a running row, with the event of one more attempt.
LEMMA ClaimedRow ==
    ASSUME TypeOK, NEW j \in Jobs, NEW w \in Workers, NEW now \in Nat,
           NEW length \in LeaseLengths
    PROVE  LET row == Claimed(j, w, now, length)
           IN  /\ row \in Row
               /\ row.state = "RUNNING" /\ row.attempt = job[j].attempt + 1
               /\ row.owner = w /\ row.expires = now + length
               /\ (row.cancel <=> job[j].cancel) /\ row.last = job[j].last
               /\ row.rev = job[j].rev + 1
<1> DEFINE n == job[j].rev + 1
           m == job[j].attempt + 1
           e == now + length
           row == [job[j] EXCEPT !.state = "RUNNING", !.attempt = m, !.rev = n,
                      !.owner = w, !.expires = e, !.updated = now]
<1>1. Claimed(j, w, now, length) = row
  BY DEF Claimed
<1>2. job[j] \in Row /\ n \in Nat /\ m \in Nat /\ e \in Nat
  BY RowsAreTyped DEF Row
<1> HIDE DEF n, m, e
<1>3. /\ row \in Row
      /\ row.state = "RUNNING" /\ row.attempt = m
      /\ row.owner = w /\ row.expires = e
      /\ (row.cancel <=> job[j].cancel) /\ row.last = job[j].last
      /\ row.rev = n
  BY <1>2 DEF Row, Live
<1> QED
  BY <1>1, <1>3 DEF n, m, e

\* What renew_job writes: the same running row under a longer lease.
LEMMA RenewedRow ==
    ASSUME TypeOK, NEW j \in Jobs, NEW now \in Nat, NEW length \in LeaseLengths
    PROVE  LET row == Renewed(j, now, length)
           IN  /\ row \in Row
               /\ row.state = job[j].state /\ row.attempt = job[j].attempt
               /\ row.owner = job[j].owner /\ row.expires = now + length
               /\ (row.cancel <=> job[j].cancel) /\ row.rev = job[j].rev + 1
<1> DEFINE n == job[j].rev + 1
           e == now + length
           row == [job[j] EXCEPT !.rev = n, !.expires = e, !.updated = now]
<1>1. Renewed(j, now, length) = row
  BY DEF Renewed
<1>2. job[j] \in Row /\ n \in Nat /\ e \in Nat
  BY RowsAreTyped
<1> HIDE DEF n, e
<1>3. /\ row \in Row
      /\ row.state = job[j].state /\ row.attempt = job[j].attempt
      /\ row.owner = job[j].owner /\ row.expires = e
      /\ (row.cancel <=> job[j].cancel) /\ row.rev = n
  BY <1>2 DEF Row
<1> QED
  BY <1>1, <1>3 DEF n, e

\* What request_job_cancellation writes on a running row: the flag and nothing else.
LEMMA CancellingRow ==
    ASSUME TypeOK, NEW j \in Jobs, NEW now \in Nat
    PROVE  LET row == Cancelling(j, now)
           IN  /\ row \in Row
               /\ row.state = job[j].state /\ row.attempt = job[j].attempt
               /\ row.owner = job[j].owner /\ row.expires = job[j].expires
               /\ row.cancel /\ row.rev = job[j].rev + 1
<1> DEFINE n == job[j].rev + 1
           row == [job[j] EXCEPT !.rev = n, !.cancel = TRUE, !.updated = now]
<1>1. Cancelling(j, now) = row
  BY DEF Cancelling
<1>2. job[j] \in Row /\ n \in Nat
  BY RowsAreTyped
<1> HIDE DEF n
<1>3. /\ row \in Row
      /\ row.state = job[j].state /\ row.attempt = job[j].attempt
      /\ row.owner = job[j].owner /\ row.expires = job[j].expires
      /\ row.cancel /\ row.rev = n
  BY <1>2 DEF Row
<1> QED
  BY <1>1, <1>3 DEF n

\* What recovery writes for a running row.
LEMMA RecoveredRow ==
    ASSUME TypeOK, NEW j \in Jobs, NEW now \in Nat
    PROVE  LET row == Recovered(j, now)
           IN  /\ row \in Row
               /\ row.attempt = job[j].attempt /\ row.expires = 0
               /\ row.owner = None /\ ~row.cancel /\ row.rev = job[j].rev + 1
               /\ row.failure \notin FailureCodes
               /\ job[j].cancel => row.state = "CANCELLED" /\ row.failure = None
               /\ ~job[j].cancel /\ job[j].attempt < MaxAttempts => row.state = "QUEUED"
               /\ ~job[j].cancel /\ ~(job[j].attempt < MaxAttempts)
                      => row.state = "FAILED"
<1>1. job[j].owner \in Workers \union {None} /\ job[j].cancel \in BOOLEAN
  BY RowsAreTyped DEF Row
<1>2. CASE job[j].cancel
  <2>1. Recovered(j, now) = Released(j, "CANCELLED", job[j].owner, None, now)
    BY <1>2 DEF Recovered
  <2>2. "CANCELLED" \in Live \union Terminal
    BY DEF Terminal
  <2> QED
    BY <1>1, <1>2, <2>1, <2>2, ReleasedRow
<1>3. CASE ~job[j].cancel /\ job[j].attempt < MaxAttempts
  <2>1. Recovered(j, now) = Released(j, "QUEUED", job[j].owner, LeaseExpired, now)
    BY <1>3 DEF Recovered
  <2>2. "QUEUED" \in Live \union Terminal
    BY DEF Live
  <2> QED
    BY <1>1, <1>3, <2>1, <2>2, ReleasedRow
<1>4. CASE ~job[j].cancel /\ ~(job[j].attempt < MaxAttempts)
  <2>1. Recovered(j, now) = Released(j, "FAILED", job[j].owner, LeaseExpired, now)
    BY <1>4 DEF Recovered
  <2>2. "FAILED" \in Live \union Terminal
    BY DEF Terminal
  <2> QED
    BY <1>1, <1>4, <2>1, <2>2, ReleasedRow
<1> QED
  BY <1>1, <1>2, <1>3, <1>4
-----------------------------------------------------------------------------
(* The types are kept. *)

\* Writing a typed row and appending a typed event keeps the table and the log typed.
LEMMA WriteType ==
    ASSUME TypeOK, NEW j \in Jobs, NEW row \in Row, NEW type \in EventTypes,
           NEW now \in Nat, NEW who \in Workers \union {None},
           row.state # "ABSENT", job[j].state \notin Terminal,
           Write(j, row, type, now, who)
    PROVE  job' \in [Jobs -> Row] /\ events' \in [Jobs -> Seq(Event)]
<1>1. job' \in [Jobs -> Row]
  BY DEF TypeOK, Write
<1> DEFINE e == [type |-> type, from |-> job[j].state, to |-> row.state, at |-> now,
                 attempt |-> row.attempt, owner |-> who]
<1>2. e \in Event
  BY DEF TypeOK, Row, Event
<1>3. \A k \in Jobs : Append(events[k], e) \in Seq(Event)
  BY <1>2 DEF TypeOK
<1>4. events' = [events EXCEPT ![j] = Append(@, e)]
  BY DEF Write
<1> HIDE DEF e
<1>5. events' \in [Jobs -> Seq(Event)]
  BY <1>3, <1>4 DEF TypeOK
<1> QED
  BY <1>1, <1>5

\* Learning a typed row keeps what the workers know typed.
LEMMA LearnType ==
    ASSUME TypeOK, NEW w \in Workers, NEW j \in Jobs, NEW row \in Row, Learn(w, j, row)
    PROVE  held' \in [Workers -> [Jobs -> [rev: Nat, until: Nat]]]
<1>1. [rev |-> row.rev, until |-> row.expires] \in [rev: Nat, until: Nat]
  BY DEF Row
<1> QED
  BY <1>1 DEF TypeOK, Learn

\* A report whose row and event are typed keeps the types.
LEMMA ReportType ==
    ASSUME TypeOK, NEW w \in Workers, NEW j \in Jobs, NEW row \in Row,
           NEW type \in EventTypes, NEW now \in Nat,
           row.state \in Terminal \union {"QUEUED"}, job[j].state = "RUNNING",
           Report(w, j, row, type, now)
    PROVE  TypeOK'
<1>1. row.state # "ABSENT" /\ job[j].state \notin Terminal /\ row.state \in Answers
  BY DEF Terminal, Answers
<1>2. job' \in [Jobs -> Row] /\ events' \in [Jobs -> Seq(Event)]
  BY <1>1, WriteType DEF Report
<1>3. held' \in [Workers -> [Jobs -> [rev: Nat, until: Nat]]]
  BY LearnType DEF Report
<1>4. <<w, j, row.state>> \in (Workers \union {Client}) \X Jobs \X Answers
  BY <1>1
<1>5. told' \subseteq (Workers \union {Client}) \X Jobs \X Answers
  BY <1>4 DEF TypeOK, Report, Tell
<1> QED
  BY <1>2, <1>3, <1>5 DEF TypeOK, Report

\* Repeating a call whose outcome is in the row keeps the types.
LEMMA ReplayReportType ==
    ASSUME TypeOK, NEW w \in Workers, NEW j \in Jobs,
           NEW states \in SUBSET (Terminal \union {"QUEUED"}), ReplayReport(w, j, states)
    PROVE  TypeOK'
<1>1. held' \in [Workers -> [Jobs -> [rev: Nat, until: Nat]]]
  BY RowsAreTyped, LearnType DEF ReplayReport
<1>2. <<w, j, job[j].state>> \in (Workers \union {Client}) \X Jobs \X Answers
  BY DEF ReplayReport, Answers
<1>3. told' \subseteq (Workers \union {Client}) \X Jobs \X Answers
  BY <1>2 DEF TypeOK, ReplayReport, Tell
<1> QED
  BY <1>1, <1>3 DEF TypeOK, ReplayReport

\* An expired lease is released with the event its row calls for.
LEMMA RecoverType ==
    ASSUME TypeOK, NEW now \in Nat, RecoverExpired(now)
    PROVE  TypeOK'
<1> DEFINE e(j) == [type |-> RecoveryEvent(j), from |-> "RUNNING",
                    to |-> Recovered(j, now).state, at |-> now,
                    attempt |-> job[j].attempt, owner |-> job[j].owner]
<1>1. job' \in [Jobs -> Row]
  BY RowsAreTyped, RecoveredRow DEF RecoverExpired
<1>2. ASSUME NEW j \in Jobs
      PROVE  Append(events[j], e(j)) \in Seq(Event)
  <2>1. RecoveryEvent(j) \in EventTypes
    BY DEF RecoveryEvent, EventTypes
  <2>2. Recovered(j, now).state \in Live \union Terminal
    BY RecoveredRow, RowsAreTyped DEF Live, Terminal, Row
  <2>3. job[j].attempt \in Nat /\ job[j].owner \in Workers \union {None}
    BY RowsAreTyped DEF Row
  <2>4. e(j) \in Event
    BY <2>1, <2>2, <2>3 DEF Event, Live
  <2> HIDE DEF e
  <2> QED
    BY <2>4 DEF TypeOK
<1>3. events' = [j \in Jobs |-> IF j \in Expired(now) THEN Append(events[j], e(j)) ELSE events[j]]
  BY DEF RecoverExpired
<1> HIDE DEF e
<1>4. events' \in [Jobs -> Seq(Event)]
  BY <1>2, <1>3 DEF TypeOK
<1> QED
  BY <1>1, <1>4 DEF TypeOK, RecoverExpired

\* Every operation of the catalog, and the passing of time, keeps the types.
LEMMA TypeStep == TypeOK /\ [Next]_vars => TypeOK'
<1> SUFFICES ASSUME TypeOK, [Next]_vars PROVE TypeOK'
  OBVIOUS
<1> USE DEF EventTypes
<1>1. ASSUME NEW j \in Jobs, NEW now \in Readings, NEW d \in Delays, CreateJob(j, now, d)
      PROVE  TypeOK'
  <2> DEFINE due == now + d
             row == [NoRow EXCEPT !.state = "QUEUED", !.available = due,
                                  !.created = now, !.updated = now]
  <2>1. now \in Nat /\ due \in Nat
    BY ReadingsAreTimes
  <2>2. request' \in [Jobs -> [created: Nat, available: Nat]]
    BY <1>1, <2>1 DEF CreateJob, TypeOK
  <2>3. Write(j, row, "ENQUEUED", now, None)
    BY <1>1 DEF CreateJob
  <2>4. job[j].state \notin Terminal
    BY <1>1 DEF CreateJob, Terminal
  <2> HIDE DEF due
  <2>5. NoRow \in Row
    BY DEF NoRow, Row
  <2>6. row \in Row /\ row.state = "QUEUED"
    BY <2>1, <2>5 DEF Row, Live
  <2> HIDE DEF row
  <2>7. job' \in [Jobs -> Row] /\ events' \in [Jobs -> Seq(Event)]
    BY <2>1, <2>3, <2>4, <2>6, WriteType
  <2> QED
    BY <1>1, <2>2, <2>7 DEF TypeOK, CreateJob
<1>2. ASSUME NEW j \in Jobs, RepeatCreate(j) PROVE TypeOK'
  BY <1>2 DEF TypeOK, RepeatCreate, Tell, Answers
<1>3. ASSUME NEW w \in Workers, NEW pool \in Pools, NEW now \in Readings,
             ReplayClaim(w, pool, now)
      PROVE  TypeOK'
  <2>1. PICK j \in Jobs : Learn(w, j, job[j])
    BY <1>3 DEF ReplayClaim
  <2>2. held' \in [Workers -> [Jobs -> [rev: Nat, until: Nat]]]
    BY <2>1, RowsAreTyped, LearnType
  <2> QED
    BY <1>3, <2>2 DEF TypeOK, ReplayClaim
<1>4. ASSUME NEW w \in Workers, NEW pool \in Pools, NEW now \in Readings,
             NEW n \in LeaseLengths, ClaimJob(w, pool, now, n)
      PROVE  TypeOK'
  <2>1. PICK j \in Jobs : /\ job[j].state = "QUEUED"
                          /\ Write(j, Claimed(j, w, now, n), "CLAIMED", now, w)
                          /\ Learn(w, j, Claimed(j, w, now, n))
    BY <1>4 DEF ClaimJob
  <2>2. now \in Nat /\ job[j].state \notin Terminal
    BY <2>1, ReadingsAreTimes DEF Terminal
  <2>3. Claimed(j, w, now, n) \in Row /\ Claimed(j, w, now, n).state # "ABSENT"
    BY <2>2, ClaimedRow
  <2>4. job' \in [Jobs -> Row] /\ events' \in [Jobs -> Seq(Event)]
    BY <2>1, <2>2, <2>3, WriteType
  <2>5. held' \in [Workers -> [Jobs -> [rev: Nat, until: Nat]]]
    BY <2>1, <2>3, LearnType
  <2> QED
    BY <1>4, <2>4, <2>5 DEF TypeOK, ClaimJob
<1>5. ASSUME NEW w \in Workers, NEW j \in Jobs, NEW now \in Readings,
             NEW r \in 1..held[w][j].rev, WorkerCall(w, j, r, now)
      PROVE  TypeOK'
  <2>1. now \in Nat
    BY ReadingsAreTimes
  <2>2. CASE CompleteJob(w, j, r, now)
    <3>1. CASE ReplayReport(w, j, {"SUCCEEDED"})
      BY <3>1, ReplayReportType DEF Terminal
    <3>2. CASE HoldsLease(w, j, now)
               /\ Report(w, j, Released(j, "SUCCEEDED", w, None, now), "COMPLETED", now)
      <4>1. "SUCCEEDED" \in Terminal
        BY DEF Terminal
      <4> QED
        BY <2>1, <3>2, <4>1, ReleasedRow, ReportType DEF HoldsLease
    <3> QED
      BY <2>2, <3>1, <3>2 DEF CompleteJob, ActiveLease
  <2>3. CASE AcknowledgeCancellation(w, j, r, now)
    <3>1. CASE ReplayReport(w, j, {"CANCELLED"})
      BY <3>1, ReplayReportType DEF Terminal
    <3>2. CASE HoldsLease(w, j, now)
               /\ Report(w, j, Released(j, "CANCELLED", w, None, now), "CANCELLED", now)
      <4>1. "CANCELLED" \in Terminal
        BY DEF Terminal
      <4> QED
        BY <2>1, <3>2, <4>1, ReleasedRow, ReportType DEF HoldsLease
    <3> QED
      BY <2>3, <3>1, <3>2 DEF AcknowledgeCancellation
  <2>4. ASSUME NEW retryable \in BOOLEAN, NEW d \in Nat, NEW code \in FailureCodes,
               FailJob(w, j, r, now, retryable, d, code)
        PROVE  TypeOK'
    <3>1. CASE ReplayReport(w, j, {"QUEUED", "FAILED"})
      BY <3>1, ReplayReportType DEF Terminal
    <3>2. CASE HoldsLease(w, j, now)
               /\ Report(w, j, Requeued(j, w, code, now, d), "RETRY_QUEUED", now)
      BY <2>1, <3>2, RequeuedRow, ReportType DEF HoldsLease
    <3>3. CASE HoldsLease(w, j, now)
               /\ Report(w, j, Released(j, "FAILED", w, code, now), "FAILED", now)
      <4>1. "FAILED" \in Terminal
        BY DEF Terminal
      <4> QED
        BY <2>1, <3>3, <4>1, ReleasedRow, ReportType DEF HoldsLease
    <3> QED
      BY <2>4, <3>1, <3>2, <3>3 DEF FailJob, ActiveLease
  <2>5. ASSUME NEW n \in LeaseLengths, RenewJob(w, j, r, now, n) PROVE TypeOK'
    <3>1. job[j].state = "RUNNING"
      BY <2>5 DEF RenewJob, ActiveLease, HoldsLease
    <3>2. job[j].state \notin Terminal
      BY <3>1 DEF Terminal
    <3>3. Renewed(j, now, n) \in Row /\ Renewed(j, now, n).state # "ABSENT"
      BY <2>1, <3>1, RenewedRow
    <3>4. job' \in [Jobs -> Row] /\ events' \in [Jobs -> Seq(Event)]
      BY <2>1, <2>5, <3>2, <3>3, WriteType DEF RenewJob
    <3>5. held' \in [Workers -> [Jobs -> [rev: Nat, until: Nat]]]
      BY <2>5, <3>3, LearnType DEF RenewJob
    <3> QED
      BY <2>5, <3>4, <3>5 DEF TypeOK, RenewJob
  <2>6. ASSUME NEW n \in LeaseLengths, ReplayRenewal(w, j, r, now, n) PROVE TypeOK'
    <3>1. held' \in [Workers -> [Jobs -> [rev: Nat, until: Nat]]]
      BY <2>6, RowsAreTyped, LearnType DEF ReplayRenewal
    <3> QED
      BY <2>6, <3>1 DEF TypeOK, ReplayRenewal
  <2> QED
    BY <1>5, <2>2, <2>3, <2>4, <2>5, <2>6 DEF WorkerCall
<1>6. ASSUME NEW j \in Jobs, NEW now \in Readings, RequestCancellation(j, now)
      PROVE  TypeOK'
  <2>1. now \in Nat
    BY ReadingsAreTimes
  <2>2. CASE /\ job[j].state = "QUEUED"
             /\ Write(j, Released(j, "CANCELLED", None, None, now), "CANCELLED", now, None)
    <3>1. "CANCELLED" \in Terminal /\ job[j].state \notin Terminal
      BY <2>2 DEF Terminal
    <3>2. job' \in [Jobs -> Row] /\ events' \in [Jobs -> Seq(Event)]
      BY <2>1, <2>2, <3>1, ReleasedRow, WriteType
    <3> QED
      BY <1>6, <3>2 DEF TypeOK, RequestCancellation
  <2>3. CASE /\ job[j].state = "RUNNING"
             /\ Write(j, Cancelling(j, now), "CANCEL_REQUESTED", now, job[j].owner)
    <3>1. job[j].state \notin Terminal /\ job[j].owner \in Workers \union {None}
      BY <2>3, RowsAreTyped DEF Terminal, Row
    <3>2. Cancelling(j, now) \in Row /\ Cancelling(j, now).state # "ABSENT"
      BY <2>1, <2>3, CancellingRow
    <3>3. job' \in [Jobs -> Row] /\ events' \in [Jobs -> Seq(Event)]
      BY <2>1, <2>3, <3>1, <3>2, WriteType
    <3> QED
      BY <1>6, <3>3 DEF TypeOK, RequestCancellation
  <2> QED
    BY <1>6, <2>2, <2>3 DEF RequestCancellation
<1>7. ASSUME NEW now \in Readings, RecoverExpired(now) PROVE TypeOK'
  BY <1>7, ReadingsAreTimes, RecoverType
<1>8. ASSUME NEW w \in Workers, NEW j \in Jobs, Refresh(w, j) PROVE TypeOK'
  <2>1. PICK n \in Nat : n = job[j].rev
    BY RowsAreTyped DEF Row
  <2> DEFINE memory == [held[w][j] EXCEPT !.rev = n]
  <2>2. held' = [held EXCEPT ![w] = [held[w] EXCEPT ![j] = memory]]
    BY <1>8, <2>1 DEF Refresh
  <2>3. memory \in [rev: Nat, until: Nat]
    BY DEF TypeOK
  <2> HIDE DEF memory
  <2>4. held' \in [Workers -> [Jobs -> [rev: Nat, until: Nat]]]
    BY <2>2, <2>3 DEF TypeOK
  <2> QED
    BY <1>8, <2>4 DEF TypeOK, Refresh
<1>9. CASE Tick
  BY <1>9 DEF TypeOK, Tick
<1>10. CASE UNCHANGED vars
  BY <1>10 DEF TypeOK, vars
<1>11. CASE ClaimSome
  BY <1>4, <1>11 DEF ClaimSome
<1>12. CASE RecoverSome
  BY <1>7, <1>12 DEF RecoverSome
<1>13. CASE Next
  <2>1. CASE \E w \in Workers, j \in Jobs, now \in Readings :
               \E r \in 1..held[w][j].rev : WorkerCall(w, j, r, now)
    BY <1>5, <2>1
  <2>2. CASE \E j \in Jobs, now \in Readings, d \in Delays : CreateJob(j, now, d)
    BY <1>1, <2>2
  <2>3. CASE \E w \in Workers, pool \in Pools, now \in Readings : ReplayClaim(w, pool, now)
    BY <1>3, <2>3
  <2> QED
    BY <1>2, <1>6, <1>8, <1>9, <1>11, <1>12, <1>13, <2>1, <2>2, <2>3 DEF Next
<1> QED
  BY <1>10, <1>13

\* Type correctness.
THEOREM TypeCorrect == Spec => []TypeOK
<1>1. Init => TypeOK
  <2>1. NoRow \in Row
    BY DEF NoRow, Row
  <2> QED
    BY <2>1 DEF Init, TypeOK
<1> QED
  BY <1>1, TypeStep, PTL DEF Spec
-----------------------------------------------------------------------------
(* The inductive invariant. *)

\* The empty table, with nobody holding or having been told anything, has the invariant.
LEMMA InitInv == Init => IInv
<1> SUFFICES ASSUME Init PROVE IInv
  OBVIOUS
<1>1. TypeOK
  <2>1. NoRow \in Row
    BY DEF NoRow, Row
  <2> QED
    BY <2>1 DEF Init, TypeOK
<1>2. LeaseInv
  <2>1. \A j \in Jobs : job[j].expires = 0
    BY DEF Init, NoRow
  <2>2. \A w \in Workers, j \in Jobs : ~BelievesHeld(w, j)
    BY DEF Init, BelievesHeld
  <2> QED
    BY <2>1, <2>2 DEF LeaseInv
<1>3. AttemptBudget
  BY DEF Init, AttemptBudget, NoRow
<1>4. ToldInv
  BY DEF Init, ToldInv
<1> QED
  BY <1>1, <1>2, <1>3, <1>4 DEF IInv

\* A report: the row is released, and its holder believes nothing any more.
LEMMA ReportInv ==
    ASSUME IInv, TypeOK', NEW w \in Workers, NEW j \in Jobs, NEW row \in Row,
           NEW type, NEW now \in Nat,
           row.state \in Terminal \union {"QUEUED"}, row.expires = 0, row.last = w,
           row.attempt = job[j].attempt,
           row.state = "QUEUED" => row.attempt < MaxAttempts,
           row.failure # LeaseExpired,
           HoldsLease(w, j, now), Report(w, j, row, type, now)
    PROVE  IInv'
<1>1. job' = [job EXCEPT ![j] = row]
  BY DEF Report, Write
<1>2. held' = [held EXCEPT ![w][j] = [rev |-> row.rev, until |-> 0]]
  BY DEF Report, Learn
<1>3. told' = told \union {<<w, j, row.state>>} /\ clock' = clock
  BY DEF Report, Tell
<1>4. \A k \in Jobs : job'[k] = IF k = j THEN row ELSE job[k]
  BY <1>1 DEF IInv, TypeOK
<1>5. LeaseInv'
  <2>1. row.state # "RUNNING"
    BY DEF Terminal
  <2>2. ASSUME NEW v \in Workers, NEW k \in Jobs, BelievesHeld(v, k)'
        PROVE  BelievesHeld(v, k) /\ k # j /\ held'[v][k] = held[v][k]
    <3>1. ~(v = w /\ k = j)
      BY <1>2, <1>3, <2>2 DEF IInv, TypeOK, BelievesHeld
    <3>2. held'[v][k] = held[v][k]
      BY <1>2, <3>1 DEF IInv, TypeOK
    <3>3. BelievesHeld(v, k)
      BY <1>3, <2>2, <3>2 DEF BelievesHeld
    <3> QED
      BY <3>1, <3>2, <3>3 DEF IInv, LeaseInv, HoldsLease
  <2> QED
    BY <1>4, <2>1, <2>2 DEF IInv, LeaseInv
<1>6. AttemptBudget'
  BY <1>4 DEF IInv, AttemptBudget
<1>7. ToldInv'
  <2>1. job[j].state = "RUNNING"
    BY DEF HoldsLease
  <2>2. \A v \in Workers, answer \in Terminal : <<v, j, answer>> \notin told
    BY <2>1 DEF IInv, ToldInv, Terminal
  <2> QED
    BY <1>3, <1>4, <2>2 DEF IInv, ToldInv
<1> QED
  BY <1>5, <1>6, <1>7 DEF IInv

\* A repeated report: the row has no lease, and its last token is the caller's.
LEMMA ReplayReportInv ==
    ASSUME IInv, TypeOK', NEW w \in Workers, NEW j \in Jobs,
           NEW states \in SUBSET (Terminal \union {"QUEUED"}), ReplayReport(w, j, states)
    PROVE  IInv'
<1>1. job[j].state # "RUNNING"
  BY DEF ReplayReport, Terminal
<1>2. job' = job /\ clock' = clock /\ told' = told \union {<<w, j, job[j].state>>}
  BY DEF ReplayReport, Tell
<1>3. held' = [held EXCEPT ![w][j] = [rev |-> job[j].rev, until |-> 0]]
  BY <1>1 DEF ReplayReport, Learn, IInv, LeaseInv
<1>4. LeaseInv'
  <2>1. ASSUME NEW v \in Workers, NEW k \in Jobs, BelievesHeld(v, k)'
        PROVE  BelievesHeld(v, k) /\ held'[v][k] = held[v][k]
    <3>1. ~(v = w /\ k = j)
      BY <1>2, <1>3, <2>1 DEF IInv, TypeOK, BelievesHeld
    <3>2. held'[v][k] = held[v][k]
      BY <1>3, <3>1 DEF IInv, TypeOK
    <3> QED
      BY <1>2, <2>1, <3>2 DEF BelievesHeld
  <2> QED
    BY <1>2, <2>1 DEF IInv, LeaseInv
<1>5. AttemptBudget'
  BY <1>2 DEF IInv, AttemptBudget
<1>6. ToldInv'
  <2>1. job[j].last = w
    BY DEF ReplayReport
  <2> QED
    BY <1>2, <2>1 DEF IInv, ToldInv
<1> QED
  BY <1>4, <1>5, <1>6 DEF IInv

\* A worker is told the lease it has.
LEMMA LearnInv ==
    ASSUME IInv, TypeOK', NEW w \in Workers, NEW j \in Jobs, NEW now \in Nat,
           HoldsLease(w, j, now), Learn(w, j, job[j]), UNCHANGED <<clock, job, told>>
    PROVE  IInv'
<1>1. held' = [held EXCEPT ![w][j] = [rev |-> job[j].rev, until |-> job[j].expires]]
  BY DEF Learn
<1>2. ASSUME NEW v \in Workers, NEW k \in Jobs, BelievesHeld(v, k)'
      PROVE  job[k].state = "RUNNING" /\ job[k].owner = v /\ held'[v][k].until <= job[k].expires
  <2>1. CASE v = w /\ k = j
    <3>1. held'[v][k].until = job[j].expires
      BY <1>1, <2>1 DEF IInv, TypeOK
    <3>2. job[j].expires \in Nat
      BY RowsAreTyped DEF IInv, Row
    <3> QED
      BY <2>1, <3>1, <3>2 DEF HoldsLease
  <2>2. CASE ~(v = w /\ k = j)
    <3>1. held'[v][k] = held[v][k]
      BY <1>1, <2>2 DEF IInv, TypeOK
    <3>2. BelievesHeld(v, k)
      BY <1>2, <3>1 DEF BelievesHeld
    <3> QED
      BY <3>1, <3>2 DEF IInv, LeaseInv
  <2> QED
    BY <2>1, <2>2
<1>3. LeaseInv'
  BY <1>2 DEF IInv, LeaseInv
<1>4. AttemptBudget' /\ ToldInv'
  BY DEF IInv, AttemptBudget, ToldInv
<1> QED
  BY <1>3, <1>4 DEF IInv

\* The holder gets a new row, running under a lease of its own.
LEMMA GrantInv ==
    ASSUME IInv, TypeOK', NEW w \in Workers, NEW j \in Jobs, NEW row \in Row,
           NEW type, NEW now \in Nat,
           \/ job[j].state = "QUEUED"
           \/ job[j].state = "RUNNING" /\ job[j].owner = w,
           row.state = "RUNNING", row.owner = w, row.attempt <= MaxAttempts,
           Write(j, row, type, now, w), Learn(w, j, row), UNCHANGED <<clock, told>>
    PROVE  IInv'
<1>1. \A k \in Jobs : job'[k] = IF k = j THEN row ELSE job[k]
  BY DEF IInv, TypeOK, Write
<1>2. held' = [held EXCEPT ![w][j] = [rev |-> row.rev, until |-> row.expires]]
  BY DEF Learn
<1>3. ASSUME NEW v \in Workers, NEW k \in Jobs, BelievesHeld(v, k)'
      PROVE  /\ job'[k].state = "RUNNING" /\ job'[k].owner = v
             /\ held'[v][k].until <= job'[k].expires
  <2>1. CASE v = w /\ k = j
    <3>1. held'[v][k].until = row.expires /\ row.expires \in Nat
      BY <1>2, <2>1 DEF IInv, TypeOK, Row
    <3> QED
      BY <1>1, <2>1, <3>1
  <2>2. CASE ~(v = w /\ k = j)
    <3>1. held'[v][k] = held[v][k]
      BY <1>2, <2>2 DEF IInv, TypeOK
    <3>2. BelievesHeld(v, k)
      BY <1>3, <3>1 DEF BelievesHeld
    <3>3. job[k].state = "RUNNING" /\ job[k].owner = v /\ held[v][k].until <= job[k].expires
      BY <3>2 DEF IInv, LeaseInv
    <3>4. k # j
      BY <2>2, <3>3
    <3> QED
      BY <1>1, <3>1, <3>3, <3>4
  <2> QED
    BY <2>1, <2>2
<1>4. LeaseInv'
  <2>1. \A k \in Jobs : job'[k].state # "RUNNING" => job'[k].expires = 0
    BY <1>1 DEF IInv, LeaseInv
  <2> QED
    BY <1>3, <2>1 DEF LeaseInv
<1>5. AttemptBudget'
  BY <1>1 DEF IInv, AttemptBudget
<1>6. ToldInv'
  BY <1>1 DEF IInv, ToldInv, Terminal
<1> QED
  BY <1>4, <1>5, <1>6 DEF IInv

\* A renewal does.
LEMMA RenewInv ==
    ASSUME IInv, TypeOK', NEW w \in Workers, NEW j \in Jobs, NEW r, NEW now \in Nat,
           NEW n \in LeaseLengths, RenewJob(w, j, r, now, n)
    PROVE  IInv'
<1> DEFINE row == Renewed(j, now, n)
<1>1. /\ job[j].state = "RUNNING" /\ job[j].owner = w /\ TypeOK
      /\ Write(j, row, "RENEWED", now, w) /\ Learn(w, j, row) /\ UNCHANGED <<clock, told>>
  BY DEF RenewJob, ActiveLease, HoldsLease, IInv
<1>2. /\ row \in Row /\ row.state = job[j].state /\ row.attempt = job[j].attempt
      /\ row.owner = job[j].owner
  <2>1. TypeOK
    BY <1>1
  <2> QED
    BY <2>1, RenewedRow
<1> HIDE DEF row
<1>3. row.state = "RUNNING" /\ row.owner = w /\ row.attempt <= MaxAttempts
  BY <1>1, <1>2 DEF IInv, AttemptBudget
<1> QED
  BY <1>1, <1>2, <1>3, GrantInv

\* A claim does.
LEMMA ClaimInv ==
    ASSUME IInv, TypeOK', NEW w \in Workers, NEW pool \in Pools, NEW now \in Nat,
           NEW n \in LeaseLengths, ClaimJob(w, pool, now, n)
    PROVE  IInv'
<1>1. PICK j \in Jobs : /\ job[j].state = "QUEUED"
                        /\ Write(j, Claimed(j, w, now, n), "CLAIMED", now, w)
                        /\ Learn(w, j, Claimed(j, w, now, n))
  BY DEF ClaimJob
<1> DEFINE row == Claimed(j, w, now, n)
<1>2. TypeOK
  BY DEF IInv
<1>3. /\ row \in Row /\ row.state = "RUNNING" /\ row.attempt = job[j].attempt + 1
      /\ row.owner = w
  BY <1>2, ClaimedRow
<1>4. Write(j, row, "CLAIMED", now, w) /\ Learn(w, j, row)
  BY <1>1
<1> HIDE DEF row
<1>5. row.attempt <= MaxAttempts
  <2>1. job[j].attempt \in Nat /\ job[j].attempt < MaxAttempts
    BY <1>1, <1>2, RowsAreTyped DEF IInv, AttemptBudget, Row
  <2> QED
    BY <1>3, <2>1
<1> QED
  BY <1>1, <1>2, <1>3, <1>4, <1>5, GrantInv DEF ClaimJob

\* Recovery keeps the invariant: a lease it ends is one nobody still believes in.
LEMMA RecoverInv ==
    ASSUME IInv, TypeOK', NEW now \in Readings, RecoverExpired(now)
    PROVE  IInv'
<1>1. now \in Nat /\ now <= clock /\ clock \in Nat
  BY ReadingsAreTimes DEF IInv, TypeOK
<1>2. \A k \in Jobs : job'[k] = IF k \in Expired(now) THEN Recovered(k, now) ELSE job[k]
  BY DEF RecoverExpired
<1>3. ASSUME NEW k \in Expired(now)
      PROVE  /\ k \in Jobs /\ job[k].state = "RUNNING" /\ job[k].expires <= now
             /\ Recovered(k, now).state # "RUNNING" /\ Recovered(k, now).expires = 0
             /\ Recovered(k, now).attempt = job[k].attempt
             /\ Recovered(k, now).state = "QUEUED" => job[k].attempt < MaxAttempts
             /\ Recovered(k, now).state = "FAILED" => ~(job[k].attempt < MaxAttempts)
  BY <1>1, RecoveredRow DEF IInv, Expired
<1>4. ASSUME NEW w \in Workers, NEW k \in Jobs, BelievesHeld(w, k)'
      PROVE  BelievesHeld(w, k) /\ k \notin Expired(now)
  <2>1. held'[w][k] = held[w][k] /\ clock' = clock
    BY DEF RecoverExpired
  <2>2. held[w][k].until \in Nat /\ job[k].expires \in Nat
    <3>1. job[k] \in Row
      BY RowsAreTyped DEF IInv
    <3>2. held[w][k] \in [rev: Nat, until: Nat]
      BY DEF IInv, TypeOK
    <3> QED
      BY <3>1, <3>2 DEF Row
  <2>3. BelievesHeld(w, k)
    BY <1>4, <2>1 DEF BelievesHeld
  <2>4. held[w][k].until > clock /\ held[w][k].until <= job[k].expires
    BY <2>3 DEF IInv, LeaseInv, BelievesHeld
  <2> QED
    BY <1>1, <2>2, <2>3, <2>4 DEF Expired
<1>5. LeaseInv'
  <2>1. \A k \in Jobs : job'[k].state # "RUNNING" => job'[k].expires = 0
    BY <1>2, <1>3 DEF IInv, LeaseInv
  <2>2. ASSUME NEW w \in Workers, NEW k \in Jobs, BelievesHeld(w, k)'
        PROVE  /\ job'[k].state = "RUNNING" /\ job'[k].owner = w
               /\ held'[w][k].until <= job'[k].expires
    <3>1. job'[k] = job[k] /\ held'[w][k] = held[w][k]
      BY <1>2, <1>4, <2>2 DEF RecoverExpired
    <3> QED
      BY <1>4, <2>2, <3>1 DEF IInv, LeaseInv
  <2> QED
    BY <2>1, <2>2 DEF LeaseInv
<1>6. AttemptBudget'
  <2>1. \A k \in Jobs : job[k].attempt \in Nat /\ job[k].attempt <= MaxAttempts
    BY RowsAreTyped DEF IInv, AttemptBudget, Row
  <2> QED
    BY <1>2, <1>3, <2>1 DEF IInv, AttemptBudget
<1>7. ToldInv'
  <2>1. \A k \in Jobs : job[k].state \in Terminal => job'[k] = job[k]
    BY <1>2 DEF Expired, Terminal
  <2>2. told' = told
    BY DEF RecoverExpired
  <2> QED
    BY <2>1, <2>2 DEF IInv, ToldInv
<1> QED
  BY <1>5, <1>6, <1>7 DEF IInv

\* Every operation of the catalog, and the passing of time, keeps the invariant.
LEMMA StepInv == IInv /\ [Next]_vars => IInv'
<1> SUFFICES ASSUME IInv, [Next]_vars PROVE IInv'
  OBVIOUS
<1>0. TypeOK /\ TypeOK'
  BY TypeStep DEF IInv
<1>1. ASSUME NEW j \in Jobs, NEW now \in Readings, NEW d \in Delays, CreateJob(j, now, d)
      PROVE  IInv'
  <2> DEFINE due == now + d
             row == [NoRow EXCEPT !.state = "QUEUED", !.available = due,
                                  !.created = now, !.updated = now]
  <2>0. job' = [job EXCEPT ![j] = row]
    BY <1>1 DEF CreateJob, Write
  <2> HIDE DEF due
  <2>1. row.state = "QUEUED" /\ row.attempt = 0 /\ row.expires = 0
    BY DEF NoRow
  <2> HIDE DEF row
  <2>2. \A k \in Jobs : job'[k] = IF k = j THEN row ELSE job[k]
    BY <1>0, <2>0 DEF TypeOK
  <2>3. job[j].state = "ABSENT" /\ UNCHANGED <<clock, held, told>>
    BY <1>1 DEF CreateJob
  <2>4. LeaseInv'
    BY <2>1, <2>2, <2>3 DEF IInv, LeaseInv, BelievesHeld
  <2>5. AttemptBudget'
    BY <2>1, <2>2 DEF IInv, AttemptBudget
  <2>6. ToldInv'
    BY <2>1, <2>2, <2>3 DEF IInv, ToldInv, Terminal
  <2> QED
    BY <1>0, <2>4, <2>5, <2>6 DEF IInv
<1>2. ASSUME NEW j \in Jobs, RepeatCreate(j) PROVE IInv'
  <2>1. UNCHANGED <<clock, job, held>> /\ \E answer : told' = told \union {<<Client, j, answer>>}
    BY <1>2 DEF RepeatCreate, Tell
  <2>2. ToldInv'
    BY <2>1 DEF IInv, ToldInv
  <2> QED
    BY <1>0, <2>1, <2>2 DEF IInv, LeaseInv, BelievesHeld, AttemptBudget
<1>3. ASSUME NEW w \in Workers, NEW pool \in Pools, NEW now \in Readings,
             ReplayClaim(w, pool, now)
      PROVE  IInv'
  <2>1. PICK j \in Jobs : HoldsLease(w, j, now) /\ Learn(w, j, job[j])
    BY <1>3 DEF ReplayClaim
  <2> QED
    BY <1>0, <1>3, <2>1, ReadingsAreTimes, LearnInv DEF ReplayClaim
<1>4. ASSUME NEW w \in Workers, NEW pool \in Pools, NEW now \in Readings,
             NEW n \in LeaseLengths, ClaimJob(w, pool, now, n)
      PROVE  IInv'
  <2>1. now \in Nat
    BY <1>0, ReadingsAreTimes
  <2> QED
    BY <1>0, <1>4, <2>1, ClaimInv
<1>5. ASSUME NEW w \in Workers, NEW j \in Jobs, NEW now \in Readings,
             NEW r \in 1..held[w][j].rev, WorkerCall(w, j, r, now)
      PROVE  IInv'
  <2>1. now \in Nat
    BY <1>0, ReadingsAreTimes
  <2>2. CASE CompleteJob(w, j, r, now)
    <3>1. CASE ReplayReport(w, j, {"SUCCEEDED"})
      BY <1>0, <3>1, ReplayReportInv DEF Terminal
    <3>2. CASE HoldsLease(w, j, now)
               /\ Report(w, j, Released(j, "SUCCEEDED", w, None, now), "COMPLETED", now)
      <4>1. "SUCCEEDED" \in Terminal /\ None # LeaseExpired
        BY DEF Terminal
      <4> QED
        BY <1>0, <2>1, <3>2, <4>1, ReleasedRow, ReportInv
    <3> QED
      BY <2>2, <3>1, <3>2 DEF CompleteJob, ActiveLease
  <2>3. CASE AcknowledgeCancellation(w, j, r, now)
    <3>1. CASE ReplayReport(w, j, {"CANCELLED"})
      BY <1>0, <3>1, ReplayReportInv DEF Terminal
    <3>2. CASE HoldsLease(w, j, now)
               /\ Report(w, j, Released(j, "CANCELLED", w, None, now), "CANCELLED", now)
      <4>1. "CANCELLED" \in Terminal /\ None # LeaseExpired
        BY DEF Terminal
      <4> QED
        BY <1>0, <2>1, <3>2, <4>1, ReleasedRow, ReportInv
    <3> QED
      BY <2>3, <3>1, <3>2 DEF AcknowledgeCancellation
  <2>4. ASSUME NEW retryable \in BOOLEAN, NEW d \in Nat, NEW code \in FailureCodes,
               FailJob(w, j, r, now, retryable, d, code)
        PROVE  IInv'
    <3>1. CASE ReplayReport(w, j, {"QUEUED", "FAILED"})
      BY <1>0, <3>1, ReplayReportInv DEF Terminal
    <3>2. CASE /\ HoldsLease(w, j, now) /\ job[j].attempt < MaxAttempts
               /\ Report(w, j, Requeued(j, w, code, now, d), "RETRY_QUEUED", now)
      BY <1>0, <2>1, <3>2, RequeuedRow, ReportInv
    <3>3. CASE HoldsLease(w, j, now)
               /\ Report(w, j, Released(j, "FAILED", w, code, now), "FAILED", now)
      <4>1. "FAILED" \in Terminal /\ code # LeaseExpired
        BY DEF Terminal
      <4> QED
        BY <1>0, <2>1, <3>3, <4>1, ReleasedRow, ReportInv
    <3> QED
      BY <2>4, <3>1, <3>2, <3>3 DEF FailJob, ActiveLease
  <2>5. ASSUME NEW n \in LeaseLengths, RenewJob(w, j, r, now, n) PROVE IInv'
    BY <1>0, <2>1, <2>5, RenewInv
  <2>6. ASSUME NEW n \in LeaseLengths, ReplayRenewal(w, j, r, now, n) PROVE IInv'
    BY <1>0, <2>1, <2>6, LearnInv DEF ReplayRenewal
  <2> QED
    BY <1>5, <2>2, <2>3, <2>4, <2>5, <2>6 DEF WorkerCall
<1>6. ASSUME NEW j \in Jobs, NEW now \in Readings, RequestCancellation(j, now)
      PROVE  IInv'
  <2>1. now \in Nat /\ UNCHANGED <<clock, held, told>>
    BY <1>0, <1>6, ReadingsAreTimes DEF RequestCancellation
  <2>2. CASE /\ job[j].state = "QUEUED"
             /\ Write(j, Released(j, "CANCELLED", None, None, now), "CANCELLED", now, None)
    <3>1. "CANCELLED" \in Terminal
      BY DEF Terminal
    <3>2. \A k \in Jobs : job'[k] = IF k = j THEN Released(j, "CANCELLED", None, None, now)
                                            ELSE job[k]
      BY <1>0, <2>2 DEF Write, TypeOK
    <3>3. /\ Released(j, "CANCELLED", None, None, now).state = "CANCELLED"
          /\ Released(j, "CANCELLED", None, None, now).expires = 0
          /\ Released(j, "CANCELLED", None, None, now).attempt = job[j].attempt
      BY <1>0, <2>1, <3>1, ReleasedRow
    <3>4. LeaseInv'
      BY <2>1, <2>2, <3>2, <3>3 DEF IInv, LeaseInv, BelievesHeld
    <3>5. AttemptBudget'
      BY <3>2, <3>3 DEF IInv, AttemptBudget
    <3>6. ToldInv'
      BY <2>1, <2>2, <3>2 DEF IInv, ToldInv, Terminal
    <3> QED
      BY <1>0, <3>4, <3>5, <3>6 DEF IInv
  <2>3. CASE /\ job[j].state = "RUNNING"
             /\ Write(j, Cancelling(j, now), "CANCEL_REQUESTED", now, job[j].owner)
    <3>1. \A k \in Jobs : job'[k] = IF k = j THEN Cancelling(j, now) ELSE job[k]
      BY <1>0, <2>3 DEF Write, TypeOK
    <3>2. /\ Cancelling(j, now).state = "RUNNING"
          /\ Cancelling(j, now).expires = job[j].expires
          /\ Cancelling(j, now).owner = job[j].owner
          /\ Cancelling(j, now).attempt = job[j].attempt
      BY <1>0, <2>1, <2>3, CancellingRow
    <3>3. LeaseInv'
      BY <2>1, <2>3, <3>1, <3>2 DEF IInv, LeaseInv, BelievesHeld
    <3>4. AttemptBudget'
      BY <3>1, <3>2 DEF IInv, AttemptBudget
    <3>5. ToldInv'
      BY <2>1, <2>3, <3>1 DEF IInv, ToldInv, Terminal
    <3> QED
      BY <1>0, <3>3, <3>4, <3>5 DEF IInv
  <2> QED
    BY <1>6, <2>2, <2>3 DEF RequestCancellation
<1>7. ASSUME NEW now \in Readings, RecoverExpired(now) PROVE IInv'
  BY <1>0, <1>7, RecoverInv
<1>8. ASSUME NEW w \in Workers, NEW j \in Jobs, Refresh(w, j) PROVE IInv'
  <2>1. UNCHANGED <<clock, job, told>>
    BY <1>8 DEF Refresh
  <2>2. \A v \in Workers, k \in Jobs : held'[v][k].until = held[v][k].until
    BY <1>0, <1>8 DEF Refresh, TypeOK
  <2> QED
    BY <1>0, <2>1, <2>2 DEF IInv, LeaseInv, BelievesHeld, AttemptBudget, ToldInv
<1>9. CASE Tick
  <2>1. clock' = clock + 1 /\ UNCHANGED <<job, held, told>>
    BY <1>9 DEF Tick
  <2>2. \A w \in Workers, k \in Jobs : BelievesHeld(w, k)' => BelievesHeld(w, k)
    BY <1>0, <2>1 DEF BelievesHeld, TypeOK
  <2> QED
    BY <1>0, <2>1, <2>2 DEF IInv, LeaseInv, AttemptBudget, ToldInv
<1>10. CASE UNCHANGED vars
  BY <1>0, <1>10 DEF vars, IInv, LeaseInv, BelievesHeld, AttemptBudget, ToldInv
<1>11. CASE ClaimSome
  BY <1>4, <1>11 DEF ClaimSome
<1>12. CASE RecoverSome
  BY <1>7, <1>12 DEF RecoverSome
<1>13. CASE Next
  <2>1. CASE \E w \in Workers, j \in Jobs, now \in Readings :
               \E r \in 1..held[w][j].rev : WorkerCall(w, j, r, now)
    BY <1>5, <2>1
  <2>2. CASE \E j \in Jobs, now \in Readings, d \in Delays : CreateJob(j, now, d)
    BY <1>1, <2>2
  <2>3. CASE \E w \in Workers, pool \in Pools, now \in Readings : ReplayClaim(w, pool, now)
    BY <1>3, <2>3
  <2> QED
    BY <1>2, <1>6, <1>8, <1>9, <1>11, <1>12, <1>13, <2>1, <2>2, <2>3 DEF Next
<1> QED
  BY <1>10, <1>13
-----------------------------------------------------------------------------
\* The inductive invariant holds in every reachable state of the job table.
THEOREM Inductive == Spec => []IInv
  BY InitInv, StepInv, PTL DEF Spec

\* At most MaxAttempts runs, and no queued job without an attempt left.
THEOREM AttemptsAreBounded == Spec => []AttemptBudget
<1>1. IInv => AttemptBudget
  BY DEF IInv
<1> QED
  BY <1>1, Inductive, PTL

\* Two workers never both hold a job, as far as either can know.
THEOREM LeasesExclude == Spec => []LeaseExclusive
<1>1. IInv => LeaseExclusive
  BY DEF IInv, LeaseInv, LeaseExclusive
<1> QED
  BY <1>1, Inductive, PTL

\* No caller was told of an outcome that did not happen or was undone.
THEOREM RepliesAreTruthful == Spec => []RepliesTruthful
<1>1. IInv => RepliesTruthful
  <2> SUFFICES ASSUME IInv, NEW v \in Workers, NEW w \in Workers, NEW j \in Jobs
               PROVE  /\ \A answer \in Terminal :
                            <<w, j, answer>> \in told => job[j].state = answer
                      /\ \A answer \in {"SUCCEEDED", "FAILED"} :
                            <<w, j, answer>> \in told /\ <<v, j, answer>> \in told => v = w
    BY DEF RepliesTruthful
  <2> QED
    BY DEF IInv, ToldInv, Terminal
<1> QED
  BY <1>1, Inductive, PTL
-----------------------------------------------------------------------------
(* The events of a job explain its row. *)

\* What EventsExplainRow says of one job.
ClaimsOf(log) == {i \in 1..Len(log) : log[i].type = "CLAIMED"}

Explained(log, row) ==
    IF log = << >> THEN row = NoRow
    ELSE /\ log[1].from = "ABSENT"
         /\ \A i \in 2..Len(log) : log[i].from = log[i - 1].to
         /\ log[Len(log)].to = row.state
         /\ Len(log) = row.rev + 1
         /\ Cardinality(ClaimsOf(log)) = row.attempt

\* One event more counts as a claim or not.
LEMMA OneEventMore ==
    ASSUME NEW log \in Seq(Event), NEW e \in Event
    PROVE  Cardinality(ClaimsOf(Append(log, e)))
              = Cardinality(ClaimsOf(log)) + (IF e.type = "CLAIMED" THEN 1 ELSE 0)
<1> DEFINE n == Len(log)
           longer == Append(log, e)
<1>1. /\ n \in Nat /\ Len(longer) = n + 1 /\ longer[n + 1] = e
      /\ \A i \in 1..n : longer[i] = log[i]
  OBVIOUS
<1> HIDE DEF longer
<1>2. IsFiniteSet(ClaimsOf(log)) /\ n + 1 \notin ClaimsOf(log)
  <2>1. IsFiniteSet(1..n) /\ ClaimsOf(log) \subseteq 1..n
    BY <1>1, FS_Interval DEF ClaimsOf
  <2>2. n + 1 \notin 1..n
    BY <1>1
  <2> QED
    BY <2>1, <2>2, FS_Subset
<1>3. Cardinality(ClaimsOf(log)) \in Nat
  BY <1>2, FS_CardinalityType
<1>4. CASE e.type = "CLAIMED"
  <2>1. ClaimsOf(longer) = ClaimsOf(log) \union {n + 1}
    BY <1>1, <1>4 DEF ClaimsOf
  <2> QED
    BY <1>2, <1>4, <2>1, FS_AddElement DEF longer
<1>5. CASE e.type # "CLAIMED"
  <2>1. ClaimsOf(longer) = ClaimsOf(log)
    BY <1>1, <1>5 DEF ClaimsOf
  <2> QED
    BY <1>3, <1>5, <2>1 DEF longer
<1> QED
  BY <1>4, <1>5

\* A row is in the table exactly when its job has events.
LEMMA RowsHaveEvents ==
    ASSUME NEW log \in Seq(Event), NEW row, Explained(log, row)
    PROVE  row.state = "ABSENT" <=> log = << >>
<1>1. CASE log = << >>
  BY <1>1 DEF Explained, NoRow
<1>2. CASE log # << >>
  <2>1. Len(log) \in 1..Len(log)
    BY <1>2
  <2>2. log[Len(log)] \in Event
    BY <2>1
  <2>3. log[Len(log)].to # "ABSENT"
    BY <2>2 DEF Event, Live, Terminal
  <2> QED
    BY <1>2, <2>3 DEF Explained
<1> QED
  BY <1>1, <1>2

\* A row written with its event, at the next revision, is explained with it.
LEMMA AppendExplains ==
    ASSUME NEW log \in Seq(Event), NEW old \in Row, Explained(log, old),
           NEW e \in Event, NEW row, e.from = old.state, e.to = row.state,
           row.rev = IF old.state = "ABSENT" THEN 0 ELSE old.rev + 1,
           row.attempt = old.attempt + (IF e.type = "CLAIMED" THEN 1 ELSE 0)
    PROVE  Explained(Append(log, e), row)
<1> DEFINE n == Len(log)
           longer == Append(log, e)
<1>1. /\ n \in Nat /\ Len(longer) = n + 1 /\ longer[n + 1] = e /\ longer # << >>
      /\ \A i \in 1..n : longer[i] = log[i]
  OBVIOUS
<1>2. Cardinality(ClaimsOf(longer)) = row.attempt
  <2>1. Cardinality(ClaimsOf(log)) = old.attempt
    <3>1. CASE log = << >>
      <4>1. ClaimsOf(log) = {} /\ old.attempt = 0
        BY <3>1 DEF ClaimsOf, Explained, NoRow
      <4> QED
        BY <4>1, FS_EmptySet
    <3>2. CASE log # << >>
      BY <3>2 DEF Explained
    <3> QED
      BY <3>1, <3>2
  <2> QED
    BY <2>1, OneEventMore
<1> HIDE DEF longer
<1>3. CASE log = << >>
  <2>1. n = 0 /\ old.state = "ABSENT" /\ row.rev = 0
    BY <1>3, RowsHaveEvents
  <2> QED
    BY <1>1, <1>2, <2>1 DEF Explained, longer
<1>4. CASE log # << >>
  <2>1. /\ n # 0 /\ old.state # "ABSENT" /\ row.rev = old.rev + 1 /\ n = old.rev + 1
        /\ log[1].from = "ABSENT" /\ log[n].to = old.state
        /\ \A i \in 2..n : log[i].from = log[i - 1].to
    BY <1>4, RowsHaveEvents DEF Explained
  <2>2. \A i \in 2..(n + 1) : longer[i].from = longer[i - 1].to
    <3> SUFFICES ASSUME NEW i \in 2..(n + 1) PROVE longer[i].from = longer[i - 1].to
      OBVIOUS
    <3>1. CASE i = n + 1
      <4>1. i - 1 = n /\ n \in 1..n
        BY <1>1, <2>1, <3>1
      <4> QED
        BY <1>1, <2>1, <3>1, <4>1
    <3>2. CASE i # n + 1
      <4>1. i \in 2..n /\ i \in 1..n /\ i - 1 \in 1..n
        BY <1>1, <3>2
      <4> QED
        BY <1>1, <2>1, <4>1
    <3> QED
      BY <3>1, <3>2
  <2>3. longer[1].from = "ABSENT"
    BY <1>1, <2>1
  <2> QED
    BY <1>1, <1>2, <2>1, <2>2, <2>3 DEF Explained, longer
<1> QED
  BY <1>3, <1>4

\* One transaction of a row and its event keeps every job explained.
LEMMA WriteExplains ==
    ASSUME TypeOK, EventsExplainRow, NEW j \in Jobs, NEW row \in Row, NEW type \in EventTypes,
           NEW now \in Nat, NEW who \in Workers \union {None},
           row.state # "ABSENT", job[j].state \notin Terminal,
           row.rev = IF job[j].state = "ABSENT" THEN 0 ELSE job[j].rev + 1,
           row.attempt = job[j].attempt + (IF type = "CLAIMED" THEN 1 ELSE 0),
           Write(j, row, type, now, who)
    PROVE  EventsExplainRow'
<1> DEFINE e == [type |-> type, from |-> job[j].state, to |-> row.state, at |-> now,
                 attempt |-> row.attempt, owner |-> who]
<1>1. /\ job[j] \in Row /\ events[j] \in Seq(Event)
      /\ \A k \in Jobs : Explained(events[k], job[k])
  BY DEF TypeOK, EventsExplainRow, Explained, ClaimsOf
<1>2. e \in Event /\ e.from = job[j].state /\ e.to = row.state /\ e.type = type
  BY <1>1 DEF Row, Event
<1>3. /\ \A k \in Jobs : job'[k] = IF k = j THEN row ELSE job[k]
      /\ \A k \in Jobs : events'[k] = IF k = j THEN Append(events[k], e) ELSE events[k]
  BY DEF Write, TypeOK
<1> HIDE DEF e
<1>4. Explained(Append(events[j], e), row)
  BY <1>1, <1>2, AppendExplains
<1>5. \A k \in Jobs : Explained(events'[k], job'[k])
  BY <1>1, <1>3, <1>4
<1> QED
  BY <1>5 DEF EventsExplainRow, Explained, ClaimsOf

\* The transitions a worker reports, each with the event it names.
LEMMA WorkerCallExplains ==
    ASSUME TypeOK, EventsExplainRow, NEW w \in Workers, NEW j \in Jobs, NEW now \in Nat,
           NEW r, WorkerCall(w, j, r, now)
    PROVE  EventsExplainRow'
<1> USE DEF EventTypes
<1>1. CASE UNCHANGED <<job, events>>
  BY <1>1 DEF EventsExplainRow
<1>2. ASSUME NEW row \in Row, NEW type \in EventTypes \ {"CLAIMED"},
             job[j].state = "RUNNING", row.state # "ABSENT",
             row.rev = job[j].rev + 1, row.attempt = job[j].attempt,
             Write(j, row, type, now, w)
      PROVE  EventsExplainRow'
  <2>1. row.attempt = job[j].attempt + 0
    BY <1>2, RowsAreTyped DEF Row
  <2> QED
    BY <1>2, <2>1, WriteExplains DEF Terminal
<1>3. ASSUME NEW state \in {"SUCCEEDED", "FAILED", "CANCELLED"},
             NEW type \in EventTypes \ {"CLAIMED"}, NEW code \in FailureCodes \union {None},
             HoldsLease(w, j, now), Report(w, j, Released(j, state, w, code, now), type, now)
      PROVE  EventsExplainRow'
  <2> DEFINE row == Released(j, state, w, code, now)
  <2>1. state \in Live \union Terminal /\ state # "ABSENT"
    BY DEF Terminal
  <2>2. row \in Row /\ row.state # "ABSENT" /\ row.rev = job[j].rev + 1
        /\ row.attempt = job[j].attempt
    BY <2>1, ReleasedRow
  <2>3. Write(j, row, type, now, w) /\ job[j].state = "RUNNING"
    BY <1>3 DEF Report, HoldsLease
  <2> HIDE DEF row
  <2> QED
    BY <1>2, <2>2, <2>3
<1>4. CASE CompleteJob(w, j, r, now)
  BY <1>1, <1>3, <1>4 DEF CompleteJob, ReplayReport, ActiveLease
<1>5. CASE AcknowledgeCancellation(w, j, r, now)
  BY <1>1, <1>3, <1>5 DEF AcknowledgeCancellation, ReplayReport
<1>6. ASSUME NEW retryable \in BOOLEAN, NEW d \in Nat, NEW code \in FailureCodes,
             FailJob(w, j, r, now, retryable, d, code)
      PROVE  EventsExplainRow'
  <2>1. CASE ReplayReport(w, j, {"QUEUED", "FAILED"})
    BY <1>1, <2>1 DEF ReplayReport
  <2>2. CASE HoldsLease(w, j, now) /\ Report(w, j, Requeued(j, w, code, now, d), "RETRY_QUEUED", now)
    <3> DEFINE row == Requeued(j, w, code, now, d)
    <3>1. row \in Row /\ row.state # "ABSENT" /\ row.rev = job[j].rev + 1
          /\ row.attempt = job[j].attempt
      BY RequeuedRow
    <3>2. Write(j, row, "RETRY_QUEUED", now, w) /\ job[j].state = "RUNNING"
      BY <2>2 DEF Report, HoldsLease
    <3> HIDE DEF row
    <3> QED
      BY <1>2, <3>1, <3>2
  <2>3. CASE HoldsLease(w, j, now) /\ Report(w, j, Released(j, "FAILED", w, code, now), "FAILED", now)
    BY <1>3, <2>3
  <2> QED
    BY <1>6, <2>1, <2>2, <2>3 DEF FailJob, ActiveLease
<1>7. ASSUME NEW n \in LeaseLengths, RenewJob(w, j, r, now, n) PROVE EventsExplainRow'
  <2> DEFINE row == Renewed(j, now, n)
  <2>1. /\ Write(j, row, "RENEWED", now, w) /\ job[j].state = "RUNNING"
    BY <1>7 DEF RenewJob, ActiveLease, HoldsLease
  <2>2. row \in Row /\ row.state # "ABSENT" /\ row.rev = job[j].rev + 1
        /\ row.attempt = job[j].attempt
    BY <2>1, RenewedRow
  <2> HIDE DEF row
  <2> QED
    BY <1>2, <2>1, <2>2
<1>8. ASSUME NEW n \in LeaseLengths, ReplayRenewal(w, j, r, now, n) PROVE EventsExplainRow'
  BY <1>1, <1>8 DEF ReplayRenewal
<1> QED
  <2>1. CASE \E code \in FailureCodes :
                \/ FailJob(w, j, r, now, FALSE, 0, code)
                \/ \E d \in Delays : FailJob(w, j, r, now, TRUE, d, code)
    BY <1>6, <2>1
  <2> QED
    BY <1>4, <1>5, <1>7, <1>8, <2>1 DEF WorkerCall

\* Recovery appends one event to every job whose lease it ends.
LEMMA RecoverExplains ==
    ASSUME TypeOK, EventsExplainRow, NEW now \in Nat, RecoverExpired(now)
    PROVE  EventsExplainRow'
<1>1. ASSUME NEW k \in Jobs PROVE Explained(events'[k], job'[k])
  <2>1. job[k] \in Row /\ events[k] \in Seq(Event) /\ Explained(events[k], job[k])
    BY DEF TypeOK, EventsExplainRow, Explained, ClaimsOf
  <2>2. CASE k \notin Expired(now)
    BY <2>1, <2>2 DEF RecoverExpired
  <2>3. CASE k \in Expired(now)
    <3> DEFINE e == [type |-> RecoveryEvent(k), from |-> "RUNNING",
                     to |-> Recovered(k, now).state, at |-> now,
                     attempt |-> job[k].attempt, owner |-> job[k].owner]
               row == Recovered(k, now)
    <3>1. events'[k] = Append(events[k], e) /\ job'[k] = row /\ job[k].state = "RUNNING"
      BY <2>3 DEF RecoverExpired, Expired
    <3>2. /\ row \in Row /\ row.rev = job[k].rev + 1 /\ row.attempt = job[k].attempt
          /\ row.state \in {"CANCELLED", "QUEUED", "FAILED"}
      BY RecoveredRow
    <3>3. RecoveryEvent(k) \in EventTypes \ {"CLAIMED"}
      BY DEF RecoveryEvent, EventTypes
    <3>4. e \in Event /\ e.from = job[k].state /\ e.to = row.state /\ e.type # "CLAIMED"
      BY <2>1, <3>1, <3>2, <3>3 DEF Event, Live, Terminal, Row
    <3>5. row.attempt = job[k].attempt + 0
      BY <2>1, <3>2 DEF Row
    <3> HIDE DEF e, row
    <3>6. Explained(Append(events[k], e), row)
      BY <2>1, <3>1, <3>2, <3>4, <3>5, AppendExplains
    <3> QED
      BY <3>1, <3>6
  <2> QED
    BY <2>2, <2>3
<1> QED
  BY <1>1 DEF EventsExplainRow, Explained, ClaimsOf

\* Every operation of the catalog keeps every job explained.
LEMMA StepExplains ==
    ASSUME TypeOK, EventsExplainRow, [Next]_vars PROVE EventsExplainRow'
<1> USE DEF EventTypes
<1>1. CASE UNCHANGED <<job, events>>
  BY <1>1 DEF EventsExplainRow
<1>2. ASSUME NEW j \in Jobs, NEW now \in Readings, NEW d \in Delays, CreateJob(j, now, d)
      PROVE  EventsExplainRow'
  <2> DEFINE due == now + d
             row == [NoRow EXCEPT !.state = "QUEUED", !.available = due,
                                  !.created = now, !.updated = now]
  <2>1. /\ now \in Nat /\ due \in Nat /\ Write(j, row, "ENQUEUED", now, None)
        /\ job[j].state = "ABSENT"
    BY <1>2, ReadingsAreTimes DEF CreateJob
  <2> HIDE DEF due
  <2>2. NoRow \in Row
    BY DEF NoRow, Row
  <2>3. row \in Row /\ row.state = "QUEUED" /\ row.rev = 0 /\ row.attempt = 0
    BY <2>1, <2>2 DEF Row, Live, NoRow
  <2>4. job[j].attempt = 0
    <3>1. Explained(events[j], job[j]) /\ events[j] \in Seq(Event)
      BY DEF TypeOK, EventsExplainRow, Explained, ClaimsOf
    <3>2. job[j] = NoRow
      BY <2>1, <3>1, RowsHaveEvents DEF Explained
    <3> QED
      BY <3>2 DEF NoRow
  <2> HIDE DEF row
  <2> QED
    BY <2>1, <2>3, <2>4, WriteExplains DEF Terminal
<1>3. ASSUME NEW w \in Workers, NEW pool \in Pools, NEW now \in Readings,
             NEW n \in LeaseLengths, ClaimJob(w, pool, now, n)
      PROVE  EventsExplainRow'
  <2>1. PICK j \in Jobs : /\ job[j].state = "QUEUED"
                          /\ Write(j, Claimed(j, w, now, n), "CLAIMED", now, w)
    BY <1>3 DEF ClaimJob
  <2> DEFINE row == Claimed(j, w, now, n)
  <2>2. now \in Nat
    BY ReadingsAreTimes
  <2>3. row \in Row /\ row.state = "RUNNING" /\ row.attempt = job[j].attempt + 1
        /\ row.rev = job[j].rev + 1
    BY <2>2, ClaimedRow
  <2> HIDE DEF row
  <2>4. Write(j, row, "CLAIMED", now, w)
    BY <2>1 DEF row
  <2> QED
    BY <2>1, <2>2, <2>3, <2>4, WriteExplains DEF Terminal
<1>4. ASSUME NEW j \in Jobs, NEW now \in Readings, RequestCancellation(j, now)
      PROVE  EventsExplainRow'
  <2>1. now \in Nat /\ job[j] \in Row
    BY ReadingsAreTimes, RowsAreTyped
  <2>2. CASE /\ job[j].state = "QUEUED"
             /\ Write(j, Released(j, "CANCELLED", None, None, now), "CANCELLED", now, None)
    <3> DEFINE row == Released(j, "CANCELLED", None, None, now)
    <3>1. "CANCELLED" \in Live \union Terminal
      BY DEF Terminal
    <3>2. row \in Row /\ row.state = "CANCELLED" /\ row.rev = job[j].rev + 1
          /\ row.attempt = job[j].attempt
      BY <2>1, <3>1, ReleasedRow
    <3>3. row.attempt = job[j].attempt + 0
      BY <2>1, <3>2 DEF Row
    <3> HIDE DEF row
    <3>4. Write(j, row, "CANCELLED", now, None)
      BY <2>2 DEF row
    <3> QED
      BY <2>1, <2>2, <3>2, <3>3, <3>4, WriteExplains DEF Terminal
  <2>3. CASE /\ job[j].state = "RUNNING"
             /\ Write(j, Cancelling(j, now), "CANCEL_REQUESTED", now, job[j].owner)
    <3> DEFINE row == Cancelling(j, now)
    <3>1. row \in Row /\ row.state = "RUNNING" /\ row.rev = job[j].rev + 1
          /\ row.attempt = job[j].attempt
      BY <2>1, <2>3, CancellingRow
    <3>2. row.attempt = job[j].attempt + 0 /\ job[j].owner \in Workers \union {None}
      BY <2>1, <3>1 DEF Row
    <3> HIDE DEF row
    <3>3. Write(j, row, "CANCEL_REQUESTED", now, job[j].owner)
      BY <2>3 DEF row
    <3> QED
      BY <2>1, <2>3, <3>1, <3>2, <3>3, WriteExplains DEF Terminal
  <2> QED
    BY <1>4, <2>2, <2>3 DEF RequestCancellation
<1>5. ASSUME NEW now \in Readings, RecoverExpired(now) PROVE EventsExplainRow'
  BY <1>5, ReadingsAreTimes, RecoverExplains
<1>6. CASE \E w \in Workers, j \in Jobs, now \in Readings :
              \E r \in 1..held[w][j].rev : WorkerCall(w, j, r, now)
  BY <1>6, ReadingsAreTimes, WorkerCallExplains
<1>7. ASSUME \/ \E j \in Jobs : RepeatCreate(j)
             \/ \E w \in Workers, pool \in Pools, now \in Readings : ReplayClaim(w, pool, now)
             \/ \E w \in Workers, j \in Jobs : Refresh(w, j)
             \/ Tick
             \/ UNCHANGED vars
      PROVE  UNCHANGED <<job, events>>
  BY <1>7 DEF RepeatCreate, ReplayClaim, Refresh, Tick, vars
<1>8. CASE ClaimSome
  BY <1>3, <1>8 DEF ClaimSome
<1>9. CASE RecoverSome
  BY <1>5, <1>9 DEF RecoverSome
<1>10. CASE \E j \in Jobs, now \in Readings, d \in Delays : CreateJob(j, now, d)
  BY <1>2, <1>10
<1>11. CASE \E j \in Jobs, now \in Readings : RequestCancellation(j, now)
  BY <1>4, <1>11
<1> QED
  BY <1>1, <1>6, <1>7, <1>8, <1>9, <1>10, <1>11 DEF Next

\* The append-only events of a job are a complete account of its row: they
\* chain from its creation to its state, one for every revision, and as many
\* of them are claims as the job had attempts.
THEOREM EventsAreComplete == Spec => []EventsExplainRow
<1>1. Init => EventsExplainRow
  BY DEF Init, EventsExplainRow
<1>2. TypeOK /\ EventsExplainRow /\ [Next]_vars => EventsExplainRow'
  BY StepExplains
<1> QED
  BY <1>1, <1>2, TypeCorrect, PTL DEF Spec
-----------------------------------------------------------------------------
(* The lifecycle that the table implements.                                *)

\* A job that nobody runs has no owner and no cancellation waiting for one.
RestInv ==
    \A j \in Jobs :
        /\ job[j].state = "ABSENT" => job[j].attempt = 0
        /\ job[j].state \in {"ABSENT", "QUEUED"} => job[j].owner = None /\ ~job[j].cancel

\* An outcome that a row ascribes to a worker was told to that worker when it
\* was written, so that telling it again is nothing new.
AscribedInv ==
    \A j \in Jobs, w \in Workers :
        /\ job[j].last = w
        /\ \/ job[j].state = "SUCCEEDED"
           \/ job[j].state \in {"QUEUED", "FAILED"} /\ job[j].failure \in FailureCodes
        => <<w, j, job[j].state>> \in told

RefinementInv == RestInv /\ AscribedInv
-----------------------------------------------------------------------------
\* A function that differs from another in one place is its update there.
LEMMA Updated ==
    ASSUME NEW S, NEW f, NEW g, f = [k \in S |-> f[k]], g = [k \in S |-> g[k]],
           NEW j \in S, NEW x, \A k \in S : g[k] = IF k = j THEN x ELSE f[k]
    PROVE  g = [f EXCEPT ![j] = x]
<1>1. [f EXCEPT ![j] = x] = [k \in S |-> IF k = j THEN x ELSE f[k]]
  OBVIOUS
<1> QED
  BY <1>1

\* Writing one row changes one entry of everything the lifecycle sees.
LEMMA OneRow ==
    ASSUME TypeOK, NEW j \in Jobs, NEW row \in Row, job' = [job EXCEPT ![j] = row]
    PROVE  /\ \A k \in Jobs : job'[k] = IF k = j THEN row ELSE job[k]
           /\ [k \in Jobs |-> job'[k].state]
                 = [[k \in Jobs |-> job[k].state] EXCEPT ![j] = row.state]
           /\ [k \in Jobs |-> job'[k].attempt]
                 = [[k \in Jobs |-> job[k].attempt] EXCEPT ![j] = row.attempt]
           /\ [k \in Jobs |-> job'[k].owner]
                 = [[k \in Jobs |-> job[k].owner] EXCEPT ![j] = row.owner]
           /\ [k \in Jobs |-> job'[k].cancel]
                 = [[k \in Jobs |-> job[k].cancel] EXCEPT ![j] = row.cancel]
<1>1. \A k \in Jobs : job'[k] = IF k = j THEN row ELSE job[k]
  BY DEF TypeOK
<1>2. [k \in Jobs |-> job'[k].state] = [[k \in Jobs |-> job[k].state] EXCEPT ![j] = row.state]
  <2> DEFINE f == [k \in Jobs |-> job[k].state]
             g == [k \in Jobs |-> job'[k].state]
  <2>1. f = [k \in Jobs |-> f[k]] /\ g = [k \in Jobs |-> g[k]]
    OBVIOUS
  <2>2. \A k \in Jobs : g[k] = IF k = j THEN row.state ELSE f[k]
    BY <1>1
  <2> HIDE DEF f, g
  <2>3. g = [f EXCEPT ![j] = row.state]
    BY <2>1, <2>2, Updated
  <2> QED
    BY <2>3 DEF f, g
<1>3. [k \in Jobs |-> job'[k].attempt] = [[k \in Jobs |-> job[k].attempt] EXCEPT ![j] = row.attempt]
  <2> DEFINE f == [k \in Jobs |-> job[k].attempt]
             g == [k \in Jobs |-> job'[k].attempt]
  <2>1. f = [k \in Jobs |-> f[k]] /\ g = [k \in Jobs |-> g[k]]
    OBVIOUS
  <2>2. \A k \in Jobs : g[k] = IF k = j THEN row.attempt ELSE f[k]
    BY <1>1
  <2> HIDE DEF f, g
  <2>3. g = [f EXCEPT ![j] = row.attempt]
    BY <2>1, <2>2, Updated
  <2> QED
    BY <2>3 DEF f, g
<1>4. [k \in Jobs |-> job'[k].owner] = [[k \in Jobs |-> job[k].owner] EXCEPT ![j] = row.owner]
  <2> DEFINE f == [k \in Jobs |-> job[k].owner]
             g == [k \in Jobs |-> job'[k].owner]
  <2>1. f = [k \in Jobs |-> f[k]] /\ g = [k \in Jobs |-> g[k]]
    OBVIOUS
  <2>2. \A k \in Jobs : g[k] = IF k = j THEN row.owner ELSE f[k]
    BY <1>1
  <2> HIDE DEF f, g
  <2>3. g = [f EXCEPT ![j] = row.owner]
    BY <2>1, <2>2, Updated
  <2> QED
    BY <2>3 DEF f, g
<1>5. [k \in Jobs |-> job'[k].cancel] = [[k \in Jobs |-> job[k].cancel] EXCEPT ![j] = row.cancel]
  <2> DEFINE f == [k \in Jobs |-> job[k].cancel]
             g == [k \in Jobs |-> job'[k].cancel]
  <2>1. f = [k \in Jobs |-> f[k]] /\ g = [k \in Jobs |-> g[k]]
    OBVIOUS
  <2>2. \A k \in Jobs : g[k] = IF k = j THEN row.cancel ELSE f[k]
    BY <1>1
  <2> HIDE DEF f, g
  <2>3. g = [f EXCEPT ![j] = row.cancel]
    BY <2>1, <2>2, Updated
  <2> QED
    BY <2>3 DEF f, g
<1> QED
  BY <1>1, <1>2, <1>3, <1>4, <1>5

\* What is told to the client is no report.
LEMMA ToldToClient ==
    ASSUME NEW j \in Jobs, NEW answer, Tell(Client, j, answer)
    PROVE  {t \in told' : t[1] # Client} = {t \in told : t[1] # Client}
  BY DEF Tell

\* What is told to a worker is a report.
LEMMA ToldToWorker ==
    ASSUME NEW w \in Workers, NEW j \in Jobs, NEW answer, Tell(w, j, answer)
    PROVE  {t \in told' : t[1] # Client}
              = {t \in told : t[1] # Client} \union {<<w, j, answer>>}
  BY DEF Tell

\* A worker's report is the report of the holder.
LEMMA ReportRefines ==
    ASSUME TypeOK, RefinementInv, NEW w \in Workers, NEW j \in Jobs, NEW row \in Row,
           NEW type, NEW now, job[j].state = "RUNNING", job[j].owner = w,
           row.owner = None, ~row.cancel, row.attempt = job[j].attempt, row.last = w,
           row.state \in {"SUCCEEDED", "FAILED", "CANCELLED", "QUEUED"},
           row.state \in Lifecycle!Reportable(j),
           Report(w, j, row, type, now)
    PROVE  Lifecycle!Next /\ RefinementInv'
<1>1. job' = [job EXCEPT ![j] = row] /\ Tell(w, j, row.state)
  BY DEF Report, Write
<1>2. /\ \A k \in Jobs : job'[k] = IF k = j THEN row ELSE job[k]
      /\ [k \in Jobs |-> job'[k].state]
            = [[k \in Jobs |-> job[k].state] EXCEPT ![j] = row.state]
      /\ [k \in Jobs |-> job'[k].attempt]
            = [[k \in Jobs |-> job[k].attempt] EXCEPT ![j] = row.attempt]
      /\ [k \in Jobs |-> job'[k].owner]
            = [[k \in Jobs |-> job[k].owner] EXCEPT ![j] = row.owner]
      /\ [k \in Jobs |-> job'[k].cancel]
            = [[k \in Jobs |-> job[k].cancel] EXCEPT ![j] = row.cancel]
  BY <1>1, OneRow
<1>3. Lifecycle!Report(j, w, row.state)
  <2>1. row.cancel = FALSE
    BY DEF Row
  <2>2. [k \in Jobs |-> job'[k].attempt] = [k \in Jobs |-> job[k].attempt]
    BY <1>2
  <2>3. [k \in Jobs |-> job[k].state][j] = "RUNNING" /\ [k \in Jobs |-> job[k].owner][j] = w
    OBVIOUS
  <2>4. /\ [k \in Jobs |-> job'[k].state]
              = [[k \in Jobs |-> job[k].state] EXCEPT ![j] = row.state]
        /\ [k \in Jobs |-> job'[k].owner]
              = [[k \in Jobs |-> job[k].owner] EXCEPT ![j] = None]
        /\ [k \in Jobs |-> job'[k].cancel]
              = [[k \in Jobs |-> job[k].cancel] EXCEPT ![j] = FALSE]
    BY <1>2, <2>1
  <2>5. {t \in told' : t[1] # Client}
           = {t \in told : t[1] # Client} \union {<<w, j, row.state>>}
    BY <1>1, ToldToWorker
  <2>6. UNCHANGED [k \in Jobs |-> job[k].attempt]
    BY <2>2
  <2> QED
    BY <2>3, <2>4, <2>5, <2>6 DEF Lifecycle!Report
<1>4. Lifecycle!Next
  BY <1>3 DEF Lifecycle!Next
<1>5. RestInv'
  BY <1>2 DEF RefinementInv, RestInv
<1>6. AscribedInv'
  BY <1>1, <1>2 DEF RefinementInv, AscribedInv, Tell
<1> QED
  BY <1>4, <1>5, <1>6 DEF RefinementInv

\* A repeated report says nothing new, or is the news of a cancellation.
LEMMA ReplayRefines ==
    ASSUME TypeOK, RefinementInv, NEW w \in Workers, NEW j \in Jobs,
           NEW states, ReplayReport(w, j, states),
           \/ job[j].state \in {"SUCCEEDED", "CANCELLED"}
           \/ job[j].state \in {"QUEUED", "FAILED"} /\ job[j].failure \in FailureCodes
    PROVE  [Lifecycle!Next]_(Lifecycle!vars) /\ RefinementInv'
<1>1. job' = job /\ Tell(w, j, job[j].state) /\ job[j].last = w
  BY DEF ReplayReport
<1>2. RefinementInv'
  BY <1>1 DEF RefinementInv, RestInv, AscribedInv, Tell
<1>3. CASE job[j].state = "CANCELLED"
  <2>1. Lifecycle!HearCancelled(j, w)
    BY <1>1, <1>3, ToldToWorker DEF Lifecycle!HearCancelled
  <2> QED
    BY <1>2, <2>1 DEF Lifecycle!Next
<1>4. CASE job[j].state # "CANCELLED"
  <2>1. <<w, j, job[j].state>> \in told
    BY <1>1, <1>4 DEF RefinementInv, AscribedInv
  <2>2. told' = told
    BY <1>1, <2>1 DEF Tell
  <2> QED
    BY <1>1, <1>2, <2>2 DEF Lifecycle!vars
<1> QED
  BY <1>3, <1>4

\* A step that writes no row and tells no worker anything is invisible.
LEMMA Invisible ==
    ASSUME RefinementInv, job' = job,
           {t \in told' : t[1] # Client} = {t \in told : t[1] # Client}
    PROVE  [Lifecycle!Next]_(Lifecycle!vars) /\ RefinementInv'
<1>1. \A w \in Workers, j \in Jobs : \A answer :
         <<w, j, answer>> \in told => <<w, j, answer>> \in told'
  <2> SUFFICES ASSUME NEW w \in Workers, NEW j \in Jobs, NEW answer, <<w, j, answer>> \in told
               PROVE  <<w, j, answer>> \in told'
    OBVIOUS
  <2>1. <<w, j, answer>> \in {t \in told : t[1] # Client}
    OBVIOUS
  <2> QED
    BY <2>1
<1>2. RefinementInv'
  BY <1>1 DEF RefinementInv, RestInv, AscribedInv
<1> QED
  BY <1>2 DEF Lifecycle!vars

\* A claim is a start.
LEMMA ClaimRefines ==
    ASSUME IInv, RefinementInv, NEW w \in Workers, NEW pool \in Pools, NEW now \in Readings,
           NEW n \in LeaseLengths, ClaimJob(w, pool, now, n)
    PROVE  Lifecycle!Next /\ RefinementInv'
<1> USE DEF IInv
<1>1. PICK j \in Jobs : /\ job[j].state = "QUEUED"
                        /\ Write(j, Claimed(j, w, now, n), "CLAIMED", now, w)
  BY DEF ClaimJob
<1> DEFINE row == Claimed(j, w, now, n)
<1>2. /\ row \in Row /\ row.state = "RUNNING" /\ row.attempt = job[j].attempt + 1
      /\ row.owner = w /\ (row.cancel <=> job[j].cancel)
  BY ReadingsAreTimes, ClaimedRow
<1>3. job' = [job EXCEPT ![j] = row] /\ told' = told
  BY <1>1 DEF Write, ClaimJob
<1> HIDE DEF row
<1>4. /\ \A k \in Jobs : job'[k] = IF k = j THEN row ELSE job[k]
      /\ [k \in Jobs |-> job'[k].state]
            = [[k \in Jobs |-> job[k].state] EXCEPT ![j] = row.state]
      /\ [k \in Jobs |-> job'[k].attempt]
            = [[k \in Jobs |-> job[k].attempt] EXCEPT ![j] = row.attempt]
      /\ [k \in Jobs |-> job'[k].owner]
            = [[k \in Jobs |-> job[k].owner] EXCEPT ![j] = row.owner]
      /\ [k \in Jobs |-> job'[k].cancel]
            = [[k \in Jobs |-> job[k].cancel] EXCEPT ![j] = row.cancel]
  BY <1>2, <1>3, OneRow
<1>5. row.cancel = job[j].cancel
  BY <1>2, RowsAreTyped DEF Row
<1>6. Lifecycle!Start(j, w)
  <2>1. [k \in Jobs |-> job'[k].cancel] = [k \in Jobs |-> job[k].cancel]
    BY <1>4, <1>5
  <2>2. job[j].attempt < MaxAttempts
    BY <1>1 DEF AttemptBudget
  <2>3. /\ [k \in Jobs |-> job[k].state][j] = "QUEUED"
        /\ [k \in Jobs |-> job[k].attempt][j] = job[j].attempt
    BY <1>1
  <2>4. /\ [k \in Jobs |-> job'[k].state]
              = [[k \in Jobs |-> job[k].state] EXCEPT ![j] = "RUNNING"]
        /\ [k \in Jobs |-> job'[k].attempt]
              = [[k \in Jobs |-> job[k].attempt] EXCEPT ![j] = job[j].attempt + 1]
        /\ [k \in Jobs |-> job'[k].owner]
              = [[k \in Jobs |-> job[k].owner] EXCEPT ![j] = w]
    BY <1>2, <1>4
  <2>5. [k \in Jobs |-> job'[k].attempt]
           = [[k \in Jobs |-> job[k].attempt] EXCEPT
                 ![j] = [k \in Jobs |-> job[k].attempt][j] + 1]
    BY <2>3, <2>4
  <2>6. [k \in Jobs |-> job[k].attempt][j] < MaxAttempts
    BY <2>2, <2>3
  <2>7. UNCHANGED <<[k \in Jobs |-> job[k].cancel], {t \in told : t[1] # Client}>>
    BY <1>3, <2>1
  <2> QED
    BY <2>3, <2>4, <2>5, <2>6, <2>7 DEF Lifecycle!Start
<1>7. RefinementInv'
  BY <1>2, <1>3, <1>4 DEF RefinementInv, RestInv, AscribedInv
<1> QED
  BY <1>6, <1>7 DEF Lifecycle!Next

\* A new job is submitted.
LEMMA CreateRefines ==
    ASSUME IInv, RefinementInv, NEW j \in Jobs, NEW now \in Readings, NEW d \in Delays,
           CreateJob(j, now, d)
    PROVE  Lifecycle!Next /\ RefinementInv'
<1> DEFINE due == now + d
           row == [NoRow EXCEPT !.state = "QUEUED", !.available = due,
                                !.created = now, !.updated = now]
<1>1. /\ job' = [job EXCEPT ![j] = row] /\ told' = told /\ job[j].state = "ABSENT"
      /\ TypeOK /\ now \in Nat /\ due \in Nat
  BY ReadingsAreTimes DEF CreateJob, Write, IInv
<1> HIDE DEF due
<1>2. /\ row.state = "QUEUED" /\ row.attempt = 0 /\ row.owner = None /\ row.cancel = FALSE
      /\ row.last = None
  BY DEF NoRow
<1> HIDE DEF row
<1>3. \A k \in Jobs : job'[k] = IF k = j THEN row ELSE job[k]
  BY <1>1 DEF TypeOK
<1>4. job[j].attempt = 0 /\ job[j].owner = None /\ job[j].cancel = FALSE
  BY <1>1, RowsAreTyped DEF RefinementInv, RestInv, Row
<1>5. Lifecycle!Submit({j})
  <2>1. \A k \in {j} : [m \in Jobs |-> job[m].state][k] = "ABSENT"
    BY <1>1
  <2>2. [k \in Jobs |-> job'[k].state]
           = [k \in Jobs |-> IF k \in {j} THEN "QUEUED" ELSE [m \in Jobs |-> job[m].state][k]]
    BY <1>2, <1>3
  <2>3. UNCHANGED [k \in Jobs |-> job[k].attempt]
    BY <1>2, <1>3, <1>4
  <2>4. UNCHANGED [k \in Jobs |-> job[k].owner]
    BY <1>2, <1>3, <1>4
  <2>5. UNCHANGED [k \in Jobs |-> job[k].cancel]
    BY <1>2, <1>3, <1>4
  <2>6. UNCHANGED {t \in told : t[1] # Client}
    BY <1>1
  <2> QED
    BY <2>1, <2>2, <2>3, <2>4, <2>5, <2>6 DEF Lifecycle!Submit
<1>6. Lifecycle!Next
  <2>1. {j} \in SUBSET Jobs
    OBVIOUS
  <2> QED
    BY <1>5, <2>1 DEF Lifecycle!Next
<1>7. RefinementInv'
  BY <1>1, <1>2, <1>3 DEF RefinementInv, RestInv, AscribedInv
<1> QED
  BY <1>6, <1>7

\* A cancellation request is one, immediate or waiting for the holder.
LEMMA CancelRefines ==
    ASSUME IInv, RefinementInv, NEW j \in Jobs, NEW now \in Readings,
           RequestCancellation(j, now)
    PROVE  Lifecycle!Next /\ RefinementInv'
<1>1. TypeOK /\ now \in Nat /\ told' = told
  BY ReadingsAreTimes DEF RequestCancellation, IInv
<1>2. CASE /\ job[j].state = "QUEUED"
           /\ Write(j, Released(j, "CANCELLED", None, None, now), "CANCELLED", now, None)
  <2> DEFINE row == Released(j, "CANCELLED", None, None, now)
  <2>1. job' = [job EXCEPT ![j] = row]
    BY <1>2 DEF Write
  <2>2. /\ row \in Row /\ row.state = "CANCELLED" /\ row.attempt = job[j].attempt
        /\ row.owner = None /\ ~row.cancel /\ row.last = None
    <3>1. "CANCELLED" \in Live \union Terminal
      BY DEF Terminal
    <3> QED
      BY <1>1, <3>1, ReleasedRow
  <2> HIDE DEF row
  <2>3. /\ \A k \in Jobs : job'[k] = IF k = j THEN row ELSE job[k]
        /\ [k \in Jobs |-> job'[k].state]
              = [[k \in Jobs |-> job[k].state] EXCEPT ![j] = row.state]
    BY <1>1, <2>1, <2>2, OneRow
  <2>4. /\ job[j].owner = None /\ job[j].cancel = FALSE /\ row.cancel = FALSE
    BY <1>1, <1>2, <2>2, RowsAreTyped DEF RefinementInv, RestInv, Row
  <2>5. Lifecycle!AskCancel(j)
    <3>1. [k \in Jobs |-> job[k].state][j] = "QUEUED"
      BY <1>2
    <3>2. [k \in Jobs |-> job'[k].state]
             = [[k \in Jobs |-> job[k].state] EXCEPT ![j] = "CANCELLED"]
      BY <2>2, <2>3
    <3>3. UNCHANGED [k \in Jobs |-> job[k].attempt]
      BY <2>2, <2>3
    <3>4. UNCHANGED [k \in Jobs |-> job[k].owner]
      BY <2>2, <2>3, <2>4
    <3>5. UNCHANGED [k \in Jobs |-> job[k].cancel]
      BY <2>2, <2>3, <2>4
    <3>6. UNCHANGED {t \in told : t[1] # Client}
      BY <1>1
    <3> QED
      BY <3>1, <3>2, <3>3, <3>4, <3>5, <3>6 DEF Lifecycle!AskCancel
  <2>6. RefinementInv'
    BY <1>1, <2>2, <2>3 DEF RefinementInv, RestInv, AscribedInv
  <2> QED
    BY <2>5, <2>6 DEF Lifecycle!Next
<1>3. CASE /\ job[j].state = "RUNNING" /\ ~job[j].cancel
           /\ Write(j, Cancelling(j, now), "CANCEL_REQUESTED", now, job[j].owner)
  <2> DEFINE row == Cancelling(j, now)
  <2>1. job' = [job EXCEPT ![j] = row]
    BY <1>3 DEF Write
  <2>2. /\ row \in Row /\ row.state = "RUNNING" /\ row.attempt = job[j].attempt
        /\ row.owner = job[j].owner /\ row.cancel
    BY <1>1, <1>3, CancellingRow
  <2> HIDE DEF row
  <2>3. /\ \A k \in Jobs : job'[k] = IF k = j THEN row ELSE job[k]
        /\ [k \in Jobs |-> job'[k].cancel]
              = [[k \in Jobs |-> job[k].cancel] EXCEPT ![j] = row.cancel]
    BY <1>1, <2>1, <2>2, OneRow
  <2>4. row.cancel = TRUE
    BY <2>2 DEF Row
  <2>5. Lifecycle!AskCancel(j)
    <3>1. /\ [k \in Jobs |-> job[k].state][j] = "RUNNING"
          /\ ~[k \in Jobs |-> job[k].cancel][j]
      BY <1>3
    <3>2. [k \in Jobs |-> job'[k].cancel] = [[k \in Jobs |-> job[k].cancel] EXCEPT ![j] = TRUE]
      BY <2>3, <2>4
    <3>3. UNCHANGED [k \in Jobs |-> job[k].state]
      BY <1>3, <2>2, <2>3
    <3>4. UNCHANGED [k \in Jobs |-> job[k].attempt]
      BY <2>2, <2>3
    <3>5. UNCHANGED [k \in Jobs |-> job[k].owner]
      BY <2>2, <2>3
    <3>6. UNCHANGED {t \in told : t[1] # Client}
      BY <1>1
    <3> QED
      BY <3>1, <3>2, <3>3, <3>4, <3>5, <3>6 DEF Lifecycle!AskCancel
  <2>6. RefinementInv'
    BY <1>1, <2>2, <2>3 DEF RefinementInv, RestInv, AscribedInv
  <2> QED
    BY <2>5, <2>6 DEF Lifecycle!Next
<1> QED
  BY <1>2, <1>3 DEF RequestCancellation

\* Recovery gives up on the holders of all the leases that are over.
LEMMA RecoverRefines ==
    ASSUME IInv, RefinementInv, NEW now \in Readings, RecoverExpired(now)
    PROVE  Lifecycle!Next /\ RefinementInv'
<1>0. PICK lost \in SUBSET Jobs : lost = Expired(now)
  BY DEF Expired
<1>1. /\ TypeOK /\ now \in Nat /\ told' = told /\ lost # {}
      /\ \A k \in Jobs : job'[k] = IF k \in lost THEN Recovered(k, now) ELSE job[k]
  BY <1>0, ReadingsAreTimes DEF RecoverExpired, IInv
<1>2. \A k \in lost : k \in Jobs /\ job[k].state = "RUNNING"
  BY <1>0 DEF Expired
<1>3. ASSUME NEW k \in lost
      PROVE  /\ job'[k].attempt = job[k].attempt /\ job'[k].owner = None
             /\ job'[k].cancel = FALSE /\ job'[k].failure \notin FailureCodes
             /\ job'[k].state = IF job[k].cancel THEN "CANCELLED"
                                ELSE IF job[k].attempt < MaxAttempts THEN "QUEUED" ELSE "FAILED"
  <2>1. k \in Jobs /\ job'[k] = Recovered(k, now)
    BY <1>1, <1>2
  <2>2. Recovered(k, now) \in Row
    BY <1>1, <2>1, RecoveredRow
  <2>3. Recovered(k, now).cancel = FALSE
    <3>1. ~Recovered(k, now).cancel
      BY <1>1, <2>1, RecoveredRow
    <3> QED
      BY <2>2, <3>1 DEF Row
  <2> QED
    BY <1>1, <2>1, <2>3, RecoveredRow
<1>4. Lifecycle!Lose(lost)
  <2>1. \A k \in lost : [m \in Jobs |-> job[m].state][k] = "RUNNING"
    BY <1>2
  <2>2. [k \in Jobs |-> job'[k].state]
           = [k \in Jobs |-> IF k \notin lost THEN [m \in Jobs |-> job[m].state][k]
                             ELSE IF [m \in Jobs |-> job[m].cancel][k] THEN "CANCELLED"
                             ELSE IF [m \in Jobs |-> job[m].attempt][k] < MaxAttempts
                                  THEN "QUEUED" ELSE "FAILED"]
    BY <1>1, <1>3
  <2>3. [k \in Jobs |-> job'[k].owner]
           = [k \in Jobs |-> IF k \in lost THEN None ELSE [m \in Jobs |-> job[m].owner][k]]
    BY <1>1, <1>3
  <2>4. [k \in Jobs |-> job'[k].cancel]
           = [k \in Jobs |-> k \notin lost /\ [m \in Jobs |-> job[m].cancel][k]]
    <3>1. \A k \in Jobs : job'[k].cancel = (k \notin lost /\ [m \in Jobs |-> job[m].cancel][k])
      BY <1>1, <1>3, RowsAreTyped DEF Row
    <3> QED
      BY <3>1
  <2>5. UNCHANGED [k \in Jobs |-> job[k].attempt]
    BY <1>1, <1>3
  <2>6. UNCHANGED {t \in told : t[1] # Client}
    BY <1>1
  <2> QED
    BY <1>1, <2>1, <2>2, <2>3, <2>4, <2>5, <2>6 DEF Lifecycle!Lose
<1>5. Lifecycle!Next
  BY <1>4 DEF Lifecycle!Next
<1>6. RestInv'
  BY <1>1, <1>3 DEF RefinementInv, RestInv
<1>7. AscribedInv'
  BY <1>1, <1>3 DEF RefinementInv, AscribedInv
<1> QED
  BY <1>5, <1>6, <1>7 DEF RefinementInv

\* A renewal is invisible: who runs the job does not change.
LEMMA RenewRefines ==
    ASSUME IInv, RefinementInv, NEW w \in Workers, NEW j \in Jobs, NEW r, NEW now \in Nat,
           NEW n \in LeaseLengths, RenewJob(w, j, r, now, n)
    PROVE  [Lifecycle!Next]_(Lifecycle!vars) /\ RefinementInv'
<1> DEFINE row == Renewed(j, now, n)
<1>1. /\ TypeOK /\ job' = [job EXCEPT ![j] = row] /\ told' = told
      /\ job[j].state = "RUNNING"
  BY DEF RenewJob, Write, ActiveLease, HoldsLease, IInv
<1>2. /\ row \in Row /\ row.state = job[j].state /\ row.attempt = job[j].attempt
      /\ row.owner = job[j].owner /\ (row.cancel <=> job[j].cancel)
  BY <1>1, RenewedRow
<1> HIDE DEF row
<1>3. \A k \in Jobs : job'[k] = IF k = j THEN row ELSE job[k]
  BY <1>1 DEF TypeOK
<1>4. row.cancel = job[j].cancel
  <2>1. row.cancel \in BOOLEAN /\ job[j].cancel \in BOOLEAN
    BY <1>1, <1>2, RowsAreTyped DEF Row
  <2> QED
    BY <1>2, <2>1
<1>5. UNCHANGED Lifecycle!vars
  <2>1. UNCHANGED [k \in Jobs |-> job[k].state]
    BY <1>2, <1>3
  <2>2. UNCHANGED [k \in Jobs |-> job[k].attempt]
    BY <1>2, <1>3
  <2>3. UNCHANGED [k \in Jobs |-> job[k].owner]
    BY <1>2, <1>3
  <2>4. UNCHANGED [k \in Jobs |-> job[k].cancel]
    BY <1>3, <1>4
  <2>5. UNCHANGED {t \in told : t[1] # Client}
    BY <1>1
  <2> QED
    BY <2>1, <2>2, <2>3, <2>4, <2>5 DEF Lifecycle!vars
<1>6. RefinementInv'
  BY <1>1, <1>2, <1>3 DEF RefinementInv, RestInv, AscribedInv
<1> QED
  BY <1>5, <1>6
-----------------------------------------------------------------------------
\* Every call of a worker is a report, the repetition of one, or invisible.
LEMMA WorkerCallRefines ==
    ASSUME IInv, RefinementInv, NEW w \in Workers, NEW j \in Jobs, NEW now \in Readings,
           NEW r, WorkerCall(w, j, r, now)
    PROVE  [Lifecycle!Next]_(Lifecycle!vars) /\ RefinementInv'
<1>1. TypeOK /\ now \in Nat
  BY ReadingsAreTimes DEF IInv
<1>2. /\ Lifecycle!Reportable(j)
            = IF job[j].cancel THEN {"CANCELLED"}
              ELSE {"SUCCEEDED", "FAILED"}
                   \union (IF job[j].attempt < MaxAttempts THEN {"QUEUED"} ELSE {})
  BY DEF Lifecycle!Reportable
<1>3. CASE CompleteJob(w, j, r, now)
  <2>1. CASE ReplayReport(w, j, {"SUCCEEDED"})
    <3>1. job[j].state = "SUCCEEDED"
      BY <2>1 DEF ReplayReport
    <3> QED
      BY <1>1, <2>1, <3>1, ReplayRefines
  <2>2. CASE /\ ActiveLease(w, j, r, now)
             /\ Report(w, j, Released(j, "SUCCEEDED", w, None, now), "COMPLETED", now)
    <3> DEFINE row == Released(j, "SUCCEEDED", w, None, now)
    <3>1. "SUCCEEDED" \in Live \union Terminal
      BY DEF Terminal
    <3>2. /\ row \in Row /\ row.state = "SUCCEEDED" /\ row.attempt = job[j].attempt
          /\ row.owner = None /\ ~row.cancel /\ row.last = w
      BY <1>1, <3>1, ReleasedRow
    <3>3. /\ job[j].state = "RUNNING" /\ job[j].owner = w
          /\ row.state \in Lifecycle!Reportable(j)
      BY <1>2, <2>2, <3>2 DEF ActiveLease, HoldsLease
    <3> HIDE DEF row
    <3>4. Report(w, j, row, "COMPLETED", now)
      BY <2>2 DEF row
    <3> QED
      BY <1>1, <3>2, <3>3, <3>4, ReportRefines
  <2> QED
    BY <1>3, <2>1, <2>2 DEF CompleteJob
<1>4. CASE AcknowledgeCancellation(w, j, r, now)
  <2>1. CASE ReplayReport(w, j, {"CANCELLED"})
    <3>1. job[j].state = "CANCELLED"
      BY <2>1 DEF ReplayReport
    <3> QED
      BY <1>1, <2>1, <3>1, ReplayRefines
  <2>2. CASE /\ HoldsLease(w, j, now) /\ job[j].cancel
             /\ Report(w, j, Released(j, "CANCELLED", w, None, now), "CANCELLED", now)
    <3> DEFINE row == Released(j, "CANCELLED", w, None, now)
    <3>1. "CANCELLED" \in Live \union Terminal
      BY DEF Terminal
    <3>2. /\ row \in Row /\ row.state = "CANCELLED" /\ row.attempt = job[j].attempt
          /\ row.owner = None /\ ~row.cancel /\ row.last = w
      BY <1>1, <3>1, ReleasedRow
    <3>3. /\ job[j].state = "RUNNING" /\ job[j].owner = w
          /\ row.state \in Lifecycle!Reportable(j)
      BY <1>2, <2>2, <3>2 DEF HoldsLease
    <3> HIDE DEF row
    <3>4. Report(w, j, row, "CANCELLED", now)
      BY <2>2 DEF row
    <3> QED
      BY <1>1, <3>2, <3>3, <3>4, ReportRefines
  <2> QED
    BY <1>4, <2>1, <2>2 DEF AcknowledgeCancellation
<1>5. ASSUME NEW retryable \in BOOLEAN, NEW d \in Nat, NEW code \in FailureCodes,
             FailJob(w, j, r, now, retryable, d, code)
      PROVE  [Lifecycle!Next]_(Lifecycle!vars) /\ RefinementInv'
  <2>1. CASE job[j].failure = code /\ ReplayReport(w, j, {"QUEUED", "FAILED"})
    <3>1. job[j].state \in {"QUEUED", "FAILED"} /\ job[j].failure \in FailureCodes
      BY <2>1 DEF ReplayReport
    <3> QED
      BY <1>1, <2>1, <3>1, ReplayRefines
  <2>2. CASE /\ ActiveLease(w, j, r, now) /\ job[j].attempt < MaxAttempts
             /\ Report(w, j, Requeued(j, w, code, now, d), "RETRY_QUEUED", now)
    <3> DEFINE row == Requeued(j, w, code, now, d)
    <3>1. /\ row \in Row /\ row.state = "QUEUED" /\ row.attempt = job[j].attempt
          /\ row.owner = None /\ ~row.cancel /\ row.last = w
      BY <1>1, RequeuedRow
    <3>2. /\ job[j].state = "RUNNING" /\ job[j].owner = w
          /\ row.state \in Lifecycle!Reportable(j)
      BY <1>2, <2>2, <3>1 DEF ActiveLease, HoldsLease
    <3> HIDE DEF row
    <3>3. Report(w, j, row, "RETRY_QUEUED", now)
      BY <2>2 DEF row
    <3> QED
      BY <1>1, <3>1, <3>2, <3>3, ReportRefines
  <2>3. CASE /\ ActiveLease(w, j, r, now)
             /\ Report(w, j, Released(j, "FAILED", w, code, now), "FAILED", now)
    <3> DEFINE row == Released(j, "FAILED", w, code, now)
    <3>1. "FAILED" \in Live \union Terminal
      BY DEF Terminal
    <3>2. /\ row \in Row /\ row.state = "FAILED" /\ row.attempt = job[j].attempt
          /\ row.owner = None /\ ~row.cancel /\ row.last = w
      BY <1>1, <3>1, ReleasedRow
    <3>3. /\ job[j].state = "RUNNING" /\ job[j].owner = w
          /\ row.state \in Lifecycle!Reportable(j)
      BY <1>2, <2>3, <3>2 DEF ActiveLease, HoldsLease
    <3> HIDE DEF row
    <3>4. Report(w, j, row, "FAILED", now)
      BY <2>3 DEF row
    <3> QED
      BY <1>1, <3>2, <3>3, <3>4, ReportRefines
  <2> QED
    BY <1>5, <2>1, <2>2, <2>3 DEF FailJob
<1>6. ASSUME NEW n \in LeaseLengths, RenewJob(w, j, r, now, n)
      PROVE  [Lifecycle!Next]_(Lifecycle!vars) /\ RefinementInv'
  BY <1>1, <1>6, RenewRefines
<1>7. ASSUME NEW n \in LeaseLengths, ReplayRenewal(w, j, r, now, n)
      PROVE  [Lifecycle!Next]_(Lifecycle!vars) /\ RefinementInv'
  <2>1. job' = job /\ {t \in told' : t[1] # Client} = {t \in told : t[1] # Client}
    BY <1>7 DEF ReplayRenewal
  <2> QED
    BY <2>1, Invisible
<1> QED
  <2>1. CASE \E code \in FailureCodes :
                \/ FailJob(w, j, r, now, FALSE, 0, code)
                \/ \E d \in Delays : FailJob(w, j, r, now, TRUE, d, code)
    BY <1>5, <2>1
  <2> QED
    BY <1>3, <1>4, <1>6, <1>7, <2>1 DEF WorkerCall

\* Every step of the table is a step of the lifecycle or invisible to it.
LEMMA StepRefines ==
    ASSUME IInv, RefinementInv, [Next]_vars
    PROVE  [Lifecycle!Next]_(Lifecycle!vars) /\ RefinementInv'
<1>1. ASSUME NEW w \in Workers, NEW j \in Jobs, NEW now \in Readings,
             NEW r \in 1..held[w][j].rev, WorkerCall(w, j, r, now)
      PROVE  [Lifecycle!Next]_(Lifecycle!vars) /\ RefinementInv'
  BY <1>1, WorkerCallRefines
<1>2. ASSUME NEW j \in Jobs, RepeatCreate(j)
      PROVE  [Lifecycle!Next]_(Lifecycle!vars) /\ RefinementInv'
  <2>1. job' = job /\ \E answer : Tell(Client, j, answer)
    BY <1>2 DEF RepeatCreate
  <2> QED
    BY <2>1, ToldToClient, Invisible
<1>3. CASE UNCHANGED <<job, told>>
  BY <1>3, Invisible
<1>4. ASSUME NEW w \in Workers, NEW pool \in Pools, NEW now \in Readings,
             ReplayClaim(w, pool, now)
      PROVE  UNCHANGED <<job, told>>
  BY <1>4 DEF ReplayClaim
<1>5. ASSUME NEW w \in Workers, NEW j \in Jobs, Refresh(w, j) PROVE UNCHANGED <<job, told>>
  BY <1>5 DEF Refresh
<1>6. Tick => UNCHANGED <<job, told>>
  BY DEF Tick
<1>7. UNCHANGED vars => UNCHANGED <<job, told>>
  BY DEF vars
<1>8. CASE ClaimSome
  BY <1>8, ClaimRefines DEF ClaimSome
<1>9. CASE RecoverSome
  BY <1>9, RecoverRefines DEF RecoverSome
<1>10. CASE \E j \in Jobs, now \in Readings, d \in Delays : CreateJob(j, now, d)
  BY <1>10, CreateRefines
<1>11. CASE \E j \in Jobs, now \in Readings : RequestCancellation(j, now)
  BY <1>11, CancelRefines
<1>12. CASE \E w \in Workers, j \in Jobs, now \in Readings :
               \E r \in 1..held[w][j].rev : WorkerCall(w, j, r, now)
  BY <1>1, <1>12
<1> QED
  BY <1>2, <1>3, <1>4, <1>5, <1>6, <1>7, <1>8, <1>9, <1>10, <1>11, <1>12 DEF Next

\* The empty table is a lifecycle in which nothing was submitted.
LEMMA InitRefines == Init => Lifecycle!Init /\ RefinementInv
<1> SUFFICES ASSUME Init PROVE Lifecycle!Init /\ RefinementInv
  OBVIOUS
<1>1. \A j \in Jobs : job[j] = NoRow
  BY DEF Init
<1>2. /\ NoRow.state = "ABSENT" /\ NoRow.attempt = 0 /\ NoRow.owner = None
      /\ NoRow.cancel = FALSE /\ NoRow.last = None
  BY DEF NoRow
<1>3. Lifecycle!Init
  <2>1. [j \in Jobs |-> job[j].state] = [j \in Jobs |-> "ABSENT"]
    BY <1>1, <1>2
  <2>2. [j \in Jobs |-> job[j].attempt] = [j \in Jobs |-> 0]
    BY <1>1, <1>2
  <2>3. [j \in Jobs |-> job[j].owner] = [j \in Jobs |-> None]
    BY <1>1, <1>2
  <2>4. [j \in Jobs |-> job[j].cancel] = [j \in Jobs |-> FALSE]
    BY <1>1, <1>2
  <2>5. {t \in told : t[1] # Client} = {}
    BY DEF Init
  <2> QED
    BY <2>1, <2>2, <2>3, <2>4, <2>5 DEF Lifecycle!Init
<1>4. RefinementInv
  BY <1>1, <1>2 DEF RefinementInv, RestInv, AscribedInv
<1> QED
  BY <1>3, <1>4

\* The job table, with its clock, leases, revisions, tokens, late and repeated
\* calls, implements the lifecycle: a job is run by one worker at a time, at
\* most MaxAttempts times, only its holder reports its outcome, and a requested
\* cancellation is not forgotten.
THEOREM TableImplementsLifecycle == Spec => ImplementsLifecycle
<1>1. Spec => []RefinementInv
  BY InitRefines, StepRefines, Inductive, PTL DEF Spec
<1>2. IInv /\ RefinementInv /\ [Next]_vars => [Lifecycle!Next]_(Lifecycle!vars)
  BY StepRefines
<1> QED
  BY <1>1, <1>2, InitRefines, Inductive, PTL DEF Spec, ImplementsLifecycle, Lifecycle!Spec
=============================================================================
