---------------------------- MODULE WatcherProofs ----------------------------
(***************************************************************************)
(* Theorems about the watcher, for every value of its constants: any       *)
(* files, contents, processes, limits and delays, whatever fails.  The     *)
(* first part says what rows the operations of the job table write, the    *)
(* second how a step moves its process, the third what a step does to the  *)
(* jobs, in the terms of the invariant and of JobLifecycle, the fourth     *)
(* takes the steps one by one.                                             *)
(***************************************************************************)
EXTENDS Watcher, FiniteSetTheorems, TLAPS

USE WatchAssumption

Running == {"check", "ingest", "read", "report", "acknowledge", "resolve"}

\* TypeOK without the processes, and without what is spent.
StoreTyped ==
    /\ clock \in Nat
    /\ file \in [Files -> Contents \union {None}]
    /\ rescan \in BOOLEAN
    /\ obs \in [Files -> Observation]
    /\ job \in [Keys -> Table!Row]
    /\ told \subseteq Watchers \X Keys \X Table!Answers
    /\ sight \in [Keys -> Nat]
    /\ gone \in [Files -> Nat]

Typed ==
    /\ StoreTyped
    /\ proc \in [Watchers -> Proc]
    /\ \A p \in Watchers : At(p, "work") => proc[p].left > 0

\* What a scan found in a file it had seen there by then, and what it missed is
\* not there, or was away since.
ScanTrue(scan) ==
    /\ scan.at <= clock
    /\ scan.complete =>
          \A f \in Files :
              /\ scan.entries[f] = None => file[f] = None \/ gone[f] >= scan.at
              /\ scan.entries[f] # None =>
                    sight[<<f, scan.entries[f]>>] \in 1..scan.at

\* What the place of p says about the rest of its record.
ProcInv(p) ==
    /\ At(p, "reconcile") => proc[p].scan \in Scans /\ ScanTrue(proc[p].scan)
    /\ proc[p].at \in Running => proc[p].task \in Keys
    /\ proc[p].at \in Running \union {"work"} => proc[p].left > 0
    /\ proc[p].at \in Running \ {"check", "ingest"} => proc[p].verdict \in Verdicts

\* An observation begins no earlier than the first sight of its content.
SeenInv ==
    /\ clock > 0
    /\ \A k \in Keys : sight[k] <= clock
    /\ \A f \in Files : obs[f].print # None =>
          sight[<<f, obs[f].print>>] \in 1..obs[f].first

\* A job that nobody runs has no owner and no cancellation waiting for one, and
\* one that waits or runs has an attempt left or under way.
Sound(row) ==
    /\ row.attempt <= MaxAttempts
    /\ row.state = "ABSENT" => row.attempt = 0
    /\ row.state = "QUEUED" => row.attempt < MaxAttempts
    /\ row.state \in {"ABSENT", "QUEUED"} => row.owner = None /\ row.cancel = FALSE
    /\ row.state = "RUNNING" => row.attempt > 0

RowInv == \A k \in Keys : Sound(job[k])

LiveKeys == {k \in Keys : Live(k)}

IInv ==
    /\ Typed
    /\ \A p \in Watchers : ProcInv(p)
    /\ SeenInv /\ RowInv
    /\ IsFiniteSet(LiveKeys) /\ NothingStableForgotten
-----------------------------------------------------------------------------
(* The rows of the job table.                                              *)

\* The rows of a well-typed table are rows.
LEMMA RowsAreTyped ==
    ASSUME Typed, NEW k \in Keys
    PROVE  job[k] \in Table!Row /\ job[k].rev + 1 \in Nat /\ clock \in Nat
  BY DEF Typed, StoreTyped, Table!Row

Ends == {"QUEUED", "SUCCEEDED", "FAILED", "CANCELLED"}
Codes == {"source_changed", "ingestion_failed", "lease_expired", None}

\* They are states and codes of the table.
LEMMA EndsAndCodes ==
    /\ "QUEUED" \in Ends /\ "SUCCEEDED" \in Ends /\ "FAILED" \in Ends /\ "CANCELLED" \in Ends
    /\ "source_changed" \in Codes /\ "ingestion_failed" \in Codes
    /\ "lease_expired" \in Codes /\ None \in Codes
    /\ Ends \subseteq Table!Live \union Table!Terminal \union {"ABSENT"}
    /\ Codes \subseteq {"source_changed", "ingestion_failed"} \union {"lease_expired", None}
  BY DEF Ends, Codes, Table!Live, Table!Terminal

\* What is written over a row when its attempt ends, or is called off.
Written(row, k, state) ==
    /\ row \in Table!Row
    /\ row.state = state /\ row.attempt = job[k].attempt
    /\ row.owner = None /\ row.cancel = FALSE

\* What a row that left RUNNING, or never got there, says.
LEMMA ReleasedRow ==
    ASSUME Typed, NEW k \in Keys, NEW state \in Ends,
           NEW token \in Watchers \union {None}, NEW code \in Codes
    PROVE  Written(Table!Released(k, state, token, code, clock), k, state)
<1> DEFINE n == job[k].rev + 1
           row == [job[k] EXCEPT !.state = state, !.rev = n, !.owner = None,
                      !.expires = 0, !.cancel = FALSE, !.last = token,
                      !.failure = code, !.updated = clock]
<1>1. Table!Released(k, state, token, code, clock) = row
  BY DEF Table!Released
<1>2. job[k] \in Table!Row /\ n \in Nat /\ clock \in Nat
  BY RowsAreTyped
<1>3. /\ state \in Table!Live \union Table!Terminal \union {"ABSENT"}
      /\ code \in {"source_changed", "ingestion_failed"} \union {"lease_expired", None}
  BY EndsAndCodes
<1> HIDE DEF n
<1>4. Written(row, k, state)
  BY <1>2, <1>3 DEF Table!Row, Written
<1> QED
  BY <1>1, <1>4

\* What claim_watch_job writes.
LEMMA ClaimedRow ==
    ASSUME Typed, NEW k \in Keys, NEW p \in Watchers
    PROVE  LET row == Table!Claimed(k, p, clock, Lease)
           IN  /\ row \in Table!Row
               /\ row.state = "RUNNING" /\ row.attempt = job[k].attempt + 1
               /\ row.owner = p /\ row.cancel = job[k].cancel
<1> DEFINE n == job[k].rev + 1
           m == job[k].attempt + 1
           e == clock + Lease
           row == [job[k] EXCEPT !.state = "RUNNING", !.attempt = m, !.rev = n,
                      !.owner = p, !.expires = e, !.updated = clock]
<1>1. Table!Claimed(k, p, clock, Lease) = row
  BY DEF Table!Claimed
<1>2. job[k] \in Table!Row /\ n \in Nat /\ m \in Nat /\ e \in Nat /\ clock \in Nat
  BY RowsAreTyped DEF Table!Row
<1> HIDE DEF n, m, e
<1>3. /\ row \in Table!Row /\ row.state = "RUNNING" /\ row.attempt = m
      /\ row.owner = p /\ row.cancel = job[k].cancel
  BY <1>2 DEF Table!Row, Table!Live
<1> QED
  BY <1>1, <1>3 DEF m

\* What request_job_cancellation writes on a running row.
LEMMA CancellingRow ==
    ASSUME Typed, NEW k \in Keys
    PROVE  LET row == Table!Cancelling(k, clock)
           IN  /\ row \in Table!Row
               /\ row.state = job[k].state /\ row.attempt = job[k].attempt
               /\ row.owner = job[k].owner /\ row.cancel = TRUE
<1> DEFINE n == job[k].rev + 1
           row == [job[k] EXCEPT !.rev = n, !.cancel = TRUE, !.updated = clock]
<1>1. Table!Cancelling(k, clock) = row
  BY DEF Table!Cancelling
<1>2. job[k] \in Table!Row /\ n \in Nat /\ clock \in Nat
  BY RowsAreTyped
<1> HIDE DEF n
<1>3. /\ row \in Table!Row /\ row.state = job[k].state /\ row.attempt = job[k].attempt
      /\ row.owner = job[k].owner /\ row.cancel = TRUE
  BY <1>2 DEF Table!Row
<1> QED
  BY <1>1, <1>3

\* What recovery writes for a running row.
LEMMA RecoveredRow ==
    ASSUME Typed, NEW k \in Keys
    PROVE  Written(Table!Recovered(k, clock), k,
                   IF job[k].cancel THEN "CANCELLED"
                   ELSE IF job[k].attempt < MaxAttempts THEN "QUEUED" ELSE "FAILED")
<1>1. job[k].owner \in Watchers \union {None}
  BY RowsAreTyped DEF Table!Row
<1>2. CASE job[k].cancel
  <2>1. Table!Recovered(k, clock) = Table!Released(k, "CANCELLED", job[k].owner, None, clock)
    BY <1>2 DEF Table!Recovered
  <2>2. Written(Table!Released(k, "CANCELLED", job[k].owner, None, clock), k, "CANCELLED")
    BY <1>1, ReleasedRow, EndsAndCodes, Zenon
  <2> QED
    BY <1>2, <2>1, <2>2
<1>3. CASE ~job[k].cancel /\ job[k].attempt < MaxAttempts
  <2>1. Table!Recovered(k, clock)
           = Table!Released(k, "QUEUED", job[k].owner, "lease_expired", clock)
    BY <1>3 DEF Table!Recovered
  <2>2. Written(Table!Released(k, "QUEUED", job[k].owner, "lease_expired", clock), k, "QUEUED")
    BY <1>1, ReleasedRow, EndsAndCodes, Zenon
  <2> QED
    BY <1>3, <2>1, <2>2
<1>4. CASE ~job[k].cancel /\ ~(job[k].attempt < MaxAttempts)
  <2>1. Table!Recovered(k, clock)
           = Table!Released(k, "FAILED", job[k].owner, "lease_expired", clock)
    BY <1>4 DEF Table!Recovered
  <2>2. Written(Table!Released(k, "FAILED", job[k].owner, "lease_expired", clock), k, "FAILED")
    BY <1>1, ReleasedRow, EndsAndCodes, Zenon
  <2> QED
    BY <1>4, <2>1, <2>2
<1> QED
  BY <1>2, <1>3, <1>4

\* The retry delay is a length of time: a power of two is a number of sets.
LEMMA DelayIsTime ==
    ASSUME NEW attempt \in Nat, attempt > 0
    PROVE  RetryDelay(attempt) \in Nat
<1> DEFINE n == attempt - 1
<1>1. n \in Nat
  OBVIOUS
<1> HIDE DEF n
<1>2. 2 ^ n \in Nat
  <2>1. IsFiniteSet(1..n) /\ Cardinality(1..n) = n
    <3>1. 1 \in Int /\ n \in Int /\ (IF 1 > n THEN 0 ELSE n - 1 + 1) = n
      BY <1>1
    <3> QED
      BY <3>1, FS_Interval
  <2>2. /\ IsFiniteSet(SUBSET (1..n))
        /\ Cardinality(SUBSET (1..n)) = 2 ^ Cardinality(1..n)
    BY <2>1, FS_SUBSET
  <2>3. Cardinality(SUBSET (1..n)) \in Nat
    BY <2>2, FS_CardinalityType
  <2> QED
    BY <2>1, <2>2, <2>3
<1> DEFINE power == 2 ^ n
           delay == RetryBase * power
<1>3. delay \in Nat
  <2> HIDE DEF power
  <2>1. power \in Nat /\ RetryBase \in Nat
    BY <1>2 DEF power
  <2> QED
    BY <2>1
<1>4. RetryDelay(attempt) = IF delay < RetryMax THEN delay ELSE RetryMax
  BY DEF RetryDelay, n
<1> HIDE DEF delay
<1> QED
  BY <1>3, <1>4

\* What a report writes.
LEMMA OutcomeRow ==
    ASSUME Typed, RowInv, NEW p \in Watchers, NEW k \in Keys, k = proc[p].task,
           job[k].state = "RUNNING"
    PROVE  \E state \in {"SUCCEEDED", "FAILED", "QUEUED"} :
              /\ Written(Outcome(p), k, state)
              /\ state = "QUEUED" => job[k].attempt < MaxAttempts
<1> DEFINE delay == RetryDelay(job[k].attempt)
<1>1. Row(p) = job[k] /\ job[k].attempt \in Nat /\ job[k].attempt > 0
  BY RowsAreTyped DEF Row, Table!Row, RowInv, Sound
<1>2. delay \in Nat
  BY <1>1, DelayIsTime
<1> HIDE DEF delay
<1>3. Written(Table!Requeued(k, p, "source_changed", clock, delay), k, "QUEUED")
  <2> DEFINE base == Table!Released(k, "QUEUED", p, "source_changed", clock)
             due == clock + delay
             row == [base EXCEPT !.available = due]
  <2>1. Written(base, k, "QUEUED")
    BY ReleasedRow, EndsAndCodes, Zenon
  <2>2. due \in Nat
    BY <1>2, RowsAreTyped
  <2>3. Table!Requeued(k, p, "source_changed", clock, delay) = row
    BY DEF Table!Requeued
  <2> HIDE DEF base, due
  <2>4. Written(row, k, "QUEUED")
    BY <2>1, <2>2 DEF Written, Table!Row
  <2> QED
    BY <2>3, <2>4
<1>4. /\ Written(Table!Released(k, "SUCCEEDED", p, None, clock), k, "SUCCEEDED")
      /\ Written(Table!Released(k, "FAILED", p, "source_changed", clock), k, "FAILED")
      /\ Written(Table!Released(k, "FAILED", p, "ingestion_failed", clock), k, "FAILED")
  BY ReleasedRow, EndsAndCodes, Zenon
<1>5. \/ Outcome(p) = Table!Released(k, "SUCCEEDED", p, None, clock)
      \/ /\ job[k].attempt < MaxAttempts
         /\ Outcome(p) = Table!Requeued(k, p, "source_changed", clock, delay)
      \/ Outcome(p) = Table!Released(k, "FAILED", p, "source_changed", clock)
      \/ Outcome(p) = Table!Released(k, "FAILED", p, "ingestion_failed", clock)
  BY <1>1 DEF Outcome, delay
<1> QED
  BY <1>3, <1>4, <1>5
-----------------------------------------------------------------------------
(* Where a step leaves the processes.                                      *)

\* p goes somewhere, and nobody else moves.
Went(p) ==
    /\ proc' \in [Watchers -> Proc]
    /\ \A q \in Watchers \ {p} : proc'[q] = proc[q]

\* Goto goes to the record it names.
LEMMA Goes ==
    ASSUME Typed, NEW p \in Watchers, NEW next \in Proc, Goto(p, next)
    PROVE  Went(p) /\ proc'[p] = next
  BY DEF Typed, Goto, Went

\* Whoever is idle has nothing.
LEMMA IdleIsProc == Idle \in Proc /\ Down \in Proc
<1>1. None \in Keys \union {None} /\ 0 \in 0..MaxJobs
  OBVIOUS
<1> QED
  BY <1>1 DEF Idle, Down, Proc, Place

\* A record with another place, and the job that is left, is one.
LEMMA Elsewhere ==
    ASSUME Typed, NEW p \in Watchers, NEW at \in Place
    PROVE  [proc[p] EXCEPT !.at = at] \in Proc
<1>1. proc[p] \in Proc
  BY DEF Typed
<1> QED
  BY <1>1 DEF Proc

\* A cycle begins its work, or goes on with it, or ends.
LEMMA WorkIsProc ==
    ASSUME NEW n \in 0..MaxJobs
    PROVE  [Idle EXCEPT !.at = "work", !.left = n] \in Proc
  BY IdleIsProc DEF Proc, Place

\* Whoever is idle or down, or is about to scan, relies on nothing.
LEMMA RestKeeps ==
    ASSUME NEW p, proc'[p].at \in {"idle", "scan", "down"}
    PROVE  ProcInv(p)'
  BY DEF ProcInv, At, Running

\* So does whoever has work left, but for that.
LEMMA WorkKeeps ==
    ASSUME NEW p, proc'[p].at = "work", proc'[p].left > 0
    PROVE  ProcInv(p)'
  BY DEF ProcInv, At, Running

\* What the others rely on outlives a step in which time passes, contents are
\* first seen, and files that come back are known to have been away.
LEMMA OthersKept ==
    ASSUME Typed, NEW q \in Watchers, ProcInv(q), proc'[q] = proc[q],
           clock' \in Nat, clock <= clock',
           \A k \in Keys : sight[k] > 0 => sight'[k] = sight[k],
           \A f \in Files : \/ file'[f] = None
                            \/ gone'[f] = clock
                            \/ file'[f] = file[f] /\ gone'[f] = gone[f]
                            \/ file[f] # None /\ gone'[f] = gone[f]
    PROVE  ProcInv(q)'
<1>1. CASE At(q, "reconcile")
  <2>0. PICK scan : scan = proc[q].scan
    OBVIOUS
  <2>1. scan \in Scans /\ ScanTrue(scan)
    BY <1>1, <2>0 DEF ProcInv
  <2>2. clock \in Nat /\ scan.at \in Nat /\ scan.entries \in [Files -> Contents \union {None}]
    BY <2>1 DEF Typed, StoreTyped, Scans
  <2>3. ScanTrue(scan)'
    <3>1. scan.at <= clock'
      BY <2>1, <2>2 DEF ScanTrue
    <3>2. ASSUME scan.complete, NEW f \in Files, scan.entries[f] = None
          PROVE  file'[f] = None \/ gone'[f] >= scan.at
      BY <2>1, <2>2, <3>2 DEF ScanTrue
    <3>3. ASSUME scan.complete, NEW f \in Files, scan.entries[f] # None
          PROVE  sight'[<<f, scan.entries[f]>>] \in 1..scan.at
      <4>1. <<f, scan.entries[f]>> \in Keys
        BY <2>2, <3>3 DEF Keys
      <4> QED
        BY <2>1, <2>2, <3>3, <4>1 DEF ScanTrue
    <3> QED
      BY <3>1, <3>2, <3>3 DEF ScanTrue
  <2> QED
    BY <1>1, <2>0, <2>1, <2>3 DEF ProcInv, At, Running
<1>2. CASE ~At(q, "reconcile")
  BY <1>2 DEF ProcInv, At
<1> QED
  BY <1>1, <1>2

\* With the processes, it is all of it.
LEMMA AllTyped ==
    ASSUME StoreTyped', proc' \in [Watchers -> Proc], \A p \in Watchers : ProcInv(p)'
    PROVE  Typed'
<1>1. ASSUME NEW p \in Watchers
      PROVE  /\ proc'[p].at \in Place /\ proc'[p].left \in 0..MaxJobs
             /\ proc'[p].at = "work" => proc'[p].left > 0
             /\ proc'[p].task \in Keys \union {None}
  BY DEF Proc, ProcInv, At
<1> QED
  BY <1>1 DEF Typed, StoreTyped, At

\* Where the rows stay sound and no more of them are live, the limit of live
\* jobs is kept.
LEMMA JobsKept ==
    ASSUME IInv, \A k \in Keys : Sound(job'[k]), \A k \in Keys : Live(k)' => Live(k),
           UNCHANGED <<rescan, obs>>
    PROVE  RowInv' /\ IsFiniteSet(LiveKeys)' /\ NothingStableForgotten'
<1>1. LiveKeys' \subseteq LiveKeys
  BY DEF LiveKeys
<1>2. IsFiniteSet(LiveKeys)
  BY DEF IInv
<1>3. IsFiniteSet(LiveKeys') /\ Cardinality(LiveKeys') <= Cardinality(LiveKeys)
  BY <1>1, <1>2, FS_Subset
<1>4. Cardinality(LiveKeys) \in Nat /\ Cardinality(LiveKeys') \in Nat
  BY <1>2, <1>3, FS_CardinalityType
<1>5. Cardinality(LiveKeys) <= MaxActive
  BY DEF IInv, NothingStableForgotten, LiveKeys
<1>6. Cardinality(LiveKeys') <= MaxActive
  BY <1>3, <1>4, <1>5
<1>7. NothingStableForgotten'
  BY <1>6 DEF IInv, NothingStableForgotten, LiveKeys
<1> QED
  BY <1>3, <1>7 DEF RowInv

\* A step that writes sound rows, none of them newly live, and moves processes
\* that then know what they have to.
LEMMA JobStepKeeps ==
    ASSUME IInv, proc' \in [Watchers -> Proc],
           \A q \in Watchers : proc'[q] = proc[q] \/ ProcInv(q)',
           job' \in [Keys -> Table!Row],
           \A k \in Keys : Sound(job'[k]), \A k \in Keys : Live(k)' => Live(k),
           told' \subseteq Watchers \X Keys \X Table!Answers,
           UNCHANGED <<clock, file, rescan, obs, sight, gone>>
    PROVE  IInv'
<1>1. ASSUME NEW q \in Watchers PROVE ProcInv(q)'
  <2>1. CASE proc'[q] = proc[q]
    <3>1. Typed /\ ProcInv(q) /\ clock \in Nat
      BY DEF IInv, Typed, StoreTyped
    <3> QED
      BY <2>1, <3>1, OthersKept
  <2> QED
    BY <2>1
<1>2. StoreTyped'
  BY DEF IInv, Typed, StoreTyped
<1>3. Typed'
  BY <1>1, <1>2, AllTyped
<1>4. SeenInv'
  BY DEF IInv, SeenInv
<1> QED
  BY <1>1, <1>3, <1>4, JobsKept DEF IInv

\* A step that changes nothing but where p is.
LEMMA QuietKeeps ==
    ASSUME IInv, NEW p \in Watchers, Went(p), ProcInv(p)',
           UNCHANGED <<clock, file, rescan, obs, job, told, sight, gone>>
    PROVE  IInv'
<1>1. /\ job' \in [Keys -> Table!Row] /\ told' \subseteq Watchers \X Keys \X Table!Answers
      /\ \A k \in Keys : Sound(job'[k])
      /\ \A k \in Keys : Live(k)' => Live(k)
  BY DEF IInv, Typed, StoreTyped, RowInv, Live
<1>2. \A q \in Watchers : proc'[q] = proc[q] \/ ProcInv(q)'
  BY DEF Went
<1> QED
  BY <1>1, <1>2, JobStepKeeps DEF Went

\* The one row that is written.
LEMMA RowWritten ==
    ASSUME IInv, NEW k \in Keys, NEW row \in Table!Row, job' = [job EXCEPT ![k] = row],
           Sound(row), row.state \in {"QUEUED", "RUNNING"} => Live(k)
    PROVE  /\ job' \in [Keys -> Table!Row]
           /\ \A l \in Keys : job'[l] = IF l = k THEN row ELSE job[l]
           /\ \A l \in Keys : Sound(job'[l])
           /\ \A l \in Keys : Live(l)' => Live(l)
<1>1. job \in [Keys -> Table!Row] /\ \A l \in Keys : Sound(job[l])
  BY DEF IInv, Typed, StoreTyped, RowInv
<1>2. \A l \in Keys : job'[l] = IF l = k THEN row ELSE job[l]
  BY <1>1
<1>3. job' \in [Keys -> Table!Row]
  BY <1>1
<1>4. \A l \in Keys : Sound(job'[l])
  BY <1>1, <1>2
<1>5. \A l \in Keys : Live(l)' => Live(l)
  BY <1>2 DEF Live
<1> QED
  BY <1>2, <1>3, <1>4, <1>5

\* p is told how its job ended and goes on with its cycle.
LEMMA SettleKeeps ==
    ASSUME IInv, NEW p \in Watchers, proc[p].at \in Running,
           NEW k, k = proc[p].task,
           NEW row \in Table!Row, Sound(row), row.state \in Table!Answers,
           row.state \in {"QUEUED", "RUNNING"} => Live(k), Settle(p, row)
    PROVE  /\ IInv'
           /\ k \in Keys /\ job' = [job EXCEPT ![k] = row]
           /\ told' = told \union {<<p, k, row.state>>}
<1>1. k \in Keys /\ proc[p].left > 0 /\ proc[p].left \in 0..MaxJobs
  BY DEF IInv, ProcInv, Typed, StoreTyped, Proc
<1>2. job' = [job EXCEPT ![k] = row] /\ told' = told \union {<<p, k, row.state>>}
  BY DEF Settle
<1>3. Went(p) /\ ProcInv(p)'
  <2> DEFINE n == proc[p].left - 1
  <2>1. CASE proc[p].left = 1
    <3>1. Goto(p, Idle)
      BY <2>1 DEF Settle, NextJob
    <3>2. Went(p) /\ proc'[p] = Idle
      BY <3>1, IdleIsProc, Goes DEF IInv
    <3> QED
      BY <3>2, RestKeeps DEF Idle
  <2>2. CASE proc[p].left # 1
    <3>1. n \in 0..MaxJobs /\ n > 0
      BY <1>1, <2>2
    <3>2. Goto(p, [Idle EXCEPT !.at = "work", !.left = n])
      BY <2>2 DEF Settle, NextJob
    <3> HIDE DEF n
    <3>3. Went(p) /\ proc'[p] = [Idle EXCEPT !.at = "work", !.left = n]
      BY <3>1, <3>2, WorkIsProc, Goes DEF IInv
    <3> QED
      BY <3>1, <3>3, WorkKeeps DEF Idle
  <2> QED
    BY <2>1, <2>2
<1>4. /\ job' \in [Keys -> Table!Row]
      /\ \A l \in Keys : Sound(job'[l])
      /\ \A l \in Keys : Live(l)' => Live(l)
  BY <1>1, <1>2, RowWritten
<1>5. told' \subseteq Watchers \X Keys \X Table!Answers
  BY <1>1, <1>2 DEF IInv, Typed, StoreTyped
<1>6. \A q \in Watchers : proc'[q] = proc[q] \/ ProcInv(q)'
  BY <1>3 DEF Went
<1>7. IInv'
  BY <1>3, <1>4, <1>5, <1>6, JobStepKeeps DEF Went, Settle
<1> QED
  BY <1>1, <1>2, <1>7
-----------------------------------------------------------------------------
(* What the lifecycle sees.                                                *)

\* A function that differs from another in one place is its update there.
LEMMA Updated ==
    ASSUME NEW S, NEW f, NEW g, f = [k \in S |-> f[k]], g = [k \in S |-> g[k]],
           NEW j \in S, NEW x, \A k \in S : g[k] = IF k = j THEN x ELSE f[k]
    PROVE  g = [f EXCEPT ![j] = x]
<1>1. [f EXCEPT ![j] = x] = [k \in S |-> IF k = j THEN x ELSE f[k]]
  OBVIOUS
<1> QED
  BY <1>1

\* Writing one row changes one entry of everything the lifecycle sees.
LEMMA OneRow ==
    ASSUME NEW k \in Keys, NEW row,
           \A l \in Keys : job'[l] = IF l = k THEN row ELSE job[l]
    PROVE  /\ [l \in Keys |-> job'[l].state]
                 = [[l \in Keys |-> job[l].state] EXCEPT ![k] = row.state]
           /\ [l \in Keys |-> job'[l].attempt]
                 = [[l \in Keys |-> job[l].attempt] EXCEPT ![k] = row.attempt]
           /\ [l \in Keys |-> job'[l].owner]
                 = [[l \in Keys |-> job[l].owner] EXCEPT ![k] = row.owner]
           /\ [l \in Keys |-> job'[l].cancel]
                 = [[l \in Keys |-> job[l].cancel] EXCEPT ![k] = row.cancel]
<1>1. [l \in Keys |-> job'[l].state]
         = [[l \in Keys |-> job[l].state] EXCEPT ![k] = row.state]
  <2> DEFINE f == [l \in Keys |-> job[l].state]
             g == [l \in Keys |-> job'[l].state]
  <2>1. f = [l \in Keys |-> f[l]] /\ g = [l \in Keys |-> g[l]]
    OBVIOUS
  <2>2. \A l \in Keys : g[l] = IF l = k THEN row.state ELSE f[l]
    OBVIOUS
  <2> HIDE DEF f, g
  <2>3. g = [f EXCEPT ![k] = row.state]
    BY <2>1, <2>2, Updated
  <2> QED
    BY <2>3 DEF f, g
<1>2. [l \in Keys |-> job'[l].attempt]
         = [[l \in Keys |-> job[l].attempt] EXCEPT ![k] = row.attempt]
  <2> DEFINE f == [l \in Keys |-> job[l].attempt]
             g == [l \in Keys |-> job'[l].attempt]
  <2>1. f = [l \in Keys |-> f[l]] /\ g = [l \in Keys |-> g[l]]
    OBVIOUS
  <2>2. \A l \in Keys : g[l] = IF l = k THEN row.attempt ELSE f[l]
    OBVIOUS
  <2> HIDE DEF f, g
  <2>3. g = [f EXCEPT ![k] = row.attempt]
    BY <2>1, <2>2, Updated
  <2> QED
    BY <2>3 DEF f, g
<1>3. [l \in Keys |-> job'[l].owner]
         = [[l \in Keys |-> job[l].owner] EXCEPT ![k] = row.owner]
  <2> DEFINE f == [l \in Keys |-> job[l].owner]
             g == [l \in Keys |-> job'[l].owner]
  <2>1. f = [l \in Keys |-> f[l]] /\ g = [l \in Keys |-> g[l]]
    OBVIOUS
  <2>2. \A l \in Keys : g[l] = IF l = k THEN row.owner ELSE f[l]
    OBVIOUS
  <2> HIDE DEF f, g
  <2>3. g = [f EXCEPT ![k] = row.owner]
    BY <2>1, <2>2, Updated
  <2> QED
    BY <2>3 DEF f, g
<1>4. [l \in Keys |-> job'[l].cancel]
         = [[l \in Keys |-> job[l].cancel] EXCEPT ![k] = row.cancel]
  <2> DEFINE f == [l \in Keys |-> job[l].cancel]
             g == [l \in Keys |-> job'[l].cancel]
  <2>1. f = [l \in Keys |-> f[l]] /\ g = [l \in Keys |-> g[l]]
    OBVIOUS
  <2>2. \A l \in Keys : g[l] = IF l = k THEN row.cancel ELSE f[l]
    OBVIOUS
  <2> HIDE DEF f, g
  <2>3. g = [f EXCEPT ![k] = row.cancel]
    BY <2>1, <2>2, Updated
  <2> QED
    BY <2>3 DEF f, g
<1> QED
  BY <1>1, <1>2, <1>3, <1>4

\* The holder of a running job reports.
LEMMA ReportRefines ==
    ASSUME IInv, NEW p \in Watchers, NEW k \in Keys, NEW state, NEW row,
           job[k].state = "RUNNING", job[k].owner = p, Written(row, k, state),
           state \in {"SUCCEEDED", "FAILED", "QUEUED", "CANCELLED"},
           IF job[k].cancel THEN state = "CANCELLED"
           ELSE state # "CANCELLED" /\ (state = "QUEUED" => job[k].attempt < MaxAttempts),
           \A l \in Keys : job'[l] = IF l = k THEN row ELSE job[l],
           told' = told \union {<<p, k, state>>}
    PROVE  Lifecycle!Next
<1>1. /\ [l \in Keys |-> job[l].state][k] = "RUNNING"
      /\ [l \in Keys |-> job[l].owner][k] = p
  OBVIOUS
<1>2. state \in Lifecycle!Reportable(k)
  BY DEF Lifecycle!Reportable
<1>3. /\ [l \in Keys |-> job'[l].state] = [[l \in Keys |-> job[l].state] EXCEPT ![k] = state]
      /\ [l \in Keys |-> job'[l].owner] = [[l \in Keys |-> job[l].owner] EXCEPT ![k] = None]
      /\ [l \in Keys |-> job'[l].cancel] = [[l \in Keys |-> job[l].cancel] EXCEPT ![k] = FALSE]
  <2>1. row.state = state /\ row.owner = None /\ row.cancel = FALSE
    BY DEF Written
  <2>2. /\ [l \in Keys |-> job'[l].state]
              = [[l \in Keys |-> job[l].state] EXCEPT ![k] = row.state]
        /\ [l \in Keys |-> job'[l].owner]
              = [[l \in Keys |-> job[l].owner] EXCEPT ![k] = row.owner]
        /\ [l \in Keys |-> job'[l].cancel]
              = [[l \in Keys |-> job[l].cancel] EXCEPT ![k] = row.cancel]
    BY OneRow, Zenon
  <2> QED
    BY <2>1, <2>2
<1>4. UNCHANGED [l \in Keys |-> job[l].attempt]
  <2>1. row.attempt = job[k].attempt
    BY DEF Written
  <2>2. \A l \in Keys : job'[l].attempt = job[l].attempt
    BY <2>1
  <2> QED
    BY <2>2
<1>5. Lifecycle!Report(k, p, state)
  BY <1>1, <1>2, <1>3, <1>4 DEF Lifecycle!Report
<1> QED
  BY <1>5 DEF Lifecycle!Next

\* A process hears of a cancellation that came from elsewhere.
LEMMA HearRefines ==
    ASSUME NEW p \in Watchers, NEW k \in Keys, job[k].state = "CANCELLED", job' = job,
           told' = told \union {<<p, k, "CANCELLED">>}
    PROVE  Lifecycle!Next
<1>1. Lifecycle!HearCancelled(k, p)
  BY DEF Lifecycle!HearCancelled
<1> QED
  BY <1>1 DEF Lifecycle!Next

\* A claim is a start.
LEMMA ClaimRefines ==
    ASSUME IInv, NEW p \in Watchers, NEW k \in Keys, NEW row,
           job[k].state = "QUEUED", row.state = "RUNNING", row.owner = p,
           row.attempt = job[k].attempt + 1, row.cancel = job[k].cancel,
           \A l \in Keys : job'[l] = IF l = k THEN row ELSE job[l], told' = told
    PROVE  Lifecycle!Next
<1>1. /\ [l \in Keys |-> job[l].state][k] = "QUEUED"
      /\ [l \in Keys |-> job[l].attempt][k] = job[k].attempt
      /\ [l \in Keys |-> job[l].attempt][k] < MaxAttempts
  BY DEF IInv, RowInv, Sound
<1>2. /\ [l \in Keys |-> job'[l].state]
            = [[l \in Keys |-> job[l].state] EXCEPT ![k] = row.state]
      /\ [l \in Keys |-> job'[l].owner]
            = [[l \in Keys |-> job[l].owner] EXCEPT ![k] = row.owner]
      /\ [l \in Keys |-> job'[l].attempt]
            = [[l \in Keys |-> job[l].attempt] EXCEPT ![k] = row.attempt]
  BY OneRow, Zenon
<1>3. [l \in Keys |-> job'[l].attempt]
         = [[l \in Keys |-> job[l].attempt] EXCEPT
               ![k] = [l \in Keys |-> job[l].attempt][k] + 1]
  BY <1>1, <1>2
<1>4. UNCHANGED <<[l \in Keys |-> job[l].cancel], told>>
  <2>1. \A l \in Keys : job'[l].cancel = job[l].cancel
    OBVIOUS
  <2> QED
    BY <2>1
<1>5. /\ [l \in Keys |-> job'[l].state] = [[l \in Keys |-> job[l].state] EXCEPT ![k] = "RUNNING"]
      /\ [l \in Keys |-> job'[l].owner] = [[l \in Keys |-> job[l].owner] EXCEPT ![k] = p]
  BY <1>2
<1>6. Lifecycle!Start(k, p)
  BY <1>1, <1>3, <1>4, <1>5 DEF Lifecycle!Start
<1> QED
  BY <1>6 DEF Lifecycle!Next

\* Calling off a job that waits ends it.
LEMMA CallOffRefines ==
    ASSUME IInv, NEW k \in Keys, NEW row, job[k].state = "QUEUED", Written(row, k, "CANCELLED"),
           \A l \in Keys : job'[l] = IF l = k THEN row ELSE job[l], told' = told
    PROVE  Lifecycle!Next
<1>1. [l \in Keys |-> job[l].state][k] = "QUEUED"
  OBVIOUS
<1>2. [l \in Keys |-> job'[l].state] = [[l \in Keys |-> job[l].state] EXCEPT ![k] = "CANCELLED"]
  <2>1. [l \in Keys |-> job'[l].state]
           = [[l \in Keys |-> job[l].state] EXCEPT ![k] = row.state]
    BY OneRow, Zenon
  <2> QED
    BY <2>1 DEF Written
<1>3. \A l \in Keys : /\ job'[l].attempt = job[l].attempt
                      /\ job'[l].owner = job[l].owner
                      /\ job'[l].cancel = job[l].cancel
  BY DEF Written, IInv, RowInv, Sound
<1>4. UNCHANGED <<[l \in Keys |-> job[l].attempt], [l \in Keys |-> job[l].owner],
                  [l \in Keys |-> job[l].cancel], told>>
  BY <1>3
<1>5. Lifecycle!AskCancel(k)
  BY <1>1, <1>2, <1>4 DEF Lifecycle!AskCancel
<1> QED
  BY <1>5 DEF Lifecycle!Next

\* Calling off a job that runs leaves word for its holder.
LEMMA AskRefines ==
    ASSUME NEW k \in Keys, NEW row, job[k].state = "RUNNING", ~job[k].cancel,
           row.state = job[k].state, row.attempt = job[k].attempt,
           row.owner = job[k].owner, row.cancel = TRUE,
           \A l \in Keys : job'[l] = IF l = k THEN row ELSE job[l], told' = told
    PROVE  Lifecycle!Next
<1>1. [l \in Keys |-> job[l].state][k] = "RUNNING" /\ ~[l \in Keys |-> job[l].cancel][k]
  OBVIOUS
<1>2. [l \in Keys |-> job'[l].cancel] = [[l \in Keys |-> job[l].cancel] EXCEPT ![k] = TRUE]
  <2>1. [l \in Keys |-> job'[l].cancel]
           = [[l \in Keys |-> job[l].cancel] EXCEPT ![k] = row.cancel]
    BY OneRow, Zenon
  <2> QED
    BY <2>1
<1>3. \A l \in Keys : /\ job'[l].state = job[l].state
                      /\ job'[l].attempt = job[l].attempt
                      /\ job'[l].owner = job[l].owner
  OBVIOUS
<1>4. UNCHANGED <<[l \in Keys |-> job[l].state], [l \in Keys |-> job[l].attempt],
                  [l \in Keys |-> job[l].owner], told>>
  BY <1>3
<1>5. Lifecycle!AskCancel(k)
  BY <1>1, <1>2, <1>4 DEF Lifecycle!AskCancel
<1> QED
  BY <1>5 DEF Lifecycle!Next

\* Recovery gives up on the holders of all the leases that are over.
LEMMA LoseRefines ==
    ASSUME NEW lost \in SUBSET Keys, lost # {},
           \A k \in lost : job[k].state = "RUNNING",
           \A k \in Keys : job[k].cancel \in BOOLEAN,
           \A k \in lost :
              /\ job'[k].attempt = job[k].attempt /\ job'[k].owner = None
              /\ job'[k].cancel = FALSE
              /\ job'[k].state = IF job[k].cancel THEN "CANCELLED"
                                 ELSE IF job[k].attempt < MaxAttempts THEN "QUEUED" ELSE "FAILED",
           \A k \in Keys \ lost : job'[k] = job[k], told' = told
    PROVE  Lifecycle!Next
<1>1. \A k \in lost : [l \in Keys |-> job[l].state][k] = "RUNNING"
  OBVIOUS
<1>2. [k \in Keys |-> job'[k].state]
         = [k \in Keys |-> IF k \notin lost THEN [l \in Keys |-> job[l].state][k]
                           ELSE IF [l \in Keys |-> job[l].cancel][k] THEN "CANCELLED"
                           ELSE IF [l \in Keys |-> job[l].attempt][k] < MaxAttempts
                                THEN "QUEUED" ELSE "FAILED"]
  OBVIOUS
<1>3. [k \in Keys |-> job'[k].owner]
         = [k \in Keys |-> IF k \in lost THEN None ELSE [l \in Keys |-> job[l].owner][k]]
  OBVIOUS
<1>4. [k \in Keys |-> job'[k].cancel]
         = [k \in Keys |-> k \notin lost /\ [l \in Keys |-> job[l].cancel][k]]
  <2>1. \A k \in Keys : job'[k].cancel = (k \notin lost /\ [l \in Keys |-> job[l].cancel][k])
    OBVIOUS
  <2> QED
    BY <2>1
<1>5. UNCHANGED <<[k \in Keys |-> job[k].attempt], told>>
  <2>1. \A k \in Keys : job'[k].attempt = job[k].attempt
    OBVIOUS
  <2> QED
    BY <2>1
<1>6. Lifecycle!Lose(lost)
  BY <1>1, <1>2, <1>3, <1>4, <1>5 DEF Lifecycle!Lose
<1> QED
  BY <1>6 DEF Lifecycle!Next

\* What a reconciliation schedules is submitted.
LEMMA SubmitRefines ==
    ASSUME NEW fresh \in SUBSET Keys,
           \A k \in fresh : job[k].state = "ABSENT" /\ job[k].owner = None
                            /\ job[k].attempt = 0 /\ job[k].cancel = FALSE,
           \A k \in fresh : /\ job'[k].state = "QUEUED" /\ job'[k].owner = None
                            /\ job'[k].attempt = 0 /\ job'[k].cancel = FALSE,
           \A k \in Keys \ fresh : job'[k] = job[k], told' = told
    PROVE  [Lifecycle!Next]_(Lifecycle!vars)
<1>1. \A k \in Keys : /\ job'[k].attempt = job[k].attempt
                      /\ job'[k].owner = job[k].owner
                      /\ job'[k].cancel = job[k].cancel
  OBVIOUS
<1>2. UNCHANGED <<[l \in Keys |-> job[l].attempt], [l \in Keys |-> job[l].owner],
                  [l \in Keys |-> job[l].cancel], told>>
  BY <1>1
<1>3. CASE fresh = {}
  <2>1. \A k \in Keys : job'[k].state = job[k].state
    BY <1>3
  <2>2. UNCHANGED [l \in Keys |-> job[l].state]
    BY <2>1
  <2> QED
    BY <1>2, <2>2 DEF Lifecycle!vars
<1>4. CASE fresh # {}
  <2>1. \A k \in fresh : [l \in Keys |-> job[l].state][k] = "ABSENT"
    OBVIOUS
  <2>2. [k \in Keys |-> job'[k].state]
           = [k \in Keys |-> IF k \in fresh THEN "QUEUED" ELSE [l \in Keys |-> job[l].state][k]]
    OBVIOUS
  <2>3. Lifecycle!Submit(fresh)
    BY <1>2, <1>4, <2>1, <2>2 DEF Lifecycle!Submit
  <2> QED
    BY <2>3 DEF Lifecycle!Next
<1> QED
  BY <1>3, <1>4

\* Whatever writes no row and tells nobody anything is invisible.
LEMMA Invisible ==
    ASSUME job' = job, told' = told
    PROVE  [Lifecycle!Next]_(Lifecycle!vars)
  BY DEF Lifecycle!vars
-----------------------------------------------------------------------------
(* The steps, one by one.                                                  *)

\* What all steps but the reconciliation of a complete scan do: they keep the
\* invariant, are steps of the lifecycle or invisible to it, and neither
\* schedule anything nor touch an observation.
Harmless ==
    /\ IInv'
    /\ [Lifecycle!Next]_(Lifecycle!vars)
    /\ \A k \in Keys : job[k].state = "ABSENT" => job'[k].state = "ABSENT"
    /\ UNCHANGED obs

\* A step that changes nothing but where p is.
LEMMA QuietHarmless ==
    ASSUME IInv, NEW p \in Watchers, Went(p), ProcInv(p)',
           UNCHANGED <<clock, file, rescan, obs, job, told, sight, gone>>
    PROVE  Harmless
<1>1. IInv'
  BY QuietKeeps
<1> QED
  BY <1>1, Invisible DEF Harmless

\* p leaves the cycle, or begins one.
LEMMA RestHarmless ==
    ASSUME IInv, NEW p \in Watchers, NEW next \in Proc, Goto(p, next),
           next.at \in {"idle", "scan", "down"},
           UNCHANGED <<clock, file, rescan, obs, job, told, sight, gone>>
    PROVE  Harmless
<1>1. Went(p) /\ proc'[p] = next
  BY Goes DEF IInv
<1>2. ProcInv(p)'
  BY <1>1, RestKeeps
<1> QED
  BY <1>1, <1>2, QuietHarmless

\* A process that exits leaves nothing behind but what it has written.
LEMMA AbortHarmless ==
    ASSUME IInv, NEW p \in Watchers, Abort(p),
           UNCHANGED <<clock, file, rescan, obs, job, told, sight, gone>>
    PROVE  Harmless
  BY IdleIsProc, RestHarmless DEF Abort, Down, Idle

\* p goes on with the job it runs.
LEMMA MoveHarmless ==
    ASSUME IInv, NEW p \in Watchers, NEW next \in Proc, Goto(p, next),
           proc[p].at \in Running, next.at \in Running,
           next.task = proc[p].task, next.left = proc[p].left,
           next.at \in {"check", "ingest"} \/ next.verdict \in Verdicts,
           UNCHANGED <<clock, file, rescan, obs, job, told, sight, gone>>
    PROVE  Harmless
<1>1. Went(p) /\ proc'[p] = next
  BY Goes DEF IInv
<1>2. proc[p].task \in Keys /\ proc[p].left > 0
  BY DEF IInv, ProcInv
<1>3. ProcInv(p)'
  BY <1>1, <1>2 DEF ProcInv, At, Running
<1> QED
  BY <1>1, <1>3, QuietHarmless

\* A record that moves on is one.
LEMMA MovedIsProc ==
    ASSUME IInv, NEW p \in Watchers, NEW at \in Running, NEW verdict \in Verdicts,
           NEW rev \in Nat
    PROVE  /\ [proc[p] EXCEPT !.at = at] \in Proc
           /\ [proc[p] EXCEPT !.at = at, !.verdict = verdict] \in Proc
           /\ [proc[p] EXCEPT !.at = at, !.verdict = verdict, !.rev = rev] \in Proc
<1>1. proc[p] \in Proc /\ at \in Place
  BY DEF IInv, Typed, Running, Place
<1> QED
  BY <1>1 DEF Proc

\* What p does while it runs a job, up to its report.
LEMMA RevalidateHarmless ==
    ASSUME IInv, NEW p \in Watchers, Revalidate(p)
    PROVE  Harmless
<1>1. /\ proc[p].at \in Running /\ proc[p] \in Proc
      /\ "ingest" \in Running /\ "read" \in Running /\ "RETRY" \in Verdicts
  BY DEF Revalidate, At, Running, Verdicts, IInv, Typed
<1>2. UNCHANGED <<clock, file, rescan, obs, job, told, sight, gone>>
  BY DEF Revalidate
<1>3. CASE Goto(p, [proc[p] EXCEPT !.at = "ingest"])
  <2> DEFINE next == [proc[p] EXCEPT !.at = "ingest"]
  <2>1. next \in Proc
    BY <1>1, MovedIsProc DEF Verdicts
  <2>2. next.at = "ingest" /\ next.task = proc[p].task /\ next.left = proc[p].left
    BY <1>1 DEF Proc
  <2> HIDE DEF next
  <2>3. Goto(p, next)
    BY <1>3 DEF next
  <2> QED
    BY <1>1, <1>2, <2>1, <2>2, <2>3, MoveHarmless
<1>4. CASE Intend(p, "RETRY")
  <2> DEFINE next == [proc[p] EXCEPT !.at = "read", !.verdict = "RETRY"]
  <2>1. next \in Proc
    BY <1>1, MovedIsProc
  <2>2. /\ next.at = "read" /\ next.task = proc[p].task /\ next.left = proc[p].left
        /\ next.verdict = "RETRY"
    BY <1>1 DEF Proc
  <2> HIDE DEF next
  <2>3. Goto(p, next)
    BY <1>4 DEF next, Intend
  <2> QED
    BY <1>1, <1>2, <2>1, <2>2, <2>3, MoveHarmless
<1> QED
  BY <1>3, <1>4 DEF Revalidate

\* Ingestion, however it turns out, is not the job table's business yet.
LEMMA IngestHarmless ==
    ASSUME IInv, NEW p \in Watchers, Ingest(p)
    PROVE  Harmless
<1>1. /\ proc[p].at \in Running /\ proc[p] \in Proc /\ "read" \in Running
  BY DEF Ingest, At, Running, IInv, Typed
<1>2. UNCHANGED <<clock, file, rescan, obs, job, told, sight, gone>>
  BY DEF Ingest
<1>3. PICK verdict \in Verdicts : Intend(p, verdict)
  BY DEF Ingest, Verdicts
<1> DEFINE next == [proc[p] EXCEPT !.at = "read", !.verdict = verdict]
<1>4. next \in Proc
  BY <1>1, MovedIsProc
<1>5. /\ next.at = "read" /\ next.task = proc[p].task /\ next.left = proc[p].left
      /\ next.verdict = verdict
  BY <1>1 DEF Proc
<1>6. Goto(p, next)
  BY <1>3 DEF Intend
<1> HIDE DEF next
<1> QED
  BY <1>1, <1>2, <1>4, <1>5, <1>6, MoveHarmless

\* p reads the row of its job, and what it will report.
LEMMA ReadHarmless ==
    ASSUME IInv, NEW p \in Watchers, Read(p)
    PROVE  Harmless
<1>1. /\ proc[p].at \in Running /\ proc[p] \in Proc
      /\ proc[p].verdict \in Verdicts /\ proc[p].task \in Keys
  BY DEF Read, At, Running, IInv, Typed, ProcInv
<1>2. UNCHANGED <<clock, file, rescan, obs, job, told, sight, gone>>
  BY DEF Read
<1>3. Row(p).rev \in Nat
  BY <1>1, RowsAreTyped DEF Row, Table!Row, IInv, Typed
<1>4. PICK verdict \in Verdicts, at \in {"acknowledge", "report"}, rev \in Nat :
         Goto(p, [proc[p] EXCEPT !.at = at, !.verdict = verdict, !.rev = rev])
  <2>1. PICK verdict \in Verdicts :
           Goto(p, [proc[p] EXCEPT
              !.at = IF verdict # "CANCELLED" /\ Row(p).cancel THEN "acknowledge" ELSE "report",
              !.verdict = verdict, !.rev = Row(p).rev])
    BY <1>1 DEF Read, Verdicts
  <2> DEFINE at == IF verdict # "CANCELLED" /\ Row(p).cancel THEN "acknowledge" ELSE "report"
  <2>2. at \in {"acknowledge", "report"}
    OBVIOUS
  <2> QED
    BY <1>3, <2>1, <2>2
<1>5. at \in Running
  BY DEF Running
<1> DEFINE next == [proc[p] EXCEPT !.at = at, !.verdict = verdict, !.rev = rev]
<1>6. next \in Proc
  BY <1>5, MovedIsProc
<1>7. /\ next.at = at /\ next.task = proc[p].task /\ next.left = proc[p].left
      /\ next.verdict = verdict
  BY <1>1 DEF Proc
<1>8. Goto(p, next)
  BY <1>4
<1> HIDE DEF next
<1> QED
  BY <1>1, <1>2, <1>5, <1>6, <1>7, <1>8, MoveHarmless

\* A refusal is looked into, or ends the process.
LEMMA RefuseHarmless ==
    ASSUME IInv, NEW p \in Watchers, proc[p].at \in Running \ {"check", "ingest"},
           NEW next, next = Down \/ next = [proc[p] EXCEPT !.at = "resolve"], Refuse(p, next)
    PROVE  Harmless
<1>1. UNCHANGED <<clock, file, rescan, obs, job, told, sight, gone>> /\ Goto(p, next)
  BY DEF Refuse
<1>2. CASE next = Down
  BY <1>1, <1>2, AbortHarmless DEF Abort
<1>3. CASE next = [proc[p] EXCEPT !.at = "resolve"]
  <2>1. proc[p] \in Proc /\ proc[p].verdict \in Verdicts /\ "resolve" \in Running
    BY DEF IInv, Typed, ProcInv, Running
  <2>2. next \in Proc
    BY <1>3, <2>1, MovedIsProc
  <2>3. /\ next.at = "resolve" /\ next.task = proc[p].task /\ next.left = proc[p].left
        /\ next.verdict = proc[p].verdict
    BY <1>3, <2>1 DEF Proc
  <2> QED
    BY <1>1, <2>1, <2>2, <2>3, MoveHarmless
<1> QED
  BY <1>2, <1>3

\* The holder of a job tells the table how it ended.
LEMMA HolderHarmless ==
    ASSUME IInv, NEW p \in Watchers, proc[p].at \in Running, NEW k \in Keys, k = proc[p].task,
           job[k].state = "RUNNING", job[k].owner = p,
           NEW state \in Ends, NEW row, Written(row, k, state),
           IF job[k].cancel THEN state = "CANCELLED"
           ELSE state # "CANCELLED" /\ (state = "QUEUED" => job[k].attempt < MaxAttempts),
           Settle(p, row)
    PROVE  Harmless
<1>1. row \in Table!Row /\ row.state = state
  BY DEF Written
<1>2. Sound(row)
  <2>1. job[k].attempt <= MaxAttempts
    BY DEF IInv, RowInv, Sound
  <2> QED
    BY <2>1 DEF Sound, Written, Ends
<1>3. row.state \in Table!Answers
  BY <1>1 DEF Ends, Table!Answers, Table!Terminal
<1>4. row.state \in {"QUEUED", "RUNNING"} => Live(k)
  BY DEF Live
<1>5. /\ IInv' /\ job' = [job EXCEPT ![k] = row]
      /\ told' = told \union {<<p, k, row.state>>}
  BY <1>1, <1>2, <1>3, <1>4, SettleKeeps
<1>6. \A l \in Keys : job'[l] = IF l = k THEN row ELSE job[l]
  BY <1>5 DEF IInv, Typed, StoreTyped
<1>7. Lifecycle!Next
  <2>1. state \in {"SUCCEEDED", "FAILED", "QUEUED", "CANCELLED"}
    BY DEF Ends
  <2>2. told' = told \union {<<p, k, state>>}
    BY <1>1, <1>5
  <2> QED
    BY <1>6, <2>1, <2>2, ReportRefines
<1>8. UNCHANGED obs
  BY DEF Settle
<1>9. \A l \in Keys : job[l].state = "ABSENT" => job'[l].state = "ABSENT"
  BY <1>6
<1> QED
  BY <1>5, <1>7, <1>8, <1>9 DEF Harmless

\* p finds that its job was called off, and is told so.
LEMMA HearHarmless ==
    ASSUME IInv, NEW p \in Watchers, proc[p].at \in Running, Row(p).state = "CANCELLED",
           Settle(p, Row(p))
    PROVE  Harmless
<1>1. PICK k \in Keys : k = proc[p].task
  BY DEF IInv, ProcInv
<1>2. Row(p) = job[k] /\ job[k] \in Table!Row /\ Sound(job[k])
  BY <1>1, RowsAreTyped DEF Row, IInv, Typed, RowInv
<1>3. "CANCELLED" \in Table!Answers
  BY DEF Table!Answers, Table!Terminal
<1>4. PICK row \in Table!Row : row = job[k]
  BY <1>2
<1>5. Sound(row) /\ row.state = "CANCELLED" /\ Settle(p, row)
  BY <1>2, <1>4
<1>6. /\ IInv' /\ job' = [job EXCEPT ![k] = row]
      /\ told' = told \union {<<p, k, row.state>>}
  BY <1>1, <1>3, <1>5, SettleKeeps
<1>7. job' = job
  BY <1>4, <1>6 DEF IInv, Typed, StoreTyped
<1>8. Lifecycle!Next
  BY <1>2, <1>4, <1>5, <1>6, <1>7, HearRefines
<1>9. UNCHANGED obs
  BY DEF Settle
<1> QED
  BY <1>6, <1>7, <1>8, <1>9 DEF Harmless

\* p gives its job up because that was asked of it, or is refused.
LEMMA AcknowledgeHarmless ==
    ASSUME IInv, NEW p \in Watchers, Acknowledge(p)
    PROVE  Harmless
<1>1. proc[p].at \in Running \ {"check", "ingest"} /\ proc[p].at \in Running
  BY DEF Acknowledge, At, Running
<1>2. PICK k \in Keys : k = proc[p].task
  BY <1>1 DEF IInv, ProcInv
<1>3. CASE Acknowledges(p)
  <2> DEFINE row == Table!Released(k, "CANCELLED", p, None, clock)
  <2>1. Settle(p, row) /\ Table!HoldsLease(p, k, clock) /\ Row(p).cancel
    BY <1>2, <1>3 DEF Acknowledges
  <2>2. job[k].state = "RUNNING" /\ job[k].owner = p /\ job[k].cancel
    BY <1>2, <2>1 DEF Row, Table!HoldsLease
  <2>3. Typed
    BY DEF IInv, Typed
  <2>4. Written(row, k, "CANCELLED")
    BY <2>3, ReleasedRow, EndsAndCodes, Zenon
  <2> HIDE DEF row
  <2> QED
    BY <1>1, <1>2, <2>1, <2>2, <2>4, EndsAndCodes, HolderHarmless
<1>4. CASE HearsCancelled(p)
  BY <1>1, <1>4, HearHarmless DEF HearsCancelled
<1>5. CASE \/ Refuse(p, [proc[p] EXCEPT !.at = "resolve"])
           \/ Refuse(p, Down)
  BY <1>1, <1>5, RefuseHarmless
<1> QED
  BY <1>3, <1>4, <1>5 DEF Acknowledge

\* p reports how its job ended, or is refused.
LEMMA ReportHarmless ==
    ASSUME IInv, NEW p \in Watchers, Report(p)
    PROVE  Harmless
<1>1. proc[p].at \in Running \ {"check", "ingest"} /\ proc[p].at \in Running
  BY DEF Report, At, Running
<1>2. PICK k \in Keys : k = proc[p].task
  BY <1>1 DEF IInv, ProcInv
<1>3. CASE Table!ActiveLease(p, k, proc[p].rev, clock) /\ Settle(p, Outcome(p))
  <2>1. job[k].state = "RUNNING" /\ job[k].owner = p /\ ~job[k].cancel
    BY <1>3 DEF Table!ActiveLease, Table!HoldsLease
  <2>2. Typed /\ RowInv
    BY DEF IInv, Typed
  <2>3. PICK state \in {"SUCCEEDED", "FAILED", "QUEUED"} :
           /\ Written(Outcome(p), k, state)
           /\ state = "QUEUED" => job[k].attempt < MaxAttempts
    BY <1>2, <2>1, <2>2, OutcomeRow
  <2>4. state \in Ends /\ state # "CANCELLED"
    BY DEF Ends
  <2> QED
    BY <1>1, <1>2, <1>3, <2>1, <2>3, <2>4, HolderHarmless
<1>4. CASE \/ Refuse(p, [proc[p] EXCEPT !.at = "resolve"])
           \/ Refuse(p, Down)
  BY <1>1, <1>4, RefuseHarmless
<1> QED
  BY <1>2, <1>3, <1>4 DEF Report

\* p was refused a completion and finds out why.
LEMMA ResolveHarmless ==
    ASSUME IInv, NEW p \in Watchers, Resolve(p)
    PROVE  Harmless
<1>1. proc[p].at \in Running \ {"check", "ingest"} /\ proc[p].at \in Running
  BY DEF Resolve, At, Running
<1>2. PICK k \in Keys : k = proc[p].task
  BY <1>1 DEF IInv, ProcInv
<1> DEFINE row == Table!Released(k, "CANCELLED", p, None, clock)
<1>3. CASE Table!HoldsLease(p, k, clock) /\ Row(p).cancel /\ Settle(p, row)
  <2>1. job[k].state = "RUNNING" /\ job[k].owner = p /\ job[k].cancel
    BY <1>2, <1>3 DEF Row, Table!HoldsLease
  <2>2. Typed
    BY DEF IInv, Typed
  <2>3. Written(row, k, "CANCELLED")
    BY <2>2, ReleasedRow, EndsAndCodes, Zenon
  <2> HIDE DEF row
  <2> QED
    BY <1>1, <1>2, <1>3, <2>1, <2>3, EndsAndCodes, HolderHarmless
<1>4. CASE Row(p).state = "CANCELLED" /\ Settle(p, Row(p))
  BY <1>1, <1>4, HearHarmless
<1>5. CASE Refuse(p, Down)
  BY <1>1, <1>5, RefuseHarmless
<1> QED
  BY <1>2, <1>3, <1>4, <1>5 DEF Resolve

\* The oldest job that is due goes to p.
LEMMA ClaimHarmless ==
    ASSUME IInv, NEW p \in Watchers, Claim(p)
    PROVE  Harmless
<1>1. PICK k \in Claimable :
         /\ job' = [job EXCEPT ![k] = Table!Claimed(k, p, clock, Lease)]
         /\ Goto(p, [proc[p] EXCEPT !.at = "check", !.task = k])
  BY DEF Claim
<1>2. k \in Keys /\ job[k].state = "QUEUED"
  BY DEF Claimable
<1>3. PICK row : row = Table!Claimed(k, p, clock, Lease)
  OBVIOUS
<1>4. /\ row \in Table!Row /\ row.state = "RUNNING" /\ row.attempt = job[k].attempt + 1
      /\ row.owner = p /\ row.cancel = job[k].cancel
  <2>1. Typed
    BY DEF IInv, Typed
  <2> QED
    BY <1>2, <1>3, <2>1, ClaimedRow
<1>5. Sound(row)
  <2>1. job[k].attempt < MaxAttempts /\ job[k].attempt \in Nat
    BY <1>2, RowsAreTyped DEF IInv, Typed, RowInv, Sound, Table!Row
  <2> QED
    BY <1>4, <2>1 DEF Sound
<1>6. /\ job' \in [Keys -> Table!Row]
      /\ \A l \in Keys : job'[l] = IF l = k THEN row ELSE job[l]
      /\ \A l \in Keys : Sound(job'[l])
      /\ \A l \in Keys : Live(l)' => Live(l)
  <2>1. job' = [job EXCEPT ![k] = row] /\ Live(k)
    BY <1>1, <1>2, <1>3 DEF Live
  <2> QED
    BY <1>2, <1>4, <1>5, <2>1, RowWritten
<1>7. Went(p) /\ ProcInv(p)'
  <2> DEFINE next == [proc[p] EXCEPT !.at = "check", !.task = k]
  <2>1. proc[p] \in Proc /\ At(p, "work") /\ proc[p].left > 0
    BY DEF Claim, At, IInv, Typed, ProcInv
  <2>2. next \in Proc
    BY <1>2, <2>1 DEF Proc, Place
  <2>3. next.at = "check" /\ next.task = k /\ next.left = proc[p].left
    BY <2>1 DEF Proc
  <2> HIDE DEF next
  <2>4. Goto(p, next)
    BY <1>1 DEF next
  <2>5. Went(p) /\ proc'[p] = next
    BY <2>2, <2>4, Goes DEF IInv
  <2>6. ProcInv(p)'
    BY <1>2, <2>1, <2>3, <2>5 DEF ProcInv, At, Running
  <2> QED
    BY <2>5, <2>6
<1>8. UNCHANGED <<clock, file, rescan, obs, told, sight, gone>>
  BY DEF Claim
<1>9. IInv'
  <2>1. told' \subseteq Watchers \X Keys \X Table!Answers
    BY <1>8 DEF IInv, Typed, StoreTyped
  <2>2. \A q \in Watchers : proc'[q] = proc[q] \/ ProcInv(q)'
    BY <1>7 DEF Went
  <2> QED
    BY <1>6, <1>7, <1>8, <2>1, <2>2, JobStepKeeps DEF Went
<1>10. Lifecycle!Next
  BY <1>2, <1>4, <1>6, <1>8, ClaimRefines
<1>11. \A l \in Keys : job[l].state = "ABSENT" => job'[l].state = "ABSENT"
  BY <1>2, <1>6
<1> QED
  BY <1>8, <1>9, <1>10, <1>11 DEF Harmless

\* An operator calls a job off: at once when it waits, else its holder is asked.
LEMMA CancelHarmless ==
    ASSUME IInv, NEW k \in Keys, Cancel(k)
    PROVE  Harmless
<1>1. UNCHANGED <<clock, file, rescan, obs, proc, told, sight, gone>>
  BY DEF Cancel
<1>2. Typed /\ proc' \in [Watchers -> Proc] /\ \A q \in Watchers : proc'[q] = proc[q]
  BY <1>1 DEF IInv, Typed
<1>3. told' \subseteq Watchers \X Keys \X Table!Answers
  BY <1>1 DEF IInv, Typed, StoreTyped
<1>4. job[k].attempt <= MaxAttempts /\ Sound(job[k])
  BY DEF IInv, RowInv, Sound
<1>5. CASE /\ job[k].state = "QUEUED"
           /\ job' = [job EXCEPT ![k] = Table!Released(k, "CANCELLED", None, None, clock)]
  <2>1. PICK row : row = Table!Released(k, "CANCELLED", None, None, clock)
    OBVIOUS
  <2>2. Written(row, k, "CANCELLED")
    <3>1. None \in Watchers \union {None}
      OBVIOUS
    <3>2. Written(Table!Released(k, "CANCELLED", None, None, clock), k, "CANCELLED")
      BY <1>2, <3>1, ReleasedRow, EndsAndCodes, Zenon
    <3> QED
      BY <2>1, <3>2
  <2>3. row \in Table!Row /\ Sound(row) /\ row.state = "CANCELLED"
    BY <1>4, <2>2 DEF Written, Sound
  <2>4. /\ job' \in [Keys -> Table!Row]
        /\ \A l \in Keys : job'[l] = IF l = k THEN row ELSE job[l]
        /\ \A l \in Keys : Sound(job'[l])
        /\ \A l \in Keys : Live(l)' => Live(l)
    <3>1. job' = [job EXCEPT ![k] = row]
      BY <1>5, <2>1
    <3> QED
      BY <2>3, <3>1, RowWritten
  <2>5. IInv'
    BY <1>1, <1>2, <1>3, <2>4, JobStepKeeps
  <2>6. Lifecycle!Next
    BY <1>1, <1>5, <2>2, <2>4, CallOffRefines
  <2>7. \A l \in Keys : job[l].state = "ABSENT" => job'[l].state = "ABSENT"
    BY <1>5, <2>4
  <2> QED
    BY <1>1, <2>5, <2>6, <2>7 DEF Harmless
<1>6. CASE /\ job[k].state = "RUNNING" /\ ~job[k].cancel
           /\ job' = [job EXCEPT ![k] = Table!Cancelling(k, clock)]
  <2>1. PICK row : row = Table!Cancelling(k, clock)
    OBVIOUS
  <2>2. /\ row \in Table!Row /\ row.state = job[k].state /\ row.attempt = job[k].attempt
        /\ row.owner = job[k].owner /\ row.cancel = TRUE
    BY <1>2, <2>1, CancellingRow
  <2>3. Sound(row)
    BY <1>4, <1>6, <2>2 DEF Sound
  <2>4. /\ job' \in [Keys -> Table!Row]
        /\ \A l \in Keys : job'[l] = IF l = k THEN row ELSE job[l]
        /\ \A l \in Keys : Sound(job'[l])
        /\ \A l \in Keys : Live(l)' => Live(l)
    <3>1. job' = [job EXCEPT ![k] = row] /\ Live(k)
      BY <1>6, <2>1 DEF Live
    <3> QED
      BY <2>2, <2>3, <3>1, RowWritten
  <2>5. IInv'
    BY <1>1, <1>2, <1>3, <2>4, JobStepKeeps
  <2>6. Lifecycle!Next
    BY <1>1, <1>6, <2>2, <2>4, AskRefines
  <2>7. \A l \in Keys : job[l].state = "ABSENT" => job'[l].state = "ABSENT"
    BY <1>6, <2>4
  <2> QED
    BY <1>1, <2>5, <2>6, <2>7 DEF Harmless
<1> QED
  BY <1>5, <1>6 DEF Cancel

\* A cycle begins by giving up on the leases that are over.
LEMMA RecoverHarmless ==
    ASSUME IInv, NEW p \in Watchers, Recover(p)
    PROVE  Harmless
<1>1. PICK lost \in SUBSET Keys : lost = Table!Expired(clock)
  BY DEF Table!Expired
<1>2. /\ UNCHANGED <<clock, file, rescan, obs, told, sight, gone>>
      /\ Goto(p, [Idle EXCEPT !.at = "scan"])
      /\ \A k \in Keys : job'[k] = IF k \in lost THEN Table!Recovered(k, clock) ELSE job[k]
      /\ job' = [k \in Keys |-> IF k \in lost THEN Table!Recovered(k, clock) ELSE job[k]]
  BY <1>1 DEF Recover
<1>3. \A k \in lost : job[k].state = "RUNNING"
  BY <1>1 DEF Table!Expired
<1>4. Typed
  BY DEF IInv, Typed
<1>5. ASSUME NEW k \in lost
      PROVE  Written(job'[k], k, IF job[k].cancel THEN "CANCELLED"
                                 ELSE IF job[k].attempt < MaxAttempts THEN "QUEUED" ELSE "FAILED")
  <2>1. k \in Keys /\ job'[k] = Table!Recovered(k, clock)
    BY <1>2
  <2>2. Written(Table!Recovered(k, clock), k,
                IF job[k].cancel THEN "CANCELLED"
                ELSE IF job[k].attempt < MaxAttempts THEN "QUEUED" ELSE "FAILED")
    BY <1>4, <2>1, RecoveredRow
  <2> QED
    BY <2>1, <2>2
<1>6. ASSUME NEW k \in Keys
      PROVE  /\ job'[k] \in Table!Row /\ Sound(job'[k])
             /\ Live(k)' => Live(k)
             /\ job[k].state = "ABSENT" => job'[k].state = "ABSENT"
  <2>1. job[k] \in Table!Row /\ Sound(job[k])
    BY <1>4, RowsAreTyped DEF IInv, RowInv
  <2>2. CASE k \in lost
    BY <1>3, <1>5, <2>1, <2>2 DEF Written, Sound, Live
  <2>3. CASE k \notin lost
    BY <1>2, <2>1, <2>3 DEF Live
  <2> QED
    BY <2>2, <2>3
<1>7. job' \in [Keys -> Table!Row]
  <2> DEFINE new(k) == IF k \in lost THEN Table!Recovered(k, clock) ELSE job[k]
  <2>1. \A k \in Keys : new(k) \in Table!Row
    BY <1>2, <1>6
  <2>2. job' = [k \in Keys |-> new(k)]
    BY <1>2
  <2> HIDE DEF new
  <2> QED
    BY <2>1, <2>2
<1>8. Went(p) /\ ProcInv(p)'
  <2> DEFINE next == [Idle EXCEPT !.at = "scan"]
  <2>1. next \in Proc /\ next.at = "scan"
    BY IdleIsProc DEF Proc, Place
  <2> HIDE DEF next
  <2>2. Went(p) /\ proc'[p] = next
    BY <1>2, <2>1, Goes DEF IInv, next
  <2> QED
    BY <2>1, <2>2, RestKeeps
<1>9. IInv'
  <2>1. told' \subseteq Watchers \X Keys \X Table!Answers
    BY <1>2 DEF IInv, Typed, StoreTyped
  <2>2. \A q \in Watchers : proc'[q] = proc[q] \/ ProcInv(q)'
    BY <1>8 DEF Went
  <2>3. proc' \in [Watchers -> Proc]
    BY <1>8 DEF Went
  <2>4. (\A k \in Keys : Sound(job'[k])) /\ (\A k \in Keys : Live(k)' => Live(k))
    BY <1>6
  <2>5. UNCHANGED <<clock, file, rescan, obs, sight, gone>>
    BY <1>2
  <2> QED
    BY <1>7, <2>1, <2>2, <2>3, <2>4, <2>5, JobStepKeeps
<1>10. [Lifecycle!Next]_(Lifecycle!vars)
  <2>1. CASE lost = {}
    <3>1. job' = job
      BY <1>2, <1>4, <2>1 DEF Typed, StoreTyped
    <3> QED
      BY <1>2, <3>1, Invisible
  <2>2. CASE lost # {}
    <3>1. \A k \in Keys : job[k].cancel \in BOOLEAN
      BY <1>4, RowsAreTyped DEF Table!Row
    <3>2. \A k \in lost :
             /\ job'[k].attempt = job[k].attempt /\ job'[k].owner = None
             /\ job'[k].cancel = FALSE
             /\ job'[k].state = IF job[k].cancel THEN "CANCELLED"
                                ELSE IF job[k].attempt < MaxAttempts THEN "QUEUED" ELSE "FAILED"
      BY <1>5 DEF Written
    <3>3. \A k \in Keys \ lost : job'[k] = job[k]
      BY <1>2
    <3> QED
      BY <1>2, <1>3, <2>2, <3>1, <3>2, <3>3, LoseRefines
  <2> QED
    BY <2>1, <2>2
<1> QED
  BY <1>2, <1>6, <1>9, <1>10 DEF Harmless

\* The files and the clock move, scans look, a scan is asked for: no job and no
\* observation is touched.
LEMMA WorldHarmless ==
    ASSUME IInv, proc' \in [Watchers -> Proc],
           \A q \in Watchers : proc'[q] = proc[q] \/ ProcInv(q)',
           UNCHANGED <<obs, job, told>>, rescan' = rescan \/ rescan' = TRUE,
           clock' \in Nat, clock <= clock', file' \in [Files -> Contents \union {None}],
           sight' \in [Keys -> Nat], gone' \in [Files -> Nat],
           \A k \in Keys : sight'[k] <= clock',
           \A k \in Keys : sight[k] > 0 => sight'[k] = sight[k],
           \A f \in Files : \/ file'[f] = None
                            \/ gone'[f] = clock
                            \/ file'[f] = file[f] /\ gone'[f] = gone[f]
                            \/ file[f] # None /\ gone'[f] = gone[f]
    PROVE  Harmless
<1>1. Typed /\ clock \in Nat
  BY DEF IInv, Typed, StoreTyped
<1>2. ASSUME NEW q \in Watchers PROVE ProcInv(q)'
  <2>1. CASE proc'[q] = proc[q]
    <3>1. ProcInv(q)
      BY DEF IInv
    <3> QED
      BY <1>1, <2>1, <3>1, OthersKept
  <2> QED
    BY <2>1
<1>3. StoreTyped'
  BY <1>1 DEF Typed, StoreTyped
<1>4. Typed'
  BY <1>2, <1>3, AllTyped
<1>5. SeenInv'
  <2>1. clock' > 0
    BY <1>1 DEF IInv, SeenInv
  <2>2. ASSUME NEW f \in Files, obs[f].print # None
        PROVE  sight'[<<f, obs[f].print>>] \in 1..obs[f].first
    <3>1. obs[f] \in Observation
      BY <1>1 DEF Typed, StoreTyped
    <3>2. <<f, obs[f].print>> \in Keys
      BY <2>2, <3>1 DEF Observation, Keys
    <3>3. sight[<<f, obs[f].print>>] \in 1..obs[f].first
      BY <2>2 DEF IInv, SeenInv
    <3>4. obs[f].first \in Nat
      BY <3>1 DEF Observation
    <3> QED
      BY <3>2, <3>3, <3>4
  <2> QED
    BY <2>1, <2>2 DEF SeenInv
<1>6. RowInv' /\ IsFiniteSet(LiveKeys)' /\ NothingStableForgotten'
  BY DEF IInv, RowInv, LiveKeys, Live, NothingStableForgotten
<1>7. IInv'
  BY <1>2, <1>4, <1>5, <1>6 DEF IInv
<1> QED
  BY <1>7, Invisible DEF Harmless

\* A scan that read everything says what is there, and when it was seen.
LEMMA ScanHarmless ==
    ASSUME IInv, NEW p \in Watchers, ScanCompletely(p)
    PROVE  Harmless
<1>0. PICK scan : scan = [complete |-> TRUE, entries |-> file, at |-> clock]
  OBVIOUS
<1> DEFINE next == [Idle EXCEPT !.at = "reconcile", !.scan = scan]
<1>1. /\ Typed /\ clock \in Nat /\ clock > 0 /\ sight \in [Keys -> Nat]
      /\ file \in [Files -> Contents \union {None}] /\ gone \in [Files -> Nat]
      /\ \A k \in Keys : sight[k] <= clock
  BY DEF IInv, Typed, StoreTyped, SeenInv
<1>2. /\ UNCHANGED <<clock, file, rescan, obs, job, told, gone>>
      /\ Goto(p, next)
      /\ sight' = [k \in Keys |-> IF file[k[1]] = k[2] /\ sight[k] = 0 THEN clock ELSE sight[k]]
  BY <1>0 DEF ScanCompletely
<1>3. scan \in Scans
  BY <1>0, <1>1 DEF Scans
<1>4. /\ scan.complete /\ scan.entries = file /\ scan.at = clock
  BY <1>0
<1>5. next \in Proc /\ next.at = "reconcile" /\ next.scan = scan
  BY <1>3, IdleIsProc DEF Proc, Place
<1> HIDE DEF next
<1>6. Went(p) /\ proc'[p] = next
  BY <1>1, <1>2, <1>5, Goes
<1>7. /\ sight' \in [Keys -> Nat]
      /\ \A k \in Keys : sight'[k] <= clock
      /\ \A k \in Keys : sight[k] > 0 => sight'[k] = sight[k]
  BY <1>1, <1>2
<1>8. ScanTrue(scan)'
  <2>1. ASSUME NEW f \in Files, file[f] # None
        PROVE  sight'[<<f, file[f]>>] \in 1..clock
    <3>1. <<f, file[f]>> \in Keys
      BY <1>1, <2>1 DEF Keys
    <3>2. PICK k \in Keys : k = <<f, file[f]>>
      BY <3>1
    <3>3. file[k[1]] = k[2]
      BY <3>2
    <3>4. sight'[k] = IF sight[k] = 0 THEN clock ELSE sight[k]
      BY <1>2, <3>3
    <3>5. sight'[k] \in 1..clock
      BY <1>1, <3>4
    <3> QED
      BY <3>5, <3>2
  <2> QED
    BY <1>1, <1>2, <1>4, <2>1 DEF ScanTrue
<1>9. ProcInv(p)'
  BY <1>3, <1>5, <1>6, <1>8 DEF ProcInv, At, Running
<1>10. \A q \in Watchers : proc'[q] = proc[q] \/ ProcInv(q)'
  BY <1>6, <1>9 DEF Went
<1> QED
  BY <1>1, <1>2, <1>6, <1>7, <1>10, WorldHarmless DEF Went

\* A scan that broke off says nothing.
LEMMA BrokenScanHarmless ==
    ASSUME IInv, NEW p \in Watchers, ScanIncompletely(p)
    PROVE  Harmless
<1>0. PICK scan : scan = [complete |-> FALSE, entries |-> [f \in Files |-> None], at |-> clock]
  OBVIOUS
<1> DEFINE next == [Idle EXCEPT !.at = "reconcile", !.scan = scan]
<1>1. Typed /\ clock \in Nat
  BY DEF IInv, Typed, StoreTyped
<1>2. UNCHANGED <<clock, file, rescan, obs, job, told, sight, gone>> /\ Goto(p, next)
  BY <1>0 DEF ScanIncompletely
<1>3. scan \in Scans /\ ~scan.complete /\ scan.at = clock
  BY <1>0, <1>1 DEF Scans
<1>4. next \in Proc /\ next.at = "reconcile" /\ next.scan = scan
  BY <1>3, IdleIsProc DEF Proc, Place
<1> HIDE DEF next
<1>5. Went(p) /\ proc'[p] = next
  BY <1>1, <1>2, <1>4, Goes
<1>6. ScanTrue(scan)'
  BY <1>1, <1>2, <1>3 DEF ScanTrue
<1>7. ProcInv(p)'
  BY <1>3, <1>4, <1>5, <1>6 DEF ProcInv, At, Running
<1> QED
  BY <1>2, <1>5, <1>7, QuietHarmless

\* After the reconciliation the cycle has its jobs to do, if it may do any.
WorkNext == IF MaxJobs = 0 THEN Idle ELSE [Idle EXCEPT !.at = "work", !.left = MaxJobs]

\* It knows what it has to about that.
LEMMA WorkBegins ==
    ASSUME Typed, NEW p \in Watchers, Goto(p, WorkNext)
    PROVE  Went(p) /\ ProcInv(p)'
<1>1. CASE MaxJobs = 0
  <2>1. WorkNext = Idle
    BY <1>1 DEF WorkNext
  <2>2. Went(p) /\ proc'[p] = Idle
    BY <2>1, IdleIsProc, Goes
  <2> QED
    BY <2>2, RestKeeps DEF Idle
<1>2. CASE MaxJobs # 0
  <2> DEFINE next == [Idle EXCEPT !.at = "work", !.left = MaxJobs]
  <2>1. MaxJobs \in 0..MaxJobs /\ MaxJobs > 0
    BY <1>2
  <2>2. next \in Proc
    BY <2>1, WorkIsProc
  <2>3. next.at = "work" /\ next.left = MaxJobs /\ WorkNext = next
    BY <1>2 DEF WorkNext, Idle
  <2> HIDE DEF next
  <2>4. Went(p) /\ proc'[p] = next
    BY <2>2, <2>3, Goes
  <2> QED
    BY <2>1, <2>3, <2>4, WorkKeeps
<1> QED
  BY <1>1, <1>2

\* An incomplete scan only asks for another one.
LEMMA BrokenReconcileHarmless ==
    ASSUME IInv, NEW p \in Watchers, ReconcileIncomplete(p)
    PROVE  Harmless
<1>1. Typed /\ Goto(p, WorkNext)
  BY DEF IInv, Typed, ReconcileIncomplete, WorkNext
<1>2. Went(p) /\ ProcInv(p)'
  BY <1>1, WorkBegins
<1>3. /\ UNCHANGED <<clock, file, obs, job, told, sight, gone>> /\ rescan' = TRUE
      /\ \A q \in Watchers : proc'[q] = proc[q] \/ ProcInv(q)'
      /\ proc' \in [Watchers -> Proc]
  BY <1>2 DEF ReconcileIncomplete, Went
<1>4. /\ clock \in Nat /\ file \in [Files -> Contents \union {None}]
      /\ sight \in [Keys -> Nat] /\ gone \in [Files -> Nat]
      /\ \A k \in Keys : sight[k] <= clock
  BY DEF IInv, Typed, StoreTyped, SeenInv
<1> QED
  BY <1>3, <1>4, WorldHarmless

\* Somebody writes, removes or moves back a file.
LEMMA ChangeHarmless ==
    ASSUME IInv, NEW f \in Files, Change(f)
    PROVE  Harmless
<1>1. /\ clock \in Nat /\ file \in [Files -> Contents \union {None}]
      /\ sight \in [Keys -> Nat] /\ gone \in [Files -> Nat]
      /\ \A k \in Keys : sight[k] <= clock
      /\ proc \in [Watchers -> Proc]
  BY DEF IInv, Typed, StoreTyped, SeenInv
<1>2. UNCHANGED <<clock, rescan, obs, job, proc, told, sight>>
  BY DEF Change
<1>3. PICK content \in Contents \union {None} : file' = [file EXCEPT ![f] = content]
  BY DEF Change
<1>4. gone' = [gone EXCEPT ![f] = IF file[f] = None THEN clock ELSE gone[f]]
  BY DEF Change
<1>5. file' \in [Files -> Contents \union {None}] /\ gone' \in [Files -> Nat]
  BY <1>1, <1>3, <1>4
<1>6. \A g \in Files : \/ file'[g] = None
                       \/ gone'[g] = clock
                       \/ file'[g] = file[g] /\ gone'[g] = gone[g]
                       \/ file[g] # None /\ gone'[g] = gone[g]
  BY <1>1, <1>3, <1>4
<1>7. clock' \in Nat /\ clock <= clock' /\ sight' \in [Keys -> Nat]
      /\ proc' \in [Watchers -> Proc] /\ \A k \in Keys : sight'[k] <= clock'
  BY <1>1, <1>2
<1> QED
  BY <1>2, <1>5, <1>6, <1>7, WorldHarmless

\* Time passes.
LEMMA TickHarmless ==
    ASSUME IInv, Tick
    PROVE  Harmless
<1>1. /\ clock \in Nat /\ file \in [Files -> Contents \union {None}]
      /\ sight \in [Keys -> Nat] /\ gone \in [Files -> Nat]
      /\ \A k \in Keys : sight[k] <= clock
      /\ proc \in [Watchers -> Proc]
  BY DEF IInv, Typed, StoreTyped, SeenInv
<1>2. /\ UNCHANGED <<file, rescan, obs, job, proc, told, sight, gone>>
      /\ clock' = clock + 1
  BY DEF Tick
<1>3. clock' \in Nat /\ clock <= clock' /\ \A k \in Keys : sight'[k] <= clock'
  BY <1>1, <1>2
<1> QED
  BY <1>1, <1>2, <1>3, WorldHarmless
-----------------------------------------------------------------------------
(* Reconciling a complete scan.                                            *)

\* A new observation bears what the scan found, begins no earlier than the
\* first sight of it, is stable when that is a whole window ago, and declares
\* a file gone that is.
LEMMA ObservedFacts ==
    ASSUME IInv, NEW scan \in Scans, ScanTrue(scan), scan.complete, NEW f \in Files,
           Consistent(f, scan), NEW o, o = Observed(f, scan)
    PROVE  /\ o \in Observation
           /\ o.print # None => /\ <<f, o.print>> \in Keys
                                /\ sight[<<f, o.print>>] \in 1..o.first
           /\ o.state = "STABLE" =>
                 /\ o.print # None
                 /\ clock >= sight[<<f, o.print>>] + Stability
           /\ o.state = "TOMBSTONED" /\ obs[f].state # "TOMBSTONED" =>
                 file[f] = None \/ gone[f] >= o.first
<1>1. /\ obs[f] \in Observation /\ clock \in Nat /\ scan.at \in Nat /\ scan.at <= clock
      /\ scan.entries[f] \in Contents \union {None} /\ Stability \in Nat
      /\ file[f] \in Contents \union {None} /\ gone[f] \in Nat
      /\ sight \in [Keys -> Nat]
  BY DEF IInv, Typed, StoreTyped, Scans, ScanTrue
<1>2. CASE scan.entries[f] = None
  <2>0. PICK state \in {"UNSEEN", "TOMBSTONED"} :
           state = IF obs[f].state = "UNSEEN" THEN "UNSEEN" ELSE "TOMBSTONED"
    OBVIOUS
  <2>1. o = [obs[f] EXCEPT !.state = state, !.print = None, !.since = 0]
    BY <1>2, <2>0 DEF Observed, Missing
  <2>2. /\ o \in Observation /\ o.print = None /\ o.first = obs[f].first
        /\ o.state \in {"UNSEEN", "TOMBSTONED"}
    <3>1. PICK old \in Observation : old = obs[f]
      BY <1>1
    <3>2. o = [old EXCEPT !.state = state, !.print = None, !.since = 0]
      BY <2>1, <3>1
    <3>3. o.print = None /\ o.first = old.first /\ o.state = state
      BY <3>2 DEF Observation
    <3>4. o \in Observation
      <4>1. o = [state |-> state, print |-> None, first |-> old.first, since |-> 0,
                 key |-> old.key]
        BY <3>2 DEF Observation
      <4>2. /\ old.first \in Nat /\ old.key \in Contents \union {None}
            /\ state \in {"UNSEEN", "CANDIDATE", "STABLE", "TOMBSTONED"}
        BY DEF Observation
      <4>3. None \in Contents \union {None} /\ 0 \in Nat
        OBVIOUS
      <4> QED
        BY <4>1, <4>2, <4>3 DEF Observation
    <3> QED
      BY <3>1, <3>3, <3>4
  <2>3. ASSUME o.state = "TOMBSTONED", obs[f].state # "TOMBSTONED"
        PROVE  file[f] = None \/ gone[f] >= o.first
    <3>1. o.first <= scan.at
      BY <2>3 DEF Consistent
    <3>2. file[f] = None \/ gone[f] >= scan.at
      BY <1>2 DEF ScanTrue
    <3>3. o.first \in Nat
      BY <2>2 DEF Observation
    <3> QED
      BY <1>1, <3>1, <3>2, <3>3
  <2> QED
    BY <2>2, <2>3
<1>3. CASE scan.entries[f] # None
  <2>1. PICK print \in Contents : print = scan.entries[f]
    BY <1>1, <1>3
  <2>2. <<f, print>> \in Keys /\ sight[<<f, print>>] \in 1..scan.at
    BY <1>3, <2>1 DEF ScanTrue, Keys
  <2>3. o = Seen(f, print, scan.at)
    BY <1>3, <2>1 DEF Observed
  <2>4. CASE obs[f].print # print
    <3>1. o = [state |-> IF Stability = 0 THEN "STABLE" ELSE "CANDIDATE",
               print |-> print, first |-> scan.at,
               since |-> IF Stability = 0 THEN scan.at ELSE 0, key |-> None]
      BY <2>3, <2>4 DEF Seen
    <3>2. /\ o \in Observation /\ o.print = print /\ o.first = scan.at
          /\ o.state = IF Stability = 0 THEN "STABLE" ELSE "CANDIDATE"
      BY <1>1, <3>1 DEF Observation
    <3>3. o.state = "STABLE" => clock >= sight[<<f, print>>] + Stability
      BY <1>1, <2>2, <3>2
    <3> QED
      BY <1>3, <2>1, <2>2, <3>2, <3>3
  <2>5. CASE obs[f].print = print
    <3>0. PICK state \in {"STABLE", "CANDIDATE"}, since \in Nat :
             /\ state = IF scan.at >= obs[f].first + Stability THEN "STABLE" ELSE "CANDIDATE"
             /\ since = IF ~(scan.at >= obs[f].first + Stability) THEN 0
                        ELSE IF obs[f].since = 0 THEN scan.at ELSE obs[f].since
      BY <1>1 DEF Observation
    <3>1. o = [obs[f] EXCEPT !.state = state, !.since = since]
      BY <2>3, <2>5, <3>0 DEF Seen
    <3>2. /\ o \in Observation /\ o.print = print /\ o.first = obs[f].first
          /\ o.state = IF scan.at >= obs[f].first + Stability THEN "STABLE" ELSE "CANDIDATE"
      BY <1>1, <2>5, <3>0, <3>1 DEF Observation
    <3>3. sight[<<f, print>>] \in 1..o.first
      BY <1>3, <2>1, <2>5, <3>2 DEF IInv, SeenInv
    <3>4. o.first \in Nat
      BY <3>2 DEF Observation
    <3>5. o.state = "STABLE" => clock >= sight[<<f, print>>] + Stability
      BY <1>1, <2>2, <3>2, <3>3, <3>4
    <3> QED
      BY <1>3, <2>1, <2>2, <3>2, <3>3, <3>5
  <2> QED
    BY <2>4, <2>5
<1> QED
  BY <1>2, <1>3

\* Scheduling no more files than there is room for keeps the limit.
LEMMA LimitKept ==
    ASSUME IInv, NEW due \in SUBSET Files, NEW chosen \in Chosen(due),
           NEW print, \A k \in Keys : Live(k)' => Live(k) \/ (k[1] \in chosen /\ k[2] = print[k[1]])
    PROVE  IsFiniteSet(LiveKeys') /\ Cardinality(LiveKeys') <= MaxActive
<1>1. /\ chosen \in SUBSET due /\ IsFiniteSet(Files) /\ IsFiniteSet(LiveKeys)
      /\ Room = MaxActive - Cardinality(LiveKeys) /\ MaxActive \in Nat
      /\ Cardinality(chosen) = IF Cardinality(due) <= Room THEN Cardinality(due) ELSE Room
  BY DEF IInv, Chosen, Room, LiveKeys
<1>2. IsFiniteSet(due)
  BY <1>1, FS_Subset
<1>3. IsFiniteSet(chosen)
  BY <1>1, <1>2, FS_Subset
<1>4. Cardinality(due) \in Nat /\ Cardinality(chosen) \in Nat /\ Cardinality(LiveKeys) \in Nat
  BY <1>1, <1>2, <1>3, FS_CardinalityType
<1>5. Cardinality(chosen) <= Room
  BY <1>1, <1>4
<1> DEFINE named == {<<f, print[f]>> : f \in chosen}
           name == [f \in chosen |-> <<f, print[f]>>]
<1>6. IsFiniteSet(named) /\ Cardinality(named) <= Cardinality(chosen)
  <2>1. name \in Surjection(chosen, named)
    BY DEF Surjection
  <2> HIDE DEF name, named
  <2> QED
    BY <1>3, <2>1, FS_Surjection
<1>7. LiveKeys' \subseteq LiveKeys \union named
  <2> SUFFICES ASSUME NEW k \in Keys, Live(k)', ~Live(k)
               PROVE  k \in named
    BY DEF LiveKeys
  <2>1. k[1] \in chosen /\ k = <<k[1], print[k[1]]>>
    BY DEF Keys
  <2> QED
    BY <2>1
<1> HIDE DEF named
<1>8. /\ IsFiniteSet(LiveKeys \union named)
      /\ Cardinality(LiveKeys \union named)
            = Cardinality(LiveKeys) + Cardinality(named) - Cardinality(LiveKeys \intersect named)
  BY <1>1, <1>6, FS_Union
<1>9. IsFiniteSet(LiveKeys \intersect named)
  BY <1>1, FS_Intersection
<1>10. Cardinality(LiveKeys \intersect named) \in Nat /\ Cardinality(named) \in Nat
  BY <1>6, <1>9, FS_CardinalityType
<1>11. /\ IsFiniteSet(LiveKeys')
       /\ Cardinality(LiveKeys') <= Cardinality(LiveKeys \union named)
  BY <1>7, <1>8, FS_Subset
<1>12. Cardinality(LiveKeys') \in Nat
  BY <1>11, FS_CardinalityType
<1> QED
  BY <1>1, <1>4, <1>5, <1>6, <1>8, <1>10, <1>11, <1>12

\* What a step may schedule, and what it may declare gone.
SchedulesStable ==
    \A k \in Keys : job[k].state = "ABSENT" /\ job'[k].state # "ABSENT" =>
        clock >= sight[k] + Stability /\ sight[k] > 0

TombstonesTrue ==
    \A f \in Files : obs[f].state # "TOMBSTONED" /\ obs'[f].state = "TOMBSTONED" =>
        file[f] = None \/ gone[f] >= obs[f].first

\* The row of a job that was just made.
LEMMA NewRow ==
    ASSUME Typed
    PROVE  /\ NewJob \in Table!Row /\ Sound(NewJob)
           /\ NewJob.state = "QUEUED" /\ NewJob.owner = None
           /\ NewJob.attempt = 0 /\ NewJob.cancel = FALSE
<1>1. clock \in Nat
  BY DEF Typed, StoreTyped
<1>2. PICK blank : blank = Table!NoRow
  OBVIOUS
<1>3. blank \in Table!Row /\ blank.owner = None /\ blank.attempt = 0 /\ blank.cancel = FALSE
  BY <1>2 DEF Table!NoRow, Table!Row
<1>4. NewJob = [blank EXCEPT !.state = "QUEUED", !.available = clock,
                             !.created = clock, !.updated = clock]
  BY <1>2 DEF NewJob
<1>5. /\ NewJob \in Table!Row
      /\ NewJob.state = "QUEUED" /\ NewJob.owner = None
      /\ NewJob.attempt = 0 /\ NewJob.cancel = FALSE
  BY <1>1, <1>3, <1>4 DEF Table!Row, Table!Live
<1> QED
  BY <1>5 DEF Sound

\* Observations, jobs and root are written together: what is due is scheduled
\* as far as there is room, the rest is remembered with the root.
LEMMA ReconcileSound ==
    ASSUME IInv, NEW p \in Watchers, Reconcile(p)
    PROVE  IInv' /\ [Lifecycle!Next]_(Lifecycle!vars) /\ SchedulesStable /\ TombstonesTrue
<1>1. PICK scan \in Scans : scan = proc[p].scan /\ ScanTrue(scan) /\ scan.complete
  BY DEF Reconcile, IInv, ProcInv
<1>2. PICK new : new = [f \in Files |-> Observed(f, proc[p].scan)]
  OBVIOUS
<1>3. /\ \A f \in Files : Consistent(f, scan)
      /\ Goto(p, WorkNext)
      /\ UNCHANGED <<clock, file, told, sight, gone, spent>>
  BY <1>1 DEF Reconcile, WorkNext
<1>4. PICK due \in SUBSET Files : due = Due(new)
  BY DEF Due
<1>5. PICK chosen \in Chosen(due) :
         /\ obs' = [f \in Files |->
                IF f \in chosen THEN [new[f] EXCEPT !.key = new[f].print] ELSE new[f]]
         /\ job' = [k \in Keys |->
                IF k[1] \in chosen /\ new[k[1]].print = k[2] /\ job[k].state = "ABSENT"
                THEN NewJob ELSE job[k]]
         /\ rescan' = Postponed(due, chosen)
  BY <1>2, <1>4 DEF Reconcile
<1>6. /\ chosen \subseteq due
      /\ \A f \in Files : f \in due <=> new[f].state = "STABLE" /\ new[f].key # new[f].print
  BY <1>4 DEF Chosen, Due
<1>7. ASSUME NEW f \in Files
      PROVE  /\ new[f] \in Observation
             /\ new[f].print # None => /\ <<f, new[f].print>> \in Keys
                                       /\ sight[<<f, new[f].print>>] \in 1..new[f].first
             /\ new[f].state = "STABLE" =>
                   /\ new[f].print # None
                   /\ clock >= sight[<<f, new[f].print>>] + Stability
             /\ new[f].state = "TOMBSTONED" /\ obs[f].state # "TOMBSTONED" =>
                   file[f] = None \/ gone[f] >= new[f].first
  <2>1. new[f] = Observed(f, scan) /\ Consistent(f, scan)
    BY <1>1, <1>2, <1>3
  <2> QED
    BY <1>1, <2>1, ObservedFacts
<1>8. ASSUME NEW f \in Files
      PROVE  /\ obs'[f] \in Observation /\ obs'[f].state = new[f].state
             /\ obs'[f].print = new[f].print /\ obs'[f].first = new[f].first
             /\ f \in chosen => obs'[f].key = obs'[f].print
             /\ f \notin chosen => obs'[f].key = new[f].key
  <2>1. PICK o \in Observation : o = new[f]
    BY <1>7
  <2>2. obs'[f] = IF f \in chosen THEN [o EXCEPT !.key = o.print] ELSE o
    BY <1>5, <2>1
  <2> QED
    BY <2>1, <2>2 DEF Observation
<1>9. PICK fresh \in SUBSET Keys :
         fresh = {k \in Keys : k[1] \in chosen /\ new[k[1]].print = k[2] /\ job[k].state = "ABSENT"}
  OBVIOUS
<1>10. \A k \in Keys : job'[k] = IF k \in fresh THEN NewJob ELSE job[k]
  BY <1>5, <1>9
<1>11. /\ Typed /\ NewJob \in Table!Row /\ Sound(NewJob)
       /\ NewJob.state = "QUEUED" /\ NewJob.owner = None
       /\ NewJob.attempt = 0 /\ NewJob.cancel = FALSE
  <2>1. Typed
    BY DEF IInv, Typed
  <2> QED
    BY <2>1, NewRow
<1>12. /\ job' \in [Keys -> Table!Row]
       /\ \A k \in Keys : Sound(job'[k])
  <2>1. \A k \in Keys : job[k] \in Table!Row /\ Sound(job[k])
    BY <1>11, RowsAreTyped DEF IInv, RowInv
  <2>2. \A k \in Keys : job'[k] \in Table!Row /\ Sound(job'[k])
    BY <1>10, <1>11, <2>1
  <2>3. job' = [k \in Keys |-> job'[k]]
    BY <1>5
  <2> QED
    BY <2>2, <2>3
<1>13. Typed' /\ \A q \in Watchers : ProcInv(q)'
  <2>1. Typed /\ Went(p) /\ ProcInv(p)'
    <3>1. Typed
      BY DEF IInv
    <3> QED
      BY <1>3, <3>1, WorkBegins
  <2>2. ASSUME NEW q \in Watchers PROVE ProcInv(q)'
    <3>1. CASE q = p
      BY <2>1, <3>1
    <3>2. CASE q # p
      <4>1. proc'[q] = proc[q] /\ ProcInv(q)
        BY <2>1, <3>2 DEF Went, IInv
      <4>2. clock \in Nat
        BY <1>11 DEF Typed, StoreTyped
      <4> QED
        BY <1>3, <2>1, <4>1, <4>2, OthersKept
    <3> QED
      BY <3>1, <3>2
  <2>3. obs' \in [Files -> Observation]
    <3>1. obs' = [f \in Files |-> obs'[f]]
      BY <1>5
    <3> QED
      BY <1>8, <3>1
  <2>4. rescan' \in BOOLEAN
    BY <1>5 DEF Postponed
  <2>5. StoreTyped'
    BY <1>3, <1>11, <1>12, <2>3, <2>4 DEF Typed, StoreTyped
  <2> QED
    BY <2>1, <2>2, <2>5, AllTyped DEF Went
<1>14. SeenInv'
  <2>1. \A f \in Files : obs'[f].print # None =>
           sight[<<f, obs'[f].print>>] \in 1..obs'[f].first
    BY <1>7, <1>8
  <2> QED
    BY <1>3, <2>1 DEF IInv, SeenInv
<1>15. IsFiniteSet(LiveKeys)' /\ NothingStableForgotten'
  <2> DEFINE print == [f \in Files |-> new[f].print]
  <2>1. \A k \in Keys : Live(k)' => Live(k) \/ (k[1] \in chosen /\ k[2] = print[k[1]])
    <3> SUFFICES ASSUME NEW k \in Keys, Live(k)', ~Live(k)
                 PROVE  k[1] \in chosen /\ k[2] = print[k[1]]
      OBVIOUS
    <3>1. k \in fresh
      BY <1>10 DEF Live
    <3> QED
      BY <1>6, <1>9, <3>1 DEF Keys
  <2> HIDE DEF print
  <2>2. IsFiniteSet(LiveKeys') /\ Cardinality(LiveKeys') <= MaxActive
    BY <2>1, LimitKept
  <2>3. ASSUME NEW f \in Files, obs'[f].state = "STABLE", obs'[f].key # obs'[f].print
        PROVE  rescan'
    <3>1. f \notin chosen /\ f \in due
      BY <1>6, <1>8, <2>3
    <3>2. chosen # due
      BY <3>1
    <3> QED
      BY <1>5, <3>2 DEF Postponed
  <2> QED
    BY <2>2, <2>3 DEF NothingStableForgotten, LiveKeys
<1>16. IInv'
  BY <1>12, <1>13, <1>14, <1>15 DEF IInv, RowInv
<1>17. [Lifecycle!Next]_(Lifecycle!vars)
  <2>1. \A k \in fresh : job[k].state = "ABSENT" /\ job[k].owner = None
                         /\ job[k].attempt = 0 /\ job[k].cancel = FALSE
    BY <1>9 DEF IInv, RowInv, Sound
  <2>2. \A k \in fresh : /\ job'[k].state = "QUEUED" /\ job'[k].owner = None
                         /\ job'[k].attempt = 0 /\ job'[k].cancel = FALSE
    BY <1>10, <1>11
  <2>3. \A k \in Keys \ fresh : job'[k] = job[k]
    BY <1>10
  <2> QED
    BY <1>3, <2>1, <2>2, <2>3, SubmitRefines
<1>18. SchedulesStable
  <2> SUFFICES ASSUME NEW k \in Keys, job[k].state = "ABSENT", job'[k].state # "ABSENT"
               PROVE  clock >= sight[k] + Stability /\ sight[k] > 0
    BY DEF SchedulesStable
  <2>1. k \in fresh
    BY <1>10
  <2>2. PICK f \in Files : f = k[1] /\ f \in due /\ k = <<f, new[f].print>>
    BY <1>6, <1>9, <2>1 DEF Keys
  <2>3. new[f].state = "STABLE" /\ new[f] \in Observation
    BY <1>6, <1>7, <2>2
  <2>4. clock >= sight[k] + Stability /\ sight[k] \in 1..new[f].first
    BY <1>7, <2>2, <2>3
  <2> QED
    BY <2>3, <2>4 DEF Observation
<1>19. TombstonesTrue
  <2> SUFFICES ASSUME NEW f \in Files, obs[f].state # "TOMBSTONED", obs'[f].state = "TOMBSTONED"
               PROVE  file[f] = None \/ gone[f] >= obs[f].first
    BY DEF TombstonesTrue
  <2>1. new[f].state = "TOMBSTONED" /\ new[f].first = obs[f].first
    <3>1. new[f].state = "TOMBSTONED" /\ new[f] = Observed(f, scan)
      BY <1>1, <1>2, <1>8
    <3>2. CASE scan.entries[f] = None
      <4>1. obs[f] \in Observation /\ new[f] = Missing(f)
        BY <1>11, <3>1, <3>2 DEF Typed, StoreTyped, Observed
      <4>2. Missing(f).first = obs[f].first
        BY <4>1 DEF Missing, Observation
      <4> QED
        BY <3>1, <4>1, <4>2
    <3>3. CASE scan.entries[f] # None
      <4>1. obs[f] \in Observation /\ new[f] = Seen(f, scan.entries[f], scan.at)
        BY <1>11, <3>1, <3>3 DEF Typed, StoreTyped, Observed
      <4>2. Seen(f, scan.entries[f], scan.at).state \in {"STABLE", "CANDIDATE"}
        BY <4>1 DEF Seen, Observation
      <4> QED
        BY <3>1, <4>1, <4>2
    <3> QED
      BY <3>2, <3>3
  <2> QED
    BY <1>7, <2>1
<1> QED
  BY <1>16, <1>17, <1>18, <1>19
-----------------------------------------------------------------------------
(* The theorems.                                                           *)

\* A new root has no jobs, and nothing is known of its files.
LEMMA InitSound == Init => IInv /\ Lifecycle!Init
<1> SUFFICES ASSUME Init PROVE IInv /\ Lifecycle!Init
  OBVIOUS
<1>1. \A k \in Keys : job[k] = Table!NoRow
  BY DEF Init
<1>2. /\ Table!NoRow.state = "ABSENT" /\ Table!NoRow.attempt = 0
      /\ Table!NoRow.owner = None /\ Table!NoRow.cancel = FALSE
      /\ Table!NoRow \in Table!Row
  BY DEF Table!NoRow, Table!Row
<1>3. \A p \in Watchers : ProcInv(p) /\ proc[p] = Idle
  BY DEF Init, ProcInv, At, Idle, Running
<1>4. Typed
  <2>1. proc \in [Watchers -> Proc]
    BY IdleIsProc DEF Init
  <2>2. obs \in [Files -> Observation]
    BY DEF Init, Unseen, Observation
  <2>3. job \in [Keys -> Table!Row]
    BY <1>2 DEF Init
  <2>4. \A p \in Watchers : At(p, "work") => proc[p].left > 0
    BY <1>3 DEF At, Idle
  <2>5. StoreTyped
    BY <2>2, <2>3 DEF Init, StoreTyped
  <2> QED
    BY <2>1, <2>4, <2>5 DEF Typed
<1>5. SeenInv
  BY DEF Init, SeenInv, Unseen
<1>6. RowInv
  BY <1>1, <1>2 DEF RowInv, Sound
<1>7. LiveKeys = {}
  BY <1>1, <1>2 DEF LiveKeys, Live
<1>8. IsFiniteSet(LiveKeys) /\ NothingStableForgotten
  <2>1. IsFiniteSet(LiveKeys) /\ Cardinality(LiveKeys) = 0
    BY <1>7, FS_EmptySet
  <2> QED
    BY <2>1 DEF NothingStableForgotten, LiveKeys, Init
<1>9. Lifecycle!Init
  <2>1. [k \in Keys |-> job[k].state] = [k \in Keys |-> "ABSENT"]
    BY <1>1, <1>2
  <2>2. [k \in Keys |-> job[k].attempt] = [k \in Keys |-> 0]
    BY <1>1, <1>2
  <2>3. [k \in Keys |-> job[k].owner] = [k \in Keys |-> None]
    BY <1>1, <1>2
  <2>4. [k \in Keys |-> job[k].cancel] = [k \in Keys |-> FALSE]
    BY <1>1, <1>2
  <2>5. told = {}
    BY DEF Init
  <2> QED
    BY <2>1, <2>2, <2>3, <2>4, <2>5 DEF Lifecycle!Init
<1> QED
  BY <1>3, <1>4, <1>5, <1>6, <1>8, <1>9 DEF IInv

\* Every step keeps the invariant, is a step of the lifecycle or invisible to
\* it, and schedules and declares gone only what it may.
LEMMA StepSound ==
    ASSUME IInv, [Next]_vars
    PROVE  IInv' /\ [Lifecycle!Next]_(Lifecycle!vars) /\ SchedulesStable /\ TombstonesTrue
<1>1. CASE Harmless
  <2>1. IInv' /\ [Lifecycle!Next]_(Lifecycle!vars) /\ SchedulesStable
    BY <1>1 DEF Harmless, SchedulesStable
  <2>2. TombstonesTrue
    BY <1>1 DEF Harmless, TombstonesTrue
  <2> QED
    BY <2>1, <2>2
<1>2. ASSUME NEW p \in Watchers, Step(p), ~Reconcile(p)
      PROVE  Harmless
  <2>1. NothingToClaim(p) => Harmless
    BY IdleIsProc, RestHarmless DEF NothingToClaim, Idle
  <2>2. RefuseScan(p) => Harmless
    BY AbortHarmless DEF RefuseScan
  <2> QED
    BY <1>2, <2>1, <2>2, RecoverHarmless, ScanHarmless, BrokenReconcileHarmless,
       ClaimHarmless, RevalidateHarmless, IngestHarmless, ReadHarmless,
       ReportHarmless, AcknowledgeHarmless, ResolveHarmless DEF Step
<1>3. ASSUME NEW p \in Watchers, ScanIncompletely(p) \/ Crash(p) \/ Restart(p)
      PROVE  Harmless
  <2>1. Crash(p) => Harmless
    BY AbortHarmless DEF Crash
  <2>2. Restart(p) => Harmless
    BY IdleIsProc, RestHarmless DEF Restart, Idle
  <2> QED
    BY <1>3, <2>1, <2>2, BrokenScanHarmless
<1>4. CASE UNCHANGED vars
  <2>1. UNCHANGED <<clock, file, rescan, obs, job, told, sight, gone, proc>>
    BY <1>4 DEF vars
  <2>2. /\ proc' \in [Watchers -> Proc] /\ \A q \in Watchers : proc'[q] = proc[q]
        /\ clock \in Nat /\ file \in [Files -> Contents \union {None}]
        /\ sight \in [Keys -> Nat] /\ gone \in [Files -> Nat]
        /\ \A k \in Keys : sight[k] <= clock
    BY <2>1 DEF IInv, Typed, StoreTyped, SeenInv
  <2>3. Harmless
    BY <2>1, <2>2, WorldHarmless
  <2> QED
    BY <1>1, <2>3
<1>5. ASSUME NEW p \in Watchers, Reconcile(p)
      PROVE  IInv' /\ [Lifecycle!Next]_(Lifecycle!vars) /\ SchedulesStable /\ TombstonesTrue
  BY <1>5, ReconcileSound
<1> QED
  BY <1>1, <1>2, <1>3, <1>4, <1>5, ChangeHarmless, CancelHarmless, TickHarmless DEF Next

\* The watcher never leaves the states its inductive invariant describes.
LEMMA Inductive == Spec => []IInv
<1>1. IInv /\ [Next]_vars => IInv'
  BY StepSound
<1> QED
  BY <1>1, InitSound, PTL DEF Spec

\* Every variable keeps its type, and a process at work has a job left to do.
THEOREM TypeCorrect == Spec => []TypeOK
<1> DEFINE Spent == spent \in [changes: 0..MaxChanges, faults: 0..MaxFaults]
<1>1. IInv /\ Spent => TypeOK
  BY DEF IInv, Typed, StoreTyped, TypeOK
<1>2. Init => Spent
  BY DEF Init
<1>3. ASSUME Spent, [Next]_vars PROVE Spent'
  <2>1. CASE UNCHANGED spent
    BY <1>3, <2>1
  <2>2. ASSUME spent.faults < MaxFaults, spent' = [spent EXCEPT !.faults = @ + 1]
        PROVE  Spent'
    BY <1>3, <2>2
  <2>3. ASSUME spent.changes < MaxChanges, spent' = [spent EXCEPT !.changes = @ + 1]
        PROVE  Spent'
    BY <1>3, <2>3
  <2>4. ASSUME NEW p \in Watchers, Step(p) \/ Restart(p) PROVE UNCHANGED spent
    BY <2>4 DEF Step, Restart, Recover, ScanCompletely, Reconcile, ReconcileIncomplete,
       RefuseScan, Claim, NothingToClaim, Revalidate, Ingest, Read, Report, Acknowledge,
       Acknowledges, HearsCancelled, Resolve, Settle, Refuse
  <2>5. ASSUME NEW p \in Watchers, ScanIncompletely(p) \/ Crash(p)
        PROVE  spent.faults < MaxFaults /\ spent' = [spent EXCEPT !.faults = @ + 1]
    BY <2>5 DEF ScanIncompletely, Crash
  <2>6. ASSUME NEW f \in Files, Change(f)
        PROVE  spent.changes < MaxChanges /\ spent' = [spent EXCEPT !.changes = @ + 1]
    BY <2>6 DEF Change
  <2>7. (\E k \in Keys : Cancel(k)) \/ Tick \/ UNCHANGED vars => UNCHANGED spent
    BY DEF Cancel, Tick, vars
  <2> QED
    BY <1>3, <2>1, <2>2, <2>3, <2>4, <2>5, <2>6, <2>7 DEF Next
<1> QED
  BY <1>1, <1>2, <1>3, Inductive, PTL DEF Spec

\* No stable content is forgotten, however many scans of however many processes
\* are reconciled in whatever order, and the live jobs never exceed their limit.
THEOREM NothingForgotten == Spec => []NothingStableForgotten
<1>1. IInv => NothingStableForgotten
  BY DEF IInv
<1> QED
  BY <1>1, Inductive, PTL

\* A content is scheduled only a whole stability window after some scan saw it.
THEOREM OnlyStableScheduled == Spec => StableBeforeScheduled
<1>1. IInv /\ [Next]_vars =>
         [\A k \in Keys : job[k].state = "ABSENT" /\ job'[k].state # "ABSENT" =>
             clock >= sight[k] + Stability /\ sight[k] > 0]_vars
  BY StepSound DEF SchedulesStable
<1> QED
  BY <1>1, Inductive, PTL DEF Spec, StableBeforeScheduled

\* A file that is declared gone is gone, or was since its content was first seen.
THEOREM GoneIsGone == Spec => TombstonesAreTrue
<1>1. IInv /\ [Next]_vars =>
         [\A f \in Files : obs[f].state # "TOMBSTONED" /\ obs'[f].state = "TOMBSTONED" =>
             file[f] = None \/ gone[f] >= obs[f].first]_vars
  BY StepSound DEF TombstonesTrue
<1> QED
  BY <1>1, Inductive, PTL DEF Spec, TombstonesAreTrue

\* The jobs of a watched root follow the lifecycle that the job table promises,
\* whatever the cycles of several watchers, their crashes and operators do.
THEOREM WatcherImplementsLifecycle == Spec => ImplementsLifecycle
<1>1. IInv /\ [Next]_vars => [Lifecycle!Next]_(Lifecycle!vars)
  BY StepSound
<1>2. Init => Lifecycle!Init
  BY InitSound
<1> QED
  BY <1>1, <1>2, Inductive, PTL DEF Spec, ImplementsLifecycle, Lifecycle!Spec
=============================================================================
