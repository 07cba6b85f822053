---------------------------- MODULE JobLifecycle ----------------------------
(***************************************************************************)
(* What the job table promises to those who use it, with no clock, lease,  *)
(* revision or token: a job is run at most MaxAttempts times, by one       *)
(* worker at a time; only its holder reports an outcome, an outcome that   *)
(* was reported is the outcome of the job, and a job whose cancellation    *)
(* was requested ends in no other way.                                     *)
(***************************************************************************)
EXTENDS Naturals

CONSTANTS Jobs, Workers, None, MaxAttempts

VARIABLES
    phase,       \* the state of every job
    attempts,    \* how often it was started
    holder,      \* the worker that runs it now
    cancelling,  \* a cancellation waits for the holder
    reported     \* <<worker, job, answer>>: outcomes given to workers

vars == <<phase, attempts, holder, cancelling, reported>>

Init ==
    /\ phase = [j \in Jobs |-> "ABSENT"]
    /\ attempts = [j \in Jobs |-> 0]
    /\ holder = [j \in Jobs |-> None]
    /\ cancelling = [j \in Jobs |-> FALSE]
    /\ reported = {}

\* New jobs, one or several together (a scan may schedule many).
Submit(new) ==
    /\ new # {} /\ \A j \in new : phase[j] = "ABSENT"
    /\ phase' = [j \in Jobs |-> IF j \in new THEN "QUEUED" ELSE phase[j]]
    /\ UNCHANGED <<attempts, holder, cancelling, reported>>

Start(j, w) ==
    /\ phase[j] = "QUEUED"
    /\ attempts[j] < MaxAttempts
    /\ phase' = [phase EXCEPT ![j] = "RUNNING"]
    /\ attempts' = [attempts EXCEPT ![j] = @ + 1]
    /\ holder' = [holder EXCEPT ![j] = w]
    /\ UNCHANGED <<cancelling, reported>>

\* The outcomes the holder of a running job may report.
Reportable(j) ==
    IF cancelling[j] THEN {"CANCELLED"}
    ELSE {"SUCCEEDED", "FAILED"}
         \union (IF attempts[j] < MaxAttempts THEN {"QUEUED"} ELSE {})

Report(j, w, answer) ==
    /\ phase[j] = "RUNNING" /\ holder[j] = w
    /\ answer \in Reportable(j)
    /\ phase' = [phase EXCEPT ![j] = answer]
    /\ holder' = [holder EXCEPT ![j] = None]
    /\ cancelling' = [cancelling EXCEPT ![j] = FALSE]
    /\ reported' = reported \union {<<w, j, answer>>}
    /\ UNCHANGED attempts

AskCancel(j) ==
    \/ /\ phase[j] = "QUEUED"
       /\ phase' = [phase EXCEPT ![j] = "CANCELLED"]
       /\ UNCHANGED <<attempts, holder, cancelling, reported>>
    \/ /\ phase[j] = "RUNNING" /\ ~cancelling[j]
       /\ cancelling' = [cancelling EXCEPT ![j] = TRUE]
       /\ UNCHANGED <<phase, attempts, holder, reported>>

\* Some holders are given up on; their jobs end, or go back to the queue.
Lose(lost) ==
    /\ lost # {} /\ \A j \in lost : phase[j] = "RUNNING"
    /\ phase' = [j \in Jobs |->
           IF j \notin lost THEN phase[j]
           ELSE IF cancelling[j] THEN "CANCELLED"
           ELSE IF attempts[j] < MaxAttempts THEN "QUEUED" ELSE "FAILED"]
    /\ holder' = [j \in Jobs |-> IF j \in lost THEN None ELSE holder[j]]
    /\ cancelling' = [j \in Jobs |-> j \notin lost /\ cancelling[j]]
    /\ UNCHANGED <<attempts, reported>>

\* A worker that was cancelled behind its back learns of it.
HearCancelled(j, w) ==
    /\ phase[j] = "CANCELLED"
    /\ reported' = reported \union {<<w, j, "CANCELLED">>}
    /\ UNCHANGED <<phase, attempts, holder, cancelling>>

Next ==
    \/ \E new \in SUBSET Jobs : Submit(new)
    \/ \E j \in Jobs : AskCancel(j)
    \/ \E j \in Jobs, w \in Workers :
          \/ Start(j, w)
          \/ HearCancelled(j, w)
          \/ \E answer \in {"SUCCEEDED", "FAILED", "CANCELLED", "QUEUED"} :
                Report(j, w, answer)
    \/ \E lost \in SUBSET Jobs : Lose(lost)

Spec == Init /\ [][Next]_vars
=============================================================================
