----------------------------- MODULE Maintenance ----------------------------
(***************************************************************************)
(* Reclamation of unreferenced objects: services/maintenance.py driving    *)
(* the catalog (adapters/sqlite_catalog_maintenance.py) and the two object *)
(* trees (adapters/filesystem_maintenance.py), beside writers that publish *)
(* objects and then refer to them (adapters/filesystem_cas.py and          *)
(* services/persistence.py).                                               *)
(*                                                                         *)
(* A call is one run of quarantine, restore, commit or recover in some     *)
(* process.  A catalog transaction is one step, a file-system operation is *)
(* one step, and everything may interleave; a call may die between any two *)
(* steps.  An unfinished operation stays in the catalog and fences every   *)
(* ordinary write transaction until some call has finished it.             *)
(*                                                                         *)
(* A file is known by its generation, the count of publications of its     *)
(* object so far: it stands for the inode and the modification time, which *)
(* a move between the trees preserves.  Generation 0 is no file.           *)
(***************************************************************************)
EXTENDS Naturals, FiniteSets

CONSTANTS
    Objects,        \* object identities, in their order
    Calls,          \* the maintenance calls that may be running
    Holdable,       \* bound: the objects an operator may put a hold on
    MaxPuts,        \* bound: publications of each object
    MaxBatches,     \* bound: quarantine batches ever made
    MaxCrashes,     \* bound: calls that die
    RecoveryMayBeLate,  \* may an interrupted quarantine wait that long for recovery?
    CallsMayLag,        \* may a call be at another plan when an operation is claimed?
    None

ASSUME ObjectsAssumption == Objects \subseteq Nat
ASSUME HoldableAssumption == Holdable \subseteq Objects
ASSUME BoundsAssumption ==
    /\ MaxPuts \in [Objects -> Nat]
    /\ MaxBatches \in Nat
    /\ MaxCrashes \in Nat
    /\ {RecoveryMayBeLate, CallsMayLag} \subseteq BOOLEAN

VARIABLES
    files,    \* files[tree][o]: the generation of o in a tree, 0 if none
    made,     \* publications of o so far
    aged,     \* the generations of o up to this one have passed the minimum age
    roots,    \* objects some catalog record refers to
    holds,    \* the one hold an operator may put on an object
    pending,  \* objects a writer has verified and not yet referred to
    sighted,  \* objects an add_hold call has found in its inventory
    batches,  \* quarantine_batches: plan |-> state, grace and commit decisions
    intent,   \* the active row of maintenance_operations, or None
    task,     \* where every call stands
    crashes

storage == <<files, made, aged>>
catalog == <<roots, holds, batches, intent>>
writers == <<pending, sighted>>
vars == <<storage, catalog, writers, task, crashes>>

Trees == {"active", "quarantine"}
Held == {o \in Objects : holds[o] = "held"}
Protected == roots \union Held
Fenced == intent # None

Idle == [at |-> "idle"]
Operation(kind, plan) == [kind |-> kind, plan |-> plan]

Init ==
    /\ files = [t \in Trees |-> [o \in Objects |-> 0]]
    /\ made = [o \in Objects |-> 0]
    /\ aged = [o \in Objects |-> 0]
    /\ roots = {}
    /\ holds = [o \in Objects |-> "never"]
    /\ pending = {}
    /\ sighted = {}
    /\ batches = [plan \in {} |-> None]
    /\ intent = None
    /\ task = [c \in Calls |-> Idle]
    /\ crashes = 0

-----------------------------------------------------------------------------
(* Writers.  Publication is a file-system operation and is not fenced; the  *)
(* reference to what was published is a catalog transaction and is.         *)

Publish(o) ==
    /\ files["active"][o] = 0
    /\ made[o] < MaxPuts[o]
    /\ made' = [made EXCEPT ![o] = @ + 1]
    /\ files' = [files EXCEPT !["active"][o] = made'[o]]
    /\ UNCHANGED <<aged, catalog, writers, task, crashes>>

\* The last look a writer takes at the bytes before it refers to them.  A file
\* that is linked from both trees is refused.
Single(o) == files["active"][o] # files["quarantine"][o]

Verify(o) ==
    /\ files["active"][o] # 0
    /\ Single(o)
    /\ o \notin pending
    /\ pending' = pending \union {o}
    /\ UNCHANGED <<storage, catalog, sighted, task, crashes>>

CommitReference(o) ==
    /\ o \in pending
    /\ ~Fenced
    /\ roots' = roots \union {o}
    /\ pending' = pending \ {o}
    /\ UNCHANGED <<storage, holds, batches, intent, sighted, task, crashes>>

\* The writer fails or dies; what it published stays behind.
Abandon(o) ==
    /\ o \in pending
    /\ pending' = pending \ {o}
    /\ UNCHANGED <<storage, catalog, sighted, task, crashes>>

-----------------------------------------------------------------------------
(* Holds.  add_hold looks for the object and then writes the hold; an       *)
(* expiry needs no transaction.                                             *)

SightForHold(o) ==
    /\ Single(o)
    /\ holds[o] = "never"
    /\ o \notin sighted
    /\ sighted' = sighted \union {o}
    /\ UNCHANGED <<storage, catalog, pending, task, crashes>>

\* Mutant: the hold is written while an operation is active.
AddHold_Unfenced(o) ==
    /\ o \in sighted
    /\ holds' = [holds EXCEPT ![o] = "held"]
    /\ sighted' = sighted \ {o}
    /\ UNCHANGED <<storage, roots, batches, intent, pending, task, crashes>>

AddHold(o) ==
    /\ o \in sighted
    /\ ~Fenced
    /\ holds' = [holds EXCEPT ![o] = "held"]
    /\ sighted' = sighted \ {o}
    /\ UNCHANGED <<storage, roots, batches, intent, pending, task, crashes>>

ReleaseHold(o) ==
    /\ holds[o] = "held"
    /\ ~Fenced
    /\ holds' = [holds EXCEPT ![o] = "over"]
    /\ UNCHANGED <<storage, roots, batches, intent, writers, task, crashes>>

HoldExpires(o) ==
    /\ holds[o] = "held"
    /\ holds' = [holds EXCEPT ![o] = "over"]
    /\ UNCHANGED <<storage, roots, batches, intent, writers, task, crashes>>

-----------------------------------------------------------------------------
(* Time.  The minimum age and the grace period are 24 hours or more.        *)

\* An assumption on the environment: no call and no writer is suspended for
\* that long between two of its steps.
NobodyWaits == pending = {} /\ sighted = {} /\ \A c \in Calls : task[c] = Idle

Age(o) ==
    /\ NobodyWaits
    /\ aged[o] < made[o]
    /\ aged' = [aged EXCEPT ![o] = made[o]]
    /\ UNCHANGED <<files, made, catalog, writers, task, crashes>>

\* not_before counts from the claim, not from the end of the quarantine.
GraceElapses(plan) ==
    /\ NobodyWaits
    /\ RecoveryMayBeLate \/ batches[plan].state # "PREPARED"
    /\ ~batches[plan].ripe
    /\ batches' = [batches EXCEPT ![plan].ripe = TRUE]
    /\ UNCHANGED <<storage, roots, holds, intent, writers, task, crashes>>

-----------------------------------------------------------------------------
(* The dry run.  A plan is the value its identity is the digest of: the     *)
(* roots and holds, the inventory and the candidates, and no time of day.   *)

Candidates ==
    {o \in Objects \ Protected : files["active"][o] \in 1 .. aged[o]}

CurrentPlan ==
    [roots |-> roots, held |-> Held, files |-> files, candidates |-> Candidates]

\* An object in both trees is an anomaly; with one there is no plan.
Consistent ==
    \A o \in Objects : files["active"][o] = 0 \/ files["quarantine"][o] = 0

\* quarantine(plan) for a plan without a batch: the plan must be reproduced.
\* A plan without candidates moves nothing and is left out.
Observe(c) ==
    /\ task[c] = Idle
    /\ Consistent
    /\ Candidates # {}
    /\ CurrentPlan \notin DOMAIN batches
    /\ Cardinality(DOMAIN batches) < MaxBatches
    /\ task' = [task EXCEPT ![c] = [at |-> "observed", plan |-> CurrentPlan]]
    /\ UNCHANGED <<storage, catalog, writers, crashes>>

-----------------------------------------------------------------------------
(* Claims: the transactions that write down an intent before any file moves.*)

Holding(op) == [at |-> "claimed", op |-> op]

\* Nothing in the code stops a call that is still at an ended operation, or at
\* a plan it observed earlier, when another operation is claimed.
NobodyLags(op) ==
    \/ CallsMayLag
    \/ \A c \in Calls :
          task[c] \in {Idle, [at |-> "observed", plan |-> op.plan]}

Prepare(c, op) ==
    /\ NobodyLags(op)
    /\ intent' = [op |-> op, state |-> "PREPARED"]
    /\ task' = [task EXCEPT ![c] = Holding(op)]

\* The plan still matches the catalog; the files are not looked at again.
StillValid(plan) == plan.roots = roots /\ plan.held = Held

ClaimQuarantine(c) ==
    LET plan == task[c].plan
        op == Operation("quarantine", plan)
    IN  /\ task[c].at = "observed"
        /\ \/ /\ ~Fenced
              /\ plan \notin DOMAIN batches
              /\ StillValid(plan)
              /\ Prepare(c, op)
              /\ batches' = [p \in DOMAIN batches \union {plan} |->
                                IF p = plan
                                THEN [state |-> "PREPARED", ripe |-> FALSE, deletes |-> {}]
                                ELSE batches[p]]
           \/ /\ Fenced
              /\ intent.op = op
              /\ task' = [task EXCEPT ![c] = Holding(op)]
              /\ UNCHANGED <<intent, batches>>
           \/ /\ IF Fenced THEN intent.op # op
                 ELSE plan \in DOMAIN batches \/ ~StillValid(plan)
              /\ task' = [task EXCEPT ![c] = Idle]
              /\ UNCHANGED <<intent, batches>>
        /\ UNCHANGED <<storage, roots, holds, writers, crashes>>

ClaimRestore(c, plan) ==
    /\ task[c] = Idle
    /\ ~Fenced
    /\ batches[plan].state = "QUARANTINED"
    /\ Prepare(c, Operation("restore", plan))
    /\ UNCHANGED <<storage, roots, holds, batches, writers, crashes>>

\* Mutant: what was a candidate of the plan is deleted.
Deletable_Planned(plan) == plan.candidates

\* The final root and hold check: what is protected by now goes back.
Deletable(plan) == plan.candidates \ Protected

ClaimCommit(c, plan) ==
    /\ task[c] = Idle
    /\ ~Fenced
    /\ batches[plan].state = "QUARANTINED"
    /\ batches[plan].ripe
    /\ Prepare(c, Operation("commit", plan))
    /\ batches' = [batches EXCEPT ![plan].state = "COMMITTING",
                                  ![plan].deletes = Deletable(plan)]
    /\ UNCHANGED <<storage, roots, holds, writers, crashes>>

\* recover(), and every other call that finds its own operation active.
Recover(c) ==
    /\ task[c] = Idle
    /\ Fenced
    /\ task' = [task EXCEPT ![c] = Holding(intent.op)]
    /\ UNCHANGED <<storage, catalog, writers, crashes>>

-----------------------------------------------------------------------------
(* Applying: mark_operation_applying, then entry after entry.               *)

IsActive(op) == Fenced /\ intent.op = op

Applying(op, todo) == [at |-> "applying", op |-> op, todo |-> todo]

\* Mutant: an operation found APPLYING is taken to have been applied.
MarkApplying_Resumed(c) ==
    LET op == task[c].op
        todo == IF IsActive(op) /\ intent.state = "APPLYING" THEN {} ELSE op.plan.candidates
    IN  /\ task[c].at = "claimed"
        /\ intent' = IF IsActive(op) THEN [intent EXCEPT !.state = "APPLYING"] ELSE intent
        /\ task' = [task EXCEPT ![c] = Applying(op, todo)]
        /\ UNCHANGED <<storage, roots, holds, batches, writers, crashes>>

\* An operation that has ended meanwhile is handed back as it is: the call
\* goes on with its entries all the same.
MarkApplying(c) ==
    LET op == task[c].op
    IN  /\ task[c].at = "claimed"
        /\ intent' = IF IsActive(op) THEN [intent EXCEPT !.state = "APPLYING"] ELSE intent
        /\ task' = [task EXCEPT ![c] = Applying(op, op.plan.candidates)]
        /\ UNCHANGED <<storage, roots, holds, batches, writers, crashes>>

Removes(op, o) == op.kind = "commit" /\ o \in batches[op.plan].deletes
Source(op) == IF op.kind = "quarantine" THEN "active" ELSE "quarantine"
Target(op) == IF op.kind = "quarantine" THEN "quarantine" ELSE "active"

\* Call c is at entry o, the first it has not done.
AtEntry(c, o) ==
    /\ task[c].at = "applying"
    /\ o \in task[c].todo
    /\ \A x \in task[c].todo : o <= x

Past(c, o) == task' = [task EXCEPT ![c] = Applying(@.op, @.todo \ {o})]

MustMove(c, o) == AtEntry(c, o) /\ ~Removes(task[c].op, o)
MustRemove(c, o) == AtEntry(c, o) /\ Removes(task[c].op, o)

SourceFile(c, o) == files[Source(task[c].op)][o]
TargetFile(c, o) == files[Target(task[c].op)][o]

\* Nothing at the source and a file at the target: the move was done before.
FindMoved(c, o) ==
    /\ MustMove(c, o)
    /\ SourceFile(c, o) = 0
    /\ TargetFile(c, o) # 0
    /\ Past(c, o)
    /\ UNCHANGED <<storage, catalog, writers, crashes>>

\* Mutant: a target that exists is never accepted.
Link_MustBeFree(c, o) ==
    /\ MustMove(c, o)
    /\ SourceFile(c, o) # 0
    /\ TargetFile(c, o) = 0
    /\ files' = [files EXCEPT ![Target(task[c].op)][o] = SourceFile(c, o)]
    /\ task' = [task EXCEPT ![c] =
                    [at |-> "linked", op |-> @.op, todo |-> @.todo, entry |-> o]]
    /\ UNCHANGED <<made, aged, catalog, writers, crashes>>

\* The target is linked to the source, or is found to be the same file.
Link(c, o) ==
    /\ MustMove(c, o)
    /\ SourceFile(c, o) # 0
    /\ TargetFile(c, o) \in {0, SourceFile(c, o)}
    /\ files' = [files EXCEPT ![Target(task[c].op)][o] = SourceFile(c, o)]
    /\ task' = [task EXCEPT ![c] =
                    [at |-> "linked", op |-> @.op, todo |-> @.todo, entry |-> o]]
    /\ UNCHANGED <<made, aged, catalog, writers, crashes>>

\* The source path is unlinked, whatever is there by now, and the target
\* must then be there.
Unlink(c) ==
    LET op == task[c].op
        o == task[c].entry
    IN  /\ task[c].at = "linked"
        /\ files' = [files EXCEPT ![Source(op)][o] = 0]
        /\ IF files[Target(op)][o] # 0
           THEN task' = [task EXCEPT ![c] = Applying(op, @.todo \ {o})]
           ELSE task' = [task EXCEPT ![c] = Idle]
        /\ UNCHANGED <<made, aged, catalog, writers, crashes>>

\* Mutant: an object that was published again is taken to need no removal.
Remove_SkipsActive(c, o) ==
    /\ MustRemove(c, o)
    /\ files' = IF files["active"][o] = 0
                THEN [files EXCEPT !["quarantine"][o] = 0] ELSE files
    /\ Past(c, o)
    /\ UNCHANGED <<made, aged, catalog, writers, crashes>>

Remove(c, o) ==
    /\ MustRemove(c, o)
    /\ files["active"][o] = 0
    /\ files' = [files EXCEPT !["quarantine"][o] = 0]
    /\ Past(c, o)
    /\ UNCHANGED <<made, aged, catalog, writers, crashes>>

\* The entry cannot be applied and the call ends with RecoveryRequired: no
\* file in either tree, two different files, or a removal of an active object.
Refused(c, o) ==
    /\ \/ MustMove(c, o) /\ SourceFile(c, o) = 0 /\ TargetFile(c, o) = 0
       \/ MustMove(c, o) /\ SourceFile(c, o) # 0
                         /\ TargetFile(c, o) \notin {0, SourceFile(c, o)}
       \/ MustRemove(c, o) /\ files["active"][o] # 0
    /\ task' = [task EXCEPT ![c] = Idle]
    /\ UNCHANGED <<storage, catalog, writers, crashes>>

\* Mutant: a state the table does not have.
Outcome_Failed(op) ==
    CASE op.kind = "quarantine" -> "QUARANTINED"
      [] op.kind = "restore" -> "RESTORED"
      [] op.kind = "commit" ->
            IF op.plan.candidates = batches[op.plan].deletes THEN "COMMITTED" ELSE "FAILED"

\* The batch after its operation: BLOCKED says that entries were retained.
Outcome(op) ==
    CASE op.kind = "quarantine" -> "QUARANTINED"
      [] op.kind = "restore" -> "RESTORED"
      [] op.kind = "commit" ->
            IF op.plan.candidates = batches[op.plan].deletes THEN "COMMITTED" ELSE "BLOCKED"

\* Mutant: the operation is completed before its last entry is done.
Complete_Early(c) ==
    LET op == task[c].op
    IN  /\ task[c].at = "applying"
        /\ Cardinality(task[c].todo) < 2
        /\ IF IsActive(op)
           THEN /\ batches' = [batches EXCEPT ![op.plan].state = Outcome(op)]
                /\ intent' = None
           ELSE UNCHANGED <<batches, intent>>
        /\ task' = [task EXCEPT ![c] = Idle]
        /\ UNCHANGED <<storage, roots, holds, writers, crashes>>

Complete(c) ==
    LET op == task[c].op
    IN  /\ task[c].at = "applying"
        /\ task[c].todo = {}
        /\ IF IsActive(op)
           THEN /\ batches' = [batches EXCEPT ![op.plan].state = Outcome(op)]
                /\ intent' = None
           ELSE UNCHANGED <<batches, intent>>
        /\ task' = [task EXCEPT ![c] = Idle]
        /\ UNCHANGED <<storage, roots, holds, writers, crashes>>

Crash(c) ==
    /\ task[c] # Idle
    /\ crashes < MaxCrashes
    /\ crashes' = crashes + 1
    /\ task' = [task EXCEPT ![c] = Idle]
    /\ UNCHANGED <<storage, catalog, writers>>

-----------------------------------------------------------------------------
Step(c) ==
    \/ ClaimQuarantine(c)
    \/ MarkApplying(c)
    \/ Unlink(c)
    \/ Complete(c)
    \/ \E o \in Objects :
          FindMoved(c, o) \/ Link(c, o) \/ Remove(c, o) \/ Refused(c, o)

Begin(c) ==
    \/ Observe(c)
    \/ Recover(c)
    \/ \E plan \in DOMAIN batches : ClaimRestore(c, plan) \/ ClaimCommit(c, plan)

Write(o) == Publish(o) \/ Verify(o) \/ CommitReference(o) \/ Abandon(o)

Hold(o) == SightForHold(o) \/ AddHold(o) \/ ReleaseHold(o) \/ HoldExpires(o)

Next ==
    \/ \E c \in Calls : Begin(c) \/ Step(c) \/ Crash(c)
    \/ \E o \in Objects : Write(o) \/ Age(o)
    \/ \E o \in Holdable : Hold(o)
    \/ \E plan \in DOMAIN batches : GraceElapses(plan)

Spec == Init /\ [][Next]_vars

\* A call that is not killed goes on, and an operator who finds the workspace
\* fenced runs recover() again and again.
FairSpec ==
    /\ Spec
    /\ \A c \in Calls : WF_vars(Step(c))
    /\ SF_vars(\E c \in Calls : Recover(c))

-----------------------------------------------------------------------------
(* Properties.                                                              *)

Plans == [roots: SUBSET Objects, held: SUBSET Objects,
          files: [Trees -> [Objects -> Nat]], candidates: SUBSET Objects]
Operations == [kind: {"quarantine", "restore", "commit"}, plan: Plans]
BatchStates ==
    {"PREPARED", "QUARANTINED", "RESTORED", "COMMITTING", "COMMITTED", "BLOCKED"}
Ended == {"RESTORED", "COMMITTED", "BLOCKED"}

\* No operation is None.
ASSUME NoneAssumption == None \notin [op: Operations, state: {"PREPARED", "APPLYING"}]

\* What every variable may be.  MaxPuts bounds what is published, and a restored
\* copy is one generation more.
TypeOK ==
    /\ files \in [Trees -> [Objects -> Nat]]
    /\ made \in [Objects -> Nat]
    /\ aged \in [Objects -> Nat]
    /\ roots \subseteq Objects
    /\ holds \in [Objects -> {"never", "held", "over"}]
    /\ pending \subseteq Objects
    /\ sighted \subseteq Objects
    /\ \A plan \in DOMAIN batches :
          /\ plan \in Plans
          /\ batches[plan] \in [state: BatchStates, ripe: BOOLEAN, deletes: SUBSET Objects]
          /\ batches[plan].deletes \subseteq plan.candidates
    /\ \/ intent = None
       \/ intent \in [op: Operations, state: {"PREPARED", "APPLYING"}]
    /\ \A c \in Calls :
          \/ task[c] = Idle
          \/ task[c] \in [at: {"observed"}, plan: Plans]
          \/ task[c] \in [at: {"claimed"}, op: Operations]
          \/ task[c] \in [at: {"applying"}, op: Operations, todo: SUBSET Objects]
          \/ task[c] \in [at: {"linked"}, op: Operations, todo: SUBSET Objects,
                           entry: Objects]
    /\ crashes \in 0 .. MaxCrashes

Present(o) == \E t \in Trees : files[t][o] # 0

\* The bytes a catalog record refers to are never lost, however writers,
\* maintenance calls and crashes interleave: they are active, or in
\* quarantine where restore (or the commit of the batch) finds them.
ReferencedSurvives == \A o \in roots : Present(o)

\* Every file in quarantine belongs to exactly one batch that can still bring
\* it back or remove it: nothing is left in quarantine by an ended batch.
Owners(o) ==
    {plan \in DOMAIN batches : o \in plan.candidates /\ batches[plan].state \notin Ended}
QuarantineIsOwned ==
    \A o \in Objects : files["quarantine"][o] # 0 => Cardinality(Owners(o)) = 1

\* A batch the catalog calls QUARANTINED, with no operation on it, holds every
\* one of its objects in quarantine, also after crashes and recoveries.
BatchIsWhole ==
    \A plan \in DOMAIN batches :
        batches[plan].state = "QUARANTINED" /\ ~(Fenced /\ intent.op.plan = plan)
            => \A o \in plan.candidates : files["quarantine"][o] # 0

\* When the catalog records that a batch was restored or committed, the trees
\* already show it: every object is back, or every deletion is done.
OutcomeIsTrue ==
    [][\A plan \in DOMAIN batches :
          batches'[plan].state \in Ended /\ batches[plan].state \notin Ended =>
              \A o \in plan.candidates :
                  /\ files["quarantine"][o] = 0
                  /\ o \notin batches[plan].deletes => files["active"][o] # 0]_vars

\* The active operation meets an object that was published again while it was
\* in quarantine: two different files, or a removal of an object that is back.
Obstructed(o) ==
    /\ o \in intent.op.plan.candidates
    /\ files["active"][o] # 0
    /\ \/ Removes(intent.op, o)
       \/ files["quarantine"][o] \notin {0, files["active"][o]}

\* Every operation that was begun is finished, whichever call dies, as long as
\* somebody keeps calling recover(): ordinary writes are possible again.  The
\* one exception is an operation on an object that was published again; the
\* code keeps no writer from that, and the fence may then stay for ever.
FenceLifts == Fenced ~> (~Fenced \/ \E o \in Objects : Obstructed(o))

\* The promise of ObjectRetention, with the two trees for its three places.
Retention == INSTANCE ObjectRetention WITH
    place <- [o \in Objects |-> IF files["active"][o] # 0 THEN "live"
                                ELSE IF files["quarantine"][o] # 0 THEN "aside"
                                ELSE "gone"],
    rooted <- roots,
    kept <- Held
ImplementsRetention == Retention!Spec

=============================================================================
