-------------------------- MODULE MaintenanceProofs --------------------------
(***************************************************************************)
(* Proofs about Maintenance, and about Backup, which extends it, for any   *)
(* objects, writers, holds and bounds.                                     *)
(*                                                                         *)
(* The types are proved for any number of calls.  The rest is proved for   *)
(* one call at a time, which may die and be followed by another at any     *)
(* step: with two, one can claim a plan it observed while the other was    *)
(* moving files, since a claim compares the catalog and not the files.     *)
(*                                                                         *)
(* The argument: every batch that has not ended either waits, and then all *)
(* its objects are in quarantine, or is the one the fence is up for, and   *)
(* then its call knows which of its entries are done.  Batches that have   *)
(* not ended share no object, since a plan is only made of objects that    *)
(* are not in quarantine.  An object in quarantine therefore has one owner.*)
(* A deletion hits nobody, because no reference is made while the fence is *)
(* up, and because whoever had verified the object before the grace period *)
(* has referred to it, or given up, when that period is over.              *)
(***************************************************************************)
EXTENDS Backup, FiniteSetTheorems, TLAPS

\* The hypotheses of the safety theorems.
OneCall == \A c, d \in Calls : c = d
RecoveryIsPrompt == RecoveryMayBeLate = FALSE

Intents == [op : Operations, state : {"PREPARED", "APPLYING"}]
Batches == [state : BatchStates, ripe : BOOLEAN, deletes : SUBSET Objects]

Working == {"claimed", "applying", "linked"}

\* The rows of task, and the fields each has.
Tasks ==
    {Idle}
    \union [at : {"observed"}, plan : Plans]
    \union [at : {"claimed"}, op : Operations]
    \union [at : {"applying"}, op : Operations, todo : SUBSET Objects]
    \union [at : {"linked"}, op : Operations, todo : SUBSET Objects, entry : Objects]

\* A plan leaves out what it found protected.
Fair(plan) == plan.candidates \intersect (plan.roots \union plan.held) = {}

\* The operation the fence is up for is on the plan.
Under(kind, plan) == Fenced /\ intent.op.kind = kind /\ intent.op.plan = plan

\* The states of the batches and the active operation go together.
StateInv ==
    /\ \A plan \in DOMAIN batches :
          /\ batches[plan].state = "PREPARED" <=> Under("quarantine", plan)
          /\ batches[plan].state = "COMMITTING" <=> Under("commit", plan)
          /\ Under("restore", plan) => batches[plan].state = "QUARANTINED"
    /\ Fenced => intent.op.plan \in DOMAIN batches

Live(plan) == plan \in DOMAIN batches /\ batches[plan].state \notin Ended

\* Batches that have not ended share no object.
Apart ==
    \A plan1, plan2 \in DOMAIN batches :
        Live(plan1) /\ Live(plan2) /\ plan1 # plan2
            => plan1.candidates \intersect plan2.candidates = {}

Owned ==
    \A o \in Objects :
        files["quarantine"][o] # 0 =>
            \E plan \in DOMAIN batches : Live(plan) /\ o \in plan.candidates

\* What an operation has claimed to move out of the way or to delete has been
\* found unprotected, and is so while the fence is up.
Spared ==
    Fenced =>
        /\ intent.op.kind = "quarantine" => intent.op.plan.candidates \intersect Protected = {}
        /\ intent.op.kind = "commit" => batches[intent.op.plan].deletes \intersect Protected = {}

\* The entry has been applied.
Done(op, o) ==
    IF op.kind = "quarantine" THEN files["quarantine"][o] # 0
    ELSE files["quarantine"][o] = 0 /\ (Removes(op, o) \/ files["active"][o] # 0)

\* What a call knows at each of its places.
TaskInv(c) ==
    /\ task[c].at = "observed" =>
          /\ task[c].plan \notin DOMAIN batches /\ Fair(task[c].plan)
          /\ \A o \in task[c].plan.candidates : files["quarantine"][o] = 0
    /\ task[c].at \in Working => Fenced /\ task[c].op = intent.op
    /\ task[c].at \in {"applying", "linked"} =>
          /\ task[c].todo \subseteq task[c].op.plan.candidates
          /\ \A o \in task[c].op.plan.candidates \ task[c].todo : Done(task[c].op, o)
    /\ task[c].at = "linked" =>
          /\ task[c].entry \in task[c].todo
          /\ ~Removes(task[c].op, task[c].entry)
          /\ files[Target(task[c].op)][task[c].entry] # 0

Typed == TypeOK /\ task \in [Calls -> Tasks]

IInv ==
    /\ Typed /\ StateInv /\ Apart /\ Owned /\ BatchIsWhole /\ Spared
    /\ \A c \in Calls : TaskInv(c)

\* A batch whose grace is over holds nothing in quarantine alone that a writer
\* is about to refer to.
RipeInv ==
    \A plan \in DOMAIN batches :
        /\ batches[plan].state = "COMMITTING" => batches[plan].ripe
        /\ batches[plan].ripe => batches[plan].state # "PREPARED"
        /\ Live(plan) /\ batches[plan].ripe =>
              \A o \in plan.candidates \intersect pending : files["active"][o] # 0

PresentInv == \A o \in roots \union pending : Present(o)

SafeInv == IInv /\ RipeInv /\ PresentInv
-----------------------------------------------------------------------------
(* Types.                                                                  *)

LEMMA IdleAt == Idle \in Tasks /\ Idle.at = "idle"
BY DEF Idle, Tasks

\* The fields a row has where the call is.
LEMMA TaskFields ==
    ASSUME NEW row \in Tasks
    PROVE  /\ row = Idle \/ row.at \in {"observed"} \union Working
           /\ row.at = "observed" => row.plan \in Plans
           /\ row.at \in Working => row.op \in Operations
           /\ row.at \in {"applying", "linked"} => row.todo \subseteq Objects
           /\ row.at = "linked" => row.entry \in Objects
<1>1. CASE row = Idle
  BY <1>1, IdleAt DEF Working
<1>2. CASE row \in [at : {"observed"}, plan : Plans]
  BY <1>2 DEF Working
<1>3. CASE row \in [at : {"claimed"}, op : Operations]
  BY <1>3 DEF Working
<1>4. CASE row \in [at : {"applying"}, op : Operations, todo : SUBSET Objects]
  BY <1>4 DEF Working
<1>5. CASE row \in [at : {"linked"}, op : Operations, todo : SUBSET Objects, entry : Objects]
  BY <1>5 DEF Working
<1> QED
  BY <1>1, <1>2, <1>3, <1>4, <1>5 DEF Tasks

\* The rows there are.
LEMMA Rows ==
    /\ \A plan \in Plans : [at |-> "observed", plan |-> plan] \in Tasks
    /\ \A op \in Operations : Holding(op) \in Tasks
    /\ \A op \in Operations, todo \in SUBSET Objects : Applying(op, todo) \in Tasks
    /\ \A op \in Operations, todo \in SUBSET Objects, o \in Objects :
          [at |-> "linked", op |-> op, todo |-> todo, entry |-> o] \in Tasks
BY DEF Tasks, Holding, Applying

LEMMA PlanFields ==
    ASSUME NEW plan \in Plans
    PROVE  /\ plan.candidates \subseteq Objects /\ plan.roots \subseteq Objects
           /\ plan.held \subseteq Objects
BY DEF Plans

LEMMA OperationFields ==
    ASSUME NEW op \in Operations
    PROVE  op.kind \in {"quarantine", "restore", "commit"} /\ op.plan \in Plans
BY DEF Operations

LEMMA OperationMade ==
    ASSUME NEW kind \in {"quarantine", "restore", "commit"}, NEW plan \in Plans
    PROVE  /\ Operation(kind, plan) \in Operations
           /\ Operation(kind, plan).kind = kind /\ Operation(kind, plan).plan = plan
BY DEF Operation, Operations

\* An active operation is one.
LEMMA FencedIntent ==
    ASSUME Typed, Fenced
    PROVE  /\ intent \in Intents /\ intent.op \in Operations
           /\ intent.op.kind \in {"quarantine", "restore", "commit"} /\ intent.op.plan \in Plans
BY DEF Typed, TypeOK, Fenced, Intents, Operations

LEMMA CurrentPlanTyped == Typed => CurrentPlan \in Plans
BY DEF Typed, TypeOK, CurrentPlan, Plans, Candidates, Held

\* Every conjunct of TypeOK but those of the calls.
StoreTyped ==
    /\ files \in [Trees -> [Objects -> Nat]]
    /\ made \in [Objects -> Nat]
    /\ aged \in [Objects -> Nat]
    /\ pending \subseteq Objects
    /\ sighted \subseteq Objects

CatalogTyped ==
    /\ roots \subseteq Objects
    /\ holds \in [Objects -> {"never", "held", "over"}]
    /\ \A plan \in DOMAIN batches :
          /\ plan \in Plans
          /\ batches[plan] \in Batches
          /\ batches[plan].deletes \subseteq plan.candidates
    /\ intent = None \/ intent \in Intents

LEMMA TypedNext ==
    ASSUME StoreTyped', CatalogTyped', crashes' \in 0 .. MaxCrashes, task' \in [Calls -> Tasks]
    PROVE  Typed'
<1>1. \A c \in Calls :
          \/ task'[c] = Idle
          \/ task'[c] \in [at: {"observed"}, plan: Plans]
          \/ task'[c] \in [at: {"claimed"}, op: Operations]
          \/ task'[c] \in [at: {"applying"}, op: Operations, todo: SUBSET Objects]
          \/ task'[c] \in [at: {"linked"}, op: Operations, todo: SUBSET Objects,
                            entry: Objects]
  BY DEF Tasks
<1> QED
  BY <1>1 DEF Typed, TypeOK, StoreTyped, CatalogTyped, Batches, Intents

\* c goes to a row of the type, and no other call moves.
Went(c) ==
    /\ task' \in [Calls -> Tasks]
    /\ \A d \in Calls \ {c} : task'[d] = task[d]

LEMMA Going ==
    ASSUME Typed, NEW c \in Calls, NEW row \in Tasks, task' = [task EXCEPT ![c] = row]
    PROVE  Went(c) /\ task'[c] = row
BY DEF Typed, Went

\* One file of one tree is set.
LEMMA FileSet ==
    ASSUME Typed, NEW t \in Trees, NEW o \in Objects, NEW v \in Nat,
           files' = [files EXCEPT ![t][o] = v]
    PROVE  /\ files' \in [Trees -> [Objects -> Nat]]
           /\ \A u \in Trees, x \in Objects :
                 files'[u][x] = IF u = t /\ x = o THEN v ELSE files[u][x]
BY DEF Typed, TypeOK

\* The rows of the calls are typed as TypeOK wants them.
LEMMA TasksTyped ==
    ASSUME task \in [Calls -> Tasks]
    PROVE  \A c \in Calls :
              \/ task[c] = Idle
              \/ task[c] \in [at: {"observed"}, plan: Plans]
              \/ task[c] \in [at: {"claimed"}, op: Operations]
              \/ task[c] \in [at: {"applying"}, op: Operations, todo: SUBSET Objects]
              \/ task[c] \in [at: {"linked"}, op: Operations, todo: SUBSET Objects,
                               entry: Objects]
BY DEF Tasks

LEMMA TypedParts ==
    Typed <=> /\ StoreTyped /\ CatalogTyped /\ crashes \in 0 .. MaxCrashes
              /\ task \in [Calls -> Tasks]
BY TasksTyped DEF Typed, TypeOK, StoreTyped, CatalogTyped, Batches, Intents

\* Where a call is tells what its row has.
LEMMA CallFields ==
    ASSUME Typed, NEW c \in Calls
    PROVE  /\ task[c] \in Tasks
           /\ task[c] = Idle \/ task[c].at \in {"observed"} \union Working
           /\ task[c].at = "observed" => task[c].plan \in Plans
           /\ task[c].at \in Working => task[c].op \in Operations /\ task[c].op.plan \in Plans
           /\ task[c].at \in {"applying", "linked"} => task[c].todo \subseteq Objects
           /\ task[c].at = "linked" => task[c].entry \in Objects
<1>1. task[c] \in Tasks
  BY DEF Typed
<1> QED
  BY <1>1, TaskFields, OperationFields

LEMMA ObserveGoes ==
    ASSUME Typed, NEW c \in Calls, Observe(c)
    PROVE  Went(c) /\ task'[c] = [at |-> "observed", plan |-> CurrentPlan]
BY CurrentPlanTyped, Rows, Going DEF Observe

LEMMA RecoverGoes ==
    ASSUME Typed, NEW c \in Calls, Recover(c)
    PROVE  Went(c) /\ task'[c] = Holding(intent.op)
BY FencedIntent, Rows, Going DEF Recover

LEMMA ClaimQuarantineGoes ==
    ASSUME Typed, NEW c \in Calls, ClaimQuarantine(c)
    PROVE  /\ Went(c)
           /\ \/ task'[c] = Holding(Operation("quarantine", task[c].plan))
              \/ task'[c] = Idle /\ UNCHANGED <<intent, batches>>
<1> DEFINE op == Operation("quarantine", task[c].plan)
<1>1. op \in Operations
  BY CallFields, OperationMade DEF ClaimQuarantine
<1>2. Holding(op) \in Tasks
  BY <1>1, Rows
<1>3. CASE task' = [task EXCEPT ![c] = Holding(op)]
  BY <1>2, <1>3, Going
<1>4. CASE task' = [task EXCEPT ![c] = Idle] /\ UNCHANGED <<intent, batches>>
  BY <1>4, IdleAt, Going
<1> QED
  BY <1>3, <1>4 DEF ClaimQuarantine, Prepare

LEMMA ClaimRestoreGoes ==
    ASSUME Typed, NEW c \in Calls, NEW plan \in DOMAIN batches, ClaimRestore(c, plan)
    PROVE  Went(c) /\ task'[c] = Holding(Operation("restore", plan))
<1>1. Operation("restore", plan) \in Operations
  BY OperationMade DEF Typed, TypeOK
<1> QED
  BY <1>1, Rows, Going DEF ClaimRestore, Prepare

LEMMA ClaimCommitGoes ==
    ASSUME Typed, NEW c \in Calls, NEW plan \in DOMAIN batches, ClaimCommit(c, plan)
    PROVE  Went(c) /\ task'[c] = Holding(Operation("commit", plan))
<1>1. Operation("commit", plan) \in Operations
  BY OperationMade DEF Typed, TypeOK
<1> QED
  BY <1>1, Rows, Going DEF ClaimCommit, Prepare

LEMMA MarkApplyingGoes ==
    ASSUME Typed, NEW c \in Calls, MarkApplying(c)
    PROVE  Went(c) /\ task'[c] = Applying(task[c].op, task[c].op.plan.candidates)
<1>1. task[c].op \in Operations /\ task[c].op.plan.candidates \in SUBSET Objects
  BY CallFields, PlanFields DEF MarkApplying, Working
<1> QED
  BY <1>1, Rows, Going DEF MarkApplying

\* Whoever applies goes on to the entries that are left, links one, or ends.
LEMMA EntryGoes ==
    ASSUME Typed, NEW c \in Calls, NEW o \in Objects, AtEntry(c, o), Past(c, o)
    PROVE  Went(c) /\ task'[c] = Applying(task[c].op, task[c].todo \ {o})
<1>1. task[c].op \in Operations /\ task[c].todo \ {o} \in SUBSET Objects
  BY CallFields DEF AtEntry, Working
<1> QED
  BY <1>1, Rows, Going DEF Past

LEMMA LinkGoes ==
    ASSUME Typed, NEW c \in Calls, NEW o \in Objects, Link(c, o)
    PROVE  /\ Went(c)
           /\ task'[c] = [at |-> "linked", op |-> task[c].op, todo |-> task[c].todo, entry |-> o]
<1>1. task[c].op \in Operations /\ task[c].todo \in SUBSET Objects
  BY CallFields DEF Link, MustMove, AtEntry, Working
<1> QED
  BY <1>1, Rows, Going DEF Link

LEMMA UnlinkGoes ==
    ASSUME Typed, NEW c \in Calls, Unlink(c)
    PROVE  /\ Went(c)
           /\ task'[c] = IF files[Target(task[c].op)][task[c].entry] # 0
                         THEN Applying(task[c].op, task[c].todo \ {task[c].entry}) ELSE Idle
<1>1. task[c].op \in Operations /\ task[c].todo \ {task[c].entry} \in SUBSET Objects
  BY CallFields DEF Unlink, Working
<1> QED
  BY <1>1, Rows, IdleAt, Going DEF Unlink

LEMMA EndGoes ==
    ASSUME Typed, NEW c \in Calls, task' = [task EXCEPT ![c] = Idle]
    PROVE  Went(c) /\ task'[c] = Idle
BY IdleAt, Going

LEMMA CallGoes ==
    ASSUME Typed, NEW c \in Calls, Begin(c) \/ Step(c) \/ Crash(c)
    PROVE  Went(c)
<1>1. CASE Begin(c)
  BY <1>1, ObserveGoes, RecoverGoes, ClaimRestoreGoes, ClaimCommitGoes DEF Begin
<1>2. CASE ClaimQuarantine(c) \/ MarkApplying(c) \/ Unlink(c)
  BY <1>2, ClaimQuarantineGoes, MarkApplyingGoes, UnlinkGoes
<1>3. CASE Complete(c) \/ Crash(c)
  BY <1>3, EndGoes DEF Complete, Crash
<1>4. ASSUME NEW o \in Objects, FindMoved(c, o) \/ Link(c, o) \/ Remove(c, o) \/ Refused(c, o)
      PROVE  Went(c)
  <2>1. CASE FindMoved(c, o) \/ Remove(c, o)
    BY <2>1, EntryGoes DEF FindMoved, Remove, MustMove, MustRemove
  <2>2. CASE Link(c, o) \/ Refused(c, o)
    BY <2>2, LinkGoes, EndGoes DEF Refused
  <2> QED
    BY <1>4, <2>1, <2>2
<1> QED
  BY <1>1, <1>2, <1>3, <1>4 DEF Step
-----------------------------------------------------------------------------
\* What the file operations of a call do.
LEMMA SourceAndTarget ==
    \A op : /\ Source(op) \in Trees /\ Target(op) \in Trees /\ Source(op) # Target(op)
            /\ op.kind = "quarantine" => Source(op) = "active" /\ Target(op) = "quarantine"
            /\ op.kind # "quarantine" => Source(op) = "quarantine" /\ Target(op) = "active"
BY DEF Source, Target, Trees

LEMMA LinkFiles ==
    ASSUME Typed, NEW c \in Calls, NEW o \in Objects, Link(c, o)
    PROVE  /\ files' \in [Trees -> [Objects -> Nat]]
           /\ SourceFile(c, o) # 0
           /\ \A u \in Trees, x \in Objects :
                 files'[u][x] = IF u = Target(task[c].op) /\ x = o
                                THEN SourceFile(c, o) ELSE files[u][x]
<1> DEFINE t == Target(task[c].op)
           v == SourceFile(c, o)
<1>1. t \in Trees
  BY SourceAndTarget
<1>2. v \in Nat /\ v # 0
  BY SourceAndTarget DEF Typed, TypeOK, SourceFile, Link
<1>3. files' = [files EXCEPT ![t][o] = v]
  BY DEF Link
<1> HIDE DEF t, v
<1>4. /\ files' \in [Trees -> [Objects -> Nat]]
      /\ \A u \in Trees, x \in Objects :
            files'[u][x] = IF u = t /\ x = o THEN v ELSE files[u][x]
  BY <1>1, <1>2, <1>3, FileSet
<1> QED
  BY <1>2, <1>4 DEF t, v

LEMMA UnlinkFiles ==
    ASSUME Typed, NEW c \in Calls, Unlink(c)
    PROVE  /\ files' \in [Trees -> [Objects -> Nat]]
           /\ \A u \in Trees, x \in Objects :
                 files'[u][x] = IF u = Source(task[c].op) /\ x = task[c].entry
                                THEN 0 ELSE files[u][x]
<1> DEFINE t == Source(task[c].op)
           o == task[c].entry
<1>1. t \in Trees /\ o \in Objects /\ 0 \in Nat
  BY SourceAndTarget, CallFields, BoundsAssumption DEF Unlink
<1>2. files' = [files EXCEPT ![t][o] = 0]
  BY DEF Unlink
<1> HIDE DEF t, o
<1>3. /\ files' \in [Trees -> [Objects -> Nat]]
      /\ \A u \in Trees, x \in Objects :
            files'[u][x] = IF u = t /\ x = o THEN 0 ELSE files[u][x]
  BY <1>1, <1>2, FileSet
<1> QED
  BY <1>3 DEF t, o

LEMMA RemoveFiles ==
    ASSUME Typed, NEW c \in Calls, NEW o \in Objects, Remove(c, o)
    PROVE  /\ files' \in [Trees -> [Objects -> Nat]]
           /\ \A u \in Trees, x \in Objects :
                 files'[u][x] = IF u = "quarantine" /\ x = o THEN 0 ELSE files[u][x]
<1>1. "quarantine" \in Trees /\ 0 \in Nat
  BY BoundsAssumption DEF Trees
<1> QED
  BY <1>1, FileSet DEF Remove

LEMMA PublishFiles ==
    ASSUME Typed, NEW o \in Objects, Publish(o)
    PROVE  /\ files' \in [Trees -> [Objects -> Nat]]
           /\ made' \in [Objects -> Nat]
           /\ files'["active"][o] # 0
           /\ \A u \in Trees, x \in Objects :
                 ~(u = "active" /\ x = o) => files'[u][x] = files[u][x]
<1>1. made[o] \in Nat /\ made[o] < MaxPuts[o]
  BY DEF Typed, TypeOK, Publish
<1>2. made' = [made EXCEPT ![o] = made[o] + 1]
  BY DEF Publish
<1>3. made[o] + 1 \in Nat /\ made[o] + 1 # 0
  BY <1>1, BoundsAssumption
<1>4. made' \in [Objects -> Nat] /\ made'[o] = made[o] + 1
  BY <1>2, <1>3 DEF Typed, TypeOK
<1> DEFINE v == made[o] + 1
<1>5. files' = [files EXCEPT !["active"][o] = v] /\ "active" \in Trees
  BY <1>4 DEF Publish, Trees
<1> HIDE DEF v
<1>6. v \in Nat /\ v # 0
  BY <1>3 DEF v
<1> QED
  BY <1>4, <1>5, <1>6, FileSet
-----------------------------------------------------------------------------
(* Every step keeps the types.                                             *)

\* The batches after a claim of a new one, and after a change of one's fields.
LEMMA ClaimedBatches ==
    ASSUME Typed, NEW plan \in Plans, plan \notin DOMAIN batches,
           batches' = [p \in DOMAIN batches \union {plan} |->
                          IF p = plan
                          THEN [state |-> "PREPARED", ripe |-> FALSE, deletes |-> {}]
                          ELSE batches[p]]
    PROVE  /\ DOMAIN batches' = DOMAIN batches \union {plan}
           /\ \A p \in DOMAIN batches : batches'[p] = batches[p]
           /\ batches'[plan].state = "PREPARED" /\ batches'[plan].ripe = FALSE
           /\ batches'[plan].deletes = {}
           /\ batches'[plan] \in Batches
BY DEF Batches, BatchStates

LEMMA CommittingBatches ==
    ASSUME Typed, NEW plan \in DOMAIN batches,
           batches' = [batches EXCEPT ![plan].state = "COMMITTING",
                                      ![plan].deletes = Deletable(plan)]
    PROVE  /\ DOMAIN batches' = DOMAIN batches
           /\ \A p \in DOMAIN batches \ {plan} : batches'[p] = batches[p]
           /\ batches'[plan].state = "COMMITTING" /\ batches'[plan].ripe = batches[plan].ripe
           /\ batches'[plan].deletes = Deletable(plan)
           /\ batches'[plan] \in Batches /\ Deletable(plan) \subseteq plan.candidates
<1> DEFINE del == Deletable(plan)
<1>1. plan \in Plans /\ batches[plan] \in Batches
  BY DEF Typed, TypeOK, Batches
<1>2. del \in SUBSET Objects /\ del \subseteq plan.candidates
  BY <1>1, PlanFields DEF Deletable
<1>3. batches' = [batches EXCEPT ![plan].state = "COMMITTING", ![plan].deletes = del]
  OBVIOUS
<1> HIDE DEF del
<1>4. /\ DOMAIN batches' = DOMAIN batches
      /\ \A p \in DOMAIN batches \ {plan} : batches'[p] = batches[p]
  BY <1>3
<1>5. batches'[plan] = [batches[plan] EXCEPT !.state = "COMMITTING", !.deletes = del]
  BY <1>3
<1>6. /\ batches'[plan].state = "COMMITTING" /\ batches'[plan].ripe = batches[plan].ripe
      /\ batches'[plan].deletes = del /\ batches'[plan] \in Batches
  BY <1>1, <1>2, <1>5 DEF Batches, BatchStates
<1> QED
  BY <1>2, <1>4, <1>6 DEF del

LEMMA EndedBatches ==
    ASSUME Typed, NEW plan \in DOMAIN batches, NEW state \in BatchStates,
           batches' = [batches EXCEPT ![plan].state = state]
    PROVE  /\ DOMAIN batches' = DOMAIN batches
           /\ \A p \in DOMAIN batches \ {plan} : batches'[p] = batches[p]
           /\ batches'[plan].state = state /\ batches'[plan].ripe = batches[plan].ripe
           /\ batches'[plan].deletes = batches[plan].deletes
           /\ batches'[plan] \in Batches
<1>1. batches[plan] \in Batches
  BY DEF Typed, TypeOK, Batches
<1> QED
  BY <1>1 DEF Batches

LEMMA RipeBatches ==
    ASSUME Typed, NEW plan \in DOMAIN batches, batches' = [batches EXCEPT ![plan].ripe = TRUE]
    PROVE  /\ DOMAIN batches' = DOMAIN batches
           /\ \A p \in DOMAIN batches \ {plan} : batches'[p] = batches[p]
           /\ batches'[plan].state = batches[plan].state /\ batches'[plan].ripe = TRUE
           /\ batches'[plan].deletes = batches[plan].deletes
           /\ batches'[plan] \in Batches
<1>1. batches[plan] \in Batches
  BY DEF Typed, TypeOK, Batches
<1> QED
  BY <1>1 DEF Batches

\* The batch of an operation ends in a state of the table.
LEMMA OutcomeTyped ==
    ASSUME NEW op \in Operations
    PROVE  Outcome(op) \in BatchStates
BY OperationFields DEF Outcome, BatchStates

\* The active operation after a claim, and after it is found to be applied.
LEMMA PreparedIntent ==
    ASSUME NEW c, NEW op \in Operations, Prepare(c, op)
    PROVE  /\ intent' \in Intents /\ Fenced' /\ intent'.op = op /\ intent'.state = "PREPARED"
           /\ task' = [task EXCEPT ![c] = Holding(op)]
BY NoneAssumption DEF Prepare, Intents, Fenced

LEMMA MarkedIntent ==
    ASSUME Typed, NEW c \in Calls, MarkApplying(c)
    PROVE  /\ Fenced' <=> Fenced
           /\ Fenced => intent'.op = intent.op
           /\ intent' = None \/ intent' \in Intents
<1>1. CASE IsActive(task[c].op)
  <2>1. intent \in Intents
    BY <1>1, FencedIntent DEF IsActive
  <2>2. intent' \in Intents /\ intent'.op = intent.op
    BY <1>1, <2>1 DEF MarkApplying, Intents
  <2> QED
    BY <1>1, <2>2, NoneAssumption DEF IsActive, Fenced, Intents
<1>2. CASE ~IsActive(task[c].op)
  BY <1>2 DEF MarkApplying, Fenced, Typed, TypeOK, Intents
<1> QED
  BY <1>1, <1>2

LEMMA ClaimQuarantineCatalog ==
    ASSUME Typed, NEW c \in Calls, ClaimQuarantine(c), ~UNCHANGED <<intent, batches>>
    PROVE  /\ ~Fenced /\ task[c].plan \notin DOMAIN batches /\ StillValid(task[c].plan)
           /\ task[c].at = "observed" /\ task[c].plan \in Plans
           /\ Prepare(c, Operation("quarantine", task[c].plan))
           /\ batches' = [p \in DOMAIN batches \union {task[c].plan} |->
                             IF p = task[c].plan
                             THEN [state |-> "PREPARED", ripe |-> FALSE, deletes |-> {}]
                             ELSE batches[p]]
BY CallFields DEF ClaimQuarantine

LEMMA CatalogKept ==
    ASSUME Typed, NEW c \in Calls, Begin(c) \/ Step(c) \/ Crash(c)
    PROVE  CatalogTyped'
<1>1. Typed /\ CatalogTyped
  BY TypedParts
<1>2. CASE UNCHANGED catalog
  BY <1>1, <1>2 DEF CatalogTyped, catalog
<1>3. CASE ClaimQuarantine(c)
  <2>1. CASE UNCHANGED <<intent, batches>>
    BY <1>1, <1>3, <2>1 DEF CatalogTyped, ClaimQuarantine
  <2>2. CASE ~UNCHANGED <<intent, batches>>
    <3>1. PICK plan \in Plans : plan = task[c].plan
      BY <1>3, <2>2, ClaimQuarantineCatalog
    <3>2. intent' \in Intents
      BY <1>3, <2>2, <3>1, ClaimQuarantineCatalog, OperationMade, PreparedIntent
    <3>3. /\ DOMAIN batches' = DOMAIN batches \union {plan}
          /\ \A p \in DOMAIN batches : batches'[p] = batches[p]
          /\ batches'[plan] \in Batches /\ batches'[plan].deletes = {}
      BY <1>3, <2>2, <3>1, ClaimQuarantineCatalog, ClaimedBatches
    <3>4. UNCHANGED <<roots, holds>>
      BY <1>3 DEF ClaimQuarantine
    <3> QED
      BY <1>1, <3>2, <3>3, <3>4 DEF CatalogTyped
  <2> QED
    BY <2>1, <2>2
<1>4. ASSUME NEW plan \in DOMAIN batches, ClaimRestore(c, plan)
      PROVE  CatalogTyped'
  <2>1. intent' \in Intents
    BY <1>1, <1>4, OperationMade, PreparedIntent DEF CatalogTyped, ClaimRestore
  <2> QED
    BY <1>1, <1>4, <2>1 DEF CatalogTyped, ClaimRestore
<1>5. ASSUME NEW plan \in DOMAIN batches, ClaimCommit(c, plan)
      PROVE  CatalogTyped'
  <2>1. intent' \in Intents
    BY <1>1, <1>5, OperationMade, PreparedIntent DEF CatalogTyped, ClaimCommit
  <2>2. /\ DOMAIN batches' = DOMAIN batches
        /\ \A p \in DOMAIN batches \ {plan} : batches'[p] = batches[p]
        /\ batches'[plan] \in Batches /\ batches'[plan].deletes \subseteq plan.candidates
    BY <1>5, CommittingBatches DEF ClaimCommit
  <2> QED
    BY <1>1, <1>5, <2>1, <2>2 DEF CatalogTyped, ClaimCommit
<1>6. CASE MarkApplying(c)
  BY <1>1, <1>6, MarkedIntent DEF CatalogTyped, MarkApplying
<1>7. CASE Complete(c) /\ ~UNCHANGED <<intent, batches>>
  <2>1. /\ IsActive(task[c].op) /\ intent' = None /\ UNCHANGED <<roots, holds>>
        /\ batches' = [batches EXCEPT ![task[c].op.plan].state = Outcome(task[c].op)]
    BY <1>7 DEF Complete
  <2>2. PICK state \in BatchStates : state = Outcome(task[c].op)
    BY <1>7, OutcomeTyped, CallFields DEF Complete, Working
  <2>3. CASE task[c].op.plan \in DOMAIN batches
    <3>1. PICK plan \in DOMAIN batches : plan = task[c].op.plan
      BY <2>3
    <3>2. /\ DOMAIN batches' = DOMAIN batches
          /\ \A p \in DOMAIN batches \ {plan} : batches'[p] = batches[p]
          /\ batches'[plan] \in Batches /\ batches'[plan].deletes = batches[plan].deletes
      BY <1>1, <2>1, <2>2, <3>1, EndedBatches
    <3> QED
      BY <1>1, <2>1, <3>2 DEF CatalogTyped
  <2>4. CASE task[c].op.plan \notin DOMAIN batches
    <3>1. DOMAIN batches' = DOMAIN batches /\ \A p \in DOMAIN batches : batches'[p] = batches[p]
      BY <2>1, <2>4
    <3> QED
      BY <1>1, <2>1, <3>1 DEF CatalogTyped
  <2> QED
    BY <2>3, <2>4
<1>8. CASE Complete(c) /\ UNCHANGED <<intent, batches>>
  BY <1>1, <1>8 DEF CatalogTyped, Complete
<1> QED
  BY <1>2, <1>3, <1>4, <1>5, <1>6, <1>7, <1>8 DEF Begin, Step, Observe, Recover, Crash, Unlink,
     FindMoved, Link, Remove, Refused, catalog

LEMMA StoreKept ==
    ASSUME Typed, NEW c \in Calls, Begin(c) \/ Step(c) \/ Crash(c)
    PROVE  StoreTyped'
<1>1. StoreTyped
  BY TypedParts
<1>2. CASE UNCHANGED <<storage, writers>>
  BY <1>1, <1>2 DEF StoreTyped, storage, writers
<1>3. ASSUME NEW o \in Objects, Link(c, o)
      PROVE  StoreTyped'
  BY <1>1, <1>3, LinkFiles DEF StoreTyped, Link, writers
<1>4. ASSUME NEW o \in Objects, Remove(c, o)
      PROVE  StoreTyped'
  BY <1>1, <1>4, RemoveFiles DEF StoreTyped, Remove, writers
<1>5. CASE Unlink(c)
  BY <1>1, <1>5, UnlinkFiles DEF StoreTyped, Unlink, writers
<1> QED
  BY <1>2, <1>3, <1>4, <1>5 DEF Begin, Step, Observe, Recover, ClaimRestore, ClaimCommit, Crash,
     ClaimQuarantine, MarkApplying, FindMoved, Refused, Complete

LEMMA CallTyped ==
    ASSUME Typed, NEW c \in Calls, Begin(c) \/ Step(c) \/ Crash(c)
    PROVE  Typed'
<1>1. crashes' \in 0 .. MaxCrashes
  <2>1. CASE Crash(c)
    BY <2>1, BoundsAssumption DEF Crash, Typed, TypeOK
  <2>2. CASE UNCHANGED crashes
    BY <2>2 DEF Typed, TypeOK
  <2> QED
    BY <2>1, <2>2 DEF Begin, Step, Observe, Recover, ClaimRestore, ClaimCommit,
       ClaimQuarantine, MarkApplying, FindMoved, Refused, Complete, Link, Unlink, Remove
<1> QED
  BY <1>1, CallGoes, StoreKept, CatalogKept, TypedNext DEF Went

LEMMA WriteTyped ==
    ASSUME Typed, NEW o \in Objects, Write(o) \/ Age(o)
    PROVE  Typed'
<1>1. /\ Typed /\ StoreTyped /\ CatalogTyped
      /\ crashes \in 0 .. MaxCrashes /\ task \in [Calls -> Tasks]
  BY TypedParts
<1>2. UNCHANGED <<holds, batches, intent, crashes, task>>
  BY DEF Write, Publish, Verify, CommitReference, Abandon, Age, catalog
<1>3. StoreTyped'
  <2>1. CASE Publish(o)
    BY <1>1, <2>1, PublishFiles DEF StoreTyped, Publish, writers
  <2>2. CASE Verify(o) \/ CommitReference(o) \/ Abandon(o)
    BY <1>1, <2>2 DEF StoreTyped, Verify, CommitReference, Abandon, storage
  <2>3. CASE Age(o)
    BY <1>1, <2>3 DEF StoreTyped, Age, writers
  <2> QED
    BY <2>1, <2>2, <2>3 DEF Write
<1>4. CatalogTyped'
  BY <1>1, <1>2 DEF CatalogTyped, Write, Publish, Verify, CommitReference, Abandon, Age, catalog
<1> QED
  BY <1>1, <1>2, <1>3, <1>4, TypedNext

LEMMA HoldTyped ==
    ASSUME Typed, NEW o \in Holdable, Hold(o)
    PROVE  Typed'
<1>1. /\ Typed /\ StoreTyped /\ CatalogTyped
      /\ crashes \in 0 .. MaxCrashes /\ task \in [Calls -> Tasks]
  BY TypedParts
<1>2. UNCHANGED <<storage, pending, roots, batches, intent, crashes, task>> /\ o \in Objects
  BY HoldableAssumption DEF Hold, SightForHold, AddHold, ReleaseHold, HoldExpires, catalog, writers
<1>3. sighted' \subseteq Objects
  BY <1>1, <1>2 DEF StoreTyped, Hold, SightForHold, AddHold, ReleaseHold, HoldExpires, writers
<1>4. holds' \in [Objects -> {"never", "held", "over"}]
  BY <1>1, <1>2 DEF CatalogTyped, Hold, SightForHold, AddHold, ReleaseHold, HoldExpires, catalog
<1>5. StoreTyped' /\ CatalogTyped'
  BY <1>1, <1>2, <1>3, <1>4 DEF StoreTyped, CatalogTyped, storage
<1> QED
  BY <1>1, <1>2, <1>5, TypedNext

LEMMA GraceTyped ==
    ASSUME Typed, NEW plan \in DOMAIN batches, GraceElapses(plan)
    PROVE  Typed'
<1>1. /\ Typed /\ StoreTyped /\ CatalogTyped
      /\ crashes \in 0 .. MaxCrashes /\ task \in [Calls -> Tasks]
  BY TypedParts
<1>2. UNCHANGED <<storage, writers, roots, holds, intent, crashes, task>>
  BY DEF GraceElapses
<1>3. /\ DOMAIN batches' = DOMAIN batches
      /\ \A p \in DOMAIN batches \ {plan} : batches'[p] = batches[p]
      /\ batches'[plan] \in Batches /\ batches'[plan].deletes = batches[plan].deletes
  BY <1>1, RipeBatches DEF GraceElapses
<1>4. CatalogTyped'
  BY <1>1, <1>2, <1>3 DEF CatalogTyped
<1>5. StoreTyped'
  BY <1>1, <1>2 DEF StoreTyped, storage, writers
<1> QED
  BY <1>1, <1>2, <1>4, <1>5, TypedNext

LEMMA TypedInit == Init => Typed
<1> SUFFICES ASSUME Init PROVE Typed
  OBVIOUS
<1>1. StoreTyped
  BY BoundsAssumption DEF Init, StoreTyped
<1>2. CatalogTyped
  BY DEF Init, CatalogTyped
<1>3. crashes \in 0 .. MaxCrashes /\ task \in [Calls -> Tasks]
  BY BoundsAssumption, IdleAt DEF Init
<1> QED
  BY <1>1, <1>2, <1>3, TypedParts

LEMMA TypedStutter == Typed /\ UNCHANGED vars => Typed'
<1> SUFFICES ASSUME Typed, UNCHANGED vars PROVE Typed'
  OBVIOUS
<1>1. StoreTyped' /\ CatalogTyped'
  BY TypedParts DEF vars, storage, catalog, writers, StoreTyped, CatalogTyped
<1> QED
  BY <1>1, TypedParts, TypedNext DEF vars

LEMMA TypedStep == Typed /\ [Next]_vars => Typed'
BY CallTyped, WriteTyped, HoldTyped, GraceTyped, TypedStutter DEF Next

\* Every variable keeps its type, for any number of maintenance calls.
THEOREM TypeCorrect == Spec => []TypeOK
<1>1. Typed => TypeOK
  BY DEF Typed
<1> QED
  BY <1>1, TypedInit, TypedStep, PTL DEF Spec
-----------------------------------------------------------------------------
(* The inductive invariant: what it says of a step's call, and how it is   *)
(* kept where little changes.                                              *)

\* What a call that is at work knows of its operation.
LEMMA WorkFacts ==
    ASSUME IInv, NEW c \in Calls, task[c].at \in Working
    PROVE  /\ Fenced /\ task[c].op = intent.op /\ intent.op \in Operations
           /\ task[c].op.plan \in DOMAIN batches /\ task[c].op.plan \in Plans
           /\ task[c].op.plan.candidates \subseteq Objects
           /\ batches[task[c].op.plan].deletes \subseteq task[c].op.plan.candidates
           /\ Live(task[c].op.plan)
           /\ \/ task[c].op.kind = "quarantine" /\ batches[task[c].op.plan].state = "PREPARED"
              \/ task[c].op.kind = "restore" /\ batches[task[c].op.plan].state = "QUARANTINED"
              \/ task[c].op.kind = "commit" /\ batches[task[c].op.plan].state = "COMMITTING"
<1>1. Typed /\ StateInv /\ TaskInv(c)
  BY DEF IInv
<1>2. Fenced /\ task[c].op = intent.op
  BY <1>1 DEF TaskInv
<1>3. intent.op \in Operations /\ intent.op.kind \in {"quarantine", "restore", "commit"}
  BY <1>1, <1>2, FencedIntent
<1>4. intent.op.plan \in DOMAIN batches
  BY <1>1, <1>2 DEF StateInv
<1>5. /\ intent.op.plan \in Plans /\ intent.op.plan.candidates \subseteq Objects
      /\ batches[intent.op.plan].deletes \subseteq intent.op.plan.candidates
  BY <1>1, <1>4, PlanFields DEF Typed, TypeOK
<1>6. \/ intent.op.kind = "quarantine" /\ batches[intent.op.plan].state = "PREPARED"
      \/ intent.op.kind = "restore" /\ batches[intent.op.plan].state = "QUARANTINED"
      \/ intent.op.kind = "commit" /\ batches[intent.op.plan].state = "COMMITTING"
  BY <1>1, <1>2, <1>3, <1>4 DEF StateInv, Under
<1> QED
  BY <1>2, <1>3, <1>4, <1>5, <1>6 DEF Live, Ended

\* Steps of writers, of operators and of time: no file leaves a tree and none
\* comes to quarantine, no batch changes but for its grace, and nothing comes
\* under protection while the fence is up.
LEMMA OutsideKeeps ==
    ASSUME IInv, Typed', UNCHANGED <<intent, task>>,
           \A o \in Objects : files'["quarantine"][o] = files["quarantine"][o],
           \A o \in Objects : files["active"][o] # 0 => files'["active"][o] # 0,
           DOMAIN batches' = DOMAIN batches,
           \A plan \in DOMAIN batches : /\ batches'[plan].state = batches[plan].state
                                        /\ batches'[plan].deletes = batches[plan].deletes,
           Fenced => Protected' \subseteq Protected
    PROVE  IInv'
<1>1. Fenced' <=> Fenced
  BY DEF Fenced
<1>2. StateInv'
  BY <1>1 DEF IInv, StateInv, Under
<1>3. Apart'
  BY DEF IInv, Apart, Live
<1>4. Owned'
  BY DEF IInv, Owned, Live
<1>5. BatchIsWhole'
  <2>1. \A plan \in DOMAIN batches : plan.candidates \subseteq Objects
    BY PlanFields DEF IInv, Typed, TypeOK
  <2> QED
    BY <1>1, <2>1 DEF IInv, BatchIsWhole
<1>6. Spared'
  <2>1. Fenced => intent.op.plan \in DOMAIN batches
    BY DEF IInv, StateInv
  <2> QED
    BY <1>1, <2>1 DEF IInv, Spared
<1>7. \A c \in Calls : TaskInv(c)'
  <2> TAKE c \in Calls
  <2>1. TaskInv(c) /\ Typed
    BY DEF IInv
  <2>2. task[c].at = "observed" =>
          \A o \in task[c].plan.candidates : files'["quarantine"][o] = 0
    BY <2>1, CallFields, PlanFields DEF TaskInv
  <2>3. task[c].at \in {"applying", "linked"} =>
          \A o \in task[c].op.plan.candidates \ task[c].todo : Done(task[c].op, o)'
    <3> SUFFICES ASSUME task[c].at \in {"applying", "linked"},
                        NEW o \in task[c].op.plan.candidates \ task[c].todo
                 PROVE  Done(task[c].op, o)'
      OBVIOUS
    <3>1. Done(task[c].op, o)
      BY <2>1 DEF TaskInv
    <3>2. task[c].op.plan \in DOMAIN batches /\ o \in Objects
      BY WorkFacts DEF Working
    <3> QED
      BY <3>1, <3>2 DEF Done, Removes
  <2>4. task[c].at = "linked" =>
          /\ ~Removes(task[c].op, task[c].entry)'
          /\ files'[Target(task[c].op)][task[c].entry] # 0
    <3>1. task[c].at = "linked" => task[c].op.plan \in DOMAIN batches
      BY WorkFacts DEF Working
    <3>2. task[c].at = "linked" => task[c].entry \in Objects
      BY <2>1, CallFields
    <3> QED
      BY <2>1, <3>1, <3>2, SourceAndTarget DEF TaskInv, Removes
  <2> QED
    BY <1>1, <2>1, <2>2, <2>3, <2>4 DEF TaskInv
<1> QED
  BY <1>2, <1>3, <1>4, <1>5, <1>6, <1>7 DEF IInv

\* Steps that change nothing but where the one call is and, maybe, whether its
\* operation is being applied.
LEMMA CallQuiet ==
    ASSUME OneCall, IInv, Typed', NEW c \in Calls,
           UNCHANGED <<files, roots, holds, batches>>,
           Fenced' <=> Fenced, Fenced => intent'.op = intent.op, TaskInv(c)'
    PROVE  IInv'
<1>1. StateInv'
  BY DEF IInv, StateInv, Under
<1>2. Apart'
  BY DEF IInv, Apart, Live
<1>3. Owned'
  BY DEF IInv, Owned, Live
<1>4. BatchIsWhole'
  BY DEF IInv, BatchIsWhole
<1>5. Spared'
  BY DEF IInv, Spared, Protected, Held
<1>6. \A d \in Calls : TaskInv(d)'
  BY DEF OneCall
<1> QED
  BY <1>1, <1>2, <1>3, <1>4, <1>5, <1>6 DEF IInv

\* A call that has ended knows nothing.
LEMMA IdleKnows ==
    ASSUME NEW c \in Calls, task'[c] = Idle
    PROVE  TaskInv(c)'
BY IdleAt DEF TaskInv, Working

LEMMA HoldingKnows ==
    ASSUME NEW c \in Calls, NEW op, task'[c] = Holding(op), Fenced', op = intent'.op
    PROVE  TaskInv(c)'
BY DEF TaskInv, Holding, Working

\* A call goes on with the entries it has not done.
LEMMA ApplyingKnows ==
    ASSUME NEW c \in Calls, NEW op, NEW todo, task'[c] = Applying(op, todo), Fenced',
           op = intent'.op, todo \subseteq op.plan.candidates,
           \A o \in op.plan.candidates \ todo : Done(op, o)'
    PROVE  TaskInv(c)'
<1>1. task'[c].at = "applying" /\ task'[c].op = op /\ task'[c].todo = todo
  BY DEF Applying
<1> QED
  BY <1>1 DEF TaskInv, Working
-----------------------------------------------------------------------------
(* The steps that move no file and claim nothing.                          *)

LEMMA WriteKeeps ==
    ASSUME IInv, NEW o \in Objects, Write(o) \/ Age(o)
    PROVE  IInv'
<1>1. Typed /\ Typed'
  BY WriteTyped DEF IInv
<1>2. UNCHANGED <<intent, task, batches, holds>>
  BY DEF Write, Publish, Verify, CommitReference, Abandon, Age, catalog
<1>3. /\ \A x \in Objects : files'["quarantine"][x] = files["quarantine"][x]
      /\ \A x \in Objects : files["active"][x] # 0 => files'["active"][x] # 0
  <2>1. CASE Publish(o)
    BY <1>1, <2>1, PublishFiles DEF Trees
  <2>2. CASE UNCHANGED files
    BY <2>2
  <2> QED
    BY <2>1, <2>2 DEF Write, Verify, CommitReference, Abandon, Age, storage
<1>4. Fenced => Protected' \subseteq Protected
  BY <1>2 DEF Protected, Held, Write, Publish, Verify, CommitReference, Abandon, Age, catalog
<1> QED
  BY <1>1, <1>2, <1>3, <1>4, OutsideKeeps

LEMMA HoldKeeps ==
    ASSUME IInv, NEW o \in Holdable, Hold(o)
    PROVE  IInv'
<1>1. Typed /\ Typed'
  BY HoldTyped DEF IInv
<1>2. UNCHANGED <<intent, task, batches, roots, files>>
  BY DEF Hold, SightForHold, AddHold, ReleaseHold, HoldExpires, catalog, storage
<1>3. Fenced => Protected' \subseteq Protected
  <2>1. Fenced => \A x \in Objects : holds'[x] = "held" => holds[x] = "held"
    BY <1>1, HoldableAssumption
       DEF Hold, SightForHold, AddHold, ReleaseHold, HoldExpires, catalog, Typed, TypeOK
  <2> QED
    BY <1>2, <2>1 DEF Protected, Held
<1> QED
  BY <1>1, <1>2, <1>3, OutsideKeeps

LEMMA GraceKeeps ==
    ASSUME IInv, NEW plan \in DOMAIN batches, GraceElapses(plan)
    PROVE  IInv'
<1>1. Typed /\ Typed'
  BY GraceTyped DEF IInv
<1>2. UNCHANGED <<intent, task, roots, holds, files>>
  BY DEF GraceElapses, storage
<1>3. /\ DOMAIN batches' = DOMAIN batches
      /\ \A p \in DOMAIN batches : /\ batches'[p].state = batches[p].state
                                   /\ batches'[p].deletes = batches[p].deletes
  BY <1>1, RipeBatches DEF GraceElapses
<1> QED
  BY <1>1, <1>2, <1>3, OutsideKeeps DEF Protected, Held

LEMMA ObserveKeeps ==
    ASSUME OneCall, IInv, NEW c \in Calls, Observe(c)
    PROVE  IInv'
<1>1. Typed /\ Typed'
  BY CallTyped DEF IInv, Begin
<1>2. task'[c] = [at |-> "observed", plan |-> CurrentPlan]
  BY <1>1, ObserveGoes
<1>3. UNCHANGED <<storage, catalog>>
  BY DEF Observe
<1>4. Fair(CurrentPlan)
  BY DEF Fair, CurrentPlan, Candidates, Protected
<1>5. \A o \in CurrentPlan.candidates : files["quarantine"][o] = 0
  BY <1>1 DEF Observe, CurrentPlan, Candidates, Consistent, Typed, TypeOK
<1>6. CurrentPlan \notin DOMAIN batches
  BY DEF Observe
<1>7. TaskInv(c)'
  <2>1. PICK plan \in Plans : plan = CurrentPlan
    BY <1>1, CurrentPlanTyped
  <2>2. task'[c].at = "observed" /\ task'[c].plan = plan
    BY <1>2, <2>1
  <2> QED
    BY <1>3, <1>4, <1>5, <1>6, <2>1, <2>2 DEF TaskInv, Working, storage, catalog
<1> QED
  BY <1>1, <1>3, <1>7, CallQuiet DEF storage, catalog, Fenced

LEMMA RecoverKeeps ==
    ASSUME OneCall, IInv, NEW c \in Calls, Recover(c)
    PROVE  IInv'
<1>1. Typed /\ Typed'
  BY CallTyped DEF IInv, Begin
<1>2. task'[c] = Holding(intent.op) /\ UNCHANGED <<storage, catalog>> /\ Fenced
  BY <1>1, RecoverGoes DEF Recover
<1>3. TaskInv(c)'
  BY <1>2, HoldingKnows DEF catalog, Fenced
<1> QED
  BY <1>1, <1>2, <1>3, CallQuiet DEF storage, catalog, Fenced

LEMMA MarkApplyingKeeps ==
    ASSUME OneCall, IInv, NEW c \in Calls, MarkApplying(c)
    PROVE  IInv'
<1>1. Typed /\ Typed' /\ task[c].at \in Working
  BY CallTyped DEF IInv, Step, MarkApplying, Working
<1>2. Fenced /\ task[c].op = intent.op
  BY <1>1, WorkFacts
<1>3. Fenced' /\ intent'.op = intent.op
  BY <1>1, <1>2, MarkedIntent
<1>4. TaskInv(c)'
  BY <1>1, <1>2, <1>3, MarkApplyingGoes, ApplyingKnows
<1>5. UNCHANGED <<files, roots, holds, batches>>
  BY DEF MarkApplying, storage
<1> QED
  BY <1>1, <1>2, <1>3, <1>4, <1>5, CallQuiet

LEMMA FindMovedKeeps ==
    ASSUME OneCall, IInv, NEW c \in Calls, NEW o \in Objects, FindMoved(c, o)
    PROVE  IInv'
<1>1. /\ Typed /\ Typed' /\ task[c].at \in Working /\ task[c].at = "applying" /\ TaskInv(c)
      /\ UNCHANGED <<storage, catalog>>
  BY CallTyped DEF IInv, Step, FindMoved, MustMove, AtEntry, Working
<1>2. PICK op \in Operations : op = task[c].op
  BY <1>1, WorkFacts
<1>3. PICK todo \in SUBSET Objects : todo = task[c].todo \ {o}
  BY <1>1, CallFields
<1>4. Fenced /\ op = intent.op
  BY <1>1, <1>2, WorkFacts
<1>5. task'[c] = Applying(op, todo)
  BY <1>1, <1>2, <1>3, EntryGoes DEF FindMoved, MustMove
<1>6. Done(op, o)
  BY <1>2, SourceAndTarget DEF FindMoved, SourceFile, TargetFile, Done
<1>7. \A x \in op.plan.candidates \ todo : Done(op, x)'
  BY <1>1, <1>2, <1>3, <1>6 DEF TaskInv, Done, Removes, storage, catalog
<1>8. todo \subseteq op.plan.candidates
  BY <1>1, <1>2, <1>3 DEF TaskInv
<1>9. TaskInv(c)'
  BY <1>1, <1>4, <1>5, <1>7, <1>8, ApplyingKnows DEF Fenced, catalog
<1> QED
  BY <1>1, <1>9, CallQuiet DEF storage, catalog, Fenced

LEMMA EndKeeps ==
    ASSUME OneCall, IInv, NEW c \in Calls, Crash(c) \/ \E o \in Objects : Refused(c, o)
    PROVE  IInv'
<1>1. Typed /\ Typed' /\ UNCHANGED <<storage, catalog>> /\ task'[c] = Idle
  BY CallTyped, EndGoes DEF IInv, Step, Crash, Refused
<1> QED
  BY <1>1, IdleKnows, CallQuiet DEF storage, catalog, Fenced
-----------------------------------------------------------------------------
(* Claims.                                                                 *)

\* While no operation is active every batch that has not ended is set aside.
LEMMA UnfencedWhole ==
    ASSUME IInv, ~Fenced, NEW plan \in DOMAIN batches, Live(plan)
    PROVE  /\ batches[plan].state = "QUARANTINED"
           /\ \A o \in plan.candidates : files["quarantine"][o] # 0
BY DEF IInv, StateInv, Under, Live, Ended, BatchIsWhole, Typed, TypeOK, BatchStates

LEMMA ClaimQuarantineKeeps ==
    ASSUME OneCall, IInv, NEW c \in Calls, ClaimQuarantine(c)
    PROVE  IInv'
<1>1. Typed /\ Typed' /\ UNCHANGED <<storage, roots, holds>> /\ TaskInv(c)
  BY CallTyped DEF IInv, Step, ClaimQuarantine
<1>2. CASE UNCHANGED <<intent, batches>>
  <2>1. CASE task'[c] = Idle
    BY <1>1, <1>2, <2>1, IdleKnows, CallQuiet DEF storage, Fenced
  <2>2. CASE task'[c] # Idle
    <3>1. /\ Fenced /\ intent.op = Operation("quarantine", task[c].plan)
          /\ task' = [task EXCEPT ![c] = Holding(intent.op)]
      <4>1. (Fenced /\ intent.op = Operation("quarantine", task[c].plan)
             /\ task' = [task EXCEPT ![c] = Holding(Operation("quarantine", task[c].plan))])
            \/ (~Fenced /\ task[c].plan \notin DOMAIN batches
                /\ intent' = [op |-> Operation("quarantine", task[c].plan), state |-> "PREPARED"])
        BY <1>1, <2>2, EndGoes DEF ClaimQuarantine, Prepare
      <4>2. CASE intent' = [op |-> Operation("quarantine", task[c].plan), state |-> "PREPARED"]
                 /\ ~Fenced /\ task[c].plan \notin DOMAIN batches
        <5>1. Operation("quarantine", task[c].plan) \in Operations
          BY CallFields, OperationMade, <1>1 DEF ClaimQuarantine
        <5>2. intent' \in Intents
          BY <4>2, <5>1 DEF Intents
        <5> QED
          BY <1>2, <4>2, <5>2, NoneAssumption DEF Fenced, Intents
      <4> QED
        BY <4>1, <4>2
    <3>2. task'[c] = Holding(intent.op)
      BY <1>1, <3>1, FencedIntent, Rows, Going
    <3>3. TaskInv(c)'
      BY <1>2, <3>1, <3>2, HoldingKnows DEF Fenced
    <3> QED
      BY <1>1, <1>2, <3>3, CallQuiet DEF storage, Fenced
  <2> QED
    BY <2>1, <2>2
<1>3. CASE ~UNCHANGED <<intent, batches>>
  <2>1. PICK plan \in Plans : plan = task[c].plan
    BY <1>1, <1>3, ClaimQuarantineCatalog
  <2>2. /\ ~Fenced /\ plan \notin DOMAIN batches /\ StillValid(plan) /\ task[c].at = "observed"
        /\ Prepare(c, Operation("quarantine", plan))
    BY <1>1, <1>3, <2>1, ClaimQuarantineCatalog
  <2>3. /\ DOMAIN batches' = DOMAIN batches \union {plan}
        /\ \A p \in DOMAIN batches : batches'[p] = batches[p]
        /\ batches'[plan].state = "PREPARED"
    BY <1>1, <1>3, <2>1, ClaimQuarantineCatalog, ClaimedBatches
  <2>4. PICK op \in Operations : op = Operation("quarantine", plan)
    BY OperationMade
  <2>5. /\ Fenced' /\ intent'.op = op /\ op.kind = "quarantine" /\ op.plan = plan
        /\ task' = [task EXCEPT ![c] = Holding(op)]
    BY <2>2, <2>4, OperationMade, PreparedIntent
  <2>6. Fair(plan) /\ \A o \in plan.candidates : files["quarantine"][o] = 0
    BY <1>1, <2>1, <2>2 DEF TaskInv
  <2>7. \A p \in DOMAIN batches : batches[p].state \notin {"PREPARED", "COMMITTING"}
    BY <2>2 DEF IInv, StateInv, Under
  <2>8. StateInv'
    BY <2>2, <2>3, <2>5, <2>7 DEF IInv, StateInv, Under
  <2>9. Apart'
    <3>1. \A p \in DOMAIN batches : Live(p) => p.candidates \intersect plan.candidates = {}
      BY <2>2, <2>6, UnfencedWhole
    <3> QED
      BY <2>2, <2>3, <3>1 DEF IInv, Apart, Live
  <2>10. Owned'
    BY <1>1, <2>3 DEF IInv, Owned, Live, storage
  <2>11. BatchIsWhole'
    BY <1>1, <2>2, <2>3, <2>5 DEF IInv, BatchIsWhole, storage
  <2>12. Spared'
    BY <1>1, <2>2, <2>5, <2>6 DEF Spared, Protected, Held, Fair, StillValid
  <2>13. TaskInv(c)'
    BY <1>1, <2>5, Rows, Going, HoldingKnows
  <2> QED
    BY <1>1, <2>8, <2>9, <2>10, <2>11, <2>12, <2>13 DEF IInv, OneCall
<1> QED
  BY <1>2, <1>3

LEMMA ClaimRestoreKeeps ==
    ASSUME OneCall, IInv, NEW c \in Calls, NEW plan \in DOMAIN batches, ClaimRestore(c, plan)
    PROVE  IInv'
<1>1. Typed /\ Typed' /\ UNCHANGED <<storage, roots, holds, batches>> /\ ~Fenced
  BY CallTyped DEF IInv, Begin, ClaimRestore
<1>2. plan \in Plans /\ batches[plan].state = "QUARANTINED"
  BY <1>1 DEF ClaimRestore, Typed, TypeOK
<1>3. PICK op \in Operations : op = Operation("restore", plan)
  BY <1>2, OperationMade
<1>4. /\ Fenced' /\ intent'.op = op /\ op.kind = "restore" /\ op.plan = plan
      /\ task' = [task EXCEPT ![c] = Holding(op)]
  BY <1>2, <1>3, OperationMade, PreparedIntent DEF ClaimRestore
<1>5. StateInv'
  BY <1>1, <1>2, <1>4 DEF IInv, StateInv, Under
<1>6. Apart' /\ Owned' /\ BatchIsWhole'
  BY <1>1 DEF IInv, Apart, Owned, Live, BatchIsWhole, storage
<1>7. Spared'
  BY <1>4 DEF Spared
<1>8. TaskInv(c)'
  BY <1>1, <1>4, Rows, Going, HoldingKnows
<1> QED
  BY <1>1, <1>5, <1>6, <1>7, <1>8 DEF IInv, OneCall

LEMMA ClaimCommitKeeps ==
    ASSUME OneCall, IInv, NEW c \in Calls, NEW plan \in DOMAIN batches, ClaimCommit(c, plan)
    PROVE  IInv'
<1>1. Typed /\ Typed' /\ UNCHANGED <<storage, roots, holds>> /\ ~Fenced
  BY CallTyped DEF IInv, Begin, ClaimCommit
<1>2. plan \in Plans /\ batches[plan].state = "QUARANTINED"
  BY <1>1 DEF ClaimCommit, Typed, TypeOK
<1>3. PICK op \in Operations : op = Operation("commit", plan)
  BY <1>2, OperationMade
<1>4. /\ Fenced' /\ intent'.op = op /\ op.kind = "commit" /\ op.plan = plan
      /\ task' = [task EXCEPT ![c] = Holding(op)]
  BY <1>2, <1>3, OperationMade, PreparedIntent DEF ClaimCommit
<1>5. /\ DOMAIN batches' = DOMAIN batches
      /\ \A p \in DOMAIN batches \ {plan} : batches'[p] = batches[p]
      /\ batches'[plan].state = "COMMITTING" /\ batches'[plan].deletes = Deletable(plan)
  BY <1>1, CommittingBatches DEF ClaimCommit
<1>6. StateInv'
  BY <1>1, <1>2, <1>4, <1>5 DEF IInv, StateInv, Under
<1>7. \A p \in DOMAIN batches : Live(p)' <=> Live(p)
  BY <1>2, <1>5 DEF Live, Ended
<1>8. Apart' /\ Owned'
  BY <1>1, <1>5, <1>7 DEF IInv, Apart, Owned, storage
<1>9. BatchIsWhole'
  BY <1>1, <1>5 DEF IInv, BatchIsWhole, storage
<1>10. Spared'
  BY <1>1, <1>4, <1>5 DEF Spared, Deletable, Protected, Held
<1>11. TaskInv(c)'
  BY <1>1, <1>4, Rows, Going, HoldingKnows
<1> QED
  BY <1>1, <1>6, <1>8, <1>9, <1>10, <1>11 DEF IInv, OneCall
-----------------------------------------------------------------------------
(* The moves of files, and the end of an operation.                        *)

\* A step that changes files of the active operation's plan alone, and fills
\* quarantine only for a quarantine.
LEMMA MoveKeeps ==
    ASSUME OneCall, IInv, Typed', NEW c \in Calls, task[c].at \in Working,
           UNCHANGED <<roots, holds, batches, intent>>,
           \A o \in Objects \ task[c].op.plan.candidates :
               files'["quarantine"][o] = files["quarantine"][o],
           TaskInv(c)'
    PROVE  IInv'
<1>1. PICK plan \in DOMAIN batches : plan = task[c].op.plan /\ plan = intent.op.plan
  BY WorkFacts
<1>2. Live(plan) /\ Fenced
  BY <1>1, WorkFacts
<1>3. StateInv' /\ Apart'
  BY DEF IInv, StateInv, Under, Fenced, Apart, Live
<1>4. Owned'
  BY <1>1, <1>2 DEF IInv, Owned, Live
<1>5. BatchIsWhole'
  <2> SUFFICES ASSUME NEW p \in DOMAIN batches, batches[p].state = "QUARANTINED", p # plan,
                      NEW o \in p.candidates
               PROVE  files'["quarantine"][o] # 0
    BY <1>1, <1>2 DEF BatchIsWhole, Fenced
  <2>1. Live(p) /\ files["quarantine"][o] # 0
    BY <1>1 DEF IInv, BatchIsWhole, Live, Ended
  <2>2. o \in Objects /\ o \notin plan.candidates
    BY <1>2, <2>1, PlanFields DEF IInv, Apart, Live, Typed, TypeOK
  <2> QED
    BY <1>1, <2>1, <2>2
<1>6. Spared'
  BY DEF IInv, Spared, Fenced, Protected, Held
<1> QED
  BY <1>3, <1>4, <1>5, <1>6 DEF IInv, OneCall

LEMMA LinkKeeps ==
    ASSUME OneCall, IInv, NEW c \in Calls, NEW o \in Objects, Link(c, o)
    PROVE  IInv'
<1>1. /\ Typed /\ Typed' /\ task[c].at \in Working /\ task[c].at = "applying" /\ TaskInv(c)
      /\ UNCHANGED <<catalog>> /\ o \in task[c].todo /\ ~Removes(task[c].op, o)
  BY CallTyped DEF IInv, Step, Link, MustMove, AtEntry, Working
<1>2. PICK op \in Operations : op = task[c].op
  BY <1>1, WorkFacts
<1>3. PICK todo \in SUBSET Objects : todo = task[c].todo
  BY <1>1, CallFields
<1>4. PICK v : v = SourceFile(c, o)
  OBVIOUS
<1>5. /\ v # 0
      /\ \A u \in Trees, x \in Objects :
            files'[u][x] = IF u = Target(op) /\ x = o THEN v ELSE files[u][x]
  BY <1>1, <1>2, <1>4, LinkFiles
<1>6. /\ Fenced /\ op = intent.op /\ todo \subseteq op.plan.candidates
      /\ op.plan.candidates \subseteq Objects
  BY <1>1, <1>2, <1>3, WorkFacts DEF TaskInv
<1>7. task'[c] = [at |-> "linked", op |-> op, todo |-> todo, entry |-> o]
  BY <1>1, <1>2, <1>3, LinkGoes
<1>8. \A x \in op.plan.candidates \ todo : Done(op, x)'
  <2> SUFFICES ASSUME NEW x \in op.plan.candidates \ todo
               PROVE  Done(op, x)'
    OBVIOUS
  <2>1. Done(op, x) /\ x # o /\ x \in Objects
    BY <1>1, <1>2, <1>3, <1>6 DEF TaskInv
  <2>2. \A u \in Trees : files'[u][x] = files[u][x]
    BY <1>5, <2>1
  <2> QED
    BY <1>1, <2>1, <2>2 DEF Done, Removes, Trees, catalog
<1>9. files'[Target(op)][o] # 0
  BY <1>5, SourceAndTarget
<1>10. TaskInv(c)'
  <2>1. /\ task'[c].at = "linked" /\ task'[c].op = op /\ task'[c].todo = todo
        /\ task'[c].entry = o
    BY <1>7
  <2>2. Fenced' /\ op = intent'.op /\ ~Removes(op, o)'
    BY <1>1, <1>2, <1>6 DEF Fenced, catalog, Removes
  <2>3. Target(op)' = Target(op)
    BY DEF Target
  <2> QED
    BY <1>1, <1>3, <1>6, <1>8, <1>9, <2>1, <2>2, <2>3 DEF TaskInv, Working, Target, Removes
<1>11. \A x \in Objects \ op.plan.candidates : files'["quarantine"][x] = files["quarantine"][x]
  BY <1>1, <1>3, <1>5, <1>6 DEF Trees
<1> QED
  BY <1>1, <1>2, <1>10, <1>11, MoveKeeps DEF catalog

\* Whoever unlinks the source has the file at the target.
LEMMA UnlinkKeeps ==
    ASSUME OneCall, IInv, NEW c \in Calls, Unlink(c)
    PROVE  IInv'
<1>1. /\ Typed /\ Typed' /\ task[c].at \in Working /\ task[c].at = "linked" /\ TaskInv(c)
      /\ UNCHANGED <<catalog>>
  BY CallTyped DEF IInv, Step, Unlink, Working
<1>2. PICK op \in Operations : op = task[c].op
  BY <1>1, WorkFacts
<1>3. PICK o \in Objects : o = task[c].entry
  BY <1>1, CallFields
<1>4. PICK todo \in SUBSET Objects : todo = task[c].todo \ {o}
  BY <1>1, CallFields
<1>5. \A u \in Trees, x \in Objects :
         files'[u][x] = IF u = Source(op) /\ x = o THEN 0 ELSE files[u][x]
  BY <1>1, <1>2, <1>3, UnlinkFiles
<1>6. /\ Fenced /\ op = intent.op /\ op.plan.candidates \subseteq Objects
      /\ task[c].todo \subseteq op.plan.candidates /\ o \in task[c].todo
      /\ ~Removes(op, o) /\ files[Target(op)][o] # 0
  BY <1>1, <1>2, <1>3, WorkFacts DEF TaskInv
<1>7. task'[c] = Applying(op, todo)
  BY <1>1, <1>2, <1>3, <1>4, <1>6, UnlinkGoes
<1>8. \A x \in op.plan.candidates \ todo : Done(op, x)'
  <2> SUFFICES ASSUME NEW x \in op.plan.candidates \ todo
               PROVE  Done(op, x)'
    OBVIOUS
  <2>1. CASE x = o
    BY <1>5, <1>6, <2>1, SourceAndTarget DEF Done, Trees
  <2>2. CASE x # o
    <3>1. Done(op, x) /\ x \in Objects
      BY <1>1, <1>2, <1>4, <1>6, <2>2 DEF TaskInv
    <3>2. \A u \in Trees : files'[u][x] = files[u][x]
      BY <1>5, <2>2, <3>1
    <3> QED
      BY <1>1, <3>1, <3>2 DEF Done, Removes, Trees, catalog
  <2> QED
    BY <2>1, <2>2
<1>9. TaskInv(c)'
  BY <1>1, <1>4, <1>6, <1>7, <1>8, ApplyingKnows DEF Fenced, catalog
<1>10. \A x \in Objects \ op.plan.candidates : files'["quarantine"][x] = files["quarantine"][x]
  BY <1>5, <1>6 DEF Trees
<1> QED
  BY <1>1, <1>2, <1>9, <1>10, MoveKeeps DEF catalog

LEMMA RemoveKeeps ==
    ASSUME OneCall, IInv, NEW c \in Calls, NEW o \in Objects, Remove(c, o)
    PROVE  IInv'
<1>1. /\ Typed /\ Typed' /\ task[c].at \in Working /\ task[c].at = "applying" /\ TaskInv(c)
      /\ UNCHANGED <<catalog>> /\ o \in task[c].todo /\ Removes(task[c].op, o)
  BY CallTyped DEF IInv, Step, Remove, MustRemove, AtEntry, Working
<1>2. PICK op \in Operations : op = task[c].op
  BY <1>1, WorkFacts
<1>3. PICK todo \in SUBSET Objects : todo = task[c].todo \ {o}
  BY <1>1, CallFields
<1>4. \A u \in Trees, x \in Objects :
         files'[u][x] = IF u = "quarantine" /\ x = o THEN 0 ELSE files[u][x]
  BY <1>1, RemoveFiles
<1>5. /\ Fenced /\ op = intent.op /\ op.plan.candidates \subseteq Objects
      /\ task[c].todo \subseteq op.plan.candidates
  BY <1>1, <1>2, WorkFacts DEF TaskInv
<1>6. task'[c] = Applying(op, todo)
  BY <1>1, <1>2, <1>3, EntryGoes DEF Remove, MustRemove
<1>7. \A x \in op.plan.candidates \ todo : Done(op, x)'
  <2> SUFFICES ASSUME NEW x \in op.plan.candidates \ todo
               PROVE  Done(op, x)'
    OBVIOUS
  <2>1. CASE x = o
    BY <1>1, <1>2, <1>4, <2>1 DEF Done, Removes, Trees, catalog
  <2>2. CASE x # o
    <3>1. Done(op, x) /\ x \in Objects
      BY <1>1, <1>2, <1>3, <1>5, <2>2 DEF TaskInv
    <3>2. \A u \in Trees : files'[u][x] = files[u][x]
      BY <1>4, <2>2, <3>1
    <3> QED
      BY <1>1, <3>1, <3>2 DEF Done, Removes, Trees, catalog
  <2> QED
    BY <2>1, <2>2
<1>8. TaskInv(c)'
  BY <1>1, <1>3, <1>5, <1>6, <1>7, ApplyingKnows DEF Fenced, catalog
<1>9. \A x \in Objects \ op.plan.candidates : files'["quarantine"][x] = files["quarantine"][x]
  BY <1>1, <1>4, <1>5 DEF Trees
<1> QED
  BY <1>1, <1>2, <1>8, <1>9, MoveKeeps DEF catalog

\* What the catalog records when the one call has done every entry.
LEMMA CompleteFacts ==
    ASSUME IInv, NEW c \in Calls, Complete(c)
    PROVE  /\ task[c].op.plan \in DOMAIN batches /\ Live(task[c].op.plan)
           /\ Fenced /\ task[c].op = intent.op
           /\ \A o \in task[c].op.plan.candidates : Done(task[c].op, o)
           /\ DOMAIN batches' = DOMAIN batches
           /\ \A p \in DOMAIN batches \ {task[c].op.plan} : batches'[p] = batches[p]
           /\ batches'[task[c].op.plan].deletes = batches[task[c].op.plan].deletes
           /\ batches'[task[c].op.plan].ripe = batches[task[c].op.plan].ripe
           /\ batches'[task[c].op.plan].state = Outcome(task[c].op)
           /\ \/ task[c].op.kind = "quarantine" /\ Outcome(task[c].op) = "QUARANTINED"
              \/ task[c].op.kind \in {"restore", "commit"} /\ Outcome(task[c].op) \in Ended
           /\ intent' = None /\ task'[c] = Idle /\ UNCHANGED <<files, roots, holds>>
<1>1. Typed /\ TaskInv(c) /\ task[c].at \in Working /\ task[c].at = "applying" /\ task[c].todo = {}
  BY DEF IInv, Complete, Working
<1>2. /\ Fenced /\ task[c].op = intent.op /\ task[c].op.plan \in DOMAIN batches
      /\ Live(task[c].op.plan) /\ task[c].op \in Operations
  BY <1>1, WorkFacts
<1>3. \A o \in task[c].op.plan.candidates : Done(task[c].op, o)
  BY <1>1 DEF TaskInv
<1>4. /\ batches' = [batches EXCEPT ![task[c].op.plan].state = Outcome(task[c].op)]
      /\ intent' = None /\ UNCHANGED <<files, roots, holds>>
  BY <1>2 DEF Complete, IsActive, storage
<1>5. task'[c] = Idle
  BY <1>1, EndGoes DEF Complete
<1>6. Outcome(task[c].op) \in BatchStates
  BY <1>2, OutcomeTyped
<1>7. PICK plan \in DOMAIN batches : plan = task[c].op.plan
  BY <1>2
<1>8. PICK state \in BatchStates : state = Outcome(task[c].op)
  BY <1>6
<1>9. /\ DOMAIN batches' = DOMAIN batches
      /\ \A p \in DOMAIN batches \ {plan} : batches'[p] = batches[p]
      /\ batches'[plan].deletes = batches[plan].deletes
      /\ batches'[plan].ripe = batches[plan].ripe
      /\ batches'[plan].state = state
  BY <1>1, <1>4, <1>7, <1>8, EndedBatches
<1>10. \/ task[c].op.kind = "quarantine" /\ Outcome(task[c].op) = "QUARANTINED"
       \/ task[c].op.kind \in {"restore", "commit"} /\ Outcome(task[c].op) \in Ended
  BY <1>2, OperationFields DEF Outcome, Ended
<1> QED
  BY <1>2, <1>3, <1>4, <1>5, <1>7, <1>8, <1>9, <1>10

LEMMA CompleteKeeps ==
    ASSUME OneCall, IInv, NEW c \in Calls, Complete(c)
    PROVE  IInv'
<1>1. Typed /\ Typed' /\ task'[c] = Idle /\ ~Fenced'
  BY CallTyped, CompleteFacts DEF IInv, Step, Fenced
<1>2. PICK op : op = task[c].op
  OBVIOUS
<1>3. PICK plan \in DOMAIN batches : plan = op.plan
  BY <1>2, CompleteFacts
<1>4. /\ Live(plan) /\ Fenced /\ op = intent.op
      /\ \A o \in plan.candidates : Done(op, o)
      /\ DOMAIN batches' = DOMAIN batches
      /\ \A p \in DOMAIN batches \ {plan} : batches'[p] = batches[p]
      /\ \/ op.kind = "quarantine" /\ batches'[plan].state = "QUARANTINED"
         \/ op.kind \in {"restore", "commit"} /\ batches'[plan].state \in Ended
      /\ UNCHANGED <<files, roots, holds>>
  BY <1>2, <1>3, CompleteFacts
<1>5. StateInv'
  BY <1>1, <1>3, <1>4 DEF IInv, StateInv, Under, Ended
<1>6. \A p \in DOMAIN batches : Live(p)' => Live(p)
  BY <1>4 DEF Live
<1>7. Apart'
  BY <1>4, <1>6 DEF IInv, Apart
<1>8. Owned'
  <2> SUFFICES ASSUME NEW o \in Objects, files["quarantine"][o] # 0
               PROVE  \E p \in DOMAIN batches : Live(p)' /\ o \in p.candidates
    BY <1>4 DEF Owned
  <2>1. PICK p \in DOMAIN batches : Live(p) /\ o \in p.candidates
    BY DEF IInv, Owned
  <2>2. CASE p = plan
    BY <1>3, <1>4, <2>1, <2>2 DEF Done, Live, Ended
  <2>3. CASE p # plan
    BY <1>4, <2>1, <2>3 DEF Live
  <2> QED
    BY <2>2, <2>3
<1>9. BatchIsWhole'
  BY <1>3, <1>4 DEF IInv, BatchIsWhole, Done, Ended
<1>10. Spared'
  BY <1>1 DEF Spared
<1>11. TaskInv(c)'
  BY <1>1, IdleKnows
<1> QED
  BY <1>1, <1>5, <1>7, <1>8, <1>9, <1>10, <1>11 DEF IInv, OneCall
-----------------------------------------------------------------------------
(* The theorems that need one call at a time.                              *)

LEMMA InitKeeps == Init => IInv
<1> SUFFICES ASSUME Init PROVE IInv
  OBVIOUS
<1>1. Typed
  BY TypedInit
<1>2. DOMAIN batches = {} /\ ~Fenced /\ \A c \in Calls : task[c] = Idle
  BY DEF Init, Fenced
<1>3. \A o \in Objects : files["quarantine"][o] = 0
  BY DEF Init, Trees
<1>4. StateInv /\ Apart /\ Owned /\ BatchIsWhole /\ Spared
  BY <1>2, <1>3 DEF StateInv, Apart, Owned, BatchIsWhole, Spared, Under
<1>5. \A c \in Calls : TaskInv(c)
  BY <1>2, IdleAt DEF TaskInv, Working
<1> QED
  BY <1>1, <1>4, <1>5 DEF IInv

LEMMA StutterKeeps ==
    ASSUME IInv, UNCHANGED vars
    PROVE  IInv'
<1>1. Typed'
  BY TypedStutter DEF IInv
<1>2. UNCHANGED <<files, roots, holds, batches, intent, task>>
  BY DEF vars, storage, catalog
<1> QED
  BY <1>1, <1>2, OutsideKeeps DEF Protected, Held

LEMMA StepKeeps ==
    ASSUME OneCall, IInv, [Next]_vars
    PROVE  IInv'
<1>1. ASSUME NEW c \in Calls, Begin(c) PROVE IInv'
  BY <1>1, ObserveKeeps, RecoverKeeps, ClaimRestoreKeeps, ClaimCommitKeeps DEF Begin
<1>2. ASSUME NEW c \in Calls, Step(c) PROVE IInv'
  BY <1>2, ClaimQuarantineKeeps, MarkApplyingKeeps, UnlinkKeeps, CompleteKeeps, FindMovedKeeps,
     LinkKeeps, RemoveKeeps, EndKeeps DEF Step
<1>3. ASSUME NEW c \in Calls, Crash(c) PROVE IInv'
  BY <1>3, EndKeeps
<1> QED
  BY <1>1, <1>2, <1>3, WriteKeeps, HoldKeeps, GraceKeeps, StutterKeeps DEF Next

\* The inductive invariant holds of every behaviour with one call at a time.
LEMMA Inductive == ASSUME OneCall PROVE Spec => []IInv
<1>1. IInv /\ [Next]_vars => IInv'
  BY StepKeeps
<1> QED
  BY <1>1, InitKeeps, PTL DEF Spec

\* An object in quarantine has one owner, by what the batches share and hold.
LEMMA OneOwner ==
    ASSUME IInv, NEW o \in Objects, files["quarantine"][o] # 0
    PROVE  Cardinality(Owners(o)) = 1
<1>1. PICK plan \in DOMAIN batches : Live(plan) /\ o \in plan.candidates
  BY DEF IInv, Owned
<1>2. Owners(o) = {plan}
  BY <1>1 DEF IInv, Apart, Owners, Live
<1> QED
  BY <1>2, FS_Singleton

\* With one maintenance call at a time, an object in quarantine belongs to
\* exactly one batch that has not ended.
THEOREM QuarantineHasOwners == ASSUME OneCall PROVE Spec => []QuarantineIsOwned
<1>1. IInv => QuarantineIsOwned
  BY OneOwner DEF QuarantineIsOwned
<1> QED
  BY <1>1, Inductive, PTL

\* With one maintenance call at a time, a batch the catalog calls QUARANTINED
\* is all in quarantine, whatever died on the way.
THEOREM BatchesAreWhole == ASSUME OneCall PROVE Spec => []BatchIsWhole
<1>1. IInv => BatchIsWhole
  BY DEF IInv
<1> QED
  BY <1>1, Inductive, PTL

\* The state of a batch is changed to that of an ended one by Complete alone.
LEMMA OnlyCompleteEnds ==
    ASSUME OneCall, IInv, [Next]_vars, NEW plan \in DOMAIN batches,
           batches'[plan].state \in Ended, batches[plan].state \notin Ended
    PROVE  \E c \in Calls : Complete(c)
<1>1. Typed
  BY DEF IInv
<1>2. ASSUME NEW c \in Calls, Begin(c) PROVE FALSE
  <2>1. CASE UNCHANGED batches
    BY <2>1
  <2>2. ASSUME NEW p \in DOMAIN batches, ClaimCommit(c, p) PROVE FALSE
    BY <1>1, <2>2, CommittingBatches DEF ClaimCommit, Ended
  <2> QED
    BY <1>2, <2>1, <2>2 DEF Begin, Observe, Recover, ClaimRestore, catalog
<1>3. ASSUME NEW c \in Calls, ClaimQuarantine(c) PROVE FALSE
  <2>1. CASE UNCHANGED <<intent, batches>>
    BY <2>1
  <2>2. CASE ~UNCHANGED <<intent, batches>>
    BY <1>1, <1>3, <2>2, ClaimQuarantineCatalog, ClaimedBatches
  <2> QED
    BY <2>1, <2>2
<1>4. ASSUME NEW p \in DOMAIN batches, GraceElapses(p) PROVE FALSE
  BY <1>1, <1>4, RipeBatches DEF GraceElapses
<1>5. ~UNCHANGED batches
  OBVIOUS
<1>6. ASSUME NEW c \in Calls, Step(c) PROVE Complete(c)
  BY <1>3, <1>5, <1>6 DEF Step, MarkApplying, Unlink, FindMoved, Link, Remove, Refused, catalog
<1>7. ASSUME NEW c \in Calls, Crash(c) PROVE FALSE
  BY <1>5, <1>7 DEF Crash, catalog
<1>8. ASSUME NEW o \in Objects, Write(o) \/ Age(o) PROVE FALSE
  BY <1>5, <1>8 DEF Write, Publish, Verify, CommitReference, Abandon, Age, catalog
<1>9. ASSUME NEW o \in Holdable, Hold(o) PROVE FALSE
  BY <1>5, <1>9 DEF Hold, SightForHold, AddHold, ReleaseHold, HoldExpires, catalog
<1>10. CASE UNCHANGED vars
  BY <1>5, <1>10 DEF vars, catalog
<1> QED
  BY <1>2, <1>4, <1>6, <1>7, <1>8, <1>9, <1>10 DEF Next

\* With one maintenance call at a time, the trees show what the catalog records
\* of a batch at the moment it records that it was restored or committed.
THEOREM OutcomesAreTrue == ASSUME OneCall PROVE Spec => OutcomeIsTrue
<1> DEFINE Told ==
      \A plan \in DOMAIN batches :
          batches'[plan].state \in Ended /\ batches[plan].state \notin Ended =>
              \A o \in plan.candidates :
                  /\ files["quarantine"][o] = 0
                  /\ o \notin batches[plan].deletes => files["active"][o] # 0
<1>1. IInv /\ [Next]_vars => [Told]_vars
  <2> SUFFICES ASSUME IInv, [Next]_vars, NEW plan \in DOMAIN batches,
                      batches'[plan].state \in Ended, batches[plan].state \notin Ended,
                      NEW o \in plan.candidates
               PROVE  /\ files["quarantine"][o] = 0
                      /\ o \notin batches[plan].deletes => files["active"][o] # 0
    OBVIOUS
  <2>1. PICK c \in Calls : Complete(c)
    BY OnlyCompleteEnds
  <2>2. plan = task[c].op.plan /\ task[c].op.kind # "quarantine"
    BY <2>1, CompleteFacts DEF Ended
  <2>3. Done(task[c].op, o)
    BY <2>1, <2>2, CompleteFacts
  <2> QED
    BY <2>2, <2>3 DEF Done, Removes
<1> HIDE DEF Told
<1>2. Spec => [][Told]_vars
  BY <1>1, Inductive, PTL DEF Spec
<1> QED
  BY <1>2 DEF Told, OutcomeIsTrue
-----------------------------------------------------------------------------
(* That nothing referred to is lost, if recovery does not wait longer than *)
(* the grace period.                                                       *)

\* A step that takes no active file away, no file of what is referred to, and
\* leaves the batches, keeps what is safe.
LEMMA SafeKept ==
    ASSUME SafeInv, UNCHANGED batches, pending' \subseteq pending,
           roots' \union pending' \subseteq roots \union pending,
           \A o \in Objects : files["active"][o] # 0 => files'["active"][o] # 0,
           \A o \in Objects : Present(o) => Present(o)'
    PROVE  RipeInv' /\ PresentInv'
<1>1. roots \union pending \subseteq Objects
  BY DEF SafeInv, IInv, Typed, TypeOK
<1>2. RipeInv'
  BY <1>1 DEF SafeInv, RipeInv, Live
<1>3. PresentInv'
  BY <1>1 DEF SafeInv, PresentInv
<1> QED
  BY <1>2, <1>3

LEMMA QuietIsSafe ==
    ASSUME SafeInv, UNCHANGED <<batches, pending, roots, files>>
    PROVE  RipeInv' /\ PresentInv'
BY SafeKept DEF Present

LEMMA WriteIsSafe ==
    ASSUME SafeInv, NEW o \in Objects, Write(o) \/ Age(o)
    PROVE  RipeInv' /\ PresentInv'
<1>1. Typed
  BY DEF SafeInv, IInv
<1>2. CASE Publish(o)
  <2>1. \A x \in Objects : files["active"][x] # 0 => files'["active"][x] # 0
    BY <1>1, <1>2, PublishFiles DEF Trees
  <2>2. \A x \in Objects : files'["quarantine"][x] = files["quarantine"][x]
    BY <1>1, <1>2, PublishFiles DEF Trees
  <2> QED
    BY <1>2, <2>1, <2>2, SafeKept DEF Publish, catalog, writers, Present, Trees
<1>3. CASE Verify(o)
  <2>1. UNCHANGED <<files, roots, batches>> /\ pending' = pending \union {o}
    BY <1>3 DEF Verify, storage, catalog
  <2>2. files["active"][o] # 0
    BY <1>3 DEF Verify
  <2>3. RipeInv'
    BY <2>1, <2>2 DEF SafeInv, RipeInv, Live
  <2>4. PresentInv'
    BY <2>1, <2>2 DEF SafeInv, PresentInv, Present, Trees
  <2> QED
    BY <2>3, <2>4
<1>4. CASE CommitReference(o) \/ Abandon(o)
  <2>1. UNCHANGED <<files, batches>> /\ pending' \subseteq pending
    BY <1>4 DEF CommitReference, Abandon, storage, catalog
  <2>2. roots' \union pending' \subseteq roots \union pending
    BY <1>4 DEF CommitReference, Abandon, catalog
  <2> QED
    BY <2>1, <2>2, SafeKept DEF Present
<1>5. CASE Age(o)
  BY <1>5, QuietIsSafe DEF Age, catalog, writers
<1> QED
  BY <1>2, <1>3, <1>4, <1>5 DEF Write

\* The grace period ends when no writer is about to refer to anything, and not
\* before the quarantine has ended.
LEMMA GraceIsSafe ==
    ASSUME RecoveryIsPrompt, SafeInv, NEW plan \in DOMAIN batches, GraceElapses(plan)
    PROVE  RipeInv' /\ PresentInv'
<1>1. /\ pending = {} /\ batches[plan].state # "PREPARED"
      /\ UNCHANGED <<files, roots, pending>>
  BY DEF GraceElapses, NobodyWaits, RecoveryIsPrompt, storage, writers
<1>2. /\ DOMAIN batches' = DOMAIN batches
      /\ \A p \in DOMAIN batches \ {plan} : batches'[p] = batches[p]
      /\ batches'[plan].state = batches[plan].state /\ batches'[plan].ripe = TRUE
  BY RipeBatches DEF GraceElapses, SafeInv, IInv
<1>3. RipeInv'
  BY <1>1, <1>2 DEF SafeInv, RipeInv, Live
<1>4. PresentInv'
  BY <1>1 DEF SafeInv, PresentInv, Present
<1> QED
  BY <1>3, <1>4

LEMMA ClaimIsSafe ==
    ASSUME SafeInv, NEW c \in Calls,
           ClaimQuarantine(c)
           \/ \E plan \in DOMAIN batches : ClaimRestore(c, plan) \/ ClaimCommit(c, plan)
    PROVE  RipeInv' /\ PresentInv'
<1>1. Typed /\ UNCHANGED <<files, roots, pending>>
  BY DEF SafeInv, IInv, ClaimQuarantine, ClaimRestore, ClaimCommit, storage, writers
<1>2. PresentInv'
  BY <1>1 DEF SafeInv, PresentInv, Present
<1>3. CASE UNCHANGED batches
  BY <1>1, <1>3, QuietIsSafe
<1>4. CASE ClaimQuarantine(c) /\ ~UNCHANGED batches
  <2>1. PICK plan \in Plans : plan = task[c].plan
    BY <1>1, <1>4, ClaimQuarantineCatalog
  <2>2. /\ DOMAIN batches' = DOMAIN batches \union {plan}
        /\ \A p \in DOMAIN batches : batches'[p] = batches[p]
        /\ batches'[plan].state = "PREPARED" /\ batches'[plan].ripe = FALSE
        /\ plan \notin DOMAIN batches
    BY <1>1, <1>4, <2>1, ClaimQuarantineCatalog, ClaimedBatches
  <2>3. RipeInv'
    BY <1>1, <2>2 DEF SafeInv, RipeInv, Live
  <2> QED
    BY <1>2, <2>3
<1>5. ASSUME NEW plan \in DOMAIN batches, ClaimCommit(c, plan)
      PROVE  RipeInv'
  <2>1. batches[plan].state = "QUARANTINED" /\ batches[plan].ripe
    BY <1>5 DEF ClaimCommit
  <2>2. /\ DOMAIN batches' = DOMAIN batches
        /\ \A p \in DOMAIN batches \ {plan} : batches'[p] = batches[p]
        /\ batches'[plan].state = "COMMITTING" /\ batches'[plan].ripe = batches[plan].ripe
    BY <1>1, <1>5, CommittingBatches DEF ClaimCommit
  <2> QED
    BY <1>1, <2>1, <2>2 DEF SafeInv, RipeInv, Live, Ended
<1> QED
  BY <1>2, <1>3, <1>4, <1>5 DEF ClaimRestore

LEMMA LinkIsSafe ==
    ASSUME SafeInv, NEW c \in Calls, NEW o \in Objects, Link(c, o)
    PROVE  RipeInv' /\ PresentInv'
<1>1. /\ Typed /\ UNCHANGED <<catalog, writers>>
      /\ \A u \in Trees, x \in Objects : files[u][x] # 0 => files'[u][x] # 0
  BY LinkFiles DEF SafeInv, IInv, Link
<1> QED
  BY <1>1, SafeKept DEF Present, Trees, catalog, writers

\* An active file goes for a quarantine alone, whose batch is not ripe.
LEMMA UnlinkIsSafe ==
    ASSUME SafeInv, NEW c \in Calls, Unlink(c)
    PROVE  RipeInv' /\ PresentInv'
<1>1. /\ IInv /\ Typed /\ task[c].at \in Working /\ task[c].at = "linked" /\ TaskInv(c)
      /\ UNCHANGED <<catalog, writers>>
  BY DEF SafeInv, IInv, Unlink, Working
<1>2. PICK op \in Operations : op = task[c].op
  BY <1>1, WorkFacts
<1>3. PICK o \in Objects : o = task[c].entry
  BY <1>1, CallFields
<1>4. \A u \in Trees, x \in Objects :
         files'[u][x] = IF u = Source(op) /\ x = o THEN 0 ELSE files[u][x]
  BY <1>1, <1>2, <1>3, UnlinkFiles
<1>5. files[Target(op)][o] # 0 /\ o \in op.plan.candidates
  BY <1>1, <1>2, <1>3 DEF TaskInv
<1>6. \A x \in Objects : Present(x) => Present(x)'
  <2>1. Present(o)'
    BY <1>4, <1>5, SourceAndTarget DEF Present
  <2>2. \A x \in Objects \ {o} : Present(x) => Present(x)'
    BY <1>4 DEF Present
  <2> QED
    BY <2>1, <2>2
<1>7. PresentInv'
  BY <1>1, <1>6 DEF SafeInv, PresentInv, catalog, writers, Typed, TypeOK
<1>8. RipeInv'
  <2> SUFFICES ASSUME NEW p \in DOMAIN batches, Live(p), batches[p].ripe,
                      NEW x \in p.candidates \intersect pending
               PROVE  files'["active"][x] # 0
    BY <1>1 DEF SafeInv, RipeInv, Live, catalog, writers
  <2>1. files["active"][x] # 0 /\ x \in Objects
    BY <1>1 DEF SafeInv, RipeInv, Typed, TypeOK
  <2>2. CASE op.kind # "quarantine"
    BY <1>4, <2>1, <2>2, SourceAndTarget DEF Trees
  <2>3. CASE op.kind = "quarantine"
    <3>1. batches[op.plan].state = "PREPARED" /\ op.plan \in DOMAIN batches /\ Live(op.plan)
      BY <1>1, <1>2, <2>3, WorkFacts
    <3>2. p # op.plan
      BY <3>1 DEF SafeInv, RipeInv
    <3>3. x # o
      BY <1>1, <1>5, <3>1, <3>2 DEF IInv, Apart
    <3> QED
      BY <1>4, <2>1, <3>3 DEF Trees
  <2> QED
    BY <2>2, <2>3
<1> QED
  BY <1>7, <1>8

\* What is deleted nobody refers to, and nobody is about to.
LEMMA RemoveIsSafe ==
    ASSUME SafeInv, NEW c \in Calls, NEW o \in Objects, Remove(c, o)
    PROVE  /\ o \notin Protected /\ o \notin pending
           /\ RipeInv' /\ PresentInv'
<1>1. /\ IInv /\ Typed /\ task[c].at \in Working /\ UNCHANGED <<catalog, writers>>
      /\ Removes(task[c].op, o) /\ files["active"][o] = 0
  BY DEF SafeInv, IInv, Remove, MustRemove, AtEntry, Working
<1>2. PICK plan \in DOMAIN batches : plan = task[c].op.plan /\ plan = intent.op.plan
  BY <1>1, WorkFacts
<1>3. /\ o \in batches[plan].deletes /\ o \in plan.candidates /\ Live(plan) /\ Fenced
      /\ intent.op.kind = "commit" /\ batches[plan].state = "COMMITTING"
  BY <1>1, <1>2, WorkFacts DEF Removes
<1>4. o \notin Protected
  BY <1>1, <1>2, <1>3 DEF IInv, Spared
<1>5. o \notin pending
  BY <1>1, <1>2, <1>3 DEF SafeInv, RipeInv
<1>6. \A u \in Trees, x \in Objects :
         files'[u][x] = IF u = "quarantine" /\ x = o THEN 0 ELSE files[u][x]
  BY <1>1, RemoveFiles
<1>7. RipeInv'
  BY <1>1, <1>6 DEF SafeInv, RipeInv, Live, catalog, writers, Trees, Typed, TypeOK
<1>8. PresentInv'
  <2> SUFFICES ASSUME NEW x \in roots \union pending
               PROVE  Present(x)'
    BY <1>1 DEF PresentInv, catalog, writers
  <2>1. x # o /\ x \in Objects /\ Present(x)
    BY <1>1, <1>4, <1>5 DEF SafeInv, PresentInv, Protected, Typed, TypeOK
  <2> QED
    BY <1>6, <2>1 DEF Present
<1> QED
  BY <1>4, <1>5, <1>7, <1>8

LEMMA CompleteIsSafe ==
    ASSUME SafeInv, NEW c \in Calls, Complete(c)
    PROVE  RipeInv' /\ PresentInv'
<1>1. IInv /\ Typed /\ UNCHANGED pending
  BY DEF SafeInv, IInv, Complete, writers
<1>2. PICK op : op = task[c].op
  OBVIOUS
<1>3. PICK plan \in DOMAIN batches : plan = op.plan
  BY <1>1, <1>2, CompleteFacts
<1>4. /\ Live(plan) /\ DOMAIN batches' = DOMAIN batches
      /\ \A p \in DOMAIN batches \ {plan} : batches'[p] = batches[p]
      /\ batches'[plan].state \in {"QUARANTINED"} \union Ended
      /\ batches'[plan].ripe = batches[plan].ripe
      /\ UNCHANGED <<files, roots>>
  BY <1>1, <1>2, <1>3, CompleteFacts
<1>5. RipeInv'
  BY <1>1, <1>3, <1>4 DEF SafeInv, RipeInv, Live, Ended
<1>6. PresentInv'
  BY <1>1, <1>4 DEF SafeInv, PresentInv, Present
<1> QED
  BY <1>5, <1>6

LEMMA SafeStep ==
    ASSUME OneCall, RecoveryIsPrompt, SafeInv, [Next]_vars
    PROVE  SafeInv'
<1>1. IInv'
  BY StepKeeps DEF SafeInv
<1>2. ASSUME NEW c \in Calls, Begin(c) PROVE RipeInv' /\ PresentInv'
  BY <1>2, QuietIsSafe, ClaimIsSafe DEF Begin, Observe, Recover, storage, catalog, writers
<1>3. ASSUME NEW c \in Calls, Step(c) PROVE RipeInv' /\ PresentInv'
  <2>1. CASE ClaimQuarantine(c) \/ Unlink(c) \/ Complete(c)
    BY <2>1, ClaimIsSafe, UnlinkIsSafe, CompleteIsSafe
  <2>2. ASSUME NEW o \in Objects, Link(c, o) \/ Remove(c, o) PROVE RipeInv' /\ PresentInv'
    BY <2>2, LinkIsSafe, RemoveIsSafe
  <2>3. ASSUME NEW o \in Objects, FindMoved(c, o) \/ Refused(c, o)
        PROVE  RipeInv' /\ PresentInv'
    BY <2>3, QuietIsSafe DEF FindMoved, Refused, storage, catalog, writers
  <2>4. CASE MarkApplying(c)
    BY <2>4, QuietIsSafe DEF MarkApplying, storage, writers
  <2> QED
    BY <1>3, <2>1, <2>2, <2>3, <2>4 DEF Step
<1>4. ASSUME NEW c \in Calls, Crash(c) PROVE RipeInv' /\ PresentInv'
  BY <1>4, QuietIsSafe DEF Crash, storage, catalog, writers
<1>5. ASSUME NEW o \in Holdable, Hold(o) PROVE RipeInv' /\ PresentInv'
  BY <1>5, QuietIsSafe DEF Hold, SightForHold, AddHold, ReleaseHold, HoldExpires, storage,
     catalog, writers
<1>6. CASE UNCHANGED vars
  <2>1. RipeInv' /\ PresentInv'
    BY <1>6, QuietIsSafe DEF vars, storage, catalog, writers
  <2> QED
    BY <1>1, <2>1 DEF SafeInv
<1> QED
  BY <1>1, <1>2, <1>3, <1>4, <1>5, <1>6, WriteIsSafe, GraceIsSafe DEF Next, SafeInv

LEMMA SafeInit == Init => SafeInv
<1> SUFFICES ASSUME Init PROVE SafeInv
  OBVIOUS
<1>1. IInv
  BY InitKeeps
<1>2. RipeInv /\ PresentInv
  BY DEF Init, RipeInv, PresentInv
<1> QED
  BY <1>1, <1>2 DEF SafeInv

LEMMA SafeInductive == ASSUME OneCall, RecoveryIsPrompt PROVE Spec => []SafeInv
<1>1. SafeInv /\ [Next]_vars => SafeInv'
  BY SafeStep
<1> QED
  BY <1>1, SafeInit, PTL DEF Spec

\* With one maintenance call at a time, and recovery within the grace period,
\* the bytes of what a catalog record refers to are never lost.
THEOREM ReferencedStay ==
    ASSUME OneCall, RecoveryIsPrompt PROVE Spec => []ReferencedSurvives
<1>1. SafeInv => ReferencedSurvives
  BY DEF SafeInv, PresentInv, ReferencedSurvives
<1> QED
  BY <1>1, SafeInductive, PTL
-----------------------------------------------------------------------------
(* Maintenance implements ObjectRetention, step by step.                   *)

\* Where the bytes of an object are, as ObjectRetention sees them.
Where(o) ==
    IF files["active"][o] # 0 THEN "live"
    ELSE IF files["quarantine"][o] # 0 THEN "aside" ELSE "gone"
Places == [o \in Objects |-> Where(o)]

\* Every step of the promise, in the terms of Maintenance.
LEMMA Promise ==
    /\ \A o \in Objects :
          /\ Where(o) # "live" /\ Places' = [Places EXCEPT ![o] = "live"]
             /\ UNCHANGED <<roots, Held>> => Retention!Next
          /\ Where(o) = "live" /\ o \notin Protected /\ Places' = [Places EXCEPT ![o] = "aside"]
             /\ UNCHANGED <<roots, Held>> => Retention!Next
          /\ Where(o) = "aside" /\ o \notin Protected /\ Places' = [Places EXCEPT ![o] = "gone"]
             /\ UNCHANGED <<roots, Held>> => Retention!Next
          /\ Where(o) # "gone" /\ roots' = roots \union {o} /\ UNCHANGED <<Places, Held>>
             => Retention!Next
    /\ UNCHANGED <<Places, roots>> /\ Held' \subseteq Objects => Retention!Next
BY DEF Retention!Next, Retention!Appear, Retention!SetAside, Retention!Destroy, Retention!Refer,
   Retention!Hold, Retention!Unprotected, Where, Places, Protected

LEMMA HeldTyped == Held' \subseteq Objects
BY DEF Held

\* A step that moves no object and makes no reference.
LEMMA StaysPut ==
    ASSUME \A o \in Objects : Where(o)' = Where(o), UNCHANGED roots
    PROVE  Retention!Next
BY Promise, HeldTyped DEF Places

\* A step that moves one object.
LEMMA OneMoves ==
    ASSUME NEW o \in Objects, NEW w, Where(o)' = w, \A x \in Objects \ {o} : Where(x)' = Where(x)
    PROVE  Places' = [Places EXCEPT ![o] = w]
BY DEF Places

LEMMA FilesStay ==
    ASSUME UNCHANGED files
    PROVE  \A o \in Objects : Where(o)' = Where(o)
BY DEF Where

LEMMA PublishRefines ==
    ASSUME Typed, NEW o \in Objects, Publish(o)
    PROVE  Retention!Next
<1>1. Where(o) # "live"
  BY DEF Where, Publish
<1>2. Where(o)' = "live" /\ \A x \in Objects \ {o} : Where(x)' = Where(x)
  BY PublishFiles DEF Where, Trees
<1>3. UNCHANGED <<roots, Held>>
  BY DEF Publish, catalog, Held
<1> QED
  BY <1>1, <1>2, <1>3, OneMoves, Promise

LEMMA CommitReferenceRefines ==
    ASSUME SafeInv, NEW o \in Objects, CommitReference(o)
    PROVE  Retention!Next
<1>1. Where(o) # "gone"
  BY DEF SafeInv, PresentInv, Present, Where, CommitReference, Trees
<1>2. UNCHANGED <<Places, Held>> /\ roots' = roots \union {o}
  BY FilesStay DEF CommitReference, storage, Places, Held
<1> QED
  BY <1>1, <1>2, Promise

LEMMA LinkRefines ==
    ASSUME IInv, NEW c \in Calls, NEW o \in Objects, Link(c, o)
    PROVE  Retention!Next
<1>1. Typed /\ UNCHANGED <<roots, Held>> /\ SourceFile(c, o) # 0
  BY LinkFiles DEF IInv, Link, catalog, Held
<1>2. PICK op : op = task[c].op
  OBVIOUS
<1>3. \A u \in Trees, x \in Objects :
         files'[u][x] = IF u = Target(op) /\ x = o THEN SourceFile(c, o) ELSE files[u][x]
  BY <1>1, <1>2, LinkFiles
<1>4. \A x \in Objects \ {o} : Where(x)' = Where(x)
  BY <1>3 DEF Where, Trees
<1>5. CASE Where(o)' = Where(o)
  BY <1>1, <1>4, <1>5, StaysPut
<1>6. CASE Where(o)' # Where(o)
  <2>1. op.kind # "quarantine"
    BY <1>1, <1>2, <1>3, <1>6, SourceAndTarget DEF Where, Trees, SourceFile
  <2>2. Where(o)' = "live"
    BY <1>1, <1>3, <2>1, SourceAndTarget DEF Where, Trees
  <2>3. Where(o) # "live"
    BY <1>6, <2>2
  <2> QED
    BY <1>1, <1>4, <2>2, <2>3, OneMoves, Promise
<1> QED
  BY <1>5, <1>6

\* The object leaves the active tree for quarantine, unprotected as it is.
LEMMA UnlinkRefines ==
    ASSUME IInv, NEW c \in Calls, Unlink(c)
    PROVE  Retention!Next
<1>1. /\ Typed /\ UNCHANGED <<roots, Held>> /\ TaskInv(c)
      /\ task[c].at \in Working /\ task[c].at = "linked"
  BY DEF IInv, Unlink, catalog, Held, Working
<1>2. PICK op \in Operations : op = task[c].op
  BY <1>1, WorkFacts
<1>3. PICK o \in Objects : o = task[c].entry
  BY <1>1, CallFields
<1>4. \A u \in Trees, x \in Objects :
         files'[u][x] = IF u = Source(op) /\ x = o THEN 0 ELSE files[u][x]
  BY <1>1, <1>2, <1>3, UnlinkFiles
<1>5. /\ files[Target(op)][o] # 0 /\ o \in op.plan.candidates
      /\ op = intent.op /\ Fenced
  BY <1>1, <1>2, <1>3, WorkFacts DEF TaskInv
<1>6. \A x \in Objects \ {o} : Where(x)' = Where(x)
  BY <1>4 DEF Where, Trees
<1>7. CASE Where(o)' = Where(o)
  BY <1>1, <1>6, <1>7, StaysPut
<1>8. CASE Where(o)' # Where(o)
  <2>1. op.kind = "quarantine" /\ Where(o) = "live"
    BY <1>4, <1>5, <1>8, SourceAndTarget DEF Where, Trees
  <2>2. Where(o)' = "aside"
    BY <1>4, <1>5, <2>1, SourceAndTarget DEF Where, Trees
  <2>3. o \notin Protected
    BY <1>5, <2>1 DEF IInv, Spared
  <2> QED
    BY <1>1, <1>6, <2>1, <2>2, <2>3, OneMoves, Promise
<1> QED
  BY <1>7, <1>8

LEMMA RemoveRefines ==
    ASSUME SafeInv, NEW c \in Calls, NEW o \in Objects, Remove(c, o)
    PROVE  Retention!Next
<1>1. /\ Typed /\ UNCHANGED <<roots, Held>> /\ files["active"][o] = 0 /\ o \notin Protected
  BY RemoveIsSafe DEF SafeInv, IInv, Remove, catalog, Held
<1>2. \A u \in Trees, x \in Objects :
         files'[u][x] = IF u = "quarantine" /\ x = o THEN 0 ELSE files[u][x]
  BY <1>1, RemoveFiles
<1>3. Where(o)' = "gone" /\ Where(o) # "live" /\ \A x \in Objects \ {o} : Where(x)' = Where(x)
  BY <1>1, <1>2 DEF Where, Trees
<1>4. CASE Where(o) = "gone"
  BY <1>1, <1>3, <1>4, StaysPut
<1>5. CASE Where(o) = "aside"
  BY <1>1, <1>3, <1>5, OneMoves, Promise
<1> QED
  BY <1>3, <1>4, <1>5 DEF Where

LEMMA StepRefines ==
    ASSUME OneCall, SafeInv, Next
    PROVE  Retention!Next
<1>1. IInv /\ Typed
  BY DEF SafeInv, IInv
<1>2. CASE UNCHANGED <<files, roots>>
  BY <1>2, FilesStay, StaysPut
<1>3. ASSUME NEW c \in Calls, Begin(c) \/ Crash(c) PROVE UNCHANGED <<files, roots>>
  BY <1>3 DEF Begin, Crash, Observe, Recover, ClaimRestore, ClaimCommit, storage, catalog
<1>4. ASSUME NEW c \in Calls, Step(c) PROVE Retention!Next
  <2>1. CASE ClaimQuarantine(c) \/ MarkApplying(c)
    BY <1>2, <2>1 DEF ClaimQuarantine, MarkApplying, storage
  <2>2. CASE Complete(c)
    BY <1>1, <1>2, <2>2, CompleteFacts
  <2>3. ASSUME NEW o \in Objects, FindMoved(c, o) \/ Refused(c, o) PROVE Retention!Next
    BY <1>2, <2>3 DEF FindMoved, Refused, storage, catalog
  <2> QED
    BY <1>1, <1>4, <2>1, <2>2, <2>3, UnlinkRefines, LinkRefines, RemoveRefines DEF Step
<1>5. ASSUME NEW o \in Objects, Write(o) \/ Age(o) PROVE Retention!Next
  <2>1. CASE Verify(o) \/ Abandon(o) \/ Age(o)
    BY <1>2, <2>1 DEF Verify, Abandon, Age, storage, catalog
  <2> QED
    BY <1>1, <1>5, <2>1, PublishRefines, CommitReferenceRefines DEF Write
<1>6. ASSUME NEW o \in Holdable, Hold(o) PROVE UNCHANGED <<files, roots>>
  BY <1>6 DEF Hold, SightForHold, AddHold, ReleaseHold, HoldExpires, storage, catalog
<1>7. ASSUME NEW plan \in DOMAIN batches, GraceElapses(plan) PROVE UNCHANGED <<files, roots>>
  BY <1>7 DEF GraceElapses, storage
<1> QED
  BY <1>2, <1>3, <1>4, <1>5, <1>6, <1>7 DEF Next

LEMMA InitRefines == Init => Retention!Init
BY DEF Init, Retention!Init, Held, Trees

LEMMA StutterRefines == UNCHANGED vars => UNCHANGED Retention!abstract
BY DEF vars, storage, catalog, Retention!abstract, Held

\* With one maintenance call at a time, and recovery within the grace period,
\* the catalog, the operations and the two trees together keep the promise of
\* ObjectRetention: only what nothing protects is set aside or destroyed, and
\* references are made to what is there.
THEOREM TreesImplementRetention ==
    ASSUME OneCall, RecoveryIsPrompt PROVE Spec => ImplementsRetention
<1>1. SafeInv /\ [Next]_vars => [Retention!Next]_(Retention!abstract)
  BY StepRefines, StutterRefines
<1> QED
  BY <1>1, InitRefines, SafeInductive, PTL DEF Spec, ImplementsRetention, Retention!Spec

-----------------------------------------------------------------------------
(* Backup: the hypotheses are those of Maintenance.                        *)
(*                                                                         *)
(* A backup begins with no operation active, and none can be claimed while *)
(* it holds the write reservation.  Nobody therefore moves files between   *)
(* the trees while it lasts; files are published, and that is all.  What   *)
(* the catalog says of the batches when it is copied is still true of the  *)
(* quarantine when that is listed, and of the files that are copied in the *)
(* end.  A restored copy has what SafeInv wants, so that SafeInv goes on   *)
(* in the restored workspace.                                              *)

Generations == [Trees -> [Objects -> Nat]]

\* What a copy of the catalog may be, apart from what its batches say.
CopyTyped(copy) ==
    /\ copy.roots \subseteq Objects
    /\ copy.holds \in [Objects -> {"never", "held", "over"}]
    /\ \A plan \in DOMAIN copy.batches :
          /\ plan \in Plans
          /\ copy.batches[plan] \in Batches
          /\ copy.batches[plan].deletes \subseteq plan.candidates

Waiting(copy) == {plan \in DOMAIN copy.batches : copy.batches[plan].state \notin Ended}

\* The copy of the catalog is that of the workspace but for its holds, and no
\* operation has been claimed since.
SavingInv ==
    /\ Reserved =>
          /\ saving.at \in {"reserved", "listing", "copying"}
          /\ ~Fenced
          /\ CopyTyped(saving.catalog)
          /\ saving.catalog.roots = roots /\ saving.catalog.batches = batches
    /\ saving.at = "listing" => saving.active \in [Objects -> Nat]
    /\ saving.at = "copying" =>
          /\ saving = [at |-> "copying", catalog |-> saving.catalog,
                       listed |-> saving.listed, copied |-> saving.copied]
          /\ saving.listed \in Generations /\ saving.copied \in Generations
          /\ \A o \in roots : \E t \in Trees : saving.listed[t][o] # 0
          /\ \A o \in Objects :
                /\ saving.listed["quarantine"][o] # 0 <=> files["quarantine"][o] # 0
                /\ \A t \in Trees : saving.copied[t][o] # 0 => saving.listed[t][o] # 0

\* A published copy is whole, and its batches share nothing.
SavedInv ==
    saved # None =>
        /\ CopyTyped(saved.catalog) /\ saved.files \in Generations
        /\ \A o \in saved.catalog.roots : Copied(o)
        /\ \A plan \in Waiting(saved.catalog) :
              /\ saved.catalog.batches[plan].state = "QUARANTINED"
              /\ \A o \in plan.candidates : saved.files["quarantine"][o] # 0
        /\ \A plan1, plan2 \in Waiting(saved.catalog) :
              plan1 # plan2 => plan1.candidates \intersect plan2.candidates = {}
        /\ \A o \in Objects :
              saved.files["quarantine"][o] # 0 =>
                  \E plan \in Waiting(saved.catalog) : o \in plan.candidates

BackupInv == SafeInv /\ SavingInv /\ SavedInv
-----------------------------------------------------------------------------
(* The workspace beside a backup.                                          *)

\* While no operation is active, what goes on beside a backup writes nothing
\* of what was copied of the catalog and moves no file.
LEMMA BesideBackup ==
    ASSUME OneCall, RecoveryIsPrompt, SafeInv, ~Fenced, Unreserved
    PROVE  /\ SafeInv' /\ UNCHANGED <<roots, batches, intent>>
           /\ \A o \in Objects : files'["quarantine"][o] = files["quarantine"][o]
<1>1. Next
  BY DEF Unreserved, Next, Begin, Step, Write, Hold
<1>2. SafeInv'
  BY <1>1, SafeStep
<1>3. \A c \in Calls : task[c].at \notin {"applying", "linked"}
  BY WorkFacts DEF SafeInv, Working
<1>4. ASSUME NEW c \in Calls
      PROVE  /\ ~Unlink(c)
             /\ \A o \in Objects : ~FindMoved(c, o) /\ ~Link(c, o) /\ ~Remove(c, o)
                                   /\ ~Refused(c, o)
  BY <1>3 DEF Unlink, FindMoved, Link, Remove, Refused, MustMove, MustRemove, AtEntry
<1>5. \/ \E c \in Calls : Observe(c) \/ Crash(c)
      \/ \E o \in Objects : Publish(o) \/ Verify(o) \/ Abandon(o)
      \/ \E o \in Holdable : SightForHold(o) \/ HoldExpires(o)
  BY <1>4 DEF Unreserved
<1>6. UNCHANGED <<roots, batches, intent>>
  BY <1>5 DEF Observe, Crash, Publish, Verify, Abandon, SightForHold, HoldExpires, catalog
<1>7. \A o \in Objects : files'["quarantine"][o] = files["quarantine"][o]
  <2>1. ASSUME NEW o \in Objects, Publish(o)
        PROVE  \A x \in Objects : files'["quarantine"][x] = files["quarantine"][x]
    BY <2>1, PublishFiles DEF Trees, SafeInv, IInv
  <2>2. CASE UNCHANGED files
    BY <2>2
  <2> QED
    BY <1>5, <2>1, <2>2 DEF Observe, Crash, Verify, Abandon, SightForHold, HoldExpires, storage
<1> QED
  BY <1>2, <1>6, <1>7

LEMMA GiveUpIsSafe ==
    ASSUME OneCall, SafeInv, NEW c \in Calls, GiveUp(c)
    PROVE  SafeInv' /\ UNCHANGED <<roots, batches, intent, files>>
<1>1. UNCHANGED <<storage, catalog, writers, crashes>> /\ Typed
  BY DEF GiveUp, SafeInv, IInv
<1>2. Went(c) /\ task'[c] = Idle
  BY <1>1, EndGoes DEF GiveUp
<1>3. Typed'
  <2>1. StoreTyped' /\ CatalogTyped'
    BY <1>1, TypedParts DEF storage, catalog, writers, StoreTyped, CatalogTyped
  <2> QED
    BY <1>1, <1>2, <2>1, TypedParts, TypedNext DEF Went
<1>4. IInv'
  BY <1>1, <1>2, <1>3, IdleKnows, CallQuiet DEF SafeInv, storage, catalog, Fenced
<1>5. RipeInv' /\ PresentInv'
  BY <1>1, QuietIsSafe DEF storage, catalog, writers
<1> QED
  BY <1>1, <1>4, <1>5 DEF SafeInv, storage, catalog

LEMMA VarsKept ==
    ASSUME SafeInv, UNCHANGED vars
    PROVE  SafeInv' /\ UNCHANGED <<roots, batches, intent, files>>
<1>1. IInv'
  BY StutterKeeps DEF SafeInv
<1>2. RipeInv' /\ PresentInv'
  BY QuietIsSafe DEF vars, storage, catalog, writers
<1> QED
  BY <1>1, <1>2 DEF SafeInv, vars, storage, catalog

\* The backup does not move, and neither does what it relies on.
LEMMA SavingKept ==
    ASSUME SavingInv, UNCHANGED <<saving, roots, batches, intent>>,
           \A o \in Objects : files'["quarantine"][o] = files["quarantine"][o]
    PROVE  SavingInv'
BY DEF SavingInv, Reserved, Fenced, CopyTyped, Generations

LEMMA NotSaving ==
    ASSUME saving' = Idle
    PROVE  SavingInv'
BY DEF SavingInv, Reserved, Idle

LEMMA SavedKept ==
    ASSUME SavedInv, UNCHANGED saved
    PROVE  SavedInv'
BY DEF SavedInv, Copied, CopyTyped, Waiting, Generations
-----------------------------------------------------------------------------
(* The steps of a backup.                                                  *)

LEMMA ReserveSaves ==
    ASSUME SafeInv, Reserve
    PROVE  SavingInv'
<1>1. /\ saving' = [at |-> "reserved", catalog |-> CatalogNow] /\ ~Fenced
      /\ UNCHANGED <<roots, batches, intent>>
  BY DEF Reserve, vars, catalog
<1>2. PICK copy : copy = CatalogNow
  OBVIOUS
<1>3. copy.roots = roots /\ copy.batches = batches /\ copy.holds = holds
  BY <1>2 DEF CatalogNow
<1>4. CopyTyped(copy)
  BY <1>3, TypedParts DEF CopyTyped, SafeInv, IInv, CatalogTyped
<1>5. saving'.at = "reserved" /\ saving'.catalog = copy
  BY <1>1, <1>2
<1> QED
  BY <1>1, <1>3, <1>4, <1>5 DEF SavingInv, Fenced, CopyTyped

LEMMA ListActiveSaves ==
    ASSUME SafeInv, SavingInv, ListActive
    PROVE  SavingInv'
<1>1. UNCHANGED <<roots, batches, intent>> /\ files["active"] \in [Objects -> Nat] /\ Reserved
  BY DEF ListActive, vars, catalog, SafeInv, IInv, Typed, TypeOK, Trees, Reserved, Idle
<1>2. /\ saving'.at = "listing" /\ saving'.catalog = saving.catalog
      /\ saving'.active = files["active"]
  BY DEF ListActive
<1> QED
  BY <1>1, <1>2 DEF SavingInv, Fenced, CopyTyped

LEMMA ListQuarantineSaves ==
    ASSUME SafeInv, SavingInv, ListQuarantine
    PROVE  SavingInv'
<1> DEFINE listed == [active |-> saving.active, quarantine |-> files["quarantine"]]
<1>1. /\ UNCHANGED <<roots, batches, intent, files>> /\ saving.at = "listing" /\ Reserved
      /\ saving.active \in [Objects -> Nat] /\ files["quarantine"] \in [Objects -> Nat]
  BY DEF ListQuarantine, vars, catalog, storage, SafeInv, IInv, Typed, TypeOK, Trees, Reserved,
     Idle, SavingInv
<1>2. listed \in Generations /\ NoFiles \in Generations
  BY <1>1 DEF Generations, Trees, NoFiles
<1>3. \A o \in Objects : \A t \in Trees : NoFiles[t][o] = 0
  BY DEF NoFiles
<1>4. /\ listed["quarantine"] = files["quarantine"]
      /\ \A o \in roots : \E t \in Trees : listed[t][o] # 0
  BY DEF ListQuarantine, Trees
<1>5. saving' = [at |-> "copying", catalog |-> saving.catalog,
                 listed |-> listed, copied |-> NoFiles]
  BY DEF ListQuarantine
<1> HIDE DEF listed
<1>6. /\ saving'.at = "copying" /\ saving'.catalog = saving.catalog
      /\ saving'.listed = listed /\ saving'.copied = NoFiles
  BY <1>5
<1> QED
  BY <1>1, <1>2, <1>3, <1>4, <1>5, <1>6 DEF SavingInv, Fenced, CopyTyped

LEMMA CopySaves ==
    ASSUME SafeInv, SavingInv, NEW t \in Trees, NEW o \in Objects, Copy(t, o)
    PROVE  SavingInv'
<1>1. /\ UNCHANGED <<roots, batches, intent, files>> /\ saving.at = "copying" /\ Reserved
      /\ files[t][o] \in Nat /\ saving.listed[t][o] # 0
  BY DEF Copy, ToCopy, vars, catalog, storage, SafeInv, IInv, Typed, TypeOK, Reserved, Idle
<1> DEFINE copied == [saving.copied EXCEPT ![t][o] = files[t][o]]
<1>2. saving.copied \in Generations
  BY <1>1 DEF SavingInv
<1>3. /\ copied \in Generations
      /\ \A u \in Trees, x \in Objects :
            copied[u][x] = IF u = t /\ x = o THEN files[t][o] ELSE saving.copied[u][x]
  BY <1>1, <1>2 DEF Generations
<1>4. saving' = [at |-> "copying", catalog |-> saving.catalog,
                 listed |-> saving.listed, copied |-> copied]
  BY <1>1 DEF Copy, SavingInv
<1> HIDE DEF copied
<1>5. /\ saving'.at = "copying" /\ saving'.catalog = saving.catalog
      /\ saving'.listed = saving.listed /\ saving'.copied = copied
  BY <1>4
<1> QED
  BY <1>1, <1>3, <1>4, <1>5 DEF SavingInv, Fenced, CopyTyped

\* All that was listed has been copied: the copy has what the workspace had
\* all along.
LEMMA PublishBackupSaves ==
    ASSUME SafeInv, SavingInv, PublishBackup
    PROVE  SavedInv'
<1>1. saving.at = "copying" /\ Reserved /\ ToCopy = {}
  BY DEF PublishBackup, Reserved, Idle
<1>2. PICK copy : copy = saving.catalog
  OBVIOUS
<1>3. PICK copied \in Generations : copied = saving.copied
  BY <1>1 DEF SavingInv
<1>4. saved'.catalog = copy /\ saved'.files = copied
  BY <1>2, <1>3 DEF PublishBackup
<1>5. /\ CopyTyped(copy) /\ copy.roots = roots /\ copy.batches = batches /\ ~Fenced
  BY <1>1, <1>2 DEF SavingInv
<1>6. \A t \in Trees, o \in Objects : copied[t][o] # 0 <=> saving.listed[t][o] # 0
  <2> TAKE t \in Trees, o \in Objects
  <2>1. <<t, o>> \notin ToCopy
    BY <1>1
  <2>2. saving.listed[t][o] # 0 => copied[t][o] # 0
    BY <2>1, <1>3 DEF ToCopy
  <2> QED
    BY <2>2, <1>1, <1>3 DEF SavingInv
<1>7. \A o \in Objects : copied["quarantine"][o] # 0 <=> files["quarantine"][o] # 0
  BY <1>1, <1>6 DEF SavingInv, Trees
<1>8. \A o \in copy.roots : \E t \in Trees : copied[t][o] # 0
  BY <1>1, <1>5, <1>6 DEF SavingInv, CopyTyped
<1>9. \A plan \in DOMAIN batches : plan \in Waiting(copy) <=> Live(plan)
  BY <1>5 DEF Waiting, Live
<1>10. \A plan \in Waiting(copy) : plan \in DOMAIN batches /\ plan.candidates \subseteq Objects
  BY <1>5, PlanFields DEF Waiting, CopyTyped
<1>11. \A plan \in Waiting(copy) :
          /\ copy.batches[plan].state = "QUARANTINED"
          /\ \A o \in plan.candidates : copied["quarantine"][o] # 0
  BY <1>5, <1>7, <1>9, <1>10, UnfencedWhole DEF SafeInv
<1>12. \A plan1, plan2 \in Waiting(copy) :
          plan1 # plan2 => plan1.candidates \intersect plan2.candidates = {}
  BY <1>9, <1>10 DEF SafeInv, IInv, Apart
<1>13. \A o \in Objects :
          copied["quarantine"][o] # 0 => \E plan \in Waiting(copy) : o \in plan.candidates
  BY <1>7, <1>9 DEF SafeInv, IInv, Owned
<1>14. CopyTyped(saved'.catalog)
  BY <1>4, <1>5
<1> QED
  BY <1>4, <1>8, <1>11, <1>12, <1>13, <1>14 DEF SavedInv, Copied, CopyTyped, Waiting

\* A restored copy is a workspace in which nobody is at work, every batch that
\* has not ended is set aside, and nothing that is referred to is missing.
LEMMA RestoreIsSafe ==
    ASSUME SafeInv, SavedInv, RestoreBackup
    PROVE  SafeInv'
<1>1. PICK copy : copy = saved.catalog
  OBVIOUS
<1>2. PICK kept \in Generations : kept = saved.files
  BY DEF SavedInv, RestoreBackup
<1>3. /\ CopyTyped(copy)
      /\ \A o \in copy.roots : \E t \in Trees : kept[t][o] # 0
      /\ \A plan \in Waiting(copy) :
            /\ copy.batches[plan].state = "QUARANTINED"
            /\ \A o \in plan.candidates : kept["quarantine"][o] # 0
      /\ \A plan1, plan2 \in Waiting(copy) :
            plan1 # plan2 => plan1.candidates \intersect plan2.candidates = {}
      /\ \A o \in Objects :
            kept["quarantine"][o] # 0 => \E plan \in Waiting(copy) : o \in plan.candidates
  BY <1>1, <1>2 DEF SavedInv, RestoreBackup, Copied
<1>4. /\ roots' = copy.roots /\ holds' = copy.holds /\ batches' = copy.batches
      /\ intent' = None /\ pending' = {} /\ sighted' = {} /\ crashes' = crashes
      /\ task' = [c \in Calls |-> Idle] /\ aged' = [o \in Objects |-> 0]
  BY <1>1 DEF RestoreBackup
<1>5. made \in [Objects -> Nat] /\ crashes \in 0 .. MaxCrashes
  BY DEF SafeInv, IInv, Typed, TypeOK
<1>6. made' = [o \in Objects |-> IF \E t \in Trees : kept[t][o] # 0 THEN made[o] + 1 ELSE made[o]]
  BY <1>2 DEF RestoreBackup, Copied
<1>7. /\ made' \in [Objects -> Nat]
      /\ \A t \in Trees, o \in Objects : kept[t][o] # 0 => made'[o] # 0
  BY <1>5, <1>6
<1>8. files' = [t \in Trees |-> [o \in Objects |-> IF kept[t][o] = 0 THEN 0 ELSE made'[o]]]
  BY <1>2 DEF RestoreBackup
<1>9. /\ files' \in [Trees -> [Objects -> Nat]]
      /\ \A t \in Trees, o \in Objects : files'[t][o] # 0 <=> kept[t][o] # 0
  BY <1>7, <1>8
<1>10. StoreTyped'
  BY <1>4, <1>7, <1>9 DEF StoreTyped
<1>11. CatalogTyped'
  BY <1>3, <1>4 DEF CatalogTyped, CopyTyped
<1>12. /\ task' \in [Calls -> Tasks]
       /\ \A c \in Calls : task'[c] = Idle
  BY <1>4, IdleAt
<1>13. Typed'
  BY <1>4, <1>5, <1>10, <1>11, <1>12, TypedNext
<1>14. ~Fenced'
  BY <1>4 DEF Fenced
<1>15. /\ \A plan \in DOMAIN batches' : Live(plan)' <=> plan \in Waiting(copy)
       /\ \A plan \in Waiting(copy) : plan \in DOMAIN batches'
       /\ \A plan \in DOMAIN batches' : plan \in Plans /\ plan.candidates \subseteq Objects
  BY <1>3, <1>4, PlanFields DEF Live, Waiting, CopyTyped
<1>16. \A plan \in DOMAIN batches' : batches'[plan].state \in Ended \union {"QUARANTINED"}
  BY <1>3, <1>4, <1>15 DEF Waiting
<1>17. StateInv'
  BY <1>14, <1>16 DEF StateInv, Under, Ended
<1>18. Apart'
  BY <1>3, <1>15 DEF Apart
<1>19. Owned'
  BY <1>3, <1>9, <1>15 DEF Owned, Trees
<1>20. BatchIsWhole'
  <2>1. ASSUME NEW plan \in DOMAIN batches', batches'[plan].state = "QUARANTINED",
               NEW o \in plan.candidates
        PROVE  files'["quarantine"][o] # 0
    <3>1. plan \in Waiting(copy) /\ o \in Objects
      BY <1>4, <1>15, <2>1 DEF Waiting, Ended
    <3> QED
      BY <1>3, <1>9, <3>1 DEF Trees
  <2> QED
    BY <2>1 DEF BatchIsWhole
<1>21. Spared'
  BY <1>14 DEF Spared
<1>22. \A c \in Calls : TaskInv(c)'
  BY <1>12, IdleKnows
<1>23. IInv'
  BY <1>13, <1>17, <1>18, <1>19, <1>20, <1>21, <1>22 DEF IInv
<1>24. RipeInv'
  BY <1>4, <1>16 DEF RipeInv, Ended
<1>25. PresentInv'
  BY <1>3, <1>4, <1>9 DEF PresentInv, Present, CopyTyped
<1> QED
  BY <1>23, <1>24, <1>25 DEF SafeInv
-----------------------------------------------------------------------------
(* The theorems.                                                           *)

LEMMA BackupStep ==
    ASSUME OneCall, RecoveryIsPrompt, BackupInv, [BackupNext]_allVars
    PROVE  BackupInv'
<1>1. SafeInv /\ SavingInv /\ SavedInv
  BY DEF BackupInv
<1>2. CASE Reserve
  BY <1>1, <1>2, VarsKept, ReserveSaves, SavedKept DEF Reserve, BackupInv
<1>3. CASE ListActive
  BY <1>1, <1>3, VarsKept, ListActiveSaves, SavedKept DEF ListActive, BackupInv
<1>4. CASE ListQuarantine
  BY <1>1, <1>4, VarsKept, ListQuarantineSaves, SavedKept DEF ListQuarantine, BackupInv
<1>5. ASSUME NEW t \in Trees, NEW o \in Objects, Copy(t, o) PROVE BackupInv'
  BY <1>1, <1>5, VarsKept, CopySaves, SavedKept DEF Copy, BackupInv
<1>6. CASE PublishBackup
  BY <1>1, <1>6, VarsKept, NotSaving, PublishBackupSaves DEF PublishBackup, BackupInv
<1>7. CASE BreakOff
  BY <1>1, <1>7, VarsKept, NotSaving, SavedKept DEF BreakOff, BackupInv
<1>8. ASSUME NEW c \in Calls, GiveUp(c) PROVE BackupInv'
  <2>1. SafeInv' /\ UNCHANGED <<roots, batches, intent, files>>
    BY <1>1, <1>8, GiveUpIsSafe
  <2>2. UNCHANGED <<saving, saved>>
    BY <1>8 DEF GiveUp, backupVars
  <2> QED
    BY <1>1, <2>1, <2>2, SavingKept, SavedKept DEF BackupInv
<1>9. CASE RestoreBackup
  <2>1. saving' = Idle /\ saved' = None
    BY <1>9 DEF RestoreBackup
  <2> QED
    BY <1>1, <1>9, <2>1, RestoreIsSafe, NotSaving DEF BackupInv, SavedInv
<1>10. CASE KeepBackup
  <2>1. UNCHANGED <<vars, saving>> /\ saved' = None
    BY <1>10 DEF KeepBackup
  <2>2. SavedInv'
    BY <2>1 DEF SavedInv
  <2> QED
    BY <1>1, <2>1, <2>2, VarsKept, SavingKept DEF BackupInv
<1>11. CASE Reserved /\ Unreserved /\ UNCHANGED backupVars
  <2>1. ~Fenced /\ UNCHANGED <<saving, saved>>
    BY <1>1, <1>11 DEF SavingInv, backupVars
  <2>2. /\ SafeInv' /\ UNCHANGED <<roots, batches, intent>>
        /\ \A o \in Objects : files'["quarantine"][o] = files["quarantine"][o]
    BY <1>1, <1>11, <2>1, BesideBackup
  <2> QED
    BY <1>1, <2>1, <2>2, SavingKept, SavedKept DEF BackupInv
<1>12. CASE Ordinary /\ Next /\ UNCHANGED backupVars
  <2>1. UNCHANGED <<saving, saved>> /\ saving = Idle
    BY <1>12 DEF Ordinary, Reserved, backupVars
  <2>2. SafeInv'
    BY <1>1, <1>12, SafeStep
  <2> QED
    BY <1>1, <2>1, <2>2, NotSaving, SavedKept DEF BackupInv
<1>13. CASE UNCHANGED allVars
  BY <1>1, <1>13, VarsKept, SavingKept, SavedKept DEF allVars, backupVars, BackupInv
<1> QED
  BY <1>2, <1>3, <1>4, <1>5, <1>6, <1>7, <1>8, <1>9, <1>10, <1>11, <1>12, <1>13 DEF BackupNext

LEMMA BackupInductive ==
    ASSUME OneCall, RecoveryIsPrompt PROVE BackupSpec => []BackupInv
<1>1. BackupInit => BackupInv
  BY SafeInit DEF BackupInit, BackupInv, SavingInv, SavedInv, Reserved, Idle
<1>2. BackupInv /\ [BackupNext]_allVars => BackupInv'
  BY BackupStep
<1> QED
  BY <1>1, <1>2, PTL DEF BackupSpec

\* With one maintenance call at a time, and recovery within the grace period, a
\* copy that is published is a workspace of its own.
THEOREM CopiesAreWhole ==
    ASSUME OneCall, RecoveryIsPrompt PROVE BackupSpec => []BackupIsWhole
<1>1. BackupInv => BackupIsWhole
  <2> SUFFICES ASSUME SavedInv, saved # None PROVE BackupIsWhole
    BY DEF BackupInv, BackupIsWhole
  <2> DEFINE aside == {o \in Objects : saved.files["quarantine"][o] # 0}
             owners(o) == {plan \in Waiting(saved.catalog) : o \in plan.candidates}
  <2>1. \A plan \in Waiting(saved.catalog) : plan.candidates \subseteq aside
    BY PlanFields DEF SavedInv, CopyTyped, Waiting
  <2>2. ASSUME NEW o \in aside PROVE Cardinality(owners(o)) = 1
    <3>1. PICK plan \in Waiting(saved.catalog) : o \in plan.candidates
      BY DEF SavedInv
    <3>2. owners(o) = {plan}
      BY <3>1 DEF SavedInv
    <3> QED
      BY <3>2, FS_Singleton
  <2> QED
    BY <2>1, <2>2 DEF SavedInv, BackupIsWhole, Waiting
<1> QED
  BY <1>1, BackupInductive, PTL

\* Under the same hypotheses the bytes of what a catalog record refers to are
\* there in every workspace restored from such a copy, and stay there.
THEOREM ReferencedStayRestored ==
    ASSUME OneCall, RecoveryIsPrompt PROVE BackupSpec => []ReferencedSurvives
<1>1. BackupInv => ReferencedSurvives
  BY DEF BackupInv, SafeInv, PresentInv, ReferencedSurvives
<1> QED
  BY <1>1, BackupInductive, PTL
=============================================================================
