----------------------------- MODULE Derivations -----------------------------
(***************************************************************************)
(* The graph of derived artifacts of one document:                         *)
(* adapters/sqlite_catalog_derivations.py, sqlite_catalog_reconciliation.py*)
(* and services/derivations.py, reconciliation.py above them.              *)
(*                                                                         *)
(* Ingestion moves the head of the document between versions.  An artifact *)
(* is published over bindings of the head version and over outputs of      *)
(* other artifacts, into a slot whose occupant it supersedes.  A           *)
(* reconciliation of the head with an earlier version gives the blocks of  *)
(* both their bindings, stales what depends on bindings that are gone and  *)
(* revives what has all its inputs again.  Every operation is one          *)
(* transaction.                                                            *)
(*                                                                         *)
(* A binding stands for lineage and content of a block: a version has the  *)
(* bindings Binds[v].  Artifacts are numbered in the order of their ids.   *)
(* Objects are all present and verify.                                     *)
(***************************************************************************)
EXTENDS Integers, FiniteSets

CONSTANTS
    Versions,    \* versions of the document
    Bindings,    \* bindings of their blocks
    Binds,       \* which version has which bindings
    Artifacts,   \* derived artifacts, by number
    Slots,       \* slots they compete for
    Slot,        \* the slot of an artifact
    Needs,       \* the bindings an artifact is made from
    Uses,        \* the artifacts it is made from
    None,        \* no version, SQL NULL
    Lost         \* see owed

ASSUME DerivationAssumption ==
    /\ Artifacts \subseteq Nat /\ IsFiniteSet(Artifacts)
    /\ Binds \in [Versions -> SUBSET Bindings]
    /\ Slot \in [Artifacts -> Slots]
    /\ Needs \in [Artifacts -> SUBSET Bindings]
    /\ Uses \in [Artifacts -> SUBSET Artifacts]
    /\ None \notin Versions /\ None \notin Artifacts
    /\ Lost \notin Versions /\ Lost # None

VARIABLES
    head,      \* document_heads: the current version
    ready,     \* versions with a READY representation
    members,   \* versions whose blocks have lineage memberships
    runs,      \* reconciliation_runs: <<previous, current>>
    state,     \* derivation_nodes.state
    occupant,  \* derivation_slots.current_artifact_id
    owed,      \* history: the version the head left and is not reconciled with,
               \* None if there is none, Lost if it has moved on since
    settled    \* history: the last operation was a reconciliation of the head

vars == <<head, ready, members, runs, state, occupant, owed, settled>>

States == {"ABSENT", "CURRENT", "STALE", "FAILED", "SUPERSEDED"}

Init ==
    /\ head \in Versions
    /\ ready = {head}
    /\ members = {} /\ runs = {}
    /\ state = [a \in Artifacts |-> "ABSENT"]
    /\ occupant = [s \in Slots |-> None]
    /\ owed = None /\ settled = FALSE
-----------------------------------------------------------------------------
\* The bindings that a block of the head version bears.
Active == IF head \in members THEN Binds[head] ELSE {}

Current == {a \in Artifacts : state[a] = "CURRENT"}
Stale == {a \in Artifacts : state[a] = "STALE"}

\* A defect: only the producers are checked.
Available_AnyEvidence(a) == a \notin Uses[a] /\ Uses[a] \subseteq Current

\* _validate_derivation_dependencies: evidence active, producers current.  An
\* artifact is published once, so no cycle can close through it.
Available(a) ==
    /\ Needs[a] \subseteq Active
    /\ a \notin Uses[a] /\ Uses[a] \subseteq Current

\* A defect: a stale predecessor is left alone.
Predecessors_Current(a) == {b \in Current : Slot[b] = Slot[a]}

\* What a successful publication supersedes.
Predecessors(a) == {b \in Current \union Stale : Slot[b] = Slot[a]}

\* publish_derivation of a new artifact with its output.
Publish(a) ==
    /\ state[a] = "ABSENT" /\ Available(a)
    /\ state' = [b \in Artifacts |->
           IF b = a THEN "CURRENT"
           ELSE IF b \in Predecessors(a) THEN "SUPERSEDED" ELSE state[b]]
    /\ occupant' = [occupant EXCEPT ![Slot[a]] = a]
    /\ settled' = FALSE
    /\ UNCHANGED <<head, ready, members, runs, owed>>

\* publish_derivation of a failure, which leaves the slot alone.
PublishFailure(a) ==
    /\ state[a] = "ABSENT" /\ Available(a)
    /\ state' = [state EXCEPT ![a] = "FAILED"]
    /\ settled' = FALSE
    /\ UNCHANGED <<head, ready, members, runs, occupant, owed>>
-----------------------------------------------------------------------------
\* A defect: the dependents of dependents are forgotten.
Affected_Direct(gone) == {a \in Current : Needs[a] \intersect gone # {}}

\* _invalidation_artifact_ids: the current artifacts made from a binding that
\* is gone, and the current ones made from those: the least set that has them.
Affected(gone) ==
    LET closed == {found \in SUBSET Current : \A a \in Current :
                      Needs[a] \intersect gone # {} \/ Uses[a] \intersect found # {}
                          => a \in found}
    IN  {a \in Current : \A found \in closed : a \in found}

\* _derivation_dependencies_are_current, for stale artifacts whose slot is free.
Eligible(stale, current, evidence) ==
    {a \in stale \ current :
        /\ \A b \in current : Slot[b] # Slot[a]
        /\ Needs[a] \subseteq evidence
        /\ Uses[a] \subseteq current}

\* A defect: one pass, whose candidates are judged before any of them revives.
Revived_OnePass(stale, current, evidence) == Eligible(stale, current, evidence)

\* The first in the order of their ids within a slot.
First(found) == {a \in found : \A b \in found : Slot[b] = Slot[a] => a <= b}

\* The stale artifacts that revive, pass after pass until one changes nothing;
\* none is left to revive after as many passes as there are artifacts.
Revived(stale, current, evidence) ==
    LET pass[n \in 0..Cardinality(Artifacts)] ==
            IF n = 0 THEN current
            ELSE pass[n-1] \union First(Eligible(stale, pass[n-1], evidence))
    IN  pass[Cardinality(Artifacts)] \ current

\* inactive_binding_digests of a plan.
Gone(previous, current) == Binds[previous] \ Binds[current]

\* ReconciliationResult refuses ids that are not in their order.  A pass revives
\* in ascending order what the artifacts before it make possible; a later pass
\* revives a smaller id, and does so exactly when a revived artifact is made
\* from a revived one with a larger id.
Canonical(staled, revived) ==
    /\ staled \intersect revived = {}
    /\ \A a \in revived : \A u \in Uses[a] \intersect revived : u < a

\* _apply_reconciliation_lifecycle, and the result made of it before the
\* transaction ends: a result that is refused rolls everything back.
Lifecycle(previous, current) ==
    LET staled == Affected(Gone(previous, current))
        kept == Current \ staled
        revived == Revived(Stale \union staled, kept, Binds[current])
        live == kept \union revived
    IN  /\ Canonical(staled, revived)
        /\ state' = [a \in Artifacts |-> IF a \in live THEN "CURRENT"
                                         ELSE IF a \in staled THEN "STALE" ELSE state[a]]
        /\ occupant' = [s \in Slots |->
               IF \E a \in live : Slot[a] = s THEN CHOOSE a \in live : Slot[a] = s ELSE None]
        /\ owed' = IF owed = previous THEN None ELSE owed
        /\ settled' = TRUE

\* A defect: a version that was never parsed is compared.
Comparable_Unparsed(previous, current) == previous # current

\* What a reconciliation can be asked about.
Comparable(previous, current) ==
    previous # current /\ {previous, current} \subseteq ready

\* commit_reconciliation of a new run: only onto the head, once per target.
\* Its plan was made of immutable facts, so only its commit is a step.
Reconcile(previous, current) ==
    /\ Comparable(previous, current)
    /\ \A run \in runs : run[2] # current
    /\ head = current
    /\ runs' = runs \union {<<previous, current>>}
    /\ members' = members \union {previous, current}
    /\ Lifecycle(previous, current)
    /\ UNCHANGED <<head, ready>>

\* The same run again, while its target is the head.
ReconcileAgain(previous, current) ==
    /\ <<previous, current>> \in runs /\ head = current
    /\ Lifecycle(previous, current)
    /\ UNCHANGED <<head, ready, members, runs>>

\* Ingestion makes another version the head.
MoveHead(v) ==
    /\ v # head
    /\ head' = v /\ ready' = ready \union {v}
    /\ owed' = IF owed = None THEN head ELSE Lost
    /\ settled' = FALSE
    /\ UNCHANGED <<members, runs, state, occupant>>

Next ==
    \/ \E a \in Artifacts : Publish(a) \/ PublishFailure(a)
    \/ \E v, w \in Versions : Reconcile(v, w) \/ ReconcileAgain(v, w)
    \/ \E v \in Versions : MoveHead(v)

Spec == Init /\ [][Next]_vars
-----------------------------------------------------------------------------
\* Every variable has its type.
TypeOK ==
    /\ head \in ready /\ ready \subseteq Versions /\ members \subseteq ready
    /\ runs \subseteq Versions \X Versions
    /\ state \in [Artifacts -> States]
    /\ occupant \in [Slots -> Artifacts \union {None}]
    /\ owed \in Versions \union {None, Lost}
    /\ settled \in BOOLEAN

\* Through publication, staling and revival in any order a slot has at most one
\* artifact that is or can become current, and points at it exactly when it is.
SlotsAgree ==
    /\ \A a, b \in Current \union Stale : Slot[a] = Slot[b] => a = b
    /\ \A s \in Slots : \A a \in Artifacts :
          occupant[s] = a <=> (Slot[a] = s /\ a \in Current)

\* No current artifact is made from a stale or failed one, however long the
\* chain between a binding that went away and the artifact.
InputsNeverStale ==
    \A a \in Current : \A u \in Uses[a] : state[u] \in {"CURRENT", "SUPERSEDED"}

\* When the head has been reconciled with every version it replaced, current
\* artifacts are made from evidence that is in the head.
EvidenceIsActive ==
    owed = None => \A a \in Current : Needs[a] \subseteq Active

\* A reconciliation that is not refused ends at a fixed point: nothing stays
\* stale that has all its inputs and a free slot.
NothingLeftStale ==
    settled => Eligible(Stale, Current, Active) = {}
=============================================================================
