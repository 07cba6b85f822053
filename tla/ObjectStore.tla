----------------------------- MODULE ObjectStore -----------------------------
(***************************************************************************)
(* One object of the content-addressed store, adapters/filesystem_cas.py,  *)
(* between ingestion and storage optimization.                             *)
(*                                                                         *)
(* The bytes of the object are those of a derived block and, by collision, *)
(* those of a source document too.  They may lie in the store in an        *)
(* ordinary form, in a compact form, or in both.  A form is published by   *)
(* linking a staged file to its name and unlinking the staged file, so for *)
(* a moment it has two links, and nobody accepts a file that has two.      *)
(*                                                                         *)
(* Ingesters publish and refer to the bytes as a source, and then drop the *)
(* compact form; writers publish and refer to them as a block; optimizers  *)
(* replace the ordinary form of a block by the compact one, behind a fence *)
(* that stops commits.  Every call of the file system is a step, and a     *)
(* process may die between any two.                                        *)
(***************************************************************************)
EXTENDS Integers, FiniteSets

CONSTANTS
    Ingesters,   \* services/ingestion.py, of a source
    Writers,     \* services/ingestion.py, of a block
    Optimizers   \* services/storage_optimization.py

\* A process does one kind of work, and none has the name of a state of a file.
ASSUME ObjectStoreAssumption ==
    /\ Ingesters \intersect (Writers \union Optimizers) = {}
    /\ Writers \intersect Optimizers = {}
    /\ {"absent", "single"} \intersect (Ingesters \union Writers \union Optimizers) = {}

VARIABLES
    name,     \* the file each form's name leads to: "absent", "single", or that
              \* of a process whose staged file is a second link to it
    smaller,  \* is the compact form smaller than the ordinary one?
    refs,     \* what the catalog refers to the object as
    fence,    \* an active STORAGE_OPTIMIZE operation
    stored,   \* history: somebody was told that the object is stored
    kept,     \* history: somebody was told that its ordinary form is kept
    proc      \* where every process stands

vars == <<name, smaller, refs, fence, stored, kept, proc>>

Procs == Ingesters \union Writers \union Optimizers
Forms == {"ordinary", "compact"}

Idle == [at |-> "idle", form |-> "ordinary", seen |-> {}, left |-> {}, then |-> "idle"]

Init ==
    /\ name = [f \in Forms |-> "absent"]
    /\ smaller \in BOOLEAN
    /\ refs = {} /\ fence = FALSE /\ stored = FALSE /\ kept = FALSE
    /\ proc = [p \in Procs |-> Idle]
-----------------------------------------------------------------------------
\* st_nlink of the file, 0 if there is none.
Links(form) == IF name[form] = "absent" THEN 0 ELSE IF name[form] = "single" THEN 1 ELSE 2

\* The name is removed.
Removed(form) == name' = [name EXCEPT ![form] = "absent"]

At(p, place) == proc[p].at = place
Goto(p, next) == proc' = [proc EXCEPT ![p] = next]

\* The step after what p is doing.
Move(p, place) == Goto(p, [proc[p] EXCEPT !.at = place])

\* p verifies, and then goes on at place.
Verify(p, place) == Goto(p, [proc[p] EXCEPT !.at = "look", !.seen = {}, !.then = place])

\* p publishes a form, and then goes on at place.
Publish(p, form, place) ==
    Goto(p, [proc[p] EXCEPT !.at = "stage", !.form = form, !.then = place])

\* An exception of the store: an optimizer records a failed item and goes on,
\* everybody else gives up.
Fail(p) == IF p \in Optimizers THEN Move(p, "complete") ELSE Goto(p, Idle)

Unchanged == UNCHANGED <<name, smaller, refs, fence, stored, kept>>
-----------------------------------------------------------------------------
\* verify: which forms are there?  Two calls of lstat, one after the other.
LookOrdinary(p) ==
    /\ At(p, "look")
    /\ Goto(p, [proc[p] EXCEPT !.at = "peek",
                               !.seen = {f \in {"ordinary"} : Links(f) > 0}])
    /\ Unchanged

\* A defect: that there is no form goes unnoticed.
NotFound_Never(seen) == FALSE

NotFound(seen) == seen = {}

LookCompact(p) ==
    LET seen == proc[p].seen \union {f \in {"compact"} : Links(f) > 0}
    IN  /\ At(p, "peek")
        /\ IF NotFound(seen) THEN Fail(p)
           ELSE Goto(p, [proc[p] EXCEPT !.at = "check", !.seen = seen, !.left = seen])
        /\ Unchanged

\* _open_regular: a regular file with one link.
Opens(form) == Links(form) = 1

\* _publication_link_is_settling, within the second a reuse waits.
Settling(p) == proc[p].then = "reused" /\ Links("ordinary") > 0

\* Where a successful verification leads; "reused" drops the staged file.
Verified(p) == Move(p, IF proc[p].then = "reused" THEN "stored" ELSE proc[p].then)

\* The forms that were seen are opened and read, the ordinary one first.
Check(p) ==
    LET form == IF "ordinary" \in proc[p].left THEN "ordinary" ELSE "compact"
    IN  /\ At(p, "check")
        /\ \/ /\ Opens(form)
              /\ IF proc[p].left = {form} THEN Verified(p)
                 ELSE Goto(p, [proc[p] EXCEPT !.left = {"compact"}])
           \/ ~Opens(form) /\ Fail(p)
           \/ ~Opens(form) /\ Links(form) = 2 /\ Settling(p) /\ Verify(p, "reused")
        /\ Unchanged
-----------------------------------------------------------------------------
\* The bytes are staged.  Is the form there already?
Stage(p) ==
    /\ At(p, "stage")
    /\ IF Links(proc[p].form) = 0 THEN Move(p, "link")
       ELSE IF proc[p].form = "ordinary" THEN Verify(p, "reused")
       ELSE Move(p, "reread")
    /\ Unchanged

\* os.link, which fails if the name is taken.
Link(p) ==
    LET form == proc[p].form
    IN  /\ At(p, "link")
        /\ IF Links(form) = 0
           THEN name' = [name EXCEPT ![form] = p] /\ Move(p, "unlink")
           ELSE /\ UNCHANGED name
                /\ IF form = "ordinary" THEN Verify(p, "reused") ELSE Move(p, "reread")
        /\ UNCHANGED <<smaller, refs, fence, stored, kept>>

\* What unlinking the staged file does to a name that still leads to it.
Unlinked(p) == [name EXCEPT ![proc[p].form] = IF @ = p THEN "single" ELSE @]

\* The staged file is unlinked.
UnlinkStaged(p) ==
    /\ At(p, "unlink")
    /\ name' = Unlinked(p)
    /\ IF proc[p].form = "ordinary" THEN Verify(p, "stored") ELSE Move(p, "reread")
    /\ UNCHANGED <<smaller, refs, fence, stored, kept>>

\* The staged file cannot be unlinked: the name of an ordinary form is removed
\* if that is possible, and the staged file is tried once more.
UnlinkFails(p) ==
    /\ At(p, "unlink")
    /\ \/ proc[p].form = "ordinary" /\ Removed("ordinary")
       \/ name' \in {name, Unlinked(p)}
    /\ Fail(p)
    /\ UNCHANGED <<smaller, refs, fence, stored, kept>>

\* _read_verified_compact at the end of _publish_physical_bytes; everything is
\* verified after it.
Reread(p) ==
    /\ At(p, "reread")
    /\ IF Opens("compact") THEN Verify(p, proc[p].then) ELSE Fail(p)
    /\ Unchanged

\* The publication returns to its caller, who commits.
Stored(p) ==
    /\ At(p, "stored")
    /\ stored' = TRUE
    /\ Move(p, "commit")
    /\ UNCHANGED <<name, smaller, refs, fence, kept>>
-----------------------------------------------------------------------------
\* snapshot_to: put_chunks of a source.
PutChunks(p) ==
    /\ p \in Ingesters /\ At(p, "idle")
    /\ Publish(p, "ordinary", "stored")
    /\ Unchanged

\* put_canonical_block
PutCanonicalBlock(p) ==
    /\ p \in Writers /\ At(p, "idle")
    /\ IF Links("ordinary") > 0 THEN Verify(p, "stored")
       ELSE Publish(p, IF smaller THEN "compact" ELSE "ordinary", "stored")
    /\ Unchanged

\* _write_connection refuses while an operation is active.
Fenced == fence

\* commit_source_version, which a version that is there needs no more.
CommitSource(p) ==
    /\ p \in Ingesters /\ At(p, "commit")
    /\ IF "source" \in refs \/ ~Fenced
       THEN refs' = refs \union {"source"} /\ Move(p, "retain")
       ELSE UNCHANGED refs /\ Goto(p, Idle)
    /\ UNCHANGED <<name, smaller, fence, stored, kept>>

\* The commit of a representation with its blocks.
CommitBlock(p) ==
    /\ p \in Writers /\ At(p, "commit")
    /\ refs' = IF Fenced THEN refs ELSE refs \union {"block"}
    /\ Goto(p, Idle)
    /\ UNCHANGED <<name, smaller, fence, stored, kept>>

\* retain_ordinary_authority: the ordinary form is verified,
Retain(p) ==
    /\ At(p, "retain")
    /\ IF Opens("ordinary") THEN Move(p, "peer") ELSE Goto(p, Idle)
    /\ Unchanged

\* then the compact one, if there is one,
RetainPeer(p) ==
    /\ At(p, "peer")
    /\ IF Opens("compact") THEN Move(p, "unlinkPeer") ELSE Goto(p, Idle)
    /\ kept' = (kept \/ Links("compact") = 0)
    /\ UNCHANGED <<name, smaller, refs, fence, stored>>

\* which is unlinked; the ordinary one is verified once more.
RetainUnlink(p) ==
    /\ At(p, "unlinkPeer")
    /\ Removed("compact")
    /\ kept' = (kept \/ (Links("compact") > 0 /\ Opens("ordinary")))
    /\ Goto(p, Idle)
    /\ UNCHANGED <<smaller, refs, fence, stored>>
-----------------------------------------------------------------------------
\* A defect: every block is eligible.
Eligible_AnyBlock == "block" \in refs

\* _eligible_derived_block_objects: referred to as a block and nothing else.
Eligible == refs = {"block"}

\* claim_storage_optimization, of a new operation or of the active one.
ClaimOptimization(p) ==
    /\ p \in Optimizers /\ At(p, "idle")
    /\ fence' = TRUE
    /\ IF Eligible THEN Verify(p, "choose") ELSE Move(p, "complete")
    /\ UNCHANGED <<name, smaller, refs, stored, kept>>

\* A defect: the ordinary form goes before the compact one is published.
Choose_DropsFirst(p) ==
    /\ At(p, "choose") /\ Links("ordinary") > 0
    /\ Removed("ordinary")
    /\ Publish(p, "compact", "complete")
    /\ UNCHANGED <<smaller, refs, fence, stored, kept>>

\* optimize_derived_block, when the forms it saw have been verified: a block
\* with the ordinary form alone is read and encoded.
Choose(p) ==
    /\ At(p, "choose")
    /\ \/ proc[p].seen = {"compact"} /\ Move(p, "complete")
       \/ proc[p].seen = Forms /\ Move(p, "drop")
       \/ /\ proc[p].seen = {"ordinary"}
          /\ IF Opens("ordinary") /\ smaller THEN Publish(p, "compact", "drop")
             ELSE Move(p, "complete")
    /\ Unchanged

\* ordinary.unlink(), and the length of the compact form; a file that is gone
\* is an error that ends the process with the fence up.
DropOrdinary(p) ==
    /\ At(p, "drop")
    /\ Removed("ordinary")
    /\ IF \A f \in Forms : Links(f) > 0 THEN Move(p, "complete") ELSE Goto(p, Idle)
    /\ UNCHANGED <<smaller, refs, fence, stored, kept>>

\* complete_storage_optimization, whoever has claimed the operation.
CompleteOptimization(p) ==
    /\ At(p, "complete")
    /\ fence' = FALSE
    /\ Goto(p, Idle)
    /\ UNCHANGED <<name, smaller, refs, stored, kept>>
-----------------------------------------------------------------------------
\* The process dies; a staged file stays, and so does a second link.
Crash(p) ==
    /\ ~At(p, "idle")
    /\ Goto(p, Idle)
    /\ Unchanged

Next == \E p \in Procs :
    \/ Crash(p)
    \/ LookOrdinary(p) \/ LookCompact(p) \/ Check(p)
    \/ Stage(p) \/ Link(p) \/ UnlinkStaged(p) \/ UnlinkFails(p) \/ Reread(p) \/ Stored(p)
    \/ PutChunks(p) \/ PutCanonicalBlock(p) \/ CommitSource(p) \/ CommitBlock(p)
    \/ Retain(p) \/ RetainPeer(p) \/ RetainUnlink(p)
    \/ ClaimOptimization(p) \/ Choose(p) \/ DropOrdinary(p) \/ CompleteOptimization(p)

Spec == Init /\ [][Next]_vars
-----------------------------------------------------------------------------
Place == {"idle", "look", "peek", "check", "stage", "link", "unlink", "reread", "stored",
          "commit", "retain", "peer", "unlinkPeer", "choose", "drop", "complete"}

\* Every variable has its type, and a process that opens forms has seen them.
TypeOK ==
    /\ name \in [Forms -> {"absent", "single"} \union Procs]
    /\ smaller \in BOOLEAN /\ fence \in BOOLEAN
    /\ stored \in BOOLEAN /\ kept \in BOOLEAN
    /\ refs \subseteq {"block", "source"}
    /\ \A p \in Procs : /\ proc[p].at \in Place
                        /\ {proc[p].seen, proc[p].left} \subseteq SUBSET Forms
                        /\ At(p, "check") => proc[p].left # {}

\* Once somebody was told that the object is stored it has a form in the store,
\* however publications that fail, optimizations and retentions interleave.
StoredIsKept == stored => \E f \in Forms : Links(f) > 0

\* Once an ingestion was told that the ordinary form of its source is kept no
\* optimization removes it, not even one that had begun before.
SourceIsOrdinary == kept => Links("ordinary") > 0
=============================================================================
