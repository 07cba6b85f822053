-------------------------- MODULE ObjectStoreProofs --------------------------
(***************************************************************************)
(* Proofs about ObjectStore, for any sets of ingesters, writers and        *)
(* optimizers.                                                             *)
(*                                                                         *)
(* TypeOK holds without a condition.  That a stored object keeps a form,   *)
(* and a source its ordinary one, is proved for one optimizer at a time:   *)
(* nothing in the code excludes a second one, and the run of two           *)
(* optimizers shows that the object can then be lost.                      *)
(*                                                                         *)
(* The argument has three parts.  A name that leads to a file of one link  *)
(* is not disturbed by those who publish, for a publisher that is still to *)
(* unlink its staged file owns the second link.  An optimizer that is busy *)
(* has the fence up and the object is no source, while whoever retains the *)
(* ordinary form has made it one: they exclude each other.  And each of    *)
(* them removes a form only when it has found the other one settled.       *)
(***************************************************************************)
EXTENDS ObjectStore, TLAPS

\* The hypothesis of the safety theorems: no two optimizers.
OneOptimizer == \A o1, o2 \in Optimizers : o1 = o2

\* What p does next, once it has verified or published.
Targets == {"idle", "stored", "reused", "choose", "drop"}

Rows == [at : Place, form : Forms, seen : SUBSET Forms, left : SUBSET Forms, then : Targets]

Typed ==
    /\ name \in [Forms -> {"absent", "single"} \union Procs]
    /\ smaller \in BOOLEAN /\ fence \in BOOLEAN
    /\ stored \in BOOLEAN /\ kept \in BOOLEAN
    /\ refs \subseteq {"block", "source"}
    /\ proc \in [Procs -> Rows]
    /\ \A p \in Procs : At(p, "check") => proc[p].left # {}

Looking == {"look", "peek", "check"}
Publishing == {"stage", "link", "unlink", "reread"}
Retaining == {"retain", "peer", "unlinkPeer"}

\* Who can be where.
RoleInv(p) ==
    /\ proc[p].at \in Retaining => p \in Ingesters
    /\ proc[p].at \in {"choose", "drop", "complete"} => p \in Optimizers
    /\ p \in Optimizers =>
           /\ proc[p].at \notin {"stored", "commit"}
           /\ proc[p].at \in Looking => proc[p].then \in {"choose", "drop"}
           /\ proc[p].at \in Publishing => proc[p].form = "compact" /\ proc[p].then = "drop"
    /\ p \notin Optimizers /\ proc[p].at \in Looking \union Publishing =>
           proc[p].then \in {"stored", "reused"}

\* The form is settled: its file has one link.
Single(form) == name[form] = "single"

\* A second link to the ordinary form is that of the publisher.
OwnsLink(p) == At(p, "unlink") /\ proc[p].form = "ordinary" => name["ordinary"] = p

\* An optimizer that works on the object.
Busy(p) ==
    p \in Optimizers /\ proc[p].at \in Looking \union Publishing \union {"choose", "drop"}

\* What a busy optimizer can rely on.
OptimizerInv(p) ==
    Busy(p) =>
        /\ fence /\ "source" \notin refs
        /\ At(p, "check") => \A f \in proc[p].seen \ proc[p].left : Single(f)
        /\ At(p, "choose") => \A f \in proc[p].seen : Single(f)
        /\ proc[p].at \in Publishing => Single("ordinary")
        /\ proc[p].at \in Looking /\ proc[p].then = "drop" => \A f \in Forms : Single(f)
        /\ At(p, "drop") => \A f \in Forms : Single(f)

\* What an ingestion that retains the ordinary form can rely on.
RetainerInv(p) ==
    /\ proc[p].at \in Retaining => "source" \in refs
    /\ proc[p].at \in {"peer", "unlinkPeer"} => Single("ordinary")

\* The object has a form that is settled.
Solid == \E f \in Forms : Single(f)

StoredInv(p) == At(p, "stored") => Solid

ProcInv(p) ==
    RoleInv(p) /\ OwnsLink(p) /\ OptimizerInv(p) /\ RetainerInv(p) /\ StoredInv(p)

HistoryInv ==
    /\ stored => Solid
    /\ kept => "source" \in refs /\ Single("ordinary")

IInv == Typed /\ HistoryInv /\ \A p \in Procs : ProcInv(p)
-----------------------------------------------------------------------------
(* How a step moves its process.                                           *)

\* p goes to a row of the type, and nobody else moves.
Went(p) ==
    /\ proc' \in [Procs -> Rows]
    /\ \A q \in Procs \ {p} : proc'[q] = proc[q]
    /\ proc'[p].at = "check" => proc'[p].left # {}

\* Goto goes to the row it names.
LEMMA Going ==
    ASSUME Typed, NEW p \in Procs, NEW next \in Rows, Goto(p, next),
           next.at = "check" => next.left # {}
    PROVE  Went(p) /\ proc'[p] = next
BY DEF Typed, Goto, Went

\* Idle is a row of the type.
LEMMA IdleIsRow == Idle \in Rows /\ Idle.at = "idle"
BY DEF Idle, Rows, Place, Forms, Targets

\* A row of the type with its fields.
LEMMA RowFields ==
    ASSUME Typed, NEW p \in Procs
    PROVE  /\ proc[p] \in Rows
           /\ proc[p].at \in Place /\ proc[p].form \in Forms
           /\ proc[p].seen \subseteq Forms /\ proc[p].left \subseteq Forms
           /\ proc[p].then \in Targets
BY DEF Typed, Rows

\* Move changes where the process is, and nothing else of its row.
LEMMA Moving ==
    ASSUME Typed, NEW p \in Procs, NEW place \in Place, place # "check", Move(p, place)
    PROVE  /\ Went(p)
           /\ proc'[p].at = place /\ proc'[p].form = proc[p].form
           /\ proc'[p].seen = proc[p].seen /\ proc'[p].then = proc[p].then
<1> DEFINE next == [proc[p] EXCEPT !.at = place]
<1>1. /\ next \in Rows /\ next.at = place /\ next.form = proc[p].form
      /\ next.seen = proc[p].seen /\ next.then = proc[p].then
  BY RowFields DEF Rows
<1>2. Goto(p, next)
  BY DEF Move
<1> HIDE DEF next
<1> QED
  BY <1>1, <1>2, Going

\* Verify goes to the first look at the store.
LEMMA Verifying ==
    ASSUME Typed, NEW p \in Procs, NEW place \in Targets, Verify(p, place)
    PROVE  Went(p) /\ proc'[p].at = "look" /\ proc'[p].then = place
<1> DEFINE next == [proc[p] EXCEPT !.at = "look", !.seen = {}, !.then = place]
<1>1. next \in Rows /\ next.at = "look" /\ next.then = place
  BY RowFields DEF Rows, Place
<1>2. Goto(p, next)
  BY DEF Verify
<1> HIDE DEF next
<1> QED
  BY <1>1, <1>2, Going

\* Publish goes to the staging of the form.
LEMMA ToPublish ==
    ASSUME Typed, NEW p \in Procs, NEW form \in Forms, NEW place \in Targets,
           Publish(p, form, place)
    PROVE  Went(p) /\ proc'[p].at = "stage" /\ proc'[p].form = form /\ proc'[p].then = place
<1> DEFINE next == [proc[p] EXCEPT !.at = "stage", !.form = form, !.then = place]
<1>1. next \in Rows /\ next.at = "stage" /\ next.form = form /\ next.then = place
  BY RowFields DEF Rows, Place
<1>2. Goto(p, next)
  BY DEF Publish
<1> HIDE DEF next
<1> QED
  BY <1>1, <1>2, Going

\* A failure ends what the process does with the object.
LEMMA Failing ==
    ASSUME Typed, NEW p \in Procs, Fail(p)
    PROVE  Went(p) /\ proc'[p].at = IF p \in Optimizers THEN "complete" ELSE "idle"
BY IdleIsRow, Going, Moving DEF Fail, Place

\* So does the end of it.
LEMMA Ending ==
    ASSUME Typed, NEW p \in Procs, Goto(p, Idle)
    PROVE  Went(p) /\ proc'[p].at = "idle"
BY IdleIsRow, Going
-----------------------------------------------------------------------------
(* The types: every step of a process moves it within them.                *)

LEMMA LookCompactGoes ==
    ASSUME Typed, NEW p \in Procs, LookCompact(p)
    PROVE  Went(p)
<1> DEFINE seen == proc[p].seen \union {f \in {"compact"} : Links(f) > 0}
           next == [proc[p] EXCEPT !.at = "check", !.seen = seen, !.left = seen]
<1>1. CASE NotFound(seen)
  BY <1>1, Failing DEF LookCompact
<1>2. CASE ~NotFound(seen)
  <2>1. seen \subseteq Forms
    BY RowFields DEF Forms
  <2> HIDE DEF seen
  <2>2. next \in Rows /\ next.left = seen
    BY <2>1, RowFields DEF Rows, Place
  <2>3. Goto(p, next)
    BY <1>2 DEF LookCompact, seen
  <2> HIDE DEF next
  <2> QED
    BY <1>2, <2>2, <2>3, Going DEF NotFound
<1> QED
  BY <1>1, <1>2

LEMMA CheckGoes ==
    ASSUME Typed, NEW p \in Procs, Check(p)
    PROVE  Went(p)
<1> DEFINE next == [proc[p] EXCEPT !.left = {"compact"}]
<1>1. CASE Verified(p)
  BY <1>1, Moving, RowFields DEF Verified, Targets, Place
<1>2. CASE Goto(p, next)
  <2>1. next \in Rows /\ next.left = {"compact"}
    BY RowFields DEF Rows, Forms
  <2> HIDE DEF next
  <2> QED
    BY <1>2, <2>1, Going
<1>3. CASE Fail(p) \/ Verify(p, "reused")
  BY <1>3, Failing, Verifying DEF Targets
<1> QED
  BY <1>1, <1>2, <1>3 DEF Check

\* One step of p.
StepOf(p) ==
    \/ Crash(p)
    \/ LookOrdinary(p) \/ LookCompact(p) \/ Check(p)
    \/ Stage(p) \/ Link(p) \/ UnlinkStaged(p) \/ UnlinkFails(p) \/ Reread(p) \/ Stored(p)
    \/ PutChunks(p) \/ PutCanonicalBlock(p) \/ CommitSource(p) \/ CommitBlock(p)
    \/ Retain(p) \/ RetainPeer(p) \/ RetainUnlink(p)
    \/ ClaimOptimization(p) \/ Choose(p) \/ DropOrdinary(p) \/ CompleteOptimization(p)

LEMMA LookOrdinaryGoes ==
    ASSUME Typed, NEW p \in Procs, LookOrdinary(p)
    PROVE  /\ Went(p)
           /\ proc'[p].at = "peek" /\ proc'[p].then = proc[p].then
<1> DEFINE seen == {f \in {"ordinary"} : Links(f) > 0}
           next == [proc[p] EXCEPT !.at = "peek", !.seen = seen]
<1>1. seen \subseteq Forms
  BY DEF Forms
<1> HIDE DEF seen
<1>2. next \in Rows /\ next.at = "peek" /\ next.then = proc[p].then
  BY <1>1, RowFields DEF Rows, Place
<1>3. Goto(p, next)
  BY DEF LookOrdinary, seen
<1> HIDE DEF next
<1> QED
  BY <1>2, <1>3, Going

\* Every step moves its process from a row of the type to another.
LEMMA StepGoes ==
    ASSUME Typed, NEW p \in Procs, StepOf(p)
    PROVE  Went(p)
<1>1. CASE Crash(p) \/ LookOrdinary(p) \/ LookCompact(p) \/ Check(p)
  BY <1>1, Ending, LookOrdinaryGoes, LookCompactGoes, CheckGoes DEF Crash
<1>2. CASE Stage(p)
  BY <1>2, Moving, Verifying DEF Stage, Place, Targets
<1>3. CASE Link(p)
  BY <1>3, Moving, Verifying DEF Link, Place, Targets
<1>4. CASE UnlinkStaged(p)
  BY <1>4, Moving, Verifying DEF UnlinkStaged, Place, Targets
<1>5. CASE UnlinkFails(p)
  BY <1>5, Failing DEF UnlinkFails
<1>6. CASE Reread(p)
  BY <1>6, Failing, Verifying, RowFields DEF Reread
<1>7. CASE Stored(p)
  BY <1>7, Moving DEF Stored, Place
<1>8. CASE PutChunks(p)
  BY <1>8, ToPublish DEF PutChunks, Forms, Targets
<1>9. CASE PutCanonicalBlock(p)
  BY <1>9, ToPublish, Verifying DEF PutCanonicalBlock, Forms, Targets
<1>10. CASE CommitSource(p) \/ CommitBlock(p)
  BY <1>10, Moving, Ending DEF CommitSource, CommitBlock, Place
<1>11. CASE Retain(p) \/ RetainPeer(p) \/ RetainUnlink(p)
  BY <1>11, Moving, Ending DEF Retain, RetainPeer, RetainUnlink, Place
<1>12. CASE ClaimOptimization(p)
  BY <1>12, Moving, Verifying DEF ClaimOptimization, Place, Targets
<1>13. CASE Choose(p)
  BY <1>13, Moving, ToPublish DEF Choose, Place, Forms, Targets
<1>14. CASE DropOrdinary(p) \/ CompleteOptimization(p)
  BY <1>14, Moving, Ending DEF DropOrdinary, CompleteOptimization, Place
<1> QED
  BY <1>1, <1>2, <1>3, <1>4, <1>5, <1>6, <1>7, <1>8, <1>9, <1>10, <1>11, <1>12, <1>13,
     <1>14 DEF StepOf

\* What a step may do to the names keeps them within their type.
LEMMA NamesKept ==
    ASSUME Typed, NEW p \in Procs, StepOf(p)
    PROVE  name' \in [Forms -> {"absent", "single"} \union Procs]
<1>1. Unlinked(p) \in [Forms -> {"absent", "single"} \union Procs]
  BY RowFields DEF Typed, Unlinked
<1>2. CASE UnlinkStaged(p) \/ UnlinkFails(p)
  BY <1>1, <1>2 DEF UnlinkStaged, UnlinkFails, Removed, Typed
<1>3. CASE Link(p)
  BY <1>3, RowFields DEF Link, Typed
<1>4. CASE RetainUnlink(p) \/ DropOrdinary(p)
  BY <1>4 DEF RetainUnlink, DropOrdinary, Removed, Typed
<1>5. CASE UNCHANGED name
  BY <1>5 DEF Typed
<1> QED
  BY <1>2, <1>3, <1>4, <1>5 DEF StepOf, Unchanged, Crash, LookOrdinary, LookCompact, Check,
     Stage, Reread, Stored, PutChunks, PutCanonicalBlock, CommitSource, CommitBlock, Retain,
     RetainPeer, ClaimOptimization, Choose, CompleteOptimization

\* So it does to the rest.
LEMMA RestKept ==
    ASSUME Typed, NEW p \in Procs, StepOf(p)
    PROVE  /\ smaller' \in BOOLEAN /\ fence' \in BOOLEAN
           /\ stored' \in BOOLEAN /\ kept' \in BOOLEAN
           /\ refs' \subseteq {"block", "source"}
<1>1. CASE Unchanged
  BY <1>1 DEF Unchanged, Typed
<1>2. CASE Link(p) \/ UnlinkStaged(p) \/ UnlinkFails(p) \/ Stored(p)
  BY <1>2 DEF Link, UnlinkStaged, UnlinkFails, Stored, Typed
<1>3. CASE CommitSource(p) \/ CommitBlock(p)
  BY <1>3 DEF CommitSource, CommitBlock, Typed
<1>4. CASE RetainPeer(p) \/ RetainUnlink(p)
  BY <1>4 DEF RetainPeer, RetainUnlink, Typed
<1>5. CASE ClaimOptimization(p) \/ DropOrdinary(p) \/ CompleteOptimization(p)
  BY <1>5 DEF ClaimOptimization, DropOrdinary, CompleteOptimization, Typed
<1> QED
  BY <1>1, <1>2, <1>3, <1>4, <1>5 DEF StepOf, Crash, LookOrdinary, LookCompact, Check,
     Stage, Reread, PutChunks, PutCanonicalBlock, Retain, Choose

LEMMA TypedStep ==
    ASSUME Typed, NEW p \in Procs, StepOf(p)
    PROVE  Typed'
<1>1. \A q \in Procs : At(q, "check")' => proc'[q].left # {}
  BY StepGoes DEF Went, Typed, At
<1> QED
  BY <1>1, StepGoes, NamesKept, RestKept DEF Typed, Went

LEMMA TypedInit == Init => Typed
BY IdleIsRow DEF Init, Typed, Idle, At

LEMMA TypedStutter == Typed /\ UNCHANGED vars => Typed'
BY DEF Typed, vars, At

\* Every variable keeps its type, whoever works on the object.
THEOREM TypeCorrect == Spec => []TypeOK
<1>1. Typed => TypeOK
  BY RowFields DEF Typed, TypeOK
<1>2. Typed /\ [Next]_vars => Typed'
  BY TypedStep, TypedStutter DEF Next, StepOf
<1> QED
  BY <1>1, <1>2, TypedInit, PTL DEF Spec
-----------------------------------------------------------------------------
(* Who can be where, and what the steps of a process leave to the others.  *)

LEMMA Facts ==
    ASSUME IInv, NEW p \in Procs
    PROVE  /\ Typed /\ HistoryInv
           /\ RoleInv(p) /\ OwnsLink(p) /\ OptimizerInv(p) /\ RetainerInv(p) /\ StoredInv(p)
           /\ p # "single" /\ p # "absent"
           /\ p \in Ingesters => p \notin Optimizers /\ p \notin Writers
           /\ p \in Writers => p \notin Optimizers
BY ObjectStoreAssumption DEF IInv, ProcInv, Procs

\* A step that takes no settled form away and leaves fence and source alone
\* disturbs nobody else, if the second links of the others stay.
LEMMA OthersKept ==
    ASSUME IInv, NEW p \in Procs, Went(p),
           \A f \in Forms : Single(f) => Single(f)',
           \A q \in Procs \ {p} : OwnsLink(q) => OwnsLink(q)',
           fence' = fence, "source" \in refs' <=> "source" \in refs
    PROVE  \A q \in Procs \ {p} : ProcInv(q)'
<1> TAKE q \in Procs \ {p}
<1>1. proc'[q] = proc[q] /\ ProcInv(q) /\ proc[q] \in Rows
  BY RowFields DEF Went, IInv
<1>2. RoleInv(q)'
  BY <1>1 DEF ProcInv, RoleInv
<1>3. OwnsLink(q)'
  BY <1>1 DEF ProcInv
<1>4. OptimizerInv(q)'
  <2>1. Busy(q)' <=> Busy(q)
    BY <1>1 DEF Busy
  <2>2. \A f \in proc[q].seen : f \in Forms
    BY <1>1 DEF Rows
  <2> QED
    BY <1>1, <2>1, <2>2 DEF ProcInv, OptimizerInv, At, Forms
<1>5. RetainerInv(q)'
  BY <1>1 DEF ProcInv, RetainerInv, Forms
<1>6. StoredInv(q)'
  BY <1>1 DEF ProcInv, StoredInv, Solid, At
<1> QED
  BY <1>2, <1>3, <1>4, <1>5, <1>6 DEF ProcInv

\* A settled form that stays keeps the history true.
LEMMA HistoryKept ==
    ASSUME IInv, \A f \in Forms : Single(f) => Single(f)', stored' = stored, kept' = kept,
           "source" \in refs => "source" \in refs'
    PROVE  HistoryInv'
BY DEF IInv, HistoryInv, Solid, Forms

\* A step that changes nothing but where its process is has only that to show.
LEMMA QuietStep ==
    ASSUME IInv, NEW p \in Procs, StepOf(p), Went(p), Unchanged, ProcInv(p)'
    PROVE  IInv'
<1>1. Typed'
  BY TypedStep DEF IInv
<1>2. \A f \in Forms : Single(f) => Single(f)'
  BY DEF Unchanged, Single
<1>3. \A q \in Procs \ {p} : OwnsLink(q) => OwnsLink(q)'
  BY DEF Unchanged, OwnsLink, Went, At
<1>4. \A q \in Procs \ {p} : ProcInv(q)'
  BY <1>2, <1>3, OthersKept DEF Unchanged
<1>5. HistoryInv'
  BY <1>2, HistoryKept DEF Unchanged
<1> QED
  BY <1>1, <1>4, <1>5 DEF IInv

\* Nobody who has given up, and nobody who has failed, relies on anything.
LEMMA RestingInv ==
    ASSUME NEW p \in Procs, proc'[p].at = IF p \in Optimizers THEN "complete" ELSE "idle"
    PROVE  ProcInv(p)'
BY DEF ProcInv, RoleInv, OwnsLink, OptimizerInv, RetainerInv, StoredInv, Busy, At, Looking,
   Publishing, Retaining

LEMMA IdleInv ==
    ASSUME NEW p \in Procs, proc'[p].at = "idle"
    PROVE  ProcInv(p)'
BY DEF ProcInv, RoleInv, OwnsLink, OptimizerInv, RetainerInv, StoredInv, Busy, At, Looking,
   Publishing, Retaining

\* A process that starts to verify relies on nothing, unless it is an optimizer.
LEMMA LookInv ==
    ASSUME NEW p \in Procs, proc'[p].at \in {"look", "peek"},
           p \notin Optimizers, proc'[p].then \in {"stored", "reused"}
    PROVE  ProcInv(p)'
BY DEF ProcInv, RoleInv, OwnsLink, OptimizerInv, RetainerInv, StoredInv, Busy, At, Looking,
   Publishing, Retaining
-----------------------------------------------------------------------------
(* Verification.                                                           *)

LEMMA CrashKeeps ==
    ASSUME IInv, NEW p \in Procs, Crash(p)
    PROVE  IInv'
BY Facts, Ending, IdleInv, QuietStep DEF Crash, StepOf

LEMMA LookOrdinaryKeeps ==
    ASSUME IInv, NEW p \in Procs, LookOrdinary(p)
    PROVE  IInv'
<1>1. Went(p) /\ proc'[p].at = "peek" /\ proc'[p].then = proc[p].then
  BY Facts, LookOrdinaryGoes
<1>2. ProcInv(p)'
  BY <1>1, Facts DEF LookOrdinary, Unchanged, ProcInv, RoleInv, OwnsLink, OptimizerInv,
     RetainerInv, StoredInv, Busy, At, Looking, Publishing, Retaining, Single
<1> QED
  BY <1>1, <1>2, QuietStep DEF LookOrdinary, StepOf

LEMMA LookCompactKeeps ==
    ASSUME IInv, NEW p \in Procs, LookCompact(p)
    PROVE  IInv'
<1> DEFINE seen == proc[p].seen \union {f \in {"compact"} : Links(f) > 0}
           next == [proc[p] EXCEPT !.at = "check", !.seen = seen, !.left = seen]
<1>1. Went(p)
  BY Facts, LookCompactGoes
<1>2. CASE NotFound(seen)
  BY <1>1, <1>2, Facts, Failing, RestingInv, QuietStep DEF LookCompact, StepOf
<1>3. CASE ~NotFound(seen)
  <2>1. seen \subseteq Forms
    BY Facts, RowFields DEF Forms
  <2>2. Goto(p, next)
    BY <1>3 DEF LookCompact
  <2> HIDE DEF seen
  <2>3. /\ proc'[p].at = "check" /\ proc'[p].seen = seen /\ proc'[p].left = seen
        /\ proc'[p].then = proc[p].then
    <3>1. /\ next \in Rows /\ next.at = "check" /\ next.seen = seen /\ next.left = seen
          /\ next.then = proc[p].then
      BY <2>1, Facts, RowFields DEF Rows, Place
    <3> HIDE DEF next
    <3> QED
      BY <1>3, <2>2, <3>1, Facts, Going DEF NotFound
  <2>4. ProcInv(p)'
    BY <2>3, Facts DEF LookCompact, Unchanged, ProcInv, RoleInv, OwnsLink, OptimizerInv,
       RetainerInv, StoredInv, Busy, At, Looking, Publishing, Retaining, Single
  <2> QED
    BY <1>1, <2>4, QuietStep DEF LookCompact, StepOf
<1> QED
  BY <1>2, <1>3

\* A form that opens is settled.
LEMMA OpensSettled ==
    ASSUME NEW form \in Forms, Opens(form)
    PROVE  Single(form)
BY DEF Opens, Links, Single

LEMMA CheckKeeps ==
    ASSUME IInv, NEW p \in Procs, Check(p)
    PROVE  IInv'
<1> DEFINE form == IF "ordinary" \in proc[p].left THEN "ordinary" ELSE "compact"
           next == [proc[p] EXCEPT !.left = {"compact"}]
<1>1. Went(p) /\ Unchanged /\ At(p, "check")
  BY Facts, CheckGoes DEF Check
<1>2. form \in Forms
  BY DEF Forms
<1>3. CASE Fail(p)
  BY <1>1, <1>3, Facts, Failing, RestingInv, QuietStep DEF StepOf
<1>4. CASE proc[p].then = "reused" /\ Verify(p, "reused")
  <2>1. p \notin Optimizers
    BY <1>1, <1>4, Facts DEF RoleInv, At, Looking
  <2> QED
    BY <1>1, <1>4, <2>1, Facts, Verifying, LookInv, QuietStep DEF StepOf, Targets
<1>5. CASE Opens(form) /\ proc[p].left # {form} /\ Goto(p, next)
  <2>1. /\ proc'[p].at = "check" /\ proc'[p].seen = proc[p].seen
        /\ proc'[p].left = {"compact"} /\ proc'[p].then = proc[p].then
    <3>1. /\ next \in Rows /\ next.at = "check" /\ next.seen = proc[p].seen
          /\ next.left = {"compact"} /\ next.then = proc[p].then
      BY <1>1, Facts, RowFields DEF Rows, Forms, At
    <3> HIDE DEF next
    <3> QED
      BY <1>5, <3>1, Facts, Going
  <2>2. "ordinary" \in proc[p].left
    BY <1>1, <1>5, Facts, RowFields DEF Typed, Forms, At
  <2>3. Single("ordinary")
    BY <1>2, <1>5, <2>2, OpensSettled
  <2>4. \A f \in proc[p].seen \ {"compact"} : f = "ordinary"
    BY Facts, RowFields DEF Forms
  <2>5. ProcInv(p)'
    BY <1>1, <2>1, <2>3, <2>4, Facts DEF Unchanged, ProcInv, RoleInv, OwnsLink,
       OptimizerInv, RetainerInv, StoredInv, Busy, At, Looking, Publishing, Retaining, Single
  <2> QED
    BY <1>1, <2>5, QuietStep DEF StepOf
<1>6. CASE Opens(form) /\ proc[p].left = {form} /\ Verified(p)
  <2> DEFINE place == IF proc[p].then = "reused" THEN "stored" ELSE proc[p].then
  <2>1. place \in {"stored", "choose", "drop"}
    BY <1>1, Facts DEF RoleInv, At, Looking
  <2>2. p \in Optimizers => place = proc[p].then /\ place \in {"choose", "drop"}
    BY <1>1, Facts DEF RoleInv, At, Looking
  <2>3. p \notin Optimizers => place = "stored"
    BY <1>1, Facts DEF RoleInv, At, Looking
  <2>4. proc'[p].at = place /\ proc'[p].seen = proc[p].seen
    <3>1. Move(p, place) /\ place \in Place /\ place # "check"
      BY <1>6, <2>1 DEF Verified, Place
    <3> HIDE DEF place
    <3> QED
      BY <3>1, Facts, Moving
  <2>5. Single(form)
    BY <1>2, <1>6, OpensSettled
  <2>6. \A f \in proc[p].seen : f \in proc[p].seen \ proc[p].left \/ f = form
    BY <1>6
  <2> HIDE DEF place
  <2>7. Solid' /\ \A f \in Forms : Single(f)' <=> Single(f)
    BY <1>1, <1>2, <2>5 DEF Unchanged, Single, Solid
  <2>8. RoleInv(p)' /\ OwnsLink(p)' /\ RetainerInv(p)' /\ StoredInv(p)'
    BY <2>1, <2>2, <2>3, <2>4, <2>7 DEF RoleInv, OwnsLink, RetainerInv, StoredInv, At,
       Looking, Publishing, Retaining
  <2>9. OptimizerInv(p)'
    <3>1. CASE p \in Optimizers
      <4>1. Busy(p) /\ OptimizerInv(p)
        BY <1>1, <3>1, Facts DEF Busy, At, Looking
      <4>2. fence' /\ "source" \notin refs'
        BY <1>1, <4>1 DEF OptimizerInv, Unchanged
      <4>3. \A f \in proc[p].seen : f \in Forms /\ Single(f)
        BY <1>1, <1>6, <2>5, <2>6, <4>1, Facts, RowFields DEF OptimizerInv
      <4>4. place = "drop" => \A f \in Forms : Single(f)
        BY <1>1, <2>2, <3>1, <4>1 DEF OptimizerInv, At, Looking
      <4> QED
        BY <2>2, <2>4, <2>7, <3>1, <4>2, <4>3, <4>4 DEF OptimizerInv, At, Looking, Publishing
    <3>2. CASE p \notin Optimizers
      BY <3>2 DEF OptimizerInv, Busy
    <3> QED
      BY <3>1, <3>2
  <2>10. ProcInv(p)'
    BY <2>8, <2>9 DEF ProcInv
  <2> QED
    BY <1>1, <2>10, QuietStep DEF StepOf
<1> QED
  BY <1>3, <1>4, <1>5, <1>6 DEF Check, Settling
-----------------------------------------------------------------------------
(* Publication.                                                            *)

\* Only those who are no optimizers publish the ordinary form.
LEMMA OrdinaryIsNotOptimizer ==
    ASSUME IInv, NEW p \in Procs, proc[p].at \in Publishing, proc[p].form = "ordinary"
    PROVE  p \notin Optimizers
BY Facts DEF RoleInv

\* A publisher that takes its next step relies on what it relied on.
LEMMA PublishesOn ==
    ASSUME IInv, NEW p \in Procs, proc[p].at \in Publishing, proc'[p].at \in Publishing,
           proc'[p].form = proc[p].form, proc'[p].then = proc[p].then,
           proc'[p].at = "unlink" => name'[proc[p].form] = p,
           Single("ordinary") => Single("ordinary")', UNCHANGED <<refs, fence>>
    PROVE  ProcInv(p)'
BY Facts DEF ProcInv, RoleInv, OwnsLink, OptimizerInv, RetainerInv, StoredInv, Busy, At,
   Looking, Publishing, Retaining

\* One that verifies the ordinary form, which it has not published, is none.
LEMMA StageKeeps ==
    ASSUME IInv, NEW p \in Procs, Stage(p)
    PROVE  IInv'
<1>1. proc[p].at \in Publishing /\ Unchanged
  BY DEF Stage, At, Publishing
<1>2. CASE Move(p, "link") \/ Move(p, "reread")
  <2>1. /\ Went(p) /\ proc'[p].at \in {"link", "reread"}
        /\ proc'[p].form = proc[p].form /\ proc'[p].then = proc[p].then
    BY <1>2, Facts, Moving DEF Place
  <2>2. ProcInv(p)'
    BY <1>1, <2>1, PublishesOn DEF Unchanged, Publishing, Single
  <2> QED
    BY <1>1, <2>1, <2>2, QuietStep DEF StepOf
<1>3. CASE proc[p].form = "ordinary" /\ Verify(p, "reused")
  BY <1>1, <1>3, Facts, OrdinaryIsNotOptimizer, Verifying, LookInv, QuietStep
     DEF StepOf, Targets
<1> QED
  BY <1>2, <1>3 DEF Stage

LEMMA LinkKeeps ==
    ASSUME IInv, NEW p \in Procs, Link(p)
    PROVE  IInv'
<1> DEFINE form == proc[p].form
<1>1. proc[p].at \in Publishing /\ form \in Forms /\ Typed
  BY Facts, RowFields DEF Link, At, Publishing
<1>2. CASE Links(form) = 0
  <2>1. name[form] = "absent" /\ name' = [name EXCEPT ![form] = p]
    BY <1>2 DEF Link, Links
  <2>2. Went(p) /\ proc'[p].at = "unlink" /\ proc'[p].form = form /\ proc'[p].then = proc[p].then
    BY <1>2, Facts, Moving DEF Link, Place
  <2>3. \A f \in Forms : name'[f] = IF f = form THEN p ELSE name[f]
    BY <1>1, <2>1 DEF Typed
  <2>4. \A f \in Forms : Single(f) => Single(f)'
    BY <2>1, <2>3 DEF Single
  <2>5. \A q \in Procs \ {p} : OwnsLink(q) => OwnsLink(q)'
    BY <2>1, <2>2, <2>3, Facts DEF OwnsLink, Went, At, Forms
  <2>6. UNCHANGED <<refs, fence, stored, kept>>
    BY DEF Link
  <2>7. ProcInv(p)'
    BY <1>1, <2>2, <2>3, <2>4, <2>6, PublishesOn DEF Publishing, Forms
  <2>8. \A q \in Procs \ {p} : ProcInv(q)'
    BY <2>2, <2>4, <2>5, <2>6, OthersKept
  <2>9. Typed' /\ HistoryInv'
    BY <1>1, <2>4, <2>6, TypedStep, HistoryKept DEF StepOf
  <2> QED
    BY <2>7, <2>8, <2>9 DEF IInv
<1>3. CASE Links(form) # 0
  <2>1. Unchanged
    BY <1>3 DEF Link, Unchanged
  <2>2. CASE form = "ordinary"
    BY <1>1, <1>3, <2>1, <2>2, Facts, OrdinaryIsNotOptimizer, Verifying, LookInv, QuietStep
       DEF Link, StepOf, Targets
  <2>3. CASE form # "ordinary"
    <3>1. /\ Went(p) /\ proc'[p].at = "reread"
          /\ proc'[p].form = proc[p].form /\ proc'[p].then = proc[p].then
      BY <1>3, <2>3, Facts, Moving DEF Link, Place
    <3>2. ProcInv(p)'
      BY <1>1, <2>1, <3>1, PublishesOn DEF Unchanged, Publishing, Single
    <3> QED
      BY <2>1, <3>1, <3>2, QuietStep DEF StepOf
  <2> QED
    BY <2>2, <2>3
<1> QED
  BY <1>2, <1>3

\* What unlinking the staged file does to the names.
LEMMA UnlinkedNames ==
    ASSUME IInv, NEW p \in Procs, NEW f \in Forms
    PROVE  /\ name[f] = "single" => Unlinked(p)[f] = "single"
           /\ name[f] # p => Unlinked(p)[f] = name[f]
BY Facts, RowFields DEF Typed, Unlinked

LEMMA UnlinkStagedKeeps ==
    ASSUME IInv, NEW p \in Procs, UnlinkStaged(p)
    PROVE  IInv'
<1>1. /\ proc[p].at \in Publishing /\ proc[p].form \in Forms /\ Typed
      /\ name' = Unlinked(p) /\ UNCHANGED <<refs, fence, stored, kept>>
  BY Facts, RowFields DEF UnlinkStaged, At, Publishing
<1>2. \A f \in Forms : Single(f) => Single(f)'
  BY <1>1, UnlinkedNames DEF Single
<1>3. Went(p)
  BY <1>1, StepGoes DEF StepOf
<1>4. \A q \in Procs \ {p} : OwnsLink(q) => OwnsLink(q)'
  <2> SUFFICES ASSUME NEW q \in Procs \ {p}, OwnsLink(q)
               PROVE  OwnsLink(q)'
    OBVIOUS
  <2>1. name["ordinary"] = q => name'["ordinary"] = q
    BY <1>1, UnlinkedNames DEF Forms
  <2> QED
    BY <1>3, <2>1 DEF OwnsLink, Went, At
<1>5. ProcInv(p)'
  <2>1. CASE proc[p].form = "ordinary"
    BY <1>1, <2>1, Verifying, OrdinaryIsNotOptimizer, LookInv DEF UnlinkStaged, Targets
  <2>2. CASE proc[p].form # "ordinary"
    <3>1. /\ proc'[p].at = "reread"
          /\ proc'[p].form = proc[p].form /\ proc'[p].then = proc[p].then
      BY <1>1, <2>2, Moving DEF UnlinkStaged, Place
    <3> QED
      BY <1>1, <1>2, <3>1, PublishesOn DEF Publishing, Forms
  <2> QED
    BY <2>1, <2>2
<1>6. \A q \in Procs \ {p} : ProcInv(q)'
  BY <1>1, <1>2, <1>3, <1>4, OthersKept
<1>7. Typed' /\ HistoryInv'
  BY <1>1, <1>2, TypedStep, HistoryKept DEF StepOf
<1> QED
  BY <1>5, <1>6, <1>7 DEF IInv

\* What a failed unlinking takes away is the second link of p, never more.
LEMMA UnlinkFailsKeeps ==
    ASSUME IInv, NEW p \in Procs, UnlinkFails(p)
    PROVE  IInv'
<1>1. Typed /\ At(p, "unlink") /\ Fail(p) /\ UNCHANGED <<refs, fence, stored, kept>>
  BY Facts DEF UnlinkFails
<1>2. Went(p) /\ ProcInv(p)'
  BY <1>1, Failing, RestingInv
<1>3. \A f \in Forms : /\ Single(f) => Single(f)'
                       /\ name[f] # p => name'[f] = name[f]
  <2>1. CASE proc[p].form = "ordinary" /\ Removed("ordinary")
    <3>1. name["ordinary"] = p
      BY <1>1, <2>1, Facts DEF OwnsLink
    <3> QED
      BY <1>1, <2>1, <3>1, Facts DEF Removed, Typed, Single, Forms
  <2>2. CASE name' \in {name, Unlinked(p)}
    BY <2>2, UnlinkedNames DEF Single
  <2> QED
    BY <2>1, <2>2 DEF UnlinkFails
<1>4. \A q \in Procs \ {p} : OwnsLink(q) => OwnsLink(q)'
  BY <1>2, <1>3 DEF OwnsLink, Went, At, Forms
<1>5. \A q \in Procs \ {p} : ProcInv(q)'
  BY <1>1, <1>2, <1>3, <1>4, OthersKept
<1>6. Typed' /\ HistoryInv'
  BY <1>1, <1>3, TypedStep, HistoryKept DEF StepOf
<1> QED
  BY <1>2, <1>5, <1>6 DEF IInv

LEMMA RereadKeeps ==
    ASSUME IInv, NEW p \in Procs, Reread(p)
    PROVE  IInv'
<1>1. Typed /\ proc[p].at \in Publishing /\ proc[p].then \in Targets /\ Unchanged
  BY Facts, RowFields DEF Reread, At, Publishing
<1>2. CASE Fail(p)
  BY <1>1, <1>2, Failing, RestingInv, QuietStep DEF StepOf
<1>3. CASE Opens("compact") /\ Verify(p, proc[p].then)
  <2>1. Went(p) /\ proc'[p].at = "look" /\ proc'[p].then = proc[p].then
    BY <1>1, <1>3, Verifying
  <2>2. Single("compact")
    BY <1>3, OpensSettled DEF Forms
  <2>3. ProcInv(p)'
    BY <1>1, <2>1, <2>2, Facts DEF Unchanged, ProcInv, RoleInv, OwnsLink, OptimizerInv,
       RetainerInv, StoredInv, Busy, At, Looking, Publishing, Retaining, Single, Forms
  <2> QED
    BY <1>1, <2>1, <2>3, QuietStep DEF StepOf
<1> QED
  BY <1>2, <1>3 DEF Reread

LEMMA StoredKeeps ==
    ASSUME IInv, NEW p \in Procs, Stored(p)
    PROVE  IInv'
<1>1. Typed /\ UNCHANGED <<name, refs, fence, kept>> /\ Solid /\ stored'
  BY Facts DEF Stored, StoredInv, Typed
<1>2. Went(p) /\ proc'[p].at = "commit"
  BY <1>1, Moving DEF Stored, Place
<1>3. \A f \in Forms : Single(f) => Single(f)'
  BY <1>1 DEF Single
<1>4. \A q \in Procs \ {p} : OwnsLink(q) => OwnsLink(q)'
  BY <1>1, <1>2 DEF OwnsLink, Went, At
<1>5. ProcInv(p)'
  BY <1>2, Facts DEF Stored, ProcInv, RoleInv, OwnsLink, OptimizerInv, RetainerInv, StoredInv,
     Busy, At, Looking, Publishing, Retaining
<1>6. \A q \in Procs \ {p} : ProcInv(q)'
  BY <1>1, <1>2, <1>3, <1>4, OthersKept
<1>7. Typed' /\ HistoryInv'
  BY <1>1, <1>3, Facts, TypedStep DEF StepOf, HistoryInv, Solid, Forms
<1> QED
  BY <1>5, <1>6, <1>7 DEF IInv
-----------------------------------------------------------------------------
(* Ingestion.                                                              *)

LEMMA PutChunksKeeps ==
    ASSUME IInv, NEW p \in Procs, PutChunks(p)
    PROVE  IInv'
<1>1. Typed /\ Unchanged /\ p \notin Optimizers
  BY Facts DEF PutChunks
<1>2. Went(p) /\ proc'[p].at = "stage" /\ proc'[p].then = "stored"
  BY <1>1, ToPublish DEF PutChunks, Forms, Targets
<1>3. ProcInv(p)'
  BY <1>1, <1>2 DEF ProcInv, RoleInv, OwnsLink, OptimizerInv, RetainerInv, StoredInv, Busy,
     At, Looking, Publishing, Retaining
<1> QED
  BY <1>1, <1>2, <1>3, QuietStep DEF StepOf

LEMMA PutCanonicalBlockKeeps ==
    ASSUME IInv, NEW p \in Procs, PutCanonicalBlock(p)
    PROVE  IInv'
<1>1. Typed /\ Unchanged /\ p \notin Optimizers
  BY Facts DEF PutCanonicalBlock
<1>2. CASE Links("ordinary") > 0
  BY <1>1, <1>2, Verifying, LookInv, QuietStep DEF PutCanonicalBlock, StepOf, Targets
<1>3. CASE ~(Links("ordinary") > 0)
  <2>1. Went(p) /\ proc'[p].at = "stage" /\ proc'[p].then = "stored"
    BY <1>1, <1>3, ToPublish DEF PutCanonicalBlock, Forms, Targets
  <2>2. ProcInv(p)'
    BY <1>1, <2>1 DEF ProcInv, RoleInv, OwnsLink, OptimizerInv, RetainerInv, StoredInv, Busy,
       At, Looking, Publishing, Retaining
  <2> QED
    BY <1>1, <2>1, <2>2, QuietStep DEF StepOf
<1> QED
  BY <1>2, <1>3

\* Where nobody else is busy, the others need less.
LEMMA OthersRest ==
    ASSUME IInv, NEW p \in Procs, Went(p),
           \A q \in Procs \ {p} : ~Busy(q),
           \A q \in Procs \ {p} : OwnsLink(q) => OwnsLink(q)',
           \A q \in Procs \ {p} : RetainerInv(q) => RetainerInv(q)',
           Solid => Solid'
    PROVE  \A q \in Procs \ {p} : ProcInv(q)'
<1> TAKE q \in Procs \ {p}
<1>1. proc'[q] = proc[q] /\ ProcInv(q) /\ ~Busy(q)
  BY DEF Went, IInv
<1>2. RoleInv(q)'
  BY <1>1 DEF ProcInv, RoleInv
<1>3. OwnsLink(q)' /\ RetainerInv(q)'
  BY <1>1 DEF ProcInv
<1>4. OptimizerInv(q)'
  BY <1>1 DEF OptimizerInv, Busy
<1>5. StoredInv(q)'
  BY <1>1 DEF ProcInv, StoredInv, At
<1> QED
  BY <1>2, <1>3, <1>4, <1>5 DEF ProcInv

\* A source that is referred to keeps optimizers from the object.
LEMMA SourceIsNotBusy ==
    ASSUME IInv, NEW q \in Procs, "source" \in refs \/ ~fence
    PROVE  ~Busy(q)
BY Facts DEF OptimizerInv

LEMMA CommitSourceKeeps ==
    ASSUME IInv, NEW p \in Procs, CommitSource(p)
    PROVE  IInv'
<1>1. Typed /\ p \notin Optimizers /\ UNCHANGED <<name, fence, stored, kept>>
  BY Facts DEF CommitSource
<1>2. CASE "source" \in refs \/ ~Fenced
  <2>1. "source" \in refs' /\ Went(p) /\ proc'[p].at = "retain"
    BY <1>1, <1>2, Moving DEF CommitSource, Place
  <2>2. ProcInv(p)'
    BY <2>1, <1>1 DEF CommitSource, ProcInv, RoleInv, OwnsLink, OptimizerInv, RetainerInv,
       StoredInv, Busy, At, Looking, Publishing, Retaining
  <2>3. \A q \in Procs \ {p} : ~Busy(q)
    BY <1>2, SourceIsNotBusy DEF Fenced
  <2>4. \A q \in Procs \ {p} : OwnsLink(q) => OwnsLink(q)'
    BY <1>1, <2>1 DEF OwnsLink, Went, At
  <2>5. \A q \in Procs \ {p} : RetainerInv(q) => RetainerInv(q)'
    BY <1>1, <2>1 DEF RetainerInv, Went, Single
  <2>6. \A q \in Procs \ {p} : ProcInv(q)'
    BY <1>1, <2>1, <2>3, <2>4, <2>5, OthersRest DEF Solid, Single
  <2>7. Typed' /\ HistoryInv'
    BY <1>1, <2>1, TypedStep, HistoryKept DEF StepOf, Single
  <2> QED
    BY <2>2, <2>6, <2>7 DEF IInv
<1>3. CASE ~("source" \in refs \/ ~Fenced)
  BY <1>1, <1>3, Ending, IdleInv, QuietStep DEF CommitSource, Unchanged, StepOf
<1> QED
  BY <1>2, <1>3

LEMMA CommitBlockKeeps ==
    ASSUME IInv, NEW p \in Procs, CommitBlock(p)
    PROVE  IInv'
<1>1. Typed /\ UNCHANGED <<name, fence, stored, kept>> /\ Went(p) /\ ProcInv(p)'
  BY Facts, Ending, IdleInv DEF CommitBlock
<1>2. "source" \in refs' <=> "source" \in refs
  BY DEF CommitBlock
<1>3. \A q \in Procs \ {p} : OwnsLink(q) => OwnsLink(q)'
  BY <1>1 DEF OwnsLink, Went, At
<1>4. \A q \in Procs \ {p} : ProcInv(q)'
  BY <1>1, <1>2, <1>3, OthersKept DEF Single
<1>5. Typed' /\ HistoryInv'
  BY <1>1, <1>2, TypedStep, HistoryKept DEF StepOf, Single
<1> QED
  BY <1>1, <1>4, <1>5 DEF IInv

LEMMA RetainKeeps ==
    ASSUME IInv, NEW p \in Procs, Retain(p)
    PROVE  IInv'
<1>1. Typed /\ Unchanged /\ "source" \in refs /\ p \in Ingesters /\ p \notin Optimizers
  BY Facts DEF Retain, At, RetainerInv, RoleInv, Retaining
<1>2. CASE Opens("ordinary")
  <2>1. Went(p) /\ proc'[p].at = "peer" /\ Single("ordinary")
    BY <1>1, <1>2, Moving, OpensSettled DEF Retain, Place, Forms
  <2>2. ProcInv(p)'
    BY <1>1, <2>1 DEF Unchanged, ProcInv, RoleInv, OwnsLink, OptimizerInv, RetainerInv,
       StoredInv, Busy, At, Looking, Publishing, Retaining, Single
  <2> QED
    BY <1>1, <2>1, <2>2, QuietStep DEF StepOf
<1>3. CASE ~Opens("ordinary")
  BY <1>1, <1>3, Ending, IdleInv, QuietStep DEF Retain, StepOf
<1> QED
  BY <1>2, <1>3

LEMMA RetainPeerKeeps ==
    ASSUME IInv, NEW p \in Procs, RetainPeer(p)
    PROVE  IInv'
<1>1. /\ Typed /\ UNCHANGED <<name, refs, fence, stored>>
      /\ "source" \in refs /\ Single("ordinary") /\ p \in Ingesters /\ p \notin Optimizers
  BY Facts DEF RetainPeer, At, RetainerInv, RoleInv, Retaining
<1>2. Went(p) /\ proc'[p].at \in {"unlinkPeer", "idle"}
  BY <1>1, Moving, Ending DEF RetainPeer, Place
<1>3. ProcInv(p)'
  BY <1>1, <1>2 DEF ProcInv, RoleInv, OwnsLink, OptimizerInv, RetainerInv, StoredInv, Busy,
     At, Looking, Publishing, Retaining, Single
<1>4. \A q \in Procs \ {p} : OwnsLink(q) => OwnsLink(q)'
  BY <1>1, <1>2 DEF OwnsLink, Went, At
<1>5. \A q \in Procs \ {p} : ProcInv(q)'
  BY <1>1, <1>2, <1>4, OthersKept DEF Single
<1>6. Typed' /\ HistoryInv'
  BY <1>1, Facts, TypedStep DEF StepOf, HistoryInv, Solid, Single, Forms
<1> QED
  BY <1>3, <1>5, <1>6 DEF IInv

\* The compact form goes while the ordinary one is settled and stays so.
LEMMA RetainUnlinkKeeps ==
    ASSUME IInv, NEW p \in Procs, RetainUnlink(p)
    PROVE  IInv'
<1>1. /\ Typed /\ UNCHANGED <<refs, fence, stored>> /\ Removed("compact")
      /\ "source" \in refs /\ Single("ordinary")
  BY Facts DEF RetainUnlink, At, RetainerInv, RoleInv, Retaining
<1>2. Went(p) /\ ProcInv(p)'
  BY <1>1, Ending, IdleInv DEF RetainUnlink
<1>3. name'["ordinary"] = name["ordinary"]
  BY <1>1 DEF Removed, Typed, Forms
<1>4. Single("ordinary")' /\ Solid'
  BY <1>1, <1>3 DEF Single, Solid, Forms
<1>5. \A q \in Procs \ {p} : ~Busy(q)
  BY <1>1, SourceIsNotBusy
<1>6. \A q \in Procs \ {p} : OwnsLink(q) => OwnsLink(q)'
  BY <1>2, <1>3 DEF OwnsLink, Went, At
<1>7. \A q \in Procs \ {p} : RetainerInv(q) => RetainerInv(q)'
  BY <1>1, <1>2, <1>4 DEF RetainerInv, Went
<1>8. \A q \in Procs \ {p} : ProcInv(q)'
  BY <1>2, <1>4, <1>5, <1>6, <1>7, OthersRest
<1>9. Typed' /\ HistoryInv'
  BY <1>1, <1>4, TypedStep DEF StepOf, HistoryInv
<1> QED
  BY <1>2, <1>8, <1>9 DEF IInv
-----------------------------------------------------------------------------
(* Optimization.                                                           *)

LEMMA ClaimOptimizationKeeps ==
    ASSUME IInv, NEW p \in Procs, ClaimOptimization(p)
    PROVE  IInv'
<1>1. Typed /\ UNCHANGED <<name, refs, stored, kept>> /\ p \in Optimizers /\ fence'
  BY Facts DEF ClaimOptimization
<1>2. Went(p)
  BY <1>1, StepGoes DEF StepOf
<1>3. ProcInv(p)'
  <2>1. CASE Eligible
    <3>1. proc'[p].at = "look" /\ proc'[p].then = "choose"
      BY <1>1, <2>1, Verifying DEF ClaimOptimization, Targets
    <3>2. "source" \notin refs'
      BY <1>1, <2>1 DEF Eligible
    <3> QED
      BY <1>1, <3>1, <3>2 DEF ProcInv, RoleInv, OwnsLink, OptimizerInv, RetainerInv, StoredInv,
         Busy, At, Looking, Publishing, Retaining
  <2>2. CASE ~Eligible
    BY <1>1, <2>2, Moving, RestingInv DEF ClaimOptimization, Place
  <2> QED
    BY <2>1, <2>2
<1>4. \A q \in Procs \ {p} : ProcInv(q)'
  <2> TAKE q \in Procs \ {p}
  <2>1. proc'[q] = proc[q] /\ ProcInv(q)
    BY <1>2 DEF Went, IInv
  <2> QED
    BY <1>1, <2>1 DEF ProcInv, RoleInv, OwnsLink, OptimizerInv, RetainerInv, StoredInv, Busy, At,
       Solid, Single
<1>5. Typed' /\ HistoryInv'
  BY <1>1, TypedStep, HistoryKept DEF StepOf, Single
<1> QED
  BY <1>3, <1>4, <1>5 DEF IInv

LEMMA ChooseKeeps ==
    ASSUME IInv, NEW p \in Procs, Choose(p)
    PROVE  IInv'
<1>1. /\ Typed /\ Unchanged /\ p \in Optimizers /\ fence /\ "source" \notin refs
      /\ \A f \in proc[p].seen : Single(f)
  BY Facts DEF Choose, At, RoleInv, OptimizerInv, Busy
<1>2. CASE Move(p, "complete")
  BY <1>1, <1>2, Moving, RestingInv, QuietStep DEF Place, StepOf
<1>3. CASE proc[p].seen = Forms /\ Move(p, "drop")
  <2>1. Went(p) /\ proc'[p].at = "drop"
    BY <1>1, <1>3, Moving DEF Place
  <2>2. ProcInv(p)'
    BY <1>1, <1>3, <2>1 DEF Unchanged, ProcInv, RoleInv, OwnsLink, OptimizerInv, RetainerInv,
       StoredInv, Busy, At, Looking, Publishing, Retaining, Single
  <2> QED
    BY <1>1, <2>1, <2>2, QuietStep DEF StepOf
<1>4. CASE proc[p].seen = {"ordinary"} /\ Publish(p, "compact", "drop")
  <2>1. /\ Went(p) /\ proc'[p].at = "stage"
        /\ proc'[p].form = "compact" /\ proc'[p].then = "drop"
    BY <1>1, <1>4, ToPublish DEF Forms, Targets
  <2>2. ProcInv(p)'
    BY <1>1, <1>4, <2>1 DEF Unchanged, ProcInv, RoleInv, OwnsLink, OptimizerInv, RetainerInv,
       StoredInv, Busy, At, Looking, Publishing, Retaining, Single
  <2> QED
    BY <1>1, <2>1, <2>2, QuietStep DEF StepOf
<1> QED
  BY <1>2, <1>3, <1>4 DEF Choose

\* The ordinary form goes while the compact one is settled and stays so, and
\* nobody has been told that it is kept.
LEMMA DropOrdinaryKeeps ==
    ASSUME OneOptimizer, IInv, NEW p \in Procs, DropOrdinary(p)
    PROVE  IInv'
<1>1. /\ Typed /\ UNCHANGED <<refs, fence, stored, kept>> /\ Removed("ordinary")
      /\ p \in Optimizers /\ "source" \notin refs
      /\ Single("ordinary") /\ Single("compact")
  BY Facts DEF DropOrdinary, At, RoleInv, OptimizerInv, Busy, Forms
<1>2. Went(p) /\ (proc'[p].at = "complete" \/ proc'[p].at = "idle")
  BY <1>1, Moving, Ending DEF DropOrdinary, Place
<1>3. ProcInv(p)'
  BY <1>1, <1>2, IdleInv, RestingInv
<1>4. Solid'
  BY <1>1 DEF Removed, Typed, Single, Solid, Forms
<1>5. \A q \in Procs \ {p} : ~Busy(q)
  BY <1>1 DEF OneOptimizer, Busy
<1>6. \A q \in Procs \ {p} : OwnsLink(q) => OwnsLink(q)'
  <2> SUFFICES ASSUME NEW q \in Procs \ {p}, OwnsLink(q)
               PROVE  OwnsLink(q)'
    OBVIOUS
  <2>1. name["ordinary"] # q
    BY <1>1, Facts DEF Single
  <2> QED
    BY <1>2, <2>1 DEF OwnsLink, Went, At
<1>7. \A q \in Procs \ {p} : RetainerInv(q) => RetainerInv(q)'
  BY <1>1, <1>2 DEF RetainerInv, Went, Retaining
<1>8. \A q \in Procs \ {p} : ProcInv(q)'
  BY <1>2, <1>4, <1>5, <1>6, <1>7, OthersRest
<1>9. Typed' /\ HistoryInv'
  BY <1>1, <1>4, Facts, TypedStep DEF StepOf, HistoryInv
<1> QED
  BY <1>3, <1>8, <1>9 DEF IInv

LEMMA CompleteOptimizationKeeps ==
    ASSUME OneOptimizer, IInv, NEW p \in Procs, CompleteOptimization(p)
    PROVE  IInv'
<1>1. Typed /\ UNCHANGED <<name, refs, stored, kept>> /\ p \in Optimizers
  BY Facts DEF CompleteOptimization, At, RoleInv
<1>2. Went(p) /\ ProcInv(p)'
  BY <1>1, Ending, IdleInv DEF CompleteOptimization
<1>3. \A q \in Procs \ {p} : ~Busy(q)
  BY <1>1 DEF OneOptimizer, Busy
<1>4. \A q \in Procs \ {p} : OwnsLink(q) => OwnsLink(q)'
  BY <1>1, <1>2 DEF OwnsLink, Went, At
<1>5. \A q \in Procs \ {p} : RetainerInv(q) => RetainerInv(q)'
  BY <1>1, <1>2 DEF RetainerInv, Went, Single
<1>6. \A q \in Procs \ {p} : ProcInv(q)'
  BY <1>1, <1>2, <1>3, <1>4, <1>5, OthersRest DEF Solid, Single
<1>7. Typed' /\ HistoryInv'
  BY <1>1, TypedStep, HistoryKept DEF StepOf, Single
<1> QED
  BY <1>2, <1>6, <1>7 DEF IInv
-----------------------------------------------------------------------------
LEMMA InitKeeps == Init => IInv
<1> SUFFICES ASSUME Init PROVE IInv
  OBVIOUS
<1>1. Typed /\ HistoryInv
  BY TypedInit DEF Init, HistoryInv
<1>2. \A p \in Procs : proc[p].at = "idle"
  BY IdleIsRow DEF Init
<1>3. \A p \in Procs : ProcInv(p)
  BY <1>2 DEF ProcInv, RoleInv, OwnsLink, OptimizerInv, RetainerInv, StoredInv, Busy, At,
     Looking, Publishing, Retaining
<1> QED
  BY <1>1, <1>3 DEF IInv

LEMMA StutterKeeps ==
    ASSUME IInv, UNCHANGED vars
    PROVE  IInv'
<1>1. Typed' /\ HistoryInv'
  BY TypedStutter DEF IInv, vars, HistoryInv, Solid, Single
<1>2. \A p \in Procs : ProcInv(p)'
  BY DEF IInv, vars, ProcInv, RoleInv, OwnsLink, OptimizerInv, RetainerInv, StoredInv, Busy, At,
     Solid, Single
<1> QED
  BY <1>1, <1>2 DEF IInv

\* The inductive invariant holds of every behaviour with one optimizer.
LEMMA Inductive == ASSUME OneOptimizer PROVE Spec => []IInv
<1>1. IInv /\ [Next]_vars => IInv'
  <2> SUFFICES ASSUME IInv, [Next]_vars PROVE IInv'
    OBVIOUS
  <2>1. ASSUME NEW p \in Procs, StepOf(p) PROVE IInv'
    BY <2>1, CrashKeeps, LookOrdinaryKeeps, LookCompactKeeps, CheckKeeps, StageKeeps,
       LinkKeeps, UnlinkStagedKeeps, UnlinkFailsKeeps, RereadKeeps, StoredKeeps,
       PutChunksKeeps, PutCanonicalBlockKeeps, CommitSourceKeeps, CommitBlockKeeps,
       RetainKeeps, RetainPeerKeeps, RetainUnlinkKeeps, ClaimOptimizationKeeps, ChooseKeeps,
       DropOrdinaryKeeps, CompleteOptimizationKeeps DEF StepOf
  <2> QED
    BY <2>1, StutterKeeps DEF Next, StepOf
<1> QED
  BY <1>1, InitKeeps, PTL DEF Spec

\* With one optimizer, an object that somebody was told is stored keeps a form
\* in the store, whatever the ingestions, the failures and the deaths.
THEOREM StoredStays == ASSUME OneOptimizer PROVE Spec => []StoredIsKept
<1>1. IInv => StoredIsKept
  BY DEF IInv, HistoryInv, StoredIsKept, Solid, Single, Links
<1> QED
  BY <1>1, Inductive, PTL

\* With one optimizer, a source whose ordinary form is kept does not lose it,
\* not even to an optimization that had begun before.
THEOREM SourceStays == ASSUME OneOptimizer PROVE Spec => []SourceIsOrdinary
<1>1. IInv => SourceIsOrdinary
  BY DEF IInv, HistoryInv, SourceIsOrdinary, Single, Links
<1> QED
  BY <1>1, Inductive, PTL
=============================================================================
