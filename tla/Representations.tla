--------------------------- MODULE Representations ---------------------------
(***************************************************************************)
(* Ingesting one document: services/ingestion.py and rich_ingestion.py     *)
(* over adapters/sqlite_catalog_representations.py and                     *)
(* sqlite_catalog_rich.py.                                                 *)
(*                                                                         *)
(* Several processes ingest the file of the document while it changes.     *)
(* Each reads the clock first and uses that reading as the time of its     *)
(* observation, as the time of its claim and as the start of its lease,    *)
(* then reads the file, and may be slow at every step.  The parser recipe  *)
(* is fixed, so a representation is named by its version.  An ingestion    *)
(* draws a fresh token: <<process, number of the ingestion>>.              *)
(***************************************************************************)
EXTENDS Integers, FiniteSets

CONSTANTS
    Versions,    \* contents the file may have
    Ingesters,   \* ingesting processes
    None,        \* no file, SQL NULL
    Lease,       \* _REPRESENTATION_LEASE
    MaxTime,     \* bound: the clock
    MaxRuns,     \* bound: ingestions of one process
    MaxChanges   \* bound: changes of the file

ASSUME RepresentationAssumption ==
    /\ None \notin Versions \union (Ingesters \X Nat)
    /\ Lease \in Nat \ {0}
    /\ {MaxTime, MaxRuns, MaxChanges} \subseteq Nat

VARIABLES
    clock,    \* the wall clock
    rich,     \* is it a rich document (PDF, DOCX, PPTX)?
    file,     \* what the file contains now
    was,      \* history: <<version, time>>, what the file contained and when
    changes,  \* how often the file has changed
    row,      \* document_representations
    head,     \* document_heads
    log,      \* ingestion_events
    proc      \* where every ingestion stands

vars == <<clock, rich, file, was, changes, row, head, log, proc>>

Tokens == Ingesters \X (0..MaxRuns)

NoRow == [state |-> "ABSENT", attempt |-> 0, rev |-> 0, token |-> None,
          expires |-> 0, updated |-> 0]
Row == [state: {"ABSENT", "STAGING", "READY", "FAILED"}, attempt: Nat, rev: Nat,
        token: Tokens \union {None}, expires: Nat, updated: Nat]

NoHead == [version |-> None, observed |-> 0, ingested |-> 0, rev |-> 0]
Head == [version: Versions \union {None}, observed: Nat, ingested: Nat, rev: Nat]

Idle(run) == [at |-> "idle", run |-> run, force |-> FALSE, observed |-> 0,
              version |-> None, claimed |-> FALSE, rev |-> 0, now |-> 0]

Init ==
    /\ clock = 1
    /\ rich \in BOOLEAN
    /\ file \in Versions
    /\ was = {<<file, 1>>}
    /\ changes = 0
    /\ row = [v \in Versions |-> NoRow]
    /\ head = NoHead
    /\ log = {}
    /\ proc = [p \in Ingesters |-> Idle(0)]
-----------------------------------------------------------------------------
At(p, place) == proc[p].at = place
Token(p) == <<p, proc[p].run>>
Goto(p, next) == proc' = [proc EXCEPT ![p] = next]

\* The ingestion ends, with a result or an exception.
End(p) == Goto(p, Idle(proc[p].run))

\* Whatever raises after a claim is recorded as a failed attempt first.
Raise(p) == IF proc[p].claimed THEN Goto(p, [proc[p] EXCEPT !.at = "failing"]) ELSE End(p)

\* The clock is read: the observation begins.
Observe(p) ==
    /\ At(p, "idle") /\ proc[p].run < MaxRuns
    /\ \E force \in BOOLEAN :
          Goto(p, [Idle(proc[p].run + 1) EXCEPT
                      !.at = "snapshot", !.force = force, !.observed = clock])
    /\ UNCHANGED <<clock, rich, file, was, changes, row, head, log>>

\* snapshot_to, and the registration of document and version, which repeats.
Snapshot(p) ==
    /\ At(p, "snapshot")
    /\ IF file = None THEN End(p)
       ELSE Goto(p, [proc[p] EXCEPT !.at = "acquire", !.version = file])
    /\ UNCHANGED <<clock, rich, file, was, changes, row, head, log>>

\* A defect: the last instant of a lease is not respected.
Held_Short(v, now) == row[v].state = "STAGING" /\ row[v].expires > now + 1

\* Held(v, now): somebody's lease on v is running, for a claim read at now.
Held(v, now) == row[v].state = "STAGING" /\ row[v].expires > now

\* The row a claim writes.
Taken(v, p, now) ==
    [state |-> "STAGING", attempt |-> row[v].attempt + 1, rev |-> row[v].rev + 1,
     token |-> Token(p), expires |-> now + Lease, updated |-> now]

\* A defect: a forced ingestion takes over what is ready.
Acquire_Force(p) ==
    LET v == proc[p].version
        now == proc[p].observed
    IN  /\ At(p, "acquire")
        /\ \/ /\ row[v].state = "READY" /\ ~proc[p].force
              /\ Goto(p, [proc[p] EXCEPT !.at = "verify"])
              /\ UNCHANGED row
           \/ /\ Held(v, now) \/ now < row[v].updated
              /\ End(p)
              /\ UNCHANGED row
           \/ /\ ~Held(v, now) /\ now >= row[v].updated
              /\ row[v].state # "READY" \/ proc[p].force
              /\ row' = [row EXCEPT ![v] = Taken(v, p, now)]
              /\ Goto(p, [proc[p] EXCEPT !.at = "parse", !.claimed = TRUE,
                                         !.rev = row'[v].rev])
        /\ UNCHANGED <<clock, rich, file, was, changes, head, log>>

\* acquire_representation: ready and reused or parsed again, busy, refused
\* because the claim is older than the row, or claimed.
Acquire(p) ==
    LET v == proc[p].version
        now == proc[p].observed
    IN  /\ At(p, "acquire")
        /\ \/ /\ row[v].state = "READY"
              /\ Goto(p, [proc[p] EXCEPT !.at = IF proc[p].force THEN "parse" ELSE "verify"])
              /\ UNCHANGED row
           \/ /\ Held(v, now) \/ (row[v].state # "READY" /\ now < row[v].updated)
              /\ End(p)
              /\ UNCHANGED row
           \/ /\ row[v].state # "READY" /\ ~Held(v, now) /\ now >= row[v].updated
              /\ row' = [row EXCEPT ![v] = Taken(v, p, now)]
              /\ Goto(p, [proc[p] EXCEPT !.at = "parse", !.claimed = TRUE,
                                         !.rev = row'[v].rev])
        /\ UNCHANGED <<clock, rich, file, was, changes, head, log>>

\* The ready representation is verified; the clock is read for the event.
VerifyReady(p) ==
    /\ At(p, "verify")
    /\ Goto(p, [proc[p] EXCEPT !.at = "record", !.now = clock])
    /\ UNCHANGED <<clock, rich, file, was, changes, row, head, log>>

\* The parser ends, one way or the other; the clock is read after it.
Parse(p) ==
    /\ At(p, "parse")
    /\ \/ Goto(p, [proc[p] EXCEPT !.at = "commit", !.now = clock])
       \/ Raise(p)
    /\ UNCHANGED <<clock, rich, file, was, changes, row, head, log>>
-----------------------------------------------------------------------------
\* Two representations for one instant of observation: refused.
Conflict(p) ==
    /\ head.version \notin {None, proc[p].version}
    /\ head.observed = proc[p].observed

\* A defect: the later ingestion wins.
Advances_ByIngestion(p) ==
    \/ head.version = None
    \/ proc[p].now > head.ingested

\* Does this observation replace the head?
Advances(p) ==
    \/ head.version = None
    \/ proc[p].observed > head.observed
    \/ /\ proc[p].observed = head.observed /\ proc[p].version = head.version
       /\ proc[p].now > head.ingested

Event(p, counts, advanced) ==
    [version |-> proc[p].version, observed |-> proc[p].observed, token |-> Token(p),
     ingested |-> proc[p].now, counts |-> counts, advanced |-> advanced]

\* A defect: the instant of the ingestion is taken for that of the observation.
Observation_Late(p) ==
    [version |-> proc[p].version, observed |-> proc[p].now, ingested |-> proc[p].now,
     rev |-> head.rev + 1]

\* The head an observation makes.
Observation(p) ==
    [version |-> proc[p].version, observed |-> proc[p].observed, ingested |-> proc[p].now,
     rev |-> head.rev + 1]

\* _advance_head_and_event
Advance(p) ==
    /\ ~Conflict(p)
    /\ head' = IF Advances(p) THEN Observation(p) ELSE head
    /\ log' = log \union {Event(p, TRUE, Advances(p))}

\* record_ready_ingest: a verified cache hit, or a conflict over the head.
Record(p) ==
    /\ At(p, "record")
    /\ Advance(p) \/ (Conflict(p) /\ UNCHANGED <<head, log>>)
    /\ End(p)
    /\ UNCHANGED <<clock, rich, file, was, changes, row>>

\* _assert_representation_lease
HoldsLease(p, now) ==
    LET r == row[proc[p].version]
    IN  /\ r.state = "STAGING" /\ r.token = Token(p)
        /\ r.expires > now /\ r.rev = proc[p].rev

\* A defect: the token stays behind.
Finished_KeepsToken(p, state, now) ==
    [row EXCEPT ![proc[p].version] = [@ EXCEPT
        !.state = state, !.rev = @ + 1, !.expires = 0, !.updated = now]]

\* The row an ingestion leaves behind.
Finished(p, state, now) ==
    LET v == proc[p].version
    IN  [row EXCEPT ![v] = [row[v] EXCEPT
            !.state = state, !.rev = row[v].rev + 1, !.token = None,
            !.expires = 0, !.updated = now]]

\* commit_ready_representation and commit_ready_rich_representation under the
\* lease, whose end is compared with the reading taken after the parser.
Commit(p) ==
    /\ At(p, "commit") /\ proc[p].claimed
    /\ IF HoldsLease(p, proc[p].now) /\ ~Conflict(p)
       THEN /\ row' = Finished(p, "READY", proc[p].now)
            /\ Advance(p)
            /\ End(p)
       ELSE Raise(p) /\ UNCHANGED <<row, head, log>>
    /\ UNCHANGED <<clock, rich, file, was, changes>>

\* A forced ingestion of what is ready: the same output again is one more
\* observation.  A rich parser may diverge; that is recorded and no more.
CommitAgain(p) ==
    /\ At(p, "commit") /\ ~proc[p].claimed
    /\ \/ Advance(p)
       \/ Conflict(p) /\ UNCHANGED <<head, log>>
       \/ /\ rich
          /\ log' = log \union {Event(p, FALSE, FALSE)}
          /\ UNCHANGED head
    /\ End(p)
    /\ UNCHANGED <<clock, rich, file, was, changes, row>>

\* fail_representation: recorded if the lease is still there; the first error
\* is raised either way.
RecordFailure(p) ==
    /\ At(p, "failing")
    /\ row' = IF HoldsLease(p, clock) /\ clock >= row[proc[p].version].updated
              THEN Finished(p, "FAILED", clock) ELSE row
    /\ End(p)
    /\ UNCHANGED <<clock, rich, file, was, changes, head, log>>
-----------------------------------------------------------------------------
\* The process dies.
Crash(p) ==
    /\ ~At(p, "idle")
    /\ End(p)
    /\ UNCHANGED <<clock, rich, file, was, changes, row, head, log>>

\* The file is written, removed or put back.
Change ==
    /\ changes < MaxChanges /\ changes' = changes + 1
    /\ file' \in (Versions \union {None}) \ {file}
    /\ was' = was \union {<<file', clock>>}
    /\ UNCHANGED <<clock, rich, row, head, log, proc>>

Tick ==
    /\ clock < MaxTime /\ clock' = clock + 1
    /\ was' = was \union {<<file, clock + 1>>}
    /\ UNCHANGED <<rich, file, changes, row, head, log, proc>>

Next ==
    \/ \E p \in Ingesters :
          \/ Observe(p) \/ Snapshot(p) \/ Acquire(p) \/ VerifyReady(p) \/ Parse(p)
          \/ Record(p) \/ Commit(p) \/ CommitAgain(p) \/ RecordFailure(p) \/ Crash(p)
    \/ Change
    \/ Tick

Spec == Init /\ [][Next]_vars
-----------------------------------------------------------------------------
Place == {"idle", "snapshot", "acquire", "verify", "parse", "record", "commit", "failing"}

Proc == [at: Place, run: 0..MaxRuns, force: BOOLEAN, observed: Nat,
         version: Versions \union {None}, claimed: BOOLEAN, rev: Nat, now: Nat]

Events == [version: Versions, observed: Nat, token: Tokens, ingested: Nat,
           counts: BOOLEAN, advanced: BOOLEAN]

\* Every variable has its type, the histories included, a row has a lease
\* exactly while it is staged, and who has claimed names what it claimed.
TypeOK ==
    /\ clock \in Nat /\ rich \in BOOLEAN
    /\ file \in Versions \union {None}
    /\ was \subseteq (Versions \union {None}) \X Nat
    /\ changes \in 0..MaxChanges
    /\ row \in [Versions -> Row]
    /\ \A v \in Versions : row[v].state = "STAGING" <=> row[v].token # None
    /\ head \in Head
    /\ log \subseteq Events
    /\ proc \in [Ingesters -> Proc]
    /\ \A p \in Ingesters : proc[p].claimed => proc[p].version \in Versions

\* Believes(p): the lease p acquired, which began when p read the clock, has
\* not run out.
Believes(p) == proc[p].claimed /\ clock < proc[p].observed + Lease

\* However old the readings are with which they claim, two ingestions never
\* hold one representation at a time, and a lease that runs is in the row.
LeaseExclusive ==
    \A p \in Ingesters : Believes(p) =>
        /\ \A q \in Ingesters \ {p} : proc[q].version = proc[p].version => ~Believes(q)
        /\ At(p, "parse") => HoldsLease(p, clock)

\* A published representation never changes again, and no ingestion that lost
\* its claim publishes: the representation is the work of its last claimant.
ReadyIsFinal ==
    [][\A v \in Versions :
          /\ row[v].state = "READY" => row'[v] = row[v]
          /\ row'[v].state = "READY" /\ row[v].state # "READY" =>
                \E e \in log' \ log : e.version = v /\ e.token = row[v].token]_vars

\* The head is the newest observation of all that were ingested in whatever
\* order, points at a ready representation, and counts its advances.
HeadIsNewest ==
    LET counted == {e \in log : e.counts}
    IN  /\ head.version = None <=> counted = {}
        /\ \A e \in counted :
              \/ e.observed < head.observed
              \/ /\ e.observed = head.observed /\ e.version = head.version
                 /\ e.ingested <= head.ingested
        /\ head.version # None => row[head.version].state = "READY"
        /\ head.rev = Cardinality({e \in log : e.advanced})

\* The head tells the truth about the past: at some instant from the
\* observation to the ingestion the file had this content.
HeadWasTrue ==
    head.version # None =>
        \E t \in head.observed..head.ingested : <<head.version, t>> \in was
=============================================================================
