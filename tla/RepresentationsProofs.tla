------------------------ MODULE RepresentationsProofs ------------------------
(***************************************************************************)
(* Theorems about the staging of representations, for every value of its   *)
(* constants.  The inductive invariant comes first, then what an action    *)
(* does to the processes, then the kinds of step, then the theorems.       *)
(***************************************************************************)
EXTENDS Representations, FiniteSetTheorems, TLAPS

USE RepresentationAssumption

Typed == TypeOK /\ IsFiniteSet(log)

\* The history knows what the file contains.
HistoryInv == <<file, clock>> \in was

\* The file had content v at some instant from a to b.
WasTrue(v, a, b) == \E t \in a..b : <<v, t>> \in was

\* What the place of p says about the rest of its record.
PlaceInv(p) ==
    /\ proc[p].observed <= clock /\ proc[p].now <= clock
    /\ proc[p].at \in {"idle", "snapshot", "acquire", "verify", "record"} => ~proc[p].claimed
    /\ proc[p].at \notin {"idle", "snapshot"} =>
          /\ proc[p].version \in Versions
          /\ WasTrue(proc[p].version, proc[p].observed, clock)
    /\ proc[p].at \in {"record", "commit"} =>
          WasTrue(proc[p].version, proc[p].observed, proc[p].now)
    /\ proc[p].at \in {"verify", "record"} \/ (proc[p].at \in {"parse", "commit"} /\ ~proc[p].claimed)
          => row[proc[p].version].state = "READY"

\* A lease that may still run is in the row, and the row is as p wrote it.
ClaimInv(p) ==
    proc[p].claimed =>
        /\ clock < proc[p].observed + Lease => row[proc[p].version].token = Token(p)
        /\ row[proc[p].version].token = Token(p) =>
              /\ row[proc[p].version].expires = proc[p].observed + Lease
              /\ row[proc[p].version].rev = proc[p].rev

\* A token in a row was drawn, and belongs to the ingestion that claimed the row.
TokenInv(q) ==
    \A v \in Versions, n \in 0..MaxRuns :
        row[v].token = <<q, n>> =>
            /\ n <= proc[q].run
            /\ n = proc[q].run /\ ~At(q, "idle") => proc[q].claimed /\ proc[q].version = v

\* An ingestion writes at most one event, and ends with it.
EventInv(q) ==
    \A e \in log, n \in 0..MaxRuns :
        e.token = <<q, n>> => n <= proc[q].run /\ (n = proc[q].run => At(q, "idle"))

ProcInv(p) == PlaceInv(p) /\ ClaimInv(p) /\ TokenInv(p) /\ EventInv(p)

IInv ==
    /\ Typed
    /\ HistoryInv
    /\ \A p \in Ingesters : ProcInv(p)
    /\ HeadIsNewest
    /\ HeadWasTrue
-----------------------------------------------------------------------------
\* What a step of p leaves of everything that is not p's: the others stand
\* where they stood, only a row that p may claim or has claimed changes, and a
\* new event carries p's token.
StepOf(p) ==
    /\ proc' \in [Ingesters -> Proc]
    /\ \A q \in Ingesters \ {p} : proc'[q] = proc[q]
    /\ proc'[p].run \in {proc[p].run, proc[p].run + 1}
    /\ \A v \in Versions : row'[v] # row[v] =>
          /\ row[v].state # "READY"
          /\ row'[v].token \in {None, Token(p)}
          /\ row[v].token = Token(p) \/ \E now \in 0..clock : ~Held(v, now)
    /\ \A e \in log' \ log : e.token = Token(p)
    /\ UNCHANGED <<clock, rich, file, was, changes>>

\* A token of one ingester is not one of another.
LEMMA TokensDiffer ==
    ASSUME NEW p \in Ingesters, NEW q \in Ingesters \ {p} PROVE Token(p) # Token(q)
  BY DEF Token

\* A place and a record of a process is where and what it was given.
LEMMA Moved ==
    ASSUME Typed, NEW p \in Ingesters, NEW next \in Proc, Goto(p, next)
    PROVE  /\ proc' \in [Ingesters -> Proc]
           /\ proc'[p] = next
           /\ \A q \in Ingesters \ {p} : proc'[q] = proc[q]
  BY DEF Typed, TypeOK, Goto

\* Whoever is idle has nothing.
LEMMA IdleIsProc ==
    ASSUME NEW run \in 0..MaxRuns PROVE Idle(run) \in Proc
  BY DEF Idle, Proc, Place

\* A step of p keeps what is known about the others: a lease of theirs that
\* runs keeps p's hands off their row, at whatever reading p claims.
LEMMA OthersKept ==
    ASSUME IInv, NEW p \in Ingesters, NEW q \in Ingesters \ {p}, StepOf(p)
    PROVE  ProcInv(q)'
<1>1. /\ proc'[q] = proc[q] /\ clock' = clock /\ was' = was /\ ProcInv(q)
      /\ Typed /\ TypeOK
  BY DEF IInv, StepOf, Typed
<1>2. Token(q)' = Token(q) /\ Token(p) # Token(q)
  BY <1>1, TokensDiffer DEF Token
<1>3. \A v \in Versions : row[v].state = "READY" => row'[v] = row[v]
  BY DEF StepOf
<1>4. PlaceInv(q)'
  <2>1. PlaceInv(q)
    BY <1>1 DEF ProcInv
  <2> QED
    BY <1>1, <1>3, <2>1 DEF PlaceInv, WasTrue, StepOf, Typed
<1>5. ClaimInv(q)'
  <2> SUFFICES ASSUME proc[q].claimed
               PROVE  LET v == proc[q].version
                      IN  /\ clock < proc[q].observed + Lease => row'[v].token = Token(q)
                          /\ row'[v].token = Token(q) =>
                                /\ row'[v].expires = proc[q].observed + Lease
                                /\ row'[v].rev = proc[q].rev
    BY <1>1, <1>2 DEF ClaimInv
  <2> DEFINE v == proc[q].version
  <2>1. v \in Versions /\ row[v] \in Row /\ clock \in Nat /\ proc[q].observed \in Nat
    BY <1>1 DEF TypeOK, Typed, Proc
  <2>2. ClaimInv(q)
    BY <1>1 DEF ProcInv
  <2>3. ASSUME clock < proc[q].observed + Lease PROVE row'[v] = row[v]
    <3>1. row[v].token = Token(q) /\ row[v].expires = proc[q].observed + Lease
      BY <2>2, <2>3 DEF ClaimInv
    <3>2. row[v].state = "STAGING"
      <4>1. Token(q) # None
        BY <2>1, <1>1 DEF Token, TypeOK, Proc
      <4> QED
        BY <1>1, <2>1, <3>1, <4>1 DEF TypeOK
    <3>3. \A now \in 0..clock : Held(v, now)
      BY <2>1, <2>3, <3>1, <3>2 DEF Held
    <3> QED
      BY <1>2, <2>1, <3>1, <3>3 DEF StepOf
  <2>4. row'[v].token = Token(q) => row'[v] = row[v]
    <3>1. Token(q) # None
      BY <2>1, <1>1 DEF Token, TypeOK, Proc
    <3> QED
      BY <1>2, <2>1, <3>1 DEF StepOf
  <2> QED
    BY <2>2, <2>3, <2>4 DEF ClaimInv
<1>6. TokenInv(q)'
  <2> SUFFICES ASSUME NEW v \in Versions, NEW n \in 0..MaxRuns, row'[v].token = <<q, n>>
               PROVE  row[v].token = <<q, n>>
    BY <1>1 DEF ProcInv, TokenInv, At
  <2>1. <<q, n>> # None /\ <<q, n>> # Token(p)
    BY DEF Token
  <2> QED
    BY <2>1 DEF StepOf
<1>7. EventInv(q)'
  <2> SUFFICES ASSUME NEW e \in log', NEW n \in 0..MaxRuns, e.token = <<q, n>>
               PROVE  e \in log
    BY <1>1 DEF ProcInv, EventInv, At
  <2>1. <<q, n>> # Token(p)
    BY DEF Token
  <2> QED
    BY <2>1 DEF StepOf
<1> QED
  BY <1>4, <1>5, <1>6, <1>7 DEF ProcInv

\* An ingestion that ends leaves nothing behind but its row and its event.
LEMMA EndedInv ==
    ASSUME IInv, NEW p \in Ingesters, StepOf(p), proc'[p] = Idle(proc[p].run)
    PROVE  ProcInv(p)'
<1>1. /\ proc[p] \in Proc /\ clock \in Nat /\ clock' = clock
      /\ ProcInv(p)
  BY DEF IInv, Typed, TypeOK, StepOf
<1>2. /\ proc'[p].run = proc[p].run /\ proc[p].run \in 0..MaxRuns /\ proc'[p].at = "idle"
      /\ ~proc'[p].claimed /\ proc'[p].observed = 0 /\ proc'[p].now = 0
  BY <1>1 DEF Idle, Proc
<1>3. PlaceInv(p)' /\ ClaimInv(p)'
  BY <1>1, <1>2 DEF PlaceInv, ClaimInv
<1>4. TokenInv(p)'
  <2> SUFFICES ASSUME NEW v \in Versions, NEW n \in 0..MaxRuns, row'[v].token = <<p, n>>
               PROVE  n <= proc[p].run
    BY <1>2 DEF TokenInv, At
  <2>1. CASE row'[v] = row[v]
    BY <1>1, <2>1 DEF ProcInv, TokenInv
  <2>2. CASE row'[v] # row[v]
    <3>1. <<p, n>> # None
      OBVIOUS
    <3>2. <<p, n>> = Token(p)
      BY <2>2, <3>1 DEF StepOf
    <3> QED
      BY <1>2, <3>2 DEF Token
  <2> QED
    BY <2>1, <2>2
<1>5. EventInv(p)'
  <2> SUFFICES ASSUME NEW e \in log', NEW n \in 0..MaxRuns, e.token = <<p, n>>
               PROVE  n <= proc[p].run
    BY <1>2 DEF EventInv, At
  <2>1. CASE e \in log
    BY <1>1, <2>1 DEF ProcInv, EventInv
  <2>2. CASE e \notin log
    <3>1. <<p, n>> = Token(p)
      BY <2>2 DEF StepOf
    <3> QED
      BY <1>2, <3>1 DEF Token
  <2> QED
    BY <2>1, <2>2
<1> QED
  BY <1>3, <1>4, <1>5 DEF ProcInv
-----------------------------------------------------------------------------
\* A step that only moves p: nothing that is shared changes.
LEMMA MoveKeeps ==
    ASSUME IInv, NEW p \in Ingesters, NEW next \in Proc, Goto(p, next),
           next.run \in {proc[p].run, proc[p].run + 1},
           next.claimed => next.version \in Versions,
           UNCHANGED <<clock, rich, file, was, changes, row, head, log>>
    PROVE  /\ StepOf(p) /\ Typed' /\ HistoryInv' /\ HeadIsNewest' /\ HeadWasTrue'
           /\ proc'[p] = next
<1>1. /\ proc' \in [Ingesters -> Proc] /\ proc'[p] = next
      /\ \A q \in Ingesters \ {p} : proc'[q] = proc[q]
  BY Moved DEF IInv
<1>2. StepOf(p)
  BY <1>1 DEF StepOf
<1>3. Typed'
  <2>1. \A q \in Ingesters : proc'[q].claimed => proc'[q].version \in Versions
    BY <1>1 DEF IInv, Typed, TypeOK, Proc
  <2>2. TypeOK'
    BY <1>1, <2>1 DEF IInv, Typed, TypeOK
  <2> QED
    BY <2>2 DEF IInv, Typed
<1>4. HistoryInv' /\ HeadIsNewest' /\ HeadWasTrue'
  BY DEF IInv, HistoryInv, HeadIsNewest, HeadWasTrue
<1> QED
  BY <1>1, <1>2, <1>3, <1>4

\* p went on with the claim it had, or with none.
LEMMA WentOn ==
    ASSUME IInv, NEW p \in Ingesters, ~At(p, "idle"),
           proc'[p].run = proc[p].run, proc'[p].claimed = proc[p].claimed,
           proc[p].claimed => /\ proc'[p].version = proc[p].version
                              /\ proc'[p].observed = proc[p].observed
                              /\ proc'[p].rev = proc[p].rev,
           UNCHANGED <<clock, row, log>>
    PROVE  ClaimInv(p)' /\ TokenInv(p)' /\ EventInv(p)'
<1>1. ProcInv(p)
  BY DEF IInv
<1>2. ClaimInv(p)'
  <2>1. ClaimInv(p)
    BY <1>1 DEF ProcInv
  <2> QED
    BY <2>1 DEF ClaimInv, Token
<1>3. TokenInv(p)'
  <2>1. TokenInv(p)
    BY <1>1 DEF ProcInv
  <2> QED
    BY <2>1 DEF TokenInv, At
<1>4. EventInv(p)'
  <2>1. EventInv(p)
    BY <1>1 DEF ProcInv
  <2> QED
    BY <2>1 DEF EventInv, At
<1> QED
  BY <1>2, <1>3, <1>4

\* An ingestion that ends with nothing done, or dies.
LEMMA EndStep ==
    ASSUME IInv, NEW p \in Ingesters, End(p),
           UNCHANGED <<clock, rich, file, was, changes, row, head, log>>
    PROVE  IInv'
<1>1. proc[p].run \in 0..MaxRuns /\ Idle(proc[p].run) \in Proc
  BY IdleIsProc DEF IInv, Typed, TypeOK, Proc
<1>2. Idle(proc[p].run).run = proc[p].run /\ ~Idle(proc[p].run).claimed
  BY DEF Idle
<1>3. /\ StepOf(p) /\ Typed' /\ HistoryInv' /\ HeadIsNewest' /\ HeadWasTrue'
      /\ proc'[p] = Idle(proc[p].run)
  BY <1>1, <1>2, MoveKeeps DEF End
<1>4. \A q \in Ingesters : ProcInv(q)'
  BY <1>3, OthersKept, EndedInv
<1> QED
  BY <1>3, <1>4 DEF IInv

\* p goes on to the next place with what it has and one reading more.
LEMMA WalkStep ==
    ASSUME IInv, NEW p \in Ingesters, ~At(p, "idle"), NEW next \in Proc, Goto(p, next),
           next.run = proc[p].run, next.claimed = proc[p].claimed,
           proc[p].claimed => /\ next.version = proc[p].version
                              /\ next.observed = proc[p].observed
                              /\ next.rev = proc[p].rev,
           UNCHANGED <<clock, rich, file, was, changes, row, head, log>>,
           proc'[p] = next => PlaceInv(p)'
    PROVE  IInv'
<1>1. next.claimed => next.version \in Versions
  BY DEF IInv, Typed, TypeOK
<1>2. next.run \in {proc[p].run, proc[p].run + 1}
  OBVIOUS
<1>3. /\ StepOf(p) /\ Typed' /\ HistoryInv' /\ HeadIsNewest' /\ HeadWasTrue'
      /\ proc'[p] = next
  BY <1>1, <1>2, MoveKeeps
<1>4. ClaimInv(p)' /\ TokenInv(p)' /\ EventInv(p)'
  BY <1>3, WentOn
<1>5. \A q \in Ingesters : ProcInv(q)'
  BY <1>3, <1>4, OthersKept DEF ProcInv
<1> QED
  BY <1>3, <1>5 DEF IInv

\* Observe starts an ingestion whose token is in no row and in no event.
LEMMA ObserveStep ==
    ASSUME IInv, NEW p \in Ingesters, Observe(p) PROVE IInv'
<1>1. PICK force \in BOOLEAN :
         Goto(p, [Idle(proc[p].run + 1) EXCEPT
                      !.at = "snapshot", !.force = force, !.observed = clock])
  BY DEF Observe
<1> DEFINE n == proc[p].run + 1
           next == [Idle(n) EXCEPT !.at = "snapshot", !.force = force, !.observed = clock]
<1>2. clock \in Nat /\ proc[p].run \in 0..MaxRuns /\ n \in 0..MaxRuns
  BY DEF IInv, Typed, TypeOK, Observe, Proc
<1>3. /\ next \in Proc /\ next.run = n /\ ~next.claimed /\ next.at = "snapshot"
      /\ next.observed = clock /\ next.now = 0
  <2> HIDE DEF n
  <2> QED
    BY <1>2 DEF Idle, Proc, Place
<1> HIDE DEF next
<1>4. /\ StepOf(p) /\ Typed' /\ HistoryInv' /\ HeadIsNewest' /\ HeadWasTrue'
      /\ proc'[p] = next
  BY <1>1, <1>3, MoveKeeps DEF Observe, next
<1>5. PlaceInv(p)' /\ ClaimInv(p)'
  BY <1>2, <1>3, <1>4 DEF PlaceInv, ClaimInv, StepOf
<1>6. TokenInv(p)' /\ EventInv(p)'
  <2>1. TokenInv(p) /\ EventInv(p)
    BY DEF IInv, ProcInv
  <2>2. row' = row /\ log' = log
    BY DEF Observe
  <2>3. TokenInv(p)'
    BY <1>2, <1>3, <1>4, <2>1, <2>2 DEF TokenInv, At
  <2>4. EventInv(p)'
    BY <1>2, <1>3, <1>4, <2>1, <2>2 DEF EventInv, At
  <2> QED
    BY <2>3, <2>4
<1>7. \A q \in Ingesters : ProcInv(q)'
  BY <1>4, <1>5, <1>6, OthersKept DEF ProcInv
<1> QED
  BY <1>4, <1>7 DEF IInv

\* What is known of p now stays known while p moves between two places and
\* neither the clock nor the rows change.
LEMMA Facts ==
    ASSUME IInv, NEW p \in Ingesters
    PROVE  /\ clock \in Nat /\ proc[p] \in Proc /\ PlaceInv(p) /\ ClaimInv(p)
           /\ TokenInv(p) /\ EventInv(p) /\ proc[p].observed \in Nat
           /\ proc[p].run \in 0..MaxRuns /\ proc[p].now \in Nat
           /\ Token(p) \in Tokens /\ Token(p) # None
<1>1. /\ clock \in Nat /\ proc[p] \in Proc /\ ProcInv(p)
  BY DEF IInv, Typed, TypeOK
<1>2. proc[p].observed \in Nat /\ proc[p].run \in 0..MaxRuns /\ proc[p].now \in Nat
  BY <1>1 DEF Proc
<1>3. Token(p) \in Tokens /\ Token(p) # None
  BY <1>2 DEF Token, Tokens
<1> QED
  BY <1>1, <1>2, <1>3 DEF ProcInv

\* snapshot_to reads what the file contains at this instant.
LEMMA SnapshotStep ==
    ASSUME IInv, NEW p \in Ingesters, Snapshot(p) PROVE IInv'
<1>1. CASE file = None
  BY <1>1, EndStep DEF Snapshot
<1>2. CASE file # None
  <2> DEFINE next == [proc[p] EXCEPT !.at = "acquire", !.version = file]
  <2>1. Goto(p, next) /\ file \in Versions /\ ~At(p, "idle") /\ ~proc[p].claimed
    BY <1>2, Facts DEF Snapshot, IInv, Typed, TypeOK, At, PlaceInv
  <2>2. /\ next \in Proc /\ next.run = proc[p].run /\ next.claimed = proc[p].claimed
        /\ next.at = "acquire" /\ next.version = file /\ next.observed = proc[p].observed
        /\ next.now = proc[p].now
    BY <2>1, Facts DEF Proc, Place
  <2> HIDE DEF next
  <2>3. ASSUME proc'[p] = next PROVE PlaceInv(p)'
    <3>1. clock' = clock /\ was' = was /\ file' = file /\ row' = row
      BY DEF Snapshot
    <3>2. WasTrue(file, proc[p].observed, clock)
      BY Facts DEF IInv, HistoryInv, WasTrue, PlaceInv
    <3> QED
      BY <2>1, <2>2, <2>3, <3>1, <3>2, Facts DEF PlaceInv, WasTrue
  <2> QED
    BY <2>1, <2>2, <2>3, WalkStep DEF Snapshot
<1> QED
  BY <1>1, <1>2

\* What raises goes to the record of the failure, or ends.
LEMMA RaiseStep ==
    ASSUME IInv, NEW p \in Ingesters, ~At(p, "idle"), Raise(p),
           UNCHANGED <<clock, rich, file, was, changes, row, head, log>>
    PROVE  IInv'
<1>1. CASE ~proc[p].claimed
  BY <1>1, EndStep DEF Raise
<1>2. CASE proc[p].claimed
  <2> DEFINE next == [proc[p] EXCEPT !.at = "failing"]
  <2>1. Goto(p, next)
    BY <1>2 DEF Raise
  <2>2. /\ next \in Proc /\ next.run = proc[p].run /\ next.claimed = proc[p].claimed
        /\ next.at = "failing" /\ next.version = proc[p].version
        /\ next.observed = proc[p].observed /\ next.now = proc[p].now /\ next.rev = proc[p].rev
    BY Facts DEF Proc, Place
  <2> HIDE DEF next
  <2>3. ASSUME proc'[p] = next PROVE PlaceInv(p)'
    BY <1>2, <2>2, <2>3, Facts DEF PlaceInv, WasTrue, At
  <2> QED
    BY <2>1, <2>2, <2>3, WalkStep
<1> QED
  BY <1>1, <1>2

\* The ready representation was there when acquire_representation looked, and
\* stays while it is verified.
LEMMA VerifyStep ==
    ASSUME IInv, NEW p \in Ingesters, VerifyReady(p) PROVE IInv'
<1> DEFINE next == [proc[p] EXCEPT !.at = "record", !.now = clock]
<1>1. Goto(p, next) /\ ~At(p, "idle") /\ proc[p].at = "verify"
  BY DEF VerifyReady, At
<1>2. /\ next \in Proc /\ next.run = proc[p].run /\ next.claimed = proc[p].claimed
      /\ next.at = "record" /\ next.version = proc[p].version
      /\ next.observed = proc[p].observed /\ next.now = clock /\ next.rev = proc[p].rev
  BY Facts DEF Proc, Place
<1> HIDE DEF next
<1>3. ASSUME proc'[p] = next PROVE PlaceInv(p)'
  <2>1. clock' = clock /\ was' = was /\ row' = row
    BY DEF VerifyReady
  <2>2. /\ WasTrue(proc[p].version, proc[p].observed, clock) /\ proc[p].version \in Versions
        /\ ~proc[p].claimed /\ row[proc[p].version].state = "READY"
    BY <1>1, Facts DEF PlaceInv
  <2> QED
    BY <1>2, <1>3, <2>1, <2>2, Facts DEF PlaceInv, WasTrue
<1> QED
  BY <1>1, <1>2, <1>3, WalkStep DEF VerifyReady

\* The parser's end, read from the clock.
LEMMA ParseStep ==
    ASSUME IInv, NEW p \in Ingesters, Parse(p) PROVE IInv'
<1>1. CASE Raise(p)
  BY <1>1, RaiseStep DEF Parse, At
<1>2. CASE ~Raise(p)
  <2> DEFINE next == [proc[p] EXCEPT !.at = "commit", !.now = clock]
  <2>1. Goto(p, next) /\ ~At(p, "idle") /\ proc[p].at = "parse"
    BY <1>2 DEF Parse, At
  <2>2. /\ next \in Proc /\ next.run = proc[p].run /\ next.claimed = proc[p].claimed
        /\ next.at = "commit" /\ next.version = proc[p].version
        /\ next.observed = proc[p].observed /\ next.now = clock /\ next.rev = proc[p].rev
    BY Facts DEF Proc, Place
  <2> HIDE DEF next
  <2>3. ASSUME proc'[p] = next PROVE PlaceInv(p)'
    <3>1. clock' = clock /\ was' = was /\ row' = row
      BY DEF Parse
    <3>2. WasTrue(proc[p].version, proc[p].observed, clock) /\ proc[p].version \in Versions
      BY <2>1, Facts DEF PlaceInv
    <3>3. ~proc[p].claimed => row[proc[p].version].state = "READY"
      BY <2>1, Facts DEF PlaceInv
    <3> QED
      BY <2>2, <2>3, <3>1, <3>2, <3>3, Facts DEF PlaceInv, WasTrue
  <2> QED
    BY <2>1, <2>2, <2>3, WalkStep DEF Parse
<1> QED
  BY <1>1, <1>2
-----------------------------------------------------------------------------
\* Whoever has not claimed, or has, finds its token in its own row only.
LEMMA OwnToken ==
    ASSUME IInv, NEW p \in Ingesters, ~At(p, "idle"), NEW v \in Versions,
           row[v].token = Token(p)
    PROVE  proc[p].claimed /\ proc[p].version = v
<1>1. row[v].token = <<p, proc[p].run>> /\ proc[p].run \in 0..MaxRuns /\ TokenInv(p)
  BY Facts DEF Token
<1> QED
  BY <1>1 DEF TokenInv

\* What a claim writes is a row under p's lease.
LEMMA TakenRow ==
    ASSUME IInv, NEW p \in Ingesters, NEW v \in Versions, NEW now \in Nat
    PROVE  /\ Taken(v, p, now) \in Row
           /\ Taken(v, p, now).state = "STAGING" /\ Taken(v, p, now).token = Token(p)
           /\ Taken(v, p, now).expires = now + Lease
           /\ Taken(v, p, now).rev \in Nat
<1>1. row[v] \in Row /\ row[v].attempt + 1 \in Nat /\ row[v].rev + 1 \in Nat
  BY DEF IInv, Typed, TypeOK, Row
<1>2. now + Lease \in Nat
  OBVIOUS
<1> QED
  BY <1>1, <1>2, Facts DEF Taken, Row

\* The claim of acquire_representation.
LEMMA ClaimStep ==
    ASSUME IInv, NEW p \in Ingesters, At(p, "acquire"),
           NEW v, v = proc[p].version, row[v].state # "READY", ~Held(v, proc[p].observed),
           row' = [row EXCEPT ![v] = Taken(v, p, proc[p].observed)],
           Goto(p, [proc[p] EXCEPT !.at = "parse", !.claimed = TRUE, !.rev = row'[v].rev]),
           UNCHANGED <<clock, rich, file, was, changes, head, log>>
    PROVE  IInv'
<1> DEFINE now == proc[p].observed
           taken == Taken(v, p, now)
           n == row'[v].rev
           next == [proc[p] EXCEPT !.at = "parse", !.claimed = TRUE, !.rev = n]
<1>1. /\ v \in Versions /\ now \in Nat /\ now <= clock /\ ~proc[p].claimed /\ ~At(p, "idle")
      /\ WasTrue(v, now, clock)
  BY Facts DEF At, PlaceInv
<1>2. /\ taken \in Row /\ taken.state = "STAGING" /\ taken.token = Token(p)
      /\ taken.expires = now + Lease /\ taken.rev \in Nat
  BY <1>1, TakenRow
<1>3. /\ row \in [Versions -> Row] /\ row' \in [Versions -> Row] /\ row'[v] = taken
      /\ \A u \in Versions \ {v} : row'[u] = row[u]
  <2>1. row \in [Versions -> Row]
    BY DEF IInv, Typed, TypeOK
  <2> HIDE DEF taken
  <2>2. row' = [row EXCEPT ![v] = taken]
    BY DEF taken
  <2> QED
    BY <1>1, <1>2, <2>1, <2>2
<1>4. n = taken.rev /\ n \in Nat
  BY <1>2, <1>3
<1> HIDE DEF taken, n
<1>5. /\ next \in Proc /\ next.run = proc[p].run /\ next.claimed = TRUE
      /\ next.at = "parse" /\ next.version = v
      /\ next.observed = now /\ next.now = proc[p].now /\ next.rev = n
  BY <1>4, Facts DEF Proc, Place
<1>6. /\ proc' \in [Ingesters -> Proc] /\ proc'[p] = next
      /\ \A q \in Ingesters \ {p} : proc'[q] = proc[q]
  <2> HIDE DEF next
  <2>1. Goto(p, next)
    BY DEF next, n
  <2> QED
    BY <1>5, <2>1, Moved DEF IInv
<1> HIDE DEF next
<1>7. \A u \in Versions : row[u].token # Token(p)
  BY <1>1, OwnToken
<1>8. StepOf(p)
  <2>1. now \in 0..clock
    BY <1>1, Facts
  <2>2. \A u \in Versions : row'[u] # row[u] => u = v
    BY <1>3
  <2>3. \E k \in 0..clock : ~Held(v, k)
    BY <2>1
  <2>4. row'[v].token = Token(p)
    BY <1>2, <1>3
  <2>5. proc'[p].run = proc[p].run
    BY <1>5, <1>6
  <2> QED
    BY <1>6, <2>2, <2>3, <2>4, <2>5 DEF StepOf
<1>9. Typed'
  <2>1. \A q \in Ingesters : proc'[q].claimed => proc'[q].version \in Versions
    BY <1>1, <1>5, <1>6 DEF IInv, Typed, TypeOK
  <2>2. \A u \in Versions : row'[u].state = "STAGING" <=> row'[u].token # None
    BY <1>2, <1>3, Facts DEF IInv, Typed, TypeOK
  <2>3. TypeOK'
    BY <1>3, <1>6, <2>1, <2>2 DEF IInv, Typed, TypeOK
  <2> QED
    BY <2>3 DEF IInv, Typed
<1>10. PlaceInv(p)'
  BY <1>1, <1>5, <1>6, Facts DEF PlaceInv, WasTrue
<1>11. ClaimInv(p)'
  BY <1>2, <1>3, <1>4, <1>5, <1>6 DEF ClaimInv, Token
<1>12. TokenInv(p)'
  <2> SUFFICES ASSUME NEW u \in Versions, NEW k \in 0..MaxRuns, row'[u].token = <<p, k>>
               PROVE  k <= proc[p].run /\ (k = proc[p].run => u = v)
    BY <1>5, <1>6 DEF TokenInv, At
  <2>1. CASE u = v
    <3>1. <<p, k>> = <<p, proc[p].run>>
      BY <1>2, <1>3, <2>1 DEF Token
    <3> QED
      BY <2>1, <3>1, Facts
  <2>2. CASE u # v
    BY <1>3, <1>7, <2>2, Facts DEF TokenInv, Token
  <2> QED
    BY <2>1, <2>2
<1>13. EventInv(p)'
  BY <1>1, <1>5, <1>6, Facts DEF EventInv, At
<1>14. HistoryInv' /\ HeadWasTrue'
  BY DEF IInv, HistoryInv, HeadWasTrue
<1>15. HeadIsNewest'
  <2>1. head.version # None => row'[head.version].state = "READY"
    <3>1. head.version # None => head.version \in Versions /\ row[head.version].state = "READY"
      BY DEF IInv, HeadIsNewest, Typed, TypeOK, Head
    <3> QED
      BY <1>3, <3>1
  <2> QED
    BY <2>1 DEF IInv, HeadIsNewest
<1>16. \A q \in Ingesters : ProcInv(q)'
  BY <1>8, <1>10, <1>11, <1>12, <1>13, OthersKept DEF ProcInv
<1> QED
  BY <1>9, <1>14, <1>15, <1>16 DEF IInv

\* acquire_representation, with each of its answers.
LEMMA AcquireStep ==
    ASSUME IInv, NEW p \in Ingesters, Acquire(p) PROVE IInv'
<1> DEFINE v == proc[p].version
           now == proc[p].observed
<1>1. CASE /\ row[v].state # "READY" /\ ~Held(v, now)
           /\ row' = [row EXCEPT ![v] = Taken(v, p, now)]
           /\ Goto(p, [proc[p] EXCEPT !.at = "parse", !.claimed = TRUE,
                                      !.rev = row'[v].rev])
  BY <1>1, ClaimStep DEF Acquire
<1>2. CASE End(p) /\ UNCHANGED row
  BY <1>2, EndStep DEF Acquire
<1>3. CASE /\ row[v].state = "READY"
           /\ Goto(p, [proc[p] EXCEPT !.at = IF proc[p].force THEN "parse" ELSE "verify"])
           /\ UNCHANGED row
  <2> DEFINE place == IF proc[p].force THEN "parse" ELSE "verify"
             next == [proc[p] EXCEPT !.at = place]
  <2>1. /\ Goto(p, next) /\ ~At(p, "idle") /\ ~proc[p].claimed
        /\ v \in Versions /\ WasTrue(v, now, clock) /\ place \in {"parse", "verify"}
    BY <1>3, Facts DEF Acquire, At, PlaceInv
  <2> HIDE DEF place
  <2>2. /\ next \in Proc /\ next.run = proc[p].run /\ next.claimed = proc[p].claimed
        /\ next.at \in {"parse", "verify"} /\ next.version = v
        /\ next.observed = now /\ next.now = proc[p].now /\ next.rev = proc[p].rev
    BY <2>1, Facts DEF Proc, Place
  <2> HIDE DEF next
  <2>3. ASSUME proc'[p] = next PROVE PlaceInv(p)'
    BY <1>3, <2>1, <2>2, <2>3, Facts DEF PlaceInv, WasTrue, Acquire
  <2> QED
    BY <1>3, <2>1, <2>2, <2>3, WalkStep DEF Acquire
<1> QED
  BY <1>1, <1>2, <1>3 DEF Acquire
-----------------------------------------------------------------------------
\* Under the lease p finds the row it wrote.
LEMMA FinishedRow ==
    ASSUME IInv, NEW p \in Ingesters, NEW state \in {"READY", "FAILED"}, NEW now \in Nat,
           NEW v, v = proc[p].version, v \in Versions, row' = Finished(p, state, now)
    PROVE  /\ row' \in [Versions -> Row]
           /\ row'[v].state = state /\ row'[v].token = None
           /\ \A u \in Versions \ {v} : row'[u] = row[u]
<1> DEFINE n == row[v].rev + 1
           done == [row[v] EXCEPT !.state = state, !.rev = n, !.token = None,
                                  !.expires = 0, !.updated = now]
<1>1. row \in [Versions -> Row] /\ row[v] \in Row /\ n \in Nat
  BY DEF IInv, Typed, TypeOK, Row
<1>2. row' = [row EXCEPT ![v] = done]
  BY DEF Finished
<1> HIDE DEF n
<1>3. done \in Row /\ done.state = state /\ done.token = None
  BY <1>1 DEF Row
<1> HIDE DEF done
<1> QED
  BY <1>1, <1>2, <1>3

\* p ends and leaves the row finished: what a finishing step keeps, whatever
\* becomes of the head and the events.
LEMMA FinishKeeps ==
    ASSUME IInv, NEW p \in Ingesters, ~At(p, "idle"),
           NEW state \in {"READY", "FAILED"}, NEW now \in Nat,
           NEW reading, HoldsLease(p, reading), proc[p].version \in Versions,
           row' = Finished(p, state, now), End(p),
           \A e \in log' \ log : e.token = Token(p),
           UNCHANGED <<clock, rich, file, was, changes>>
    PROVE  /\ HistoryInv' /\ \A q \in Ingesters : ProcInv(q)'
           /\ head' \in Head /\ log' \subseteq Events /\ IsFiniteSet(log') => Typed'
           /\ \A u \in Versions \ {proc[p].version} : row'[u] = row[u]
           /\ row[proc[p].version].state = "STAGING"
           /\ row'[proc[p].version].state = state
<1> DEFINE v == proc[p].version
<1>1. /\ row' \in [Versions -> Row]
      /\ row'[v].state = state /\ row'[v].token = None
      /\ \A u \in Versions \ {v} : row'[u] = row[u]
  BY FinishedRow
<1>2. row[v].token = Token(p) /\ row[v].state = "STAGING"
  BY DEF HoldsLease
<1>3. proc[p].run \in 0..MaxRuns /\ Idle(proc[p].run) \in Proc
  BY Facts, IdleIsProc
<1>4. /\ proc' \in [Ingesters -> Proc] /\ proc'[p] = Idle(proc[p].run)
      /\ \A q \in Ingesters \ {p} : proc'[q] = proc[q]
  BY <1>3, Moved DEF IInv, End
<1>5. proc'[p].run = proc[p].run /\ ~proc'[p].claimed /\ proc'[p].at = "idle"
  BY <1>4 DEF Idle
<1>6. StepOf(p)
  <2>1. \A u \in Versions : row'[u] # row[u] => u = v
    BY <1>1
  <2> QED
    BY <1>1, <1>2, <1>4, <1>5, <2>1 DEF StepOf
<1>7. \A q \in Ingesters : ProcInv(q)'
  BY <1>4, <1>6, OthersKept, EndedInv
<1>8. ASSUME head' \in Head, log' \subseteq Events, IsFiniteSet(log') PROVE Typed'
  <2>1. \A q \in Ingesters : proc'[q].claimed => proc'[q].version \in Versions
    BY <1>4, <1>5 DEF IInv, Typed, TypeOK
  <2>2. \A u \in Versions : row'[u].state = "STAGING" <=> row'[u].token # None
    BY <1>1, Facts DEF IInv, Typed, TypeOK
  <2>3. TypeOK'
    BY <1>1, <1>4, <1>8, <2>1, <2>2 DEF IInv, Typed, TypeOK
  <2> QED
    BY <1>8, <2>3 DEF Typed
<1>9. HistoryInv'
  BY DEF IInv, HistoryInv
<1> QED
  BY <1>1, <1>2, <1>7, <1>8, <1>9

\* p ends and the rows stay, whatever becomes of the head and the events.
LEMMA PublishKeeps ==
    ASSUME IInv, NEW p \in Ingesters, End(p),
           \A e \in log' \ log : e.token = Token(p),
           UNCHANGED <<clock, rich, file, was, changes, row>>
    PROVE  /\ HistoryInv' /\ \A q \in Ingesters : ProcInv(q)'
           /\ head' \in Head /\ log' \subseteq Events /\ IsFiniteSet(log') => Typed'
<1>1. proc[p].run \in 0..MaxRuns /\ Idle(proc[p].run) \in Proc
  BY Facts, IdleIsProc
<1>2. /\ proc' \in [Ingesters -> Proc] /\ proc'[p] = Idle(proc[p].run)
      /\ \A q \in Ingesters \ {p} : proc'[q] = proc[q]
  BY <1>1, Moved DEF IInv, End
<1>3. proc'[p].run = proc[p].run /\ ~proc'[p].claimed /\ proc'[p].at = "idle"
  BY <1>2 DEF Idle
<1>4. StepOf(p)
  BY <1>2, <1>3 DEF StepOf
<1>5. \A q \in Ingesters : ProcInv(q)'
  BY <1>2, <1>4, OthersKept, EndedInv
<1>6. ASSUME head' \in Head, log' \subseteq Events, IsFiniteSet(log') PROVE Typed'
  <2>1. \A q \in Ingesters : proc'[q].claimed => proc'[q].version \in Versions
    BY <1>2, <1>3 DEF IInv, Typed, TypeOK
  <2>2. TypeOK'
    BY <1>2, <1>6, <2>1 DEF IInv, Typed, TypeOK
  <2> QED
    BY <1>6, <2>2 DEF Typed
<1>7. HistoryInv'
  BY DEF IInv, HistoryInv
<1> QED
  BY <1>5, <1>6, <1>7

\* The event p is about to write is new.
LEMMA EventIsNew ==
    ASSUME IInv, NEW p \in Ingesters, ~At(p, "idle") PROVE \A e \in log : e.token # Token(p)
<1> SUFFICES ASSUME NEW e \in log, e.token = Token(p) PROVE FALSE
  OBVIOUS
<1>1. e.token = <<p, proc[p].run>> /\ proc[p].run \in 0..MaxRuns /\ EventInv(p)
  BY Facts DEF Token
<1> QED
  BY <1>1 DEF EventInv

\* _advance_head_and_event: the head stays the newest of all observations,
\* in whatever order they are ingested, and counts the events that moved it.
LEMMA AdvanceKeeps ==
    ASSUME IInv, NEW p \in Ingesters, proc[p].at \in {"record", "commit"}, Advance(p),
           row'[proc[p].version].state = "READY",
           \A v \in Versions : row[v].state = "READY" => row'[v].state = "READY",
           UNCHANGED was
    PROVE  /\ head' \in Head /\ log' \subseteq Events /\ IsFiniteSet(log')
           /\ \A e \in log' \ log : e.token = Token(p)
           /\ HeadIsNewest' /\ HeadWasTrue'
           /\ Event(p, TRUE, Advances(p)) \in log' \ log
<1> DEFINE v == proc[p].version
           new == Event(p, TRUE, Advances(p))
           counted == {e \in log : e.counts}
           advanced == {e \in log : e.advanced}
<1>1. /\ v \in Versions /\ v # None /\ ~At(p, "idle") /\ proc[p].observed \in Nat
      /\ proc[p].now \in Nat /\ WasTrue(v, proc[p].observed, proc[p].now)
      /\ head \in Head /\ log \subseteq Events /\ IsFiniteSet(log)
  BY Facts DEF At, PlaceInv, IInv, Typed, TypeOK
<1>2. /\ new \in Events /\ new.counts /\ new.version = v /\ new.observed = proc[p].observed
      /\ new.ingested = proc[p].now /\ new.token = Token(p)
      /\ new.advanced = Advances(p)
  BY <1>1, Facts DEF Event, Events, Advances
<1>3. log' = log \union {new} /\ new \notin log
  BY <1>1, <1>2, EventIsNew DEF Advance
<1> HIDE DEF new
<1>4. /\ log' \subseteq Events /\ IsFiniteSet(log')
      /\ \A e \in log' \ log : e.token = Token(p)
      /\ new \in log' \ log
  BY <1>1, <1>2, <1>3, FS_AddElement
<1>5. ~Conflict(p) /\ head' = IF Advances(p) THEN Observation(p) ELSE head
  BY DEF Advance
<1>6. /\ Observation(p) \in Head
      /\ Observation(p).version = v /\ Observation(p).observed = proc[p].observed
      /\ Observation(p).ingested = proc[p].now /\ Observation(p).rev = head.rev + 1
  BY <1>1 DEF Observation, Head
<1>7. head' \in Head
  BY <1>1, <1>5, <1>6
<1>8. /\ head.version = None <=> counted = {}
      /\ \A e \in counted :
            \/ e.observed < head.observed
            \/ /\ e.observed = head.observed /\ e.version = head.version
               /\ e.ingested <= head.ingested
      /\ head.version # None => row[head.version].state = "READY"
      /\ head.rev = Cardinality(advanced)
  BY DEF IInv, HeadIsNewest
<1>9. {e \in log' : e.counts} = counted \union {new}
  BY <1>2, <1>3
<1>10. IsFiniteSet(advanced)
  BY <1>1, FS_Subset
<1>11. \A e \in counted : e.observed \in Nat /\ e.ingested \in Nat
  BY <1>1 DEF Events
<1>12. head.observed \in Nat /\ head.ingested \in Nat /\ head.version \in Versions \union {None}
  BY <1>1 DEF Head
<1>13. CASE Advances(p)
  <2>1. /\ head'.version = v /\ head'.observed = proc[p].observed
        /\ head'.ingested = proc[p].now /\ head'.rev = head.rev + 1
    BY <1>5, <1>6, <1>13
  <2>2. \A e \in counted :
           \/ e.observed < proc[p].observed
           \/ /\ e.observed = proc[p].observed /\ e.version = v
              /\ e.ingested <= proc[p].now
    BY <1>1, <1>8, <1>11, <1>12, <1>13 DEF Advances
  <2>3. \A e \in {f \in log' : f.counts} :
           \/ e.observed < head'.observed
           \/ /\ e.observed = head'.observed /\ e.version = head'.version
              /\ e.ingested <= head'.ingested
    BY <1>1, <1>2, <1>9, <2>1, <2>2
  <2>4. {e \in log' : e.advanced} = advanced \union {new} /\ new \notin advanced
    BY <1>2, <1>3, <1>13
  <2>5. head'.rev = Cardinality({e \in log' : e.advanced})
    BY <1>8, <1>10, <2>1, <2>4, FS_AddElement
  <2>6. HeadIsNewest'
    BY <1>1, <1>9, <2>1, <2>3, <2>5 DEF HeadIsNewest
  <2>7. HeadWasTrue'
    BY <1>1, <2>1 DEF HeadWasTrue, WasTrue
  <2> QED
    BY <1>4, <1>7, <2>6, <2>7 DEF new
<1>14. CASE ~Advances(p)
  <2>1. head' = head /\ head.version # None
    BY <1>5, <1>14 DEF Advances
  <2>2. \/ new.observed < head.observed
        \/ /\ new.observed = head.observed /\ new.version = head.version
           /\ new.ingested <= head.ingested
    BY <1>1, <1>2, <1>5, <1>12, <1>14, <2>1 DEF Advances, Conflict
  <2>3. \A e \in {f \in log' : f.counts} :
           \/ e.observed < head.observed
           \/ /\ e.observed = head.observed /\ e.version = head.version
              /\ e.ingested <= head.ingested
    BY <1>8, <1>9, <2>2
  <2>4. {e \in log' : e.advanced} = advanced
    BY <1>2, <1>3, <1>14
  <2>5. row'[head.version].state = "READY"
    BY <1>8, <1>12, <2>1
  <2>6. HeadIsNewest'
    BY <1>8, <1>9, <2>1, <2>3, <2>4, <2>5 DEF HeadIsNewest
  <2>7. HeadWasTrue'
    BY <2>1 DEF IInv, HeadWasTrue
  <2> QED
    BY <1>4, <1>7, <2>6, <2>7 DEF new
<1> QED
  BY <1>13, <1>14
-----------------------------------------------------------------------------
\* record_ready_ingest.
LEMMA RecordStep ==
    ASSUME IInv, NEW p \in Ingesters, Record(p) PROVE IInv'
<1>1. CASE Conflict(p) /\ UNCHANGED <<head, log>>
  BY <1>1, EndStep DEF Record
<1>2. CASE Advance(p)
  <2>1. /\ proc[p].at = "record" /\ row' = row /\ was' = was
        /\ row[proc[p].version].state = "READY"
    BY Facts DEF Record, At, PlaceInv
  <2>2. /\ head' \in Head /\ log' \subseteq Events /\ IsFiniteSet(log')
        /\ \A e \in log' \ log : e.token = Token(p)
        /\ HeadIsNewest' /\ HeadWasTrue'
    BY <1>2, <2>1, AdvanceKeeps
  <2>3. Typed' /\ HistoryInv' /\ \A q \in Ingesters : ProcInv(q)'
    BY <2>2, PublishKeeps DEF Record
  <2> QED
    BY <2>2, <2>3 DEF IInv
<1> QED
  BY <1>1, <1>2 DEF Record

\* A successful commit of a claimed representation: what it finds and leaves.
LEMMA CommitKeeps ==
    ASSUME IInv, NEW p \in Ingesters, Commit(p),
           HoldsLease(p, proc[p].now), ~Conflict(p)
    PROVE  /\ IInv'
           /\ \A u \in Versions \ {proc[p].version} : row'[u] = row[u]
           /\ proc[p].version \in Versions
           /\ row[proc[p].version].state = "STAGING"
           /\ row[proc[p].version].token = Token(p)
           /\ Event(p, TRUE, Advances(p)) \in log' \ log
<1> DEFINE v == proc[p].version
<1>1. /\ v \in Versions /\ proc[p].now \in Nat /\ ~At(p, "idle") /\ proc[p].at = "commit"
      /\ row' = Finished(p, "READY", proc[p].now) /\ Advance(p) /\ End(p)
      /\ UNCHANGED <<clock, rich, file, was, changes>>
  BY Facts DEF Commit, At, PlaceInv
<1>2. row[v].state = "STAGING" /\ row[v].token = Token(p)
  BY DEF HoldsLease
<1>3. row'[v].state = "READY" /\ \A u \in Versions \ {v} : row'[u] = row[u]
  BY <1>1, FinishedRow
<1>4. \A u \in Versions : row[u].state = "READY" => row'[u].state = "READY"
  BY <1>2, <1>3
<1>5. /\ head' \in Head /\ log' \subseteq Events /\ IsFiniteSet(log')
      /\ \A e \in log' \ log : e.token = Token(p)
      /\ HeadIsNewest' /\ HeadWasTrue'
      /\ Event(p, TRUE, Advances(p)) \in log' \ log
  BY <1>1, <1>3, <1>4, AdvanceKeeps
<1>6. Typed' /\ HistoryInv' /\ \A q \in Ingesters : ProcInv(q)'
  BY <1>1, <1>5, FinishKeeps
<1> QED
  BY <1>1, <1>2, <1>3, <1>5, <1>6 DEF IInv

\* commit_ready_representation, with its refusals.
LEMMA CommitStep ==
    ASSUME IInv, NEW p \in Ingesters, Commit(p) PROVE IInv'
<1>1. CASE HoldsLease(p, proc[p].now) /\ ~Conflict(p)
  BY <1>1, CommitKeeps
<1>2. CASE ~(HoldsLease(p, proc[p].now) /\ ~Conflict(p))
  BY <1>2, RaiseStep DEF Commit, At
<1> QED
  BY <1>1, <1>2

\* A forced ingestion of what is ready, one way or another.
LEMMA CommitAgainStep ==
    ASSUME IInv, NEW p \in Ingesters, CommitAgain(p) PROVE IInv'
<1>1. CASE Conflict(p) /\ UNCHANGED <<head, log>>
  BY <1>1, EndStep DEF CommitAgain
<1>2. CASE Advance(p)
  <2>1. /\ proc[p].at = "commit" /\ row' = row /\ was' = was
        /\ row[proc[p].version].state = "READY"
    BY Facts DEF CommitAgain, At, PlaceInv
  <2>2. /\ head' \in Head /\ log' \subseteq Events /\ IsFiniteSet(log')
        /\ \A e \in log' \ log : e.token = Token(p)
        /\ HeadIsNewest' /\ HeadWasTrue'
    BY <1>2, <2>1, AdvanceKeeps
  <2>3. Typed' /\ HistoryInv' /\ \A q \in Ingesters : ProcInv(q)'
    BY <2>2, PublishKeeps DEF CommitAgain
  <2> QED
    BY <2>2, <2>3 DEF IInv
<1>3. CASE log' = log \union {Event(p, FALSE, FALSE)} /\ UNCHANGED head
  <2> DEFINE new == Event(p, FALSE, FALSE)
  <2>1. /\ new \in Events /\ ~new.counts /\ ~new.advanced /\ new.token = Token(p)
    BY Facts DEF CommitAgain, At, PlaceInv, Event, Events
  <2>2. log' = log \union {new}
    BY <1>3
  <2> HIDE DEF new
  <2>3. log \subseteq Events /\ IsFiniteSet(log) /\ head \in Head
    BY DEF IInv, Typed, TypeOK
  <2>4. /\ head' \in Head /\ log' \subseteq Events /\ IsFiniteSet(log')
        /\ \A e \in log' \ log : e.token = Token(p)
    <3>1. head' \in Head
      BY <1>3, <2>3
    <3>2. IsFiniteSet(log')
      BY <2>2, <2>3, FS_AddElement
    <3> QED
      BY <2>1, <2>2, <2>3, <3>1, <3>2
  <2>5. /\ {e \in log' : e.counts} = {e \in log : e.counts}
        /\ {e \in log' : e.advanced} = {e \in log : e.advanced}
    BY <2>1, <2>2
  <2>6. HeadIsNewest'
    <3>1. row' = row /\ head' = head
      BY <1>3 DEF CommitAgain
    <3> QED
      BY <2>5, <3>1 DEF IInv, HeadIsNewest
  <2>7. HeadWasTrue'
    BY <1>3 DEF CommitAgain, IInv, HeadWasTrue
  <2>8. Typed' /\ HistoryInv' /\ \A q \in Ingesters : ProcInv(q)'
    BY <2>4, PublishKeeps DEF CommitAgain
  <2> QED
    BY <2>6, <2>7, <2>8 DEF IInv
<1> QED
  BY <1>1, <1>2, <1>3 DEF CommitAgain

\* fail_representation, recorded or not.
LEMMA FailureStep ==
    ASSUME IInv, NEW p \in Ingesters, RecordFailure(p) PROVE IInv'
<1> DEFINE v == proc[p].version
<1>1. CASE HoldsLease(p, clock) /\ clock >= row[v].updated
  <2>1. /\ v \in Versions /\ clock \in Nat /\ ~At(p, "idle")
        /\ row' = Finished(p, "FAILED", clock) /\ End(p)
        /\ UNCHANGED <<clock, rich, file, was, changes, head, log>>
    BY <1>1, Facts DEF RecordFailure, At, PlaceInv
  <2>2. head' \in Head /\ log' \subseteq Events /\ IsFiniteSet(log')
    BY <2>1 DEF IInv, Typed, TypeOK
  <2>3. /\ Typed' /\ HistoryInv' /\ \A q \in Ingesters : ProcInv(q)'
        /\ \A u \in Versions \ {v} : row'[u] = row[u]
        /\ row[v].state = "STAGING"
    BY <1>1, <2>1, <2>2, FinishKeeps
  <2>4. head.version # None => row'[head.version].state = "READY"
    <3>1. head.version # None => head.version \in Versions /\ row[head.version].state = "READY"
      BY DEF IInv, HeadIsNewest, Typed, TypeOK, Head
    <3> QED
      BY <2>3, <3>1
  <2>5. HeadIsNewest' /\ HeadWasTrue'
    BY <2>1, <2>4 DEF IInv, HeadIsNewest, HeadWasTrue
  <2> QED
    BY <2>3, <2>5 DEF IInv
<1>2. CASE ~(HoldsLease(p, clock) /\ clock >= row[v].updated)
  <2>1. row' = row /\ End(p) /\ UNCHANGED <<clock, rich, file, was, changes, head, log>>
    BY <1>2 DEF RecordFailure
  <2> QED
    BY <2>1, EndStep
<1> QED
  BY <1>1, <1>2
-----------------------------------------------------------------------------
\* The file changes under everybody's hands.
LEMMA ChangeStep ==
    ASSUME IInv, Change PROVE IInv'
<1>1. /\ clock \in Nat /\ was \subseteq (Versions \union {None}) \X Nat
      /\ file' \in Versions \union {None} /\ was' = was \union {<<file', clock>>}
      /\ changes' \in 0..MaxChanges
      /\ UNCHANGED <<clock, rich, row, head, log, proc>>
  BY DEF IInv, Typed, TypeOK, Change
<1>2. was' \subseteq (Versions \union {None}) \X Nat /\ was \subseteq was' /\ <<file, clock>>' \in was'
  BY <1>1
<1>3. Typed' /\ HistoryInv'
  BY <1>1, <1>2 DEF IInv, Typed, TypeOK, HistoryInv
<1>4. HeadIsNewest' /\ HeadWasTrue'
  BY <1>1, <1>2 DEF IInv, HeadIsNewest, HeadWasTrue
<1>5. ASSUME NEW p \in Ingesters PROVE ProcInv(p)'
  <2>1. PlaceInv(p)'
    BY <1>1, <1>2, Facts DEF PlaceInv, WasTrue
  <2>2. ClaimInv(p)' /\ TokenInv(p)' /\ EventInv(p)'
    <3>1. proc' = proc /\ row' = row /\ log' = log
      BY <1>1
    <3>2. ClaimInv(p) /\ TokenInv(p) /\ EventInv(p)
      BY Facts
    <3>3. ClaimInv(p)'
      BY <1>1, <3>1, <3>2 DEF ClaimInv, Token
    <3>4. TokenInv(p)'
      BY <3>1, <3>2 DEF TokenInv, At
    <3>5. EventInv(p)'
      BY <3>1, <3>2 DEF EventInv, At
    <3> QED
      BY <3>3, <3>4, <3>5
  <2> QED
    BY <2>1, <2>2 DEF ProcInv
<1> QED
  BY <1>3, <1>4, <1>5 DEF IInv

\* Time passes: a lease may end, and no reading comes to lie ahead.
LEMMA TickStep ==
    ASSUME IInv, Tick PROVE IInv'
<1>1. /\ clock \in Nat /\ clock' = clock + 1 /\ clock' \in Nat /\ file \in Versions \union {None}
      /\ was \subseteq (Versions \union {None}) \X Nat
      /\ was' = was \union {<<file, clock + 1>>}
      /\ UNCHANGED <<file, rich, changes, row, head, log, proc>>
  BY DEF IInv, Typed, TypeOK, Tick
<1>2. /\ was' \subseteq (Versions \union {None}) \X Nat /\ was \subseteq was'
      /\ <<file', clock'>> \in was'
  BY <1>1
<1>3. Typed' /\ HistoryInv'
  BY <1>1, <1>2 DEF IInv, Typed, TypeOK, HistoryInv
<1>4. HeadIsNewest' /\ HeadWasTrue'
  BY <1>1, <1>2 DEF IInv, HeadIsNewest, HeadWasTrue
<1>5. ASSUME NEW p \in Ingesters PROVE ProcInv(p)'
  <2>1. proc[p].observed \in Nat /\ proc[p].now \in Nat /\ PlaceInv(p)
    BY Facts
  <2>2. \A a \in Nat : \A v : WasTrue(v, a, clock) => WasTrue(v, a, clock)'
    <3> SUFFICES ASSUME NEW a \in Nat, NEW v, NEW t \in a..clock, <<v, t>> \in was
                 PROVE  t \in a..clock' /\ <<v, t>> \in was'
      BY DEF WasTrue
    <3> QED
      BY <1>1, <1>2
  <2>3. \A a, b \in Nat : \A v : WasTrue(v, a, b) => WasTrue(v, a, b)'
    BY <1>2 DEF WasTrue
  <2>4. proc' = proc /\ row' = row
    BY <1>1
  <2>5. PlaceInv(p)'
    BY <1>1, <2>1, <2>2, <2>3, <2>4 DEF PlaceInv
  <2>6. ClaimInv(p)' /\ TokenInv(p)' /\ EventInv(p)'
    <3>1. proc' = proc /\ row' = row /\ log' = log
      BY <1>1
    <3>2. ClaimInv(p) /\ TokenInv(p) /\ EventInv(p)
      BY Facts
    <3>3. ClaimInv(p)'
      BY <1>1, <3>1, <3>2, <2>1 DEF ClaimInv, Token
    <3>4. TokenInv(p)'
      BY <3>1, <3>2 DEF TokenInv, At
    <3>5. EventInv(p)'
      BY <3>1, <3>2 DEF EventInv, At
    <3> QED
      BY <3>3, <3>4, <3>5
  <2> QED
    BY <2>5, <2>6 DEF ProcInv
<1> QED
  BY <1>3, <1>4, <1>5 DEF IInv

\* Nothing was ingested and nobody has begun.
LEMMA InitInv == Init => IInv
<1> SUFFICES ASSUME Init PROVE IInv
  OBVIOUS
<1>1. Typed
  <2>1. NoRow \in Row /\ NoHead \in Head /\ Idle(0) \in Proc
    BY IdleIsProc DEF NoRow, Row, NoHead, Head
  <2>2. NoRow.state = "ABSENT" /\ NoRow.token = None
    BY DEF NoRow
  <2>3. Idle(0).at = "idle" /\ Idle(0).run = 0 /\ ~Idle(0).claimed
    BY DEF Idle
  <2>4. TypeOK
    BY <2>1, <2>2, <2>3 DEF Init, TypeOK, Place
  <2> QED
    BY <2>1, <2>4, FS_EmptySet DEF Init, Typed
<1>2. HistoryInv
  BY DEF Init, HistoryInv
<1>3. ASSUME NEW p \in Ingesters PROVE ProcInv(p)
  <2>1. proc[p].at = "idle" /\ ~proc[p].claimed /\ proc[p].observed = 0 /\ proc[p].now = 0
    BY DEF Init, Idle
  <2>2. \A v \in Versions : row[v].token = None
    BY DEF Init, NoRow
  <2>3. PlaceInv(p) /\ ClaimInv(p)
    BY <2>1 DEF Init, PlaceInv, ClaimInv
  <2>4. TokenInv(p)
    <3>1. \A n \in 0..MaxRuns : <<p, n>> # None
      OBVIOUS
    <3> QED
      BY <2>2, <3>1 DEF TokenInv
  <2>5. EventInv(p)
    BY DEF Init, EventInv
  <2> QED
    BY <2>3, <2>4, <2>5 DEF ProcInv
<1>4. HeadIsNewest /\ HeadWasTrue
  <2>1. head.version = None /\ head.rev = 0 /\ log = {}
    BY DEF Init, NoHead
  <2>2. {e \in log : e.advanced} = {} /\ {e \in log : e.counts} = {}
    BY <2>1
  <2>3. Cardinality({e \in log : e.advanced}) = 0
    BY <2>2, FS_EmptySet
  <2>4. HeadIsNewest
    BY <2>1, <2>2, <2>3 DEF HeadIsNewest
  <2> QED
    BY <2>1, <2>4 DEF HeadWasTrue
<1> QED
  BY <1>1, <1>2, <1>3, <1>4 DEF IInv

\* One step of anything.
LEMMA StepInv == IInv /\ [Next]_vars => IInv'
<1> SUFFICES ASSUME IInv, [Next]_vars PROVE IInv'
  OBVIOUS
<1>1. CASE UNCHANGED vars
  BY <1>1 DEF vars, IInv, Typed, TypeOK, HistoryInv, ProcInv, PlaceInv, ClaimInv, TokenInv,
              EventInv, HeadIsNewest, HeadWasTrue, HoldsLease, WasTrue, At, Token
<1>2. ASSUME NEW p \in Ingesters,
             \/ Observe(p) \/ Snapshot(p) \/ Acquire(p) \/ VerifyReady(p) \/ Parse(p)
             \/ Record(p) \/ Commit(p) \/ CommitAgain(p) \/ RecordFailure(p) \/ Crash(p)
      PROVE  IInv'
  <2>1. CASE Crash(p)
    BY <2>1, EndStep DEF Crash
  <2> QED
    BY <1>2, <2>1, ObserveStep, SnapshotStep, AcquireStep, VerifyStep, ParseStep, RecordStep,
       CommitStep, CommitAgainStep, FailureStep
<1> QED
  BY <1>1, <1>2, ChangeStep, TickStep DEF Next

\* The invariant holds in every reachable state.
LEMMA Inductive == Spec => []IInv
  BY InitInv, StepInv, PTL DEF Spec
-----------------------------------------------------------------------------
\* Every variable has its type; a row has a lease exactly while it is staged.
THEOREM TypeCorrect == Spec => []TypeOK
<1>1. IInv => TypeOK
  BY DEF IInv, Typed
<1> QED
  BY <1>1, Inductive, PTL

\* Two ingestions never both believe that they hold a representation, however
\* old the readings are with which they claimed it, and the row of a lease
\* that runs while its holder parses is the one the holder wrote.
THEOREM LeasesExclude == Spec => []LeaseExclusive
<1>1. ASSUME IInv PROVE LeaseExclusive
  <2> SUFFICES ASSUME NEW p \in Ingesters, Believes(p)
               PROVE  /\ \A q \in Ingesters \ {p} :
                            proc[q].version = proc[p].version => ~Believes(q)
                      /\ At(p, "parse") => HoldsLease(p, clock)
    BY DEF LeaseExclusive
  <2> DEFINE v == proc[p].version
  <2>1. row[v].token = Token(p)
    BY <1>1, Facts DEF Believes, ClaimInv
  <2>2. ASSUME NEW q \in Ingesters \ {p}, proc[q].version = v, Believes(q) PROVE FALSE
    <3>1. row[v].token = Token(q)
      BY <1>1, <2>2, Facts DEF Believes, ClaimInv
    <3> QED
      BY <2>1, <3>1, TokensDiffer
  <2>3. HoldsLease(p, clock)
    <3>1. v \in Versions
      BY <1>1 DEF Believes, IInv, Typed, TypeOK
    <3>2. row[v].state = "STAGING"
      BY <1>1, <2>1, <3>1, Facts DEF IInv, Typed, TypeOK
    <3>3. row[v].expires = proc[p].observed + Lease /\ row[v].rev = proc[p].rev
      BY <1>1, <2>1, Facts DEF Believes, ClaimInv
    <3>4. row[v].expires > clock
      BY <1>1, <3>3, Facts DEF Believes
    <3> QED
      BY <2>1, <3>2, <3>3, <3>4 DEF HoldsLease
  <2> QED
    BY <2>2, <2>3
<1> QED
  BY <1>1, Inductive, PTL

\* Out of order as they come, the ingested observations leave the newest of
\* them at the head, over a ready row, with one revision per advance.
THEOREM HeadOrdered == Spec => []HeadIsNewest
<1>1. IInv => HeadIsNewest
  BY DEF IInv
<1> QED
  BY <1>1, Inductive, PTL

\* The head names a content the file did have between its observation and its
\* ingestion.
THEOREM HeadTruthful == Spec => []HeadWasTrue
<1>1. IInv => HeadWasTrue
  BY DEF IInv
<1> QED
  BY <1>1, Inductive, PTL

\* A published row is never written again, and publishing it is the work of
\* the claimant whose token the row carries.
THEOREM ReadyStays == Spec => ReadyIsFinal
<1> DEFINE Final == \A v \in Versions :
              /\ row[v].state = "READY" => row'[v] = row[v]
              /\ row'[v].state = "READY" /\ row[v].state # "READY" =>
                    \E e \in log' \ log : e.version = v /\ e.token = row[v].token
<1>1. ASSUME IInv, NEW p \in Ingesters, Commit(p) PROVE Final
  <2>1. CASE HoldsLease(p, proc[p].now) /\ ~Conflict(p)
    <3> DEFINE u == proc[p].version
               e == Event(p, TRUE, Advances(p))
    <3>1. /\ \A v \in Versions \ {u} : row'[v] = row[v]
          /\ row[u].state = "STAGING" /\ row[u].token = Token(p)
          /\ e \in log' \ log
      BY <1>1, <2>1, CommitKeeps
    <3>2. e.version = u /\ e.token = Token(p)
      BY DEF Event
    <3> HIDE DEF e
    <3> QED
      BY <3>1, <3>2
  <2>2. CASE ~(HoldsLease(p, proc[p].now) /\ ~Conflict(p))
    <3>1. row' = row
      BY <1>1, <2>2 DEF Commit
    <3> QED
      BY <3>1
  <2> QED
    BY <2>1, <2>2
<1>2. ASSUME IInv, NEW p \in Ingesters, Acquire(p) PROVE Final
  <2> DEFINE u == proc[p].version
             taken == Taken(u, p, proc[p].observed)
  <2>1. CASE row[u].state # "READY" /\ row' = [row EXCEPT ![u] = taken]
    <3>1. u \in Versions /\ row \in [Versions -> Row] /\ proc[p].observed \in Nat
      BY <1>2, Facts DEF Acquire, At, PlaceInv, IInv, Typed, TypeOK
    <3>2. taken.state = "STAGING"
      BY <1>2, <3>1, TakenRow
    <3> HIDE DEF taken
    <3> QED
      BY <2>1, <3>1, <3>2
  <2>2. CASE row' = row
    BY <2>2
  <2> QED
    BY <1>2, <2>1, <2>2 DEF Acquire
<1>3. ASSUME IInv, NEW p \in Ingesters, RecordFailure(p) PROVE Final
  <2> DEFINE u == proc[p].version
  <2>1. CASE HoldsLease(p, clock) /\ row' = Finished(p, "FAILED", clock)
    <3>1. u \in Versions /\ clock \in Nat
      BY <1>3, Facts DEF RecordFailure, At, PlaceInv
    <3>2. row'[u].state = "FAILED" /\ \A v \in Versions \ {u} : row'[v] = row[v]
      BY <1>3, <2>1, <3>1, FinishedRow
    <3>3. row[u].state = "STAGING"
      BY <2>1 DEF HoldsLease
    <3> QED
      BY <3>2, <3>3
  <2>2. CASE row' = row
    BY <2>2
  <2> QED
    BY <1>3, <2>1, <2>2 DEF RecordFailure
<1>4. ASSUME IInv, [Next]_vars PROVE Final
  <2>1. CASE row' = row
    BY <2>1
  <2>2. CASE row' # row
    <3>1. \E p \in Ingesters : Acquire(p) \/ Commit(p) \/ RecordFailure(p)
      BY <1>4, <2>2 DEF Next, vars, Observe, Snapshot, VerifyReady, Parse, Record,
                        CommitAgain, Crash, Change, Tick
    <3> QED
      BY <1>1, <1>2, <1>3, <1>4, <3>1
  <2> QED
    BY <2>1, <2>2
<1>5. IInv /\ [Next]_vars => [Final]_vars
  BY <1>4
<1> QED
  BY <1>5, Inductive, PTL DEF Spec, ReadyIsFinal
=============================================================================
