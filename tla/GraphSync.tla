------------------------------ MODULE GraphSync ------------------------------
(***************************************************************************)
(* Mirroring a remote drive: services/graph_sync.py collects the pages of  *)
(* one delta cycle from a provider and publishes items and cursor at once  *)
(* in adapters/mock_graph.py, which takes them if its cursor is still the  *)
(* one the cycle began with.                                               *)
(*                                                                         *)
(* The drive is the sequence of its changes and the revision of an item is *)
(* the number of its last change.  The provider is external: a cursor is a *)
(* position in the sequence, a page any stretch after it, and the last     *)
(* page of a cycle ends with the changes there are.                        *)
(***************************************************************************)
EXTENDS Integers, FiniteSets, Sequences, FiniteSetsExt

CONSTANTS
    Items,       \* items of the drive
    Syncs,       \* synchronising processes
    None,        \* no state yet
    MaxPages, MaxChanges, MaxRetries,  \* GraphSyncPolicy
    MaxLog       \* bound: changes of the drive

ASSUME GraphSyncAssumption ==
    /\ {MaxPages, MaxChanges} \subseteq Nat \ {0}
    /\ {MaxRetries, MaxLog} \subseteq Nat
    /\ None \notin Nat

VARIABLES
    log,     \* changes of the drive: [item, kind]
    cursor,  \* GraphSyncState.cursor, None before the first commit
    items,   \* GraphSyncState.items: state and revision, NoItem if it is not in it
    proc     \* where every process stands in its cycle

vars == <<log, cursor, items, proc>>

Kinds == {"UPSERT", "DELETE"}
NoItem == [state |-> "UNKNOWN", revision |-> 0]
Item == [state: {"UNKNOWN", "ACTIVE", "TOMBSTONE"}, revision: 0..MaxLog]

Idle == [at |-> "idle", expected |-> None, cursor |-> 0, visited |-> {},
         reduced |-> [i \in Items |-> 0], pages |-> 0, seen |-> 0, retries |-> 0]

Init ==
    /\ log = << >>
    /\ cursor = None
    /\ items = [i \in Items |-> NoItem]
    /\ proc = [p \in Syncs |-> Idle]
-----------------------------------------------------------------------------
At(p, place) == proc[p].at = place
Goto(p, next) == proc' = [proc EXCEPT ![p] = next]

\* The changes that positions from + 1 to upto hold for item i.
Changes(i, from, upto) == {k \in (from + 1)..upto : log[k].item = i}

\* reconcile: the state is loaded, once for the whole cycle.
Load(p) ==
    /\ At(p, "idle")
    /\ LET start == IF cursor = None THEN 0 ELSE cursor
       IN  Goto(p, [Idle EXCEPT !.at = "fetch", !.expected = cursor, !.cursor = start])
    /\ UNCHANGED <<log, cursor, items>>

\* A cursor that comes again ends the cycle with an error.
Cycle(p) ==
    /\ At(p, "fetch") /\ proc[p].cursor \in proc[p].visited
    /\ Goto(p, Idle)
    /\ UNCHANGED <<log, cursor, items>>

\* The last change of every item in the cycle.
Reduce(p, upto) ==
    [i \in Items |-> LET found == Changes(i, proc[p].cursor, upto)
                     IN  IF found = {} THEN proc[p].reduced[i] ELSE Max(found)]

\* A defect: the limit is tested with the pages before this one.
TooMany_BeforeCounting(p, upto) ==
    proc[p].pages > MaxPages \/ proc[p].seen > MaxChanges

\* The limits on the pages and changes of one cycle.
TooMany(p, upto) ==
    \/ proc[p].pages + 1 > MaxPages
    \/ proc[p].seen + (upto - proc[p].cursor) > MaxChanges

\* A page arrives, with the changes up to a position.
Page(p) ==
    /\ At(p, "fetch") /\ proc[p].cursor \notin proc[p].visited
    /\ \E upto \in proc[p].cursor..Len(log) :
          IF TooMany(p, upto) THEN Goto(p, Idle)
          ELSE \E at \in IF upto = Len(log) THEN {"fetch", "commit"} ELSE {"fetch"} :
                  Goto(p, [proc[p] EXCEPT
                      !.at = at, !.cursor = upto, !.visited = @ \union {proc[p].cursor},
                      !.reduced = Reduce(p, upto), !.pages = @ + 1,
                      !.seen = @ + (upto - proc[p].cursor), !.retries = 0])
    /\ UNCHANGED <<log, cursor, items>>

\* 429: wait and ask again, or leave it for later.
Throttle(p) ==
    /\ At(p, "fetch") /\ proc[p].cursor \notin proc[p].visited
    /\ \/ proc[p].retries < MaxRetries /\ Goto(p, [proc[p] EXCEPT !.retries = @ + 1])
       \/ Goto(p, Idle)
    /\ UNCHANGED <<log, cursor, items>>

\* 410, or any other error of the provider: the cycle ends, nothing is written.
EndCycle(p) ==
    /\ At(p, "fetch") /\ proc[p].cursor \notin proc[p].visited
    /\ Goto(p, Idle)
    /\ UNCHANGED <<log, cursor, items>>

\* A defect: whoever comes last wins.
Accepts_Any(p) == TRUE

\* The optimistic check of the commit.
Accepts(p) == cursor = proc[p].expected

\* What a change makes of its item.
Applied(k) ==
    IF log[k].kind = "UPSERT" THEN [state |-> "ACTIVE", revision |-> k]
    ELSE [state |-> "TOMBSTONE", revision |-> 0]

\* commit: items and cursor together, or neither.
Commit(p) ==
    /\ At(p, "commit")
    /\ IF Accepts(p)
       THEN /\ cursor' = proc[p].cursor
            /\ items' = [i \in Items |-> IF proc[p].reduced[i] = 0 THEN items[i]
                                         ELSE Applied(proc[p].reduced[i])]
       ELSE UNCHANGED <<cursor, items>>
    /\ Goto(p, Idle)
    /\ UNCHANGED log

\* The state cannot be built or published.
CommitFails(p) ==
    /\ At(p, "commit") /\ Accepts(p)
    /\ Goto(p, Idle)
    /\ UNCHANGED <<log, cursor, items>>

\* Somebody changes the drive.
Change(i, kind) ==
    /\ Len(log) < MaxLog
    /\ log' = Append(log, [item |-> i, kind |-> kind])
    /\ UNCHANGED <<cursor, items, proc>>

Next ==
    \/ \E p \in Syncs : \/ Load(p) \/ Cycle(p) \/ Page(p) \/ Throttle(p) \/ EndCycle(p)
                        \/ Commit(p) \/ CommitFails(p)
    \/ \E i \in Items, kind \in Kinds : Change(i, kind)

Spec == Init /\ [][Next]_vars
-----------------------------------------------------------------------------
\* Every variable has its type, and no cycle is beyond its limits.
TypeOK ==
    /\ log \in Seq([item: Items, kind: Kinds]) /\ Len(log) <= MaxLog
    /\ cursor \in (0..MaxLog) \union {None}
    /\ items \in [Items -> Item]
    /\ \A p \in Syncs : /\ proc[p].at \in {"idle", "fetch", "commit"}
                        /\ proc[p].pages \in 0..MaxPages
                        /\ proc[p].seen \in 0..MaxChanges
                        /\ proc[p].retries \in 0..MaxRetries

\* The state is that of the drive at its cursor, though the drive changes while
\* pages are read, items come several times, and cycles of several processes
\* overlap, fail and are repeated: no change is lost, no deletion undone.
MirrorsDrive ==
    LET at == IF cursor = None THEN 0 ELSE cursor
    IN  \A i \in Items : LET known == Changes(i, 0, at)
                         IN  items[i] = IF known = {} THEN NoItem ELSE Applied(Max(known))
=============================================================================
