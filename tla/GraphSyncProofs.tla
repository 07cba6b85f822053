-------------------------- MODULE GraphSyncProofs --------------------------
(***************************************************************************)
(* Theorems about the mirror of a drive, for any items, processes, limits  *)
(* and number of changes.  The first part is about the last change of an   *)
(* item in a stretch of the drive's history, the second says what a cycle  *)
(* has collected, the third that all steps keep it and the mirror true.    *)
(***************************************************************************)
EXTENDS GraphSync, TLAPS, WellFoundedInduction, SequenceTheorems

-----------------------------------------------------------------------------
Entry == [item: Items, kind: Kinds]

\* Changes and Applied with the history as a parameter.
ChangesOf(l, i, from, upto) == {k \in (from + 1)..upto : l[k].item = i}
AppliedOf(l, k) ==
    IF l[k].kind = "UPSERT" THEN [state |-> "ACTIVE", revision |-> k]
    ELSE [state |-> "TOMBSTONE", revision |-> 0]

\* The last change of item i in a stretch of the history, 0 if there is none.
LatestOf(l, i, from, upto) ==
    IF ChangesOf(l, i, from, upto) = {} THEN 0 ELSE Max(ChangesOf(l, i, from, upto))

\* A set of numbers up to n that is not empty has a largest one.
LEMMA MaxExists ==
    ASSUME NEW n \in Nat, NEW S, S \subseteq 0..n, S # {}
    PROVE  Max(S) \in S /\ \A k \in S : Max(S) >= k
<1> DEFINE T == {n - k : k \in S}
           R == {ss \in Nat \X Nat : ss[1] < ss[2]}
<1>1. \A k \in S : k \in Nat /\ n - k \in Nat
  <2> SUFFICES ASSUME NEW k \in S PROVE k \in Nat /\ n - k \in Nat
    OBVIOUS
  <2>1. k \in 0..n
    OBVIOUS
  <2> QED BY <2>1
<1>2. T \subseteq Nat /\ T # {}
  BY <1>1
<1>3. IsWellFoundedOn(R, Nat)
  BY NatLessThanWellFounded DEF OpToRel
<1>4. \E x \in T : \A y \in T : <<y, x>> \notin R
  <2> HIDE DEF T, R
  <2> QED BY <1>2, <1>3, WFMin
<1>5. PICK x \in T : \A y \in T : <<y, x>> \notin R
  BY <1>4
<1>6. \A y \in T : ~(y < x)
  BY <1>2, <1>5
<1>7. PICK k \in S : x = n - k
  BY <1>5
<1>8. ASSUME NEW l \in S PROVE k >= l
  <2>1. ~(n - l < n - k)
    BY <1>6, <1>7
  <2> QED
    BY <1>1, <2>1
<1> QED
  BY <1>7, <1>8 DEF Max

\* The last change is one of the changes and no change comes after it.
LEMMA LatestIsLast ==
    ASSUME NEW l, NEW i, NEW from \in Nat, NEW upto \in Nat
    PROVE  /\ LatestOf(l, i, from, upto) \in 0..upto
           /\ LatestOf(l, i, from, upto) = 0 <=> ChangesOf(l, i, from, upto) = {}
           /\ LatestOf(l, i, from, upto) # 0 =>
                 /\ LatestOf(l, i, from, upto) \in ChangesOf(l, i, from, upto)
                 /\ \A k \in ChangesOf(l, i, from, upto) : LatestOf(l, i, from, upto) >= k
<1> DEFINE S == ChangesOf(l, i, from, upto)
<1>1. S \subseteq 1..upto
  BY DEF ChangesOf
<1> HIDE DEF S
<1>2. S # {} => Max(S) \in S /\ \A k \in S : Max(S) >= k
  <2>1. S \subseteq 0..upto
    BY <1>1
  <2> QED
    BY <2>1, MaxExists
<1>3. LatestOf(l, i, from, upto) = IF S = {} THEN 0 ELSE Max(S)
  BY DEF LatestOf, S
<1>4. CASE S = {}
  BY <1>3, <1>4 DEF S
<1>5. CASE S # {}
  <2> DEFINE x == Max(S)
  <2>1. x \in S
    BY <1>2, <1>5
  <2> HIDE DEF x
  <2>2. x \in 1..upto
    BY <1>1, <2>1
  <2>3. x \in 0..upto /\ x # 0
    BY <2>2
  <2>4. Max(S) \in S /\ Max(S) \in 0..upto /\ Max(S) # 0
    BY <2>1, <2>3 DEF x
  <2>5. LatestOf(l, i, from, upto) = Max(S)
    BY <1>3, <1>5
  <2> QED
    BY <1>2, <1>5, <2>4, <2>5 DEF S
<1> QED
  BY <1>4, <1>5

\* The last change of two adjoining stretches is that of the second, if it
\* has one.
LEMMA LatestOfTwo ==
    ASSUME NEW l, NEW i, NEW a \in Nat, NEW b \in Nat, NEW c \in Nat, a <= b, b <= c
    PROVE  LatestOf(l, i, a, c) = IF LatestOf(l, i, b, c) = 0 THEN LatestOf(l, i, a, b)
                                  ELSE LatestOf(l, i, b, c)
<1> DEFINE A == ChangesOf(l, i, a, b)
           B == ChangesOf(l, i, b, c)
           C == ChangesOf(l, i, a, c)
           x == LatestOf(l, i, a, c)
           y == LatestOf(l, i, b, c)
<1>1. C = A \union B /\ A \subseteq 1..b /\ B \subseteq (b + 1)..c
  BY DEF ChangesOf
<1>2. CASE B = {}
  BY <1>1, <1>2, LatestIsLast DEF LatestOf
<1>3. CASE B # {}
  <2>1. y # 0 /\ y \in B /\ y \in Nat /\ \A k \in B : y >= k
    BY <1>3, LatestIsLast
  <2>2. x # 0 /\ x \in C /\ x \in Nat /\ \A k \in C : x >= k
    BY <1>1, <1>3, LatestIsLast
  <2> HIDE DEF x, y, A, B, C
  <2>3. x >= y /\ y \in C
    BY <1>1, <2>1, <2>2
  <2>4. x \in B
    BY <1>1, <2>1, <2>2, <2>3
  <2>5. x = y
    BY <2>1, <2>2, <2>3, <2>4
  <2> QED
    BY <2>1, <2>5 DEF x, y
<1> QED
  BY <1>2, <1>3

\* What happens later does not change what happened.
LEMMA LaterChanges ==
    ASSUME NEW l \in Seq(Entry), NEW e \in Entry,
           NEW i, NEW from \in Nat, NEW upto \in 0..Len(l)
    PROVE  /\ LatestOf(Append(l, e), i, from, upto) = LatestOf(l, i, from, upto)
           /\ LatestOf(l, i, from, upto) # 0 =>
                 AppliedOf(Append(l, e), LatestOf(l, i, from, upto)) =
                 AppliedOf(l, LatestOf(l, i, from, upto))
<1> DEFINE m == Append(l, e)
<1>1. Len(l) \in Nat /\ \A k \in 1..Len(l) : m[k] = l[k]
  BY AppendProperties
<1> HIDE DEF m
<1>2. ChangesOf(m, i, from, upto) = ChangesOf(l, i, from, upto)
  BY <1>1 DEF ChangesOf
<1>3. LatestOf(l, i, from, upto) \in 0..upto
  <2>1. upto \in Nat
    BY <1>1
  <2> QED
    BY <2>1, LatestIsLast
<1>4. /\ LatestOf(m, i, from, upto) = LatestOf(l, i, from, upto)
      /\ LatestOf(l, i, from, upto) # 0 =>
            AppliedOf(m, LatestOf(l, i, from, upto)) = AppliedOf(l, LatestOf(l, i, from, upto))
  BY <1>1, <1>2, <1>3 DEF LatestOf, AppliedOf
<1> QED
  BY <1>4 DEF m

-----------------------------------------------------------------------------
Start(at) == IF at = None THEN 0 ELSE at

Process == [at: {"idle", "fetch", "commit"}, expected: (0..MaxLog) \union {None},
            cursor: 0..MaxLog, visited: SUBSET (0..MaxLog), reduced: [Items -> 0..MaxLog],
            pages: 0..MaxPages, seen: 0..MaxChanges, retries: 0..MaxRetries]

\* A cycle has collected the last changes from where it began to its cursor.
Collected(l, q) ==
    q.at = "idle" \/ /\ Start(q.expected) <= q.cursor /\ q.cursor <= Len(l)
                     /\ \A i \in Items :
                           q.reduced[i] = LatestOf(l, i, Start(q.expected), q.cursor)

\* The items are what the last changes up to a position make of them.
Mirror(l, known, at) ==
    \A i \in Items : known[i] = IF LatestOf(l, i, 0, at) = 0 THEN NoItem
                                ELSE AppliedOf(l, LatestOf(l, i, 0, at))

Typed ==
    /\ log \in Seq(Entry) /\ Len(log) <= MaxLog
    /\ cursor \in (0..MaxLog) \union {None}
    /\ items \in [Items -> Item]
    /\ proc \in [Syncs -> Process]

\* The inductive invariant: types, cycles and mirror together.
IInv ==
    /\ Typed
    /\ Start(cursor) <= Len(log)
    /\ \A p \in Syncs : Collected(log, proc[p])
    /\ Mirror(log, items, Start(cursor))

LEMMA BoundsAreNumbers ==
    /\ MaxPages \in Nat /\ MaxPages > 0 /\ MaxChanges \in Nat /\ MaxChanges > 0
    /\ MaxRetries \in Nat /\ MaxLog \in Nat /\ None \notin Nat
  BY GraphSyncAssumption

LEMMA IdleIsProcess == Idle \in Process
  BY BoundsAreNumbers DEF Idle, Process

\* A start is a number, whoever began there.
LEMMA StartsAreNumbers ==
    \A at \in (0..MaxLog) \union {None} : Start(at) \in 0..MaxLog /\ Start(at) \in Nat
  BY BoundsAreNumbers DEF Start

\* The invariant says what the runs check.
LEMMA InvariantMirrors == IInv => TypeOK /\ MirrorsDrive
<1> SUFFICES ASSUME IInv PROVE TypeOK /\ MirrorsDrive
  OBVIOUS
<1>1. TypeOK
  BY DEF IInv, Typed, TypeOK, Process, Entry
<1>2. MirrorsDrive
  <2> DEFINE at == Start(cursor)
             known(i) == Changes(i, 0, at)
  <2>1. at \in Nat
    BY StartsAreNumbers DEF IInv, Typed
  <2>2. ASSUME NEW i \in Items
        PROVE  items[i] = IF known(i) = {} THEN NoItem ELSE Applied(Max(known(i)))
    <3>1. known(i) = ChangesOf(log, i, 0, at)
      BY DEF Changes, ChangesOf
    <3>2. LatestOf(log, i, 0, at) = 0 <=> known(i) = {}
      BY <2>1, <3>1, LatestIsLast
    <3>3. known(i) # {} => LatestOf(log, i, 0, at) = Max(known(i))
      BY <3>1 DEF LatestOf
    <3>4. \A k : Applied(k) = AppliedOf(log, k)
      BY DEF Applied, AppliedOf
    <3>5. items[i] = IF LatestOf(log, i, 0, at) = 0 THEN NoItem
                     ELSE AppliedOf(log, LatestOf(log, i, 0, at))
      BY DEF IInv, Mirror
    <3> HIDE DEF known, at
    <3> QED
      BY <3>2, <3>3, <3>4, <3>5
  <2> QED
    BY <2>2 DEF MirrorsDrive, Start
<1> QED
  BY <1>1, <1>2

LEMMA InitInv == Init => IInv
<1> SUFFICES ASSUME Init PROVE IInv
  OBVIOUS
<1>1. Typed
  BY BoundsAreNumbers, IdleIsProcess DEF Init, Typed, Entry, NoItem, Item
<1>2. Start(cursor) = 0 /\ Len(log) = 0
  BY DEF Init, Start
<1>3. \A p \in Syncs : Collected(log, proc[p])
  BY DEF Init, Idle, Collected
<1>4. Mirror(log, items, Start(cursor))
  <2>1. \A i \in Items : ChangesOf(log, i, 0, 0) = {}
    BY DEF ChangesOf
  <2> QED
    BY <1>2, <2>1 DEF Init, Mirror, LatestOf
<1> QED
  BY <1>1, <1>2, <1>3, <1>4 DEF IInv

\* A step of one process that leaves the published state alone keeps the
\* invariant if it leaves the process well typed and with what it should have.
LEMMA GotoInv ==
    ASSUME IInv, NEW p \in Syncs, NEW q \in Process, Collected(log, q),
           Goto(p, q), UNCHANGED <<log, cursor, items>>
    PROVE  IInv'
<1>1. proc' = [proc EXCEPT ![p] = q]
  BY DEF Goto
<1>2. proc' \in [Syncs -> Process]
  BY <1>1 DEF IInv, Typed
<1>3. \A r \in Syncs : Collected(log, proc'[r])
  BY <1>1 DEF IInv, Typed
<1>4. Typed'
  BY <1>2 DEF IInv, Typed
<1>5. (\A r \in Syncs : Collected(log, proc[r]))'
  BY <1>3
<1>6. (Start(cursor) <= Len(log))' /\ Mirror(log, items, Start(cursor))'
  BY DEF IInv
<1> QED
  BY <1>4, <1>5, <1>6 DEF IInv

\* A process that gives up has collected nothing.
LEMMA GiveUpInv ==
    ASSUME IInv, NEW p \in Syncs, Goto(p, Idle), UNCHANGED <<log, cursor, items>>
    PROVE  IInv'
<1>1. Collected(log, Idle)
  BY DEF Collected, Idle
<1> QED
  BY <1>1, IdleIsProcess, GotoInv

\* A cycle begins with nothing, at the published cursor.
LEMMA LoadInv ==
    ASSUME IInv, NEW p \in Syncs, Load(p)
    PROVE  IInv'
<1> DEFINE s == Start(cursor)
           q == [Idle EXCEPT !.at = "fetch", !.expected = cursor, !.cursor = s]
<1>1. s \in 0..MaxLog /\ s \in Nat /\ cursor \in (0..MaxLog) \union {None} /\ s <= Len(log)
  BY StartsAreNumbers DEF IInv, Typed
<1>2. Goto(p, q) /\ UNCHANGED <<log, cursor, items>>
  BY DEF Load, Start
<1> HIDE DEF s
<1>3. q \in Process
  BY <1>1, IdleIsProcess DEF Process, Idle
<1>4. q.expected = cursor /\ q.cursor = s /\ \A i \in Items : q.reduced[i] = 0
  BY DEF Idle
<1>5. Collected(log, q)
  <2>1. \A i \in Items : LatestOf(log, i, s, s) = 0
    <3> SUFFICES ASSUME NEW i \in Items PROVE ChangesOf(log, i, s, s) = {}
      BY DEF LatestOf
    <3> QED
      BY <1>1 DEF ChangesOf
  <2>2. Start(q.expected) = s
    BY <1>4 DEF s
  <2> QED
    BY <1>1, <1>4, <2>1, <2>2 DEF Collected
<1> HIDE DEF q
<1> QED
  BY <1>2, <1>3, <1>5, GotoInv

\* A page adds the last changes of its stretch to those collected.
LEMMA PageInv ==
    ASSUME IInv, NEW p \in Syncs, Page(p)
    PROVE  IInv'
<1> DEFINE o == proc[p]
           s == Start(o.expected)
<1>1. /\ o \in Process /\ o.at = "fetch" /\ Collected(log, o)
      /\ UNCHANGED <<log, cursor, items>>
  BY DEF IInv, Typed, Page, At
<1>2. PICK upto \in o.cursor..Len(log) :
        \/ Goto(p, Idle)
        \/ /\ ~TooMany(p, upto)
           /\ \E at \in {"fetch", "commit"} :
                Goto(p, [o EXCEPT !.at = at, !.cursor = upto, !.visited = @ \union {o.cursor},
                                  !.reduced = Reduce(p, upto), !.pages = @ + 1,
                                  !.seen = @ + (upto - o.cursor), !.retries = 0])
  BY DEF Page
<1>3. CASE Goto(p, Idle)
  BY <1>1, <1>3, GiveUpInv
<1>4. /\ o.cursor \in 0..MaxLog /\ o.visited \in SUBSET (0..MaxLog)
      /\ o.pages \in 0..MaxPages /\ o.seen \in 0..MaxChanges
      /\ s \in 0..MaxLog /\ s <= o.cursor /\ o.cursor <= Len(log)
  <2>1. o.expected \in (0..MaxLog) \union {None}
    BY <1>1 DEF Process
  <2>2. s \in 0..MaxLog
    BY <2>1, StartsAreNumbers
  <2>3. s <= o.cursor /\ o.cursor <= Len(log)
    BY <1>1 DEF Collected
  <2> HIDE DEF s
  <2> QED
    BY <1>1, <2>2, <2>3 DEF Process
<1>5. Len(log) \in 0..MaxLog
  BY BoundsAreNumbers DEF IInv, Typed
<1>6. ASSUME ~TooMany(p, upto), NEW at \in {"fetch", "commit"},
             Goto(p, [o EXCEPT !.at = at, !.cursor = upto, !.visited = @ \union {o.cursor},
                               !.reduced = Reduce(p, upto), !.pages = @ + 1,
                               !.seen = @ + (upto - o.cursor), !.retries = 0])
      PROVE  IInv'
  <2> DEFINE pages == o.pages + 1
             seen == o.seen + (upto - o.cursor)
             reduced == Reduce(p, upto)
             visited == o.visited \union {o.cursor}
  <2>1. /\ o.cursor \in Nat /\ s \in Nat /\ s <= o.cursor /\ Len(log) \in Nat
        /\ upto \in Nat /\ o.cursor <= upto /\ upto <= Len(log) /\ upto \in 0..MaxLog
    <3>1. o.cursor \in Nat /\ s \in Nat /\ Len(log) \in Nat /\ Len(log) <= MaxLog
      BY <1>4, <1>5, BoundsAreNumbers
    <3>2. upto \in o.cursor..Len(log)
      OBVIOUS
    <3> HIDE DEF o, s
    <3> QED
      BY <1>4, <3>1, <3>2, BoundsAreNumbers
  <2>2. pages \in 0..MaxPages /\ seen \in 0..MaxChanges /\ visited \in SUBSET (0..MaxLog)
    <3>1. ~(pages > MaxPages) /\ ~(seen > MaxChanges)
      BY <1>6 DEF TooMany
    <3>2. o.cursor \in 0..MaxLog /\ o.visited \in SUBSET (0..MaxLog)
      BY <1>4
    <3>3. visited \in SUBSET (0..MaxLog)
      BY <3>2
    <3>4. o.pages \in Nat /\ o.seen \in Nat /\ o.cursor \in Nat
      BY <1>4, <2>1, BoundsAreNumbers
    <3> HIDE DEF o, visited
    <3>5. pages \in 0..MaxPages
      BY <3>1, <3>4, BoundsAreNumbers
    <3>6. seen \in 0..MaxChanges
      BY <2>1, <3>1, <3>4, BoundsAreNumbers
    <3> QED
      BY <3>3, <3>5, <3>6
  <2>3. ASSUME NEW i \in Items PROVE reduced[i] = LatestOf(log, i, s, upto)
    <3>1. Changes(i, o.cursor, upto) = ChangesOf(log, i, o.cursor, upto)
      BY DEF Changes, ChangesOf
    <3>2. LatestOf(log, i, o.cursor, upto) = 0 <=> Changes(i, o.cursor, upto) = {}
      BY <2>1, <3>1, LatestIsLast
    <3>3. reduced[i] = IF LatestOf(log, i, o.cursor, upto) = 0 THEN o.reduced[i]
                       ELSE LatestOf(log, i, o.cursor, upto)
      BY <3>1, <3>2 DEF Reduce, LatestOf
    <3>4. o.reduced[i] = LatestOf(log, i, s, o.cursor)
      BY <1>1 DEF Collected
    <3> QED
      BY <2>1, <3>3, <3>4, LatestOfTwo
  <2>4. reduced \in [Items -> 0..MaxLog]
    <3>1. \A i \in Items : LatestOf(log, i, s, upto) \in 0..MaxLog
      <4>1. \A i \in Items : LatestOf(log, i, s, upto) \in 0..upto
        BY <2>1, LatestIsLast
      <4> QED
        BY <2>1, <4>1, BoundsAreNumbers
    <3>2. reduced = [i \in Items |-> reduced[i]]
      BY DEF Reduce
    <3> QED
      BY <2>3, <3>1, <3>2
  <2> DEFINE q == [o EXCEPT !.at = at, !.cursor = upto, !.visited = visited,
                            !.reduced = reduced, !.pages = pages, !.seen = seen,
                            !.retries = 0]
  <2>5. Goto(p, q)
    BY <1>6
  <2> HIDE DEF pages, seen, reduced, visited, o
  <2>6. q \in Process
    <3>1. 0 \in 0..MaxRetries
      BY BoundsAreNumbers
    <3>2. upto \in 0..MaxLog
      BY <2>1
    <3>3. o \in Process
      BY <1>1
    <3> QED
      BY <2>2, <2>4, <3>1, <3>2, <3>3 DEF Process
  <2>7. q.expected = o.expected /\ q.cursor = upto /\ q.reduced = reduced
    BY <1>1 DEF Process
  <2>8. Collected(log, q)
    BY <2>1, <2>3, <2>7 DEF Collected
  <2> HIDE DEF q
  <2> QED
    BY <1>1, <2>5, <2>6, <2>8, GotoInv
<1> QED
  BY <1>2, <1>3, <1>6

\* Waiting for the provider, or not.
LEMMA ThrottleInv ==
    ASSUME IInv, NEW p \in Syncs, Throttle(p)
    PROVE  IInv'
<1> DEFINE o == proc[p]
           retries == o.retries + 1
           q == [o EXCEPT !.retries = retries]
<1>1. o \in Process /\ Collected(log, o) /\ UNCHANGED <<log, cursor, items>>
  BY DEF IInv, Typed, Throttle
<1>2. CASE Goto(p, Idle)
  BY <1>1, <1>2, GiveUpInv
<1>3. CASE o.retries < MaxRetries /\ Goto(p, q)
  <2>1. retries \in 0..MaxRetries
    BY <1>1, <1>3, BoundsAreNumbers DEF Process
  <2> HIDE DEF retries
  <2>2. q \in Process
    BY <1>1, <2>1 DEF Process
  <2>3. q.at = o.at /\ q.expected = o.expected /\ q.cursor = o.cursor /\ q.reduced = o.reduced
    BY <1>1 DEF Process
  <2>4. Collected(log, q)
    BY <1>1, <2>3 DEF Collected
  <2> HIDE DEF q
  <2> QED
    BY <1>1, <1>3, <2>2, <2>4, GotoInv
<1> QED
  BY <1>2, <1>3 DEF Throttle

\* Items and cursor are published together: the mirror moves to the new cursor.
LEMMA CommitInv ==
    ASSUME IInv, NEW p \in Syncs, Commit(p)
    PROVE  IInv'
<1> DEFINE o == proc[p]
           s == Start(cursor)
<1>1. o \in Process /\ o.at = "commit" /\ Collected(log, o) /\ UNCHANGED log /\ Goto(p, Idle)
  BY DEF IInv, Typed, Commit, At
<1>2. CASE ~Accepts(p)
  BY <1>1, <1>2, GiveUpInv DEF Commit
<1>3. CASE Accepts(p)
  <2> DEFINE c == o.cursor
  <2>1. /\ o.expected = cursor /\ cursor' = c
        /\ items' = [i \in Items |-> IF o.reduced[i] = 0 THEN items[i]
                                     ELSE Applied(o.reduced[i])]
    BY <1>3 DEF Accepts, Commit
  <2>2. /\ c \in 0..MaxLog /\ s \in 0..MaxLog /\ s <= c /\ c <= Len(log)
        /\ \A i \in Items : o.reduced[i] = LatestOf(log, i, s, c)
    <3>1. s \in 0..MaxLog
      BY StartsAreNumbers DEF IInv, Typed
    <3> QED
      BY <1>1, <2>1, <3>1 DEF Process, Collected
  <2>3. c \in Nat /\ s \in Nat /\ MaxLog \in Nat /\ Start(c) = c
    BY <2>2, BoundsAreNumbers DEF Start
  <2> HIDE DEF s, c
  <2>4. ASSUME NEW i \in Items
        PROVE  items'[i] = IF LatestOf(log, i, 0, c) = 0 THEN NoItem
                           ELSE AppliedOf(log, LatestOf(log, i, 0, c))
    <3>1. items[i] = IF LatestOf(log, i, 0, s) = 0 THEN NoItem
                     ELSE AppliedOf(log, LatestOf(log, i, 0, s))
      BY DEF IInv, Mirror, s
    <3>2. LatestOf(log, i, 0, c) = IF LatestOf(log, i, s, c) = 0 THEN LatestOf(log, i, 0, s)
                                   ELSE LatestOf(log, i, s, c)
      BY <2>2, <2>3, LatestOfTwo
    <3>3. \A k : Applied(k) = AppliedOf(log, k)
      BY DEF Applied, AppliedOf
    <3>4. items'[i] = IF LatestOf(log, i, s, c) = 0 THEN items[i]
                      ELSE AppliedOf(log, LatestOf(log, i, s, c))
      BY <2>1, <2>2, <3>3
    <3> QED
      BY <3>1, <3>2, <3>4
  <2>5. items' \in [Items -> Item]
    <3>1. ASSUME NEW i \in Items PROVE items'[i] \in Item
      <4>1. LatestOf(log, i, 0, c) \in 0..MaxLog
        <5>1. LatestOf(log, i, 0, c) \in 0..c
          BY <2>3, LatestIsLast
        <5> QED
          BY <2>2, <2>3, <5>1
      <4>2. NoItem \in Item
        BY <2>3 DEF NoItem, Item
      <4>3. \A k \in 0..MaxLog : AppliedOf(log, k) \in Item
        BY <2>3 DEF AppliedOf, Item
      <4> QED
        BY <2>4, <4>1, <4>2, <4>3
    <3> QED
      BY <2>1, <3>1
  <2>6. proc' \in [Syncs -> Process] /\ \A r \in Syncs : Collected(log, proc'[r])
    <3>1. Collected(log, Idle)
      BY DEF Collected, Idle
    <3> QED
      BY <1>1, <3>1, IdleIsProcess DEF Goto, IInv, Typed
  <2>7. Typed'
    BY <1>1, <2>1, <2>2, <2>5, <2>6 DEF IInv, Typed
  <2>8. (\A r \in Syncs : Collected(log, proc[r]))'
    BY <1>1, <2>6
  <2>9. (Start(cursor) <= Len(log))'
    BY <1>1, <2>1, <2>2, <2>3
  <2>10. Mirror(log, items, Start(cursor))'
    BY <1>1, <2>1, <2>3, <2>4 DEF Mirror
  <2> QED
    BY <2>7, <2>8, <2>9, <2>10 DEF IInv
<1> QED
  BY <1>2, <1>3

\* A change of the drive comes after all that was read.
LEMMA ChangeInv ==
    ASSUME IInv, NEW i \in Items, NEW kind \in Kinds, Change(i, kind)
    PROVE  IInv'
<1> DEFINE e == [item |-> i, kind |-> kind]
           s == Start(cursor)
<1>1. e \in Entry /\ log' = Append(log, e) /\ UNCHANGED <<cursor, items, proc>>
  BY DEF Entry, Change
<1> HIDE DEF e
<1>2. log' \in Seq(Entry) /\ Len(log') = Len(log) + 1 /\ Len(log) \in Nat /\ Len(log') <= MaxLog
  <2>1. log \in Seq(Entry) /\ Len(log) < MaxLog
    BY DEF IInv, Typed, Change
  <2> QED
    BY <1>1, <2>1, AppendProperties, BoundsAreNumbers
<1>3. \A j, from, upto : from \in Nat /\ upto \in 0..Len(log) =>
        /\ LatestOf(log', j, from, upto) = LatestOf(log, j, from, upto)
        /\ LatestOf(log, j, from, upto) # 0 =>
              AppliedOf(log', LatestOf(log, j, from, upto)) =
              AppliedOf(log, LatestOf(log, j, from, upto))
  BY <1>1, LaterChanges DEF IInv, Typed
<1>4. Typed'
  BY <1>1, <1>2 DEF IInv, Typed
<1>5. ASSUME NEW p \in Syncs PROVE Collected(log', proc[p])
  <2> DEFINE o == proc[p]
             f == Start(o.expected)
  <2>1. o \in Process /\ Collected(log, o)
    BY DEF IInv, Typed
  <2>2. f \in Nat /\ o.cursor \in Nat
    <3>1. o.expected \in (0..MaxLog) \union {None} /\ o.cursor \in 0..MaxLog
      BY <2>1 DEF Process
    <3>2. f \in Nat
      BY <3>1, StartsAreNumbers
    <3>3. o.cursor \in Nat
      BY <3>1, BoundsAreNumbers
    <3> QED
      BY <3>2, <3>3
  <2>3. CASE o.at = "idle"
    BY <2>3 DEF Collected
  <2>4. CASE o.at # "idle"
    <3>1. /\ f <= o.cursor /\ o.cursor <= Len(log)
          /\ \A j \in Items : o.reduced[j] = LatestOf(log, j, f, o.cursor)
      BY <2>1, <2>4 DEF Collected
    <3>2. o.cursor \in 0..Len(log) /\ o.cursor <= Len(log')
      BY <1>2, <2>2, <3>1
    <3>3. \A j \in Items : o.reduced[j] = LatestOf(log', j, f, o.cursor)
      BY <1>3, <2>2, <3>1, <3>2
    <3> QED
      BY <3>1, <3>2, <3>3 DEF Collected
  <2> QED
    BY <2>3, <2>4
<1>6. s \in 0..Len(log) /\ s <= Len(log')
  <2>1. s \in Nat /\ s <= Len(log)
    BY StartsAreNumbers DEF IInv, Typed
  <2> QED
    BY <1>2, <2>1
<1>7. Mirror(log', items, s)
  <2>1. Mirror(log, items, s)
    BY DEF IInv
  <2> HIDE DEF s
  <2> QED
    BY <1>3, <1>6, <2>1 DEF Mirror
<1>8. (\A p \in Syncs : Collected(log, proc[p]))'
  BY <1>1, <1>5
<1>9. (Start(cursor) <= Len(log))' /\ Mirror(log, items, Start(cursor))'
  BY <1>1, <1>6, <1>7
<1> QED
  BY <1>4, <1>8, <1>9 DEF IInv

-----------------------------------------------------------------------------
\* Every step keeps the invariant.
LEMMA StepInv == IInv /\ [Next]_vars => IInv'
<1> SUFFICES ASSUME IInv, [Next]_vars PROVE IInv'
  OBVIOUS
<1>1. ASSUME NEW p \in Syncs, Load(p) PROVE IInv'
  BY <1>1, LoadInv
<1>2. ASSUME NEW p \in Syncs, Cycle(p) PROVE IInv'
  BY <1>2, GiveUpInv DEF Cycle
<1>3. ASSUME NEW p \in Syncs, Page(p) PROVE IInv'
  BY <1>3, PageInv
<1>4. ASSUME NEW p \in Syncs, Throttle(p) PROVE IInv'
  BY <1>4, ThrottleInv
<1>5. ASSUME NEW p \in Syncs, EndCycle(p) PROVE IInv'
  BY <1>5, GiveUpInv DEF EndCycle
<1>6. ASSUME NEW p \in Syncs, Commit(p) PROVE IInv'
  BY <1>6, CommitInv
<1>7. ASSUME NEW p \in Syncs, CommitFails(p) PROVE IInv'
  BY <1>7, GiveUpInv DEF CommitFails
<1>8. ASSUME NEW i \in Items, NEW kind \in Kinds, Change(i, kind) PROVE IInv'
  BY <1>8, ChangeInv
<1>9. CASE UNCHANGED vars
  <2>1. UNCHANGED <<log, cursor, items, proc>>
    BY <1>9 DEF vars
  <2>2. Typed' /\ (\A p \in Syncs : Collected(log, proc[p]))'
    BY <2>1 DEF IInv, Typed
  <2>3. (Start(cursor) <= Len(log))' /\ Mirror(log, items, Start(cursor))'
    BY <2>1 DEF IInv
  <2> QED
    BY <2>2, <2>3 DEF IInv
<1> QED
  BY <1>1, <1>2, <1>3, <1>4, <1>5, <1>6, <1>7, <1>8, <1>9 DEF Next

\* The inductive invariant holds: every cycle under way has collected exactly
\* the last changes after the cursor it loaded, and the mirror is true.
THEOREM Inductive == Spec => []IInv
<1>1. IInv /\ [Next]_vars => IInv'
  BY StepInv
<1> QED
  BY <1>1, InitInv, PTL DEF Spec

\* The types are kept and no cycle exceeds its limits on pages, changes and
\* repetitions.
THEOREM TypeCorrect == Spec => []TypeOK
<1>1. IInv => TypeOK
  BY InvariantMirrors
<1> QED
  BY <1>1, Inductive, PTL

\* The published items are those of the drive at the published cursor, for any
\* number of overlapping, failing and repeated synchronisations.
THEOREM MirrorIsTrue == Spec => []MirrorsDrive
<1>1. IInv => MirrorsDrive
  BY InvariantMirrors
<1> QED
  BY <1>1, Inductive, PTL
=============================================================================
