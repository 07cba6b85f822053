-------------------------- MODULE DerivationsProofs --------------------------
(***************************************************************************)
(* Proofs about Derivations, for any versions, bindings, artifacts, slots  *)
(* and dependencies among them: cycles included, which publication refuses.*)
(*                                                                         *)
(* The argument has two parts.  What the two operators of a reconciliation *)
(* compute: the set to be staled is closed under what is made from it, and *)
(* the set that revives has its inputs and leaves nothing behind.  And what*)
(* a publication relies on between reconciliations: current artifacts need *)
(* evidence of the head, or of the one version the head still has to be    *)
(* reconciled with.                                                        *)
(***************************************************************************)
EXTENDS Derivations, FiniteSetTheorems, WellFoundedInduction, NaturalsInduction, TLAPS

\* The bindings that blocks of a version bear.
Evidence(v) == IF v \in members THEN Binds[v] ELSE {}

\* Both versions of a run have been given their lineage.
RunsInv == \A run \in runs : run[1] \in members /\ run[2] \in members

\* What current artifacts are made from is in the head, or in the version that
\* the head has yet to be reconciled with.
OwedInv ==
    /\ owed = None => \A a \in Current : Needs[a] \subseteq Evidence(head)
    /\ owed \in Versions =>
          \A a \in Current : Needs[a] \subseteq Evidence(owed) \union Evidence(head)

IInv == TypeOK /\ SlotsAgree /\ InputsNeverStale /\ NothingLeftStale /\ RunsInv /\ OwedInv
-----------------------------------------------------------------------------
(* Numbers.                                                                *)

LEMMA LeastExists ==
    ASSUME NEW S, S \subseteq Nat, S # {}
    PROVE  \E m \in S : \A k \in S : m <= k
<1> DEFINE R == {ss \in Nat \X Nat : ss[1] < ss[2]}
<1>1. IsWellFoundedOn(R, Nat)
  BY NatLessThanWellFounded DEF OpToRel
<1>2. \E m \in S : \A k \in S : <<k, m>> \notin R
  <2> HIDE DEF R
  <2> QED BY <1>1, WFMin
<1>3. PICK m \in S : \A k \in S : <<k, m>> \notin R
  BY <1>2
<1>4. \A k \in S : ~(k < m)
  BY <1>3
<1> QED
  BY <1>4

\* Induction up to n, for a set of numbers in place of a predicate.
LEMMA Climb ==
    ASSUME NEW n \in Nat, NEW P, 0 \in P, \A k \in 0..n : k # 0 /\ k - 1 \in P => k \in P
    PROVE  \A k \in 0..n : k \in P
<1> DEFINE S == {k \in 0..n : k \notin P}
<1> SUFFICES ASSUME S # {} PROVE FALSE
  OBVIOUS
<1>1. S \subseteq Nat
  OBVIOUS
<1>2. PICK m \in S : \A k \in S : m <= k
  <2> HIDE DEF S
  <2> QED BY <1>1, LeastExists
<1>3. m # 0 /\ m \in 0..n /\ m \notin P
  BY <1>2
<1>4. m - 1 \in 0..n /\ ~(m <= m - 1)
  BY <1>3
<1>5. m - 1 \in P
  BY <1>2, <1>4
<1> QED
  BY <1>3, <1>5
-----------------------------------------------------------------------------
(* What is staled.                                                         *)

\* Every current artifact that is made from what is gone, or from what is
\* staled, is staled.
LEMMA AffectedIsClosed ==
    ASSUME NEW gone, NEW a \in Current,
           Needs[a] \intersect gone # {} \/ Uses[a] \intersect Affected(gone) # {}
    PROVE  a \in Affected(gone)
<1> SUFFICES ASSUME NEW found \in SUBSET Current,
                    \A b \in Current :
                       Needs[b] \intersect gone # {} \/ Uses[b] \intersect found # {}
                           => b \in found
             PROVE  a \in found
  BY DEF Affected
<1>1. Affected(gone) \subseteq found
  BY DEF Affected
<1> QED
  BY <1>1

LEMMA AffectedIsCurrent == \A gone : Affected(gone) \subseteq Current
BY DEF Affected
-----------------------------------------------------------------------------
(* What revives.                                                           *)

\* One pass over the stale artifacts.
Pass(stale, live, evidence) == live \union First(Eligible(stale, live, evidence))

\* The function f has what is live after every pass up to the n-th.
Passes(f, stale, current, evidence, n) ==
    \A k \in 0..n : f[k] = IF k = 0 THEN current ELSE Pass(stale, f[k-1], evidence)

LEMMA FirstExists ==
    ASSUME NEW found, found \subseteq Artifacts, found # {}
    PROVE  First(found) # {}
<1>1. PICK m \in found : \A k \in found : m <= k
  BY LeastExists, DerivationAssumption
<1> QED
  BY <1>1 DEF First

LEMMA PassesExist ==
    ASSUME NEW stale \in SUBSET Artifacts, NEW current \in SUBSET Artifacts, NEW evidence,
           NEW n \in Nat
    PROVE  \E f \in [0..n -> SUBSET Artifacts] : Passes(f, stale, current, evidence, n)
<1> DEFINE P == {k \in 0..n : \E f \in [0..k -> SUBSET Artifacts] :
                                Passes(f, stale, current, evidence, k)}
<1>1. 0 \in P
  <2>1. PICK f \in [0..0 -> SUBSET Artifacts] : f = [i \in 0..0 |-> current]
    OBVIOUS
  <2>2. Passes(f, stale, current, evidence, 0)
    BY <2>1 DEF Passes
  <2> QED
    BY <2>2
<1>2. ASSUME NEW k \in 0..n, k # 0, k - 1 \in P PROVE k \in P
  <2>1. PICK f \in [0..(k-1) -> SUBSET Artifacts] : Passes(f, stale, current, evidence, k - 1)
    BY <1>2
  <2> DEFINE last == Pass(stale, f[k-1], evidence)
             g == [i \in 0..k |-> IF i = k THEN last ELSE f[i]]
  <2>2. last \in SUBSET Artifacts
    BY <1>2 DEF Pass, First, Eligible
  <2>3. g \in [0..k -> SUBSET Artifacts]
    <3> HIDE DEF last
    <3> QED BY <1>2, <2>2
  <2>4. Passes(g, stale, current, evidence, k)
    <3> SUFFICES ASSUME NEW i \in 0..k
                 PROVE  g[i] = IF i = 0 THEN current ELSE Pass(stale, g[i-1], evidence)
      BY DEF Passes
    <3>1. CASE i = k
      <4>1. g[i] = last /\ g[i-1] = f[k-1]
        BY <1>2, <3>1
      <4> QED
        BY <1>2, <3>1, <4>1
    <3>2. CASE i # k
      <4>1. i \in 0..(k-1) /\ g[i] = f[i] /\ (i # 0 => g[i-1] = f[i-1])
        BY <1>2, <3>2
      <4> QED
        BY <2>1, <4>1 DEF Passes
    <3> QED
      BY <3>1, <3>2
  <2> QED
    BY <1>2, <2>3, <2>4
<1> HIDE DEF P
<1>3. n \in P
  BY <1>1, <1>2, Climb
<1> QED
  BY <1>3 DEF P

\* What is live after a pass was live or stale, has its inputs, and has grown by
\* one artifact at least unless nothing was left to revive.
Sound(stale, current, evidence, live) ==
    /\ current \subseteq live /\ live \subseteq current \union stale
    /\ \A a \in live \ current : Needs[a] \subseteq evidence /\ Uses[a] \subseteq live
Grown(stale, evidence, live, k) ==
    Eligible(stale, live, evidence) = {} \/ Cardinality(live) >= k

LEMMA PassIsSound ==
    ASSUME NEW stale \in SUBSET Artifacts, NEW current \in SUBSET Artifacts, NEW evidence,
           NEW live \in SUBSET Artifacts, NEW k \in Nat,
           Sound(stale, current, evidence, live), Grown(stale, evidence, live, k)
    PROVE  /\ Sound(stale, current, evidence, Pass(stale, live, evidence))
           /\ Grown(stale, evidence, Pass(stale, live, evidence), k + 1)
<1> DEFINE found == Eligible(stale, live, evidence)
           next == Pass(stale, live, evidence)
<1>1. /\ found \subseteq stale /\ found \intersect live = {}
      /\ \A a \in found : Needs[a] \subseteq evidence /\ Uses[a] \subseteq live
  BY DEF Eligible
<1>2. First(found) \subseteq found /\ next = live \union First(found)
  BY DEF First, Pass
<1> HIDE DEF found, next
<1>3. Sound(stale, current, evidence, next)
  BY <1>1, <1>2 DEF Sound
<1>4. CASE found = {}
  <2>1. next = live
    BY <1>2, <1>4
  <2> QED
    BY <1>3, <1>4, <2>1 DEF Grown, found, next
<1>5. CASE found # {}
  <2>1. PICK a \in First(found) : TRUE
    BY <1>1, <1>5, FirstExists
  <2>2. a \notin live /\ live \union {a} \subseteq next /\ next \subseteq Artifacts
    BY <1>1, <1>2, <2>1
  <2>3. IsFiniteSet(live) /\ IsFiniteSet(next)
    BY <2>2, FS_Subset, DerivationAssumption
  <2>4. Cardinality(live \union {a}) = Cardinality(live) + 1
    BY <2>2, <2>3, FS_AddElement
  <2>5. Cardinality(live \union {a}) <= Cardinality(next)
    BY <2>2, <2>3, FS_Subset
  <2>6. Cardinality(live) \in Nat /\ Cardinality(next) \in Nat
    BY <2>3, FS_CardinalityType
  <2>7. Cardinality(live) >= k
    BY <1>5 DEF Grown, found
  <2>8. Cardinality(next) >= k + 1
    BY <2>4, <2>5, <2>6, <2>7
  <2> QED
    BY <1>3, <2>8 DEF Grown, next
<1> QED
  BY <1>4, <1>5

\* What is live after the last pass: nothing that could revive is left behind.
LEMMA RevivedFacts ==
    ASSUME NEW stale \in SUBSET Artifacts, NEW current \in SUBSET Artifacts, NEW evidence
    PROVE  \E live \in SUBSET Artifacts :
              /\ Revived(stale, current, evidence) = live \ current
              /\ Sound(stale, current, evidence, live)
              /\ Eligible(stale, live, evidence) = {}
<1> DEFINE n == Cardinality(Artifacts)
           Rec(f) == f = [k \in 0..n |-> IF k = 0 THEN current
                             ELSE f[k-1] \union First(Eligible(stale, f[k-1], evidence))]
           pass == CHOOSE f : Rec(f)
<1>1. n \in Nat /\ IsFiniteSet(Artifacts)
  BY FS_CardinalityType, DerivationAssumption
<1>2. Revived(stale, current, evidence) = pass[n] \ current
  BY DEF Revived
<1> HIDE DEF n, Rec, pass
<1>3. PICK f \in [0..n -> SUBSET Artifacts] : Passes(f, stale, current, evidence, n)
  BY <1>1, PassesExist
<1>4. Rec(f)
  BY <1>3 DEF Rec, Passes, Pass
<1>5. Rec(pass)
  BY <1>4 DEF pass
<1>6. \A k \in 0..n : pass[k] = IF k = 0 THEN current ELSE Pass(stale, pass[k-1], evidence)
  BY <1>5 DEF Rec, Pass
<1> DEFINE P == {k \in 0..n : /\ pass[k] \in SUBSET Artifacts
                             /\ Sound(stale, current, evidence, pass[k])
                             /\ Grown(stale, evidence, pass[k], k)}
<1>7. 0 \in P
  <2>1. pass[0] = current
    BY <1>1, <1>6
  <2>2. Sound(stale, current, evidence, current)
    BY DEF Sound
  <2>3. Grown(stale, evidence, current, 0)
    <3>1. IsFiniteSet(current)
      BY <1>1, FS_Subset
    <3>2. Cardinality(current) \in Nat
      BY <3>1, FS_CardinalityType
    <3> QED
      BY <3>2 DEF Grown
  <2> QED
    BY <1>1, <2>1, <2>2, <2>3
<1>8. ASSUME NEW k \in 0..n, k # 0, k - 1 \in P PROVE k \in P
  <2>1. PICK live \in SUBSET Artifacts : live = pass[k-1]
    BY <1>8
  <2>2. Sound(stale, current, evidence, live) /\ Grown(stale, evidence, live, k - 1)
    BY <1>8, <2>1
  <2>3. k - 1 \in Nat /\ (k - 1) + 1 = k
    BY <1>8
  <2>4. /\ Sound(stale, current, evidence, Pass(stale, live, evidence))
        /\ Grown(stale, evidence, Pass(stale, live, evidence), k)
    BY <2>2, <2>3, PassIsSound
  <2>5. pass[k] = Pass(stale, live, evidence)
    BY <1>6, <1>8, <2>1
  <2>6. Pass(stale, live, evidence) \in SUBSET Artifacts
    BY DEF Pass, First, Eligible
  <2> QED
    BY <2>4, <2>5, <2>6
<1>9. n \in P
  <2> HIDE DEF P
  <2> QED BY <1>1, <1>7, <1>8, Climb
<1>10. PICK live \in SUBSET Artifacts : live = pass[n]
  BY <1>9
<1>11. Sound(stale, current, evidence, live) /\ Grown(stale, evidence, live, n)
  BY <1>9, <1>10
<1>12. Eligible(stale, live, evidence) = {}
  <2>1. CASE Cardinality(live) >= n
    <3>1. Cardinality(live) <= n /\ (Cardinality(live) = n => live = Artifacts)
      BY <1>1, FS_Subset DEF n
    <3>2. IsFiniteSet(live)
      BY <1>1, FS_Subset
    <3>3. Cardinality(live) \in Nat
      BY <3>2, FS_CardinalityType
    <3>4. live = Artifacts
      BY <1>1, <2>1, <3>1, <3>3
    <3> QED
      BY <3>4 DEF Eligible
  <2> QED
    BY <1>11, <2>1 DEF Grown
<1> QED
  BY <1>2, <1>10, <1>11, <1>12
-----------------------------------------------------------------------------
(* A reconciliation.                                                       *)

\* What the state of the artifacts is after a reconciliation, in the terms of
\* the two operators' lemmas.
LEMMA LifecycleFacts ==
    ASSUME TypeOK, NEW previous \in Versions, NEW current \in Versions,
           Lifecycle(previous, current)
    PROVE  \E staled, live \in SUBSET Artifacts :
              /\ staled = Affected(Gone(previous, current))
              /\ Current \ staled \subseteq live /\ live \subseteq Current \union Stale
              /\ \A a \in live \ (Current \ staled) :
                    Needs[a] \subseteq Binds[current] /\ Uses[a] \subseteq live
              /\ Eligible(Stale \union staled, live, Binds[current]) = {}
              /\ state' = [a \in Artifacts |-> IF a \in live THEN "CURRENT"
                                               ELSE IF a \in staled THEN "STALE" ELSE state[a]]
              /\ occupant' = [s \in Slots |->
                    IF \E a \in live : Slot[a] = s
                    THEN CHOOSE a \in live : Slot[a] = s ELSE None]
<1>1. PICK staled : staled = Affected(Gone(previous, current))
  OBVIOUS
<1>2. staled \subseteq Current
  BY <1>1, AffectedIsCurrent
<1>3. /\ staled \in SUBSET Artifacts /\ Current \ staled \in SUBSET Artifacts
      /\ Stale \union staled \in SUBSET Artifacts
  BY <1>2 DEF Current, Stale
<1>4. PICK live \in SUBSET Artifacts :
         /\ Revived(Stale \union staled, Current \ staled, Binds[current])
               = live \ (Current \ staled)
         /\ Sound(Stale \union staled, Current \ staled, Binds[current], live)
         /\ Eligible(Stale \union staled, live, Binds[current]) = {}
  BY <1>3, RevivedFacts
<1>5. (Current \ staled) \union (live \ (Current \ staled)) = live
  BY <1>4 DEF Sound
<1>6. /\ state' = [a \in Artifacts |-> IF a \in live THEN "CURRENT"
                                       ELSE IF a \in staled THEN "STALE" ELSE state[a]]
      /\ occupant' = [s \in Slots |->
            IF \E a \in live : Slot[a] = s THEN CHOOSE a \in live : Slot[a] = s ELSE None]
  BY <1>1, <1>4, <1>5 DEF Lifecycle
<1>7. live \subseteq Current \union Stale
  BY <1>2, <1>4 DEF Sound
<1>8. /\ Current \ staled \subseteq live
      /\ \A a \in live \ (Current \ staled) :
            Needs[a] \subseteq Binds[current] /\ Uses[a] \subseteq live
  BY <1>4 DEF Sound
<1> QED
  BY <1>1, <1>3, <1>4, <1>6, <1>7, <1>8

\* A reconciliation of the head with a version both of which have their lineage
\* keeps the invariant, for the first time or again.
LEMMA LifecycleKeeps ==
    ASSUME IInv, NEW previous \in Versions, NEW current \in Versions, head = current,
           UNCHANGED <<head, ready>>, Lifecycle(previous, current),
           members' = members \union {previous, current}, members' \subseteq ready,
           runs' \subseteq runs \union {<<previous, current>>}
    PROVE  IInv'
<1>1. TypeOK /\ SlotsAgree /\ InputsNeverStale /\ RunsInv /\ OwedInv
  BY DEF IInv
<1>2. PICK staled, live \in SUBSET Artifacts :
         /\ staled = Affected(Gone(previous, current))
         /\ Current \ staled \subseteq live /\ live \subseteq Current \union Stale
         /\ \A a \in live \ (Current \ staled) :
               Needs[a] \subseteq Binds[current] /\ Uses[a] \subseteq live
         /\ Eligible(Stale \union staled, live, Binds[current]) = {}
         /\ state' = [a \in Artifacts |-> IF a \in live THEN "CURRENT"
                                          ELSE IF a \in staled THEN "STALE" ELSE state[a]]
         /\ occupant' = [s \in Slots |->
               IF \E a \in live : Slot[a] = s
               THEN CHOOSE a \in live : Slot[a] = s ELSE None]
  BY <1>1, LifecycleFacts
<1>3. staled \subseteq Current
  BY <1>2, AffectedIsCurrent
<1>4. /\ state' \in [Artifacts -> States]
      /\ \A a \in Artifacts :
            state'[a] = IF a \in live THEN "CURRENT"
                        ELSE IF a \in staled THEN "STALE" ELSE state[a]
  BY <1>1, <1>2 DEF TypeOK, States
<1>5. Current' = live /\ Stale' = (Stale \union staled) \ live
  BY <1>2, <1>3, <1>4 DEF Current, Stale
<1>6. /\ owed' = IF owed = previous THEN None ELSE owed
      /\ settled' = TRUE
  BY DEF Lifecycle
<1>7. \A a \in Artifacts : Slot[a] \in Slots /\ a # None
  BY DerivationAssumption
<1>8. \A a, b \in Current \union Stale : Slot[a] = Slot[b] => a = b
  BY <1>1 DEF SlotsAgree
<1>9. \A s \in Slots : /\ \A a \in live : Slot[a] = s => occupant'[s] = a
                       /\ (\A a \in live : Slot[a] # s) => occupant'[s] = None
  <2> TAKE s \in Slots
  <2>1. ASSUME NEW a \in live, Slot[a] = s PROVE occupant'[s] = a
    <3>1. occupant'[s] = CHOOSE b \in live : Slot[b] = s
      BY <1>2, <2>1
    <3>2. \A b \in live : Slot[b] = s <=> b = a
      BY <1>2, <1>8, <2>1
    <3>3. occupant'[s] \in live /\ Slot[occupant'[s]] = s
      BY <2>1, <3>1
    <3> QED
      BY <3>2, <3>3
  <2>2. (\A a \in live : Slot[a] # s) => occupant'[s] = None
    BY <1>2
  <2> QED
    BY <2>1, <2>2
<1>10. TypeOK'
  <2>1. occupant' \in [Slots -> Artifacts \union {None}]
    <3>1. ASSUME NEW s \in Slots PROVE occupant'[s] \in Artifacts \union {None}
      <4>1. CASE \E a \in live : Slot[a] = s
        BY <1>9, <4>1
      <4>2. CASE \A a \in live : Slot[a] # s
        BY <1>9, <4>2
      <4> QED
        BY <4>1, <4>2
    <3>2. occupant' = [s \in Slots |-> occupant'[s]]
      BY <1>2
    <3> QED
      BY <3>1, <3>2
  <2>2. runs' \subseteq Versions \X Versions
    BY <1>1 DEF TypeOK
  <2> QED
    BY <1>1, <1>4, <1>6, <2>1, <2>2 DEF TypeOK
<1>11. SlotsAgree'
  <2>1. Current' \union Stale' \subseteq Current \union Stale
    BY <1>2, <1>3, <1>5
  <2>2. \A s \in Slots : \A a \in Artifacts :
           occupant'[s] = a <=> (Slot[a] = s /\ a \in live)
    <3> TAKE s \in Slots
    <3> TAKE a \in Artifacts
    <3>1. CASE \E b \in live : Slot[b] = s
      BY <1>9, <3>1
    <3>2. CASE \A b \in live : Slot[b] # s
      BY <1>7, <1>9, <3>2
    <3> QED
      BY <3>1, <3>2
  <2> QED
    BY <1>5, <1>8, <2>1, <2>2 DEF SlotsAgree
<1>12. InputsNeverStale'
  <2> SUFFICES ASSUME NEW a \in live, NEW u \in Uses[a]
               PROVE  state'[u] \in {"CURRENT", "SUPERSEDED"}
    BY <1>5 DEF InputsNeverStale
  <2>1. a \in Artifacts /\ u \in Artifacts
    BY DerivationAssumption
  <2>2. CASE a \in Current \ staled
    <3>1. state[u] \in {"CURRENT", "SUPERSEDED"}
      BY <1>1, <2>2 DEF InputsNeverStale
    <3>2. u \notin staled
      BY <1>2, <2>2, AffectedIsClosed
    <3>3. state[u] = "CURRENT" => u \in live
      BY <1>2, <2>1, <3>2 DEF Current
    <3> QED
      BY <1>4, <2>1, <3>1, <3>2, <3>3
  <2>3. CASE a \notin Current \ staled
    BY <1>2, <1>4, <2>1, <2>3
  <2> QED
    BY <2>2, <2>3
<1>13. current \in members' /\ Active' = Binds[current] /\ Evidence(head)' = Binds[current]
  BY DEF Active, Evidence
<1>14. NothingLeftStale'
  BY <1>2, <1>5, <1>13 DEF NothingLeftStale, Eligible
<1>15. RunsInv'
  BY <1>1 DEF RunsInv
<1>16. \A a \in Current \ staled : Needs[a] \intersect Gone(previous, current) = {}
  BY <1>2, AffectedIsClosed
<1>17. Evidence(previous) \subseteq Binds[previous] /\ Evidence(head) \subseteq Binds[current]
  BY DEF Evidence
<1>18. \A v \in Versions : Evidence(v) \subseteq Evidence(v)'
  BY DEF Evidence
<1>19. owed \in {None, previous} => \A a \in live : Needs[a] \subseteq Binds[current]
  <2> SUFFICES ASSUME owed \in {None, previous}, NEW a \in live
               PROVE  Needs[a] \subseteq Binds[current]
    OBVIOUS
  <2>1. CASE a \in Current \ staled
    <3>1. Needs[a] \subseteq Evidence(previous) \union Evidence(head)
      BY <1>1, <2>1 DEF OwedInv
    <3> QED
      BY <1>16, <1>17, <2>1, <3>1 DEF Gone
  <2>2. CASE a \notin Current \ staled
    BY <1>2, <2>2
  <2> QED
    BY <2>1, <2>2
<1>20. owed \in Versions \ {previous} =>
          \A a \in live : Needs[a] \subseteq Evidence(owed)' \union Binds[current]
  <2> SUFFICES ASSUME owed \in Versions \ {previous}, NEW a \in live
               PROVE  Needs[a] \subseteq Evidence(owed)' \union Binds[current]
    OBVIOUS
  <2>1. owed' = owed
    BY <1>6
  <2>2. Evidence(owed) \subseteq Evidence(owed)'
    BY <2>1 DEF Evidence
  <2>3. CASE a \in Current \ staled
    <3>1. Needs[a] \subseteq Evidence(owed) \union Evidence(head)
      BY <1>1, <2>3 DEF OwedInv
    <3> QED
      BY <1>17, <2>2, <3>1
  <2>4. CASE a \notin Current \ staled
    BY <1>2, <2>4
  <2> QED
    BY <2>3, <2>4
<1>21. OwedInv'
  <2>1. None \notin Versions
    BY DerivationAssumption
  <2>2. CASE owed = previous
    BY <1>5, <1>6, <1>13, <1>19, <2>1, <2>2 DEF OwedInv
  <2>3. CASE owed # previous
    BY <1>5, <1>6, <1>13, <1>19, <1>20, <2>1, <2>3 DEF OwedInv
  <2> QED
    BY <2>2, <2>3
<1> QED
  BY <1>10, <1>11, <1>12, <1>14, <1>15, <1>21 DEF IInv

LEMMA ReconcileKeeps ==
    ASSUME IInv, NEW v \in Versions, NEW w \in Versions, Reconcile(v, w)
    PROVE  IInv'
<1>1. /\ head = w /\ Lifecycle(v, w) /\ UNCHANGED <<head, ready>>
      /\ runs' = runs \union {<<v, w>>} /\ members' = members \union {v, w}
      /\ v \in ready /\ w \in ready
  BY DEF Reconcile, Comparable
<1>2. members' \subseteq ready
  BY <1>1 DEF IInv, TypeOK
<1> QED
  BY <1>1, <1>2, LifecycleKeeps

LEMMA ReconcileAgainKeeps ==
    ASSUME IInv, NEW v \in Versions, NEW w \in Versions, ReconcileAgain(v, w)
    PROVE  IInv'
<1>1. /\ head = w /\ Lifecycle(v, w) /\ UNCHANGED <<head, ready, members, runs>>
      /\ <<v, w>> \in runs
  BY DEF ReconcileAgain
<1>2. v \in members /\ w \in members
  BY <1>1 DEF IInv, RunsInv
<1>3. members' = members \union {v, w} /\ members' \subseteq ready
  BY <1>1, <1>2 DEF IInv, TypeOK
<1> QED
  BY <1>1, <1>3, LifecycleKeeps
-----------------------------------------------------------------------------
(* The other operations.                                                   *)

LEMMA PublishKeeps ==
    ASSUME IInv, NEW a \in Artifacts, Publish(a)
    PROVE  IInv'
<1>1. TypeOK /\ SlotsAgree /\ InputsNeverStale /\ RunsInv /\ OwedInv
  BY DEF IInv
<1>2. /\ state[a] = "ABSENT" /\ Needs[a] \subseteq Active /\ Uses[a] \subseteq Current
      /\ a \notin Uses[a] /\ UNCHANGED <<head, ready, members, runs, owed>> /\ settled' = FALSE
      /\ occupant' = [occupant EXCEPT ![Slot[a]] = a]
  BY DEF Publish, Available
<1>3. /\ state' \in [Artifacts -> States]
      /\ \A b \in Artifacts :
            state'[b] = IF b = a THEN "CURRENT"
                        ELSE IF b \in Predecessors(a) THEN "SUPERSEDED" ELSE state[b]
  BY <1>1 DEF Publish, TypeOK, States
<1>4. \A b \in Artifacts :
         b \in Predecessors(a) <=> state[b] \in {"CURRENT", "STALE"} /\ Slot[b] = Slot[a]
  BY DEF Predecessors, Current, Stale
<1>5. /\ Current' = {a} \union {b \in Current : Slot[b] # Slot[a]}
      /\ Stale' = {b \in Stale : Slot[b] # Slot[a]}
  BY <1>2, <1>3, <1>4 DEF Current, Stale
<1>6. Slot[a] \in Slots /\ Uses[a] \subseteq Artifacts
  BY DerivationAssumption
<1>7. TypeOK'
  BY <1>1, <1>2, <1>3, <1>6 DEF TypeOK
<1>8. SlotsAgree'
  <2>1. \A b, d \in Current' \union Stale' : Slot[b] = Slot[d] => b = d
    BY <1>1, <1>5 DEF SlotsAgree
  <2>2. ASSUME NEW s \in Slots, NEW b \in Artifacts
        PROVE  occupant'[s] = b <=> (Slot[b] = s /\ b \in Current')
    <3>1. occupant'[s] = IF s = Slot[a] THEN a ELSE occupant[s]
      BY <1>1, <1>2 DEF TypeOK
    <3>2. occupant[s] = b <=> (Slot[b] = s /\ b \in Current)
      BY <1>1 DEF SlotsAgree
    <3> QED
      BY <1>5, <3>1, <3>2
  <2> QED
    BY <2>1, <2>2 DEF SlotsAgree
<1>9. InputsNeverStale'
  <2> SUFFICES ASSUME NEW b \in Current', NEW u \in Uses[b]
               PROVE  state'[u] \in {"CURRENT", "SUPERSEDED"}
    BY DEF InputsNeverStale
  <2>1. b \in Artifacts /\ u \in Artifacts
    BY DerivationAssumption DEF Current
  <2>2. state[u] \in {"CURRENT", "SUPERSEDED"}
    BY <1>1, <1>2, <1>5 DEF InputsNeverStale, Current
  <2> QED
    BY <1>3, <2>1, <2>2
<1>10. NothingLeftStale' /\ RunsInv'
  BY <1>1, <1>2 DEF NothingLeftStale, RunsInv
<1>11. OwedInv'
  <2>1. Needs[a] \subseteq Evidence(head)
    BY <1>2 DEF Active, Evidence
  <2> QED
    BY <1>1, <1>2, <1>5, <2>1 DEF OwedInv, Evidence
<1> QED
  BY <1>7, <1>8, <1>9, <1>10, <1>11 DEF IInv

LEMMA PublishFailureKeeps ==
    ASSUME IInv, NEW a \in Artifacts, PublishFailure(a)
    PROVE  IInv'
<1>1. TypeOK /\ SlotsAgree /\ InputsNeverStale /\ RunsInv /\ OwedInv
  BY DEF IInv
<1>2. /\ state[a] = "ABSENT" /\ state' = [state EXCEPT ![a] = "FAILED"] /\ settled' = FALSE
      /\ UNCHANGED <<head, ready, members, runs, occupant, owed>>
  BY DEF PublishFailure
<1>3. /\ state' \in [Artifacts -> States]
      /\ \A b \in Artifacts : state'[b] = IF b = a THEN "FAILED" ELSE state[b]
  BY <1>1, <1>2 DEF TypeOK, States
<1>4. Current' = Current /\ Stale' = Stale
  BY <1>2, <1>3 DEF Current, Stale
<1>5. TypeOK'
  BY <1>1, <1>2, <1>3 DEF TypeOK
<1>6. SlotsAgree'
  BY <1>1, <1>2, <1>4 DEF SlotsAgree
<1>7. InputsNeverStale'
  <2> SUFFICES ASSUME NEW b \in Current, NEW u \in Uses[b]
               PROVE  state'[u] \in {"CURRENT", "SUPERSEDED"}
    BY <1>4 DEF InputsNeverStale
  <2>1. u \in Artifacts /\ state[u] \in {"CURRENT", "SUPERSEDED"}
    BY <1>1, DerivationAssumption DEF InputsNeverStale, Current
  <2> QED
    BY <1>2, <1>3, <2>1
<1>8. NothingLeftStale' /\ RunsInv'
  BY <1>1, <1>2 DEF NothingLeftStale, RunsInv
<1>9. OwedInv'
  BY <1>1, <1>2, <1>4 DEF OwedInv, Evidence
<1> QED
  BY <1>5, <1>6, <1>7, <1>8, <1>9 DEF IInv

LEMMA MoveHeadKeeps ==
    ASSUME IInv, NEW v \in Versions, MoveHead(v)
    PROVE  IInv'
<1>1. TypeOK /\ SlotsAgree /\ InputsNeverStale /\ RunsInv /\ OwedInv
  BY DEF IInv
<1>2. /\ head' = v /\ ready' = ready \union {v} /\ settled' = FALSE
      /\ owed' = IF owed = None THEN head ELSE Lost
      /\ UNCHANGED <<members, runs, state, occupant>>
  BY DEF MoveHead
<1>3. Current' = Current /\ Stale' = Stale
  BY <1>2 DEF Current, Stale
<1>4. TypeOK'
  BY <1>1, <1>2 DEF TypeOK
<1>5. SlotsAgree' /\ InputsNeverStale'
  BY <1>1, <1>2, <1>3 DEF SlotsAgree, InputsNeverStale
<1>6. NothingLeftStale' /\ RunsInv'
  BY <1>1, <1>2 DEF NothingLeftStale, RunsInv
<1>7. OwedInv'
  <2>1. owed' # None /\ (owed' \in Versions => owed = None /\ owed' = head)
    BY <1>1, <1>2, DerivationAssumption DEF TypeOK
  <2>2. owed' \in Versions => \A a \in Current : Needs[a] \subseteq Evidence(owed)'
    BY <1>1, <1>2, <2>1 DEF OwedInv, Evidence
  <2> QED
    BY <1>3, <2>1, <2>2 DEF OwedInv
<1> QED
  BY <1>4, <1>5, <1>6, <1>7 DEF IInv

LEMMA InitKeeps == Init => IInv
<1> SUFFICES ASSUME Init PROVE IInv
  OBVIOUS
<1>1. Current = {} /\ Stale = {}
  BY DEF Init, Current, Stale
<1>2. TypeOK
  BY DEF Init, TypeOK, States
<1>3. SlotsAgree
  BY <1>1, DerivationAssumption DEF Init, SlotsAgree
<1>4. InputsNeverStale /\ RunsInv /\ OwedInv /\ NothingLeftStale
  BY <1>1 DEF Init, InputsNeverStale, RunsInv, OwedInv, NothingLeftStale
<1> QED
  BY <1>2, <1>3, <1>4 DEF IInv

LEMMA StutterKeeps ==
    ASSUME IInv, UNCHANGED vars
    PROVE  IInv'
BY DEF IInv, vars, TypeOK, SlotsAgree, InputsNeverStale, NothingLeftStale, RunsInv, OwedInv,
       Current, Stale, Active, Evidence, Eligible

LEMMA Inductive == Spec => []IInv
<1>1. IInv /\ [Next]_vars => IInv'
  BY PublishKeeps, PublishFailureKeeps, ReconcileKeeps, ReconcileAgainKeeps, MoveHeadKeeps,
     StutterKeeps DEF Next
<1> QED
  BY <1>1, InitKeeps, PTL DEF Spec
-----------------------------------------------------------------------------
(* The theorems.                                                           *)

\* Every variable keeps its type.
THEOREM TypeCorrect == Spec => []TypeOK
<1>1. IInv => TypeOK
  BY DEF IInv
<1> QED
  BY <1>1, Inductive, PTL

\* A slot has at most one artifact that is or can become current, and points
\* at it exactly when it is, through publications and reconciliations.
THEOREM SlotsHold == Spec => []SlotsAgree
<1>1. IInv => SlotsAgree
  BY DEF IInv
<1> QED
  BY <1>1, Inductive, PTL

\* Whatever the graph of the artifacts, none that is current is made from a
\* stale or failed one.
THEOREM StaleSpreads == Spec => []InputsNeverStale
<1>1. IInv => InputsNeverStale
  BY DEF IInv
<1> QED
  BY <1>1, Inductive, PTL

\* Whoever has reconciled the head with every version it replaced has current
\* artifacts that are made from evidence of the head.
THEOREM EvidenceHolds == Spec => []EvidenceIsActive
<1>1. IInv => EvidenceIsActive
  BY DEF IInv, OwedInv, EvidenceIsActive, Active, Evidence
<1> QED
  BY <1>1, Inductive, PTL

\* A reconciliation that is not refused leaves nothing stale that could be
\* current.
THEOREM RevivalEnds == Spec => []NothingLeftStale
<1>1. IInv => NothingLeftStale
  BY DEF IInv
<1> QED
  BY <1>1, Inductive, PTL

\* What the refusal excludes, and what it does not: no reconciliation stales and
\* revives the same artifact, so one is refused only where an artifact is made
\* from another that revives with it and has a larger id.
THEOREM OnlyOrderRefuses ==
    ASSUME TypeOK, NEW previous \in Versions, NEW current \in Versions
    PROVE  LET staled == Affected(Gone(previous, current))
               revived == Revived(Stale \union staled, Current \ staled, Binds[current])
           IN  (\A a \in revived : \A u \in Uses[a] \intersect revived : u < a)
                  => Canonical(staled, revived)
<1> DEFINE gone == Gone(previous, current)
           staled == Affected(gone)
           kept == Current \ staled
           revived == Revived(Stale \union staled, kept, Binds[current])
<1>1. staled \subseteq Current
  BY AffectedIsCurrent
<1>2. kept \in SUBSET Artifacts /\ Stale \union staled \in SUBSET Artifacts
  BY <1>1 DEF Current, Stale
<1>3. PICK live \in SUBSET Artifacts :
         /\ revived = live \ kept
         /\ Sound(Stale \union staled, kept, Binds[current], live)
  <2> HIDE DEF staled, kept
  <2> QED BY <1>2, RevivedFacts DEF revived
<1> DEFINE both == staled \intersect revived
           rest == staled \ both
<1>4. ASSUME NEW a \in both
      PROVE  Needs[a] \intersect gone = {} /\ Uses[a] \intersect rest = {}
  <2>1. a \in live \ kept
    BY <1>3
  <2>2. Needs[a] \subseteq Binds[current] /\ Uses[a] \subseteq live
    BY <1>3, <2>1 DEF Sound
  <2>3. \A u \in staled : u \in live => u \in both
    BY <1>3
  <2> QED
    BY <2>2, <2>3 DEF Gone
<1>5. ASSUME NEW b \in Current, Needs[b] \intersect gone # {} \/ Uses[b] \intersect rest # {}
      PROVE  b \in rest
  <2>1. b \in staled
    <3>1. Needs[b] \intersect gone # {} \/ Uses[b] \intersect staled # {}
      BY <1>5
    <3> QED
      BY <3>1, AffectedIsClosed
  <2>2. b \notin both
    BY <1>4, <1>5
  <2> QED
    BY <2>1, <2>2
<1>6. rest \in SUBSET Current
  BY <1>1
<1>7. staled \subseteq rest
  <2>1. \A found \in SUBSET Current :
           (\A b \in Current : Needs[b] \intersect gone # {} \/ Uses[b] \intersect found # {}
                                   => b \in found)
              => staled \subseteq found
    BY DEF Affected
  <2> HIDE DEF rest, staled, gone
  <2> QED
    BY <1>5, <1>6, <2>1
<1>8. staled \intersect revived = {}
  BY <1>7
<1> HIDE DEF staled, revived
<1> QED
  BY <1>8 DEF Canonical, staled, revived, kept, gone
=============================================================================
