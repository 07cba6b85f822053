------------------------ MODULE ContextCompilerProofs ------------------------
(***************************************************************************)
(* Proofs about ContextCompiler, for any documents, evidence, costs,       *)
(* budgets, limits and sizes of pages, and any number of compilers.        *)
(*                                                                         *)
(* A search reads an index that others write to.  What it has seen of a    *)
(* document are rows that exist, each once; when it ends, it has seen as   *)
(* many as there are.  It has seen them all, then, although every text     *)
(* that was added in between ranks the rest anew.  What it accepted of     *)
(* them depends on its scopes alone.  The projections of a scope do not    *)
(* change, and so a receipt is a function of its scopes, of the visual     *)
(* records it saw and of its limits: a replay of the same arrives at it.   *)
(*                                                                         *)
(* A receipt accounts for what was discovered since allocation, admission  *)
(* and selection each split a set in two; and what was left out once does  *)
(* not fit in the end, since the usage grows with what it is measured for. *)
(* The usage is measured while it states itself.  Eight rounds suffice:    *)
(* after the first one the digits of a measurement grow once at most.      *)
(*                                                                         *)
(* TLA+ defines a recursive function by CHOOSE.  RecursionExists builds    *)
(* the function a recursion describes; UsageFacts, TotalFacts,             *)
(* SelectionFacts and RowsOfFacts are instances.                           *)
(***************************************************************************)
EXTENDS ContextCompiler, FiniteSetTheorems, SequenceTheorems, WellFoundedInduction,
        NaturalsInduction, TLAPS

(* Numbers.                                                                *)

\* A set of numbers that is not empty has a least one.
LEMMA LeastExists ==
    ASSUME NEW S, S \subseteq Nat, S # {}
    PROVE  \E m \in S : \A k \in S : m <= k
<1> DEFINE R == {ss \in Nat \X Nat : ss[1] < ss[2]}
<1>1. IsWellFoundedOn(R, Nat)
  BY NatLessThanWellFounded DEF OpToRel
<1>2. \E m \in S : \A k \in S : <<k, m>> \notin R
  <2> HIDE DEF R
  <2> QED BY <1>1, WFMin
<1>3. PICK m \in S : \A k \in S : <<k, m>> \notin R
  BY <1>2
<1>4. \A k \in S : ~(k < m)
  BY <1>3
<1> QED
  BY <1>4

\* Min of the library, which chooses, is the least number of a set.
LEMMA MinFacts ==
    ASSUME NEW S, S \subseteq Nat, S # {}
    PROVE  Min(S) \in S /\ \A k \in S : Min(S) <= k
<1>1. \E m \in S : \A k \in S : m =< k
  BY LeastExists
<1> QED
  BY <1>1 DEF Min

\* Induction up to n, for a set of numbers in place of a predicate.
LEMMA Climb ==
    ASSUME NEW n \in Nat, NEW P, 0 \in P, \A k \in 0..n : k # 0 /\ k - 1 \in P => k \in P
    PROVE  \A k \in 0..n : k \in P
<1> DEFINE S == {k \in 0..n : k \notin P}
<1> SUFFICES ASSUME S # {} PROVE FALSE
  OBVIOUS
<1>1. S \subseteq Nat
  OBVIOUS
<1>2. PICK m \in S : \A k \in S : m <= k
  <2> HIDE DEF S
  <2> QED BY <1>1, LeastExists
<1>3. m # 0 /\ m \in 0..n /\ m \notin P
  BY <1>2
<1>4. m - 1 \in 0..n /\ ~(m <= m - 1)
  BY <1>3
<1>5. m - 1 \in P
  BY <1>2, <1>4
<1> QED
  BY <1>3, <1>5

\* Recursion up to n: f has b at 0 and what step makes of its last value after that.
Recurs(f, b, n, step) == \A k \in 0..n : f[k] = IF k = 0 THEN b ELSE step[<<f[k-1], k>>]

\* There is such a function.
LEMMA RecursionExists ==
    ASSUME NEW T, NEW b \in T, NEW n \in Nat, NEW step \in [T \X (1..n) -> T]
    PROVE  \E f \in [0..n -> T] : Recurs(f, b, n, step)
<1> DEFINE P == {m \in 0..n : \E f \in [0..m -> T] : Recurs(f, b, m, step)}
<1>1. 0 \in P
  <2>1. PICK f \in [0..0 -> T] : f = [i \in 0..0 |-> b]
    OBVIOUS
  <2>2. Recurs(f, b, 0, step)
    BY <2>1 DEF Recurs
  <2> QED
    BY <2>2
<1>2. ASSUME NEW m \in 0..n, m # 0, m - 1 \in P PROVE m \in P
  <2>1. PICK f \in [0..(m-1) -> T] : Recurs(f, b, m - 1, step)
    BY <1>2
  <2>2. PICK last \in T : last = step[<<f[m-1], m>>]
    BY <1>2
  <2>3. PICK g \in [0..m -> T] : g = [i \in 0..m |-> IF i = m THEN last ELSE f[i]]
    <3>1. [i \in 0..m |-> IF i = m THEN last ELSE f[i]] \in [0..m -> T]
      BY <1>2, <2>1, <2>2
    <3> QED
      BY <3>1
  <2>4. ASSUME NEW k \in 0..m PROVE g[k] = IF k = 0 THEN b ELSE step[<<g[k-1], k>>]
    <3>1. CASE k = m
      <4>1. g[m] = last /\ g[m-1] = f[m-1]
        BY <1>2, <2>3
      <4> QED
        BY <1>2, <2>2, <3>1, <4>1
    <3>2. CASE k # m
      <4>1. k \in 0..(m-1) /\ g[k] = f[k] /\ (k # 0 => g[k-1] = f[k-1])
        BY <1>2, <2>3, <3>2
      <4> QED
        BY <2>1, <4>1 DEF Recurs
    <3> QED
      BY <3>1, <3>2
  <2>5. Recurs(g, b, m, step)
    BY <2>4 DEF Recurs
  <2> QED
    BY <1>2, <2>5
<1> HIDE DEF P
<1>3. n \in P
  BY <1>1, <1>2, Climb
<1> QED
  BY <1>3 DEF P
-----------------------------------------------------------------------------
(* Sequences without repetition.                                           *)

Distinct(s) == \A i, j \in 1..Len(s) : i # j => s[i] # s[j]

\* A sequence without repetition is as long as it has elements.
LEMMA DistinctCount ==
    ASSUME NEW S, NEW s \in Seq(S), Distinct(s)
    PROVE  IsFiniteSet(ToSet(s)) /\ Cardinality(ToSet(s)) = Len(s)
<1>1. Len(s) \in Nat /\ DOMAIN s = 1..Len(s) /\ s \in [1..Len(s) -> S]
  BY LenProperties
<1>2. IsFiniteSet(1..Len(s)) /\ Cardinality(1..Len(s)) = Len(s)
  BY <1>1, FS_Interval
<1>3. s \in [1..Len(s) -> ToSet(s)]
  BY <1>1 DEF ToSet
<1>4. s \in Surjection(1..Len(s), ToSet(s))
  BY <1>1, <1>3 DEF Surjection, ToSet
<1>5. s \in Injection(1..Len(s), ToSet(s))
  BY <1>1, <1>3 DEF Injection, IsInjective, Distinct
<1> QED
  BY <1>2, <1>4, <1>5, FS_Surjection

\* What a member of SetToSeqs is: every element of the set, once.
LEMMA SeqsFacts ==
    ASSUME NEW S, IsFiniteSet(S), NEW s \in SetToSeqs(S)
    PROVE  s \in Seq(S) /\ Len(s) = Cardinality(S) /\ ToSet(s) = S /\ Distinct(s)
<1>1. Cardinality(S) \in Nat
  BY FS_CardinalityType
<1>2. /\ s \in [1..Cardinality(S) -> S]
      /\ \A i, j \in 1..Cardinality(S) : i # j => s[i] # s[j]
  BY DEF SetToSeqs
<1>3. s \in Seq(S) /\ Len(s) = Cardinality(S)
  BY <1>1, <1>2
<1>4. Distinct(s)
  BY <1>2, <1>3 DEF Distinct
<1>5. ToSet(s) \subseteq S
  BY <1>2 DEF ToSet
<1>6. Cardinality(ToSet(s)) = Len(s)
  BY <1>3, <1>4, DistinctCount
<1>7. ToSet(s) = S
  BY <1>3, <1>5, <1>6, FS_Subset
<1> QED
  BY <1>3, <1>4, <1>7

\* What stands in front of a sequence without repetition.
LEMMA PrefixFacts ==
    ASSUME NEW S, NEW s \in Seq(S), NEW k \in Int, k <= Len(s)
    PROVE  /\ SubSeq(s, 1, k) \in Seq(S)
           /\ Len(SubSeq(s, 1, k)) = IF k >= 1 THEN k ELSE 0
           /\ \A i \in 1..k : SubSeq(s, 1, k)[i] = s[i]
           /\ ToSet(SubSeq(s, 1, k)) \subseteq ToSet(s)
           /\ Distinct(s) => Distinct(SubSeq(s, 1, k))
<1>1. Len(s) \in Nat /\ DOMAIN s = 1..Len(s) /\ s \in [1..Len(s) -> S]
  BY LenProperties
<1>2. \A i \in 1..k : s[i] \in S
  BY <1>1
<1>3. /\ SubSeq(s, 1, k) \in Seq(S)
      /\ Len(SubSeq(s, 1, k)) = IF 1 <= k THEN k - 1 + 1 ELSE 0
      /\ \A i \in 1..(k - 1 + 1) : SubSeq(s, 1, k)[i] = s[1 + i - 1]
  BY <1>2, SubSeqProperties
<1>4. PICK u \in Seq(S) : u = SubSeq(s, 1, k)
  BY <1>3
<1>5. Len(u) = (IF k >= 1 THEN k ELSE 0) /\ \A i \in 1..k : u[i] = s[i]
  BY <1>3, <1>4
<1>6. Len(u) \in Nat /\ DOMAIN u = 1..Len(u)
  BY LenProperties
<1>7. ToSet(u) \subseteq ToSet(s)
  BY <1>1, <1>5, <1>6 DEF ToSet
<1>8. Distinct(s) => Distinct(u)
  BY <1>1, <1>5, <1>6 DEF Distinct
<1> QED
  BY <1>4, <1>5, <1>7, <1>8

\* A part of a sequence has some of its elements.
LEMMA SliceFacts ==
    ASSUME NEW S, NEW s \in Seq(S), NEW m \in Nat, m >= 1, NEW n \in Int, n <= Len(s)
    PROVE  /\ SubSeq(s, m, n) \in Seq(S) /\ Len(SubSeq(s, m, n)) \in Nat
           /\ ToSet(SubSeq(s, m, n)) \subseteq ToSet(s)
<1>1. Len(s) \in Nat /\ DOMAIN s = 1..Len(s) /\ s \in [1..Len(s) -> S]
  BY LenProperties
<1>2. \A i \in m..n : s[i] \in S
  BY <1>1
<1>3. /\ SubSeq(s, m, n) \in Seq(S)
      /\ Len(SubSeq(s, m, n)) = IF m <= n THEN n - m + 1 ELSE 0
      /\ \A i \in 1..(n - m + 1) : SubSeq(s, m, n)[i] = s[m + i - 1]
  BY <1>2, SubSeqProperties
<1>4. PICK u \in Seq(S) : u = SubSeq(s, m, n)
  BY <1>3
<1>5. Len(u) \in Nat /\ DOMAIN u = 1..Len(u)
  BY LenProperties
<1>6. ASSUME NEW i \in DOMAIN u PROVE u[i] \in ToSet(s)
  <2>1. i \in 1..(n - m + 1) /\ m <= n
    BY <1>3, <1>4, <1>5
  <2>2. u[i] = s[m + i - 1] /\ m + i - 1 \in DOMAIN s
    BY <1>1, <1>3, <1>4, <2>1
  <2> QED
    BY <2>2 DEF ToSet
<1> QED
  BY <1>4, <1>5, <1>6 DEF ToSet

\* What is appended joins the elements.
LEMMA AppendFacts ==
    ASSUME NEW S, NEW s \in Seq(S), NEW e \in S
    PROVE  /\ Append(s, e) \in Seq(S) /\ Len(Append(s, e)) = Len(s) + 1
           /\ Append(s, e)[Len(s) + 1] = e
           /\ \A i \in 1..Len(s) : Append(s, e)[i] = s[i]
           /\ ToSet(Append(s, e)) = ToSet(s) \union {e}
           /\ Distinct(s) /\ e \notin ToSet(s) => Distinct(Append(s, e))
<1>1. Len(s) \in Nat /\ DOMAIN s = 1..Len(s)
  BY LenProperties
<1>2. PICK u \in Seq(S) : u = Append(s, e)
  BY AppendProperties
<1>3. Len(u) = Len(s) + 1 /\ u[Len(s) + 1] = e /\ \A i \in 1..Len(s) : u[i] = s[i]
  BY <1>1, <1>2
<1>4. DOMAIN u = 1..(Len(s) + 1)
  BY <1>3, LenProperties
<1>5. ToSet(u) = ToSet(s) \union {e}
  BY <1>1, <1>3, <1>4 DEF ToSet
<1>6. Distinct(s) /\ e \notin ToSet(s) => Distinct(u)
  BY <1>1, <1>3 DEF Distinct, ToSet
<1> QED
  BY <1>2, <1>3, <1>5, <1>6

\* No later element is one that R puts ahead of an earlier one.
Sorted(s, R, n) == \A i, j \in 1..n : i < j => <<s[j], s[i]>> \notin R

\* Every part of A has an element that R puts nothing of that part ahead of.
Founded(A, R) == \A T \in SUBSET A : T # {} => \E m \in T : \A x \in T : <<x, m>> \notin R

\* Listed is well defined: what is listed is every element of A, once.
LEMMA ListedFacts ==
    ASSUME NEW A, IsFiniteSet(A), NEW R, Founded(A, R)
    PROVE  Listed(A, R) \in SetToSeqs(A)
<1> DEFINE n == Cardinality(A)
           P == {k \in 0..n : \A T \in SUBSET A : Cardinality(T) = k =>
                                \E s \in SetToSeqs(T) : Sorted(s, R, k)}
<1>1. n \in Nat
  BY FS_CardinalityType
<1>2. 0 \in P
  <2>1. ASSUME NEW T \in SUBSET A, Cardinality(T) = 0
        PROVE  \E s \in SetToSeqs(T) : Sorted(s, R, 0)
    <3>1. PICK s \in [1..0 -> T] : s = [i \in 1..0 |-> i]
      <4>1. \A i \in 1..0 : i \in T
        OBVIOUS
      <4>2. [i \in 1..0 |-> i] \in [1..0 -> T]
        BY <4>1
      <4> QED
        BY <4>2
    <3>2. s \in SetToSeqs(T)
      BY <2>1, <3>1 DEF SetToSeqs
    <3> QED
      BY <3>2 DEF Sorted
  <2> QED
    BY <1>1, <2>1
<1>3. ASSUME NEW k \in 0..n, k # 0, k - 1 \in P PROVE k \in P
  <2>1. ASSUME NEW T \in SUBSET A, Cardinality(T) = k
        PROVE  \E s \in SetToSeqs(T) : Sorted(s, R, k)
    <3>1. IsFiniteSet(T) /\ T # {}
      BY <1>3, <2>1, FS_Subset, FS_EmptySet
    <3>2. PICK m \in T : \A x \in T : <<x, m>> \notin R
      BY <3>1 DEF Founded
    <3>3. PICK U \in SUBSET A : U = T \ {m}
      OBVIOUS
    <3>4. Cardinality(U) = k - 1
      BY <2>1, <3>1, <3>3, FS_RemoveElement
    <3>5. PICK s \in SetToSeqs(U) : Sorted(s, R, k - 1)
      BY <1>3, <3>4
    <3>6. s \in [1..(k-1) -> U] /\ \A i, j \in 1..(k-1) : i # j => s[i] # s[j]
      BY <3>4 DEF SetToSeqs
    <3>7. PICK u : u = [i \in 1..k |-> IF i = 1 THEN m ELSE s[i-1]]
      OBVIOUS
    <3>8. \A i \in 1..k : i # 1 => i - 1 \in 1..(k-1) /\ u[i] = s[i-1] /\ u[i] \in U
      BY <1>3, <3>6, <3>7
    <3>9. 1 \in 1..k /\ u[1] = m
      BY <1>3, <3>7
    <3>10. \A i \in 1..k : u[i] \in T
      BY <3>3, <3>8, <3>9
    <3>11. u \in [1..k -> T]
      BY <3>7, <3>10
    <3>12. \A i, j \in 1..k : i # j => u[i] # u[j]
      BY <3>3, <3>6, <3>8, <3>9
    <3>13. ASSUME NEW i \in 1..k, NEW j \in 1..k, i < j PROVE <<u[j], u[i]>> \notin R
      <4>1. CASE i = 1
        BY <3>2, <3>9, <3>10, <4>1
      <4>2. CASE i # 1
        <5>1. u[i] = s[i-1] /\ u[j] = s[j-1] /\ i - 1 \in 1..(k-1) /\ j - 1 \in 1..(k-1)
          BY <3>8, <3>13, <4>2
        <5> QED
          BY <3>5, <3>13, <5>1 DEF Sorted
      <4> QED
        BY <4>1, <4>2
    <3> QED
      BY <2>1, <3>11, <3>12, <3>13 DEF SetToSeqs, Sorted
  <2> QED
    BY <1>3, <2>1
<1>4. n \in P
  <2> HIDE DEF P
  <2> QED BY <1>1, <1>2, <1>3, Climb
<1>5. \E s \in SetToSeqs(A) : Sorted(s, R, Cardinality(A))
  BY <1>4
<1> QED
  BY <1>5 DEF Listed, Sorted

-----------------------------------------------------------------------------
(* What a bundle takes.                                                    *)

Below(n) == {power \in Powers : power <= n}

\* There are finitely many powers.
LEMMA PowersFacts == Powers \subseteq Nat /\ IsFiniteSet(Powers)
<1>1. Powers \subseteq Nat /\ \A power \in Powers : power <= 1000000000
  BY DEF Powers
<1> QED
  BY <1>1, FS_BoundedSetOfNaturals

\* A number has a digit more than there are powers up to it.
LEMMA DigitsFacts ==
    ASSUME NEW n \in Nat
    PROVE  /\ Digits(n) \in Nat /\ Digits(n) >= 1
           /\ IsFiniteSet(Below(n)) /\ Digits(n) = 1 + Cardinality(Below(n))
<1>1. IsFiniteSet(Below(n))
  BY PowersFacts, FS_Subset DEF Below
<1>2. Cardinality(Below(n)) \in Nat
  BY <1>1, FS_CardinalityType
<1> QED
  BY <1>1, <1>2 DEF Digits, Below

\* A greater number has no fewer digits.
LEMMA DigitsMonotone ==
    ASSUME NEW m \in Nat, NEW n \in Nat, m <= n
    PROVE  Digits(m) <= Digits(n)
<1>1. Below(m) \subseteq Below(n)
  <2>1. ASSUME NEW power \in Powers, power <= m PROVE power <= n
    <3>1. power \in Nat
      BY PowersFacts
    <3> QED
      BY <2>1, <3>1
  <2> QED
    BY <2>1 DEF Below
<1>2. Cardinality(Below(m)) <= Cardinality(Below(n))
  BY <1>1, DigitsFacts, FS_Subset
<1>3. Cardinality(Below(m)) \in Nat /\ Cardinality(Below(n)) \in Nat
  BY DigitsFacts, FS_CardinalityType
<1> QED
  BY <1>2, <1>3, DigitsFacts

\* One measurement, for a usage that was stated as n.
Measured(zero, n) == zero + 2 * (Digits(n) - 1)

\* A measurement is a number, and no less than the bundle without it.
LEMMA MeasuredFacts ==
    ASSUME NEW zero \in Nat, NEW n \in Nat
    PROVE  Measured(zero, n) \in Nat /\ zero <= Measured(zero, n)
BY DigitsFacts DEF Measured

\* The measurements of a bundle, one after the other.
Measurements(f, zero) ==
    /\ f \in [0..8 -> Nat]
    /\ \A k \in 0..8 : f[k] = IF k = 0 THEN 0 ELSE Measured(zero, f[k-1])

\* The recursion of Usage exists: the usage is the last of eight measurements.
LEMMA UsageFacts ==
    ASSUME NEW zero \in Nat
    PROVE  \E f : Measurements(f, zero) /\ Usage(zero) = f[8]
<1> DEFINE Rec(f) == f = [i \in 0..8 |-> IF i = 0 THEN 0 ELSE zero + 2 * (Digits(f[i-1]) - 1)]
           measured == CHOOSE f : Rec(f)
<1>1. PICK step \in [Nat \X (1..8) -> Nat] :
         step = [tk \in Nat \X (1..8) |-> Measured(zero, tk[1])]
  <2>1. [tk \in Nat \X (1..8) |-> Measured(zero, tk[1])] \in [Nat \X (1..8) -> Nat]
    BY MeasuredFacts
  <2> QED
    BY <2>1
<1>2. 0 \in Nat /\ 8 \in Nat /\ step \in [Nat \X (1..8) -> Nat]
  BY <1>1
<1>3. PICK f \in [0..8 -> Nat] : Recurs(f, 0, 8, step)
  BY <1>2, RecursionExists
<1>4. \A k \in 0..8 : k # 0 => k - 1 \in 0..8 /\ k \in 1..8 /\ f[k-1] \in Nat
  BY <1>3
<1>5. \A k \in 0..8 : f[k] = IF k = 0 THEN 0 ELSE Measured(zero, f[k-1])
  BY <1>1, <1>3, <1>4 DEF Recurs
<1>6. Rec(f)
  BY <1>3, <1>5 DEF Measured
<1>7. Usage(zero) = measured[8]
  BY DEF Usage
<1>8. Rec(measured)
  <2> HIDE DEF Rec
  <2> QED BY <1>6
<1>9. measured = f
  <2>1. \A k \in 0..8 : measured[k] = IF k = 0 THEN 0 ELSE Measured(zero, measured[k-1])
    BY <1>8 DEF Measured
  <2> HIDE DEF measured
  <2> DEFINE P == {k \in 0..8 : measured[k] = f[k]}
  <2>2. 0 \in P
    BY <2>1, <1>5
  <2>3. \A k \in 0..8 : k # 0 /\ k - 1 \in P => k \in P
    BY <2>1, <1>5
  <2>4. \A k \in 0..8 : k \in P
    <3> HIDE DEF P
    <3> QED BY <2>2, <2>3, <1>2, Climb
  <2>5. measured = [k \in 0..8 |-> measured[k]]
    BY <1>8
  <2>6. f = [k \in 0..8 |-> f[k]]
    BY <1>3
  <2> QED
    BY <2>4, <2>5, <2>6
<1>10. Measurements(f, zero) /\ Usage(zero) = f[8]
  BY <1>3, <1>5, <1>7, <1>9 DEF Measurements
<1> QED
  BY <1>10

\* A usage is a number.
LEMMA UsageIsNat ==
    ASSUME NEW zero \in Nat
    PROVE  Usage(zero) \in Nat
BY UsageFacts DEF Measurements

\* What takes less without its usage takes less with it.
LEMMA UsageMonotone ==
    ASSUME NEW m \in Nat, NEW n \in Nat, m <= n
    PROVE  Usage(m) <= Usage(n)
<1>1. PICK f : Measurements(f, m) /\ Usage(m) = f[8]
  BY UsageFacts
<1>2. PICK g : Measurements(g, n) /\ Usage(n) = g[8]
  BY UsageFacts
<1> DEFINE P == {k \in 0..8 : f[k] <= g[k]}
<1>3. 0 \in P
  BY <1>1, <1>2 DEF Measurements
<1>4. ASSUME NEW k \in 0..8, k # 0, k - 1 \in P PROVE k \in P
  <2>1. f[k-1] \in Nat /\ g[k-1] \in Nat /\ f[k-1] <= g[k-1]
    BY <1>1, <1>2, <1>4 DEF Measurements
  <2>2. Digits(f[k-1]) <= Digits(g[k-1])
    BY <2>1, DigitsMonotone
  <2>3. Digits(f[k-1]) \in Nat /\ Digits(g[k-1]) \in Nat
    BY <2>1, DigitsFacts
  <2>4. Measured(m, f[k-1]) <= Measured(n, g[k-1])
    BY <2>2, <2>3 DEF Measured
  <2> QED
    BY <1>1, <1>2, <1>4, <2>4 DEF Measurements
<1>5. 8 \in P
  <2> HIDE DEF P
  <2> QED BY <1>3, <1>4, Climb
<1> QED
  BY <1>1, <1>2, <1>5

\* No more than ten digits.
LEMMA DigitsBounded ==
    ASSUME NEW n \in Nat
    PROVE  Digits(n) <= 10
<1> DEFINE list == <<10, 100, 1000, 10000, 100000, 1000000, 10000000, 100000000, 1000000000>>
<1>1. list \in [1..9 -> Powers] /\ \A power \in Powers : \E i \in 1..9 : list[i] = power
  <2>1. list \in [1..9 -> Powers]
    BY DEF Powers
  <2>2. /\ list[1] = 10 /\ list[2] = 100 /\ list[3] = 1000 /\ list[4] = 10000
        /\ list[5] = 100000 /\ list[6] = 1000000 /\ list[7] = 10000000
        /\ list[8] = 100000000 /\ list[9] = 1000000000
    OBVIOUS
  <2>3. {1, 2, 3, 4, 5, 6, 7, 8, 9} \subseteq 1..9
    OBVIOUS
  <2> HIDE DEF list
  <2> QED
    BY <2>1, <2>2, <2>3 DEF Powers
<1>2. list \in Surjection(1..9, Powers)
  BY <1>1 DEF Surjection
<1>3. IsFiniteSet(1..9) /\ Cardinality(1..9) = 9
  <2>1. \A k \in Nat : IsFiniteSet(1..k) /\ Cardinality(1..k) = k
    BY FS_Interval
  <2>2. 9 \in Nat
    OBVIOUS
  <2> QED
    BY <2>1, <2>2, Zenon
<1>4. Cardinality(Powers) <= 9
  <2> HIDE DEF list
  <2> QED BY <1>2, <1>3, FS_Surjection
<1>5. Cardinality(Below(n)) <= Cardinality(Powers)
  BY PowersFacts, FS_Subset DEF Below
<1>6. Cardinality(Below(n)) \in Nat /\ Cardinality(Powers) \in Nat
  BY PowersFacts, DigitsFacts, FS_CardinalityType
<1> QED
  BY <1>4, <1>5, <1>6, DigitsFacts

\* Up to 20 more adds one digit at most, and none right after a power was passed.
LEMMA DigitsGrowOnce ==
    ASSUME NEW m \in Nat, NEW n \in Nat, m <= n, n <= m + 20
    PROVE  \/ Digits(n) = Digits(m)
           \/ /\ Digits(n) = Digits(m) + 1
              /\ \A k \in Nat : n <= k /\ k <= n + 20 => Digits(k) = Digits(n)
<1>1. \A power, other \in Powers : power < other => power + 60 < other
  BY DEF Powers
<1>2. CASE \A power \in Powers : ~(m < power /\ power <= n)
  <2>1. \A power \in Powers : power <= n <=> power <= m
    <3>1. ASSUME NEW power \in Powers PROVE power <= n <=> power <= m
      <4>1. power \in Nat
        BY PowersFacts
      <4> QED
        BY <1>2, <4>1
    <3> QED
      BY <3>1
  <2>2. Below(n) = Below(m)
    BY <2>1 DEF Below
  <2> QED
    BY <2>2, DigitsFacts
<1>3. CASE \E power \in Powers : m < power /\ power <= n
  <2>1. PICK power \in Powers : m < power /\ power <= n
    BY <1>3
  <2>2. power \in Nat
    BY PowersFacts
  <2>3. ASSUME NEW k \in Nat, n <= k, k <= n + 20 PROVE Below(k) = Below(m) \union {power}
    <3>1. ASSUME NEW other \in Powers PROVE other <= k <=> other <= m \/ other = power
      <4>1. other \in Nat
        BY PowersFacts
      <4>2. other < power \/ other = power \/ power < other
        BY <2>2, <4>1
      <4>3. CASE other < power
        <5>1. other + 60 < power
          BY <1>1, <4>3
        <5> QED
          BY <2>1, <2>2, <2>3, <4>1, <5>1
      <4>4. CASE power < other
        <5>1. power + 60 < other
          BY <1>1, <4>4
        <5> QED
          BY <2>1, <2>2, <2>3, <4>1, <5>1
      <4> QED
        BY <2>1, <2>2, <2>3, <4>1, <4>2, <4>3, <4>4
    <3> QED
      BY <3>1 DEF Below
  <2>4. power \notin Below(m)
    BY <2>1, <2>2 DEF Below
  <2>5. Cardinality(Below(m) \union {power}) = Cardinality(Below(m)) + 1
    BY <2>4, DigitsFacts, FS_AddElement
  <2>6. Cardinality(Below(m)) \in Nat
    BY DigitsFacts, FS_CardinalityType
  <2>7. \A k \in Nat : n <= k /\ k <= n + 20 => Digits(k) = Digits(m) + 1
    <3>1. ASSUME NEW k \in Nat, n <= k, k <= n + 20 PROVE Digits(k) = Digits(m) + 1
      <4>1. Digits(k) = 1 + Cardinality(Below(k)) /\ Digits(m) = 1 + Cardinality(Below(m))
        BY DigitsFacts
      <4>2. Below(k) = Below(m) \union {power}
        BY <2>3, <3>1
      <4> QED
        BY <2>5, <2>6, <4>1, <4>2
    <3> QED
      BY <3>1
  <2> QED
    BY <2>7
<1> QED
  BY <1>2, <1>3

\* additive_usage_fixed_point never diverges: the fourth round, of eight, measures what the
\* third has measured, so that the usage a bundle states is the usage it has when it states
\* it.  (Digits counts up to ten; a budget_limit has eight at most.)
THEOREM UsageIsAFixedPoint ==
    \A zero \in Nat :
        /\ Usage(zero) = Measured(zero, Usage(zero))
        /\ \E measured : /\ Measurements(measured, zero) /\ measured[4] = measured[3]
                         /\ Usage(zero) = measured[3]
<1> SUFFICES ASSUME NEW zero \in Nat
             PROVE  /\ Usage(zero) = Measured(zero, Usage(zero))
                    /\ \E measured : /\ Measurements(measured, zero)
                                     /\ measured[4] = measured[3]
                                     /\ Usage(zero) = measured[3]
  OBVIOUS
<1>1. PICK f : Measurements(f, zero) /\ Usage(zero) = f[8]
  BY UsageFacts
<1>2. \A k \in 1..8 : f[k] = Measured(zero, f[k-1])
  BY <1>1 DEF Measurements
<1>3. f[0] = 0 /\ \A k \in 0..8 : f[k] \in Nat
  BY <1>1 DEF Measurements
<1>4. \A n \in Nat : Digits(n) \in 1..10
  BY DigitsFacts, DigitsBounded
<1>5. \A k \in {1, 2, 3, 4, 5, 6, 7, 8} : f[k] = zero + 2 * (Digits(f[k-1]) - 1)
  <2>1. {1, 2, 3, 4, 5, 6, 7, 8} \subseteq 1..8
    OBVIOUS
  <2> QED
    BY <1>2, <2>1 DEF Measured
<1>6. Digits(0) = 1
  <2>1. Below(0) = {}
    BY DEF Below, Powers
  <2> QED
    BY <2>1, DigitsFacts, FS_EmptySet
<1>7. f[1] = zero
  BY <1>3, <1>5, <1>6
<1>8. zero <= f[2] /\ f[2] <= zero + 20
  BY <1>3, <1>4, <1>5, <1>7
<1>9. Digits(f[3]) = Digits(f[2])
  <2>1. CASE Digits(f[2]) = Digits(zero)
    BY <1>5, <1>7, <2>1
  <2>2. CASE /\ Digits(f[2]) = Digits(zero) + 1
             /\ \A k \in Nat : f[2] <= k /\ k <= f[2] + 20 => Digits(k) = Digits(f[2])
    <3>1. f[3] = f[2] + 2
      BY <1>3, <1>4, <1>5, <1>7, <2>2
    <3> QED
      BY <1>3, <2>2, <3>1
  <2> QED
    BY <1>3, <1>8, <2>1, <2>2, DigitsGrowOnce
<1>10. f[4] = f[3]
  BY <1>5, <1>9
<1>11. f[5] = f[4]
  BY <1>5, <1>10
<1>12. f[6] = f[5]
  BY <1>5, <1>11
<1>13. f[7] = f[6]
  BY <1>5, <1>12
<1>14. f[8] = f[7]
  BY <1>5, <1>13
<1>15. Usage(zero) = Measured(zero, Usage(zero))
  BY <1>1, <1>5, <1>14 DEF Measured
<1>16. Usage(zero) = f[3]
  BY <1>1, <1>10, <1>11, <1>12, <1>13, <1>14
<1> QED
  BY <1>1, <1>10, <1>15, <1>16

-----------------------------------------------------------------------------
(* What is selected.                                                       *)

\* The function f sums what the first n items of s take.
Sums(f, s, n) == \A k \in 0..n : f[k] = IF k = 0 THEN Base ELSE f[k-1] + Cost[s[k]]

\* Costs are numbers.
LEMMA CostIsNat == Base \in Nat /\ \A e \in Evidence : Cost[e] \in Nat
BY ContextAssumption

\* The recursion of Total exists: a total is the last of the sums.
LEMMA TotalFacts ==
    ASSUME NEW s \in Seq(Evidence)
    PROVE  \E f \in [0..Len(s) -> Nat] : Sums(f, s, Len(s)) /\ Total(s) = f[Len(s)]
<1> DEFINE n == Len(s)
           Rec(f) == f = [i \in 0..n |-> IF i = 0 THEN Base ELSE f[i-1] + Cost[s[i]]]
           sum == CHOOSE f : Rec(f)
<1>1. n \in Nat /\ \A i \in 1..n : s[i] \in Evidence
  BY LenProperties
<1>2. Total(s) = sum[n]
  BY DEF Total
<1>3. \A i \in 1..n : Cost[s[i]] \in Nat
  BY <1>1, CostIsNat
<1> HIDE DEF n
<1>4. PICK step : step = [tk \in Nat \X (1..n) |-> tk[1] + Cost[s[tk[2]]]]
  OBVIOUS
<1>5. step \in [Nat \X (1..n) -> Nat]
  BY <1>3, <1>4
<1>6. PICK f \in [0..n -> Nat] : Recurs(f, Base, n, step)
  BY <1>1, <1>5, CostIsNat, RecursionExists
<1>7. ASSUME NEW k \in 0..n PROVE f[k] = IF k = 0 THEN Base ELSE f[k-1] + Cost[s[k]]
  <2>1. CASE k = 0
    BY <1>6, <2>1 DEF Recurs
  <2>2. CASE k # 0
    <3>1. k - 1 \in 0..n /\ k \in 1..n
      BY <1>1, <2>2
    <3>2. <<f[k-1], k>> \in Nat \X (1..n)
      BY <1>6, <3>1
    <3>3. f[k] = step[<<f[k-1], k>>]
      BY <1>6, <2>2 DEF Recurs
    <3> QED
      BY <1>4, <2>2, <3>2, <3>3
  <2> QED
    BY <2>1, <2>2
<1>8. Rec(f)
  BY <1>6, <1>7
<1>9. Rec(sum)
  <2> HIDE DEF Rec
  <2> QED BY <1>8
<1> HIDE DEF sum
<1>10. \A k \in 0..n : sum[k] = IF k = 0 THEN Base ELSE sum[k-1] + Cost[s[k]]
  BY <1>9
<1> DEFINE P == {k \in 0..n : sum[k] = f[k]}
<1>11. 0 \in P
  BY <1>1, <1>7, <1>10
<1>12. ASSUME NEW k \in 0..n, k # 0, k - 1 \in P PROVE k \in P
  BY <1>7, <1>10, <1>12
<1>13. n \in P
  <2> HIDE DEF P
  <2>1. \A k \in 0..n : k # 0 /\ k - 1 \in P => k \in P
    BY <1>12
  <2>2. \A k \in 0..n : k \in P
    BY <1>1, <1>11, <2>1, Climb
  <2> QED BY <1>1, <2>2
<1>14. Sums(f, s, n) /\ Total(s) = f[n]
  BY <1>2, <1>7, <1>13 DEF Sums
<1> QED
  BY <1>14 DEF n

\* A total is a number.
LEMMA TotalIsNat ==
    ASSUME NEW s \in Seq(Evidence)
    PROVE  Total(s) \in Nat
<1>1. PICK f \in [0..Len(s) -> Nat] : Total(s) = f[Len(s)]
  BY TotalFacts
<1> QED
  BY <1>1, LenProperties

\* Nothing is added to an empty bundle.
LEMMA TotalOfNone == Total(<<>>) = Base
<1>1. <<>> \in Seq(Evidence) /\ Len(<<>>) = 0
  OBVIOUS
<1>2. PICK f \in [0..0 -> Nat] : Sums(f, <<>>, 0) /\ Total(<<>>) = f[0]
  BY <1>1, TotalFacts
<1> QED
  BY <1>2 DEF Sums

\* One item more adds what it costs.
LEMMA TotalOfMore ==
    ASSUME NEW s \in Seq(Evidence), NEW e \in Evidence
    PROVE  Total(Append(s, e)) = Total(s) + Cost[e]
<1>1. PICK n \in Nat : n = Len(s)
  BY LenProperties
<1>2. PICK u \in Seq(Evidence) : u = Append(s, e)
  BY AppendProperties
<1>3. Len(u) = n + 1 /\ u[n + 1] = e /\ \A i \in 1..n : u[i] = s[i]
  BY <1>1, <1>2, AppendProperties
<1>4. PICK f \in [0..n -> Nat] : Sums(f, s, n) /\ Total(s) = f[n]
  BY <1>1, TotalFacts
<1>5. PICK g \in [0..(n + 1) -> Nat] : Sums(g, u, n + 1) /\ Total(u) = g[n + 1]
  BY <1>3, TotalFacts
<1> DEFINE P == {k \in 0..n : f[k] = g[k]}
<1>6. 0 \in P
  BY <1>4, <1>5 DEF Sums
<1>7. ASSUME NEW k \in 0..n, k # 0, k - 1 \in P PROVE k \in P
  <2>1. k \in 0..(n + 1) /\ k \in 1..n
    BY <1>7
  <2>2. f[k] = f[k-1] + Cost[s[k]] /\ g[k] = g[k-1] + Cost[u[k]]
    BY <1>4, <1>5, <1>7, <2>1 DEF Sums
  <2> QED
    BY <1>3, <1>7, <2>1, <2>2
<1>8. n \in P
  <2> HIDE DEF P
  <2>1. \A k \in 0..n : k # 0 /\ k - 1 \in P => k \in P
    BY <1>7
  <2>2. \A k \in 0..n : k \in P
    BY <1>6, <2>1, Climb
  <2> QED BY <1>1, <2>2
<1>9. g[n + 1] = g[n] + Cost[u[n + 1]]
  <2>1. n + 1 \in 0..(n + 1) /\ n + 1 # 0 /\ (n + 1) - 1 = n
    OBVIOUS
  <2> QED
    BY <1>5, <2>1 DEF Sums
<1> QED
  BY <1>2, <1>3, <1>4, <1>5, <1>8, <1>9

\* What has been decided after some candidates.
Account == [selected: Seq(Evidence), omitted: SUBSET Evidence, zero: Nat]
NoAccount == [selected |-> <<>>, omitted |-> {}, zero |-> Base]

\* The candidates of S are decided, each in one way, and what is left out does not fit.
Accounts(acc, S) ==
    /\ Distinct(acc.selected)
    /\ ToSet(acc.selected) \union acc.omitted = S
    /\ ToSet(acc.selected) \intersect acc.omitted = {}
    /\ acc.zero = Total(acc.selected)
    /\ \A e \in acc.omitted : ~Fits(acc.zero + Cost[e])

\* What does not fit does not fit either when the bundle has grown.
LEMMA FitsMonotone ==
    ASSUME NEW m \in Nat, NEW n \in Nat, m <= n, Fits(n)
    PROVE  Fits(m)
<1>1. Usage(m) <= Usage(n) /\ Usage(m) \in Nat /\ Usage(n) \in Nat
  BY UsageMonotone, UsageIsNat
<1>2. Ceiling \in Int
  <2>1. BudgetLimit \in Nat
    BY ContextAssumption
  <2> QED
    BY <2>1 DEF Ceiling
<1> QED
  BY <1>1, <1>2 DEF Fits

\* A candidate is appended when it fits, and left out when it does not.
LEMMA ConsideredFacts ==
    ASSUME NEW acc \in Account, NEW e \in Evidence
    PROVE  /\ Considered(acc, e) \in Account
           /\ Fits(acc.zero + Cost[e]) =>
                 /\ Considered(acc, e).selected = Append(acc.selected, e)
                 /\ Considered(acc, e).omitted = acc.omitted
                 /\ Considered(acc, e).zero = acc.zero + Cost[e]
           /\ ~Fits(acc.zero + Cost[e]) =>
                 /\ Considered(acc, e).selected = acc.selected
                 /\ Considered(acc, e).omitted = acc.omitted \union {e}
                 /\ Considered(acc, e).zero = acc.zero
<1>1. PICK s \in Seq(Evidence), o \in SUBSET Evidence, z \in Nat :
         acc = [selected |-> s, omitted |-> o, zero |-> z]
  BY DEF Account
<1>2. Cost[e] \in Nat
  BY CostIsNat
<1>3. Append(s, e) \in Seq(Evidence)
  BY AppendProperties
<1>4. CASE Fits(acc.zero + Cost[e])
  <2>1. Considered(acc, e) = [selected |-> Append(s, e), omitted |-> o, zero |-> z + Cost[e]]
    BY <1>1, <1>4 DEF Considered
  <2>2. PICK more \in Nat, list \in Seq(Evidence) : more = z + Cost[e] /\ list = Append(s, e)
    <3>1. z + Cost[e] \in Nat
      BY <1>1, <1>2
    <3> QED
      BY <1>3, <3>1
  <2>3. Considered(acc, e) = [selected |-> list, omitted |-> o, zero |-> more]
    BY <2>1, <2>2
  <2>4. Considered(acc, e) \in Account
    BY <2>3 DEF Account
  <2> QED
    BY <1>1, <1>4, <2>2, <2>3, <2>4
<1>5. CASE ~Fits(acc.zero + Cost[e])
  <2>1. Considered(acc, e) = [selected |-> s, omitted |-> o \union {e}, zero |-> z]
    BY <1>1, <1>5 DEF Considered
  <2> QED
    BY <1>1, <1>5, <2>1 DEF Account
<1> QED
  BY <1>4, <1>5

\* One more candidate, that was not considered before.
LEMMA ConsideredAccounts ==
    ASSUME NEW acc \in Account, NEW S, NEW e \in Evidence \ S, Accounts(acc, S)
    PROVE  Accounts(Considered(acc, e), S \union {e})
<1>1. PICK next \in Account : next = Considered(acc, e)
  BY ConsideredFacts
<1>2. acc.selected \in Seq(Evidence) /\ acc.zero \in Nat /\ acc.omitted \subseteq Evidence
  BY DEF Account
<1>3. Cost[e] \in Nat
  BY CostIsNat
<1>4. e \notin ToSet(acc.selected) /\ e \notin acc.omitted
  BY DEF Accounts
<1>5. CASE Fits(acc.zero + Cost[e])
  <2>1. /\ next.selected = Append(acc.selected, e) /\ next.omitted = acc.omitted
        /\ next.zero = acc.zero + Cost[e]
    BY <1>1, <1>5, ConsideredFacts
  <2>2. /\ ToSet(next.selected) = ToSet(acc.selected) \union {e}
        /\ Distinct(next.selected)
    BY <1>2, <1>4, <2>1, AppendFacts DEF Accounts
  <2>3. next.zero = Total(next.selected)
    BY <1>2, <2>1, TotalOfMore DEF Accounts
  <2>4. ASSUME NEW x \in next.omitted PROVE ~Fits(next.zero + Cost[x])
    <3>1. x \in Evidence /\ Cost[x] \in Nat /\ ~Fits(acc.zero + Cost[x])
      BY <1>2, <2>1, <2>4, CostIsNat DEF Accounts
    <3>2. /\ acc.zero + Cost[x] \in Nat /\ next.zero + Cost[x] \in Nat
          /\ acc.zero + Cost[x] <= next.zero + Cost[x]
      BY <1>2, <1>3, <2>1, <3>1
    <3> QED
      BY <3>1, <3>2, FitsMonotone
  <2> QED
    BY <1>1, <1>4, <2>1, <2>2, <2>3, <2>4 DEF Accounts
<1>6. CASE ~Fits(acc.zero + Cost[e])
  <2>1. /\ next.selected = acc.selected /\ next.omitted = acc.omitted \union {e}
        /\ next.zero = acc.zero
    BY <1>1, <1>6, ConsideredFacts
  <2> QED
    BY <1>1, <1>4, <1>6, <2>1 DEF Accounts
<1> QED
  BY <1>5, <1>6

\* A selection accounts for all candidates.
LEMMA SelectionFacts ==
    ASSUME NEW s \in Seq(Evidence), Distinct(s)
    PROVE  Selection(s) \in Account /\ Accounts(Selection(s), ToSet(s))
<1> DEFINE n == Len(s)
           Rec(f) == f = [i \in 0..n |-> IF i = 0
                                         THEN [selected |-> <<>>, omitted |-> {}, zero |-> Base]
                                         ELSE Considered(f[i-1], s[i])]
           acc == CHOOSE f : Rec(f)
<1>1. n \in Nat /\ DOMAIN s = 1..n /\ \A i \in 1..n : s[i] \in Evidence
  BY LenProperties
<1>2. Selection(s) = acc[n]
  BY DEF Selection
<1>3. \A i, j \in 1..n : i # j => s[i] # s[j]
  BY DEF Distinct
<1> HIDE DEF n
<1>4. NoAccount \in Account
  BY CostIsNat DEF NoAccount, Account
<1>5. PICK step : step = [tk \in Account \X (1..n) |-> Considered(tk[1], s[tk[2]])]
  OBVIOUS
<1>6. step \in [Account \X (1..n) -> Account]
  BY <1>1, <1>5, ConsideredFacts
<1>7. PICK f \in [0..n -> Account] : Recurs(f, NoAccount, n, step)
  BY <1>1, <1>4, <1>6, RecursionExists
<1>8. ASSUME NEW k \in 0..n PROVE f[k] = IF k = 0 THEN NoAccount ELSE Considered(f[k-1], s[k])
  <2>1. CASE k = 0
    BY <1>7, <2>1 DEF Recurs
  <2>2. CASE k # 0
    <3>1. k - 1 \in 0..n /\ k \in 1..n
      BY <1>1, <2>2
    <3>2. <<f[k-1], k>> \in Account \X (1..n)
      BY <1>7, <3>1
    <3>3. f[k] = step[<<f[k-1], k>>]
      BY <1>7, <2>2 DEF Recurs
    <3> QED
      BY <1>5, <2>2, <3>2, <3>3
  <2> QED
    BY <2>1, <2>2
<1>9. Rec(f)
  BY <1>7, <1>8 DEF NoAccount
<1>10. Rec(acc)
  <2> HIDE DEF Rec
  <2> QED BY <1>9
<1> HIDE DEF acc
<1>11. \A k \in 0..n : acc[k] = IF k = 0 THEN NoAccount ELSE Considered(acc[k-1], s[k])
  BY <1>10 DEF NoAccount
<1> DEFINE Upto(k) == {s[i] : i \in 1..k}
           P == {k \in 0..n : acc[k] \in Account /\ Accounts(acc[k], Upto(k))}
<1>12. 0 \in P
  <2>1. acc[0] = NoAccount
    BY <1>1, <1>11
  <2>2. Upto(0) = {}
    OBVIOUS
  <2>3. ToSet(<<>>) = {} /\ Distinct(<<>>)
    BY DEF ToSet, Distinct
  <2>4. Accounts(NoAccount, {})
    BY <2>3, TotalOfNone DEF Accounts, NoAccount
  <2> QED
    BY <1>1, <1>4, <2>1, <2>2, <2>4
<1>13. ASSUME NEW k \in 0..n, k # 0, k - 1 \in P PROVE k \in P
  <2>1. PICK last \in Account : last = acc[k-1]
    BY <1>13
  <2>2. acc[k] = Considered(last, s[k])
    BY <1>11, <1>13, <2>1
  <2>3. k \in 1..n /\ s[k] \in Evidence /\ s[k] \notin Upto(k - 1)
    BY <1>1, <1>3, <1>13
  <2>4. Upto(k) = Upto(k - 1) \union {s[k]}
    BY <2>3
  <2>5. Accounts(last, Upto(k - 1))
    BY <1>13, <2>1
  <2> HIDE DEF Upto
  <2>6. acc[k] \in Account /\ Accounts(acc[k], Upto(k))
    BY <2>2, <2>3, <2>4, <2>5, ConsideredFacts, ConsideredAccounts
  <2> QED
    BY <2>6
<1>14. n \in P
  <2> HIDE DEF P
  <2>1. \A k \in 0..n : k # 0 /\ k - 1 \in P => k \in P
    BY <1>13
  <2>2. \A k \in 0..n : k \in P
    BY <1>1, <1>12, <2>1, Climb
  <2> QED
    BY <1>1, <2>2
<1>15. Upto(n) = ToSet(s)
  BY <1>1 DEF ToSet
<1> QED
  BY <1>2, <1>14, <1>15

-----------------------------------------------------------------------------
(* What is listed.                                                         *)

\* An order by two numbers is founded.
LEMMA ByTwoNumbers ==
    ASSUME NEW A, NEW first \in [A -> Nat], NEW second \in [A -> Nat], NEW R,
           \A x, y \in A : <<x, y>> \in R =>
              \/ first[x] < first[y]
              \/ first[x] = first[y] /\ second[x] < second[y]
    PROVE  Founded(A, R)
<1> SUFFICES ASSUME NEW T \in SUBSET A, T # {}
             PROVE  \E m \in T : \A x \in T : <<x, m>> \notin R
  BY DEF Founded
<1>1. PICK a \in T : \A x \in T : first[a] <= first[x]
  <2> DEFINE F == {first[x] : x \in T}
  <2>1. F \subseteq Nat /\ F # {}
    OBVIOUS
  <2>2. PICK f \in F : \A k \in F : f <= k
    <3> HIDE DEF F
    <3> QED BY <2>1, LeastExists
  <2> QED
    BY <2>2
<1>2. PICK U \in SUBSET T : U = {x \in T : first[x] = first[a]}
  OBVIOUS
<1>3. PICK m \in U : \A x \in U : second[m] <= second[x]
  <2> DEFINE F == {second[x] : x \in U}
  <2>1. F \subseteq Nat /\ F # {}
    BY <1>2
  <2>2. PICK f \in F : \A k \in F : f <= k
    <3> HIDE DEF F
    <3> QED BY <2>1, LeastExists
  <2> QED
    BY <2>2
<1>4. ASSUME NEW x \in T PROVE <<x, m>> \notin R
  <2>1. m \in T /\ first[m] = first[a] /\ first[a] <= first[x]
    BY <1>1, <1>2, <1>3
  <2>2. first[m] \in Nat /\ first[x] \in Nat /\ second[m] \in Nat /\ second[x] \in Nat
    BY <2>1
  <2>3. ~(first[x] < first[m])
    BY <2>1, <2>2
  <2>4. first[x] = first[m] => ~(second[x] < second[m])
    BY <1>2, <1>3, <2>1, <2>2
  <2> QED
    BY <2>1, <2>3, <2>4
<1> QED
  BY <1>3, <1>4

\* Evidence can be counted.
LEMMA EvidenceFacts ==
    /\ Evidence \subseteq Nat /\ IsFiniteSet(Evidence)
    /\ \A S \in SUBSET Evidence : IsFiniteSet(S) /\ Cardinality(S) \in Nat
<1>1. Evidence \subseteq Nat /\ IsFiniteSet(Evidence)
  BY ContextAssumption
<1>2. \A S \in SUBSET Evidence : IsFiniteSet(S)
  BY <1>1, FS_Subset
<1> QED
  BY <1>1, <1>2, FS_CardinalityType

\* Allocation orders what is admitted: nothing is lost, nothing comes twice.
LEMMA AllocatedFacts ==
    ASSUME NEW A \in SUBSET Evidence
    PROVE  Allocated(A) \in SetToSeqs(A)
<1> DEFINE prefix == {e \in A : Cardinality(Earlier(e, A)) < PrefixSize}
           rest == A \ prefix
           Round(e) == IF e \in prefix THEN 0
                       ELSE 1 + Cardinality(Earlier(e, OfSource(e, rest)))
           Turn(e) == IF e \in prefix THEN e ELSE Min(OfSource(e, rest))
           Ahead(x, y) == \/ Round(x) < Round(y)
                          \/ Round(x) = Round(y) /\ Turn(x) < Turn(y)
           R == {pair \in A \X A : Ahead(pair[1], pair[2])}
<1>1. Allocated(A) = Listed(A, R)
  BY DEF Allocated
<1>2. prefix \subseteq A /\ rest \subseteq A
  OBVIOUS
<1> HIDE DEF prefix, rest
<1>3. ASSUME NEW e \in A PROVE Round(e) \in Nat /\ Turn(e) \in Nat
  <2>1. CASE e \in prefix
    BY <2>1, EvidenceFacts
  <2>2. CASE e \notin prefix
    <3>1. e \in rest
      BY <2>2 DEF rest
    <3>2. OfSource(e, rest) \subseteq Evidence /\ e \in OfSource(e, rest)
      BY <1>2, <3>1 DEF OfSource
    <3>3. Earlier(e, OfSource(e, rest)) \subseteq Evidence
      BY <3>2 DEF Earlier
    <3>4. Cardinality(Earlier(e, OfSource(e, rest))) \in Nat
      BY <3>3, EvidenceFacts
    <3>5. Min(OfSource(e, rest)) \in Nat
      <4>1. OfSource(e, rest) \subseteq Nat /\ OfSource(e, rest) # {}
        BY <3>2, EvidenceFacts
      <4> QED
        BY <4>1, MinFacts
    <3> QED
      BY <2>2, <3>4, <3>5
  <2> QED
    BY <2>1, <2>2
<1> HIDE DEF Round, Turn
<1>4. PICK first, second : first = [e \in A |-> Round(e)] /\ second = [e \in A |-> Turn(e)]
  OBVIOUS
<1>5. first \in [A -> Nat] /\ second \in [A -> Nat]
  BY <1>3, <1>4
<1>6. \A x, y \in A : <<x, y>> \in R =>
         \/ first[x] < first[y]
         \/ first[x] = first[y] /\ second[x] < second[y]
  BY <1>4
<1>7. Founded(A, R)
  <2> HIDE DEF R
  <2> QED BY <1>5, <1>6, ByTwoNumbers
<1> QED
  BY <1>1, <1>7, ListedFacts, EvidenceFacts

\* The visual records that were seen are listed, each once.
LEMMA ByDocumentFacts ==
    ASSUME NEW saw \in SUBSET Evidence
    PROVE  Listed(saw, {pair \in saw \X saw : ByDocument(pair[1], pair[2])}) \in SetToSeqs(saw)
<1> DEFINE R == {pair \in saw \X saw : ByDocument(pair[1], pair[2])}
<1>1. \A x \in saw : Home[x] \in Scopes /\ DocumentOf[Home[x]] \in Nat /\ x \in Nat
  BY ContextAssumption
<1>2. PICK first, second : /\ first = [e \in saw |-> DocumentOf[Home[e]]]
                           /\ second = [e \in saw |-> e]
  OBVIOUS
<1>3. first \in [saw -> Nat] /\ second \in [saw -> Nat]
  BY <1>1, <1>2
<1>4. \A x, y \in saw : <<x, y>> \in R =>
         \/ first[x] < first[y]
         \/ first[x] = first[y] /\ second[x] < second[y]
  BY <1>2 DEF ByDocument
<1>5. Founded(saw, R)
  <2> HIDE DEF R
  <2> QED BY <1>3, <1>4, ByTwoNumbers
<1> QED
  BY <1>5, ListedFacts, EvidenceFacts

\* The lesser of two numbers.
LEMMA LesserOfTwo ==
    ASSUME NEW a \in Int, NEW b \in Nat
    PROVE  Min({a, b}) \in Int /\ Min({a, b}) <= b /\ Min({a, b}) <= a
                /\ (Min({a, b}) = a \/ Min({a, b}) = b)
<1>1. \E m \in {a, b} : \A k \in {a, b} : m =< k
  <2>1. CASE a <= b
    BY <2>1
  <2>2. CASE ~(a <= b)
    BY <2>2
  <2> QED
    BY <2>1, <2>2
<1>2. Min({a, b}) \in {a, b} /\ \A k \in {a, b} : Min({a, b}) =< k
  BY <1>1 DEF Min
<1> QED
  BY <1>2

\* A limit cuts off nothing but visual records.
LEMMA DiscoveredFacts ==
    ASSUME NEW found \in SUBSET Evidence, NEW saw \in SUBSET Evidence, NEW limits \in Limits
    PROVE  /\ found \subseteq Discovered(found, saw, limits)
           /\ Discovered(found, saw, limits) \subseteq found \union saw
<1>1. PICK listed \in SetToSeqs(saw) :
         listed = Listed(saw, {pair \in saw \X saw : ByDocument(pair[1], pair[2])})
  BY ByDocumentFacts
<1>2. listed \in Seq(saw) /\ ToSet(listed) = saw
  BY SeqsFacts, EvidenceFacts
<1>3. Len(listed) \in Nat
  BY <1>2, LenProperties
<1>4. PICK room \in Int : room = limits.discovered - Cardinality(found)
  BY EvidenceFacts DEF Limits
<1>5. PICK k \in Int : k = Min({room, Len(listed)}) /\ k <= Len(listed)
  BY <1>3, LesserOfTwo
<1>6. Discovered(found, saw, limits) = found \union ToSet(SubSeq(listed, 1, k))
  BY <1>1, <1>4, <1>5 DEF Discovered
<1>7. ToSet(SubSeq(listed, 1, k)) \subseteq ToSet(listed)
  BY <1>2, <1>5, PrefixFacts
<1> QED
  BY <1>2, <1>6, <1>7

-----------------------------------------------------------------------------
(* A receipt.                                                              *)

\* A receipt accounts for everything that was found or seen.
AccountsFor(r, found, saw) ==
    LET decided == ToSet(r.selected) \union r.omitted \union r.rejected
    IN  /\ Len(r.selected) + Cardinality(r.omitted) + Cardinality(r.rejected)
              = Cardinality(decided)
        /\ \A x, y \in decided \cap Handles : Shows[x] = Shows[y] => x = y
        /\ decided \subseteq found \union saw
        /\ decided # found \union saw => r.truncated
        /\ r.used <= Ceiling
        /\ \A e \in r.omitted : Usage(Total(r.selected) + Cost[e]) > Ceiling

\* Three disjoint finite sets.
LEMMA CountThree ==
    ASSUME NEW A, NEW B, NEW C, IsFiniteSet(A), IsFiniteSet(B), IsFiniteSet(C),
           A \intersect B = {}, (A \union B) \intersect C = {}
    PROVE  Cardinality(A) + Cardinality(B) + Cardinality(C)
              = Cardinality(A \union B \union C)
<1>1. Cardinality({}) = 0
  BY FS_EmptySet
<1>2. /\ IsFiniteSet(A \union B)
      /\ Cardinality(A \union B) = Cardinality(A) + Cardinality(B) - Cardinality({})
  BY FS_Union
<1>3. Cardinality((A \union B) \union C)
         = Cardinality(A \union B) + Cardinality(C) - Cardinality({})
  BY <1>2, FS_Union
<1>4. Cardinality(A) \in Nat /\ Cardinality(B) \in Nat /\ Cardinality(C) \in Nat
  BY FS_CardinalityType
<1> QED
  BY <1>1, <1>2, <1>3, <1>4

\* What a compilation arrives at, unless it raises.
LEMMA CompiledFacts ==
    ASSUME NEW scopes \in SUBSET Scopes, NEW found \in SUBSET Evidence,
           NEW saw \in SUBSET Evidence, NEW limits \in Limits,
           Compiled(scopes, found, saw, limits) # None
    PROVE  /\ Compiled(scopes, found, saw, limits) \in Receipt
           /\ Compiled(scopes, found, saw, limits).scopes = scopes
           /\ AccountsFor(Compiled(scopes, found, saw, limits), found, saw)
<1>1. PICK D : D = Discovered(found, saw, limits)
  OBVIOUS
<1>2. found \subseteq D /\ D \subseteq found \union saw
  BY <1>1, DiscoveredFacts
<1>3. PICK admitted : admitted = WithinQuota(Unique(Eligible(D)))
  OBVIOUS
<1>4. admitted \subseteq D /\ admitted \in SUBSET Evidence
  BY <1>2, <1>3 DEF WithinQuota, Unique, Eligible
<1>5. PICK ordered : ordered = Allocated(admitted)
  OBVIOUS
<1>6. ordered \in Seq(admitted) /\ ToSet(ordered) = admitted /\ Distinct(ordered)
  BY <1>4, <1>5, AllocatedFacts, SeqsFacts, EvidenceFacts
<1>7. Len(ordered) \in Nat /\ limits.candidates \in Nat
  BY <1>6, LenProperties DEF Limits
<1>8. PICK k \in Int : /\ k = Min({limits.candidates, Len(ordered)}) /\ k <= Len(ordered)
                       /\ k = limits.candidates \/ k = Len(ordered)
  <2>1. PICK a \in Nat, b \in Nat : a = limits.candidates /\ b = Len(ordered)
    BY <1>7
  <2>2. Min({a, b}) \in Int /\ Min({a, b}) <= b /\ (Min({a, b}) = a \/ Min({a, b}) = b)
    BY LesserOfTwo
  <2> QED
    BY <2>1, <2>2
<1>9. PICK candidates : candidates = SubSeq(ordered, 1, k)
  OBVIOUS
<1>10. /\ candidates \in Seq(admitted) /\ Distinct(candidates)
       /\ ToSet(candidates) \subseteq admitted
  BY <1>6, <1>8, <1>9, PrefixFacts
<1>11. k = Len(ordered) => candidates = ordered
  BY <1>6, <1>9, SubSeqFull
<1>12. candidates \in Seq(Evidence)
  BY <1>4, <1>10, SeqMonotonic
<1>13. PICK sel \in Account : sel = Selection(candidates) /\ Accounts(sel, ToSet(candidates))
  BY <1>10, <1>12, SelectionFacts
<1>14. PICK truncated \in BOOLEAN :
          truncated = (D # found \union saw \/ Len(ordered) > limits.candidates)
  OBVIOUS
<1>15. PICK missing \in BOOLEAN : missing = Missing(sel.selected)
  BY DEF Missing
<1>16. /\ sel.selected \in Seq(Evidence) /\ sel.omitted \subseteq Evidence /\ sel.zero \in Nat
  BY DEF Account
<1>17. PICK zero \in Nat :
          zero = sel.zero + IF Notified(sel, ordered, truncated) THEN NoticeCost ELSE 0
  <2>1. NoticeCost \in Nat
    BY ContextAssumption
  <2>2. PICK notice \in Nat : notice = IF Notified(sel, ordered, truncated) THEN NoticeCost ELSE 0
    BY <2>1
  <2>3. sel.zero + notice \in Nat
    BY <1>16, <2>2
  <2> QED
    BY <2>2, <2>3
<1>18. PICK rejected : rejected = D \ admitted
  OBVIOUS
<1>19. PICK r : r = [scopes |-> scopes, selected |-> sel.selected, omitted |-> sel.omitted,
                     rejected |-> rejected, truncated |-> truncated,
                     missing |-> missing, used |-> Usage(zero)]
  OBVIOUS
<1>20. Compiled(scopes, found, saw, limits) =
          IF \/ ~Fits(Base) \/ ~Fits(zero)
             \/ Len(candidates) + Cardinality(rejected) > limits.decisions
             \/ ~Exclusive(ToSet(candidates) \union rejected)
          THEN None ELSE r
  BY <1>1, <1>3, <1>5, <1>8, <1>9, <1>13, <1>14, <1>15, <1>17, <1>18, <1>19 DEF Compiled
<1>21. /\ Compiled(scopes, found, saw, limits) = r /\ Fits(zero)
       /\ Exclusive(ToSet(candidates) \union rejected)
  BY <1>20
<1>22. rejected \in SUBSET Evidence
  BY <1>2, <1>18
<1>23. r \in Receipt
  <2>1. Usage(zero) \in Nat
    BY <1>17, UsageIsNat
  <2> QED
    BY <1>14, <1>15, <1>16, <1>19, <1>22, <2>1 DEF Receipt
<1>24. /\ r.scopes = scopes /\ r.selected = sel.selected /\ r.omitted = sel.omitted
       /\ r.rejected = rejected /\ r.truncated = truncated /\ r.used = Usage(zero)
  BY <1>19
<1>25. AccountsFor(r, found, saw)
  <2>1. PICK chosen \in SUBSET Evidence : chosen = ToSet(sel.selected)
    BY <1>4, <1>10, <1>13 DEF Accounts
  <2>2. /\ chosen \union sel.omitted = ToSet(candidates)
        /\ chosen \intersect sel.omitted = {}
    BY <1>13, <2>1 DEF Accounts
  <2>3. Cardinality(chosen) = Len(sel.selected)
    BY <1>13, <1>16, <2>1, DistinctCount DEF Accounts
  <2>4. (chosen \union sel.omitted) \intersect rejected = {}
    BY <1>10, <1>18, <2>2
  <2>5. Cardinality(chosen) + Cardinality(sel.omitted) + Cardinality(rejected)
           = Cardinality(chosen \union sel.omitted \union rejected)
    BY <1>16, <1>22, <2>1, <2>2, <2>4, EvidenceFacts, CountThree
  <2>6. chosen \union sel.omitted \union rejected \subseteq found \union saw
    BY <1>2, <1>4, <1>10, <1>18, <2>2
  <2>7. chosen \union sel.omitted \union rejected # found \union saw => truncated
    <3>1. ASSUME ~truncated PROVE chosen \union sel.omitted \union rejected = found \union saw
      <4>1. D = found \union saw /\ ~(Len(ordered) > limits.candidates)
        BY <1>14, <3>1
      <4>2. k = Len(ordered)
        <5>1. limits.candidates = Len(ordered) \/ k = Len(ordered)
          BY <1>7, <1>8, <4>1
        <5> QED
          BY <1>7, <1>8, <5>1
      <4>3. ToSet(candidates) = admitted
        BY <1>6, <1>11, <4>2
      <4> QED
        BY <1>4, <1>18, <2>2, <4>1, <4>3
    <3> QED
      BY <3>1
  <2>8. Usage(zero) <= Ceiling
    BY <1>21 DEF Fits
  <2>9. ASSUME NEW e \in sel.omitted PROVE Usage(Total(sel.selected) + Cost[e]) > Ceiling
    <3>1. ~Fits(sel.zero + Cost[e]) /\ sel.zero = Total(sel.selected)
      BY <1>13 DEF Accounts
    <3>2. sel.zero + Cost[e] \in Nat
      <4>1. Cost[e] \in Nat
        BY <1>16, CostIsNat
      <4> QED
        BY <1>16, <4>1
    <3>3. Usage(sel.zero + Cost[e]) \in Nat
      BY <3>2, UsageIsNat
    <3>4. Ceiling \in Int
      <4>1. BudgetLimit \in Nat
        BY ContextAssumption
      <4> QED
        BY <4>1 DEF Ceiling
    <3>5. Usage(sel.zero + Cost[e]) > Ceiling
      BY <3>1, <3>3, <3>4 DEF Fits
    <3> QED
      BY <3>1, <3>5
  <2>10. \A x, y \in (chosen \union sel.omitted \union rejected) \cap Handles :
            Shows[x] = Shows[y] => x = y
    <3> SUFFICES ASSUME NEW x \in Handles, NEW y \in Handles,
                        x \in ToSet(candidates) \union rejected,
                        y \in ToSet(candidates) \union rejected, Shows[x] = Shows[y]
                 PROVE  x = y
      BY <2>2
    <3>1. Subject(x) = Subject(y)
      BY DEF Subject, KindOf
    <3> QED
      BY <1>21, <3>1 DEF Exclusive
  <2> QED
    BY <1>24, <2>1, <2>3, <2>5, <2>6, <2>7, <2>8, <2>9, <2>10 DEF AccountsFor
<1> QED
  BY <1>21, <1>23, <1>24, <1>25

-----------------------------------------------------------------------------
(* The rows of a document.                                                 *)

Extended(list, b, d) == IF DocumentOf[Home[b]] = d THEN Append(list, b) ELSE list

\* The rows of d are the ranked ones of that document, each once.
LEMMA RowsOfFacts ==
    ASSUME NEW S, order \in Seq(S), Distinct(order), NEW d
    PROVE  /\ RowsOf(d) \in Seq(S) /\ Distinct(RowsOf(d))
           /\ ToSet(RowsOf(d)) = {b \in ToSet(order) : DocumentOf[Home[b]] = d}
<1>1. PICK s \in Seq(S) : s = order
  OBVIOUS
<1>2. Distinct(s)
  BY <1>1
<1> DEFINE n == Len(s)
           Rec(f) == f = [i \in 0..n |->
                             IF i = 0 THEN <<>>
                             ELSE IF DocumentOf[Home[s[i]]] = d THEN Append(f[i-1], s[i])
                                                                ELSE f[i-1]]
           rows == CHOOSE f : Rec(f)
<1>3. n \in Nat /\ DOMAIN s = 1..n /\ \A i \in 1..n : s[i] \in S
  BY LenProperties
<1>4. RowsOf(d) = rows[n]
  BY <1>1 DEF RowsOf
<1>5. \A i, j \in 1..n : i # j => s[i] # s[j]
  BY <1>2 DEF Distinct
<1> HIDE DEF n
<1>6. PICK step : step = [tk \in Seq(S) \X (1..n) |-> Extended(tk[1], s[tk[2]], d)]
  OBVIOUS
<1>7. step \in [Seq(S) \X (1..n) -> Seq(S)]
  <2>1. \A list \in Seq(S), b \in S : Extended(list, b, d) \in Seq(S)
    BY AppendProperties DEF Extended
  <2> QED
    BY <1>3, <1>6, <2>1
<1>8. <<>> \in Seq(S)
  OBVIOUS
<1>9. PICK f \in [0..n -> Seq(S)] : Recurs(f, <<>>, n, step)
  BY <1>3, <1>7, <1>8, RecursionExists
<1>10. ASSUME NEW k \in 0..n PROVE f[k] = IF k = 0 THEN <<>> ELSE Extended(f[k-1], s[k], d)
  <2>1. CASE k = 0
    BY <1>9, <2>1 DEF Recurs
  <2>2. CASE k # 0
    <3>1. k - 1 \in 0..n /\ k \in 1..n
      BY <1>3, <2>2
    <3>2. <<f[k-1], k>> \in Seq(S) \X (1..n)
      BY <1>9, <3>1
    <3>3. f[k] = step[<<f[k-1], k>>]
      BY <1>9, <2>2 DEF Recurs
    <3> QED
      BY <1>6, <2>2, <3>2, <3>3
  <2> QED
    BY <2>1, <2>2
<1>11. Rec(f)
  BY <1>9, <1>10 DEF Extended
<1>12. Rec(rows)
  <2> HIDE DEF Rec
  <2> QED BY <1>11
<1> HIDE DEF rows
<1>13. \A k \in 0..n : rows[k] = IF k = 0 THEN <<>> ELSE Extended(rows[k-1], s[k], d)
  BY <1>12 DEF Extended
<1> DEFINE Upto(k) == {b \in {s[i] : i \in 1..k} : DocumentOf[Home[b]] = d}
           P == {k \in 0..n : /\ rows[k] \in Seq(S) /\ Distinct(rows[k])
                              /\ ToSet(rows[k]) = Upto(k)}
<1>14. 0 \in P
  <2>1. rows[0] = <<>>
    BY <1>3, <1>13
  <2>2. ToSet(<<>>) = {} /\ Distinct(<<>>)
    BY DEF ToSet, Distinct
  <2>3. Upto(0) = {}
    OBVIOUS
  <2> HIDE DEF Upto
  <2>4. rows[0] \in Seq(S) /\ Distinct(rows[0]) /\ ToSet(rows[0]) = Upto(0)
    BY <1>8, <2>1, <2>2, <2>3
  <2> QED
    BY <1>3, <2>4
<1>15. ASSUME NEW k \in 0..n, k # 0, k - 1 \in P PROVE k \in P
  <2>1. PICK last \in Seq(S) : last = rows[k-1] /\ Distinct(last) /\ ToSet(last) = Upto(k - 1)
    BY <1>15
  <2>2. rows[k] = Extended(last, s[k], d)
    BY <1>13, <1>15, <2>1
  <2>3. k \in 1..n /\ s[k] \in S /\ s[k] \notin {s[i] : i \in 1..(k-1)}
    BY <1>3, <1>5, <1>15
  <2>4. {s[i] : i \in 1..k} = {s[i] : i \in 1..(k-1)} \union {s[k]}
    BY <2>3
  <2>5. CASE DocumentOf[Home[s[k]]] = d
    <3>1. rows[k] = Append(last, s[k])
      BY <2>2, <2>5 DEF Extended
    <3>2. Upto(k) = Upto(k - 1) \union {s[k]} /\ s[k] \notin Upto(k - 1)
      BY <2>3, <2>4, <2>5
    <3> HIDE DEF Upto
    <3>3. rows[k] \in Seq(S) /\ Distinct(rows[k]) /\ ToSet(rows[k]) = Upto(k)
      BY <2>1, <2>3, <3>1, <3>2, AppendFacts
    <3> QED
      BY <3>3
  <2>6. CASE DocumentOf[Home[s[k]]] # d
    <3>1. rows[k] = last
      BY <2>2, <2>6 DEF Extended
    <3>2. Upto(k) = Upto(k - 1)
      BY <2>4, <2>6
    <3> HIDE DEF Upto
    <3> QED
      BY <2>1, <3>1, <3>2
  <2> QED
    BY <2>5, <2>6
<1>16. n \in P
  <2> HIDE DEF P
  <2>1. \A k \in 0..n : k # 0 /\ k - 1 \in P => k \in P
    BY <1>15
  <2>2. \A k \in 0..n : k \in P
    BY <1>3, <1>14, <2>1, Climb
  <2> QED
    BY <1>3, <2>2
<1>17. {s[i] : i \in 1..n} = ToSet(s)
  BY <1>3 DEF ToSet
<1> QED
  BY <1>1, <1>4, <1>16, <1>17
-----------------------------------------------------------------------------
(* The inductive invariant.                                                *)

\* The rows of a document once the scopes of S are indexed, and what matches in S.
RowsIn(d, S) == {b \in Rows : Home[b] \in S /\ DocumentOf[Home[b]] = d}
Matches(S) == {e \in Hits : Home[e] \in S}

Compiler == [at: Places, replay: Receipt \union {None}, docs: SUBSET Documents,
             todo: SUBSET Documents, limits: LimitsOffered, scopes: SUBSET Scopes,
             offset: Nat, available: Nat \union {None}, seen: SUBSET Rows,
             found: SUBSET Hits, saw: SUBSET Handles, result: Receipt \union {None}]

\* A head is a version of its document.
HeadsInv == \A d \in Documents : head[d] # None => DocumentOf[head[d]] = d

\* A stored receipt is what its scopes, its visual records and its limits determine.
MadeInv ==
    \A m \in made :
        LET S == m.receipt.scopes
        IN  m.receipt = Compiled(S, Matches(S), m.saw, m.limits)

\* Where a compiler stands, with R ready, V recorded and T stored.
Placed(c, R, V, T) ==
    /\ c.replay \in T \union {None} /\ c.todo \subseteq c.docs
    /\ c.scopes \subseteq R /\ c.saw \subseteq V
    /\ \A s \in c.scopes : DocumentOf[s] \in c.docs

\* While the heads are read, for a new receipt, nothing has been found.
Resolves(c) ==
    c.at = "resolve" => c.replay = None /\ c.todo # {} /\ c.found = {} /\ c.seen = {}

\* While pages are read, every match of a document that is done is found, and of the
\* document at hand every match on a page that was read.
Reads(c, R) ==
    c.at = "text" =>
        /\ c.found \subseteq Matches(c.scopes) \intersect Blocks
        /\ c.seen \subseteq RowsIn(Min(c.todo), R)
        /\ \A b \in Matches(c.scopes) \intersect Blocks :
              DocumentOf[Home[b]] \in c.docs \ c.todo \/ b \in c.seen => b \in c.found

\* Then the blocks that match are found, and then all that matches.
Finds(c) ==
    /\ c.at = "rich" => c.found = Matches(c.scopes) \intersect Blocks
    /\ c.at \in {"visual", "select", "commit", "compare"} => c.found = Matches(c.scopes)

\* What is arrived at is compiled from that; a replay has its receipt's scopes.
Arrives(c) ==
    /\ c.at \in {"commit", "compare"} =>
          c.result # None /\ c.result = Compiled(c.scopes, c.found, c.saw, c.limits)
    /\ c.at = "compare" => c.replay # None
    /\ c.replay # None => c.scopes = c.replay.scopes /\ c.limits = DefaultLimits

Stands(c, R, V, T) ==
    Placed(c, R, V, T) /\ Resolves(c) /\ Reads(c, R) /\ Finds(c) /\ Arrives(c)

ProcInv ==
    /\ proc \in [Compilers -> Compiler]
    /\ \A p \in Compilers : Stands(proc[p], ready, visual, stored)

\* The types of what the compilers share.
SharedInv ==
    /\ ready \subseteq Scopes /\ head \in [Documents -> ready \union {None}]
    /\ order \in Rankings(ready) /\ visual \subseteq Handles
    /\ stored \subseteq Receipt /\ {m.receipt : m \in made} = stored
    /\ \A r \in stored : r.scopes \subseteq ready

IInv == SharedInv /\ HeadsInv /\ MadeInv /\ ProcInv

\* The rows of d, in the state: those of all its versions that are indexed.
LEMMA RowsFacts ==
    ASSUME SharedInv, NEW d
    PROVE  /\ RowsOf(d) \in Seq(Rows)
           /\ ToSet(RowsOf(d)) = RowsIn(d, ready)
           /\ IsFiniteSet(RowsIn(d, ready))
           /\ Cardinality(RowsIn(d, ready)) = Len(RowsOf(d))
<1>1. PICK S \in SUBSET Rows : S = {b \in Rows : Home[b] \in ready}
  OBVIOUS
<1>2. Rows \subseteq Evidence
  BY ContextAssumption DEF Evidence
<1>3. order \in SetToSeqs(S)
  BY <1>1 DEF SharedInv, Rankings
<1>4. order \in Seq(S) /\ ToSet(order) = S /\ Distinct(order)
  BY <1>1, <1>2, <1>3, SeqsFacts, EvidenceFacts
<1>5. /\ RowsOf(d) \in Seq(S) /\ Distinct(RowsOf(d))
      /\ ToSet(RowsOf(d)) = {b \in S : DocumentOf[Home[b]] = d}
  BY <1>4, RowsOfFacts
<1>6. ToSet(RowsOf(d)) = RowsIn(d, ready)
  BY <1>1, <1>5 DEF RowsIn
<1>7. RowsOf(d) \in Seq(Rows)
  BY <1>5, SeqMonotonic
<1> QED
  BY <1>5, <1>6, <1>7, DistinctCount

\* What is true of a compiler stays true when there is more.
LEMMA StandsGrows ==
    ASSUME NEW c, NEW R, NEW V, NEW T, NEW R2, NEW V2, NEW T2,
           R \subseteq R2, V \subseteq V2, T \subseteq T2, Stands(c, R, V, T)
    PROVE  Stands(c, R2, V2, T2)
<1>1. Placed(c, R2, V2, T2)
  BY DEF Stands, Placed
<1>2. Reads(c, R2)
  BY DEF Stands, Reads, RowsIn
<1> QED
  BY <1>1, <1>2 DEF Stands

\* Nothing is asked of a compiler that is idle.
LEMMA IdleStands ==
    Idle \in Compiler /\ \A R, V, T : Stands(Idle, R, V, T)
<1>1. DefaultLimits \in LimitsOffered
  BY ContextAssumption
<1>2. Idle \in Compiler
  BY <1>1 DEF Idle, Compiler, Places
<1>3. ASSUME NEW R, NEW V, NEW T PROVE Stands(Idle, R, V, T)
  BY DEF Stands, Placed, Resolves, Reads, Finds, Arrives, Idle
<1> QED
  BY <1>2, <1>3

\* A step of one compiler that changes nothing else.
LEMMA StepKeeps ==
    ASSUME IInv, NEW p \in Compilers, NEW next \in Compiler,
           Stands(next, ready, visual, stored), Goto(p, next),
           UNCHANGED <<ready, head, order, visual, stored, made>>
    PROVE  IInv'
<1>1. proc' \in [Compilers -> Compiler]
  BY DEF IInv, ProcInv, Goto
<1>2. ASSUME NEW q \in Compilers PROVE Stands(proc'[q], ready, visual, stored)
  <2>1. proc'[q] = IF q = p THEN next ELSE proc[q]
    BY DEF IInv, ProcInv, Goto
  <2> QED
    BY <2>1 DEF IInv, ProcInv
<1>3. ProcInv'
  BY <1>1, <1>2 DEF ProcInv
<1> QED
  BY <1>3 DEF IInv, SharedInv, HeadsInv, MadeInv

\* Nor of one that ends, for whatever reason.
LEMMA RaiseKeeps ==
    ASSUME IInv, NEW p \in Compilers, Raise(p),
           UNCHANGED <<ready, head, order, visual, stored, made>>
    PROVE  IInv'
BY IdleStands, StepKeeps DEF Raise
-----------------------------------------------------------------------------
(* Every action keeps the invariant.                                       *)

\* A compilation starts with documents to resolve and with nothing found.
LEMMA CompileKeeps ==
    ASSUME IInv, NEW p \in Compilers, Compile(p)
    PROVE  IInv'
<1>1. PICK docs \in (SUBSET Documents) \ {{}}, limits \in LimitsOffered :
         Goto(p, [Idle EXCEPT !.at = "resolve", !.docs = docs, !.todo = docs, !.limits = limits])
  BY DEF Compile
<1>2. PICK next : next = [Idle EXCEPT !.at = "resolve", !.docs = docs, !.todo = docs,
                                      !.limits = limits]
  OBVIOUS
<1>3. next = [at |-> "resolve", replay |-> None, docs |-> docs, todo |-> docs,
              limits |-> limits, scopes |-> {}, offset |-> 0, available |-> None,
              seen |-> {}, found |-> {}, saw |-> {}, result |-> None]
  BY <1>2 DEF Idle
<1>4. next \in Compiler
  BY <1>3 DEF Compiler, Places
<1>5. Stands(next, ready, visual, stored)
  <2>1. /\ next.at = "resolve" /\ next.replay = None /\ next.docs = docs /\ next.todo = docs
        /\ next.scopes = {} /\ next.seen = {} /\ next.found = {} /\ next.saw = {}
    BY <1>3
  <2>2. docs # {}
    BY <1>1
  <2>3. Placed(next, ready, visual, stored) /\ Resolves(next)
    BY <2>1, <2>2 DEF Placed, Resolves
  <2>4. Reads(next, ready) /\ Finds(next) /\ Arrives(next)
    BY <2>1 DEF Reads, Finds, Arrives
  <2> QED
    BY <2>3, <2>4 DEF Stands
<1> QED
  BY <1>1, <1>2, <1>4, <1>5, StepKeeps DEF Compile

\* The compiler at hand.
LEMMA AtHand ==
    ASSUME IInv, NEW p \in Compilers
    PROVE  proc[p] \in Compiler /\ Stands(proc[p], ready, visual, stored)
BY DEF IInv, ProcInv

\* A head is a version of its document that is indexed; after the last one the pages begin.
LEMMA ResolveKeeps ==
    ASSUME IInv, NEW p \in Compilers, Resolve(p)
    PROVE  IInv'
<1>1. PICK c \in Compiler : c = proc[p] /\ Stands(c, ready, visual, stored)
  BY AtHand
<1>2. c.at = "resolve"
  BY <1>1 DEF Resolve, At
<1>3. /\ c.replay = None /\ c.todo # {} /\ c.found = {} /\ c.seen = {} /\ c.todo \subseteq c.docs
      /\ c.todo \subseteq Documents
  BY <1>1, <1>2 DEF Stands, Resolves, Placed, Compiler
<1>4. PICK d \in c.todo : d = Upcoming(p)
  BY <1>1, <1>3, MinFacts, ContextAssumption DEF Upcoming
<1>5. CASE head[d] = None
  BY <1>4, <1>5, RaiseKeeps DEF Resolve
<1>6. CASE head[d] # None
  <2>1. head[d] \in ready /\ ready \subseteq Scopes /\ DocumentOf[head[d]] = d
    BY <1>3, <1>4, <1>6 DEF IInv, SharedInv, HeadsInv
  <2>2. PICK left \in SUBSET Documents : left = c.todo \ {d}
    BY <1>3
  <2>3. PICK next : next = [c EXCEPT
                    !.scopes = @ \union {head[d]},
                    !.at = IF left = {} THEN "text" ELSE "resolve",
                    !.todo = IF left = {} THEN c.docs ELSE left]
    OBVIOUS
  <2>4. Goto(p, next)
    BY <1>1, <1>4, <1>6, <2>2, <2>3 DEF Resolve
  <2>5. next \in Compiler
    BY <1>3, <2>1, <2>3 DEF Compiler, Places
  <2>6. /\ next.docs = c.docs /\ next.replay = c.replay /\ next.limits = c.limits
        /\ next.seen = {} /\ next.found = {} /\ next.saw = c.saw
        /\ next.scopes = c.scopes \union {head[d]}
        /\ next.at = (IF left = {} THEN "text" ELSE "resolve")
        /\ next.todo = IF left = {} THEN c.docs ELSE left
    BY <1>3, <2>3 DEF Compiler
  <2>7. Placed(next, ready, visual, stored)
    BY <1>1, <1>3, <1>4, <2>1, <2>2, <2>6 DEF Stands, Placed
  <2>8. Resolves(next)
    BY <1>3, <2>6 DEF Resolves
  <2>9. Reads(next, ready)
    <3>1. CASE left = {}
      BY <2>6, <3>1 DEF Reads
    <3>2. CASE left # {}
      BY <2>6, <3>2 DEF Reads
    <3> QED
      BY <3>1, <3>2
  <2>10. Finds(next)
    BY <2>6 DEF Finds
  <2>11. Arrives(next)
    BY <1>3, <2>6 DEF Arrives
  <2> QED
    BY <2>4, <2>5, <2>7, <2>8, <2>9, <2>10, <2>11, StepKeeps DEF Resolve, Stands
<1> QED
  BY <1>5, <1>6

\* A replay begins at the pages, for the scopes of its receipt.
LEMMA ReplayKeeps ==
    ASSUME IInv, NEW p \in Compilers, Replay(p)
    PROVE  IInv'
<1>1. PICK r \in stored :
         LET docs == {DocumentOf[s] : s \in r.scopes}
         IN  Goto(p, [Idle EXCEPT !.at = "text", !.replay = r, !.docs = docs,
                                  !.todo = docs, !.scopes = r.scopes])
  BY DEF Replay
<1>2. r \in Receipt
  BY DEF IInv, SharedInv
<1>3. PICK docs : docs = {DocumentOf[s] : s \in r.scopes}
  OBVIOUS
<1>4. docs \in SUBSET Documents /\ r.scopes \subseteq Scopes
  BY <1>2, <1>3, ContextAssumption DEF Receipt
<1>5. PICK next : next = [Idle EXCEPT !.at = "text", !.replay = r, !.docs = docs,
                                      !.todo = docs, !.scopes = r.scopes]
  OBVIOUS
<1>6. next = [at |-> "text", replay |-> r, docs |-> docs, todo |-> docs,
              limits |-> DefaultLimits, scopes |-> r.scopes, offset |-> 0, available |-> None,
              seen |-> {}, found |-> {}, saw |-> {}, result |-> None]
  BY <1>5 DEF Idle
<1>7. next \in Compiler
  BY <1>2, <1>4, <1>6, ContextAssumption DEF Compiler, Places
<1>8. Stands(next, ready, visual, stored)
  <2>1. r.scopes \subseteq ready
    BY DEF IInv, SharedInv
  <2> QED
    BY <1>3, <1>6, <2>1 DEF Stands, Placed, Resolves, Reads, Finds, Arrives
<1> QED
  BY <1>1, <1>3, <1>5, <1>7, <1>8, StepKeeps DEF Replay

\* What a page of the index has.
LEMMA PageFacts ==
    ASSUME IInv, NEW d, NEW offset \in Nat, NEW k \in Int, k <= Len(RowsOf(d))
    PROVE  LET page == SubSeq(RowsOf(d), offset + 1, k)
           IN  page \in Seq(Rows) /\ Len(page) \in Nat /\ ToSet(page) \subseteq RowsIn(d, ready)
<1>1. /\ RowsOf(d) \in Seq(Rows) /\ ToSet(RowsOf(d)) = RowsIn(d, ready)
  BY RowsFacts DEF IInv
<1>2. offset + 1 \in Nat /\ offset + 1 >= 1
  OBVIOUS
<1> QED
  BY <1>1, <1>2, SliceFacts

\* A page.  The count of the rows is that of the first page, and no row has come twice: when
\* as many are seen as are counted, all rows of the document are, in whatever order.
LEMMA PageKeeps ==
    ASSUME IInv, NEW p \in Compilers, Page(p)
    PROVE  IInv'
<1>1. PICK c \in Compiler : c = proc[p] /\ Stands(c, ready, visual, stored)
  BY AtHand
<1>2. c.at = "text"
  BY <1>1 DEF Page, At
<1>3. PICK d : d = Upcoming(p) /\ d = Min(c.todo)
  BY <1>1 DEF Upcoming
<1>4. PICK rows \in Seq(Rows) : rows = RowsOf(d)
  BY RowsFacts DEF IInv
<1>5. PICK count \in Nat : count = Len(rows) /\ count = Cardinality(RowsIn(d, ready))
  BY <1>4, RowsFacts, LenProperties DEF IInv
<1>6. c.offset \in Nat /\ PageSize \in Nat
  BY ContextAssumption DEF Compiler
<1>7. PICK k \in Int : k = Min({c.offset + PageSize, Len(rows)}) /\ k <= Len(rows)
  <2>1. PICK reach \in Int : reach = c.offset + PageSize
    BY <1>6
  <2>2. Min({reach, count}) \in Int /\ Min({reach, count}) <= count
    <3>1. \A a \in Int : \A b \in Nat : Min({a, b}) \in Int /\ Min({a, b}) <= b
      BY LesserOfTwo
    <3> QED
      BY <3>1
  <2> QED
    BY <1>5, <2>1, <2>2
<1>8. PICK page \in Seq(Rows) : /\ page = SubSeq(rows, c.offset + 1, k)
                                /\ Len(page) \in Nat /\ ToSet(page) \subseteq RowsIn(d, ready)
  BY <1>4, <1>6, <1>7, PageFacts
<1>9. PICK seen \in SUBSET RowsIn(d, ready) : seen = c.seen \union ToSet(page)
  BY <1>1, <1>2, <1>3, <1>8 DEF Stands, Reads
<1>10. PICK accepted : accepted = {b \in ToSet(page) \intersect Hits : Home[b] \in c.scopes}
  OBVIOUS
<1>11. accepted = Accepted(p, page)
  BY <1>1, <1>10 DEF Accepted
<1>12. PICK found : found = c.found \union accepted
  OBVIOUS
<1>13. /\ c.found \subseteq Matches(c.scopes) \intersect Blocks
       /\ \A b \in Matches(c.scopes) \intersect Blocks :
             DocumentOf[Home[b]] \in c.docs \ c.todo \/ b \in c.seen => b \in c.found
  BY <1>1, <1>2 DEF Stands, Reads
<1>14. RowsIn(d, ready) \subseteq Rows /\ Rows \subseteq Blocks
  BY ContextAssumption DEF RowsIn
<1>15. /\ found \subseteq Matches(c.scopes) \intersect Blocks /\ found \in SUBSET Hits
       /\ \A b \in Matches(c.scopes) \intersect Blocks :
             DocumentOf[Home[b]] \in c.docs \ c.todo \/ b \in seen => b \in found
  BY <1>8, <1>9, <1>10, <1>12, <1>13, <1>14 DEF Matches
<1>16. PICK left \in SUBSET Documents : left = c.todo \ {d}
  BY DEF Compiler
<1>17. PICK available : available = IF c.available = None THEN Len(rows) ELSE c.available
  OBVIOUS
<1>18. PICK offset \in Nat : offset = c.offset + Len(page)
  BY <1>6, <1>8
<1>19. PICK fails \in BOOLEAN :
          fails = (\/ Drifts(p, page, Len(rows))
                   \/ page = <<>> /\ c.offset < available
                   \/ Overflows(p, page)
                   \/ offset >= available /\ available # Cardinality(seen))
  OBVIOUS
<1>20. PICK more : more = [[c EXCEPT !.found = @ \union accepted] EXCEPT
                              !.offset = offset, !.available = available,
                              !.seen = @ \union ToSet(page)]
  OBVIOUS
<1>21. PICK last : last = [[c EXCEPT !.found = @ \union accepted] EXCEPT
                              !.offset = 0, !.available = None, !.seen = {},
                              !.at = IF left = {} THEN "rich" ELSE "text", !.todo = left]
  OBVIOUS
<1>22. IF fails THEN Raise(p) ELSE IF offset < available THEN Goto(p, more) ELSE Goto(p, last)
  BY <1>1, <1>3, <1>4, <1>7, <1>8, <1>9, <1>11, <1>16, <1>17, <1>18, <1>19, <1>20, <1>21
     DEF Page
<1>23. UNCHANGED <<ready, head, order, visual, stored, made>>
  BY DEF Page
<1>24. CASE fails
  BY <1>22, <1>23, <1>24, RaiseKeeps
<1>25. CASE ~fails
  <2>1. available = count
    BY <1>1, <1>5, <1>17, <1>19, <1>25 DEF Drifts
  <2>2. CASE offset < available
    <3>1. more \in Compiler
      BY <1>9, <1>12, <1>14, <1>15, <1>20, <2>1 DEF Compiler
    <3>2. /\ more.at = "text" /\ more.docs = c.docs /\ more.todo = c.todo
          /\ more.scopes = c.scopes /\ more.replay = c.replay /\ more.limits = c.limits
          /\ more.saw = c.saw /\ more.found = found /\ more.seen = seen
      BY <1>2, <1>9, <1>12, <1>20 DEF Compiler
    <3>3. Placed(more, ready, visual, stored)
      BY <1>1, <3>2 DEF Stands, Placed
    <3>4. Reads(more, ready)
      BY <1>3, <1>9, <1>15, <3>2 DEF Reads
    <3>5. Resolves(more) /\ Finds(more) /\ Arrives(more)
      BY <1>1, <3>2 DEF Stands, Resolves, Finds, Arrives
    <3> QED
      BY <1>22, <1>23, <1>25, <2>2, <3>1, <3>3, <3>4, <3>5, StepKeeps DEF Stands
  <2>3. CASE ~(offset < available)
    <3>1. count = Cardinality(seen)
      BY <1>19, <1>25, <2>1, <2>3
    <3>2. seen = RowsIn(d, ready)
      <4>1. IsFiniteSet(RowsIn(d, ready))
        BY RowsFacts DEF IInv
      <4> QED
        BY <1>5, <3>1, <4>1, FS_Subset
    <3>3. \A b \in Matches(c.scopes) \intersect Blocks : DocumentOf[Home[b]] = d => b \in found
      <4>1. ASSUME NEW b \in Matches(c.scopes) \intersect Blocks, DocumentOf[Home[b]] = d
            PROVE  b \in seen
        <5>1. b \in Rows
          BY ContextAssumption DEF Matches
        <5>2. Home[b] \in ready
          BY <1>1 DEF Matches, Stands, Placed
        <5> QED
          BY <3>2, <4>1, <5>1, <5>2 DEF RowsIn
      <4> QED
        BY <1>15, <4>1
    <3>4. last \in Compiler
      BY <1>12, <1>15, <1>16, <1>21 DEF Compiler, Places
    <3>5. /\ last.docs = c.docs /\ last.todo = left
          /\ last.scopes = c.scopes /\ last.replay = c.replay /\ last.limits = c.limits
          /\ last.saw = c.saw /\ last.found = found /\ last.seen = {}
          /\ last.at = IF left = {} THEN "rich" ELSE "text"
      BY <1>12, <1>21 DEF Compiler
    <3>6. Placed(last, ready, visual, stored)
      BY <1>1, <1>16, <3>5 DEF Stands, Placed
    <3>7. Resolves(last) /\ Arrives(last)
      BY <1>1, <3>5 DEF Stands, Resolves, Arrives
    <3>8. CASE left = {}
      <4>1. \A b \in Matches(c.scopes) : DocumentOf[Home[b]] \in c.docs
        BY <1>1 DEF Stands, Placed, Matches
      <4>2. found = Matches(c.scopes) \intersect Blocks
        BY <1>15, <1>16, <3>3, <3>8, <4>1
      <4>3. Finds(last) /\ Reads(last, ready)
        BY <3>5, <3>8, <4>2 DEF Finds, Reads
      <4> QED
        BY <1>22, <1>23, <1>25, <2>3, <3>4, <3>6, <3>7, <4>3, StepKeeps DEF Stands
    <3>9. CASE left # {}
      <4>1. Finds(last)
        BY <3>5, <3>9 DEF Finds
      <4>2. Reads(last, ready)
        BY <1>15, <1>16, <3>3, <3>5 DEF Reads
      <4> QED
        BY <1>22, <1>23, <1>25, <2>3, <3>4, <3>6, <3>7, <4>1, <4>2, StepKeeps DEF Stands
    <3> QED
      BY <3>8, <3>9
  <2> QED
    BY <2>2, <2>3
<1> QED
  BY <1>24, <1>25

\* What matches is a block or a projection.
LEMMA HitsFacts ==
    /\ Hits \subseteq Evidence /\ Handles \subseteq Evidence
    /\ \A S : Matches(S) = (Matches(S) \intersect Blocks)
                              \union ({e \in Projections : Home[e] \in S} \intersect Hits)
BY ContextAssumption DEF Evidence, Matches

\* The projections of the snapshot do not change: with those that match, all that matches is found.
LEMMA ScanKeeps ==
    ASSUME IInv, NEW p \in Compilers, Scan(p)
    PROVE  IInv'
<1>1. PICK c \in Compiler : c = proc[p] /\ Stands(c, ready, visual, stored)
  BY AtHand
<1>2. c.at = "rich"
  BY <1>1 DEF Scan, At
<1>3. PICK matches : matches = {e \in Projections : Home[e] \in c.scopes} \intersect Hits
  OBVIOUS
<1>4. c.found \union matches = Matches(c.scopes)
  BY <1>1, <1>2, <1>3, HitsFacts DEF Stands, Finds
<1>5. PICK next : next = [c EXCEPT !.found = @ \union matches, !.at = "visual", !.todo = c.docs]
  OBVIOUS
<1>6. Raise(p) \/ Goto(p, next)
  BY <1>1, <1>3, <1>5 DEF Scan
<1>7. next \in Compiler
  BY <1>3, <1>5 DEF Compiler, Places
<1>8. /\ next.at = "visual" /\ next.docs = c.docs /\ next.todo = c.docs
      /\ next.scopes = c.scopes /\ next.replay = c.replay /\ next.limits = c.limits
      /\ next.saw = c.saw /\ next.found = Matches(c.scopes)
  BY <1>4, <1>5 DEF Compiler
<1>9. Stands(next, ready, visual, stored)
  BY <1>1, <1>8 DEF Stands, Placed, Resolves, Reads, Finds, Arrives
<1> QED
  BY <1>6, <1>7, <1>9, StepKeeps, RaiseKeeps DEF Scan

\* Only records that exist are seen.
LEMMA ListVisualKeeps ==
    ASSUME IInv, NEW p \in Compilers, ListVisual(p)
    PROVE  IInv'
<1>1. PICK c \in Compiler : c = proc[p] /\ Stands(c, ready, visual, stored)
  BY AtHand
<1>2. c.at = "visual"
  BY <1>1 DEF ListVisual, At
<1>3. PICK left \in SUBSET c.todo : left = c.todo \ {Upcoming(p)}
  OBVIOUS
<1>4. PICK saw : saw = c.saw \union {h \in visual : /\ Home[h] \in c.scopes
                                                  /\ DocumentOf[Home[h]] = Upcoming(p)}
  OBVIOUS
<1>5. saw \subseteq visual /\ visual \subseteq Handles
  BY <1>1, <1>4 DEF Stands, Placed, IInv, SharedInv
<1>6. PICK next : next = [c EXCEPT !.saw = saw, !.todo = left,
                                   !.at = IF left = {} THEN "select" ELSE "visual"]
  OBVIOUS
<1>7. Raise(p) \/ Goto(p, next)
  BY <1>1, <1>3, <1>4, <1>6 DEF ListVisual
<1>8. next \in Compiler
  BY <1>3, <1>5, <1>6 DEF Compiler, Places
<1>9. /\ next.at \in {"select", "visual"} /\ next.docs = c.docs /\ next.todo = left
      /\ next.scopes = c.scopes /\ next.replay = c.replay /\ next.limits = c.limits
      /\ next.saw = saw /\ next.found = c.found
  BY <1>6 DEF Compiler
<1>10. Placed(next, ready, visual, stored)
  BY <1>1, <1>3, <1>5, <1>9 DEF Stands, Placed
<1>11. Resolves(next) /\ Reads(next, ready) /\ Finds(next) /\ Arrives(next)
  BY <1>1, <1>2, <1>9 DEF Stands, Resolves, Reads, Finds, Arrives
<1> QED
  BY <1>7, <1>8, <1>10, <1>11, StepKeeps, RaiseKeeps DEF ListVisual, Stands

\* A receipt is compiled from what was found and seen, or the compilation raises.
LEMMA SelectKeeps ==
    ASSUME IInv, NEW p \in Compilers, Select(p)
    PROVE  IInv'
<1>1. PICK c \in Compiler : c = proc[p] /\ Stands(c, ready, visual, stored)
  BY AtHand
<1>2. c.at = "select"
  BY <1>1 DEF Select, At
<1>3. PICK r : r = Compiled(c.scopes, c.found, c.saw, c.limits)
  OBVIOUS
<1>4. PICK next : next = [c EXCEPT !.result = r,
                                   !.at = IF c.replay = None THEN "commit" ELSE "compare"]
  OBVIOUS
<1>5. IF r = None THEN Raise(p) ELSE Goto(p, next)
  BY <1>1, <1>3, <1>4 DEF Select
<1>6. CASE r = None
  BY <1>5, <1>6, RaiseKeeps DEF Select
<1>7. CASE r # None
  <2>1. /\ c.scopes \in SUBSET Scopes /\ c.found \in SUBSET Evidence
        /\ c.saw \in SUBSET Evidence /\ c.limits \in Limits
    BY HitsFacts, ContextAssumption DEF Compiler
  <2>2. r \in Receipt
    BY <1>3, <1>7, <2>1, CompiledFacts
  <2>3. next \in Compiler
    BY <1>4, <2>2 DEF Compiler, Places
  <2>4. /\ next.at = (IF c.replay = None THEN "commit" ELSE "compare")
        /\ next.docs = c.docs /\ next.todo = c.todo /\ next.result = r
        /\ next.scopes = c.scopes /\ next.replay = c.replay /\ next.limits = c.limits
        /\ next.saw = c.saw /\ next.found = c.found
    BY <1>4 DEF Compiler
  <2>5. Placed(next, ready, visual, stored)
    BY <1>1, <2>4 DEF Stands, Placed
  <2>6. Resolves(next) /\ Reads(next, ready) /\ Finds(next)
    BY <1>1, <1>2, <2>4 DEF Stands, Resolves, Reads, Finds
  <2>7. Arrives(next)
    BY <1>1, <1>3, <1>7, <2>4 DEF Stands, Arrives
  <2> QED
    BY <1>5, <1>7, <2>3, <2>5, <2>6, <2>7, StepKeeps DEF Select, Stands
<1> QED
  BY <1>6, <1>7

\* What is stored is what its scopes, its visual records and its limits determine.
LEMMA CommitKeeps ==
    ASSUME IInv, NEW p \in Compilers, Commit(p)
    PROVE  IInv'
<1>1. PICK c \in Compiler : c = proc[p] /\ Stands(c, ready, visual, stored)
  BY AtHand
<1>2. /\ c.at = "commit" /\ c.scopes \subseteq ready
      /\ stored' = stored \union {c.result}
      /\ made' = made \union {[receipt |-> c.result, saw |-> c.saw, limits |-> c.limits]}
      /\ proc' = [proc EXCEPT ![p] = Idle]
      /\ ready' = ready /\ head' = head /\ order' = order /\ visual' = visual
  BY <1>1 DEF Commit, At, Raise, Goto
<1>3. /\ c.result # None /\ c.found = Matches(c.scopes)
      /\ c.result = Compiled(c.scopes, c.found, c.saw, c.limits)
  BY <1>1, <1>2 DEF Stands, Arrives, Finds
<1>4. /\ c.scopes \in SUBSET Scopes /\ c.found \in SUBSET Evidence
      /\ c.saw \in SUBSET Evidence /\ c.limits \in Limits
  BY HitsFacts, ContextAssumption DEF Compiler
<1>5. c.result \in Receipt /\ c.result.scopes = c.scopes
  BY <1>3, <1>4, CompiledFacts
<1>6. PICK new : new = [receipt |-> c.result, saw |-> c.saw, limits |-> c.limits]
  OBVIOUS
<1>7. SharedInv'
  <2>1. stored' \subseteq Receipt /\ \A r \in stored' : r.scopes \subseteq ready
    BY <1>2, <1>5 DEF IInv, SharedInv
  <2>2. {m.receipt : m \in made'} = stored'
    <3>1. {m.receipt : m \in made} = stored
      BY DEF IInv, SharedInv
    <3>2. made' = made \union {new} /\ new.receipt = c.result
      BY <1>2, <1>6
    <3> QED
      BY <1>2, <3>1, <3>2
  <2> QED
    BY <1>2, <2>1, <2>2 DEF IInv, SharedInv, Rankings
<1>8. MadeInv'
  <2>1. ASSUME NEW m \in made'
        PROVE  m.receipt = Compiled(m.receipt.scopes, Matches(m.receipt.scopes), m.saw, m.limits)
    <3>1. CASE m \in made
      BY <3>1 DEF IInv, MadeInv
    <3>2. CASE m = new
      BY <1>3, <1>5, <1>6, <3>2
    <3> QED
      BY <1>2, <1>6, <3>1, <3>2
  <2> QED
    BY <2>1 DEF MadeInv
<1>9. ProcInv'
  <2>1. proc' \in [Compilers -> Compiler]
    BY <1>2, IdleStands DEF IInv, ProcInv
  <2>2. ASSUME NEW q \in Compilers PROVE Stands(proc'[q], ready', visual', stored')
    <3>1. CASE q = p
      BY <1>2, <3>1, IdleStands DEF IInv, ProcInv
    <3>2. CASE q # p
      <4>1. proc'[q] = proc[q] /\ Stands(proc[q], ready, visual, stored)
        BY <1>2, <3>2 DEF IInv, ProcInv
      <4>2. ready \subseteq ready' /\ visual \subseteq visual' /\ stored \subseteq stored'
        BY <1>2
      <4> QED
        BY <4>1, <4>2, StandsGrows
    <3> QED
      BY <3>1, <3>2
  <2> QED
    BY <2>1, <2>2 DEF ProcInv
<1> QED
  BY <1>2, <1>7, <1>8, <1>9 DEF IInv, HeadsInv

\* An ingestion adds rows and ranks them anew, and moves one head to the version it made ready.
LEMMA IngestKeeps ==
    ASSUME IInv, NEW s \in Scopes, Ingest(s)
    PROVE  IInv'
<1>1. /\ ready' = ready \union {s} /\ ready' \subseteq Scopes
      /\ visual' = visual /\ stored' = stored /\ made' = made /\ proc' = proc
  BY DEF Ingest, IInv, SharedInv
<1>2. head' = [head EXCEPT ![DocumentOf[s]] = s] \/ head' = head
  BY DEF Ingest
<1>3. head \in [Documents -> ready \union {None}] /\ DocumentOf[s] \in Documents
  BY ContextAssumption DEF IInv, SharedInv
<1>4. head' \in [Documents -> ready' \union {None}] /\ HeadsInv'
  <2>1. CASE head' = head
    BY <1>1, <1>3, <2>1 DEF IInv, HeadsInv
  <2>2. CASE head' = [head EXCEPT ![DocumentOf[s]] = s]
    BY <1>1, <1>3, <2>2 DEF IInv, HeadsInv
  <2> QED
    BY <1>2, <2>1, <2>2
<1>5. order' \in Rankings(ready')
  <2>1. CASE s \in TextScopes \ ready
    BY <2>1 DEF Ingest
  <2>2. CASE s \notin TextScopes \ ready
    <3>1. order' = order
      BY <2>2 DEF Ingest
    <3>2. {b \in Rows : Home[b] \in ready'} = {b \in Rows : Home[b] \in ready}
      BY <1>1, <2>2, ContextAssumption
    <3>3. order \in SetToSeqs({b \in Rows : Home[b] \in ready})
      BY DEF IInv, SharedInv, Rankings
    <3> QED
      BY <3>1, <3>2, <3>3 DEF Rankings
  <2> QED
    BY <2>1, <2>2
<1>6. SharedInv'
  BY <1>1, <1>4, <1>5 DEF IInv, SharedInv
<1>7. ProcInv'
  <2>1. ASSUME NEW q \in Compilers PROVE Stands(proc[q], ready', visual, stored)
    BY <1>1, StandsGrows DEF IInv, ProcInv
  <2> QED
    BY <1>1, <2>1 DEF IInv, ProcInv
<1> QED
  BY <1>1, <1>4, <1>6, <1>7 DEF IInv, MadeInv

\* A visual record more.
LEMMA VisualKeeps ==
    ASSUME IInv, NEW h \in Handles, CommitVisualEvidence(h)
    PROVE  IInv'
<1>1. /\ visual' = visual \union {h} /\ ready' = ready /\ head' = head /\ order' = order
      /\ stored' = stored /\ made' = made /\ proc' = proc
  BY DEF CommitVisualEvidence
<1>2. SharedInv'
  BY <1>1 DEF IInv, SharedInv
<1>3. ProcInv'
  <2>1. ASSUME NEW q \in Compilers PROVE Stands(proc[q], ready, visual', stored)
    BY <1>1, StandsGrows DEF IInv, ProcInv
  <2> QED
    BY <1>1, <2>1 DEF IInv, ProcInv
<1> QED
  BY <1>1, <1>2, <1>3 DEF IInv, MadeInv, HeadsInv

\* The answer of a replay, and a compilation that ends for whatever reason.
LEMMA CompareKeeps ==
    ASSUME IInv, NEW p \in Compilers, Compare(p) \/ Abandon(p)
    PROVE  IInv'
BY RaiseKeeps DEF Compare, Abandon
-----------------------------------------------------------------------------
(* The theorems.                                                           *)

\* Nothing has been ingested yet, so nothing is ranked.
LEMMA InitInv == Init => IInv
<1> SUFFICES ASSUME Init PROVE IInv
  OBVIOUS
<1>1. /\ ready = {} /\ head = [d \in Documents |-> None] /\ order = <<>> /\ visual = {}
      /\ stored = {} /\ made = {} /\ proc = [p \in Compilers |-> Idle]
  BY DEF Init
<1>2. order \in Rankings(ready)
  <2>1. {b \in Rows : Home[b] \in ready} = {}
    BY <1>1
  <2>2. IsFiniteSet({}) /\ Cardinality({}) = 0
    BY FS_EmptySet
  <2>3. <<>> \in [1..0 -> {}]
    OBVIOUS
  <2>4. \A i, j \in 1..0 : i # j => <<>>[i] # <<>>[j]
    OBVIOUS
  <2>5. <<>> \in SetToSeqs({})
    BY <2>2, <2>3, <2>4 DEF SetToSeqs
  <2> QED
    BY <1>1, <2>1, <2>5 DEF Rankings
<1>3. SharedInv
  BY <1>1, <1>2 DEF SharedInv
<1>4. HeadsInv /\ MadeInv
  BY <1>1 DEF HeadsInv, MadeInv
<1>5. ProcInv
  BY <1>1, IdleStands DEF ProcInv
<1> QED
  BY <1>3, <1>4, <1>5 DEF IInv

\* Every step keeps the invariant.
LEMMA NextInv == IInv /\ [Next]_vars => IInv'
<1> SUFFICES ASSUME IInv, [Next]_vars PROVE IInv'
  OBVIOUS
<1>1. ASSUME NEW s \in Scopes, Ingest(s) PROVE IInv'
  BY <1>1, IngestKeeps
<1>2. ASSUME NEW h \in Handles, CommitVisualEvidence(h) PROVE IInv'
  BY <1>2, VisualKeeps
<1>3. ASSUME NEW p \in Compilers, Compile(p) \/ Resolve(p) \/ Replay(p) PROVE IInv'
  BY <1>3, CompileKeeps, ResolveKeeps, ReplayKeeps
<1>4. ASSUME NEW p \in Compilers, Page(p) \/ Scan(p) \/ ListVisual(p) PROVE IInv'
  BY <1>4, PageKeeps, ScanKeeps, ListVisualKeeps
<1>5. ASSUME NEW p \in Compilers, Select(p) \/ Commit(p) \/ Compare(p) \/ Abandon(p)
      PROVE  IInv'
  BY <1>5, SelectKeeps, CommitKeeps, CompareKeeps
<1>6. CASE UNCHANGED vars
  <2>1. UNCHANGED <<ready, head, order, visual, stored, made, proc>>
    BY <1>6 DEF vars
  <2>2. SharedInv'
    BY <2>1 DEF IInv, SharedInv, Rankings
  <2>3. HeadsInv' /\ MadeInv' /\ ProcInv'
    BY <2>1 DEF IInv, HeadsInv, MadeInv, ProcInv
  <2> QED
    BY <2>2, <2>3 DEF IInv
<1> QED
  BY <1>1, <1>2, <1>3, <1>4, <1>5, <1>6 DEF Next

\* The inductive invariant holds.
LEMMA Inductive == Spec => []IInv
BY InitInv, NextInv, PTL DEF Spec

\* The variables have their types, only receipts are stored, a receipt has an origin, and a
\* compiler looks only at versions that are indexed and at images that were recorded.
THEOREM TypeCorrect == Spec => []TypeOK
<1>1. IInv => TypeOK
  <2> SUFFICES ASSUME IInv PROVE TypeOK
    OBVIOUS
  <2>1. ASSUME NEW p \in Compilers
        PROVE  LET c == proc[p]
               IN  /\ c.at \in Places /\ c.replay \in stored \union {None}
                   /\ c.todo \subseteq c.docs /\ c.docs \subseteq Documents
                   /\ c.limits \in LimitsOffered /\ c.scopes \subseteq ready
                   /\ c.found \subseteq Hits /\ c.saw \subseteq visual
                   /\ c.result \in Receipt \union {None}
    BY AtHand DEF Stands, Placed, Compiler
  <2> QED
    BY <2>1 DEF IInv, SharedInv, TypeOK
<1> QED
  BY <1>1, Inductive, PTL

\* A search that ends has found the blocks of its snapshot that match, neither more nor
\* fewer, for any number of texts ingested between any two of its pages, each of which ranks
\* all rows anew, and for every size of a page.
THEOREM DiscoveryExact == Spec => []DiscoveryIsExact
<1>1. IInv => DiscoveryIsExact
  <2> SUFFICES ASSUME IInv, NEW p \in Compilers,
                      proc[p].at \in {"rich", "visual", "select", "commit", "compare"}
               PROVE  proc[p].found \intersect Blocks
                         = {b \in Hits \intersect Blocks : Home[b] \in proc[p].scopes}
    BY DEF DiscoveryIsExact
  <2>1. Finds(proc[p])
    BY AtHand DEF Stands
  <2>2. proc[p].found \intersect Blocks = Matches(proc[p].scopes) \intersect Blocks
    BY <2>1 DEF Finds
  <2> QED
    BY <2>2 DEF Matches
<1> QED
  BY <1>1, Inductive, PTL

\* A replay arrives at its receipt, for any ingestions since, unless the compilation had
\* other limits or there is visual evidence that it did not see.
THEOREM ReplaysReproduce == Spec => []ReplayReproduces
<1>1. IInv => ReplayReproduces
  <2> SUFFICES ASSUME IInv, NEW p \in Compilers, At(p, "compare"), NEW m \in made,
                      m.receipt = proc[p].replay, m.limits = DefaultLimits,
                      m.saw = proc[p].saw
               PROVE  proc[p].result = proc[p].replay
    BY DEF ReplayReproduces
  <2>1. PICK c \in Compiler : c = proc[p] /\ Finds(c) /\ Arrives(c) /\ c.at = "compare"
    BY AtHand DEF Stands, At
  <2>2. /\ c.result = Compiled(c.scopes, c.found, c.saw, c.limits)
        /\ c.scopes = c.replay.scopes /\ c.limits = DefaultLimits
        /\ c.found = Matches(c.scopes)
    BY <2>1 DEF Finds, Arrives
  <2>3. m.receipt = Compiled(m.receipt.scopes, Matches(m.receipt.scopes), m.saw, m.limits)
    BY DEF IInv, MadeInv
  <2> QED
    BY <2>1, <2>2, <2>3
<1> QED
  BY <1>1, Inductive, PTL

\* A receipt that is about to be stored accounts once for all that was discovered, for no
\* projection with two images (those the receipt model refuses), says
\* when something was cut off, and fills its budget: it stays below the ceiling, and what it
\* leaves out for want of room would not fit.
THEOREM ReceiptsAccounted == Spec => []ReceiptsAccount
<1>1. IInv => ReceiptsAccount
  <2> SUFFICES ASSUME IInv, NEW p \in Compilers, At(p, "commit")
               PROVE  AccountsFor(proc[p].result, proc[p].found, proc[p].saw)
    BY DEF ReceiptsAccount, AccountsFor
  <2>1. PICK c \in Compiler : c = proc[p] /\ Arrives(c) /\ c.at = "commit"
    BY AtHand DEF Stands, At
  <2>2. c.result # None /\ c.result = Compiled(c.scopes, c.found, c.saw, c.limits)
    BY <2>1 DEF Arrives
  <2>3. /\ c.scopes \in SUBSET Scopes /\ c.found \in SUBSET Evidence
        /\ c.saw \in SUBSET Evidence /\ c.limits \in Limits
    BY HitsFacts, ContextAssumption DEF Compiler
  <2>4. AccountsFor(c.result, c.found, c.saw)
    BY <2>2, <2>3, CompiledFacts
  <2> QED
    BY <2>1, <2>4
<1> QED
  BY <1>1, Inductive, PTL
=============================================================================
