---------------------------- MODULE NatSetLemmas ----------------------------
(***************************************************************************)
(* Facts about sets of natural numbers, for the operators of RaftBase that *)
(* are written with Max (MedianMatch, ConflictTerm, BackTo), and induction *)
(* up to a bound, for the functions that are defined by recursion over a   *)
(* log, a table of shards or a linked list.                                *)
(***************************************************************************)
EXTENDS Integers, FiniteSets, FiniteSetsExt, FiniteSetTheorems, TLAPS

\* Every non-empty set of natural numbers, such as the index sets that the log
\* searches walk through, has a least element.
LEMMA LeastNat ==
  ASSUME NEW T, T \subseteq Nat, T # {}
  PROVE  \E m \in T : \A k \in T : m <= k
<1> DEFINE R == OpToRel(<, Nat)
<1>1. \E m \in T : \A k \in T : ~(<<k, m>> \in R)
  <2>1. IsWellFoundedOn(R, Nat)
    BY NatLessThanWellFounded
  <2> HIDE DEF R
  <2> QED
    BY <2>1, WFMin
<1>2. PICK m \in T : \A k \in T : ~(<<k, m>> \in R)
  BY <1>1
<1>3. ASSUME NEW k \in T PROVE m <= k
  <2>1. ~(<<k, m>> \in R)
    BY <1>2
  <2>2. m \in Nat /\ k \in Nat
    OBVIOUS
  <2>3. ~(k < m)
    BY <2>1, <2>2 DEF OpToRel
  <2> QED
    BY <2>2, <2>3
<1> QED
  BY <1>3

\* Max of a bounded, non-empty set of natural numbers is its largest element.
LEMMA MaxOfBounded ==
  ASSUME NEW S, S \subseteq Nat, S # {},
         NEW b \in Nat, \A s \in S : s <= b
  PROVE  Max(S) \in S /\ \A s \in S : s <= Max(S)
<1> DEFINE U == {u \in Nat : \A s \in S : s <= u}
<1>1. U \subseteq Nat /\ U # {}
  OBVIOUS
<1>2. PICK m \in U : \A k \in U : m <= k
  <2> HIDE DEF U
  <2> QED
    BY <1>1, LeastNat
<1>3. m \in Nat /\ \A s \in S : s <= m
  OBVIOUS
<1>4. m \in S
  <2>1. CASE m = 0
    <3>1. PICK s \in S : TRUE
      OBVIOUS
    <3>2. s \in Nat /\ s <= 0
      BY <1>3, <2>1
    <3> QED
      BY <2>1, <3>2
  <2>2. CASE m # 0
    <3>1. m - 1 \in Nat
      BY <1>3, <2>2
    <3>2. m - 1 \notin U
      BY <1>2, <1>3, <3>1
    <3>3. PICK s \in S : ~(s <= m - 1)
      BY <3>1, <3>2
    <3>4. s = m
      BY <1>3, <3>3
    <3> QED
      BY <3>4
  <2> QED
    BY <2>1, <2>2
<1>5. \E x \in S : \A y \in S : x >= y
  BY <1>3, <1>4
<1>6. Max(S) \in S /\ \A y \in S : Max(S) >= y
  BY <1>5 DEF Max
<1> QED
  BY <1>6

\* The values of a function on a finite set, such as the slice matchIndex, have
\* an upper bound.
LEMMA FiniteImageBounded ==
  ASSUME NEW S, IsFiniteSet(S), NEW f \in [S -> Nat]
  PROVE  \E b \in Nat : \A s \in S : f[s] <= b
<1>1. PICK n \in Nat : ExistsBijection(1..n, S)
  BY FS_NatBijection
<1>2. PICK g \in [1..n -> S] : \A s \in S : \E k \in 1..n : g[k] = s
  BY <1>1 DEF ExistsBijection, Bijection, Injection, Surjection, IsInjective
<1> DEFINE Unbounded == {k \in 0..n : \A b \in Nat : \E l \in 1..k : f[g[l]] > b}
<1>3. Unbounded = {}
  <2>1. SUFFICES ASSUME Unbounded # {} PROVE FALSE
    OBVIOUS
  <2>2. Unbounded \subseteq Nat
    OBVIOUS
  <2>3. PICK k \in Unbounded : \A l \in Unbounded : k <= l
    <3> HIDE DEF Unbounded
    <3> QED
      BY <2>1, <2>2, LeastNat
  <2>4. k \in 0..n /\ \A b \in Nat : \E l \in 1..k : f[g[l]] > b
    OBVIOUS
  <2>5. k # 0
    <3>1. \E l \in 1..k : f[g[l]] > 0
      BY <2>4
    <3> QED
      BY <3>1
  <2>6. k - 1 \in 0..n /\ k - 1 \notin Unbounded
    <3>1. k \in Nat /\ k - 1 \in 0..n /\ ~(k <= k - 1)
      BY <2>4, <2>5
    <3> HIDE DEF Unbounded
    <3> QED
      BY <2>3, <3>1
  <2>7. PICK b \in Nat : \A l \in 1..(k - 1) : ~(f[g[l]] > b)
    BY <2>6
  <2>8. k \in 1..n /\ g[k] \in S /\ f[g[k]] \in Nat
    BY <1>2, <2>4, <2>5
  <2> DEFINE top == IF f[g[k]] > b THEN f[g[k]] ELSE b
  <2>9. top \in Nat /\ f[g[k]] <= top /\ b <= top
    BY <2>8
  <2> HIDE DEF top
  <2>10. PICK l \in 1..k : f[g[l]] > top
    BY <2>4, <2>9
  <2>11. l \in 1..n /\ f[g[l]] \in Nat
    BY <1>2, <2>4
  <2>12. CASE l = k
    BY <2>8, <2>9, <2>10, <2>12
  <2>13. CASE l # k
    <3>1. l \in 1..(k - 1)
      BY <2>4, <2>13
    <3> QED
      BY <2>7, <2>9, <2>10, <2>11, <3>1
  <2> QED
    BY <2>12, <2>13
<1>4. n \notin Unbounded
  BY <1>3
<1>5. PICK b \in Nat : \A l \in 1..n : ~(f[g[l]] > b)
  BY <1>4
<1>6. ASSUME NEW s \in S PROVE f[s] <= b
  <2>1. PICK k \in 1..n : g[k] = s
    BY <1>2
  <2>2. f[s] \in Nat /\ ~(f[s] > b)
    BY <1>5, <2>1
  <2> QED
    BY <2>2
<1> QED
  BY <1>6

\* What a loop of n turns does to a state, and the states it goes through.
LoopBody(step, S, n) == step \in [S \X (1..n) -> S]

LoopStates(f, step, S, s0, n) ==
  f \in [0..n -> S] /\ f[0] = s0 /\ \A i \in 1..n : f[i] = step[<<f[i - 1], i>>]

\* A function that is defined by recursion over the entries of a log, or over the
\* slots of an array, exists.
LEMMA RecursionExists ==
  ASSUME NEW S, NEW s0, s0 \in S, NEW n, n \in Nat, NEW step, LoopBody(step, S, n)
  PROVE  \E f : LoopStates(f, step, S, s0, n)
<1>0. step \in [S \X (1..n) -> S]
  BY DEF LoopBody
<1> USE <1>0
<1> DEFINE Grows(m, f) == f[0] = s0 /\ \A i \in 1..m : f[i] = step[<<f[i - 1], i>>]
           Bad == {m \in 0..n : ~\E f \in [0..m -> S] : Grows(m, f)}
<1>1. SUFFICES ASSUME Bad # {} PROVE FALSE
  <2>1. n \in 0..n
    OBVIOUS
  <2>2. n \notin Bad => \E f \in [0..n -> S] : Grows(n, f)
    BY <2>1
  <2> HIDE DEF Bad, Grows
  <2>3. ASSUME Bad = {} PROVE \E f \in [0..n -> S] : Grows(n, f)
    BY <2>2, <2>3
  <2> QED  BY <2>3 DEF Grows, LoopStates
<1>2. PICK m \in Bad : \A k \in Bad : m <= k
  <2>1. Bad \subseteq Nat
    OBVIOUS
  <2> HIDE DEF Bad
  <2> QED  BY <1>1, <2>1, LeastNat
<1>3. m \in 0..n /\ ~\E f \in [0..m -> S] : Grows(m, f)
  OBVIOUS
<1>4. m # 0
  <2>1. SUFFICES ASSUME m = 0 PROVE FALSE
    OBVIOUS
  <2> DEFINE f == [k \in 0..0 |-> s0]
  <2>2. f \in [0..m -> S] /\ Grows(m, f)
    BY <2>1
  <2> QED  BY <1>3, <2>2
<1>5. m - 1 \in 0..n /\ ~(m <= m - 1)
  BY <1>3, <1>4
<1>6. PICK f \in [0..(m - 1) -> S] : Grows(m - 1, f)
  BY <1>2, <1>5
<1> DEFINE g == [k \in 0..m |-> IF k = m THEN step[<<f[m - 1], m>>] ELSE f[k]]
<1>7. f[m - 1] \in S /\ step[<<f[m - 1], m>>] \in S
  BY <1>3, <1>4
<1>8. \A k \in 0..m : k # m => g[k] = f[k] /\ k \in 0..(m - 1)
  BY <1>3
<1>9. g \in [0..m -> S]
  BY <1>7, <1>8
<1>10. g[m] = step[<<f[m - 1], m>>]
  BY <1>3
<1> HIDE DEF g
<1>11. Grows(m, g)
  <2>1. g[0] = s0
    BY <1>3, <1>4, <1>6, <1>8
  <2>2. ASSUME NEW i \in 1..m PROVE g[i] = step[<<g[i - 1], i>>]
    <3>1. i - 1 \in 0..m /\ i - 1 # m
      BY <1>3
    <3>2. g[i - 1] = f[i - 1]
      BY <1>8, <3>1
    <3>3. CASE i = m
      BY <1>10, <3>2, <3>3
    <3>4. CASE i # m
      <4>1. i \in 1..(m - 1) /\ i \in 0..m
        BY <1>3, <3>4
      <4>2. g[i] = f[i]
        BY <1>8, <3>4, <4>1
      <4>3. f[i] = step[<<f[i - 1], i>>]
        BY <1>6, <4>1
      <4> QED  BY <3>2, <4>2, <4>3
    <3> QED  BY <3>3, <3>4
  <2> QED  BY <2>1, <2>2
<1> QED  BY <1>3, <1>9, <1>11

\* What holds of the empty prefix, and of every prefix if of the one before, holds
\* of all prefixes up to a bound.
LEMMA UpToBound ==
  ASSUME NEW m \in Nat, NEW T, 0 \in T, \A i \in 1..m : i - 1 \in T => i \in T
  PROVE  0..m \subseteq T
<1> DEFINE Bad == (0..m) \ T
<1>1. SUFFICES ASSUME Bad # {} PROVE FALSE
  OBVIOUS
<1>2. PICK i \in Bad : \A k \in Bad : i <= k
  <2>1. Bad \subseteq Nat
    OBVIOUS
  <2> HIDE DEF Bad
  <2> QED  BY <1>1, <2>1, LeastNat
<1>3. i \in 1..m /\ i - 1 \in 0..m /\ ~(i <= i - 1)
  OBVIOUS
<1>4. i - 1 \in T
  BY <1>2, <1>3
<1> QED  BY <1>3, <1>4
=============================================================================
