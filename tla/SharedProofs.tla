---------------------------- MODULE SharedProofs ----------------------------
(***************************************************************************)
(* Lemmas that the proofs of more than one component rest on: induction    *)
(* over numbers, and what the overlap checks of Ranges are good for.       *)
(***************************************************************************)
EXTENDS Ranges, FiniteSetTheorems, TLAPS

-----------------------------------------------------------------------------
(***************************************************************************)
(* Induction without a property as a parameter: a set of numbers has a     *)
(* least one, because finite sets are well-founded.                        *)
(***************************************************************************)

\* Every set of natural numbers has a least one.
LEMMA LeastNatural ==
  ASSUME NEW T, T \subseteq Nat, T # {}
  PROVE  \E n \in T : \A m \in T : n <= m
<1> DEFINE R == StrictSubsetOrdering(Nat)
           F == FiniteSubsetsOf(Nat)
           D == {1 .. n : n \in T}
<1>1. IsWellFoundedOn(R, F)
  BY FS_StrictSubsetOrderingWellFounded
<1>2. D \subseteq F
  <2> SUFFICES ASSUME NEW n \in T PROVE 1 .. n \in F
    OBVIOUS
  <2>1. IsFiniteSet(1 .. n) /\ 1 .. n \subseteq Nat
    BY FS_Interval
  <2> QED BY <2>1 DEF FiniteSubsetsOf
<1>3. D # {}
  OBVIOUS
<1> HIDE DEF R, F, D
<1>4. \E x \in D : \A y \in D : ~(<<y, x>> \in R)
  BY <1>1, <1>2, <1>3, WFMin
<1>5. PICK n \in T : \A m \in T : ~(<<1 .. m, 1 .. n>> \in R)
  BY <1>4 DEF D
<1>6. ASSUME NEW m \in T, m < n PROVE FALSE
  <2>1. 1 .. m \subseteq 1 .. n /\ n \in 1 .. n /\ n \notin 1 .. m
    BY <1>6
  <2>2. 1 .. m \in SUBSET Nat /\ 1 .. n \in SUBSET Nat /\ 1 .. m # 1 .. n
    BY <2>1
  <2> QED BY <1>5, <2>1, <2>2 DEF R, StrictSubsetOrdering
<1> QED BY <1>5, <1>6

\* A set that holds 0 and, with n, its successor holds every number.
LEMMA Induction ==
  ASSUME NEW T, 0 \in T, \A n \in Nat : n \in T => n + 1 \in T
  PROVE  Nat \subseteq T
<1> SUFFICES ASSUME Nat \ T # {} PROVE FALSE
  OBVIOUS
<1>1. PICK n \in Nat \ T : \A m \in Nat \ T : n <= m
  BY LeastNatural
<1>2. n # 0 /\ n - 1 \in Nat /\ n - 1 \in T
  BY <1>1
<1>3. (n - 1) + 1 \in T
  BY <1>2
<1> QED BY <1>1, <1>3

\* A recursion over the numbers has a solution.
Solution(V, base, step, f) ==
  f \in [Nat -> V] /\ f[0] = base /\ \A n \in Nat : f[n + 1] = step[<<n, f[n]>>]

\* It is built from the solutions up to each number.
LEMMA Recursion ==
  ASSUME NEW V, NEW base \in V, NEW step \in [Nat \X V -> V]
  PROVE  \E f : Solution(V, base, step, f)
<1> DEFINE Prefix(n, g) == /\ g \in [0 .. n -> V]
                           /\ g[0] = base
                           /\ \A i \in Nat : i < n => g[i + 1] = step[<<i, g[i]>>]
           Reached == {n \in Nat : \E g : Prefix(n, g)}
<1>1. Nat \subseteq Reached
  <2>1. 0 \in Reached
    <3>1. Prefix(0, [i \in 0 .. 0 |-> base])
      OBVIOUS
    <3> QED BY <3>1
  <2>2. ASSUME NEW n \in Nat, n \in Reached
        PROVE  n + 1 \in Reached
    <3>1. PICK g : Prefix(n, g)
      BY <2>2
    <3> DEFINE h == [i \in 0 .. n + 1 |-> IF i = n + 1 THEN step[<<n, g[n]>>] ELSE g[i]]
    <3>2. g[n] \in V /\ step[<<n, g[n]>>] \in V
      BY <3>1
    <3>3. h \in [0 .. n + 1 -> V]
      BY <3>1, <3>2
    <3>4. h[n + 1] = step[<<n, g[n]>>] /\ \A i \in 0 .. n : h[i] = g[i]
      OBVIOUS
    <3> HIDE DEF h
    <3>5. ASSUME NEW i \in Nat, i < n + 1
          PROVE  h[i + 1] = step[<<i, h[i]>>]
      <4>1. CASE i = n
        BY <3>4, <4>1
      <4>2. CASE i < n
        <5>1. g[i + 1] = step[<<i, g[i]>>]
          BY <3>1, <4>2
        <5> QED BY <3>4, <4>2, <5>1
      <4> QED BY <3>5, <4>1, <4>2
    <3>6. h[0] = base
      BY <3>1, <3>4
    <3>7. Prefix(n + 1, h)
      BY <3>3, <3>5, <3>6
    <3>8. n + 1 \in Nat
      OBVIOUS
    <3> HIDE DEF Prefix
    <3> QED BY <3>7, <3>8
  <2> HIDE DEF Reached
  <2> QED BY <2>1, <2>2, Induction
<1>2. ASSUME NEW n \in Nat, NEW g, NEW h, Prefix(n, g), Prefix(n + 1, h)
      PROVE  g[n] = h[n]
  <2> DEFINE Same == {i \in Nat : i <= n => g[i] = h[i]}
  <2>1. 0 \in Same
    BY <1>2
  <2>2. ASSUME NEW i \in Nat, i \in Same
        PROVE  i + 1 \in Same
    <3> SUFFICES ASSUME i + 1 <= n PROVE g[i + 1] = h[i + 1]
      OBVIOUS
    <3>1. i < n /\ g[i] = h[i]
      BY <2>2
    <3>2. g[i + 1] = step[<<i, g[i]>>]
      BY <1>2, <3>1
    <3>3. h[i + 1] = step[<<i, h[i]>>]
      BY <1>2, <3>1
    <3> QED BY <3>1, <3>2, <3>3
  <2> HIDE DEF Same
  <2>3. n \in Same
    BY <2>1, <2>2, Induction
  <2> QED BY <2>3 DEF Same
<1> DEFINE G(n) == CHOOSE g : Prefix(n, g)
           f == [n \in Nat |-> G(n)[n]]
<1>3. \A n \in Nat : Prefix(n, G(n))
  BY <1>1
<1> HIDE DEF G
<1>4. f \in [Nat -> V] /\ f[0] = base
  BY <1>3
<1>5. ASSUME NEW n \in Nat
      PROVE  f[n + 1] = step[<<n, f[n]>>]
  <2>1. n + 1 \in Nat /\ n < n + 1
    OBVIOUS
  <2>2. Prefix(n, G(n)) /\ Prefix(n + 1, G(n + 1))
    BY <1>3
  <2>3. G(n)[n] = G(n + 1)[n]
    <3>1. PICK g : g = G(n)
      OBVIOUS
    <3>2. PICK h : h = G(n + 1)
      OBVIOUS
    <3>3. Prefix(n, g) /\ Prefix(n + 1, h)
      BY <2>2, <3>1, <3>2
    <3> HIDE DEF Prefix
    <3>4. g[n] = h[n]
      BY <1>2, <3>3
    <3> QED BY <3>1, <3>2, <3>4
  <2>4. G(n + 1)[n + 1] = step[<<n, G(n + 1)[n]>>]
    BY <2>1, <2>2
  <2> QED BY <2>3, <2>4
<1> HIDE DEF f
<1> QED BY <1>4, <1>5 DEF Solution

-----------------------------------------------------------------------------
(***************************************************************************)
(* The overlap checks, whatever their sums wrap to.                        *)
(***************************************************************************)

Regions == (0 .. AddressMax) \X (0 .. AddressMax)

\* Two regions that the check lets pass have no address in common, whatever
\* the sums in it wrap to.
THEOREM PassedRegionsAreDisjoint ==
  ASSUME NEW left \in Regions, NEW right \in Regions, ~ranges_overlap(left, right)
  PROVE  Cells(left) \cap Cells(right) = {}
<1> USE RangesAssumption
<1>1. PICK a \in 0 .. AddressMax, m \in 0 .. AddressMax : left = <<a, m>>
  BY DEF Regions
<1>2. PICK b \in 0 .. AddressMax, n \in 0 .. AddressMax : right = <<b, n>>
  BY DEF Regions
<1>3. CASE a = 0 \/ b = 0 \/ m = 0 \/ n = 0
  BY <1>1, <1>2, <1>3 DEF Cells
<1>4. CASE a # 0 /\ b # 0 /\ m # 0 /\ n # 0
  <2>1. a + m <= AddressMax /\ b + n <= AddressMax
    BY <1>1, <1>2, <1>4 DEF ranges_overlap
  <2>2. EndOf(left) = a + m /\ EndOf(right) = b + n
    BY <1>1, <1>2, <2>1 DEF EndOf
  <2>3. ~(a < b + n /\ b < a + m)
    BY <1>1, <1>2, <1>4, <2>2 DEF ranges_overlap
  <2> QED BY <1>1, <1>2, <1>4, <2>3 DEF Cells
<1> QED BY <1>3, <1>4

\* Two regions below the top of the address space that have no address in
\* common pass the check.
THEOREM DisjointRegionsPass ==
  ASSUME NEW left \in Regions, NEW right \in Regions, BelowTop(left), BelowTop(right),
         Cells(left) \cap Cells(right) = {}
  PROVE  ~ranges_overlap(left, right)
<1> USE RangesAssumption
<1>1. PICK a \in 0 .. AddressMax, m \in 0 .. AddressMax : left = <<a, m>>
  BY DEF Regions
<1>2. PICK b \in 0 .. AddressMax, n \in 0 .. AddressMax : right = <<b, n>>
  BY DEF Regions
<1> SUFFICES ASSUME a # 0, b # 0, m # 0, n # 0 PROVE ~ranges_overlap(left, right)
  BY <1>1, <1>2 DEF ranges_overlap
<1>3. a \in Cells(left) /\ b \in Cells(right)
  BY <1>1, <1>2 DEF Cells
<1>4. a + m <= AddressMax /\ b + n <= AddressMax
  BY <1>1, <1>2, <1>3 DEF BelowTop
<1>5. EndOf(left) = a + m /\ EndOf(right) = b + n
  BY <1>1, <1>2, <1>4 DEF EndOf
<1>6. ~(a < b + n /\ b < a + m)
  <2> SUFFICES ASSUME a < b + n, b < a + m PROVE FALSE
    OBVIOUS
  <2>1. CASE a <= b
    BY <1>1, <1>2, <1>3, <2>1 DEF Cells
  <2>2. CASE b <= a
    BY <1>1, <1>2, <1>3, <2>2 DEF Cells
  <2> QED BY <2>1, <2>2
<1> QED BY <1>1, <1>2, <1>4, <1>5, <1>6 DEF ranges_overlap
=============================================================================
