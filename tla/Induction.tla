------------------------------ MODULE Induction ------------------------------
(***************************************************************************)
(* Induction over the natural numbers for a set instead of a predicate,    *)
(* and what follows from it.  The modules define functions by recursion    *)
(* on how much of a sequence has been gone through; with these lemmas      *)
(* their proofs can say what such a function is.                           *)
(***************************************************************************)
EXTENDS Sums, Integers, FiniteSetsExt, NaturalsInduction, WellFoundedInduction, TLAPS

\* A set that has zero and every successor has all numbers: a least one that is
\* missing would follow one that is there.
LEMMA InductionOverNat ==
    ASSUME NEW S, 0 \in S, \A n \in Nat : n \in S => n + 1 \in S
    PROVE  Nat \subseteq S
<1> DEFINE T == Nat \ S
           R == {p \in Nat \X Nat : p[1] < p[2]}
<1>1. SUFFICES ASSUME T # {} PROVE FALSE
  OBVIOUS
<1>2. IsWellFoundedOn(R, Nat)
  BY NatLessThanWellFounded, Zenon DEF OpToRel
<1>3. PICK x \in T : \A y \in T : ~ (<<y, x>> \in R)
  <2>1. T \subseteq Nat
    OBVIOUS
  <2> HIDE DEF T, R
  <2> QED BY <1>1, <1>2, <2>1, WFMin
<1>4. x \in Nat /\ x # 0 /\ x - 1 \in Nat /\ x - 1 < x
  OBVIOUS
<1>5. <<x - 1, x>> \in R
  BY <1>4
<1>6. x - 1 \in S
  BY <1>3, <1>4, <1>5
<1> QED BY <1>4, <1>6

\* The same up to a bound.
LEMMA InductionUpTo ==
    ASSUME NEW S, NEW m \in Nat, 0 \in S, \A n \in 0 .. m - 1 : n \in S => n + 1 \in S
    PROVE  0 .. m \subseteq S
<1> DEFINE T == {n \in Nat : n <= m => n \in S}
<1>1. 0 \in T
  OBVIOUS
<1>2. \A n \in Nat : n \in T => n + 1 \in T
  OBVIOUS
<1>3. Nat \subseteq T
  <2> HIDE DEF T
  <2> QED BY <1>1, <1>2, InductionOverNat
<1> QED BY <1>3

\* Numbers below a bound have a greatest one.
LEMMA MaxOfBounded ==
    ASSUME NEW S \in SUBSET Nat, S # {}, NEW m \in Nat, \A n \in S : n <= m
    PROVE  Max(S) \in S /\ \A n \in S : n <= Max(S)
<1> DEFINE T == {k \in Nat : \A A \in SUBSET (0 .. k) : A # {} => \E g \in A : \A n \in A : g >= n}
<1>1. 0 \in T
  <2>1. ASSUME NEW A \in SUBSET (0 .. 0), A # {} PROVE \E g \in A : \A n \in A : g >= n
    <3>1. \A n \in A : n = 0
      BY <2>1
    <3>2. PICK g \in A : TRUE
      BY <2>1
    <3> QED BY <3>1, <3>2
  <2> QED BY <2>1
<1>2. ASSUME NEW k \in Nat, k \in T PROVE k + 1 \in T
  <2>0. k + 1 \in Nat
    OBVIOUS
  <2>1. SUFFICES ASSUME NEW A \in SUBSET (0 .. k + 1), A # {}
                 PROVE  \E g \in A : \A n \in A : g >= n
    BY <2>0, Zenon
  <2>2. CASE k + 1 \in A
    BY <2>2
  <2>3. CASE k + 1 \notin A
    <3>1. A \in SUBSET (0 .. k)
      BY <2>3
    <3> QED BY <1>2, <2>1, <3>1
  <2> QED BY <2>2, <2>3
<1>3. m \in T
  <2> HIDE DEF T
  <2> QED BY <1>1, <1>2, InductionOverNat
<1>4. \E g \in S : \A n \in S : g >= n
  BY <1>3
<1>5. Max(S) \in S /\ \A n \in S : Max(S) >= n
  BY <1>4, Zenon DEF Max
<1> QED BY <1>5

\* The lesser of two numbers.
LEMMA MinOfTwo ==
    ASSUME NEW a \in Int, NEW b \in Int
    PROVE  Min({a, b}) = IF a <= b THEN a ELSE b
<1>1. \E g \in {a, b} : \A n \in {a, b} : g <= n
  OBVIOUS
<1>2. Min({a, b}) \in {a, b} /\ \A n \in {a, b} : Min({a, b}) <= n
  BY <1>1, Zenon DEF Min
<1> QED BY <1>2

\* The greater of two numbers.
LEMMA MaxOfTwo ==
    ASSUME NEW a \in Int, NEW b \in Int
    PROVE  Max({a, b}) = IF a <= b THEN b ELSE a
<1>1. \E g \in {a, b} : \A n \in {a, b} : g >= n
  OBVIOUS
<1>2. Max({a, b}) \in {a, b} /\ \A n \in {a, b} : Max({a, b}) >= n
  BY <1>1, Zenon DEF Max
<1> QED BY <1>2

\* Some numbers have a least one.
LEMMA MinOfNumbers ==
    ASSUME NEW S \in SUBSET Nat, S # {}
    PROVE  Min(S) \in S /\ \A n \in S : Min(S) <= n
<1> DEFINE T == {k \in Nat : (\E n \in S : n <= k) => \E g \in S : \A n \in S : g <= n}
<1>1. 0 \in T
  OBVIOUS
<1>2. ASSUME NEW k \in Nat, k \in T PROVE k + 1 \in T
  <2>1. CASE \E n \in S : n <= k
    BY <1>2, <2>1
  <2>2. CASE ~ \E n \in S : n <= k
    <3>1. \A n \in S : k + 1 <= n
      BY <2>2
    <3>2. ASSUME NEW n \in S, n <= k + 1 PROVE \E g \in S : \A m \in S : g <= m
      <4>1. n = k + 1
        BY <3>1, <3>2
      <4> QED BY <3>1, <4>1
    <3> QED BY <3>2
  <2> QED BY <2>1, <2>2
<1>3. PICK m \in S : TRUE
  OBVIOUS
<1>4. m \in T
  <2> HIDE DEF T
  <2> QED BY <1>1, <1>2, <1>3, InductionOverNat
<1>5. \E g \in S : \A n \in S : g <= n
  BY <1>3, <1>4
<1>6. Min(S) \in S /\ \A n \in S : Min(S) <= n
  BY <1>5, Zenon DEF Min
<1> QED BY <1>6
-----------------------------------------------------------------------------
(* What SumBefore is *)

\* f adds the sizes up to before each of the first n places.
Adds(sizes, f, n) == f = [k \in 1 .. n |-> IF k = 1 THEN 0 ELSE f[k - 1] + sizes[k - 1]]

\* However many sizes there are, some function adds them.
LEMMA AddsExist ==
    ASSUME NEW sizes
    PROVE  \A n \in Nat : \E f : Adds(sizes, f, n)
<1> DEFINE S == {n \in Nat : \E f : Adds(sizes, f, n)}
<1>1. 0 \in S
  <2>1. Adds(sizes, [k \in 1 .. 0 |-> 0], 0)
    BY DEF Adds
  <2> QED BY <2>1
<1>2. ASSUME NEW n \in Nat, n \in S PROVE n + 1 \in S
  <2>1. PICK f : Adds(sizes, f, n)
    BY <1>2
  <2>2. f = [k \in 1 .. n |-> IF k = 1 THEN 0 ELSE f[k - 1] + sizes[k - 1]]
    BY <2>1 DEF Adds
  <2> DEFINE g == [k \in 1 .. n + 1 |-> IF k <= n THEN f[k] ELSE IF k = 1 THEN 0 ELSE f[n] + sizes[n]]
  <2>3. ASSUME NEW k \in 1 .. n + 1
        PROVE  g[k] = IF k = 1 THEN 0 ELSE g[k - 1] + sizes[k - 1]
    <3>1. CASE k = 1
      <4>1. CASE n = 0
        BY <3>1, <4>1
      <4>2. CASE n # 0
        BY <2>2, <3>1, <4>2
      <4> QED BY <4>1, <4>2
    <3>2. CASE k # 1 /\ k <= n
      <4>1. k - 1 \in 1 .. n /\ k \in 1 .. n
        BY <3>2
      <4>2. f[k] = f[k - 1] + sizes[k - 1]
        BY <2>2, <3>2, <4>1
      <4>3. g[k] = f[k] /\ g[k - 1] = f[k - 1]
        BY <3>2, <4>1
      <4> HIDE DEF g
      <4> QED BY <3>2, <4>2, <4>3
    <3>3. CASE k # 1 /\ k = n + 1
      <4>1. n \in 1 .. n + 1
        BY <3>3
      <4>2. g[k] = f[n] + sizes[n] /\ g[n] = f[n]
        BY <3>3, <4>1
      <4> HIDE DEF g
      <4>3. k - 1 = n
        BY <3>3
      <4> QED BY <3>3, <4>2, <4>3
    <3> QED BY <3>1, <3>2, <3>3
  <2> HIDE DEF g
  <2>4. g = [k \in 1 .. n + 1 |-> g[k]]
    BY DEF g
  <2>5. Adds(sizes, g, n + 1)
    BY <2>3, <2>4 DEF Adds
  <2> QED BY <2>5
<1> HIDE DEF S
<1>3. Nat \subseteq S
  BY <1>1, <1>2, InductionOverNat
<1> QED BY <1>3 DEF S

\* It adds one size more with every step.
LEMMA AddsStep ==
    ASSUME NEW sizes, NEW f, NEW n \in Nat \ {0}, Adds(sizes, f, n)
    PROVE  f[1] = 0 /\ \A k \in 1 .. n - 1 : f[k + 1] = f[k] + sizes[k]
<1>1. f[1] = 0
  BY DEF Adds
<1>2. ASSUME NEW k \in 1 .. n - 1 PROVE f[k + 1] = f[k] + sizes[k]
  <2>1. k + 1 \in 1 .. n /\ k + 1 # 1 /\ (k + 1) - 1 = k
    OBVIOUS
  <2>2. f[k + 1] = f[(k + 1) - 1] + sizes[(k + 1) - 1]
    BY <2>1 DEF Adds
  <2> QED BY <2>1, <2>2
<1> QED BY <1>1, <1>2

\* The recursive function in SumBefore is one of them.
LEMMA SumIs ==
    ASSUME NEW sizes, NEW i \in Nat \ {0}
    PROVE  \E f : Adds(sizes, f, i) /\ SumBefore(sizes, i) = f[i]
<1> DEFINE f == CHOOSE f : Adds(sizes, f, i)
<1>1. Adds(sizes, f, i)
  BY AddsExist, Zenon
<1>2. SumBefore(sizes, i) = f[i]
  BY Zenon DEF SumBefore, Adds
<1> QED BY <1>1, <1>2

\* Nothing stands before the first.
LEMMA SumNone ==
    ASSUME NEW sizes
    PROVE  SumBefore(sizes, 1) = 0
<1>1. PICK f : Adds(sizes, f, 1) /\ SumBefore(sizes, 1) = f[1]
  BY SumIs
<1> QED BY <1>1 DEF Adds

\* One more place, one more size.
LEMMA SumStep ==
    ASSUME NEW sizes, NEW n \in Nat \ {0}
    PROVE  SumBefore(sizes, n + 1) = SumBefore(sizes, n) + sizes[n]
<1>1. PICK f : Adds(sizes, f, n) /\ SumBefore(sizes, n) = f[n]
  BY SumIs
<1>2. PICK g : Adds(sizes, g, n + 1) /\ SumBefore(sizes, n + 1) = g[n + 1]
  BY SumIs
<1>3. f[1] = 0 /\ \A k \in 1 .. n - 1 : f[k + 1] = f[k] + sizes[k]
  BY <1>1, AddsStep
<1>4. g[1] = 0 /\ \A k \in 1 .. n : g[k + 1] = g[k] + sizes[k]
  <2>1. PICK m \in Nat \ {0} : m = n + 1
    OBVIOUS
  <2>2. Adds(sizes, g, m)
    BY <1>2, <2>1
  <2>3. g[1] = 0 /\ \A k \in 1 .. m - 1 : g[k + 1] = g[k] + sizes[k]
    BY <2>2, AddsStep
  <2> QED BY <2>1, <2>3
<1> DEFINE S == {k \in Nat : f[k + 1] = g[k + 1]}
<1>5. 0 \in S
  BY <1>3, <1>4
<1>6. ASSUME NEW k \in 0 .. (n - 1) - 1, k \in S PROVE k + 1 \in S
  <2>1. k + 1 \in 1 .. n - 1 /\ k + 1 \in 1 .. n
    OBVIOUS
  <2>2. f[(k + 1) + 1] = f[k + 1] + sizes[k + 1] /\ g[(k + 1) + 1] = g[k + 1] + sizes[k + 1]
    BY <1>3, <1>4, <2>1
  <2>3. f[k + 1] = g[k + 1]
    BY <1>6
  <2> QED BY <2>2, <2>3
<1>7. n - 1 \in S
  <2>1. n - 1 \in Nat
    OBVIOUS
  <2> HIDE DEF S
  <2>2. 0 .. n - 1 \subseteq S
    BY <1>5, <1>6, <2>1, InductionUpTo
  <2> QED BY <2>1, <2>2
<1>8. f[n] = g[n] /\ g[n + 1] = g[n] + sizes[n]
  BY <1>4, <1>7
<1> QED BY <1>1, <1>2, <1>8

\* It is a number.
LEMMA SumType ==
    ASSUME NEW sizes, NEW i \in Nat \ {0}, \A k \in 1 .. i - 1 : sizes[k] \in Nat
    PROVE  SumBefore(sizes, i) \in Nat
<1> DEFINE S == {k \in Nat : SumBefore(sizes, k + 1) \in Nat}
<1>1. 0 \in S
  BY SumNone
<1>2. ASSUME NEW k \in 0 .. (i - 1) - 1, k \in S PROVE k + 1 \in S
  <2>1. k + 1 \in 1 .. i - 1 /\ k + 1 \in Nat \ {0}
    OBVIOUS
  <2>2. SumBefore(sizes, (k + 1) + 1) = SumBefore(sizes, k + 1) + sizes[k + 1]
    BY <2>1, SumStep
  <2> QED BY <1>2, <2>1, <2>2
<1> HIDE DEF S
<1>3. i - 1 \in Nat /\ (i - 1) + 1 = i
  OBVIOUS
<1>4. 0 .. i - 1 \subseteq S
  BY <1>1, <1>2, <1>3, InductionUpTo
<1>5. i - 1 \in S
  BY <1>3, <1>4
<1> QED BY <1>3, <1>5 DEF S

\* It depends on nothing but what stands before.
LEMMA SumSame ==
    ASSUME NEW sizes, NEW others, NEW i \in Nat \ {0}, \A k \in 1 .. i - 1 : sizes[k] = others[k]
    PROVE  SumBefore(sizes, i) = SumBefore(others, i)
<1> DEFINE S == {k \in Nat : SumBefore(sizes, k + 1) = SumBefore(others, k + 1)}
<1>1. 0 \in S
  BY SumNone
<1>2. ASSUME NEW k \in 0 .. (i - 1) - 1, k \in S PROVE k + 1 \in S
  <2>1. k + 1 \in 1 .. i - 1 /\ k + 1 \in Nat \ {0}
    OBVIOUS
  <2>2. /\ SumBefore(sizes, (k + 1) + 1) = SumBefore(sizes, k + 1) + sizes[k + 1]
        /\ SumBefore(others, (k + 1) + 1) = SumBefore(others, k + 1) + others[k + 1]
    BY <2>1, SumStep
  <2> QED BY <1>2, <2>1, <2>2
<1> HIDE DEF S
<1>3. i - 1 \in Nat /\ (i - 1) + 1 = i
  OBVIOUS
<1>4. 0 .. i - 1 \subseteq S
  BY <1>1, <1>2, <1>3, InductionUpTo
<1>5. i - 1 \in S
  BY <1>3, <1>4
<1> QED BY <1>3, <1>5 DEF S

\* The sum of what is added place by place is the sum of the sums.
LEMMA SumPlus ==
    ASSUME NEW both, NEW sizes, NEW others, NEW i \in Nat \ {0},
           \A k \in 1 .. i - 1 : sizes[k] \in Nat /\ others[k] \in Nat
                                 /\ both[k] = sizes[k] + others[k]
    PROVE  SumBefore(both, i) = SumBefore(sizes, i) + SumBefore(others, i)
<1> DEFINE S == {k \in Nat : SumBefore(both, k + 1) = SumBefore(sizes, k + 1) + SumBefore(others, k + 1)}
<1>1. 0 \in S
  BY SumNone
<1>2. ASSUME NEW k \in 0 .. (i - 1) - 1, k \in S PROVE k + 1 \in S
  <2>1. k + 1 \in 1 .. i - 1 /\ k + 1 \in Nat \ {0}
    OBVIOUS
  <2>2. /\ SumBefore(both, (k + 1) + 1) = SumBefore(both, k + 1) + both[k + 1]
        /\ SumBefore(sizes, (k + 1) + 1) = SumBefore(sizes, k + 1) + sizes[k + 1]
        /\ SumBefore(others, (k + 1) + 1) = SumBefore(others, k + 1) + others[k + 1]
    BY <2>1, SumStep
  <2>3. SumBefore(both, k + 1) = SumBefore(sizes, k + 1) + SumBefore(others, k + 1)
    BY <1>2
  <2>4. SumBefore(sizes, k + 1) \in Nat /\ SumBefore(others, k + 1) \in Nat
    <3>1. \A m \in 1 .. (k + 1) - 1 : sizes[m] \in Nat
      BY <2>1
    <3>2. \A m \in 1 .. (k + 1) - 1 : others[m] \in Nat
      BY <2>1
    <3> QED BY <2>1, <3>1, <3>2, SumType
  <2>5. sizes[k + 1] \in Nat /\ others[k + 1] \in Nat /\ both[k + 1] = sizes[k + 1] + others[k + 1]
    BY <2>1
  <2>6. SumBefore(both, (k + 1) + 1) = SumBefore(sizes, (k + 1) + 1) + SumBefore(others, (k + 1) + 1)
    BY <2>2, <2>3, <2>4, <2>5
  <2> QED BY <2>1, <2>6
<1> HIDE DEF S
<1>3. i - 1 \in Nat /\ (i - 1) + 1 = i
  OBVIOUS
<1>4. 0 .. i - 1 \subseteq S
  BY <1>1, <1>2, <1>3, InductionUpTo
<1>5. i - 1 \in S
  BY <1>3, <1>4
<1> QED BY <1>3, <1>5 DEF S

\* A change in one place changes the sum by as much.
LEMMA SumChange ==
    ASSUME NEW sizes, NEW others, NEW i \in Nat \ {0}, NEW j \in 1 .. i - 1, NEW d \in Int,
           \A k \in 1 .. i - 1 : sizes[k] \in Nat,
           \A k \in 1 .. i - 1 : others[k] = IF k = j THEN sizes[k] + d ELSE sizes[k]
    PROVE  SumBefore(others, i) = SumBefore(sizes, i) + d
<1> DEFINE S == {k \in Nat : SumBefore(others, k + 1)
                             = IF k >= j THEN SumBefore(sizes, k + 1) + d ELSE SumBefore(sizes, k + 1)}
<1>1. 0 \in S
  BY SumNone
<1>2. ASSUME NEW k \in 0 .. (i - 1) - 1, k \in S PROVE k + 1 \in S
  <2>1. k + 1 \in 1 .. i - 1 /\ k + 1 \in Nat \ {0}
    OBVIOUS
  <2>2. /\ SumBefore(sizes, (k + 1) + 1) = SumBefore(sizes, k + 1) + sizes[k + 1]
        /\ SumBefore(others, (k + 1) + 1) = SumBefore(others, k + 1) + others[k + 1]
    BY <2>1, SumStep
  <2>3. SumBefore(others, k + 1) = IF k >= j THEN SumBefore(sizes, k + 1) + d ELSE SumBefore(sizes, k + 1)
    BY <1>2
  <2>4. SumBefore(sizes, k + 1) \in Nat
    <3>1. \A m \in 1 .. (k + 1) - 1 : sizes[m] \in Nat
      BY <2>1
    <3> QED BY <2>1, <3>1, SumType
  <2>5. /\ sizes[k + 1] \in Nat
        /\ others[k + 1] = IF k + 1 = j THEN sizes[k + 1] + d ELSE sizes[k + 1]
    BY <2>1
  <2>6. SumBefore(others, (k + 1) + 1)
        = IF k + 1 >= j THEN SumBefore(sizes, (k + 1) + 1) + d ELSE SumBefore(sizes, (k + 1) + 1)
    BY <2>2, <2>3, <2>4, <2>5
  <2> QED BY <2>1, <2>6
<1> HIDE DEF S
<1>3. i - 1 \in Nat /\ (i - 1) + 1 = i /\ i - 1 >= j
  OBVIOUS
<1>4. 0 .. i - 1 \subseteq S
  BY <1>1, <1>2, <1>3, InductionUpTo
<1>5. i - 1 \in S
  BY <1>3, <1>4
<1> QED BY <1>3, <1>5 DEF S

\* No part is more than the sum.
LEMMA SumPart ==
    ASSUME NEW sizes, NEW i \in Nat \ {0}, NEW j \in 1 .. i - 1, \A k \in 1 .. i - 1 : sizes[k] \in Nat
    PROVE  sizes[j] <= SumBefore(sizes, i)
<1> DEFINE rest == [k \in 1 .. i - 1 |-> IF k = j THEN 0 ELSE sizes[k]]
<1>1. \A k \in 1 .. i - 1 : rest[k] \in Nat /\ sizes[k] = IF k = j THEN rest[k] + sizes[j] ELSE rest[k]
  OBVIOUS
<1>2. sizes[j] \in Nat
  OBVIOUS
<1> HIDE DEF rest
<1>3. SumBefore(sizes, i) = SumBefore(rest, i) + sizes[j]
  <2>1. PICK d \in Int : d = sizes[j]
    BY <1>2
  <2>2. \A k \in 1 .. i - 1 : sizes[k] = IF k = j THEN rest[k] + d ELSE rest[k]
    BY <1>1, <2>1
  <2>3. \A k \in 1 .. i - 1 : rest[k] \in Nat
    BY <1>1
  <2>4. SumBefore(sizes, i) = SumBefore(rest, i) + d
    BY ONLY i \in Nat \ {0}, j \in 1 .. i - 1, d \in Int, <2>2, <2>3, SumChange
  <2> QED BY <2>1, <2>4
<1>4. SumBefore(rest, i) \in Nat
  BY <1>1, SumType
<1> QED BY <1>2, <1>3, <1>4
=============================================================================
