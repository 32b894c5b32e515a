------------------------------ MODULE NatFacts ------------------------------
(***************************************************************************)
(* Natural numbers: induction and functions defined by recursion, for sets *)
(* instead of predicates (the provers instantiate no operator), products   *)
(* and quotients.                                                          *)
(***************************************************************************)
EXTENDS Integers, TLAPS, WellFoundedInduction

\* A set of natural numbers has a least element.
LEMMA LeastElement ==
    ASSUME NEW S, S \subseteq Nat, S # {}
    PROVE  \E n \in S : \A m \in S : n <= m
<1>1. PICK n \in S : \A m \in S : ~(<<m, n>> \in OpToRel(<, Nat))
  <2>1. \E n \in S : \A m \in S : ~(<<m, n>> \in OpToRel(<, Nat))
    BY WFMin, NatLessThanWellFounded
  <2> QED
    BY <2>1
<1>2. \A m \in S : ~(m < n)
  BY <1>1 DEF OpToRel
<1>3. \A m \in S : n \in Nat /\ m \in Nat
  OBVIOUS
<1> QED
  BY <1>2, <1>3

\* A set with 0 and the successor of each of its numbers has all of them.
LEMMA SetInduction ==
    ASSUME NEW S, 0 \in S, \A n \in Nat : n \in S => n + 1 \in S
    PROVE  Nat \subseteq S
<1> SUFFICES ASSUME ~(Nat \subseteq S)
             PROVE  FALSE
  OBVIOUS
<1>1. PICK n \in Nat \ S : \A m \in Nat \ S : n <= m
  <2>1. Nat \ S # {} /\ Nat \ S \subseteq Nat
    OBVIOUS
  <2> QED
    BY <2>1, LeastElement
<1>2. n # 0
  BY <1>1
<1>3. n - 1 \in Nat /\ n - 1 \in S
  BY <1>1, <1>2
<1> QED
  BY <1>1, <1>3

\* The same for a set that has a number if it has all lesser ones.
LEMMA StrongInduction ==
    ASSUME NEW S, \A n \in Nat : (\A m \in Nat : m < n => m \in S) => n \in S
    PROVE  Nat \subseteq S
<1> SUFFICES ASSUME ~(Nat \subseteq S)
             PROVE  FALSE
  OBVIOUS
<1>1. PICK n \in Nat \ S : \A m \in Nat \ S : n <= m
  <2>1. Nat \ S # {} /\ Nat \ S \subseteq Nat
    OBVIOUS
  <2> QED
    BY <2>1, LeastElement
<1>2. \A m \in Nat : m < n => m \in S
  BY <1>1
<1> QED
  BY <1>1, <1>2

\* The steps of a recursion up to n with values in T, and its solutions.
Steps(n, T) == [(1 .. n) \X T -> T]
Solution(f, n, T, base, step) ==
    /\ f \in [0 .. n -> T]
    /\ f[0] = base /\ \A i \in 1 .. n : f[i] = step[<<i, f[i - 1]>>]

\* Every recursion up to n has a solution.
LEMMA RecursionExists ==
    ASSUME NEW n \in Nat, NEW T, NEW base \in T, NEW step \in Steps(n, T)
    PROVE  \E f : Solution(f, n, T, base, step)
<1> USE DEF Steps
<1> DEFINE Solves(f, k) == f[0] = base /\ \A i \in 1 .. k : f[i] = step[<<i, f[i - 1]>>]
           S == {k \in Nat : k <= n => \E f \in [0 .. n -> T] : Solves(f, k)}
<1>1. 0 \in S
  <2> DEFINE f == [i \in 0 .. n |-> base]
  <2>1. f \in [0 .. n -> T] /\ Solves(f, 0)
    OBVIOUS
  <2> QED
    BY <2>1
<1>2. ASSUME NEW k \in Nat, k \in S
      PROVE  k + 1 \in S
  <2> SUFFICES ASSUME k + 1 <= n
               PROVE  \E f \in [0 .. n -> T] : Solves(f, k + 1)
    OBVIOUS
  <2>1. PICK f \in [0 .. n -> T] : Solves(f, k)
    BY <1>2
  <2> DEFINE g == [f EXCEPT ![k + 1] = step[<<k + 1, f[k]>>]]
  <2>2. <<k + 1, f[k]>> \in (1 .. n) \X T
    OBVIOUS
  <2>3. g \in [0 .. n -> T]
    BY <2>2
  <2>4. \A i \in 0 .. n : g[i] = IF i = k + 1 THEN step[<<k + 1, f[k]>>] ELSE f[i]
    OBVIOUS
  <2> HIDE DEF g
  <2>5. g[0] = base
    BY <2>1, <2>4
  <2>6. ASSUME NEW i \in 1 .. k + 1
        PROVE  g[i] = step[<<i, g[i - 1]>>]
    <3>1. i \in 0 .. n /\ i - 1 \in 0 .. n /\ i - 1 # k + 1
      OBVIOUS
    <3>2. g[i - 1] = f[i - 1]
      BY <2>4, <3>1
    <3>3. CASE i = k + 1
      BY <2>4, <3>1, <3>2, <3>3
    <3>4. CASE i # k + 1
      BY <2>1, <2>4, <3>1, <3>2, <3>4
    <3> QED
      BY <3>3, <3>4
  <2> QED
    BY <2>3, <2>5, <2>6
<1> HIDE DEF S
<1>3. Nat \subseteq S
  BY <1>1, <1>2, SetInduction
<1> QED
  BY <1>3 DEF S, Solution
-----------------------------------------------------------------------------
\* Products grow with their factors.
LEMMA ProductGrows ==
    ASSUME NEW a \in Nat, NEW b \in Nat, NEW c \in Nat, a <= b
    PROVE  a * c \in Nat /\ b * c \in Nat /\ a * c <= b * c
  OBVIOUS

\* Quotient and remainder.
LEMMA Division ==
    ASSUME NEW q \in Nat, NEW s \in Nat \ {0}
    PROVE  /\ q \div s \in Nat /\ q % s \in 0 .. s - 1
           /\ q = ((q \div s) * s) + (q % s)
  OBVIOUS

\* One more of c.
LEMMA SuccessorProduct ==
    ASSUME NEW a \in Nat, NEW c \in Nat
    PROVE  (a + 1) * c = a * c + c
  OBVIOUS

\* A multiple that begins before b * c + r is at most the b-th.
LEMMA QuotientBelow ==
    ASSUME NEW a \in Nat, NEW b \in Nat, NEW c \in Nat \ {0}, NEW r \in Nat,
           a * c < b * c + r, r <= c
    PROVE  a <= b /\ (r = 0 => a < b)
<1>1. a * c \in Nat /\ b * c \in Nat
  BY ProductGrows
<1>2. ASSUME a >= b + 1  PROVE FALSE
  <2>1. (b + 1) * c <= a * c /\ (b + 1) * c = b * c + c
    BY <1>2, ProductGrows, SuccessorProduct
  <2> QED
    BY <1>1, <2>1
<1>3. ASSUME r = 0, a = b  PROVE FALSE
  BY <1>1, <1>3
<1> QED
  BY <1>2, <1>3
=============================================================================
