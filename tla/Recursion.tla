------------------------------- MODULE Recursion -------------------------------
(***************************************************************************)
(* Induction over the natural numbers in the first-order form the provers  *)
(* can use: as the least member of a set of counterexamples.               *)
(***************************************************************************)
EXTENDS Integers, WellFoundedInduction, TLAPS

\* A set of natural numbers that is not empty has a least member.
LEMMA NatMin ==
  ASSUME NEW T \in SUBSET Nat, T # {}
  PROVE  \E x \in T : \A y \in T : ~(y < x)
<1> DEFINE R == {ss \in Nat \X Nat : ss[1] < ss[2]}
<1>1. IsWellFoundedOn(R, Nat)
  BY NatLessThanWellFounded DEF OpToRel
<1>2. \E x \in T : \A y \in T : ~(<<y, x>> \in R)
  BY <1>1, WFMin
<1> QED
  BY <1>2

\* The first n steps of the function that starts with first and goes on by F.
Upto(f, n, S, first, F) ==
  /\ f \in [0..n -> S]
  /\ f[0] = first
  /\ \A i \in 0..(n - 1) : f[i + 1] = F[i][f[i]]

\* Such a start can be made one step longer.
LEMMA UptoNext ==
  ASSUME NEW S, NEW first \in S, NEW F \in [Nat -> [S -> S]], NEW n \in Nat,
         NEW f, Upto(f, n, S, first, F)
  PROVE  \E g : Upto(g, n + 1, S, first, F)
<1> DEFINE g == [i \in 0..(n + 1) |-> IF i = n + 1 THEN F[n][f[n]] ELSE f[i]]
<1>1. f \in [0..n -> S] /\ f[0] = first /\ \A i \in 0..(n - 1) : f[i + 1] = F[i][f[i]]
  BY DEF Upto
<1>2. f[n] \in S /\ F[n][f[n]] \in S
  BY <1>1
<1>3. g \in [0..(n + 1) -> S]
  <2>1. ASSUME NEW i \in 0..(n + 1), i # n + 1 PROVE f[i] \in S
    BY <1>1, <2>1
  <2> QED
    BY <1>2, <2>1
<1>4. g[0] = first
  BY <1>1
<1>5. ASSUME NEW i \in 0..((n + 1) - 1)
      PROVE  g[i + 1] = F[i][g[i]]
  <2>1. CASE i = n
    BY <2>1
  <2>2. CASE i # n
    <3>1. i + 1 # n + 1 /\ i + 1 \in 0..(n + 1) /\ i \in 0..(n + 1) /\ i # n + 1
          /\ i \in 0..(n - 1)
      BY <2>2
    <3> QED
      BY <3>1, <1>1
  <2> QED
    BY <2>1, <2>2
<1>6. Upto(g, n + 1, S, first, F)
  <2> HIDE DEF g
  <2> QED
    BY <1>3, <1>4, <1>5 DEF Upto
<1> QED
  BY <1>6

\* There is such a start of every length.
LEMMA UptoAny ==
  ASSUME NEW S, NEW first \in S, NEW F \in [Nat -> [S -> S]], NEW n \in Nat
  PROVE  \E f : Upto(f, n, S, first, F)
<1> DEFINE T == {m \in Nat : ~ \E f : Upto(f, m, S, first, F)}
<1>1. T \in SUBSET Nat /\ \A m \in Nat : m \in T <=> ~ \E f : Upto(f, m, S, first, F)
  OBVIOUS
<1> HIDE DEF T
<1>2. SUFFICES ASSUME T # {} PROVE FALSE
  BY <1>1
<1>3. PICK m \in T : \A k \in T : ~(k < m)
  BY <1>1, <1>2, NatMin
<1>4. m # 0
  <2> DEFINE f == [i \in 0..0 |-> first]
  <2>1. Upto(f, 0, S, first, F)
    BY DEF Upto
  <2> QED
    BY <1>1, <2>1
<1>5. m - 1 \in Nat /\ m - 1 < m /\ (m - 1) + 1 = m
  BY <1>1, <1>4
<1>6. m - 1 \notin T
  BY <1>3, <1>5
<1>7. PICK f : Upto(f, m - 1, S, first, F)
  BY <1>1, <1>5, <1>6
<1>8. \E g : Upto(g, (m - 1) + 1, S, first, F)
  BY <1>5, <1>7, UptoNext
<1> QED
  BY <1>1, <1>3, <1>5, <1>8

\* Two starts agree as far as both go.
LEMMA UptoSame ==
  ASSUME NEW S, NEW first, NEW F, NEW n \in Nat, NEW m \in Nat,
         NEW f, Upto(f, n, S, first, F), NEW g, Upto(g, m, S, first, F),
         NEW j \in Nat, j <= n, j <= m
  PROVE  f[j] = g[j]
<1> DEFINE T == {i \in 0..j : f[i] # g[i]}
<1>1. T \in SUBSET Nat /\ \A i \in 0..j : i \in T <=> f[i] # g[i]
  OBVIOUS
<1>2. \A i \in T : i \in 0..j
  OBVIOUS
<1> HIDE DEF T
<1>3. SUFFICES ASSUME T # {} PROVE FALSE
  BY <1>1
<1>4. PICK i \in T : \A k \in T : ~(k < i)
  BY <1>1, <1>3, NatMin
<1>5. i # 0
  BY <1>1, <1>2 DEF Upto
<1>6. i - 1 \in 0..j /\ i - 1 < i /\ i - 1 \in 0..(n - 1) /\ i - 1 \in 0..(m - 1)
      /\ (i - 1) + 1 = i
  BY <1>2, <1>5
<1>7. f[i - 1] = g[i - 1]
  BY <1>1, <1>4, <1>6
<1>8. f[i] = F[i - 1][f[i - 1]] /\ g[i] = F[i - 1][g[i - 1]]
  BY <1>6 DEF Upto
<1> QED
  BY <1>1, <1>2, <1>4, <1>7, <1>8

\* The function on the natural numbers that starts with first and goes on by F.
Recursive(f, S, first, F) ==
  /\ f \in [Nat -> S]
  /\ f[0] = first
  /\ \A n \in Nat : f[n + 1] = F[n][f[n]]

\* A first value and a step define one.
LEMMA RecursionDefines ==
  ASSUME NEW S, NEW first \in S, NEW F \in [Nat -> [S -> S]]
  PROVE  \E f : Recursive(f, S, first, F)
<1> DEFINE some(n) == CHOOSE f : Upto(f, n, S, first, F)
<1>1. \A n \in Nat : Upto(some(n), n, S, first, F)
  BY UptoAny
<1> HIDE DEF some
<1> DEFINE h == [n \in Nat |-> some(n)[n]]
<1>2. h \in [Nat -> S]
  <2>1. ASSUME NEW n \in Nat PROVE some(n)[n] \in S
    BY <1>1 DEF Upto
  <2> QED
    BY <2>1
<1>3. h[0] = first
  BY <1>1 DEF Upto
<1>4. ASSUME NEW n \in Nat
      PROVE  h[n + 1] = F[n][h[n]]
  <2>1. n <= n /\ n <= n + 1 /\ n + 1 \in Nat /\ n \in 0..((n + 1) - 1)
    OBVIOUS
  <2>2. Upto(some(n), n, S, first, F) /\ Upto(some(n + 1), n + 1, S, first, F)
    BY <1>1, <2>1
  <2>3. some(n)[n] = some(n + 1)[n]
    BY <2>1, <2>2, UptoSame
  <2>4. some(n + 1)[n + 1] = F[n][some(n + 1)[n]]
    BY <2>1, <2>2 DEF Upto
  <2> QED
    BY <2>1, <2>3, <2>4
<1>5. Recursive(h, S, first, F)
  <2> HIDE DEF h
  <2> QED
    BY <1>2, <1>3, <1>4 DEF Recursive
<1> QED
  BY <1>5
================================================================================
