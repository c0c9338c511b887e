-------------------------- MODULE RecursionProofs ---------------------------
(***************************************************************************)
(* Induction, and what a function defined by recursion computes: lemmas    *)
(* for the proofs about the stream of the decoder and the JSON of tshark.  *)
(***************************************************************************)
EXTENDS Recursions, WellFoundedInduction, TLAPS

-----------------------------------------------------------------------------
(* Induction over the numbers and functions defined by recursion, without  *)
(* an operator as a parameter: a set of numbers takes its place, and that  *)
(* < is well-founded the place of the induction theorem.                   *)

\* A set that has 0 and, with a number, the next has all of them.
LEMMA Induction ==
  ASSUME NEW S, 0 \in S, \A n \in Nat : n \in S => n + 1 \in S
  PROVE  Nat \subseteq S
<1> DEFINE T == Nat \ S
           less == {p \in Nat \X Nat : p[1] < p[2]}
<1> SUFFICES ASSUME T # {} PROVE FALSE
  OBVIOUS
<1>1. IsWellFoundedOn(less, Nat)
  BY NatLessThanWellFounded DEF OpToRel
<1>2. PICK m \in T : \A k \in T : ~(<<k, m>> \in less)
  <2>1. T \subseteq Nat
    OBVIOUS
  <2> HIDE DEF T, less
  <2> QED
    BY <1>1, <2>1, WFMin
<1>3. \A k \in T : ~(k < m)
  BY <1>2
<1>4. m \in Nat /\ m # 0 /\ m \notin S
  OBVIOUS
<1>5. m - 1 \in Nat /\ m - 1 < m /\ (m - 1) + 1 = m
  BY <1>4
<1>6. m - 1 \in S
  BY <1>3, <1>5
<1> QED
  BY <1>4, <1>5, <1>6

\* F starts with base, and the i-th of its m steps is g[i].
Follows(F, m, base, g) ==
  F[0] = base /\ \A i \in 1 .. m : F[i] = g[i][F[i - 1]]

\* There is a function with given first value and steps.
LEMMA Recursion ==
  ASSUME NEW m \in Nat, NEW V, NEW base \in V, NEW g \in [1 .. m -> [V -> V]]
  PROVE  \E F \in [0 .. m -> V] : Follows(F, m, base, g)
<1> DEFINE Upto(k, F) == F[0] = base /\ \A i \in 1 .. k : F[i] = g[i][F[i - 1]]
           S == {k \in Nat : k <= m => \E F \in [0 .. k -> V] : Upto(k, F)}
<1>1. 0 \in S
  <2>1. [i \in 0 .. 0 |-> base] \in [0 .. 0 -> V] /\ Upto(0, [i \in 0 .. 0 |-> base])
    OBVIOUS
  <2> QED
    BY <2>1
<1>2. ASSUME NEW k \in Nat, k \in S PROVE k + 1 \in S
  <2> SUFFICES ASSUME k + 1 <= m PROVE \E F \in [0 .. k + 1 -> V] : Upto(k + 1, F)
    OBVIOUS
  <2>1. PICK F \in [0 .. k -> V] : Upto(k, F)
    BY <1>2
  <2> DEFINE H == [i \in 0 .. k + 1 |-> IF i <= k THEN F[i] ELSE g[k + 1][F[k]]]
  <2>2. g[k + 1] \in [V -> V] /\ F[k] \in V
    OBVIOUS
  <2>3. H \in [0 .. k + 1 -> V]
    BY <2>2
  <2>4. H[0] = base
    BY <2>1
  <2>5. ASSUME NEW i \in 1 .. k + 1 PROVE H[i] = g[i][H[i - 1]]
    <3>1. CASE i <= k
      <4>1. i \in 1 .. k /\ i \in 0 .. k + 1 /\ i - 1 \in 0 .. k + 1 /\ i - 1 <= k
        BY <3>1
      <4> QED
        BY <2>1, <3>1, <4>1
    <3>2. CASE i = k + 1
      <4>1. /\ k + 1 \in 0 .. k + 1 /\ ~(k + 1 <= k)
            /\ k \in 0 .. k + 1 /\ (k + 1) - 1 = k /\ k <= k
        OBVIOUS
      <4> QED
        BY <3>2, <4>1
    <3> QED
      BY <3>1, <3>2
  <2> QED
    BY <2>3, <2>4, <2>5
<1> HIDE DEF S
<1>3. m \in S
  BY <1>1, <1>2, Induction
<1> QED
  BY <1>3 DEF S, Follows

\* A function with the same steps is the same function.
Alike(F, G, m) ==
  F[0] = G[0] /\ \A i \in 1 .. m : F[i - 1] = G[i - 1] => F[i] = G[i]

LEMMA Same ==
  ASSUME NEW m \in Nat, NEW F, NEW G, Alike(F, G, m)
  PROVE  \A i \in 0 .. m : F[i] = G[i]
<1> USE DEF Alike
<1> DEFINE S == {k \in Nat : k <= m => F[k] = G[k]}
<1>1. 0 \in S
  OBVIOUS
<1>2. ASSUME NEW k \in Nat, k \in S PROVE k + 1 \in S
  <2> SUFFICES ASSUME k + 1 <= m PROVE F[k + 1] = G[k + 1]
    OBVIOUS
  <2>1. F[k] = G[k] /\ k + 1 \in 1 .. m /\ (k + 1) - 1 = k
    BY <1>2
  <2> QED
    BY <2>1
<1> HIDE DEF S
<1>3. Nat \subseteq S
  BY <1>1, <1>2, Induction
<1> QED
  BY <1>3 DEF S

\* SumTo is what its recursive definition says.
LEMMA SumSteps ==
  ASSUME NEW m \in Nat, NEW f, \A i \in 1 .. m : f[i] \in Nat
  PROVE  /\ SumTo(f, 0) = 0
         /\ \A n \in 0 .. m : SumTo(f, n) \in Nat
         /\ \A n \in 1 .. m : SumTo(f, n) = SumTo(f, n - 1) + f[n]
<1> DEFINE g == [i \in 1 .. m |-> [v \in Nat |-> v + f[i]]]
<1>1. g \in [1 .. m -> [Nat -> Nat]]
  OBVIOUS
<1>2. PICK F \in [0 .. m -> Nat] : Follows(F, m, 0, g)
  <2>1. \A b, h : b \in Nat /\ h \in [1 .. m -> [Nat -> Nat]]
          => \E F \in [0 .. m -> Nat] : Follows(F, m, b, h)
    BY Recursion
  <2> HIDE DEF g
  <2> QED
    BY <1>1, <2>1
<1>3. ASSUME NEW i \in 1 .. m PROVE F[i] = F[i - 1] + f[i]
  <2>1. F[i] = g[i][F[i - 1]]
    BY <1>2 DEF Follows
  <2>2. F[i - 1] \in Nat
    <3> HIDE DEF g
    <3> QED
      BY <1>2
  <2> QED
    BY <2>1, <2>2
<1>0. F[0] = 0
  BY <1>2 DEF Follows
<1>4. ASSUME NEW n \in 0 .. m PROVE SumTo(f, n) = F[n]
  <2> DEFINE sum == CHOOSE s : s = [i \in 0 .. n |-> IF i = 0 THEN 0 ELSE s[i - 1] + f[i]]
             H == [i \in 0 .. n |-> F[i]]
  <2>1. SumTo(f, n) = sum[n]
    BY DEF SumTo
  <2>2. H = [i \in 0 .. n |-> IF i = 0 THEN 0 ELSE H[i - 1] + f[i]]
    BY <1>0, <1>3
  <2>3. sum = [i \in 0 .. n |-> IF i = 0 THEN 0 ELSE sum[i - 1] + f[i]]
    <3> HIDE DEF H
    <3> QED
      BY <2>2
  <2> HIDE DEF sum
  <2>4. sum[0] = F[0]
    BY <1>0, <2>3
  <2>5. \A i \in 1 .. n : sum[i - 1] = F[i - 1] => sum[i] = F[i]
    BY <1>3, <2>3
  <2>6. n \in Nat /\ n \in 0 .. n
    OBVIOUS
  <2>7. \A i \in 0 .. n : sum[i] = F[i]
    <3>1. Alike(sum, F, n)
      BY <2>4, <2>5 DEF Alike
    <3> HIDE DEF H
    <3> QED
      BY <2>6, <3>1, Same
  <2> QED
    BY <2>1, <2>6, <2>7
<1> HIDE DEF g
<1>5. \A i \in 0 .. m : F[i] \in Nat
  BY <1>2
<1>6. \A i \in 1 .. m : i \in 0 .. m /\ i - 1 \in 0 .. m
  OBVIOUS
<1> QED
  BY <1>0, <1>3, <1>4, <1>5, <1>6

\* So is MaxTo.
LEMMA MaxSteps ==
  ASSUME NEW m \in Nat, NEW f, \A i \in 1 .. m : f[i] \in Nat
  PROVE  /\ MaxTo(f, 0) = 0
         /\ \A n \in 0 .. m : MaxTo(f, n) \in Nat
         /\ \A n \in 1 .. m : MaxTo(f, n) = Larger(MaxTo(f, n - 1), f[n])
<1> DEFINE g == [i \in 1 .. m |-> [v \in Nat |-> Larger(v, f[i])]]
<1>1. g \in [1 .. m -> [Nat -> Nat]]
  BY DEF Larger
<1>2. PICK F \in [0 .. m -> Nat] : Follows(F, m, 0, g)
  <2>1. \A b, h : b \in Nat /\ h \in [1 .. m -> [Nat -> Nat]]
          => \E F \in [0 .. m -> Nat] : Follows(F, m, b, h)
    BY Recursion
  <2> HIDE DEF g
  <2> QED
    BY <1>1, <2>1
<1>3. ASSUME NEW i \in 1 .. m PROVE F[i] = Larger(F[i - 1], f[i])
  <2>1. F[i] = g[i][F[i - 1]]
    BY <1>2 DEF Follows
  <2>2. F[i - 1] \in Nat
    <3> HIDE DEF g
    <3> QED
      BY <1>2
  <2> QED
    BY <2>1, <2>2
<1>0. F[0] = 0
  BY <1>2 DEF Follows
<1>4. ASSUME NEW n \in 0 .. m PROVE MaxTo(f, n) = F[n]
  <2> DEFINE max == CHOOSE s : s = [i \in 0 .. n |-> IF i = 0 THEN 0 ELSE Larger(s[i - 1], f[i])]
             H == [i \in 0 .. n |-> F[i]]
  <2>1. MaxTo(f, n) = max[n]
    BY DEF MaxTo
  <2>2. H = [i \in 0 .. n |-> IF i = 0 THEN 0 ELSE Larger(H[i - 1], f[i])]
    BY <1>0, <1>3
  <2>3. max = [i \in 0 .. n |-> IF i = 0 THEN 0 ELSE Larger(max[i - 1], f[i])]
    <3> HIDE DEF H
    <3> QED
      BY <2>2
  <2> HIDE DEF max
  <2>4. max[0] = F[0]
    BY <1>0, <2>3
  <2>5. \A i \in 1 .. n : max[i - 1] = F[i - 1] => max[i] = F[i]
    BY <1>3, <2>3
  <2>6. n \in Nat /\ n \in 0 .. n
    OBVIOUS
  <2>7. \A i \in 0 .. n : max[i] = F[i]
    <3>1. Alike(max, F, n)
      BY <2>4, <2>5 DEF Alike
    <3> HIDE DEF H
    <3> QED
      BY <2>6, <3>1, Same
  <2> QED
    BY <2>1, <2>6, <2>7
<1> HIDE DEF g
<1>5. \A i \in 0 .. m : F[i] \in Nat
  BY <1>2
<1>6. \A i \in 1 .. m : i \in 0 .. m /\ i - 1 \in 0 .. m
  OBVIOUS
<1> QED
  BY <1>0, <1>3, <1>4, <1>5, <1>6

=============================================================================
