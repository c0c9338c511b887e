----------------------------- MODULE Recursions ------------------------------
(***************************************************************************)
(* Sums and maxima of the first values of a function, as functions defined *)
(* by recursion, about which RecursionProofs can prove something.          *)
(***************************************************************************)
EXTENDS Integers

SumTo(f, n) == LET sum[i \in 0 .. n] == IF i = 0 THEN 0 ELSE sum[i - 1] + f[i]
               IN  sum[n]

Larger(a, b) == IF a > b THEN a ELSE b

\* At least 0.
MaxTo(f, n) == LET max[i \in 0 .. n] == IF i = 0 THEN 0 ELSE Larger(max[i - 1], f[i])
               IN  max[n]

=============================================================================
