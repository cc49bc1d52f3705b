------------------------------ MODULE Recursions ------------------------------
(***************************************************************************)
(* What several modules compute along a sequence or over the numbers up to *)
(* a bound, as recursive functions: unlike the operators of the community  *)
(* modules, which are recursive or choose an order, these can be proved    *)
(* about.                                                                  *)
(***************************************************************************)
EXTENDS Integers, Sequences

\* The elements of s that are in S, in their order.
Only(s, S) ==
    LET kept[i \in 0..Len(s)] ==
            IF i = 0 THEN <<>>
            ELSE IF s[i] \in S THEN Append(kept[i - 1], s[i]) ELSE kept[i - 1]
    IN kept[Len(s)]

\* f[1] + ... + f[n].
SumTo(f, n) ==
    LET sum[i \in 0..n] == IF i = 0 THEN 0 ELSE sum[i - 1] + f[i]
    IN sum[n]
===============================================================================
