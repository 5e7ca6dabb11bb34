------------------------------- MODULE Totals -------------------------------
(* sum() over a list of numbers.                                             *)
EXTENDS Integers

\* w[1] + ... + w[n]
Total(w, n) == LET sum[i \in 0..n] == IF i = 0 THEN 0 ELSE sum[i - 1] + w[i] IN sum[n]
=============================================================================
