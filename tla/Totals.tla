------------------------------- MODULE Totals -------------------------------
(* The total of a sequence of integers.  Operators only.                   *)
EXTENDS Integers, Sequences

Total(s) ==
    LET sum[n \in 0..Len(s)] == IF n = 0 THEN 0 ELSE sum[n - 1] + s[n]
    IN  sum[Len(s)]
=============================================================================
