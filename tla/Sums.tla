---------------------------------- MODULE Sums ----------------------------------
(* The sum of a sequence of numbers, and of a function with a finite domain. *)
EXTENDS Integers, Sequences, FiniteSets

Total(s) ==
  LET sum[n \in 0..Len(s)] == IF n = 0 THEN 0 ELSE sum[n - 1] + s[n]
  IN  sum[Len(s)]

\* The elements of S one after the other, in some order.
Listed(S) ==
  CHOOSE s \in [1..Cardinality(S) -> S] : \A i, j \in DOMAIN s : s[i] = s[j] => i = j

SumOver(f) ==
  LET order == Listed(DOMAIN f)
  IN  Total([i \in DOMAIN order |-> f[order[i]]])
=============================================================================
