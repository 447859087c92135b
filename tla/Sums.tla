-------------------------------- MODULE Sums --------------------------------
(* Sums of sequences, where the code adds up lists.                        *)
EXTENDS Integers, Sequences

(* The sum of the first i of them, for every i. *)
PartialSums(s) == LET sum[i \in 0..Len(s)] == IF i = 0 THEN 0 ELSE sum[i - 1] + s[i] IN sum

SumOfAll(s) == PartialSums(s)[Len(s)]
=============================================================================
