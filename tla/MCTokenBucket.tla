---------------------------- MODULE MCTokenBucket ----------------------------
(* Small instances of TokenBucket for TLC.                                 *)
EXTENDS TokenBucket, TLC

CONSTANTS i1, i2

(* The clock of i2 is a millisecond ahead.                                 *)
MCSkew == [i \in Instances |-> IF i = i1 THEN 0 ELSE 1]

Symmetry == Permutations(Requests)
=============================================================================
