------------------- MODULE MCLiveEntryReconciliation -------------------
(* Instances of LiveEntryReconciliation for TLC: the BUYs are all of one   *)
(* symbol, or each of its own.                                             *)
EXTENDS LiveEntryReconciliation, TLC

CONSTANTS k1, k2, c1, c2

OneCode    == [k \in Signals |-> c1]
CodeOfEach == [k \in Signals |-> IF k = k1 THEN c1 ELSE c2]
Symmetry == Permutations(Signals)
=============================================================================
