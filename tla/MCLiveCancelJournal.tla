------------------------- MODULE MCLiveCancelJournal -------------------------
(* LiveCancelJournal on small sets of interchangeable orders and workers.   *)
EXTENDS LiveCancelJournal, TLC

Symmetry == Permutations(Orders) \union Permutations(Workers)
=============================================================================
