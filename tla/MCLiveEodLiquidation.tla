------------------------ MODULE MCLiveEodLiquidation ------------------------
(* LiveEodLiquidation on interchangeable symbols.                           *)
EXTENDS LiveEodLiquidation, TLC

Symmetry == Permutations(Codes)
=============================================================================
