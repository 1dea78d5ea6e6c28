--------------------------- MODULE MCARCIfCvtCost ---------------------------
(* Words of eight bits.  Pairs of these weights are equal, lopsided or without *)
(* a weight, and have sums that fit, that just do not, and that must be halved. *)
EXTENDS ARCIfCvtCost

MCWeights == {0, 1, 5, 16, 100, 127, 128, 200, 255}
MCCycles == 0 .. 6
=============================================================================
