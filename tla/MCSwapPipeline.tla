--------------------------- MODULE MCSwapPipeline ---------------------------
(***************************************************************************)
(* Instances of SwapPipeline for TLC.                                      *)
(***************************************************************************)
EXTENDS SwapPipeline, TLC

Symmetry == Permutations(Swap) \cup Permutations(Worker)
=============================================================================
