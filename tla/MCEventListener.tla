-------------------------- MODULE MCEventListener --------------------------
(***************************************************************************)
(* Instances of EventListener for TLC.                                     *)
(***************************************************************************)
EXTENDS EventListener, TLC

SymmetryTx == Permutations(Tx)
=============================================================================
