--------------------------- MODULE MCPointManager ---------------------------
(***************************************************************************)
(* The instance of PointManager for TLC.  Its wallets have no symmetry: u1 *)
(* is a user and a manager.                                                *)
(***************************************************************************)
EXTENDS PointManager
=============================================================================
