----------------------------- MODULE MCWebForms -----------------------------
(***************************************************************************)
(* Instances of WebForms for TLC.                                          *)
(***************************************************************************)
EXTENDS WebForms
=============================================================================
