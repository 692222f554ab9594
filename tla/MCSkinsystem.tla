---------------------------- MODULE MCSkinsystem ----------------------------
(***************************************************************************)
(* Skinsystem for TLC: every request, every answer of what it depends on.  *)
(***************************************************************************)
EXTENDS Skinsystem
=============================================================================
