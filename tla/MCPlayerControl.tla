---------------------------- MODULE MCPlayerControl ----------------------------
(***************************************************************************)
(* Instances of PlayerControl for TLC: a list of two items, four stream    *)
(* IDs and four crawler operations (see the cfg files for the bounds).     *)
(***************************************************************************)
EXTENDS PlayerControl
=============================================================================
