---------------------------- MODULE MCLocalsInit ----------------------------
(* Two locals and blocks nested three deep, for TLC.                       *)
EXTENDS LocalsInit
=============================================================================
