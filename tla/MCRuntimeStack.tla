--------------------------- MODULE MCRuntimeStack ---------------------------
(* Instances of RuntimeStack for TLC; the cfg files choose the pointer     *)
(* size.                                                                   *)
EXTENDS RuntimeStack
=============================================================================
