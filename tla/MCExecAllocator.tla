--------------------------- MODULE MCExecAllocator ---------------------------
(* Instances of ExecAllocator for TLC.                                     *)
EXTENDS ExecAllocator, TLC

Anyone == Permutations(Chunks)
=============================================================================
