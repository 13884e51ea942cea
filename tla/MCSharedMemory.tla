--------------------------- MODULE MCSharedMemory ---------------------------
(* Instances of SharedMemory for TLC.                                      *)
EXTENDS SharedMemory, TLC

Anywhere == Permutations(Addresses)
=============================================================================
