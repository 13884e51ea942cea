--------------------------- MODULE MCLinearMemory ---------------------------
(* Instances of LinearMemory for TLC.  The 32-bit word is scaled down to   *)
(* 32 bytes and the page to 4, so that 8 pages fill the word and the       *)
(* default maximum, half of it, is 4 pages.                                *)
EXTENDS LinearMemory

ScaledWord == 32
ScaledPage == 4
ScaledMax == 4

Unlimited(n) == [initial |-> n, limited |-> FALSE, maximum |-> 0]
Limited(n, max) == [initial |-> n, limited |-> TRUE, maximum |-> max]

(* Declarations and arguments for which no size or count wraps.            *)
SmallDeclared == {Unlimited(1), Unlimited(2), Limited(1, 3)}
SmallDeltas == 0 .. 5

ASSUME NothingWraps == NoWrap
=============================================================================
