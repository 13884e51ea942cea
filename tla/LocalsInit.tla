----------------------------- MODULE LocalsInit -----------------------------
(***************************************************************************)
(* Which locals of a function are zeroed when it is entered.  WebAssembly  *)
(* zeroes them all; PrepareFunc scans the body once, in the order of the   *)
(* text, and asks for zeroes only for those it sees read where nothing is  *)
(* sure to have set them.  Here the scan runs along with one path of the   *)
(* run of the body: while a branch is taken to a label further on, only    *)
(* the scan goes on.  A branch back to a loop goes on from its head, with  *)
(* what the scan knew there; each reading of the body may be another.      *)
(***************************************************************************)
EXTENDS Integers, Sequences

CONSTANTS
  Params,     (* the parameters of the function                            *)
  Vars,       (* its other locals                                          *)
  MaxBlocks   (* bound: nesting of blocks                                  *)

Unset == 65535   (* the level of a local that nothing is sure to have set  *)

ASSUME LocalsInitAssumption == MaxBlocks \in Nat /\ MaxBlocks < Unset

VARIABLES
  level,      (* sv->val.op: the nesting at which the local is surely set  *)
  blocks,     (* m->blocks: [kind, head], head the levels at its beginning *)
  flagged,    (* the locals with jit_type & 1: zeroed on entry             *)
  path,       (* where the path of the run is, or is on its way to         *)
  assigned,   (* the locals that were set on the path                      *)
  early       (* the locals that were read on the path before              *)

scanVars == <<level, blocks, flagged, path, assigned, early>>

Locals == Params \cup Vars
Depth == Len(blocks)
Kinds == {"block", "loop", "if", "else"}
Here == [doing |-> "here", of |-> 0]
ToEnd(d) == [doing |-> "to end", of |-> d]
ToElse(d) == [doing |-> "to else", of |-> d]
Left == [doing |-> "left", of |-> 0]

ScanInit ==
  /\ level = [l \in Locals |-> IF l \in Params THEN 0 ELSE Unset]
  /\ blocks = <<>> /\ flagged = {} /\ path = Here
  /\ assigned = Params /\ early = {}

LocalGet(l) ==
  /\ flagged' = IF level[l] > Depth THEN flagged \cup {l} ELSE flagged
  /\ early' = IF path = Here /\ l \notin assigned THEN early \cup {l} ELSE early
  /\ UNCHANGED <<level, blocks, path, assigned>>

(* local.set, local.tee                                                    *)
LocalSet(l) ==
  /\ level' = IF level[l] > Depth THEN [level EXCEPT ![l] = Depth] ELSE level
  /\ assigned' = IF path = Here THEN assigned \cup {l} ELSE assigned
  /\ UNCHANGED <<blocks, flagged, path, early>>

(* The condition of an if is left open.                                    *)
Begin(kind) ==
  /\ Depth < MaxBlocks
  /\ blocks' = Append(blocks, [kind |-> kind, head |-> level])
  /\ path' \in IF path = Here /\ kind = "if" THEN {Here, ToElse(Depth + 1)} ELSE {path}
  /\ UNCHANGED <<level, flagged, assigned, early>>

(* What was set no further out than nesting d is no longer sure.           *)
Unsure(d) == [l \in Locals |-> IF level[l] > d THEN Unset ELSE level[l]]

(* Mutant of AtElse: what the first arm has set stays set in the second.   *)
AtElseKept == Unsure(Depth)

AtElse == Unsure(Depth - 1)

Else ==
  /\ blocks # <<>> /\ blocks[Depth].kind = "if"
  /\ level' = AtElse
  /\ blocks' = [blocks EXCEPT ![Depth].kind = "else"]
  /\ path' = IF path = Here THEN ToEnd(Depth)
             ELSE IF path = ToElse(Depth) THEN Here ELSE path
  /\ UNCHANGED <<flagged, assigned, early>>

AtEnd == Unsure(Depth - 1)

(* Mutant of Arrives: the jump of an if without else is not bound.         *)
ArrivesByBranch == {ToEnd(Depth)}

Arrives == {ToEnd(Depth), ToElse(Depth)}

End ==
  /\ blocks # <<>>
  /\ level' = AtEnd
  /\ blocks' = SubSeq(blocks, 1, Depth - 1)
  /\ path' = IF path \in Arrives THEN Here ELSE path
  /\ UNCHANGED <<flagged, assigned, early>>

(* A branch that is taken, of any kind: the scan passes over it.           *)
Branch(d) ==
  /\ path = Here
  /\ IF blocks[d].kind = "loop"
     THEN blocks' = SubSeq(blocks, 1, d) /\ level' = blocks[d].head /\ UNCHANGED path
     ELSE path' = ToEnd(d) /\ UNCHANGED <<blocks, level>>
  /\ UNCHANGED <<flagged, assigned, early>>

Returns ==
  /\ path = Here /\ path' = Left
  /\ UNCHANGED <<level, blocks, flagged, assigned, early>>

ScanNext ==
  \/ \E l \in Locals : LocalGet(l)
  \/ \E l \in Locals : LocalSet(l)
  \/ \E kind \in {"block", "loop", "if"} : Begin(kind)
  \/ Else
  \/ End
  \/ \E d \in 1 .. Depth : Branch(d)
  \/ Returns

ScanSpec == ScanInit /\ [][ScanNext]_scanVars

-----------------------------------------------------------------------------

Levels == 0 .. MaxBlocks \cup {Unset}

ScanTypeOK ==
  /\ level \in [Locals -> Levels]
  /\ blocks \in Seq([kind : Kinds, head : [Locals -> Levels]]) /\ Depth <= MaxBlocks
  /\ flagged \subseteq Locals
  /\ path \in {Here, Left} \cup {ToEnd(d) : d \in 1 .. Depth} \cup {ToElse(d) : d \in 1 .. Depth}
  /\ assigned \subseteq Locals /\ early \subseteq Locals

(* Every local that a run reads before it has set it is one of those       *)
(* zeroed on entry: on no path through blocks, arms, loops and branches    *)
(* does the code read what the frame or the register held before.          *)
ReadsZeroed == early \subseteq flagged
=============================================================================
