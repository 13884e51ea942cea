---------------------------- MODULE RuntimeStack ----------------------------
(***************************************************************************)
(* The runtime value stack of pwart: how a caller and a callee that were   *)
(* written by different hands agree on where each argument and each result *)
(* of a call lies.                                                         *)
(*                                                                         *)
(* There are two hands.  Host C code walks the stack with pwart_rstack_put *)
(* and pwart_rstack_get, which align a cursor that is a machine address.   *)
(* Compiled code uses offsets fixed at compile time from its frame pointer *)
(* S0: FuncEnter lays out the parameters, the operand stack places the     *)
(* arguments of a call, FuncReturn and the code after a call place the     *)
(* results.  Nothing but arithmetic makes the two layouts meet.            *)
(*                                                                         *)
(* A behaviour is a chain of nested calls.  Each call transfers arguments  *)
(* from caller to callee, runs a body that may call again, and transfers   *)
(* results back.  Both transfers start at the callee's frame base.         *)
(***************************************************************************)
EXTENDS Integers, Sequences

CONSTANTS
  PtrSize,    (* sizeof(void * ): 4 or 8                                   *)
  MaxVals,    (* bound: values in one transfer                             *)
  MaxFrames,  (* bound: nested frames, the host's own included             *)
  MaxGap      (* bound: bytes of operand stack a caller keeps below the    *)
              (* arguments of a call                                       *)

ASSUME RuntimeStackAssumption ==
  /\ PtrSize \in {4, 8}
  /\ MaxVals \in Nat
  /\ MaxFrames \in Nat \ {0}
  /\ MaxGap \in Nat

VARIABLES
  frames,  (* the nested frames, outermost first: who runs there, its base *)
           (* address, and the end of the area that holds its parameters   *)
  phase,   (* what the innermost call is doing                             *)
  vals,    (* the types transferred so far by the current transfer         *)
  at,      (* the address each of them was written to                      *)
  got,     (* the addresses the receiving side has read so far             *)
  pos      (* the cursor of the side that is active                        *)

vars == <<frames, phase, vals, at, got, pos>>

Types == {"i32", "i64", "f32", "f64", "ref"}
Hands == {"host", "wasm"}
Frame == [hand : Hands, base : Nat, limit : Nat]

Size(t) ==
  IF t \in {"i32", "f32"} THEN 4 ELSE IF t \in {"i64", "f64"} THEN 8 ELSE PtrSize

(* wasmtype_GetSizeAndAlign answers the size for the alignment as well.    *)
Align(t) == Size(t)

(* Mutant of AlignUp: rounds down.                                         *)
AlignDown(o, a) == o - (o % a)

AlignUp(o, a) == IF o % a > 0 THEN (o + a) - (o % a) ELSE o

(* pwart_rstack_put_i32 and _f32 leave the cursor where it is; the other   *)
(* three move it to a multiple of 8, whatever the pointer size.            *)
HostPut(sp, t) == IF t \in {"i32", "f32"} THEN sp ELSE AlignUp(sp, 8)

(* Mutant of HostGet: reads at the cursor whatever the type.               *)
HostGetUnaligned(sp, t) == sp

(* The getters do the same, except that pwart_rstack_get_ref aligns only   *)
(* when pointers have 8 bytes.                                             *)
HostGet(sp, t) ==
  IF t \in {"i32", "f32"} \/ (t = "ref" /\ PtrSize # 8) THEN sp ELSE AlignUp(sp, 8)

(* Mutant of FrameSlot: packs values of every type.                        *)
FrameSlotPacked(s0, sp, t) == sp

(* Compiled code aligns an offset from the frame pointer s0 of the         *)
(* function it belongs to, not an address: stackvalue_GetAlignedOffset.    *)
FrameSlot(s0, sp, t) == s0 + AlignUp(sp - s0, Align(t))

(* Mutant of CallFrameOffset: a correction downwards.                      *)
CallFrameOffsetDown(off) == off - (off % 8)

(* pwart_EmitCallFunc2 moves the arguments up by 4 when the first of them  *)
(* is not at a multiple of 8.                                              *)
CallFrameOffset(off) == IF off % 8 > 0 THEN off + 4 ELSE off

Top == frames[Len(frames)]
Below == frames[Len(frames) - 1]

-----------------------------------------------------------------------------

Init ==
  /\ frames = <<[hand |-> "host", base |-> 0, limit |-> 0]>>
  /\ phase = "body"
  /\ vals = <<>> /\ at = <<>> /\ got = <<>>
  /\ pos = 0

(* The innermost function starts a call.  The host passes the base of the  *)
(* stack it allocated; compiled code passes S0 + func_frame_offset, an     *)
(* offset at or above its own parameters that depends on what its operand  *)
(* stack holds below the arguments.                                        *)
Call(callee, gap) ==
  /\ phase = "body" /\ Len(frames) < MaxFrames
  /\ Top.hand = "host" => gap = 0 /\ Len(frames) = 1
  /\ LET base == IF Top.hand = "host" THEN Top.base
                 ELSE Top.base + CallFrameOffset((Top.limit - Top.base) + gap)
     IN  /\ frames' = Append(frames, [hand |-> callee, base |-> base, limit |-> base])
         /\ pos' = base
  /\ phase' = "args"
  /\ vals' = <<>> /\ at' = <<>> /\ got' = <<>>

(* The sending side writes one more value and moves its cursor past it.    *)
Put(hand, s0, t) ==
  /\ Len(vals) < MaxVals
  /\ LET a == IF hand = "host" THEN HostPut(pos, t) ELSE FrameSlot(s0, pos, t)
     IN  at' = Append(at, a) /\ pos' = a + Size(t)
  /\ vals' = Append(vals, t)
  /\ UNCHANGED <<frames, phase, got>>

(* The receiving side reads the next value of the signature.               *)
Get(hand, s0) ==
  /\ Len(got) < Len(vals)
  /\ LET t == vals[Len(got) + 1]
         a == IF hand = "host" THEN HostGet(pos, t) ELSE FrameSlot(s0, pos, t)
     IN  got' = Append(got, a) /\ pos' = a + Size(t)
  /\ UNCHANGED <<frames, phase, vals, at>>

(* Arguments: the caller places them relative to its own frame pointer,    *)
(* the callee finds them relative to the pointer it was given.             *)
PutArg(t) == phase = "args" /\ Put(Below.hand, Below.base, t)

EnterFunc ==
  /\ phase = "args"
  /\ phase' = "params" /\ pos' = Top.base
  /\ UNCHANGED <<frames, vals, at, got>>

GetParam == phase = "params" /\ Get(Top.hand, Top.base)

(* first_stackvalue_offset: whatever the function pushes comes after its   *)
(* parameters.                                                             *)
StartBody ==
  /\ phase = "params" /\ Len(got) = Len(vals)
  /\ phase' = "body"
  /\ frames' = [frames EXCEPT ![Len(frames)].limit = pos]
  /\ UNCHANGED <<vals, at, got, pos>>

(* Mutant of Return: what was read of the parameters still counts.         *)
ReturnKeepsCount ==
  /\ phase = "body" /\ Len(frames) > 1
  /\ phase' = "results" /\ pos' = Top.base
  /\ vals' = <<>> /\ at' = <<>>
  /\ UNCHANGED <<frames, got>>

(* Results go to the base of the callee's frame, over the parameters.      *)
Return ==
  /\ phase = "body" /\ Len(frames) > 1
  /\ phase' = "results" /\ pos' = Top.base
  /\ vals' = <<>> /\ at' = <<>> /\ got' = <<>>
  /\ UNCHANGED frames

PutResult(t) == phase = "results" /\ Put(Top.hand, Top.base, t)

LeaveFunc ==
  /\ phase = "results"
  /\ phase' = "fetch" /\ pos' = Top.base
  /\ UNCHANGED <<frames, vals, at, got>>

GetResult == phase = "fetch" /\ Get(Below.hand, Below.base)

Resume ==
  /\ phase = "fetch" /\ Len(got) = Len(vals)
  /\ phase' = "body"
  /\ frames' = SubSeq(frames, 1, Len(frames) - 1)
  /\ UNCHANGED <<vals, at, got, pos>>

Next ==
  \/ \E callee \in Hands, gap \in {g \in 0 .. MaxGap : g % 4 = 0} : Call(callee, gap)
  \/ \E t \in Types : PutArg(t)
  \/ EnterFunc
  \/ GetParam
  \/ StartBody
  \/ Return
  \/ \E t \in Types : PutResult(t)
  \/ LeaveFunc
  \/ GetResult
  \/ Resume

Spec == Init /\ [][Next]_vars

-----------------------------------------------------------------------------

TypeOK ==
  /\ frames \in Seq(Frame)
  /\ Len(frames) \in 1 .. MaxFrames
  /\ phase \in {"args", "params", "body", "results", "fetch"}
  /\ phase # "body" => Len(frames) > 1
  /\ vals \in Seq(Types) /\ at \in Seq(Nat) /\ got \in Seq(Nat)
  /\ Len(vals) <= MaxVals /\ Len(at) = Len(vals) /\ Len(got) <= Len(vals)
  /\ pos \in Nat

(* Every value is read at the address it was written to, whoever wrote it  *)
(* and whoever reads it: the two sets of rstack helpers and the frame      *)
(* layout of compiled code are the same layout.                            *)
ReadWhereWritten == \A i \in 1 .. Len(got) : got[i] = at[i]

(* Compiled code loads and stores a value at its natural alignment, which  *)
(* it can know at compile time only if every frame starts at a multiple of *)
(* 8, however deep the nesting and whatever odd number of 4-byte values    *)
(* the callers keep on their stacks.                                       *)
NaturallyAligned == \A i \in 1 .. Len(at) : at[i] % Align(vals[i]) = 0

(* No call writes below the end of the parameters of any compiled function *)
(* still running underneath it: their parameters stay readable.            *)
CallersUntouched ==
  \A i \in 1 .. Len(at), k \in 1 .. Len(frames) - 1 :
    frames[k].hand = "wasm" => frames[k].limit <= at[i]

(* The slots of one transfer do not overlap.                               *)
SlotsDisjoint ==
  \A i, j \in 1 .. Len(at) : i < j => at[i] + Size(vals[i]) <= at[j]
=============================================================================
