---------------------------- MODULE StackValues ----------------------------
(***************************************************************************)
(* The descriptions the compiler keeps of a function's operands, and the   *)
(* code it emits to move them: a stack of descriptions of where each       *)
(* operand is (a constant, a register, the place of a local, the frame,    *)
(* the flags), in which a value is moved only when it must.                *)
(*                                                                         *)
(* An operator that emits code takes the descriptions together with the    *)
(* machine (frame, registers, flags) and gives both as they are after the  *)
(* code has run.  The host is a 64-bit one; frame offsets are in words of  *)
(* 4 bytes.                                                                *)
(***************************************************************************)
EXTENDS Integers, Sequences, SequencesExt, FiniteSetsExt

CONSTANTS
  Values,      (* the values of either type                                *)
  ParamTypes,  (* the parameters of the function translated                *)
  VarTypes,    (* its other locals                                         *)
  SavedRegs,   (* how many of its locals are kept in saved registers       *)
  Scratch,     (* the number of scratch registers                          *)
  FirstSaved,  (* SLJIT_FIRST_SAVED_REG                                    *)
  Callees,     (* the signatures of the functions it calls                 *)
  MaxStack,    (* bound: operands on the stack                             *)
  FrameWords   (* bound: words of the frame that are modelled              *)

Types == {"i32", "i64"}
Regs == 1 .. Scratch
Words == 0 .. FrameWords - 1
Junk == -1       (* what anything may have overwritten                     *)
PagesAddress == -2

Size(t) == IF t = "i64" THEN 2 ELSE 1
AlignUp(off, n) == ((off + n - 1) \div n) * n

(* Where consecutive values of these types lie, from base on.              *)
Layout(base, types) ==
  LET at[i \in DOMAIN types] ==
        AlignUp(IF i = 1 THEN base ELSE at[i - 1] + Size(types[i - 1]), Size(types[i]))
  IN  at
EndOf(types) ==
  IF types = <<>> THEN 0 ELSE Layout(0, types)[Len(types)] + Size(types[Len(types)])

ASSUME StackValuesAssumption ==
  /\ Values \subseteq Nat /\ {0, 1} \subseteq Values
  /\ ParamTypes \in Seq(Types) /\ VarTypes \in Seq(Types)
  /\ \A c \in Callees : c.params \in Seq(Types) /\ c.results \in Seq(Types)
  /\ SavedRegs \in Nat /\ MaxStack \in Nat
  /\ Scratch \in Nat \ {0, 1} /\ FirstSaved \in Nat /\ Scratch < FirstSaved
  /\ FrameWords \in Nat /\ FrameWords >= EndOf(ParamTypes) + 3 * MaxStack

(* An i64 fills two words: one of them overwritten spoils it.              *)
Cell(v, part) == [value |-> v, part |-> part]
Spoilt == Cell(Junk, "whole")
Put(frame, off, t, v) ==
  IF t = "i32" THEN [frame EXCEPT ![off] = Cell(v, "whole")]
  ELSE [frame EXCEPT ![off] = Cell(v, "low"), ![off + 1] = Cell(v, "high")]
Get(frame, off, t) ==
  IF t = "i32" THEN IF frame[off].part = "whole" THEN frame[off].value ELSE Junk
  ELSE IF frame[off].part = "low" /\ frame[off + 1] = Cell(frame[off].value, "high")
       THEN frame[off].value ELSE Junk

(* The frame with values of these types written one after the other.       *)
Puts(frame, at, types, values) ==
  LET after[k \in 0 .. Len(types)] ==
        IF k = 0 THEN frame ELSE Put(after[k - 1], at[k], types[k], values[k])
  IN  after[Len(types)]

-----------------------------------------------------------------------------
(* Descriptions.  mode and n are the operand of the machine instructions:  *)
(* an immediate n, the frame at n, the register or machine stack place of  *)
(* variable n, scratch register n, memory at the address in scratch        *)
(* register n, or the flags (n = 0: their inverse).  at is the place in    *)
(* the frame that is kept for the operand.                                 *)

Operands == [type : Types, mode : {"imm", "frame", "local", "reg", "cell", "flag"},
             n : Nat, at : Nat]

LocalTypes == ParamTypes \o VarTypes
LocalPlace(i) ==
  IF i <= Len(ParamTypes) THEN [mode |-> "frame", n |-> Layout(0, ParamTypes)[i]]
  ELSE [mode |-> "local", n |-> i - Len(ParamTypes)]

Denoted(s, d) ==
  CASE d.mode = "imm"   -> d.n
    [] d.mode = "frame" -> Get(s.frame, d.n, d.type)
    [] d.mode = "local" -> s.local[d.n]
    [] d.mode = "reg"   -> s.scratch[d.n]
    [] d.mode = "cell"  -> IF s.scratch[d.n] = PagesAddress THEN s.pages ELSE Junk
    [] d.mode = "flag"  -> IF s.flag = Junk THEN Junk ELSE IF d.n = 1 THEN s.flag ELSE 1 - s.flag

Depth(s) == Len(s.stack)
Top(s) == s.stack[Depth(s)]
Under(s) == s.stack[Depth(s) - 1]
TopTypes(s, k) == [i \in 1 .. k |-> s.stack[Depth(s) - k + i].type]
Moved(d, mode, n) == [d EXCEPT !.mode = mode, !.n = n]
InRegister(d) == d.mode = "reg" \/ (d.mode = "local" /\ d.n <= SavedRegs)

(* Mutant of NextSlot: the size of the operand below is left out.          *)
NextSlotPacked(s, t) ==
  IF s.stack = <<>> THEN EndOf(ParamTypes) ELSE AlignUp(Last(s.stack).at + 1, Size(t))

NextSlot(s, t) ==
  IF s.stack = <<>> THEN EndOf(ParamTypes)
  ELSE AlignUp(Last(s.stack).at + Size(Last(s.stack).type), Size(t))

Push(s, t, mode, n) ==
  [s EXCEPT !.stack =
     Append(@, [type |-> t, mode |-> mode, n |-> n, at |-> NextSlot(s, t)])]
Pop(s, k) == [s EXCEPT !.stack = SubSeq(@, 1, Len(@) - k)]

SaveStack(s, i) ==
  LET d == s.stack[i]
  IN  IF d.mode = "frame" /\ d.n = d.at THEN s
      ELSE [s EXCEPT !.frame = Put(@, d.at, d.type, Denoted(s, d)),
                     !.stack[i] = Moved(d, "frame", d.at)]

(* Loops over the operands, from the lowest and from the topmost one.      *)
SaveUpwards(s, places) ==
  LET after[k \in 0 .. Depth(s)] ==
        IF k = 0 THEN s
        ELSE IF k \in places THEN SaveStack(after[k - 1], k) ELSE after[k - 1]
  IN  after[Depth(s)]
SaveDownwards(s, places) ==
  LET nth(k) == Depth(s) + 1 - k
      after[k \in 0 .. Depth(s)] ==
        IF k = 0 THEN s
        ELSE IF nth(k) \in places THEN SaveStack(after[k - 1], nth(k)) ELSE after[k - 1]
  IN  after[Depth(s)]

(* The operands among the k lowest whose description uses register r.      *)
Holders(s, r, k) == {i \in 1 .. k : s.stack[i].mode \in {"reg", "cell"} /\ s.stack[i].n = r}

(* Mutant of FreeReg: the loop runs one register too far.                  *)
FreeRegTooFar(s, k) == Min({r \in 1 .. Scratch + 1 : Holders(s, r, k) = {}})

(* GetFreeReg: the first register that none of the k lowest operands uses, *)
(* or the last one, whose first holder is then saved.                      *)
FreeReg(s, k) ==
  LET free == {r \in Regs : Holders(s, r, k) = {}}
  IN  IF free = {} THEN Scratch ELSE Min(free)

(* Mutant of Freed: nothing is saved when every register is in use.        *)
FreedNot(s, k) == s

Freed(s, k) ==
  LET h == Holders(s, FreeReg(s, k), k) IN IF h = {} THEN s ELSE SaveStack(s, Min(h))

LoadReg(s, i, k) ==
  LET r == FreeReg(s, k)
      f == Freed(s, k)
  IN  IF InRegister(s.stack[i]) THEN s
      ELSE [f EXCEPT !.scratch[r] = Denoted(f, f.stack[i]),
                     !.stack[i] = Moved(@, "reg", r)]

(* Mutant of Fetched: the flags are left where they are.                   *)
FetchedLate(s) == s

(* Before any instruction that does not take flags, a comparison on top of *)
(* the stack is loaded from them.                                          *)
Fetched(s) ==
  IF s.stack # <<>> /\ Last(s.stack).mode = "flag" THEN LoadReg(s, Depth(s), Depth(s)) ELSE s

-----------------------------------------------------------------------------
(* Locals.                                                                 *)

(* Mutant of Kept: operands that are still in the local are not moved.     *)
KeptNot(s, i) == s

(* Before a local is written, the operands that still are in it are saved. *)
Kept(s, i) ==
  LET p == LocalPlace(i)
  IN  SaveUpwards(s, {j \in 1 .. Depth(s) - 1 : s.stack[j].mode = p.mode /\ s.stack[j].n = p.n})
Written(s, i) ==
  LET p == LocalPlace(i)
      v == Denoted(s, Top(s))
  IN  IF p.mode = "frame" THEN [s EXCEPT !.frame = Put(@, p.n, LocalTypes[i], v)]
      ELSE [s EXCEPT !.local[p.n] = v]

-----------------------------------------------------------------------------
(* Calls: EmitCallFunc2.                                                   *)

(* The operands that use a scratch register are saved before a call.       *)
Unloaded(s) ==
  SaveUpwards(s, {i \in DOMAIN s.stack :
                    s.stack[i].mode \in {"reg", "cell"} /\ s.stack[i].n < FirstSaved})

FirstArg(s, c) == Depth(s) - Len(c.params) + 1
Args(s, c) == FirstArg(s, c) .. Depth(s)
FirstPlace(s, c) == IF c.params = <<>> THEN NextSlot(s, "i32") ELSE s.stack[FirstArg(s, c)].at

(* The place of each argument but the first is the next one behind that of *)
(* the argument before it.                                                 *)
Consecutive(s, c) ==
  \A i \in FirstArg(s, c) + 1 .. Depth(s) :
    LET d == s.stack[i - 1] IN s.stack[i].at = AlignUp(d.at + Size(d.type), Size(s.stack[i].type))

(* The arguments get other places in the frame, from base on.              *)
Replaced(s, c, base) ==
  [s EXCEPT !.stack = [i \in DOMAIN s.stack |->
     IF i \in Args(s, c)
     THEN [s.stack[i] EXCEPT !.at = Layout(base, c.params)[i - FirstArg(s, c) + 1]]
     ELSE s.stack[i]]]

(* The frame of the callee: where its first argument is, moved up when     *)
(* that is not a multiple of 8 bytes, and otherwise, for a tail call, the  *)
(* frame of the caller itself.                                             *)
CalleeFrame(s, c, tail) ==
  LET at == FirstPlace(s, c) IN IF at % 2 = 1 THEN at + 1 ELSE IF tail THEN 0 ELSE at

(* Arguments that move up are saved last to first, others first to last.   *)
Placed(s, c, tail) ==
  LET base == CalleeFrame(s, c, tail)
  IN  IF FirstPlace(s, c) % 2 = 1 THEN SaveDownwards(Replaced(s, c, base), Args(s, c))
      ELSE IF tail THEN SaveUpwards(Replaced(s, c, base), Args(s, c))
      ELSE SaveUpwards(s, Args(s, c))

(* A register is found for the address of the callee first.                *)
Prepared(s) == LET f == Fetched(s) IN Unloaded(Freed(f, Depth(f)))

Received(s, c, base) ==
  [k \in DOMAIN c.params |-> Get(s.frame, Layout(base, c.params)[k], c.params[k])]

(* The callee leaves its results from base on; nothing else above base,    *)
(* and no scratch register, is as it was.                                  *)
Returned(s, c, base, results) ==
  LET at == Layout(base, c.results)
      low == [w \in Words |-> IF w < base THEN s.frame[w] ELSE Spoilt]
  IN  [Pop(s, Len(c.params)) EXCEPT
        !.stack = @ \o [k \in DOMAIN c.results |->
                          [type |-> c.results[k], mode |-> "frame", n |-> at[k], at |-> at[k]]],
        !.frame = Puts(low, at, c.results, results),
        !.scratch = [r \in Regs |-> Junk],
        !.flag = Junk]

-----------------------------------------------------------------------------

(* What no description names any more is taken to be overwritten.          *)
Named(s) ==
  {<<LocalPlace(i).n, LocalTypes[i]>> : i \in DOMAIN ParamTypes}
  \cup {<<s.stack[i].n, s.stack[i].type>> : i \in {j \in DOMAIN s.stack : s.stack[j].mode = "frame"}}
Settled(s) ==
  LET kept == UNION {p[1] .. p[1] + Size(p[2]) - 1 : p \in Named(s)}
  IN  [s EXCEPT
        !.frame = [w \in Words |-> IF w \in kept THEN s.frame[w] ELSE Spoilt],
        !.scratch = [r \in Regs |-> IF Holders(s, r, Depth(s)) = {} THEN Junk ELSE s.scratch[r]],
        !.flag = IF s.stack # <<>> /\ Last(s.stack).mode = "flag" THEN s.flag ELSE Junk]

(* A function is entered with its arguments in the frame; its other locals *)
(* are zeroed.                                                             *)
Entered(args, count) ==
  [stack |-> <<>>, flag |-> Junk, pages |-> count,
   scratch |-> [r \in Regs |-> Junk],
   local |-> [i \in DOMAIN VarTypes |-> 0],
   frame |-> Puts([w \in Words |-> Spoilt], Layout(0, ParamTypes), ParamTypes, args)]
=============================================================================
