----------------------------- MODULE ControlFlow -----------------------------
(***************************************************************************)
(* Blocks, branches and returns, where code is translated once, in the     *)
(* order of the text, and run along one path: descriptions are the         *)
(* translator's and follow the text, the machine follows the path.  Each   *)
(* action translates an instruction, and also runs its code when the path  *)
(* is there; while a branch is taken to a label further on, the machine    *)
(* stands still and only descriptions change.  A branch back to a loop     *)
(* goes on from its head.                                                  *)
(*                                                                         *)
(* wasm is the run WebAssembly prescribes, side by side with the machine's *)
(* as long as both take the same path.                                     *)
(***************************************************************************)
EXTENDS StackValues

CONSTANTS
  BlockTypes,  (* the result types of each kind of block, "none" for none  *)
  ResultType,  (* the result of the function                               *)
  Shapes,      (* the shapes of code below that bodies may have            *)
  MaxBlocks    (* bound: nesting of blocks                                 *)

ASSUME ControlFlowAssumption ==
  /\ \A kind \in {"block", "loop", "if"} : BlockTypes[kind] \subseteq Types \cup {"none"}
  /\ ResultType \in Types /\ MaxBlocks \in Nat
  /\ \A v \in Values : 0 .. v \subseteq Values

(* Shapes of valid code that a body has only when Shapes names them:       *)
(*   "scattered"    a call as in OperandStack                              *)
(*   "apart"        a result of a block that is not in the first place     *)
(*                  free, as after a call that has moved                   *)
(*   "excess"       a branch with a result and operands beneath it that    *)
(*                  the block it leaves does not have                      *)
(*   "return"       a return inside of a block with a result               *)
(*   "function"     a branch to the label of the function                  *)
(*   "local index"  a br_table on a local in a saved register              *)

VARIABLES
  st,          (* descriptions and machine, see Entered                    *)
  blocks,      (* m->blocks: [kind, type, saved], saved_sp as a depth      *)
  reach,       (* what was translated last: "live", "branch" or "return"   *)
  path,        (* where the path is: here, or on its way to a label        *)
  wasm         (* the values of [stack, local] WebAssembly prescribes      *)

vars == <<st, blocks, reach, path, wasm>>

Here == [doing |-> "here", of |-> 0]
ToEnd(d) == [doing |-> "to end", of |-> d]
ToElse(d) == [doing |-> "to else", of |-> d]
Over(how) == [doing |-> how, of |-> 0]

Init ==
  /\ \E args \in [DOMAIN ParamTypes -> Values] :
       /\ st = Entered(args, 0)
       /\ wasm = [stack |-> <<>>,
                  local |-> [i \in DOMAIN LocalTypes |->
                               IF i \in DOMAIN ParamTypes THEN args[i] ELSE 0]]
  /\ blocks = <<>> /\ reach = "live" /\ path = Here

-----------------------------------------------------------------------------

Running == path = Here
Translating == path.doing \in {"here", "to end", "to else"}
Live == Translating /\ reach = "live"
Floor == IF blocks = <<>> THEN 0 ELSE Last(blocks).saved
Has(k) == Depth(st) >= Floor + k
Room == Depth(st) < MaxStack

(* The code that leaves s is run only when the path is here.               *)
Machine(s) == IF Running THEN Settled(s) ELSE [st EXCEPT !.stack = s.stack]
Alongside(stack) == wasm' = IF Running THEN [wasm EXCEPT !.stack = stack] ELSE wasm

(* An instruction that is no branch.                                       *)
Emits(s, stack) == st' = Machine(s) /\ Alongside(stack) /\ UNCHANGED <<blocks, reach, path>>

W == Len(wasm.stack)
WTop == wasm.stack[W]
WPop(k) == SubSeq(wasm.stack, 1, W - k)

(* Off the path the value of a constant does not matter.                   *)
Const(t, v) ==
  /\ Live /\ Room
  /\ Running \/ v = 0
  /\ Emits(Push(Fetched(st), t, "imm", v), Append(wasm.stack, v))
LocalGet(i) ==
  LET p == LocalPlace(i)
  IN  /\ Live /\ Room
      /\ Emits(Push(Fetched(st), LocalTypes[i], p.mode, p.n), Append(wasm.stack, wasm.local[i]))
LocalSet(i) ==
  /\ Live /\ Has(1) /\ Top(st).type = LocalTypes[i]
  /\ st' = Machine(Pop(Written(Kept(Fetched(st), i), i), 1))
  /\ wasm' = IF Running THEN [stack |-> WPop(1), local |-> [wasm.local EXCEPT ![i] = WTop]]
             ELSE wasm
  /\ UNCHANGED <<blocks, reach, path>>
Drop == Live /\ Has(1) /\ Emits(Pop(Fetched(st), 1), WPop(1))
Eqz ==
  /\ Live /\ Has(1)
  /\ LET v == Denoted(st, Top(st))
         zero == IF v = Junk THEN Junk ELSE IF v = 0 THEN 1 ELSE 0
     IN  Emits(IF Top(st).mode = "flag" THEN [st EXCEPT !.stack[Depth(st)].n = 1 - @]
               ELSE Push(Pop([st EXCEPT !.flag = zero], 1), "i32", "flag", 1),
               Append(WPop(1), IF WTop = 0 THEN 1 ELSE 0))
Call(c, results) ==
  /\ Live /\ Has(Len(c.params)) /\ TopTypes(st, Len(c.params)) = c.params
  /\ Depth(st) - Len(c.params) + Len(c.results) <= MaxStack
  /\ ~Consecutive(st, c) => "scattered" \in Shapes
  /\ LET s == Prepared(st)
         base == CalleeFrame(s, c, FALSE)
     IN  Emits(Returned(Placed(s, c, FALSE), c, base, results), WPop(Len(c.params)) \o results)

-----------------------------------------------------------------------------
(* Blocks.  The operands of an enclosing block are saved when a block      *)
(* begins, so that every path to a label finds them in the same place.     *)

Arity(b) == IF b.type = "none" THEN 0 ELSE 1
LabelArity(b) == IF b.kind = "loop" THEN 0 ELSE Arity(b)
Block(kind, type, saved) == [kind |-> kind, type |-> type, saved |-> saved]
SaveAll(s) == SaveUpwards(s, 1 .. Depth(s))

(* Mutant of SaveUnder: the operand under the condition is not saved.      *)
SaveUnderLess(s) == SaveUpwards(s, 1 .. Depth(s) - 2)

(* The operands under the condition on top.                                *)
SaveUnder(s) == SaveUpwards(s, 1 .. Depth(s) - 1)

(* The condition of a branch stays in the flags or is loaded.              *)
Condition(s) ==
  LET u == SaveUnder(s) IN IF Top(u).mode = "flag" THEN u ELSE LoadReg(u, Depth(u), Depth(u))

BeginBlock(kind, type) ==
  /\ Live /\ Len(blocks) < MaxBlocks
  /\ LET s == SaveAll(Fetched(st))
     IN  st' = Machine(s) /\ blocks' = Append(blocks, Block(kind, type, Depth(s)))
  /\ UNCHANGED <<reach, path, wasm>>

(* The path goes on as the machine decides; it is astray when WebAssembly *)
(* decides otherwise.                                                      *)
Decided(machine, prescribed, next) ==
  path' = IF ~Running THEN path ELSE IF machine = prescribed THEN next ELSE Over("astray")

If(type) ==
  /\ Live /\ Len(blocks) < MaxBlocks /\ Has(1) /\ Top(st).type = "i32"
  /\ LET s == Condition(st)
         holds == Denoted(s, Top(s)) # 0
     IN  /\ st' = Machine(Pop(s, 1))
         /\ blocks' = Append(blocks, Block("if", type, Depth(s) - 1))
         /\ Decided(holds, WTop # 0, IF holds THEN Here ELSE ToElse(Len(blocks) + 1))
  /\ Alongside(WPop(1))
  /\ UNCHANGED reach

(* Where the label of block b looks for the result.                        *)
ResultPlace(s, b) == NextSlot([s EXCEPT !.stack = SubSeq(@, 1, b.saved)], b.type)
InPlace(b, i) == st.stack[i].at = ResultPlace(st, b)

(* The result of a block lies on the stack where it ends.  (Blocks that    *)
(* have no result there, after a branch to another, are not modelled.)     *)
Complete(b) ==
  /\ reach = "live" => Depth(st) = b.saved + Arity(b)
  /\ Arity(b) = 1 =>
       /\ Depth(st) > b.saved /\ st.stack[b.saved + 1].type = b.type
       /\ b.kind # "loop" /\ ~InPlace(b, b.saved + 1) => "apart" \in Shapes

(* Mutant of SavedAtEnd: the result is left where it is.                   *)
SavedAtEndNot == Fetched(st)

(* After a return sp is -1 and nothing is saved.                           *)
SavedAtEnd == IF reach = "return" THEN st ELSE SaveAll(Fetched(st))

Else ==
  /\ Translating /\ blocks # <<>> /\ Last(blocks).kind = "if" /\ Complete(Last(blocks))
  /\ LET d == Len(blocks)
     IN  /\ st' = [Machine(SavedAtEnd) EXCEPT !.stack = SubSeq(@, 1, blocks[d].saved)]
         /\ blocks' = [blocks EXCEPT ![d].kind = "else"]
         /\ path' = IF Running THEN ToEnd(d) ELSE IF path = ToElse(d) THEN Here ELSE path
  /\ reach' = "live"
  /\ UNCHANGED wasm

(* sp is set from the block: the result is taken to be where the array of  *)
(* descriptions has it.                                                    *)
Exposed(s, b) == [s EXCEPT !.stack = SubSeq(@, 1, b.saved + Arity(b))]

(* Mutant of Arrives: the jump of an if without else gets no label.        *)
ArrivesByBranch(d) == {ToEnd(d)}

(* The label at the end is for the branches, and for the jump over an if   *)
(* that has no else.                                                       *)
Arrives(d) == {ToEnd(d), ToElse(d)}

End ==
  /\ Translating /\ blocks # <<>>
  /\ LET d == Len(blocks)
         b == blocks[d]
         s == IF b.kind = "loop" THEN Fetched(st) ELSE SavedAtEnd
         e == Exposed(IF Running THEN s ELSE [st EXCEPT !.stack = s.stack], b)
     IN  /\ Complete(b) /\ (b.kind = "if" => b.type = "none")
         /\ path' = IF path \in Arrives(d) THEN Here ELSE path
         /\ st' = IF path' = Here THEN Settled(e) ELSE e
         /\ blocks' = Front(blocks)
  /\ reach' = "live"
  /\ UNCHANGED wasm

-----------------------------------------------------------------------------
(* Branches.                                                               *)

(* A branch to block d finds its result under the k topmost operands.      *)
Fits(d, k) ==
  LET b == blocks[d]
  IN  /\ Has(k)
      /\ LabelArity(b) = 1 =>
           /\ Has(k + 1) /\ st.stack[Depth(st) - k].type = b.type
           /\ ~InPlace(b, Depth(st) - k) => {"excess", "apart"} \cap Shapes # {}
           /\ Depth(st) - k > b.saved + 1 => "excess" \in Shapes

(* What a branch to block b keeps of a stack.                              *)
Carried(stack, b) ==
  SubSeq(stack, 1, b.saved) \o SubSeq(stack, Len(stack) - LabelArity(b) + 1, Len(stack))

(* The path goes to the label of block d, on code that has left s; at a    *)
(* loop it goes on from the head.                                          *)
Jump(d, s, stack, left) ==
  LET b == blocks[d]
  IN  IF b.kind = "loop"
      THEN /\ st' = Settled([s EXCEPT !.stack = SubSeq(@, 1, b.saved)])
           /\ blocks' = SubSeq(blocks, 1, d)
           /\ Alongside(Carried(stack, b))
           /\ UNCHANGED <<reach, path>>
      ELSE /\ st' = [Settled([s EXCEPT !.stack = Carried(@, b)]) EXCEPT !.stack = s.stack]
           /\ path' = ToEnd(d) /\ reach' = left
           /\ Alongside(Carried(stack, b))
           /\ UNCHANGED blocks

(* The code is translated only.                                            *)
Passed(s, left) == st' = Machine(s) /\ reach' = left /\ UNCHANGED <<blocks, path, wasm>>

Astray == path' = Over("astray") /\ UNCHANGED <<st, blocks, reach, wasm>>

(* The block of the function, 0, has no label and no list of the jumps to  *)
(* its end: a branch to it writes through a null pointer.                  *)
Br(d) ==
  IF d = 0
  THEN /\ Live /\ Has(1) /\ Top(st).type = ResultType /\ "function" \in Shapes
       /\ Astray
  ELSE
  /\ Live /\ Fits(d, 0)
  /\ LET s == SaveAll(Fetched(st))
     IN  IF Running THEN Jump(d, s, wasm.stack, "branch") ELSE Passed(s, "branch")

BrIf(d) ==
  /\ Live /\ Has(1) /\ Top(st).type = "i32" /\ Fits(d, 1)
  /\ LET s == Condition(st)
         holds == Denoted(s, Top(s)) # 0
     IN  IF ~Running THEN Passed(Pop(s, 1), "live")
         ELSE IF holds # (WTop # 0) THEN Astray
         ELSE IF holds THEN Jump(d, Pop(s, 1), WPop(1), "live")
         ELSE Emits(Pop(s, 1), WPop(1))

(* The index is counted down in its register: one less for each target     *)
(* tried after the first.                                                  *)
Counted(s, count) ==
  LET d == Top(s)
      v == Denoted(s, d)
      left == v - Min({v, count - 1})
  IN  IF v = Junk \/ count = 0 THEN s
      ELSE IF d.mode = "local" THEN [s EXCEPT !.local[d.n] = left]
      ELSE [s EXCEPT !.scratch[d.n] = left]

(* targets: the blocks of the table, the default last.                     *)
BrTable(targets) ==
  /\ Live /\ Has(1) /\ Top(st).type = "i32"
  /\ \A i \in DOMAIN targets : Fits(targets[i], 1)
  /\ \A i, j \in DOMAIN targets :
       LabelArity(blocks[targets[i]]) = LabelArity(blocks[targets[j]])
  /\ LET u == SaveUnder(Fetched(st))
         s == LoadReg(u, Depth(u), Depth(u))
         count == Len(targets) - 1
         chosen(v) == targets[IF v < count THEN v + 1 ELSE count + 1]
         index == Denoted(s, Top(s))
     IN  /\ Top(s).mode = "local" /\ count > 1 => "local index" \in Shapes
         /\ IF ~Running THEN Passed(Pop(s, 1), "branch")
            ELSE IF index = Junk \/ chosen(index) # chosen(WTop) THEN Astray
            ELSE Jump(chosen(index), Pop(Counted(s, count), 1), WPop(1), "branch")

(* Also the end of the function.                                           *)
Return ==
  /\ Live /\ Has(1) /\ Top(st).type = ResultType
  /\ (\E d \in DOMAIN blocks : Arity(blocks[d]) = 1) => "return" \in Shapes
  /\ LET s == Fetched(st)
         got == Get(Put(s.frame, 0, ResultType, Denoted(s, Top(s))), 0, ResultType)
     IN  /\ Decided(got, WTop, Over("returned"))
         /\ st' = Machine(s)
  /\ reach' = "return"
  /\ UNCHANGED <<blocks, wasm>>

Targets == UNION {[1 .. n -> DOMAIN blocks] : n \in 1 .. 3}

Next ==
  \/ \E t \in Types, v \in Values : Const(t, v)
  \/ \E i \in DOMAIN LocalTypes : LocalGet(i)
  \/ \E i \in DOMAIN LocalTypes : LocalSet(i)
  \/ Drop
  \/ Eqz
  \/ \E c \in Callees : \E results \in [DOMAIN c.results -> Values] : Call(c, results)
  \/ \E kind \in {"block", "loop"} : \E t \in BlockTypes[kind] : BeginBlock(kind, t)
  \/ \E t \in BlockTypes["if"] : If(t)
  \/ Else
  \/ End
  \/ \E d \in 0 .. Len(blocks) : Br(d)
  \/ \E d \in DOMAIN blocks : BrIf(d)
  \/ \E targets \in Targets : BrTable(targets)
  \/ Return

Spec == Init /\ [][Next]_vars

-----------------------------------------------------------------------------

TypeOK ==
  /\ Depth(st) <= MaxStack
  /\ \A i \in DOMAIN st.stack :
       /\ st.stack[i].type \in Types
       /\ st.stack[i].mode = "reg" => st.stack[i].n \in Regs
       /\ st.stack[i].at + Size(st.stack[i].type) <= FrameWords
  /\ blocks \in Seq([kind : {"block", "loop", "if", "else"}, type : Types \cup {"none"}, saved : 0 .. MaxStack])
  /\ Len(blocks) <= MaxBlocks
  /\ reach \in {"live", "branch", "return"}
  /\ path.doing \in {"to end", "to else"} => path.of \in DOMAIN blocks
  /\ wasm.local \in [DOMAIN LocalTypes -> Values]

(* Whatever is translated inside of a block, the operands it found stay in *)
(* their own places in the frame, which is where every path to its label   *)
(* leaves them: no instruction inside moves them or finds them elsewhere.  *)
EnclosingSaved ==
  \A d \in DOMAIN blocks :
    /\ blocks[d].saved <= Depth(st)
    /\ \A i \in 1 .. blocks[d].saved :
         st.stack[i].mode = "frame" /\ st.stack[i].n = st.stack[i].at

(* On every path, through any nesting of blocks, loops, branches taken and *)
(* not taken, the code decides as WebAssembly does and the operands and    *)
(* locals it finds after each label have the values WebAssembly gives.     *)
FollowsWasm ==
  /\ path # Over("astray")
  /\ Running =>
       /\ wasm.stack = [i \in DOMAIN st.stack |-> Denoted(st, st.stack[i])]
       /\ wasm.local = [i \in DOMAIN LocalTypes |->
            Denoted(st, [type |-> LocalTypes[i], mode |-> LocalPlace(i).mode, n |-> LocalPlace(i).n])]
=============================================================================
