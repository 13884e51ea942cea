---------------------------- MODULE OperandStack ----------------------------
(***************************************************************************)
(* How the body of a function is translated, one instruction at a time:    *)
(* each action is both the translation of an instruction and the run of    *)
(* the code it emits, on the descriptions and the machine of StackValues.  *)
(***************************************************************************)
EXTENDS StackValues

CONSTANTS
  Binop,       (* Binop[x, y]: what a binary instruction computes          *)
  ResultTypes, (* the results of the function translated                   *)
  Shapes,      (* the shapes of code below that bodies may have            *)
  Instructions (* bound: the instructions the body is made of              *)

ASSUME OperandStackAssumption ==
  Binop \in [Values \X Values -> Values] /\ ResultTypes \in Seq(Types)

(* Shapes of valid code that a body has only when Shapes names them:       *)
(*   "several results"    a return of more than one result                 *)
(*   "tail call"          a tail call with several arguments, or whose     *)
(*                        first operand is not at a multiple of 8 bytes    *)
(*   "divide in memory"   a division by memory.size, or of it              *)
(*   "scattered"          a call with arguments whose places do not follow *)
(*                        one another, as after a call that has moved      *)

VARIABLES
  st,          (* descriptions and machine, see Entered                    *)
  out          (* what has been handed to a callee or to the caller        *)

vars == <<st, out>>

Init ==
  /\ \E args \in [DOMAIN ParamTypes -> Values], count \in Values : st = Entered(args, count)
  /\ out = <<"none", <<>>>>

Running == out[1] \in {"none", "call"}
Alike(s) == Depth(s) >= 2 /\ Top(s).type = Under(s).type
Room(s) == Depth(s) < MaxStack

(* The instruction named is one of the body, and its code leaves s.        *)
Emits(name, s) ==
  /\ name \in Instructions /\ Running
  /\ st' = Settled(s)
  /\ out' = <<"none", <<>>>>

Const(t, v) == Room(st) /\ Emits("const", Push(Fetched(st), t, "imm", v))

LocalGet(i) ==
  LET p == LocalPlace(i)
  IN  Room(st) /\ Emits("local.get", Push(Fetched(st), LocalTypes[i], p.mode, p.n))

LocalSet(i) ==
  /\ Depth(st) >= 1 /\ Top(st).type = LocalTypes[i]
  /\ Emits("local.set", Pop(Written(Kept(Fetched(st), i), i), 1))
LocalTee(i) ==
  /\ Depth(st) >= 1 /\ Top(st).type = LocalTypes[i]
  /\ Emits("local.tee", Written(Kept(Fetched(st), i), i))

Drop == Depth(st) >= 1 /\ Emits("drop", Pop(Fetched(st), 1))

Computed(x, y) == IF x \in Values /\ y \in Values THEN Binop[x, y] ELSE Junk

Arithmetic ==
  /\ Alike(st)
  /\ LET s == Fetched(st)
         k == Depth(s) - 2
         r == FreeReg(s, k)
         f == Freed(s, k)
     IN  Emits("arithmetic",
           Push(Pop([f EXCEPT !.scratch[r] = Computed(Denoted(f, Under(f)), Denoted(f, Top(f)))], 2),
                Top(f).type, "reg", r))

(* Divisions take their operands in the first two registers.  An operand   *)
(* that is the first to use its register is taken to be in it.             *)
IntoReg(s, i, r) ==
  LET h == Holders(s, r, Depth(s))
      f == IF h = {} THEN s ELSE SaveStack(s, Min(h))
  IN  IF h # {} /\ Min(h) = i THEN s
      ELSE [f EXCEPT !.scratch[r] = Denoted(f, f.stack[i])]

Divide ==
  /\ Alike(st)
  /\ "cell" \in {Top(st).mode, Under(st).mode} => "divide in memory" \in Shapes
  /\ LET s == Fetched(st)
         k == Depth(s)
         f == IntoReg(IntoReg(Freed(s, k - 2), k - 1, 1), k, 2)
     IN  Emits("divide",
           Push(Pop([f EXCEPT !.scratch[1] = Computed(@, f.scratch[2])], 2), Top(f).type, "reg", 1))

Compare ==
  /\ Alike(st)
  /\ LET s == Fetched(st)
         x == Denoted(s, Under(s))
         y == Denoted(s, Top(s))
         less == IF x \in Values /\ y \in Values THEN (IF x < y THEN 1 ELSE 0) ELSE Junk
     IN  Emits("compare", Push(Pop([s EXCEPT !.flag = less], 2), "i32", "flag", 1))

Eqz ==
  /\ Depth(st) >= 1
  /\ LET v == Denoted(st, Top(st))
         zero == IF v = Junk THEN Junk ELSE IF v = 0 THEN 1 ELSE 0
     IN  Emits("eqz",
           IF Top(st).mode = "flag" THEN [st EXCEPT !.stack[Depth(st)].n = 1 - @]
           ELSE Push(Pop([st EXCEPT !.flag = zero], 1), "i32", "flag", 1))

(* The second operand is moved over the first behind a jump that is taken  *)
(* when the condition holds.                                               *)
Select ==
  /\ Depth(st) >= 3 /\ Top(st).type = "i32"
  /\ Under(st).type = st.stack[Depth(st) - 2].type
  /\ LET k == Depth(st)
         s1 == SaveStack(st, k - 2)
         s == IF Top(s1).mode = "flag" THEN s1 ELSE LoadReg(s1, k, k - 1)
         d == s.stack[k - 2]
         moved == [s EXCEPT !.frame = Put(@, d.at, d.type, Denoted(s, Under(s)))]
     IN  Emits("select", Pop(IF Denoted(s, Top(s)) = 0 THEN moved ELSE s, 2))

MemorySize ==
  /\ Room(st)
  /\ LET s == Fetched(st)
         r == FreeReg(s, Depth(s))
         f == Freed(s, Depth(s))
     IN  Emits("memory.size",
           Push([f EXCEPT !.scratch[r] = PagesAddress], "i32", "cell", r))

Takes(c) == Depth(st) >= Len(c.params) /\ TopTypes(st, Len(c.params)) = c.params

Call(c, results) ==
  /\ "call" \in Instructions /\ Running /\ Takes(c)
  /\ Depth(st) - Len(c.params) + Len(c.results) <= MaxStack
  /\ ~Consecutive(st, c) => "scattered" \in Shapes
  /\ LET s == Prepared(st)
         base == CalleeFrame(s, c, FALSE)
         p == Placed(s, c, FALSE)
         back == Returned(p, c, base, results)
     IN  /\ \E count \in Values : st' = Settled([back EXCEPT !.pages = count])
         /\ out' = <<"call", Received(p, c, base)>>

(* The callee returns straight to the caller, which looks for the results  *)
(* at the bottom of this frame.                                            *)
ReturnCall(c) ==
  /\ "return_call" \in Instructions /\ Running /\ Takes(c)
  /\ Len(c.params) > 1 \/ FirstPlace(Fetched(st), c) % 2 = 1 => "tail call" \in Shapes
  /\ LET s == Prepared(st)
         base == CalleeFrame(s, c, TRUE)
     IN  out' = <<IF base = 0 THEN "return_call" ELSE "misplaced",
                  Received(Placed(s, c, TRUE), c, base)>>
  /\ st' = Settled([st EXCEPT !.stack = <<>>])

(* The results are stored first to last at the bottom of the frame, where  *)
(* the parameters are.                                                     *)
Return ==
  /\ "return" \in Instructions /\ Running
  /\ Len(ResultTypes) > 1 => "several results" \in Shapes
  /\ Depth(st) >= Len(ResultTypes) /\ TopTypes(st, Len(ResultTypes)) = ResultTypes
  /\ LET s == Fetched(st)
         at == Layout(0, ResultTypes)
         d(k) == s.stack[Depth(s) - Len(ResultTypes) + k]
         after[k \in 0 .. Len(ResultTypes)] ==
           IF k = 0 THEN s.frame
           ELSE LET f == after[k - 1]
                IN  Put(f, at[k], ResultTypes[k], Denoted([s EXCEPT !.frame = f], d(k)))
         frame == after[Len(ResultTypes)]
     IN  out' = <<"return", [k \in DOMAIN ResultTypes |-> Get(frame, at[k], ResultTypes[k])]>>
  /\ st' = Settled([st EXCEPT !.stack = <<>>])

Next ==
  \/ \E t \in Types, v \in Values : Const(t, v)
  \/ \E i \in DOMAIN LocalTypes : LocalGet(i)
  \/ \E i \in DOMAIN LocalTypes : LocalSet(i)
  \/ \E i \in DOMAIN LocalTypes : LocalTee(i)
  \/ Drop
  \/ Arithmetic
  \/ Divide
  \/ Compare
  \/ Eqz
  \/ Select
  \/ MemorySize
  \/ \E c \in Callees : \E results \in [DOMAIN c.results -> Values] : Call(c, results)
  \/ \E c \in Callees : ReturnCall(c)
  \/ Return

Spec == Init /\ [][Next]_vars

-----------------------------------------------------------------------------

TypeOK ==
  /\ st.stack \in Seq(Operands) /\ Len(st.stack) <= MaxStack
  /\ \A i \in DOMAIN st.stack :
       /\ st.stack[i].mode \in {"reg", "cell"} => st.stack[i].n \in Regs
       /\ st.stack[i].at + Size(st.stack[i].type) <= FrameWords
  /\ st.frame \in [Words -> [value : Values \cup {Junk}, part : {"whole", "low", "high"}]]
  /\ st.scratch \in [Regs -> Values \cup {Junk, PagesAddress}]
  /\ st.local \in [DOMAIN VarTypes -> Values \cup {Junk}]
  /\ st.flag \in {0, 1, Junk}
  /\ st.pages \in Values

(* A scratch register is used by one operand only: GetFreeReg saves the    *)
(* first holder it finds before it hands the register out again.           *)
OneHolder == \A r \in Regs : Cardinality(Holders(st, r, Depth(st))) <= 1

(* Only the topmost operand can be in the flags, which every comparison    *)
(* and most arithmetic overwrites.                                         *)
FlagsOnTop == \A i \in DOMAIN st.stack : st.stack[i].mode = "flag" => i = Depth(st)

(* The places kept for operands lie above the parameters and one above     *)
(* the other, whatever calls have moved them, and an operand in the frame  *)
(* is in its own place or is a parameter.                                  *)
PlacesApart ==
  \A i \in DOMAIN st.stack :
    /\ st.stack[i].at >= EndOf(ParamTypes)
    /\ \A j \in i + 1 .. Depth(st) :
         st.stack[i].at + Size(st.stack[i].type) <= st.stack[j].at
    /\ st.stack[i].mode = "frame" =>
         \/ st.stack[i].n = st.stack[i].at
         \/ \E p \in DOMAIN ParamTypes : st.stack[i].n = LocalPlace(p).n

Wasm == INSTANCE WasmStack WITH
  Locals <- LocalTypes,
  pages <- st.pages,
  stack <- [i \in DOMAIN st.stack |->
              [type |-> st.stack[i].type, value |-> Denoted(st, st.stack[i])]],
  local <- [i \in DOMAIN LocalTypes |->
              Denoted(st, [type |-> LocalTypes[i], mode |-> LocalPlace(i).mode, n |-> LocalPlace(i).n])]

(* The code emitted for a body computes what WebAssembly says: operands    *)
(* keep their values while descriptions share registers, locals and        *)
(* flags, and calls and returns hand over the operands.                    *)
ImplementsWasmStack == Wasm!Spec
=============================================================================
