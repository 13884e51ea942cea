----------------------------- MODULE WasmStack -----------------------------
(***************************************************************************)
(* What WebAssembly says a function body does with its operand stack and   *)
(* its locals, for the instructions OperandStack translates: a stack of    *)
(* typed values, read and written only at its top.                         *)
(***************************************************************************)
EXTENDS Integers, Sequences

CONSTANTS
  Values,   (* the values of either type                                   *)
  Binop,    (* Binop[x, y]: what a binary instruction computes             *)
  Locals,   (* the types of the locals, parameters first                   *)
  Callees   (* the signatures of the functions called                      *)

VARIABLES
  stack,    (* operands, top last: [type, value]                           *)
  local,    (* the value of each local                                     *)
  pages,    (* what memory.size answers                                    *)
  out       (* what has been handed to a callee or to the caller           *)

vars == <<stack, local, pages, out>>

Item(t, v) == [type |-> t, value |-> v]
Top == stack[Len(stack)]
Under == stack[Len(stack) - 1]
Without(n) == SubSeq(stack, 1, Len(stack) - n)
Above(n) == SubSeq(stack, Len(stack) - n + 1, Len(stack))
Truth(b) == Item("i32", IF b THEN 1 ELSE 0)
ValuesOf(items) == [i \in DOMAIN items |-> items[i].value]
TypesOf(items) == [i \in DOMAIN items |-> items[i].type]
Running == out[1] \in {"none", "call"}

Init ==
  /\ stack = <<>> /\ out = <<"none", <<>>>>
  /\ local \in [DOMAIN Locals -> Values]
  /\ pages \in Values

(* An instruction that only replaces the n topmost operands by new ones.   *)
Replace(n, new) ==
  /\ Running /\ Len(stack) >= n
  /\ stack' = Without(n) \o new /\ out' = <<"none", <<>>>>
  /\ UNCHANGED pages

Const(t, v) == Replace(0, <<Item(t, v)>>) /\ UNCHANGED local
LocalGet(i) == Replace(0, <<Item(Locals[i], local[i])>>) /\ UNCHANGED local
LocalSet(i) == Replace(1, <<>>) /\ local' = [local EXCEPT ![i] = Top.value]
LocalTee(i) == Replace(0, <<>>) /\ stack # <<>> /\ local' = [local EXCEPT ![i] = Top.value]
Drop == Replace(1, <<>>) /\ UNCHANGED local
Binary == Replace(2, <<Item(Top.type, Binop[Under.value, Top.value])>>) /\ UNCHANGED local
Compare == Replace(2, <<Truth(Under.value < Top.value)>>) /\ UNCHANGED local
Eqz == Replace(1, <<Truth(Top.value = 0)>>) /\ UNCHANGED local
Select ==
  /\ Replace(3, <<IF Top.value # 0 THEN stack[Len(stack) - 2] ELSE Under>>)
  /\ UNCHANGED local
MemorySize == Replace(0, <<Item("i32", pages)>>) /\ UNCHANGED local

Takes(callee) ==
  /\ Running /\ Len(stack) >= Len(callee.params)
  /\ TypesOf(Above(Len(callee.params))) = callee.params

(* The callee may grow the memory, and answers what it likes.              *)
Call(callee, results) ==
  /\ Takes(callee)
  /\ stack' = Without(Len(callee.params))
              \o [i \in DOMAIN results |-> Item(callee.results[i], results[i])]
  /\ out' = <<"call", ValuesOf(Above(Len(callee.params)))>>
  /\ pages' \in Values
  /\ UNCHANGED local

Leave(how, n) ==
  /\ out' = <<how, ValuesOf(Above(n))>>
  /\ stack' = <<>> /\ UNCHANGED <<local, pages>>

ReturnCall(callee) == Takes(callee) /\ Leave("return_call", Len(callee.params))
Return(n) == Running /\ Len(stack) >= n /\ Leave("return", n)

Next ==
  \/ \E t \in {"i32", "i64"}, v \in Values : Const(t, v)
  \/ \E i \in DOMAIN Locals : LocalGet(i) \/ LocalSet(i) \/ LocalTee(i)
  \/ Drop \/ Binary \/ Compare \/ Eqz \/ Select \/ MemorySize
  \/ \E c \in Callees : \E results \in [DOMAIN c.results -> Values] : Call(c, results)
  \/ \E c \in Callees : ReturnCall(c)
  \/ \E n \in 0 .. Len(stack) : Return(n)

Spec == Init /\ [][Next]_vars
=============================================================================
