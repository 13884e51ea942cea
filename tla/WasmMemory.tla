----------------------------- MODULE WasmMemory -----------------------------
(***************************************************************************)
(* What a linear memory promises to the WebAssembly code that uses it:     *)
(* pages start out zero, keep what is stored in them, and are never taken  *)
(* away; growing answers the old size or fails.  Every function that uses  *)
(* the memory sees the same pages.                                         *)
(***************************************************************************)
EXTENDS Integers

CONSTANTS
  PageIndex,  (* the indices a page can have                               *)
  Values      (* what a page can hold; "zero" is one of them               *)

VARIABLES
  limit,  (* the largest number of pages                                   *)
  pages,  (* the number of pages                                           *)
  data,   (* what each page holds                                          *)
  out     (* the answer of the last operation                              *)

vars == <<limit, pages, data, out>>

Init ==
  /\ limit \in Nat
  /\ pages \in Nat
  /\ data = [p \in PageIndex |-> "zero"]
  /\ out = <<"none">>

Grow ==
  /\ pages' >= pages /\ pages' <= limit
  /\ out' = <<"grew", pages>>
  /\ UNCHANGED <<limit, data>>

GrowFails == out' = <<"refused">> /\ UNCHANGED <<limit, pages, data>>

Store ==
  \E p \in PageIndex, v \in Values :
    /\ p < pages
    /\ data' = [data EXCEPT ![p] = v] /\ out' = <<"none">>
    /\ UNCHANGED <<limit, pages>>

Load ==
  \E p \in PageIndex :
    /\ p < pages
    /\ out' = <<"read", data[p]>>
    /\ UNCHANGED <<limit, pages, data>>

Next == Grow \/ GrowFails \/ Store \/ Load

Spec == Init /\ [][Next]_vars
=============================================================================
