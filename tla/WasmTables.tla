----------------------------- MODULE WasmTables -----------------------------
(***************************************************************************)
(* What tables and memories promise to the WebAssembly code that uses the  *)
(* bulk operations: an entry holds what was stored in it last, copying is  *)
(* done as if through a buffer, and nothing but the cells named changes.   *)
(***************************************************************************)
EXTENDS Integers

CONSTANTS
  TableIndex, MemoryIndex,  (* the tables and memories there are           *)
  Refs, Bytes,              (* what their cells can hold                   *)
  MaxCells                  (* the size of the largest table or memory     *)

VARIABLES
  tables,  (* the entries of each table, from 0                            *)
  bytes,   (* the bytes of each memory                                     *)
  out      (* the last operation, how many cells it names, and its answer  *)

vars == <<tables, bytes, out>>
Size(area) == CHOOSE n \in 0 .. MaxCells : DOMAIN area = 0 .. n - 1
Counts == 0 .. MaxCells

Init == out = <<"none">>

Filled(area, d, v, n) == [i \in DOMAIN area |-> IF i \in d .. d + n - 1 THEN v ELSE area[i]]
Copied(area, from, d, s, n) ==
  [i \in DOMAIN area |-> IF i \in d .. d + n - 1 THEN from[s + i - d] ELSE area[i]]
Inside(area, d, n) == d + n <= Size(area)

Get == \E t \in TableIndex : \E i \in DOMAIN tables[t] :
  out' = <<"ref", tables[t][i]>> /\ UNCHANGED <<tables, bytes>>

Call == \E t \in TableIndex : \E i \in DOMAIN tables[t] :
  out' = <<"called", tables[t][i]>> /\ UNCHANGED <<tables, bytes>>

Sizes == \E t \in TableIndex :
  out' = <<"size", Size(tables[t])>> /\ UNCHANGED <<tables, bytes>>

(* A table may always refuse to grow.                                      *)
GrowFails == out' = <<"refused">> /\ UNCHANGED <<tables, bytes>>

(* table.set is table.fill of one entry.                                   *)
Fill == \E t \in TableIndex, d, n \in Counts, v \in Refs :
  /\ out' = <<"table.fill", v, n>> /\ Inside(tables[t], d, n)
  /\ tables' = [tables EXCEPT ![t] = Filled(@, d, v, n)]
  /\ UNCHANGED bytes

Copy == \E dt, st \in TableIndex, d, s, n \in Counts :
  /\ out' = <<"table.copy", n>> /\ Inside(tables[dt], d, n) /\ Inside(tables[st], s, n)
  /\ tables' = [tables EXCEPT ![dt] = Copied(@, tables[st], d, s, n)]
  /\ UNCHANGED bytes

MemoryFill == \E m \in MemoryIndex, d, n \in Counts, v \in Bytes :
  /\ out' = <<"memory.fill", n>> /\ Inside(bytes[m], d, n)
  /\ bytes' = [bytes EXCEPT ![m] = Filled(@, d, v, n)]
  /\ UNCHANGED tables

MemoryCopy == \E dm, sm \in MemoryIndex, d, s, n \in Counts :
  /\ out' = <<"memory.copy", n>> /\ Inside(bytes[dm], d, n) /\ Inside(bytes[sm], s, n)
  /\ bytes' = [bytes EXCEPT ![dm] = Copied(@, bytes[sm], d, s, n)]
  /\ UNCHANGED tables

Next == Get \/ Call \/ Sizes \/ GrowFails \/ Fill \/ Copy \/ MemoryFill \/ MemoryCopy

Spec == Init /\ [][Next]_vars
=============================================================================
