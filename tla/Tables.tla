------------------------------- MODULE Tables -------------------------------
(***************************************************************************)
(* Tables, and the bulk operations on tables and memories.  Compiled code  *)
(* turns an index into an address and hands addresses and counts of bytes  *)
(* to two C functions, which know neither tables nor entries.  Where the   *)
(* entries of table 0 are is a constant that a function puts into a local  *)
(* when it is entered, if the scan of its body found that it needs one.    *)
(***************************************************************************)
EXTENDS Integers, Sequences

CONSTANTS
  Refs,       (* what an entry can hold; 0 is null                         *)
  Code,       (* the bodies of the functions that entries can refer to:    *)
              (* the table instructions in them                            *)
  Bodies,     (* the bodies of functions that the host calls               *)
  PtrSize,    (* the bytes of an entry                                     *)
  Layout,     (* Layout.tabs, Layout.mems: the structures when the module  *)
              (* has been loaded; Layout.end: the end of the heap          *)
  ByteRange,  (* how many values a byte has                                *)
  Numbers,    (* the numbers given to memory.fill                          *)
  MaxDepth    (* bound: nested calls                                       *)

VARIABLES
  tabs,    (* tabs[t]: the Table, its size and the address of its entries  *)
  mems,    (* mems[m]: the Memory, its size in bytes and their address     *)
  heap,    (* what is at each address: <<v, k>> is byte k of v             *)
  frames,  (* the functions that run, innermost last: the body, and the    *)
           (* local with the entries of table 0                            *)
  out      (* the last operation and its answer                            *)

vars == <<tabs, mems, heap, frames, out>>

TableIndex == DOMAIN Layout.tabs
MemoryIndex == DOMAIN Layout.mems
Address == 0 .. Layout.end - 1
Byte == (Refs \X (0 .. PtrSize - 1)) \cup ((0 .. ByteRange - 1) \X {0})
Instructions == {"call_indirect", "get", "set", "copy", "fill", "size", "grow"}

Area(base, n, width) == base .. base + n * width - 1
Areas == {Area(tabs[t].entries, tabs[t].size, PtrSize) : t \in TableIndex}
         \cup {Area(mems[m].bytes, mems[m].size, 1) : m \in MemoryIndex}

ASSUME TablesAssumption ==
  /\ 0 \in Refs /\ Refs \subseteq Nat /\ DOMAIN Code \subseteq Refs \ {0}
  /\ PtrSize \in Nat \ {0} /\ ByteRange \in Nat \ {0} /\ MaxDepth \in Nat \ {0}
  /\ Numbers \subseteq Int
  /\ \A body \in Bodies \cup {Code[r] : r \in DOMAIN Code} :
       body \subseteq Instructions \X TableIndex

TableArea(t) == Area(Layout.tabs[t].entries, Layout.tabs[t].size, PtrSize)
MemoryArea(m) == Area(Layout.mems[m].bytes, Layout.mems[m].size, 1)
Sizes == {Layout.tabs[t].size : t \in TableIndex} \cup {Layout.mems[m].size : m \in MemoryIndex}

(* Each table and each memory has a block of its own from the allocator.   *)
ASSUME LayoutAssumption ==
  /\ Layout.end \in Nat
  /\ Layout.tabs \in [TableIndex -> [size : Nat, entries : Address]]
  /\ Layout.mems \in [MemoryIndex -> [size : Nat, bytes : Address]]
  /\ \A t \in TableIndex :
       /\ TableArea(t) \subseteq Address
       /\ \A other \in TableIndex \ {t} : TableArea(t) \cap TableArea(other) = {}
       /\ \A m \in MemoryIndex : TableArea(t) \cap MemoryArea(m) = {}
  /\ \A m \in MemoryIndex :
       /\ MemoryArea(m) \subseteq Address
       /\ \A other \in MemoryIndex \ {m} : MemoryArea(m) \cap MemoryArea(other) = {}
  /\ \E largest \in Sizes : \A n \in Sizes : n <= largest

Init ==
  /\ tabs = Layout.tabs /\ mems = Layout.mems
  /\ heap = [a \in Address |->
               <<0, IF \E t \in TableIndex : a \in Area(tabs[t].entries, tabs[t].size, PtrSize)
                    THEN a % PtrSize ELSE 0>>]
  /\ frames = <<>>
  /\ out = <<"none">>

-----------------------------------------------------------------------------
(* Functions.  The scan looks for three of the instructions.  An entry of  *)
(* the list of locals that is not there is an address that is nobody's.    *)

Marked(body) == \E op \in {"call_indirect", "get", "set"} : <<op, 0>> \in body
Unset == Layout.end
Entered(body) ==
  [body |-> body, entries |-> IF Marked(body) THEN tabs[0].entries ELSE Unset]

Top == frames[Len(frames)]
Uses(op, t) == frames # <<>> /\ <<op, t>> \in Top.body

Enter(body) ==
  /\ Len(frames) < MaxDepth
  /\ frames' = Append(frames, Entered(body))
  /\ UNCHANGED <<tabs, mems, heap, out>>

Leave ==
  /\ frames # <<>>
  /\ frames' = SubSeq(frames, 1, Len(frames) - 1)
  /\ UNCHANGED <<tabs, mems, heap, out>>

EntriesOf(t) == IF t = 0 THEN Top.entries ELSE tabs[t].entries
EntryAddress(t, i) == EntriesOf(t) + i * PtrSize

(* The reference at an address, if its bytes are those of one.             *)
Junk == -1
RefAt(a) ==
  IF \E v \in Refs : \A k \in 0 .. PtrSize - 1 : a + k \in Address /\ heap[a + k] = <<v, k>>
  THEN heap[a][1] ELSE Junk

-----------------------------------------------------------------------------
(* The two C functions.  The caller gives insn_memoryfill a count of       *)
(* references or of bytes, and memmove a count of bytes.                   *)

memoryfill(d, val, n, val2, fillref) ==
  [a \in Address |->
     IF fillref
     THEN IF a \in Area(d, n, PtrSize) THEN <<val2, (a - d) % PtrSize>> ELSE heap[a]
     ELSE IF a \in Area(d, n, 1) THEN <<val % ByteRange, 0>> ELSE heap[a]]

(* Mutant of copy_bytes: from the first byte to the last, one by one.      *)
copy_forward(d, s, n) ==
  [a \in Address |->
     IF a \in Area(d, n, 1)
     THEN heap[IF s < d THEN s + ((a - d) % (d - s)) ELSE s + (a - d)] ELSE heap[a]]

copy_bytes(d, s, n) ==
  [a \in Address |->
     IF a \in Area(d, n, 1) /\ s + (a - d) \in Address THEN heap[s + (a - d)] ELSE heap[a]]

-----------------------------------------------------------------------------
(* The instructions, for operands for which WebAssembly does not trap.     *)

Inside(size, d, n) == d + n <= size
Counts(size) == 0 .. size

TableGet(t, i) ==
  /\ Uses("get", t) /\ i < tabs[t].size
  /\ out' = <<"ref", RefAt(EntryAddress(t, i))>>
  /\ UNCHANGED <<tabs, mems, heap, frames>>

TableSet(t, i, v) ==
  /\ Uses("set", t) /\ i < tabs[t].size
  /\ heap' = memoryfill(EntryAddress(t, i), 0, 1, v, TRUE) /\ out' = <<"table.fill", v, 1>>
  /\ UNCHANGED <<tabs, mems, frames>>

TableFill(t, d, v, n) ==
  /\ Uses("fill", t) /\ Inside(tabs[t].size, d, n)
  /\ heap' = memoryfill(EntryAddress(t, d), 0, n, v, TRUE) /\ out' = <<"table.fill", v, n>>
  /\ UNCHANGED <<tabs, mems, frames>>

TableCopy(dtab, stab, d, s, n) ==
  /\ Uses("copy", dtab) /\ Uses("copy", stab)
  /\ Inside(tabs[dtab].size, d, n) /\ Inside(tabs[stab].size, s, n)
  /\ heap' = copy_bytes(EntryAddress(dtab, d), EntryAddress(stab, s), n * PtrSize)
  /\ out' = <<"table.copy", n>>
  /\ UNCHANGED <<tabs, mems, frames>>

TableSize(t) ==
  /\ Uses("size", t)
  /\ out' = <<"size", tabs[t].size>>
  /\ UNCHANGED <<tabs, mems, heap, frames>>

(* Mutant of TableGrow: the table grows where it is.                       *)
TableGrowInPlace(t) ==
  /\ Uses("grow", t)
  /\ tabs' = [tabs EXCEPT ![t].size = @ + 1] /\ out' = <<"refused">>
  /\ UNCHANGED <<mems, heap, frames>>

TableGrow(t) ==
  /\ Uses("grow", t)
  /\ out' = <<"refused">>
  /\ UNCHANGED <<tabs, mems, heap, frames>>

CallIndirect(t, i, callReturn) ==
  /\ Uses("call_indirect", t) /\ i < tabs[t].size
  /\ LET ref == RefAt(EntryAddress(t, i))
     IN  /\ ref \in DOMAIN Code \cup {Junk}
         /\ out' = <<"called", ref>>
         /\ frames' =
              IF ref = Junk THEN frames
              ELSE LET callers == IF callReturn THEN SubSeq(frames, 1, Len(frames) - 1) ELSE frames
                   IN  Append(callers, Entered(Code[ref]))
  /\ Len(frames') <= MaxDepth
  /\ UNCHANGED <<tabs, mems, heap>>

MemoryFill(m, d, val, n) ==
  /\ frames # <<>> /\ Inside(mems[m].size, d, n)
  /\ heap' = memoryfill(mems[m].bytes + d, val, n, 0, FALSE) /\ out' = <<"memory.fill", n>>
  /\ UNCHANGED <<tabs, mems, frames>>

MemoryCopy(dm, sm, d, s, n) ==
  /\ frames # <<>> /\ Inside(mems[dm].size, d, n) /\ Inside(mems[sm].size, s, n)
  /\ heap' = copy_bytes(mems[dm].bytes + d, mems[sm].bytes + s, n) /\ out' = <<"memory.copy", n>>
  /\ UNCHANGED <<tabs, mems, frames>>

Next ==
  \/ Leave \/ \E body \in Bodies : Enter(body)
  \/ \E t \in TableIndex : \E i \in Counts(tabs[t].size) :
       \/ TableSize(t) \/ TableGrow(t) \/ TableGet(t, i)
       \/ \E callReturn \in BOOLEAN : CallIndirect(t, i, callReturn)
       \/ \E v \in Refs : TableSet(t, i, v) \/ \E n \in Counts(tabs[t].size) : TableFill(t, i, v, n)
       \/ \E stab \in TableIndex : \E s, n \in Counts(tabs[stab].size) : TableCopy(t, stab, i, s, n)
  \/ \E m \in MemoryIndex : \E d, n \in Counts(mems[m].size) :
       \/ \E val \in Numbers : MemoryFill(m, d, val, n)
       \/ \E sm \in MemoryIndex : \E s \in Counts(mems[sm].size) : MemoryCopy(m, sm, d, s, n)

Spec == Init /\ [][Next]_vars

-----------------------------------------------------------------------------

(* No two tables or memories share an address, and none leaves the heap.   *)
TypeOK ==
  /\ tabs \in [TableIndex -> [size : Nat, entries : Address]]
  /\ mems \in [MemoryIndex -> [size : Nat, bytes : Address]]
  /\ heap \in [Address -> Byte]
  /\ \A i \in DOMAIN frames : frames[i].entries \in Address \cup {Unset}
  /\ \A one, two \in Areas : one \subseteq Address /\ (one # two => one \cap two = {})

CellsOfLargest == CHOOSE largest \in Sizes : \A n \in Sizes : n <= largest
Entries ==
  [t \in TableIndex |-> [i \in 0 .. tabs[t].size - 1 |-> RefAt(tabs[t].entries + i * PtrSize)]]
Contents ==
  [m \in MemoryIndex |-> [i \in 0 .. mems[m].size - 1 |-> heap[mems[m].bytes + i][1]]]

Wasm == INSTANCE WasmTables WITH
  tables <- Entries, bytes <- Contents,
  Bytes <- 0 .. ByteRange - 1,
  MaxCells <- CellsOfLargest

(* Through nested calls, some made through the entries themselves, the     *)
(* instructions behave as on tables and memories: an index finds its       *)
(* entry, copies that overlap are right, and counts of entries and bytes   *)
(* are not confused, so that nothing next to a table is touched.           *)
ImplementsWasmTables == Wasm!Spec
=============================================================================
