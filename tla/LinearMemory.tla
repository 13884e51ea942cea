---------------------------- MODULE LinearMemory ----------------------------
(***************************************************************************)
(* A linear memory, memory.grow, and the base addresses that compiled code *)
(* keeps while the memory may move.                                        *)
(*                                                                         *)
(* A compiled function decides once, when it is compiled, how it finds the *)
(* block that holds the memory: as an address constant (a memory with a    *)
(* declared maximum is allocated to that maximum and never moves), in a    *)
(* saved register filled on entry and after every call, by reading the     *)
(* Memory structure at each access, or not at all (a NULL base stands for  *)
(* the host's own memory).  Loads and stores through a base that is no     *)
(* longer that of the block go astray; nothing at run time detects it.     *)
(***************************************************************************)
EXTENDS Integers, Sequences

CONSTANTS
  Word,        (* 2^32: sizes in bytes and page counts wrap here           *)
  PageSize,    (* 65536                                                    *)
  DefaultMax,  (* 32768 pages: the maximum of a memory that declares none  *)
  Declared,    (* the memory declarations considered                       *)
  Deltas,      (* the arguments of memory.grow considered                  *)
  Funcs,       (* the compiled functions that use this memory              *)
  MaxDepth,    (* bound: nested calls                                      *)
  MaxMoves     (* bound: addresses the allocator hands out                 *)

ASSUME LinearMemoryAssumption ==
  /\ Word \in Nat \ {0} /\ PageSize \in Nat \ {0} /\ DefaultMax \in Nat
  /\ Declared \subseteq [initial : Nat, limited : BOOLEAN, maximum : Nat]
  /\ Deltas \subseteq Nat
  /\ MaxDepth \in Nat /\ MaxMoves \in Nat \ {0}

VARIABLES
  mem,    (* the Memory structure: pages, maximum, fixed, bytes (0: NULL)  *)
  size,   (* bytes in the block at mem.bytes                               *)
  data,   (* what each page holds: "zero", "stored" or, when nothing has   *)
          (* been put there or it is outside the block, "junk"             *)
  moves,  (* addresses handed out so far                                   *)
  code,   (* per function: how it finds the block, and its constant        *)
  stack,  (* running functions, innermost last: who, and the base it holds *)
  out,    (* what the last operation answered                              *)
  wild    (* the zeroing of memory.grow has left the block                 *)

memoryVars == <<mem, size, data, moves, code, stack, out, wild>>

NULL == 0
PageIndex == 0 .. (Word \div PageSize) - 1
Modes == {"none", "raw", "constant", "cached", "direct"}

Bytes(pages) == (pages * PageSize) % Word

(* The addresses realloc may answer: the old one, a fresh one, or NULL     *)
(* when nothing is asked for.  It is taken to find room for what is asked. *)
Moved(n) ==
  {moves + 1} \cup ({mem.bytes} \ {NULL}) \cup (IF n = 0 THEN {NULL} ELSE {})

Active == stack[Len(stack)]

(* The base a load or store of a running function adds to its index.       *)
BaseOf(fr) == IF code[fr.fn].mode = "direct" THEN mem.bytes ELSE fr.base

-----------------------------------------------------------------------------
(* The Memory section: parse_memory_type, then one zeroed block.           *)

(* Mutant of Allocated: the block of a limited memory holds only its       *)
(* initial pages.                                                          *)
AllocatedInitial(d) == Bytes(d.initial)

Maximum(d) == IF d.limited THEN d.maximum ELSE DefaultMax

Allocated(d) == Bytes(IF d.limited THEN d.maximum ELSE d.initial)

MemoryInit ==
  /\ \E d \in Declared :
       /\ size = Allocated(d)
       /\ \E b \in {1} \cup (IF size = 0 THEN {NULL} ELSE {}) :
            /\ moves = b
            /\ mem = [pages |-> d.initial, fixed |-> d.limited, bytes |-> b,
                      maximum |-> Maximum(d)]
  /\ data = [p \in PageIndex |-> IF (p + 1) * PageSize <= size THEN "zero" ELSE "junk"]
  /\ code = [f \in Funcs |-> [mode |-> "none", const |-> NULL]]
  /\ stack = <<>>
  /\ out = <<"none">>
  /\ wild = FALSE

(* How FuncEnter and the loads and stores of f will find the block.  The   *)
(* first memory a function accesses is the one it caches.                  *)
Compile(f, first) ==
  /\ code[f].mode = "none"
  /\ code' = [code EXCEPT ![f] =
       [mode |-> IF mem.bytes = NULL THEN "raw"
                 ELSE IF ~first THEN "direct"
                 ELSE IF mem.fixed THEN "constant" ELSE "cached",
        const |-> mem.bytes]]
  /\ UNCHANGED <<mem, size, data, moves, stack, out, wild>>

EntryBase(f) ==
  CASE code[f].mode = "constant" -> code[f].const
    [] code[f].mode = "cached" -> mem.bytes
    [] OTHER -> NULL

Activation(f) == [fn |-> f, base |-> EntryBase(f)]

(* Mutant of Reloaded: nothing is reloaded after a call.                   *)
NotReloaded(fr, base) == fr

(* What the code after a call does: reload the cached base, unless the     *)
(* memory is fixed.                                                        *)
Reloaded(fr, base) == IF code[fr.fn].mode = "cached" THEN [fr EXCEPT !.base = base] ELSE fr

(* The host, or the innermost function, calls f.                           *)
Enter(f) ==
  /\ code[f].mode # "none" /\ Len(stack) < MaxDepth
  /\ stack' = Append(stack, Activation(f))
  /\ UNCHANGED <<mem, size, data, moves, code, out, wild>>

(* Mutant of TailCall: the frame of the caller stays.                      *)
TailCallKeepsFrame(f) ==
  /\ code[f].mode # "none" /\ stack # <<>>
  /\ stack' = Append(stack, Activation(f))
  /\ UNCHANGED <<mem, size, data, moves, code, out, wild>>

(* return_call: f takes the place of the innermost function.               *)
TailCall(f) ==
  /\ code[f].mode # "none" /\ stack # <<>>
  /\ stack' = [stack EXCEPT ![Len(stack)] = Activation(f)]
  /\ UNCHANGED <<mem, size, data, moves, code, out, wild>>

Leave ==
  /\ stack # <<>>
  /\ stack' = LET n == Len(stack) - 1
              IN  [i \in 1 .. n |-> IF i = n THEN Reloaded(stack[i], mem.bytes) ELSE stack[i]]
  /\ UNCHANGED <<mem, size, data, moves, code, out, wild>>

-----------------------------------------------------------------------------
(* memory.grow: insn_memorygrow, then what follows every call.             *)

(* Mutant of Cleared: nothing.                                             *)
ClearedNothing(delta) == 0

(* The bytes memset clears, from the old end of the memory on.             *)
Cleared(delta) == Bytes(delta)

Wanted(delta) == (delta + mem.pages) % Word

GrowRefused(delta) ==
  /\ stack # <<>> /\ ~wild
  /\ Wanted(delta) > mem.maximum
  /\ out' = <<"refused">>
  /\ UNCHANGED <<mem, size, data, moves, code, stack, wild>>

GrowFixed(delta) ==
  /\ stack # <<>> /\ ~wild /\ mem.fixed
  /\ Wanted(delta) <= mem.maximum
  /\ mem' = [mem EXCEPT !.pages = Wanted(delta)]
  /\ out' = <<"grew", mem.pages>>
  /\ UNCHANGED <<size, data, moves, code, stack, wild>>

(* realloc keeps what both blocks have room for; memset clears the rest.   *)
GrowMoves(delta) ==
  /\ stack # <<>> /\ ~wild /\ ~mem.fixed /\ moves < MaxMoves
  /\ Wanted(delta) <= mem.maximum
  /\ size' = Bytes(Wanted(delta))
  /\ \E b \in Moved(size') :
       /\ mem' = [mem EXCEPT !.pages = Wanted(delta), !.bytes = b]
       /\ moves' = IF b = moves + 1 THEN b ELSE moves
  /\ LET from == Bytes(mem.pages)
         upto == from + Cleared(delta)
     IN  /\ data' = [p \in PageIndex |->
               IF (p + 1) * PageSize > size' THEN "junk"
               ELSE IF p * PageSize >= from /\ p * PageSize < upto THEN "zero"
               ELSE IF (p + 1) * PageSize > size THEN "junk" ELSE data[p]]
         /\ wild' = (upto > size' /\ upto > from)
  /\ stack' = [stack EXCEPT ![Len(stack)] = Reloaded(Active, mem'.bytes)]
  /\ out' = <<"grew", mem.pages>>
  /\ UNCHANGED code

(* Loads and stores inside the memory, by the innermost function.          *)
Store(p) ==
  /\ stack # <<>> /\ ~wild /\ p < mem.pages
  /\ data' = IF BaseOf(Active) = mem.bytes THEN [data EXCEPT ![p] = "stored"] ELSE data
  /\ out' = <<"none">>
  /\ UNCHANGED <<mem, size, moves, code, stack, wild>>

Load(p) ==
  /\ stack # <<>> /\ ~wild /\ p < mem.pages
  /\ out' = <<"read", IF BaseOf(Active) = mem.bytes THEN data[p] ELSE "junk">>
  /\ UNCHANGED <<mem, size, data, moves, code, stack, wild>>

MemoryNext ==
  \/ \E f \in Funcs, first \in BOOLEAN : Compile(f, first)
  \/ \E f \in Funcs : Enter(f)
  \/ \E f \in Funcs : TailCall(f)
  \/ Leave
  \/ \E delta \in Deltas : GrowRefused(delta)
  \/ \E delta \in Deltas : GrowFixed(delta)
  \/ \E delta \in Deltas : GrowMoves(delta)
  \/ \E p \in PageIndex : Store(p)
  \/ \E p \in PageIndex : Load(p)

MemorySpec == MemoryInit /\ [][MemoryNext]_memoryVars

-----------------------------------------------------------------------------

(* No declaration and no argument of memory.grow that is considered wraps. *)
NoWrap ==
  /\ \A d \in Declared :
       /\ Allocated(d) # 0
       /\ d.initial \in 1 .. Maximum(d)
       /\ \A delta \in Deltas : delta + Maximum(d) < Word
  /\ \A p \in 1 .. DefaultMax : Bytes(p) # 0

MemoryTypeOK ==
  /\ mem \in [pages : Nat, fixed : BOOLEAN, bytes : 0 .. MaxMoves, maximum : Nat]
  /\ size \in Nat
  /\ data \in [PageIndex -> {"zero", "stored", "junk"}]
  /\ moves \in 0 .. MaxMoves
  /\ code \in [Funcs -> [mode : Modes, const : 0 .. MaxMoves]]
  /\ stack \in Seq([fn : Funcs, base : 0 .. MaxMoves]) /\ Len(stack) <= MaxDepth
  /\ out \in {<<"none">>, <<"refused">>} \cup ({"grew"} \X Nat)
             \cup ({"read"} \X {"zero", "stored", "junk"})
  /\ wild \in BOOLEAN

(* The base the running function holds is that of the block, however the   *)
(* memory was grown by the functions it called, and they by theirs, and    *)
(* whatever the function decided when it was compiled.                     *)
BaseCurrent == stack # <<>> => BaseOf(Active) = mem.bytes

(* The block has room for every page the memory says it has, and the       *)
(* zeroing of the new pages has stayed inside of it.                       *)
BlockHoldsPages == mem.pages * PageSize <= size /\ ~wild

Wasm == INSTANCE WasmMemory WITH
  Values <- {"stored"},
  limit <- mem.maximum,
  pages <- mem.pages,
  data <- [p \in PageIndex |-> IF p < mem.pages THEN data[p] ELSE "zero"]

(* Every function sees one memory whose pages start out zero, survive      *)
(* growing, and are never taken away.                                      *)
ImplementsWasmMemory == Wasm!Spec
=============================================================================
