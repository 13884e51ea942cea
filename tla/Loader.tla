------------------------------- MODULE Loader -------------------------------
(***************************************************************************)
(* The life of one compiler and of the module state it makes: the sections *)
(* of a module are read in their order, each adding to what is allocated   *)
(* and to tables of pointers; then everything provisional is resolved.     *)
(* Either the module is loaded, and its state lives on when the compiler   *)
(* is freed, or it is refused on the way, and the compiler frees both.     *)
(***************************************************************************)
EXTENDS Integers, Sequences

CONSTANTS
  HostFunctions, HostTables, HostMemories, HostGlobals,  (* to be imported *)
  TableSize,   (* entries of each table                                    *)
  Shapes,      (* which modules and refusals are considered                *)
  MaxOwn,      (* bound: own functions, tables, memories, globals, each    *)
  MaxItems     (* bound: functions, tables, memories, globals and exports  *)

ASSUME LoaderAssumption ==
  /\ TableSize \in Nat \ {0} /\ MaxOwn \in Nat /\ MaxItems \in Nat
  /\ Nat \cap (HostFunctions \cup HostTables \cup HostMemories \cup HostGlobals) = {}

VARIABLES
  phase,    (* "new", "reading", "loaded" or "refused"                     *)
  section,  (* the section that was begun last                             *)
  m,        (* ModuleCompiler: functions (func_ptr of each), import_count, *)
            (* globals                                                     *)
  rc,       (* RuntimeContext, m->context                                  *)
  entries,  (* entries[t]: of a table of the host, or an own one (1, 2...) *)
  heap,     (* what is allocated                                           *)
  says,     (* what the sections read so far say                           *)
  fault     (* the first wrong access                                      *)

vars == <<phase, section, m, rc, entries, heap, says, fault>>

(* Sections in the order WebAssembly gives them.  GlobalsEnd is the code   *)
(* at the end of the Global section.                                       *)
Type == 1
Import == 2
Function == 3
Table == 4
Memory == 5
Global == 6
GlobalsEnd == 7
Export == 8
Start == 9
Element == 10
Code == 11
Data == 12

(* Pointers.  Own code is named by its body.  Arrays that grow may move:   *)
(* an address in one carries the length the array had when it was taken.   *)
NULL == <<"null">>
Junk == <<"junk">>
Host(x) == <<"host", x>>
Body(b) == <<"body", b>>
FuncRecord(i) == <<"WasmFunction", i, Len(m.functions)>>
Variable(k, len) == <<"own", k, len>>

(* What is allocated once, by its name in the code.                        *)
Blocks(names) == {<<x>> : x \in names}

(* m->locals is given an array when a body is begun, and set to NULL and   *)
(* given another in pwart_PrepareFunc: only the second is ever freed.      *)
DroppedLocals(b) == <<"dropped locals", b>>

OwnTables == 1..MaxOwn
Init ==
  /\ phase = "new" /\ section = 0 /\ heap = Blocks({"compiler"}) /\ fault = "none"
  /\ m = [functions |-> <<>>, import_count |-> 0, globals |-> <<>>]
  /\ rc = [tables |-> <<>>, own_tables |-> 0, memories |-> <<>>, own_memories |-> 0,
           own_globals |-> <<>>, exports |-> <<>>, start |-> 0,
           funcentries |-> <<>>, import_funcentries |-> 0]
  /\ entries = [t \in HostTables \cup OwnTables |-> [k \in 1..TableSize |-> NULL]]
  /\ says = [functions |-> <<>>, globals |-> <<>>, values |-> <<>>, exports |-> <<>>,
             elements |-> [t \in HostTables \cup OwnTables |-> [k \in 1..TableSize |-> 0]]]

-----------------------------------------------------------------------------

(* pwart_compile begins: arrays and pools of the compiler and the state.   *)
CompilerArrays == Blocks({"types", "types_pool", "globals", "functions"})
StateArrays ==
  Blocks({"context", "strings_pool", "exports", "memories", "tables", "own_globals"})

Compile ==
  /\ phase = "new" /\ phase' = "reading" /\ <<"compiler">> \in heap
  /\ heap' = heap \cup CompilerArrays \cup StateArrays
  /\ UNCHANGED <<section, m, rc, entries, says, fault>>

Items == Len(m.functions) + Len(rc.tables) + Len(rc.memories)
           + Len(m.globals) + Len(rc.exports)

Complete ==
  /\ section # Global
  /\ section = Code => \A i \in DOMAIN m.functions : m.functions[i] # NULL
Reads(s) ==
  /\ phase = "reading" /\ fault = "none"
  /\ \/ section = s
     \/ section < s /\ (Complete \/ <<section, s>> = <<Global, GlobalsEnd>>)
  /\ section' = s
Begins(s) == section < s /\ Reads(s) /\ UNCHANGED phase

(* Bodies come in order: the first that has no code yet.                   *)
NextBody ==
  CHOOSE b \in 1 .. Len(m.functions) :
    Body(b) \notin heap /\ \A before \in 1 .. b - 1 : Body(before) \in heap

(* A section that is refused leaves what was read before it; in an Import, *)
(* Export, Element, Code or Data section that may be several items.  A     *)
(* body that is refused while it is generated leaves the assembler too.    *)
Refuse(s) ==
  /\ Reads(s) /\ phase' = "refused"
  /\ s = Code => s = section /\ ~Complete
  /\ <<"funcentries">> \in heap => "after code" \in Shapes
  /\ IF s = Code
     THEN \E jitc \in {{}, Blocks({"jitc"})} :
            heap' = heap \cup {DroppedLocals(NextBody)} \cup jitc
     ELSE heap' = heap
  /\ UNCHANGED <<m, rc, entries, says, fault>>

(* The array that load_module had allocated for types is dropped.          *)
TypeSection(accepted) ==
  /\ section < Type /\ Reads(Type)
  /\ heap' = heap \cup Blocks({"dropped types"})
  /\ phase' = IF accepted THEN phase ELSE "refused"
  /\ UNCHANGED <<m, rc, entries, says, fault>>

-----------------------------------------------------------------------------
(* Import.  What is not found, or too small, is a Refuse(Import).          *)

Importing == Reads(Import) /\ Items < MaxItems /\ UNCHANGED <<phase, entries, heap, fault>>

ImportFunction(h) ==
  /\ Importing
  /\ m' = [m EXCEPT !.functions = Append(@, Host(h)), !.import_count = @ + 1]
  /\ says' = [says EXCEPT !.functions = Append(@, Host(h))] /\ UNCHANGED rc

ImportTable(t) ==
  /\ Importing /\ rc' = [rc EXCEPT !.tables = Append(@, t)] /\ UNCHANGED <<m, says>>

ImportMemory(x) ==
  /\ Importing /\ rc' = [rc EXCEPT !.memories = Append(@, x)] /\ UNCHANGED <<m, says>>

(* Variables and references are reached by their address, but a number     *)
(* that is constant is copied, and marked like an offset.                  *)
Described(imm, w) == [imm |-> imm, w |-> w]

ImportGlobal(g, how) ==
  /\ Importing
  /\ how = "number" => "imported number" \in Shapes
  /\ m' = [m EXCEPT !.globals =
             Append(@, IF how = "number" THEN Described(TRUE, <<"value", g>>)
                       ELSE Described(FALSE, Host(g)))]
  /\ says' = [says EXCEPT !.globals = Append(@, <<how, g>>)] /\ UNCHANGED rc

-----------------------------------------------------------------------------
(* Functions, tables and memories of the module itself.                    *)

FunctionSection(n) ==
  /\ Begins(Function) /\ Items + n <= MaxItems
  /\ m' = [m EXCEPT !.functions = @ \o [i \in 1..n |-> NULL]]
  /\ says' = [says EXCEPT !.functions = @ \o [i \in 1..n |-> Body(i)]]
  /\ UNCHANGED <<rc, entries, heap, fault>>

(* Mutant of TableSection: own tables are not in the index space.          *)
TableSectionApart(n) ==
  /\ Begins(Table) /\ Items + n <= MaxItems
  /\ rc' = [rc EXCEPT !.own_tables = n]
  /\ heap' = heap \cup Blocks({"own_tables"}) \cup {<<"entries", i>> : i \in 1..n}
  /\ UNCHANGED <<m, entries, says, fault>>

TableSection(n) ==
  /\ Begins(Table) /\ Items + n <= MaxItems
  /\ rc' = [rc EXCEPT !.tables = @ \o [i \in 1..n |-> i], !.own_tables = n]
  /\ heap' = heap \cup Blocks({"own_tables"}) \cup {<<"entries", i>> : i \in 1..n}
  /\ UNCHANGED <<m, entries, says, fault>>

MemorySection(n) ==
  /\ Begins(Memory) /\ Items + n <= MaxItems
  /\ rc' = [rc EXCEPT !.memories = @ \o [i \in 1..n |-> i], !.own_memories = n]
  /\ heap' = heap \cup Blocks({"own_memories"}) \cup {<<"bytes", i>> : i \in 1..n}
  /\ UNCHANGED <<m, entries, says, fault>>

-----------------------------------------------------------------------------
(* Globals.  Their values are put into one array, which may move until it  *)
(* is complete; until then a global is known by its offset.                *)

(* waexpr_run_const: a constant, global.get of an import or ref.func.      *)
Const == <<"const">>
Evaluated(e) ==
  CASE e = Const -> Const
    [] e[1] = "get" -> LET w == m.globals[e[2]].w
                       IN  IF w[1] = "host" THEN <<"content", w[2]>> ELSE Junk
    [] e[1] = "func" -> FuncRecord(e[2])

Initializers ==
  {Const}
  \cup {<<"get", i>> : i \in {j \in DOMAIN says.globals :
                               says.globals[j][1] \in {"reference", "number"}}}
  \cup {<<"func", i>> : i \in {j \in DOMAIN m.functions : "function reference" \in Shapes}}
Meant(e) ==
  CASE e = Const -> Const
    [] e[1] = "get" -> <<"content", says.globals[e[2]][2]>>
    [] e[1] = "func" -> says.functions[e[2]]

BeginGlobals == Begins(Global) /\ UNCHANGED <<m, rc, entries, heap, says, fault>>

(* Mutant of Provisional: the address is taken at once.                    *)
ProvisionalAddress(k) == Described(FALSE, Variable(k, k))

Provisional(k) == Described(TRUE, <<"offset", k>>)

DefineGlobal(e) ==
  /\ section = Global /\ Reads(Global) /\ Items < MaxItems
  /\ Len(rc.own_globals) < MaxOwn
  /\ LET k == Len(rc.own_globals) + 1
     IN  /\ m' = [m EXCEPT !.globals = Append(@, Provisional(k))]
         /\ rc' = [rc EXCEPT !.own_globals = Append(@, Evaluated(e))]
         /\ says' = [says EXCEPT !.globals = Append(@, <<"own", k>>),
                                 !.values = Append(@, Meant(e))]
  /\ UNCHANGED <<phase, entries, heap, fault>>

(* Real addresses replace whatever is marked as an offset.                 *)
Placed(sv) ==
  IF ~sv.imm THEN sv
  ELSE Described(FALSE,
         IF sv.w[1] = "offset" THEN Variable(sv.w[2], Len(rc.own_globals)) ELSE Junk)

EndGlobals ==
  /\ section = Global /\ Reads(GlobalsEnd)
  /\ m' = [m EXCEPT !.globals = [i \in DOMAIN @ |-> Placed(@[i])]]
  /\ UNCHANGED <<phase, rc, entries, heap, says, fault>>

-----------------------------------------------------------------------------
(* Exports and element segments.  Functions are known by the address of    *)
(* their WasmFunction until they have code.                                *)

Exported(kind, i) ==
  CASE kind = "function" -> FuncRecord(i)
    [] kind = "table" -> rc.tables[i]
    [] kind = "memory" -> rc.memories[i]
    [] kind = "global" -> m.globals[i].w

ExportItem(kind, i) ==
  /\ Reads(Export) /\ Items < MaxItems
  /\ i \in CASE kind = "function" -> DOMAIN m.functions [] kind = "table" -> DOMAIN rc.tables
             [] kind = "memory" -> DOMAIN rc.memories [] kind = "global" -> DOMAIN m.globals
  /\ rc' = [rc EXCEPT !.exports = Append(@, [kind |-> kind, value |-> Exported(kind, i)])]
  /\ says' = [says EXCEPT !.exports = Append(@, i)]
  /\ UNCHANGED <<phase, m, entries, heap, fault>>

StartSection(i) ==
  /\ Begins(Start) /\ i \in DOMAIN m.functions
  /\ rc' = [rc EXCEPT !.start = i]
  /\ UNCHANGED <<m, entries, heap, says, fault>>

(* A segment with one function.  A declarative segment (flags 3) says only *)
(* that there are references to it, but the code writes it, at an offset   *)
(* that was never set.                                                     *)
ElementItem(n, k, i, declarative) ==
  /\ Reads(Element)
  /\ n \in DOMAIN rc.tables /\ i \in DOMAIN m.functions
  /\ LET t == rc.tables[n]
     IN  /\ t \in HostTables => "element of import" \in Shapes
         /\ declarative => "declarative" \in Shapes
         /\ entries' = [entries EXCEPT ![t][k] = FuncRecord(i)]
         /\ says' = IF declarative THEN says ELSE [says EXCEPT !.elements[t][k] = i]
  /\ UNCHANGED <<phase, m, rc, heap, fault>>

(* Data is copied into a memory; passive segments are refused.             *)
DataItem(n) ==
  /\ Reads(Data) /\ n \in DOMAIN rc.memories
  /\ UNCHANGED <<phase, m, rc, entries, heap, says, fault>>

-----------------------------------------------------------------------------
(* Code.                                                                   *)

(* funcentries is there before any code, which refers to it, and not       *)
(* written until the end.                                                  *)
BeginCode ==
  /\ Begins(Code)
  /\ rc' = [rc EXCEPT !.funcentries = [i \in DOMAIN m.functions |-> Junk]]
  /\ heap' = heap \cup Blocks({"funcentries"})
  /\ UNCHANGED <<m, entries, says, fault>>

(* Mutant of FunctionOf: counted from the first function.                  *)
FunctionOfAll(b) == b

FunctionOf(b) == m.import_count + b

(* pwart_EmitFunction.  What it used is freed when it ends well, but for   *)
(* the first array of locals.                                              *)
EmitBody ==
  /\ section = Code /\ ~Complete /\ Reads(Code)
  /\ LET b == NextBody
     IN  /\ m' = [m EXCEPT !.functions[FunctionOf(b)] = Body(b)]
         /\ heap' = heap \cup {Body(b), DroppedLocals(b)}
  /\ UNCHANGED <<phase, rc, entries, says, fault>>

-----------------------------------------------------------------------------
(* The end of load_module.                                                 *)

(* Mutant of Resolved: entries are left as they are.                       *)
ResolvedNot(p) == p

(* A WasmFunction is read where it was when its address was taken.         *)
Resolved(p) ==
  IF p[1] # "WasmFunction" THEN p
  ELSE IF p[3] = Len(m.functions) THEN m.functions[p[2]] ELSE Junk

ResolvedExport(x) ==
  IF x.kind = "function" THEN [x EXCEPT !.value = Resolved(@)] ELSE x

Finish ==
  /\ phase = "reading" /\ fault = "none" /\ Complete
  /\ IF Len(rc.funcentries) < Len(m.functions)
     THEN /\ "no code" \in Shapes
          /\ m.import_count = Len(m.functions)
          /\ fault' = "wrote past the entries" /\ UNCHANGED <<phase, rc, entries>>
     ELSE /\ phase' = "loaded" /\ UNCHANGED fault
          /\ rc' = [rc EXCEPT
               !.import_funcentries = m.import_count,
               !.funcentries = m.functions,
               !.exports = [e \in DOMAIN @ |-> ResolvedExport(@[e])]]
          /\ entries' = [t \in DOMAIN entries |->
               IF t \in 1..rc.own_tables
               THEN [k \in DOMAIN entries[t] |-> Resolved(entries[t][k])] ELSE entries[t]]
  /\ UNCHANGED <<section, m, heap, says>>

-----------------------------------------------------------------------------
(* Freeing.                                                                *)

(* Mutant of OwnCode: imported functions too.                              *)
AllCode == {rc.funcentries[i] : i \in 1..Len(rc.funcentries)}

OwnCode == {rc.funcentries[i] : i \in rc.import_funcentries + 1 .. Len(rc.funcentries)}

(* free_runtimectx.  Pointers that are NULL are passed over.               *)
StateParts ==
  StateArrays
  \cup (heap \cap Blocks({"own_tables", "own_memories", "funcentries"}))
  \cup {<<"entries", i>> : i \in 1..rc.own_tables}
  \cup {<<"bytes", i>> : i \in 1..rc.own_memories}
  \cup OwnCode

(* Mutant of CompilerParts: the exports, with their names, go too.         *)
CompilerPartsAndNames ==
  CompilerArrays \cup Blocks({"compiler", "strings_pool"}) \cup (heap \cap Blocks({"jitc"}))

CompilerParts == CompilerArrays \cup Blocks({"compiler"}) \cup (heap \cap Blocks({"jitc"}))

Frees(parts) ==
  /\ heap' = heap \ parts
  /\ fault' = IF parts \subseteq heap THEN "none" ELSE "freed what is not its own"
  /\ UNCHANGED <<phase, section, m, rc, entries, says>>

(* pwart_free_module_compiler; of a compiler never used it reads a state   *)
(* that is not there.                                                      *)
FreeCompiler ==
  /\ <<"compiler">> \in heap /\ fault = "none" /\ phase # "reading"
  /\ phase = "new" => "unused" \in Shapes
  /\ Frees(CompilerParts \cup (IF phase = "loaded" THEN {} ELSE StateParts))

(* pwart_free_module_state.                                                *)
FreeState ==
  /\ phase = "loaded" /\ <<"context">> \in heap /\ fault = "none"
  /\ Frees(StateParts)

ReadImport ==
  \/ \E h \in HostFunctions : ImportFunction(h)
  \/ \E t \in HostTables : ImportTable(t)
  \/ \E x \in HostMemories : ImportMemory(x)
  \/ \E g \in HostGlobals, how \in {"variable", "reference", "number"} : ImportGlobal(g, how)

ReadSection ==
  \/ \E s \in {Import, Global, Export, Element, Code, Data} : Refuse(s)
  \/ \E accepted \in BOOLEAN : TypeSection(accepted)
  \/ ReadImport
  \/ \E n \in 0..MaxOwn : FunctionSection(n) \/ TableSection(n) \/ MemorySection(n)
  \/ BeginGlobals \/ EndGlobals
  \/ \E e \in Initializers : DefineGlobal(e)
  \/ \E kind \in {"function", "table", "memory", "global"}, i \in 1..MaxItems : ExportItem(kind, i)
  \/ \E i \in DOMAIN m.functions : StartSection(i)
  \/ \E n \in DOMAIN rc.tables, k \in 1..TableSize, i \in DOMAIN m.functions, d \in BOOLEAN :
       ElementItem(n, k, i, d)
  \/ \E n \in DOMAIN rc.memories : DataItem(n)
  \/ BeginCode \/ EmitBody

Next == Compile \/ ReadSection \/ Finish \/ FreeCompiler \/ FreeState
Spec == Init /\ [][Next]_vars

-----------------------------------------------------------------------------

Pointers ==
  {NULL, Junk} \cup {Host(h) : h \in HostFunctions}
  \cup {Body(b) : b \in 1..MaxOwn} \cup {<<"WasmFunction", i, n>> : i, n \in 1..MaxItems}
TypeOK ==
  /\ phase \in {"new", "reading", "loaded", "refused"}
  /\ section \in 0..Data
  /\ m.functions \in Seq(Pointers) /\ m.import_count \in 0..Len(m.functions)
  /\ \A i \in DOMAIN m.globals : m.globals[i].imm \in BOOLEAN
  /\ rc.funcentries \in Seq(Pointers)
  /\ rc.import_funcentries \in 0..Len(rc.funcentries)
  /\ rc.own_tables \in 0..Len(rc.tables) /\ rc.own_memories \in 0..Len(rc.memories)
  /\ \A t \in DOMAIN entries : entries[t] \in [1..TableSize -> Pointers]
  /\ Len(rc.exports) = Len(says.exports) /\ Len(m.globals) = Len(says.globals)
  /\ fault \in {"none", "freed what is not its own", "wrote past the entries"}

Live == phase = "loaded" /\ <<"context">> \in heap

(* In a loaded module whatever can be called is code, and the code that    *)
(* the module says: each entry that generated code calls through, each     *)
(* entry of each table that the module has, its start function and each    *)
(* function it exports.  Nothing is left of the provisional pointers.      *)
CallsReachCode ==
  Live =>
    /\ rc.funcentries = says.functions
    /\ rc.start \in {0} \cup DOMAIN rc.funcentries
    /\ \A n \in DOMAIN rc.tables, k \in 1..TableSize :
         LET t == rc.tables[n]
             i == says.elements[t][k]
         IN  entries[t][k] = IF i = 0 THEN NULL ELSE says.functions[i]
    /\ \A e \in DOMAIN rc.exports :
         rc.exports[e].kind = "function" => rc.exports[e].value = says.functions[says.exports[e]]

Address(i) ==
  LET g == says.globals[i]
  IN  IF g[1] = "own" THEN Variable(g[2], Len(rc.own_globals)) ELSE Host(g[2])

(* When code is generated, which has the addresses of globals in it, and   *)
(* after that, each is the address of the variable that the module says,   *)
(* in the array where it is by then, and holds the value the module says.  *)
(* So do the exports, which were made before.                              *)
GlobalsInPlace ==
  (phase = "reading" /\ section >= Code) \/ Live =>
    /\ \A i \in DOMAIN m.globals : m.globals[i] = Described(FALSE, Address(i))
    /\ rc.own_globals = says.values
    /\ \A e \in DOMAIN rc.exports :
         rc.exports[e].kind = "global" => rc.exports[e].value = Address(says.exports[e])

(* Nothing is freed that is not allocated, or belongs to somebody else.    *)
NoFault == fault = "none"

(* The bodies that have been compiled.                                     *)
Compiled ==
  {b \in 1 .. Len(m.functions) - m.import_count : m.functions[m.import_count + b] # NULL}

(* Freeing the compiler takes nothing of the state of a loaded module,     *)
(* which is whole, with the code of its functions and no other.  What is   *)
(* left then, and when the state is freed or the module was refused, is    *)
(* that state, the array of types that load_module drops, and an array of  *)
(* locals for each body that was compiled: neither fewer nor more.         *)
HeapExact ==
  /\ Live => StateParts \subseteq heap /\ {p \in heap : p[1] = "body"} = OwnCode
  /\ <<"compiler">> \notin heap =>
       heap \ Blocks({"dropped types"})
         = {DroppedLocals(b) : b \in Compiled} \cup (IF Live THEN StateParts ELSE {})
=============================================================================
