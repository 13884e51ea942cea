---------------------------- MODULE LoaderProofs ----------------------------
(***************************************************************************)
(* A module that is loaded calls the code and has the globals that it      *)
(* says, and what is allocated for it is freed once, by its owner, as long *)
(* as modules and refusals have none of the shapes that the loader gets    *)
(* wrong (Plain).                                                          *)
(*                                                                         *)
(* The properties speak of a loaded module.  The invariant says what is    *)
(* true on the way there: which pointers are provisional, that the arrays  *)
(* they point into no longer move, and which blocks are allocated.         *)
(***************************************************************************)
EXTENDS Loader, TLAPS

Plain == Shapes = {}

Own == Len(m.functions) - m.import_count
HasEntries == <<"funcentries">> \in heap
HasState == <<"context">> \in heap
HasCompiler == <<"compiler">> \in heap
TableSet == HostTables \cup OwnTables

(* Types.                                                                  *)
Initial == {Const} \cup {<<"content", g>> : g \in HostGlobals}
Addresses == {Host(g) : g \in HostGlobals} \cup {Variable(k, n) : k, n \in Nat}
Words == Addresses \cup {<<"offset", k>> : k \in Nat}
Kinds == {"function", "table", "memory", "global"}
Values == Pointers \cup Words \cup HostTables \cup HostMemories \cup Nat

Addressed == [imm : BOOLEAN, w : Words]
Exports == [kind : Kinds, value : Values]
Sources == {"variable", "reference", "own"} \X (HostGlobals \cup Nat)
Modules ==
  [functions : Seq(Pointers), import_count : Nat,
   globals : Seq(Addressed)]
Contexts ==
  [tables : Seq(HostTables \cup OwnTables), own_tables : Nat,
   memories : Seq(HostMemories \cup Nat), own_memories : Nat,
   own_globals : Seq(Initial), exports : Seq(Exports), start : Nat,
   funcentries : Seq(Pointers), import_funcentries : Nat]
Descriptions ==
  [functions : Seq(Pointers), globals : Seq(Sources),
   values : Seq(Initial), exports : Seq(Nat), elements : [TableSet -> [1..TableSize -> Nat]]]

Typed ==
  /\ phase \in {"new", "reading", "loaded", "refused"} /\ section \in 0..Data
  /\ m \in Modules /\ rc \in Contexts /\ says \in Descriptions
  /\ entries \in [TableSet -> [1..TableSize -> Pointers]]
  /\ fault = "none" /\ Items <= MaxItems

(* The functions that there are, imports first.                            *)
Declared ==
  /\ Len(m.functions) = Len(says.functions) /\ m.import_count <= Len(m.functions)
  /\ Own <= MaxOwn /\ (section < Function => Own = 0)
  /\ \A i \in 1..m.import_count :
       says.functions[i] = m.functions[i] /\ \E h \in HostFunctions : m.functions[i] = Host(h)
  /\ \A b \in 1..Own : says.functions[m.import_count + b] = Body(b)

(* The first k of its own functions have code, and the state has no other; *)
(* for each of them an array of locals was dropped.                        *)
Coded(k) ==
  /\ \A b \in 1..Own : m.functions[m.import_count + b] = IF b <= k THEN Body(b) ELSE NULL
  /\ phase # "loaded" /\ ~HasEntries => k = 0
  /\ HasState => \A p \in heap : p[1] = "body" => \E b \in 1..k : p = Body(b)
  /\ HasState => \A b \in 1..k : Body(b) \in heap
  /\ \A p \in heap : p[1] = "dropped locals" => \E b \in 1..k : p = DroppedLocals(b)
  /\ \A b \in 1..k : DroppedLocals(b) \in heap
CodeInOrder == \E k \in 0..Own : Coded(k)

(* Provisional addresses are there only while globals are being read.      *)
AddressIn(i) ==
  LET g == says.globals[i]
  IN  \/ /\ g[1] \in {"variable", "reference"} /\ g[2] \in HostGlobals
         /\ m.globals[i] = Described(FALSE, Host(g[2]))
      \/ /\ g[1] = "own" /\ g[2] \in 1..Len(rc.own_globals)
         /\ m.globals[i] = IF section = Global THEN Provisional(g[2])
                           ELSE Described(FALSE, Variable(g[2], Len(rc.own_globals)))
GlobalsKnown ==
  /\ Len(m.globals) = Len(says.globals) /\ rc.own_globals = says.values
  /\ section < Global => rc.own_globals = <<>>
  /\ \A i \in DOMAIN m.globals : AddressIn(i)

(* What a pointer to function i is.                                        *)
PointerTo(i) == IF phase = "loaded" THEN says.functions[i] ELSE FuncRecord(i)

ExportsKnown ==
  /\ Len(rc.exports) = Len(says.exports) /\ (section < Export => rc.exports = <<>>)
  /\ \A e \in DOMAIN rc.exports :
       LET i == says.exports[e]
       IN  /\ rc.exports[e].kind = "function" =>
                i \in DOMAIN m.functions /\ rc.exports[e].value = PointerTo(i)
           /\ rc.exports[e].kind = "global" =>
                i \in DOMAIN m.globals /\ rc.exports[e].value = Address(i)

TablesKnown ==
  /\ rc.own_tables <= MaxOwn /\ rc.own_tables <= Len(rc.tables)
  /\ rc.own_memories <= Len(rc.memories)
  /\ section < Table => rc.own_tables = 0
  /\ section < Memory => rc.own_memories = 0
  /\ \A n \in DOMAIN rc.tables : rc.tables[n] \in HostTables \cup (1..rc.own_tables)
  /\ \A t \in TableSet, k \in 1..TableSize :
       LET i == says.elements[t][k]
       IN  IF i = 0 THEN entries[t][k] = NULL
           ELSE /\ i \in DOMAIN m.functions /\ t \in 1..rc.own_tables /\ section >= Element
                /\ entries[t][k] = PointerTo(i)

(* The entries are there before the code, and written when all is read.    *)
EntriesKnown ==
  /\ rc.start \in {0} \cup DOMAIN m.functions /\ (section < Start => rc.start = 0)
  /\ IF phase = "loaded"
     THEN /\ rc.funcentries = m.functions /\ m.functions = says.functions
          /\ rc.import_funcentries = m.import_count
     ELSE /\ rc.import_funcentries = 0
          /\ IF HasEntries
             THEN /\ rc.funcentries = [i \in DOMAIN m.functions |-> Junk]
                  /\ phase = "reading" /\ section >= Code
                  /\ section > Code => \A i \in DOMAIN m.functions : m.functions[i] # NULL
             ELSE rc.funcentries = <<>> /\ section # Code
  /\ phase = "loaded" => section # Global

(* What is allocated: for the compiler, for the state, and what is lost.   *)
Lost == Blocks({"dropped types"})
Itself == Blocks({"compiler"})
StateHas ==
  StateArrays \cup Blocks({"own_tables", "own_memories", "funcentries"})
  \cup {<<"entries", i>> : i \in 1..rc.own_tables}
  \cup {<<"bytes", i>> : i \in 1..rc.own_memories}
Needed ==
  StateArrays
  \cup {<<"entries", i>> : i \in 1..rc.own_tables}
  \cup {<<"bytes", i>> : i \in 1..rc.own_memories}

Allocated ==
  /\ phase = "new" => heap = Itself /\ section = 0
  /\ phase # "new" =>
       /\ \A p \in heap :
            \/ HasCompiler /\ p \in CompilerArrays \cup Itself
            \/ HasState /\ p \in StateHas
            \/ HasState /\ p[1] = "body"
            \/ p \in Lost \/ p[1] = "dropped locals"
       /\ HasCompiler => CompilerArrays \subseteq heap
       /\ HasState => Needed \subseteq heap
  /\ phase = "reading" => HasCompiler /\ HasState
  /\ phase = "refused" => (HasCompiler <=> HasState)

Inv ==
  /\ Typed /\ Declared /\ CodeInOrder /\ GlobalsKnown /\ ExportsKnown /\ TablesKnown
  /\ EntriesKnown /\ Allocated

-----------------------------------------------------------------------------
(* Types.                                                                  *)

LEMMA Sections ==
  /\ Type = 1 /\ Import = 2 /\ Function = 3 /\ Table = 4 /\ Memory = 5 /\ Global = 6
  /\ GlobalsEnd = 7 /\ Export = 8 /\ Start = 9 /\ Element = 10 /\ Code = 11 /\ Data = 12
BY DEF Type, Import, Function, Table, Memory, Global, GlobalsEnd, Export, Start, Element, Code, Data

LEMMA Fields ==
  ASSUME Typed
  PROVE  /\ m.functions \in Seq(Pointers) /\ m.import_count \in Nat
         /\ m.globals \in Seq(Addressed)
         /\ rc.tables \in Seq(HostTables \cup OwnTables) /\ rc.own_tables \in Nat
         /\ rc.memories \in Seq(HostMemories \cup Nat) /\ rc.own_memories \in Nat
         /\ rc.own_globals \in Seq(Initial)
         /\ rc.exports \in Seq(Exports) /\ rc.start \in Nat
         /\ rc.funcentries \in Seq(Pointers) /\ rc.import_funcentries \in Nat
         /\ says.functions \in Seq(Pointers) /\ says.values \in Seq(Initial)
         /\ says.globals \in Seq(Sources)
         /\ says.exports \in Seq(Nat)
         /\ says.elements \in [TableSet -> [1..TableSize -> Nat]]
BY DEF Typed, Modules, Contexts, Descriptions

LEMMA Sequence ==
  ASSUME NEW S, NEW q \in Seq(S)
  PROVE  /\ Len(q) \in Nat /\ DOMAIN q = 1..Len(q)
         /\ \A i \in DOMAIN q : q[i] \in S
OBVIOUS

LEMMA Lengths ==
  ASSUME Typed
  PROVE  /\ Len(m.functions) \in Nat /\ DOMAIN m.functions = 1..Len(m.functions)
         /\ Len(m.globals) \in Nat /\ DOMAIN m.globals = 1..Len(m.globals)
         /\ Len(rc.tables) \in Nat /\ DOMAIN rc.tables = 1..Len(rc.tables)
         /\ Len(rc.memories) \in Nat /\ DOMAIN rc.memories = 1..Len(rc.memories)
         /\ Len(rc.own_globals) \in Nat /\ DOMAIN rc.own_globals = 1..Len(rc.own_globals)
         /\ Len(rc.exports) \in Nat /\ DOMAIN rc.exports = 1..Len(rc.exports)
         /\ Len(rc.funcentries) \in Nat /\ DOMAIN rc.funcentries = 1..Len(rc.funcentries)
         /\ Len(says.functions) \in Nat /\ DOMAIN says.functions = 1..Len(says.functions)
         /\ Len(says.globals) \in Nat /\ DOMAIN says.globals = 1..Len(says.globals)
         /\ Len(says.values) \in Nat /\ Len(says.exports) \in Nat
         /\ DOMAIN says.exports = 1..Len(says.exports)
<1>1. Len(m.functions) \in Nat /\ DOMAIN m.functions = 1..Len(m.functions)
  BY Fields, Sequence, Zenon
<1>2. Len(m.globals) \in Nat /\ DOMAIN m.globals = 1..Len(m.globals)
  BY Fields, Sequence, Zenon
<1>3. Len(rc.tables) \in Nat /\ DOMAIN rc.tables = 1..Len(rc.tables)
  BY Fields, Sequence, Zenon
<1>4. Len(rc.memories) \in Nat /\ DOMAIN rc.memories = 1..Len(rc.memories)
  BY Fields, Sequence, Zenon
<1>5. Len(rc.own_globals) \in Nat /\ DOMAIN rc.own_globals = 1..Len(rc.own_globals)
  BY Fields, Sequence, Zenon
<1>6. Len(rc.exports) \in Nat /\ DOMAIN rc.exports = 1..Len(rc.exports)
  BY Fields, Sequence, Zenon
<1>7. Len(rc.funcentries) \in Nat /\ DOMAIN rc.funcentries = 1..Len(rc.funcentries)
  BY Fields, Sequence, Zenon
<1>8. Len(says.functions) \in Nat /\ DOMAIN says.functions = 1..Len(says.functions)
  BY Fields, Sequence, Zenon
<1>9. Len(says.globals) \in Nat /\ DOMAIN says.globals = 1..Len(says.globals)
  BY Fields, Sequence, Zenon
<1>10. Len(says.exports) \in Nat /\ DOMAIN says.exports = 1..Len(says.exports)
  BY Fields, Sequence, Zenon
<1>11. Len(says.values) \in Nat
  BY Fields, Sequence, Zenon
<1> QED  BY <1>1, <1>2, <1>3, <1>4, <1>5, <1>6, <1>7, <1>8, <1>9, <1>10, <1>11, Zenon

LEMMA Bounded ==
  ASSUME Typed
  PROVE  /\ Len(m.functions) \in 0..MaxItems /\ Len(rc.tables) \in 0..MaxItems
         /\ Len(rc.memories) \in 0..MaxItems /\ Len(m.globals) \in 0..MaxItems
         /\ Len(rc.exports) \in 0..MaxItems
         /\ Items \in Nat /\ Items <= MaxItems /\ MaxItems \in Nat
<1> DEFINE f == Len(m.functions)  t == Len(rc.tables)  x == Len(rc.memories)
           g == Len(m.globals)  e == Len(rc.exports)
<1>1. f \in Nat /\ t \in Nat /\ x \in Nat /\ g \in Nat /\ e \in Nat  BY Lengths, Zenon
<1>2. Items <= MaxItems /\ MaxItems \in Nat  BY LoaderAssumption DEF Typed
<1>3. Items = f + t + x + g + e  BY DEF Items
<1> HIDE DEF f, t, x, g, e
<1>4. f <= MaxItems /\ t <= MaxItems /\ x <= MaxItems /\ g <= MaxItems /\ e <= MaxItems
      /\ Items \in Nat
  BY <1>1, <1>2, <1>3
<1> QED  BY <1>1, <1>2, <1>4 DEF f, t, x, g, e

LEMMA Distinct ==
  /\ \A h : Host(h) # NULL /\ Host(h) # Junk
  /\ \A b : Body(b) # NULL /\ Body(b) # Junk
  /\ \A b, c : Body(b) = Body(c) => b = c
  /\ NULL # Junk
<1>1. \A h : Host(h)[1] = "host" /\ Host(h)[2] = h  BY DEF Host
<1>2. \A b : Body(b)[1] = "body" /\ Body(b)[2] = b  BY DEF Body
<1>3. NULL[1] = "null" /\ Junk[1] = "junk"  BY DEF NULL, Junk
<1> QED  BY <1>1, <1>2, <1>3

LEMMA PointerTypes ==
  /\ NULL \in Pointers /\ Junk \in Pointers
  /\ \A h \in HostFunctions : Host(h) \in Pointers
  /\ \A b \in 1..MaxOwn : Body(b) \in Pointers
  /\ \A i, n \in 1..MaxItems : <<"WasmFunction", i, n>> \in Pointers
BY DEF Pointers

LEMMA RecordTyped ==
  ASSUME Typed, NEW i \in DOMAIN m.functions
  PROVE  FuncRecord(i) \in Pointers
<1> DEFINE f == Len(m.functions)
<1>1. f \in 0..MaxItems /\ i \in 1..f /\ MaxItems \in Nat  BY Bounded, Lengths, Zenon
<1>2. i \in 1..MaxItems /\ f \in 1..MaxItems  BY <1>1
<1> QED  BY <1>2, PointerTypes, Zenon DEF FuncRecord

(* What it takes to go on reading.                                         *)
LEMMA Advances ==
  ASSUME Typed, NEW s \in 1..Data, Reads(s)
  PROVE  /\ phase = "reading" /\ fault = "none" /\ section' = s /\ section <= s
         /\ section' \in 0..Data
         /\ section = Global => s = Global \/ s = GlobalsEnd
         /\ section = Code /\ s > Code => \A i \in DOMAIN m.functions : m.functions[i] # NULL
BY Sections DEF Reads, Complete, Typed

-----------------------------------------------------------------------------
(* What a step does not disturb.                                           *)

Onward == section \in Nat /\ section' \in Nat /\ section <= section'
SameFunctions == m'.functions = m.functions /\ m'.import_count = m.import_count

LEMMA DeclaredKept ==
  ASSUME Declared, Onward, SameFunctions, says'.functions = says.functions
  PROVE  Declared'
<1>1. Own' = Own /\ (section' < Function => section < Function)
  BY Sections DEF Own, SameFunctions, Onward
<1> QED  BY <1>1, Zenon DEF Declared, SameFunctions

LEMMA CodeKept ==
  ASSUME CodeInOrder, SameFunctions,
         phase' # "loaded" /\ ~HasEntries' => phase # "loaded" /\ ~HasEntries,
         HasState' => HasState /\ \A p : p[1] = "body" => (p \in heap <=> p \in heap'),
         \A p : p[1] = "dropped locals" => (p \in heap <=> p \in heap')
  PROVE  CodeInOrder'
<1>1. Own' = Own  BY DEF Own, SameFunctions
<1>2. \A b : Body(b)[1] = "body" /\ DroppedLocals(b)[1] = "dropped locals"
  BY DEF Body, DroppedLocals
<1>3. ASSUME NEW k, Coded(k)  PROVE Coded(k)'
  BY <1>1, <1>2, <1>3, Zenon DEF Coded, SameFunctions
<1> QED  BY <1>1, <1>3, Zenon DEF CodeInOrder

LEMMA GlobalsKept ==
  ASSUME Typed, GlobalsKnown, Onward, m'.globals = m.globals, says'.globals = says.globals,
         says'.values = says.values, rc'.own_globals = rc.own_globals,
         (section = Global <=> section' = Global) \/ rc.own_globals = <<>>
  PROVE  GlobalsKnown'
<1>1. ASSUME NEW i \in DOMAIN m.globals  PROVE AddressIn(i)'
  <2>1. AddressIn(i)  BY DEF GlobalsKnown
  <2>2. CASE section = Global <=> section' = Global
    BY <2>1, <2>2, Zenon DEF AddressIn, Described, Provisional, Variable, Host
  <2>3. CASE rc.own_globals = <<>>
    <3>1. Len(rc.own_globals) = 0  BY <2>3
    <3>2. says.globals[i][2] \notin 1..Len(rc.own_globals)  BY <3>1
    <3> QED  BY <2>1, <3>2, Zenon DEF AddressIn, Described, Host
  <2> QED  BY <2>2, <2>3
<1>2. section' < Global => section < Global  BY Sections DEF Onward
<1> QED  BY <1>1, <1>2, Zenon DEF GlobalsKnown

LEMMA ExportsEarly ==
  ASSUME ExportsKnown, section < Export, rc'.exports = rc.exports, says'.exports = says.exports
  PROVE  ExportsKnown'
<1>1. rc.exports = <<>> /\ Len(rc.exports) = Len(says.exports)  BY DEF ExportsKnown
<1>2. DOMAIN rc'.exports = {}  BY <1>1
<1> QED  BY <1>1, <1>2, Zenon DEF ExportsKnown

LEMMA ExportsKept ==
  ASSUME ExportsKnown, Onward, rc'.exports = rc.exports, says'.exports = says.exports,
         \A i \in DOMAIN m.functions : i \in DOMAIN m'.functions /\ PointerTo(i)' = PointerTo(i),
         \A i \in DOMAIN m.globals : i \in DOMAIN m'.globals /\ Address(i)' = Address(i)
  PROVE  ExportsKnown'
<1>1. section' < Export => section < Export  BY Sections DEF Onward
<1> QED  BY <1>1, Zenon DEF ExportsKnown

LEMMA TablesKept ==
  ASSUME TablesKnown, Onward, rc'.own_tables = rc.own_tables, rc'.tables = rc.tables,
         rc'.own_memories = rc.own_memories, Len(rc'.memories) = Len(rc.memories),
         entries' = entries, says'.elements = says.elements,
         \/ section < Element
         \/ \A i \in DOMAIN m.functions : i \in DOMAIN m'.functions /\ PointerTo(i)' = PointerTo(i)
  PROVE  TablesKnown'
<1>1. /\ section' < Table => section < Table
      /\ section' < Memory => section < Memory
      /\ section >= Element => section' >= Element /\ ~(section < Element)
  BY Sections DEF Onward
<1>2. ASSUME NEW t \in TableSet, NEW k \in 1..TableSize
      PROVE  LET i == says.elements[t][k]
             IN  IF i = 0 THEN entries'[t][k] = NULL
                 ELSE /\ i \in DOMAIN m'.functions /\ t \in 1..rc'.own_tables
                      /\ section' >= Element /\ entries'[t][k] = PointerTo(i)'
  <2> DEFINE i == says.elements[t][k]
  <2>1. CASE i = 0  BY <2>1, Zenon DEF TablesKnown
  <2>2. CASE i # 0
    <3>1. i \in DOMAIN m.functions /\ t \in 1..rc.own_tables /\ section >= Element
          /\ entries[t][k] = PointerTo(i)
      BY <2>2, Zenon DEF TablesKnown
    <3> QED  BY <1>1, <2>2, <3>1, Zenon
  <2> QED  BY <2>1, <2>2
<1>3. TableSet' = TableSet  BY DEF TableSet, OwnTables
<1> QED  BY <1>1, <1>2, <1>3, ZenonT(60) DEF TablesKnown

LEMMA EntriesKept ==
  ASSUME EntriesKnown, Onward, phase = "reading", phase' = "reading", HasEntries' <=> HasEntries,
         rc'.start = rc.start, rc'.funcentries = rc.funcentries,
         rc'.import_funcentries = rc.import_funcentries,
         HasEntries => m'.functions = m.functions,
         DOMAIN m.functions \subseteq DOMAIN m'.functions,
         HasEntries \/ section' # Code,
         section = Code /\ section' > Code => \A i \in DOMAIN m.functions : m.functions[i] # NULL
  PROVE  EntriesKnown'
<1>1. section' < Start => section < Start  BY Sections DEF Onward
<1>2. section >= Code => section' >= Code  BY Sections DEF Onward
<1>3. section' > Code => section > Code \/ section < Code \/ section = Code  BY Sections DEF Onward
<1>4. section < Code => ~(section >= Code)  BY Sections DEF Onward
<1>5. rc'.start \in {0} \cup DOMAIN m'.functions /\ (section' < Start => rc'.start = 0)
  BY <1>1, Zenon DEF EntriesKnown
<1>6. CASE HasEntries
  <2>1. /\ rc.funcentries = [i \in DOMAIN m.functions |-> Junk] /\ section >= Code
        /\ section > Code => \A i \in DOMAIN m.functions : m.functions[i] # NULL
        /\ rc.import_funcentries = 0
    BY <1>6, Zenon DEF EntriesKnown
  <2>2. section' > Code => \A i \in DOMAIN m.functions : m.functions[i] # NULL
    BY <1>3, <1>4, <2>1, Zenon
  <2> QED  BY <1>2, <1>5, <1>6, <2>1, <2>2, Zenon DEF EntriesKnown
<1>7. CASE ~HasEntries
  BY <1>5, <1>7, Zenon DEF EntriesKnown
<1> QED  BY <1>6, <1>7

LEMMA AllocatedKept ==
  ASSUME Allocated, phase = "reading", phase' = "reading", heap' = heap,
         rc'.own_tables = rc.own_tables, rc'.own_memories = rc.own_memories
  PROVE  Allocated'
BY Zenon DEF Allocated, HasCompiler, HasState, StateHas, Needed, StateArrays, CompilerArrays, Itself, Lost, Blocks

LEMMA PointersKept ==
  ASSUME phase # "loaded", phase' # "loaded", Len(m'.functions) = Len(m.functions)
  PROVE  \A i : PointerTo(i)' = PointerTo(i)
BY Zenon DEF PointerTo, FuncRecord

LEMMA AddressesKept ==
  ASSUME says'.globals = says.globals, Len(rc'.own_globals) = Len(rc.own_globals)
  PROVE  \A i : Address(i)' = Address(i)
BY Zenon DEF Address, Variable, Host

-----------------------------------------------------------------------------
(* Steps that change little.                                               *)

LEMMA Reading ==
  ASSUME Inv, NEW s \in 1..Data, Reads(s)
  PROVE  /\ Typed /\ Onward /\ phase = "reading" /\ section' = s /\ section <= s
         /\ HasCompiler /\ HasState /\ fault = "none" /\ s \in Nat
         /\ section = Global => s = Global \/ s = GlobalsEnd
         /\ section = Code /\ s > Code => \A i \in DOMAIN m.functions : m.functions[i] # NULL
<1>1. Typed /\ (phase = "reading" => HasCompiler /\ HasState)  BY Zenon DEF Inv, Allocated
<1>2. Onward
  BY <1>1, Advances, Sections DEF Onward, Typed
<1> QED  BY <1>1, <1>2, Advances, Sections

LEMMA NoEntriesYet ==
  ASSUME Inv, phase = "reading", section < Code
  PROVE  ~HasEntries
BY Sections DEF Inv, EntriesKnown, Typed

LEMMA CodeHasEntries ==
  ASSUME Inv, phase # "loaded", section = Code
  PROVE  HasEntries
BY Zenon DEF Inv, EntriesKnown

LEMMA BlockName ==
  ASSUME NEW names, NEW p \in Blocks(names)
  PROVE  p[1] \in names
BY DEF Blocks

LEMMA NoBodies ==
  \A p : p \in CompilerArrays \/ p \in StateArrays \/ p \in Itself \/ p \in Lost \/ p \in StateHas
        => p[1] # "body" /\ p[1] # "dropped locals"
<1> DEFINE names == {"types", "types_pool", "globals", "functions", "context", "strings_pool",
                     "exports", "memories", "tables", "own_globals", "compiler",
                     "dropped types", "own_tables", "own_memories", "funcentries"}
<1>1. "body" \notin names /\ "dropped locals" \notin names  OBVIOUS
<1>2. SUFFICES ASSUME NEW p,
                      \/ p \in Blocks(names)
                      \/ \E i : p = <<"entries", i>> \/ p = <<"bytes", i>>
               PROVE  p[1] # "body" /\ p[1] # "dropped locals"
  BY DEF CompilerArrays, StateArrays, Itself, Lost, StateHas, Blocks
<1>3. CASE p \in Blocks(names)
  <2>1. p[1] \in names  BY <1>3, BlockName, Zenon
  <2> QED  BY <1>1, <2>1, Zenon
<1>4. CASE \E i : p = <<"entries", i>> \/ p = <<"bytes", i>>
  <2>1. PICK i : p = <<"entries", i>> \/ p = <<"bytes", i>>  BY <1>4
  <2>2. p[1] \in {"entries", "bytes"}  BY <2>1
  <2>3. "body" \notin {"entries", "bytes"} /\ "dropped locals" \notin {"entries", "bytes"}
    OBVIOUS
  <2> QED  BY <2>2, <2>3, Zenon
<1> QED  BY <1>2, <1>3, <1>4, Zenon

LEMMA CompileInv ==
  ASSUME Inv, Compile
  PROVE  Inv'
<1>1. /\ phase = "new" /\ phase' = "reading" /\ heap = Itself /\ section = 0
      /\ heap' = heap \cup CompilerArrays \cup StateArrays
      /\ section' = section /\ m' = m /\ rc' = rc /\ entries' = entries /\ says' = says
      /\ fault' = fault
  BY Zenon DEF Inv, Allocated, Compile
<1>2. Onward /\ SameFunctions /\ 0 < Function /\ 0 < Element /\ section # Code /\ section # Global
  BY <1>1, Sections DEF Onward, SameFunctions
<1>3. ~HasEntries /\ ~HasEntries' /\ HasCompiler' /\ HasState'
  BY <1>1 DEF HasEntries, HasCompiler, HasState, Itself, Blocks, CompilerArrays, StateArrays
<1>4. Typed'  BY <1>1, Zenon DEF Inv, Typed, Items, TableSet, OwnTables, Modules, Contexts, Descriptions
<1>5. Declared'  BY <1>1, <1>2, DeclaredKept, Zenon DEF Inv
<1>6. CodeInOrder'
  <2>1. Own = 0 /\ Own' = Own  BY <1>1, <1>2, Zenon DEF Inv, Declared, Own
  <2>2. \A p \in heap' : p[1] # "body" /\ p[1] # "dropped locals"  BY <1>1, NoBodies, Zenon
  <2>3. 0 \in 0..Own' /\ 1..Own' = {} /\ 1..0 = {}  BY <2>1
  <2>4. Coded(0)'  BY <2>2, <2>3, Zenon DEF Coded
  <2> QED  BY <2>3, <2>4, Zenon DEF CodeInOrder
<1>7. GlobalsKnown'  BY <1>1, <1>2, GlobalsKept, Zenon DEF Inv
<1>8. ExportsKnown'  BY <1>1, ExportsEarly, Sections DEF Inv
<1>9. TablesKnown'  BY <1>1, <1>2, TablesKept, Zenon DEF Inv
<1>10. EntriesKnown'
  <2>1. phase # "loaded" /\ phase' # "loaded"  BY <1>1
  <2> QED  BY <1>1, <1>2, <1>3, <2>1, Zenon DEF Inv, EntriesKnown
<1>11. Allocated'
  <2>1. rc.own_tables = 0 /\ rc.own_memories = 0
    BY <1>1, Sections DEF Inv, TablesKnown
  <2>2. Needed' = StateArrays
    BY <1>1, <2>1 DEF Needed, StateArrays, Blocks
  <2>3. StateArrays \subseteq StateHas'
    BY Zenon DEF StateHas, StateArrays, Blocks
  <2>4. phase' # "new" /\ phase' # "refused"  BY <1>1
  <2> QED  BY <1>1, <1>3, <2>2, <2>3, <2>4, Zenon DEF Allocated, CompilerArrays, StateArrays, Itself, Lost, Blocks
<1> QED  BY <1>4, <1>5, <1>6, <1>7, <1>8, <1>9, <1>10, <1>11, Zenon DEF Inv

(* A section that is begun, or refused, and changes nothing else.          *)
LEMMA BegunInv ==
  ASSUME Inv, NEW s \in 1..Data, Reads(s), ~HasEntries, s # Code, s # GlobalsEnd,
         phase' \in {"reading", "refused"},
         heap' = heap \/ heap' = heap \cup Lost,
         m' = m, rc' = rc, entries' = entries, says' = says, fault' = fault
  PROVE  Inv'
<1>1. /\ Typed /\ Onward /\ phase = "reading" /\ section' = s /\ section <= s /\ s \in Nat
      /\ HasCompiler /\ HasState /\ (section = Global => s = Global)
  BY Reading, Zenon
<1>2. SameFunctions  BY DEF SameFunctions
<1>3. \A p : p \in heap' => p \in heap \/ p \in Lost  BY Zenon
<1>4. \A p : p \in heap => p \in heap'  BY Zenon
<1>5. <<"funcentries">> \notin Lost
  BY DEF Lost, Blocks
<1>6. ~HasEntries'  BY <1>3, <1>5, Zenon DEF HasEntries
<1>7. HasCompiler' /\ HasState'  BY <1>1, <1>4, Zenon DEF HasCompiler, HasState
<1>8. phase # "loaded" /\ phase' # "loaded" /\ phase' # "new" /\ phase # "new"  BY <1>1
<1>9. Typed'
  <2>1. phase' \in {"new", "reading", "loaded", "refused"} /\ section' \in 0..Data
    BY <1>1, Sections
  <2> QED  BY <1>1, <1>2, <2>1, Zenon DEF Typed, Items, TableSet, OwnTables, Modules, Contexts, Descriptions
<1>10. Declared'  BY <1>1, <1>2, DeclaredKept, Zenon DEF Inv
<1>11. CodeInOrder'
  <2>1. \A p : p[1] = "body" \/ p[1] = "dropped locals" => (p \in heap <=> p \in heap')
    BY <1>3, <1>4, NoBodies, Zenon
  <2> QED  BY <1>1, <1>2, <1>8, <2>1, CodeKept, Zenon DEF Inv
<1>12. GlobalsKnown'
  <2>1. (section = Global <=> section' = Global) \/ section < Global
    BY <1>1, Sections DEF Onward
  <2>2. section < Global => rc.own_globals = <<>>  BY Zenon DEF Inv, GlobalsKnown
  <2> QED  BY <1>1, <1>2, <2>1, <2>2, GlobalsKept, Zenon DEF Inv
<1>13. \A i : PointerTo(i)' = PointerTo(i)  BY <1>2, <1>8, PointersKept, Zenon
<1>14. ExportsKnown'
  <2>1. \A i : Address(i)' = Address(i)  BY <1>2, AddressesKept, Zenon
  <2> QED  BY <1>1, <1>2, <1>13, <2>1, ExportsKept, Zenon DEF Inv
<1>15. TablesKnown'  BY <1>1, <1>2, <1>13, TablesKept, Zenon DEF Inv
<1>16. EntriesKnown'
  <2>1. section' < Start => section < Start  BY <1>1, Sections DEF Onward
  <2> QED  BY <1>1, <1>2, <1>6, <1>8, <2>1, Zenon DEF Inv, EntriesKnown
<1>17. Allocated'
  <2>5. Lost' = Lost /\ Itself' = Itself  BY DEF Lost, Itself, Blocks
  <2>1. Needed' = Needed /\ StateHas' = StateHas
    BY <1>2, Zenon DEF Needed, StateHas, StateArrays, Blocks
  <2>2. /\ \A p \in heap :
             \/ HasCompiler /\ p \in CompilerArrays \cup Itself
             \/ HasState /\ p \in StateHas
             \/ HasState /\ p[1] = "body"
             \/ p \in Lost \/ p[1] = "dropped locals"
        /\ CompilerArrays \subseteq heap /\ Needed \subseteq heap
    BY <1>1, <1>8, Zenon DEF Inv, Allocated
  <2>3. CompilerArrays' = CompilerArrays  BY DEF CompilerArrays, Blocks
  <2>4. /\ \A p \in heap' :
             \/ HasCompiler' /\ p \in CompilerArrays \cup Itself
             \/ HasState' /\ p \in StateHas
             \/ HasState' /\ p[1] = "body"
             \/ p \in Lost \/ p[1] = "dropped locals"
        /\ CompilerArrays \subseteq heap' /\ Needed \subseteq heap'
    BY <1>3, <1>4, <1>7, <2>2, Zenon
  <2> QED  BY <1>7, <1>8, <2>1, <2>3, <2>4, <2>5, Zenon DEF Allocated
<1> QED  BY <1>9, <1>10, <1>11, <1>12, <1>14, <1>15, <1>16, <1>17, Zenon DEF Inv

LEMMA RefuseInv ==
  ASSUME Inv, Plain, NEW s \in {Import, Global, Export, Element, Code, Data}, Refuse(s)
  PROVE  Inv'
<1>1. s \in 1..Data /\ s # GlobalsEnd  BY Sections
<1>2. Reads(s) /\ phase' = "refused" /\ UNCHANGED <<m, rc, entries, says, fault>>  BY DEF Refuse
<1>3. phase = "reading"  BY <1>1, <1>2, Reading, Zenon
<1>4. ~HasEntries  BY Zenon DEF Refuse, HasEntries, Plain
<1>5. s # Code
  <2>1. phase # "loaded"  BY <1>3
  <2> QED  BY <1>4, <2>1, CodeHasEntries, Zenon DEF Refuse
<1>6. heap' = heap  BY <1>5, Zenon DEF Refuse
<1> QED  BY <1>1, <1>2, <1>4, <1>5, <1>6, BegunInv, Zenon

LEMMA TypeSectionInv ==
  ASSUME Inv, NEW accepted \in BOOLEAN, TypeSection(accepted)
  PROVE  Inv'
<1>1. Type \in 1..Data /\ Type # Code /\ Type # GlobalsEnd /\ Type < Code  BY Sections
<1>2. Reads(Type) /\ UNCHANGED <<m, rc, entries, says, fault>> /\ section < Type
      /\ heap' = heap \cup Lost
  BY Zenon DEF TypeSection, Lost
<1>3. phase = "reading" /\ Typed  BY <1>1, <1>2, Reading, Zenon
<1>4. phase' \in {"reading", "refused"}  BY <1>3, Zenon DEF TypeSection
<1>5. ~HasEntries  BY <1>2, <1>3, NoEntriesYet, Sections DEF Typed
<1> QED  BY <1>1, <1>2, <1>4, <1>5, BegunInv, Zenon

LEMMA BeginGlobalsInv ==
  ASSUME Inv, BeginGlobals
  PROVE  Inv'
<1>1. Global \in 1..Data /\ Global # Code /\ Global # GlobalsEnd  BY Sections
<1>2. Reads(Global) /\ UNCHANGED <<m, rc, entries, says, fault>> /\ section < Global
      /\ heap' = heap /\ phase' = phase
  BY DEF BeginGlobals, Begins
<1>3. phase = "reading" /\ Typed  BY <1>1, <1>2, Reading, Zenon
<1>4. ~HasEntries  BY <1>2, <1>3, NoEntriesYet, Sections DEF Typed
<1> QED  BY <1>1, <1>2, <1>3, <1>4, BegunInv, Zenon

-----------------------------------------------------------------------------
(* Imports, and the sections that come before the globals.                 *)

LEMMA Early ==
  ASSUME Inv, NEW s \in 1..Memory, Reads(s)
  PROVE  /\ section < Global /\ section < Export /\ section < Element /\ section < Start
         /\ section # Global /\ section' # Global /\ section' # Code
         /\ ~HasEntries /\ rc.own_globals = <<>> /\ phase = "reading"
         /\ s \in 1..Data /\ Onward /\ section <= s /\ section' = s /\ section \in Nat
<1>1. s \in 1..Data  BY Sections
<1>2. Onward /\ section' = s /\ section <= s /\ phase = "reading" /\ section \in Nat
  BY <1>1, Reading DEF Onward
<1>3. section < Code /\ section < Global  BY <1>1, <1>2, Sections
<1>4. rc.own_globals = <<>>  BY <1>3, Zenon DEF Inv, GlobalsKnown
<1>5. ~HasEntries  BY <1>2, <1>3, NoEntriesYet, Zenon
<1> QED  BY <1>1, <1>2, <1>3, <1>4, <1>5, Sections

LEMMA EarlyKept ==
  ASSUME Inv, NEW s \in 1..Memory, Reads(s), phase' = phase, ~HasEntries',
         rc'.exports = rc.exports, says'.exports = says.exports, rc'.start = rc.start,
         rc'.funcentries = rc.funcentries, rc'.import_funcentries = rc.import_funcentries,
         DOMAIN m.functions \subseteq DOMAIN m'.functions
  PROVE  ExportsKnown' /\ EntriesKnown'
<1>1. ExportsKnown'  BY Early, ExportsEarly, Zenon DEF Inv
<1>2. section # Code  BY Early, Sections
<1>3. EntriesKnown'  BY <1>2, Early, EntriesKept, Zenon DEF Inv
<1> QED  BY <1>1, <1>3

(* An import adds to one table only.                                       *)
LEMMA Importings ==
  ASSUME Inv, Importing
  PROVE  /\ Reads(Import) /\ Import \in 1..Memory /\ Items + 1 <= MaxItems /\ Items \in Nat
         /\ phase' = phase /\ entries' = entries /\ heap' = heap /\ fault' = fault
         /\ ~HasEntries' /\ phase = "reading" /\ section < Function /\ section' < Function
         /\ section' \in 0..Data
<1>1. /\ Reads(Import) /\ Import \in 1..Memory /\ Items < MaxItems
      /\ phase' = phase /\ entries' = entries /\ heap' = heap /\ fault' = fault
  BY Sections DEF Importing
<1>2. ~HasEntries /\ phase = "reading" /\ section < Function /\ section' < Function
      /\ section' \in 0..Data
  BY <1>1, Early, Sections
<1>3. Items \in Nat /\ MaxItems \in Nat  BY Bounded, Zenon DEF Inv
<1>4. Items + 1 <= MaxItems  BY <1>1, <1>3
<1> QED  BY <1>1, <1>2, <1>3, <1>4, Zenon DEF HasEntries

(* As long as there are no functions of its own, there is no code.         *)
LEMMA NoneCoded ==
  ASSUME Inv, Own = 0, phase' # "loaded", heap' = heap, HasState,
         \A b \in 1..Own' : m'.functions[m'.import_count + b] = NULL, Own' \in Nat
  PROVE  CodeInOrder'
<1>1. Coded(0)
  <2>1. PICK k \in 0..Own : Coded(k)  BY DEF Inv, CodeInOrder
  <2> QED  BY <2>1
<1>2. 0 \in 0..Own' /\ \A b \in 1..Own' : ~(b <= 0)  OBVIOUS
<1>3. Coded(0)'
  BY <1>1, <1>2, Zenon DEF Coded, HasState
<1> QED  BY <1>2, <1>3, Zenon DEF CodeInOrder

LEMMA Appended ==
  ASSUME NEW S, NEW q \in Seq(S), NEW e \in S
  PROVE  /\ Append(q, e) \in Seq(S) /\ Len(Append(q, e)) = Len(q) + 1
         /\ DOMAIN Append(q, e) = 1..(Len(q) + 1)
         /\ \A i \in 1..Len(q) : Append(q, e)[i] = q[i]
         /\ Append(q, e)[Len(q) + 1] = e
OBVIOUS

LEMMA TypedNext ==
  ASSUME phase' \in {"new", "reading", "loaded", "refused"}, section' \in 0..Data,
         m' \in Modules, rc' \in Contexts, says' \in Descriptions,
         entries' \in [TableSet -> [1..TableSize -> Pointers]],
         fault' = "none", Items' <= MaxItems
  PROVE  Typed'
<1>1. TableSet' = TableSet /\ Descriptions' = Descriptions /\ Contexts' = Contexts
      /\ Modules' = Modules /\ Pointers' = Pointers
  BY DEF TableSet, Descriptions, Contexts, Modules, OwnTables, Pointers
<1> QED  BY <1>1, Zenon DEF Typed

(* One of the five tables is n longer.                                     *)
LEMMA Longer ==
  ASSUME Typed, NEW n \in Nat,
         LET f == Len(m.functions)  t == Len(rc.tables)  x == Len(rc.memories)
             g == Len(m.globals)  e == Len(rc.exports)
         IN  <<Len(m'.functions), Len(rc'.tables), Len(rc'.memories), Len(m'.globals),
               Len(rc'.exports)>>
             \in {<<f + n, t, x, g, e>>, <<f, t + n, x, g, e>>, <<f, t, x + n, g, e>>,
                  <<f, t, x, g + n, e>>, <<f, t, x, g, e + n>>}
  PROVE  Items' = Items + n
<1> DEFINE f == Len(m.functions)  t == Len(rc.tables)  x == Len(rc.memories)
           g == Len(m.globals)  e == Len(rc.exports)
           f2 == Len(m'.functions)  t2 == Len(rc'.tables)  x2 == Len(rc'.memories)
           g2 == Len(m'.globals)  e2 == Len(rc'.exports)
<1>1. f \in Nat /\ t \in Nat /\ x \in Nat /\ g \in Nat /\ e \in Nat  BY Lengths, Zenon
<1>2. Items = f + t + x + g + e /\ Items' = f2 + t2 + x2 + g2 + e2  BY DEF Items
<1>3. <<f2, t2, x2, g2, e2>> \in {<<f + n, t, x, g, e>>, <<f, t + n, x, g, e>>, <<f, t, x + n, g, e>>,
                                 <<f, t, x, g + n, e>>, <<f, t, x, g, e + n>>}
  BY Zenon
<1> HIDE DEF f, t, x, g, e, f2, t2, x2, g2, e2
<1>4. \/ f2 = f + n /\ t2 = t /\ x2 = x /\ g2 = g /\ e2 = e
      \/ f2 = f /\ t2 = t + n /\ x2 = x /\ g2 = g /\ e2 = e
      \/ f2 = f /\ t2 = t /\ x2 = x + n /\ g2 = g /\ e2 = e
      \/ f2 = f /\ t2 = t /\ x2 = x /\ g2 = g + n /\ e2 = e
      \/ f2 = f /\ t2 = t /\ x2 = x /\ g2 = g /\ e2 = e + n
  BY <1>3
<1> QED  BY <1>1, <1>2, <1>4

LEMMA ImportFunctionInv ==
  ASSUME Inv, NEW h \in HostFunctions, ImportFunction(h)
  PROVE  Inv'
<1>0. Importing  BY DEF ImportFunction
<1>1. /\ rc' = rc /\ phase' = phase /\ entries' = entries /\ heap' = heap /\ fault' = fault
      /\ m' = [m EXCEPT !.functions = Append(@, Host(h)), !.import_count = @ + 1]
      /\ says' = [says EXCEPT !.functions = Append(@, Host(h))]
  BY Zenon DEF ImportFunction, Importing
<1>2. Typed /\ Declared  BY DEF Inv
<1>3. /\ m'.functions = Append(m.functions, Host(h)) /\ m'.import_count = m.import_count + 1
      /\ m'.globals = m.globals /\ says'.functions = Append(says.functions, Host(h))
      /\ says'.globals = says.globals /\ says'.values = says.values /\ says'.exports = says.exports
      /\ says'.elements = says.elements
  BY <1>1, <1>2 DEF Typed, Modules, Descriptions
<1>4. Host(h) \in Pointers  BY PointerTypes
<1> DEFINE n == Len(m.functions)
<1>5. /\ m'.functions \in Seq(Pointers) /\ Len(m'.functions) = n + 1
      /\ DOMAIN m'.functions = 1..(n + 1)
      /\ \A i \in 1..n : m'.functions[i] = m.functions[i]
      /\ m'.functions[n + 1] = Host(h)
  <2>1. m.functions \in Seq(Pointers)  BY <1>2, Fields, Zenon
  <2> QED  BY <1>3, <1>4, <2>1, Appended
<1>6. /\ says'.functions \in Seq(Pointers) /\ Len(says'.functions) = n + 1
      /\ \A i \in 1..n : says'.functions[i] = says.functions[i]
      /\ says'.functions[n + 1] = Host(h)
  <2>1. Len(says.functions) = n  BY <1>2, Zenon DEF Declared
  <2>2. says.functions \in Seq(Pointers)  BY <1>2, Fields, Zenon
  <2> QED  BY <1>3, <1>4, <2>1, <2>2, Appended
<1>7. m.import_count = n /\ Own = 0 /\ n \in Nat
  <2>1. n \in Nat /\ m.import_count \in Nat  BY <1>2, Fields, Lengths, Zenon
  <2>2. Own = 0  BY <1>0, <1>2, Importings, Zenon DEF Declared
  <2> QED  BY <2>1, <2>2 DEF Own
<1>8. Own' = 0
  BY <1>3, <1>5, <1>7 DEF Own
<1>9. Typed'
  <2>1. m' \in Modules
    <3>0. m \in Modules  BY <1>2, Zenon DEF Typed
    <3>1. m.import_count + 1 \in Nat  BY <1>7
    <3>2. Append(m.functions, Host(h)) \in Seq(Pointers)  BY <1>3, <1>5, Zenon
    <3> QED  BY <1>1, <3>0, <3>1, <3>2 DEF Modules
  <2>2. says' \in Descriptions
    BY <1>1, <1>2, <1>6 DEF Typed, Descriptions
  <2>3. Items' = Items + 1
    BY <1>1, <1>2, <1>3, <1>5, Longer
  <2>4. section' \in 0..Data /\ Items + 1 <= MaxItems
    BY <1>0, Importings, Zenon
  <2> QED  BY <1>1, <1>2, <2>1, <2>2, <2>3, <2>4, TypedNext, Zenon DEF Typed
<1>10. Declared'
  <2>1. 1..m'.import_count = 1..(n + 1)  BY <1>3, <1>7, Zenon
  <2>2. \A i \in 1..(n + 1) : i \in 1..n \/ i = n + 1  BY <1>7
  <2>3. ASSUME NEW i \in 1..(n + 1)
        PROVE  says'.functions[i] = m'.functions[i] /\ \E x \in HostFunctions : m'.functions[i] = Host(x)
    <3>1. CASE i \in 1..n
      BY <1>2, <1>5, <1>6, <1>7, <3>1, Zenon DEF Declared
    <3>2. CASE i = n + 1  BY <1>5, <1>6, <3>2, Zenon
    <3> QED  BY <2>2, <3>1, <3>2
  <2>4. 1..Own' = {} /\ Own' <= MaxOwn  BY <1>8, LoaderAssumption
  <2>5. m'.import_count <= Len(m'.functions) /\ Len(m'.functions) = Len(says'.functions)
    BY <1>3, <1>5, <1>6, <1>7
  <2> QED  BY <1>8, <2>1, <2>3, <2>4, <2>5, Zenon DEF Declared
<1>11. CodeInOrder'
  <2>1. phase' # "loaded" /\ HasState /\ heap' = heap
    BY <1>0, Importings, Zenon DEF Inv, Allocated
  <2>2. Own' \in Nat /\ 1..Own' = {}  BY <1>8
  <2> QED  BY <1>7, <2>1, <2>2, NoneCoded, Zenon
<1>12. GlobalsKnown'
  BY <1>0, <1>1, <1>2, <1>3, Importings, Early, GlobalsKept, Zenon DEF Inv
<1>13. DOMAIN m.functions \subseteq DOMAIN m'.functions
  BY <1>2, <1>5, <1>7, Lengths, SMTT(40)
<1>14. ExportsKnown' /\ EntriesKnown'
  BY <1>0, <1>1, <1>3, <1>13, Importings, EarlyKept, Zenon
<1>15. TablesKnown'
  BY <1>0, <1>1, <1>3, Importings, Early, TablesKept, Zenon DEF Inv
<1>16. Allocated'
  BY <1>0, <1>1, Importings, AllocatedKept, Zenon DEF Inv
<1> QED  BY <1>9, <1>10, <1>11, <1>12, <1>14, <1>15, <1>16, Zenon DEF Inv

LEMMA TablesEarly ==
  ASSUME TablesKnown, section < Element, Onward, entries' = entries, says'.elements = says.elements,
         rc'.own_tables <= MaxOwn, rc'.own_tables <= Len(rc'.tables),
         rc'.own_memories <= Len(rc'.memories),
         section' < Table => rc'.own_tables = 0, section' < Memory => rc'.own_memories = 0,
         \A n \in DOMAIN rc'.tables : rc'.tables[n] \in HostTables \cup (1..rc'.own_tables)
  PROVE  TablesKnown'
<1>1. ~(section >= Element)  BY Sections DEF Onward
<1>2. TableSet' = TableSet  BY DEF TableSet, OwnTables
<1>3. ASSUME NEW t \in TableSet, NEW k \in 1..TableSize
      PROVE  says'.elements[t][k] = 0 /\ entries'[t][k] = NULL
  BY <1>1, Zenon DEF TablesKnown
<1> QED  BY <1>2, <1>3, Zenon DEF TablesKnown

(* Nothing changes but an array of tables or memories.                     *)
LEMMA ArraysInv ==
  ASSUME Inv, Importing, m' = m, says' = says, rc' \in Contexts, Items' = Items + 1,
         rc'.own_tables = rc.own_tables, rc'.own_memories = rc.own_memories,
         rc'.own_globals = rc.own_globals, rc'.exports = rc.exports, rc'.start = rc.start,
         rc'.funcentries = rc.funcentries, rc'.import_funcentries = rc.import_funcentries,
         rc.own_tables <= Len(rc'.tables), rc.own_memories <= Len(rc'.memories),
         \A n \in DOMAIN rc'.tables : rc'.tables[n] \in HostTables \cup (1..rc.own_tables)
  PROVE  Inv'
<1>1. /\ Reads(Import) /\ Import \in 1..Memory /\ Items + 1 <= MaxItems
      /\ phase' = phase /\ entries' = entries /\ heap' = heap /\ fault' = fault
      /\ ~HasEntries' /\ phase = "reading" /\ section' \in 0..Data
  BY Importings, Zenon
<1>2. Onward /\ section < Element /\ section # Global /\ section' # Global /\ ~HasEntries
      /\ section' = Import
  BY <1>1, Early, Zenon
<1>3. SameFunctions  BY DEF SameFunctions
<1>4. Typed'  BY <1>1, TypedNext, Zenon DEF Inv, Typed
<1>5. Declared'  BY <1>2, <1>3, DeclaredKept, Zenon DEF Inv
<1>6. CodeInOrder'  BY <1>1, <1>2, <1>3, CodeKept, Zenon DEF Inv, HasState
<1>7. GlobalsKnown'  BY <1>2, GlobalsKept, Zenon DEF Inv
<1>8. ExportsKnown' /\ EntriesKnown'  BY <1>1, EarlyKept, Zenon
<1>9. TablesKnown'
  <2>1. rc.own_tables = 0 /\ rc.own_memories = 0 /\ rc.own_tables <= MaxOwn
    BY <1>2, Sections DEF Inv, TablesKnown, Onward
  <2> QED  BY <1>1, <1>2, <2>1, TablesEarly, Zenon DEF Inv
<1>10. Allocated'  BY <1>1, AllocatedKept, Zenon DEF Inv
<1> QED  BY <1>4, <1>5, <1>6, <1>7, <1>8, <1>9, <1>10, Zenon DEF Inv

LEMMA ImportTableInv ==
  ASSUME Inv, NEW t \in HostTables, ImportTable(t)
  PROVE  Inv'
<1>1. Importing /\ m' = m /\ says' = says /\ rc' = [rc EXCEPT !.tables = Append(rc.tables, t)]
  BY Zenon DEF ImportTable
<1>2. Typed /\ rc \in Contexts /\ TablesKnown  BY Zenon DEF Inv, Typed
<1>3. rc.tables \in Seq(HostTables \cup OwnTables) /\ t \in HostTables \cup OwnTables
  BY <1>2, Fields, Zenon
<1> DEFINE q == Append(rc.tables, t)
           n == Len(rc.tables)
<1>4. /\ q \in Seq(HostTables \cup OwnTables) /\ Len(q) = n + 1 /\ DOMAIN q = 1..(n + 1)
      /\ \A i \in 1..n : q[i] = rc.tables[i]
      /\ q[n + 1] = t
  BY <1>3, Appended
<1>5. n \in Nat /\ DOMAIN rc.tables = 1..n /\ rc.own_tables \in Nat /\ rc.own_tables <= n
  BY <1>2, Lengths, Fields, Zenon DEF TablesKnown
<1> HIDE DEF q, n
<1>6. rc' = [rc EXCEPT !.tables = q]  BY <1>1 DEF q
<1>7. /\ rc' \in Contexts /\ rc'.tables = q
      /\ rc'.own_tables = rc.own_tables /\ rc'.own_memories = rc.own_memories
      /\ rc'.own_globals = rc.own_globals /\ rc'.exports = rc.exports /\ rc'.start = rc.start
      /\ rc'.funcentries = rc.funcentries /\ rc'.import_funcentries = rc.import_funcentries
      /\ rc'.memories = rc.memories
  BY <1>2, <1>4, <1>6 DEF Contexts
<1>8. \A i \in DOMAIN rc'.tables : rc'.tables[i] \in HostTables \cup (1..rc.own_tables)
  <2>1. \A i \in 1..(n + 1) : i \in 1..n \/ i = n + 1  BY <1>5
  <2> QED  BY <1>2, <1>4, <1>5, <1>7, <2>1, Zenon DEF TablesKnown
<1>9. Items' = Items + 1
  BY <1>1, <1>2, <1>4, <1>7, Longer DEF n
<1>10. rc.own_tables <= Len(rc'.tables)  BY <1>4, <1>5, <1>7
<1>11. rc.own_memories <= Len(rc'.memories)  BY <1>2, <1>7, Zenon DEF TablesKnown
<1> QED  BY <1>1, <1>7, <1>8, <1>9, <1>10, <1>11, ArraysInv, Zenon

LEMMA ImportMemoryInv ==
  ASSUME Inv, NEW x \in HostMemories, ImportMemory(x)
  PROVE  Inv'
<1>1. Importing /\ m' = m /\ says' = says /\ rc' = [rc EXCEPT !.memories = Append(rc.memories, x)]
  BY Zenon DEF ImportMemory
<1>2. Typed /\ rc \in Contexts /\ TablesKnown  BY Zenon DEF Inv, Typed
<1>3. rc.memories \in Seq(HostMemories \cup Nat) /\ x \in HostMemories \cup Nat
  BY <1>2, Fields, Zenon
<1> DEFINE q == Append(rc.memories, x)
           n == Len(rc.memories)
<1>4. q \in Seq(HostMemories \cup Nat) /\ Len(q) = n + 1
  BY <1>3, Appended
<1>5. n \in Nat /\ rc.own_memories \in Nat /\ rc.own_memories <= n /\ rc.own_tables <= Len(rc.tables)
  BY <1>2, Lengths, Fields, Zenon DEF TablesKnown
<1> HIDE DEF q, n
<1>6. rc' = [rc EXCEPT !.memories = q]  BY <1>1 DEF q
<1>7. /\ rc' \in Contexts /\ rc'.memories = q
      /\ rc'.own_tables = rc.own_tables /\ rc'.own_memories = rc.own_memories
      /\ rc'.own_globals = rc.own_globals /\ rc'.exports = rc.exports /\ rc'.start = rc.start
      /\ rc'.funcentries = rc.funcentries /\ rc'.import_funcentries = rc.import_funcentries
      /\ rc'.tables = rc.tables
  BY <1>2, <1>4, <1>6 DEF Contexts
<1>8. \A i \in DOMAIN rc'.tables : rc'.tables[i] \in HostTables \cup (1..rc.own_tables)
  BY <1>2, <1>7, Zenon DEF TablesKnown
<1>9. Items' = Items + 1
  BY <1>1, <1>2, <1>4, <1>7, Longer DEF n
<1>10. rc.own_memories <= Len(rc'.memories)  BY <1>4, <1>5, <1>7
<1> QED  BY <1>1, <1>5, <1>7, <1>8, <1>9, <1>10, ArraysInv, Zenon

LEMMA ImportGlobalInv ==
  ASSUME Inv, Plain, NEW g \in HostGlobals, NEW how \in {"variable", "reference", "number"},
         ImportGlobal(g, how)
  PROVE  Inv'
<1>1. how \in {"variable", "reference"}  BY Zenon DEF ImportGlobal, Plain
<1>2. how # "number"  BY <1>1
<1> DEFINE w == Described(FALSE, Host(g))
           src == <<how, g>>
           q == Append(m.globals, w)
           r == Append(says.globals, src)
           n == Len(m.globals)
<1>3. Importing /\ rc' = rc /\ m' = [m EXCEPT !.globals = q] /\ says' = [says EXCEPT !.globals = r]
  BY <1>2, Zenon DEF ImportGlobal
<1>4. Typed /\ m \in Modules /\ says \in Descriptions /\ GlobalsKnown  BY Zenon DEF Inv, Typed
<1>5. w \in Addressed
  BY DEF Described, Addressed, Words, Addresses
<1>6. src \in Sources  BY <1>1 DEF Sources
<1>7. q \in Seq(Addressed) /\ Len(q) = n + 1 /\ DOMAIN q = 1..(n + 1)
      /\ (\A i \in 1..n : q[i] = m.globals[i]) /\ q[n + 1] = w
  <2>1. m.globals \in Seq(Addressed)  BY <1>4, Fields, Zenon
  <2> HIDE DEF w
  <2> QED  BY <1>5, <2>1, Appended
<1>8. r \in Seq(Sources) /\ Len(r) = n + 1
      /\ (\A i \in 1..n : r[i] = says.globals[i]) /\ r[n + 1] = src
  <2>1. says.globals \in Seq(Sources)  BY <1>4, Fields, Zenon
  <2>2. Len(says.globals) = n  BY <1>4, Zenon DEF GlobalsKnown
  <2> HIDE DEF src
  <2> QED  BY <1>6, <2>1, <2>2, Appended
<1>9. n \in Nat /\ DOMAIN m.globals = 1..n  BY <1>4, Lengths, Zenon
<1> HIDE DEF q, r, n
<1>10. /\ m' \in Modules /\ m'.functions = m.functions /\ m'.import_count = m.import_count
       /\ m'.globals = q /\ SameFunctions
  BY <1>3, <1>4, <1>7 DEF Modules, SameFunctions
<1>11. /\ says' \in Descriptions /\ says'.globals = r /\ says'.functions = says.functions
       /\ says'.values = says.values /\ says'.exports = says.exports
       /\ says'.elements = says.elements
  BY <1>3, <1>4, <1>8 DEF Descriptions
<1>12. /\ Reads(Import) /\ Import \in 1..Memory /\ Items + 1 <= MaxItems
       /\ phase' = phase /\ entries' = entries /\ heap' = heap /\ fault' = fault
       /\ ~HasEntries' /\ phase = "reading" /\ section' \in 0..Data
  BY <1>3, Importings, Zenon
<1>13. Onward /\ section < Element /\ section # Global /\ section' # Global /\ ~HasEntries
      /\ section' = Import /\ section < Global
  BY <1>12, Early, Zenon
<1>14. Typed'
  <2>1. Items' = Items + 1  BY <1>3, <1>4, <1>7, <1>10, Longer DEF n
  <2> QED  BY <1>3, <1>10, <1>11, <1>12, <2>1, TypedNext, Zenon DEF Inv, Typed
<1>15. Declared'  BY <1>10, <1>11, <1>13, DeclaredKept, Zenon DEF Inv
<1>16. CodeInOrder'  BY <1>10, <1>12, <1>13, CodeKept, Zenon DEF Inv, HasState
<1>17. GlobalsKnown'
  <2>1. \A i \in 1..(n + 1) : i \in 1..n \/ i = n + 1  BY <1>9
  <2>2. ASSUME NEW i \in 1..n  PROVE AddressIn(i)'
    <3>1. AddressIn(i)  BY <1>4, <1>9, Zenon DEF GlobalsKnown
    <3>2. m'.globals[i] = m.globals[i] /\ says'.globals[i] = says.globals[i]
      BY <1>7, <1>8, <1>10, <1>11, Zenon
    <3>3. rc' = rc /\ section # Global /\ section' # Global  BY <1>3, <1>13, Zenon
    <3> QED  BY <3>1, <3>2, <3>3, Zenon DEF AddressIn
  <2>3. ASSUME NEW i, i = n + 1  PROVE AddressIn(i)'
    <3>1. r[i][1] \in {"variable", "reference"} /\ r[i][2] = g
      BY <1>1, <1>8, <2>3
    <3>2. q[i] = Described(FALSE, Host(g))  BY <1>7, <2>3, Zenon
    <3>3. r[i][2] \in HostGlobals  BY <3>1, Zenon
    <3>4. q[i] = Described(FALSE, Host(r[i][2]))  BY <3>1, <3>2, Zenon
    <3> QED  BY <1>10, <1>11, <3>1, <3>3, <3>4, Zenon DEF AddressIn, Described, Host
  <2>4. DOMAIN m'.globals = 1..(n + 1)  BY <1>7, <1>10, Zenon
  <2>5. \A i \in DOMAIN m'.globals : AddressIn(i)'  BY <2>1, <2>2, <2>3, <2>4, Zenon
  <2>6. Len(m'.globals) = Len(says'.globals)  BY <1>7, <1>8, <1>10, <1>11, Zenon
  <2>7. ~(section' < Global) \/ rc'.own_globals = <<>>
    BY <1>3, <1>4, <1>13, Zenon DEF GlobalsKnown
  <2> QED  BY <1>3, <1>4, <1>11, <2>5, <2>6, <2>7, Zenon DEF GlobalsKnown
<1>18. ExportsKnown' /\ EntriesKnown'  BY <1>3, <1>10, <1>11, <1>12, EarlyKept, Zenon
<1>19. TablesKnown'  BY <1>3, <1>11, <1>12, <1>13, TablesKept, Zenon DEF Inv
<1>20. Allocated'  BY <1>3, <1>12, AllocatedKept, Zenon DEF Inv
<1> QED  BY <1>14, <1>15, <1>16, <1>17, <1>18, <1>19, <1>20, Zenon DEF Inv

(* Sections that allocate.                                                 *)
LEMMA AllocatedMore ==
  ASSUME Allocated, phase = "reading", phase' = "reading", NEW extra, heap' = heap \cup extra,
         \A p \in extra : p \in StateHas' \/ p[1] = "body" \/ p[1] = "dropped locals",
         StateHas \subseteq StateHas', Needed' \subseteq Needed \cup extra
  PROVE  Allocated'
<1>1. CompilerArrays' = CompilerArrays /\ Itself' = Itself /\ Lost' = Lost
  BY DEF CompilerArrays, Itself, Lost, Blocks
<1>2. phase # "new" /\ phase' # "new" /\ phase' # "refused"  OBVIOUS
<1>3. HasCompiler /\ HasState /\ HasCompiler' /\ HasState'
  BY Zenon DEF Allocated, HasCompiler, HasState
<1>4. /\ \A p \in heap :
            \/ HasCompiler /\ p \in CompilerArrays \cup Itself
            \/ HasState /\ p \in StateHas
            \/ HasState /\ p[1] = "body"
            \/ p \in Lost \/ p[1] = "dropped locals"
      /\ CompilerArrays \subseteq heap /\ Needed \subseteq heap
  BY <1>2, <1>3, Zenon DEF Allocated
<1>5. \A p \in heap' : p \in heap \/ p \in extra  BY Zenon
<1>6. \A p \in heap' :
            \/ HasCompiler' /\ p \in CompilerArrays \cup Itself
            \/ HasState' /\ p \in StateHas'
            \/ HasState' /\ p[1] = "body"
            \/ p \in Lost \/ p[1] = "dropped locals"
  BY <1>3, <1>4, <1>5, Zenon
<1>7. CompilerArrays \subseteq heap' /\ Needed' \subseteq heap'  BY <1>4, Zenon
<1> QED  BY <1>1, <1>2, <1>3, <1>6, <1>7, Zenon DEF Allocated

LEMMA Joined ==
  ASSUME NEW S, NEW q \in Seq(S), NEW r \in Seq(S)
  PROVE  /\ q \o r \in Seq(S) /\ Len(q \o r) = Len(q) + Len(r)
         /\ DOMAIN (q \o r) = 1..(Len(q) + Len(r))
         /\ \A i \in 1..Len(q) : (q \o r)[i] = q[i]
         /\ \A j \in 1..Len(r) : (q \o r)[Len(q) + j] = r[j]
         /\ \A i \in 1..(Len(q) + Len(r)) : i \in 1..Len(q) \/ i - Len(q) \in 1..Len(r)
OBVIOUS

(* A section of the module itself, before the globals.                     *)
LEMMA BeginsEarly ==
  ASSUME Inv, NEW s \in 1..Memory, Begins(s), NEW n \in 0..MaxOwn, Items + n <= MaxItems
  PROVE  /\ Reads(s) /\ phase' = phase /\ phase = "reading" /\ section < s /\ section' = s
         /\ Onward /\ section < Element /\ section < Global /\ section # Global /\ section' # Global
         /\ ~HasEntries /\ HasState /\ section' \in 0..Data /\ n \in Nat
<1>1. Reads(s) /\ phase' = phase /\ section < s  BY DEF Begins
<1>2. section' \in 0..Data /\ n \in Nat /\ HasState
  BY <1>1, Early, Reading, Sections, LoaderAssumption
<1> QED  BY <1>1, <1>2, Early, Zenon

LEMMA FunctionSectionInv ==
  ASSUME Inv, NEW n \in 0..MaxOwn, FunctionSection(n)
  PROVE  Inv'
<1> DEFINE none == [i \in 1..n |-> NULL]
           all == [i \in 1..n |-> Body(i)]
           q == m.functions \o none
           r == says.functions \o all
           c == Len(m.functions)
<1>1. /\ Begins(Function) /\ Items + n <= MaxItems /\ Function \in 1..Memory
      /\ rc' = rc /\ entries' = entries /\ heap' = heap /\ fault' = fault
      /\ m' = [m EXCEPT !.functions = q] /\ says' = [says EXCEPT !.functions = r]
  BY Sections DEF FunctionSection
<1>2. /\ Reads(Function) /\ phase' = phase /\ phase = "reading" /\ section < Function
      /\ section' = Function /\ Onward /\ section < Element /\ section # Global /\ section' # Global
      /\ ~HasEntries /\ HasState /\ section' \in 0..Data /\ n \in Nat
  BY <1>1, BeginsEarly, Zenon
<1>3. Typed /\ m \in Modules /\ says \in Descriptions /\ Declared  BY Zenon DEF Inv, Typed
<1>4. /\ none \in Seq(Pointers) /\ Len(none) = n /\ \A i \in 1..n : none[i] = NULL
  BY <1>2, PointerTypes
<1>5. /\ all \in Seq(Pointers) /\ Len(all) = n /\ \A i \in 1..n : all[i] = Body(i)
  <2>1. \A i \in 1..n : Body(i) \in Pointers  BY PointerTypes, LoaderAssumption
  <2> QED  BY <1>2, <2>1
<1>6. Len(says.functions) = c /\ c \in Nat /\ m.import_count = c /\ m.import_count \in Nat
      /\ DOMAIN m.functions = 1..c
  <2>1. Own = 0 /\ Len(says.functions) = c  BY <1>2, <1>3, Zenon DEF Declared
  <2>2. c \in Nat /\ m.import_count \in Nat /\ DOMAIN m.functions = 1..c
    BY <1>3, Lengths, Fields, Zenon
  <2> QED  BY <2>1, <2>2 DEF Own
<1> HIDE DEF none, all
<1>7. /\ q \in Seq(Pointers) /\ Len(q) = c + n /\ DOMAIN q = 1..(c + n)
      /\ \A i \in 1..c : q[i] = m.functions[i]
      /\ \A j \in 1..n : q[c + j] = NULL
  <2>1. m.functions \in Seq(Pointers)  BY <1>3, Fields, Zenon
  <2>2. /\ q \in Seq(Pointers) /\ Len(q) = Len(m.functions) + Len(none)
        /\ DOMAIN q = 1..(Len(m.functions) + Len(none))
        /\ \A i \in 1..Len(m.functions) : q[i] = m.functions[i]
        /\ \A j \in 1..Len(none) : q[Len(m.functions) + j] = none[j]
    <3>1. none \in Seq(Pointers)  BY <1>4, Zenon
    <3> QED  BY <2>1, <3>1, Joined
  <2> QED  BY <1>4, <2>2, Zenon
<1>8. /\ r \in Seq(Pointers) /\ Len(r) = c + n
      /\ \A i \in 1..c : r[i] = says.functions[i]
      /\ \A j \in 1..n : r[c + j] = Body(j)
  <2>1. says.functions \in Seq(Pointers)  BY <1>3, Fields, Zenon
  <2>2. /\ r \in Seq(Pointers) /\ Len(r) = Len(says.functions) + Len(all)
        /\ \A i \in 1..Len(says.functions) : r[i] = says.functions[i]
        /\ \A j \in 1..Len(all) : r[Len(says.functions) + j] = all[j]
    <3>1. all \in Seq(Pointers)  BY <1>5, Zenon
    <3> QED  BY <2>1, <3>1, Joined
  <2> QED  BY <1>5, <1>6, <2>2, Zenon
<1> HIDE DEF q, r
<1>9. /\ m' \in Modules /\ m'.functions = q /\ m'.import_count = m.import_count
      /\ m'.globals = m.globals
  BY <1>1, <1>3, <1>7 DEF Modules
<1>10. /\ says' \in Descriptions /\ says'.globals = says.globals /\ says'.functions = r
       /\ says'.values = says.values /\ says'.exports = says.exports
       /\ says'.elements = says.elements
  BY <1>1, <1>3, <1>8 DEF Descriptions
<1>11. Own' = n /\ Len(m'.functions) = c + n
  <2>1. Len(m'.functions) = c + n  BY <1>7, <1>9, Zenon
  <2> HIDE DEF c
  <2> QED  BY <1>2, <1>6, <1>9, <2>1 DEF Own
<1>12. Typed'
  <2>1. Items' = Items + n  BY <1>1, <1>2, <1>3, <1>9, <1>11, Longer
  <2> QED  BY <1>1, <1>2, <1>9, <1>10, <2>1, TypedNext, Zenon DEF Inv, Typed
<1>13. Declared'
  <2>1. \A i \in 1..c : says'.functions[i] = m'.functions[i]
                        /\ \E h \in HostFunctions : m'.functions[i] = Host(h)
    BY <1>3, <1>6, <1>7, <1>8, <1>9, <1>10, Zenon DEF Declared
  <2>2. Own' <= MaxOwn /\ m'.import_count <= Len(m'.functions) /\ ~(section' < Function)
    BY <1>2, <1>6, <1>9, <1>11, LoaderAssumption, Sections
  <2>3. Len(m'.functions) = Len(says'.functions)  BY <1>8, <1>10, <1>11, Zenon
  <2> QED  BY <1>6, <1>8, <1>9, <1>10, <1>11, <2>1, <2>2, <2>3, Zenon DEF Declared
<1>14. CodeInOrder'
  <2>1. Own = 0 /\ phase' # "loaded"  BY <1>2, <1>3, Zenon DEF Declared, Inv, Allocated
  <2>2. \A b \in 1..Own' : m'.functions[m'.import_count + b] = NULL
    BY <1>6, <1>7, <1>9, <1>11, Zenon
  <2>3. Own' \in Nat  BY <1>2, <1>11, Zenon
  <2> QED  BY <1>1, <1>2, <2>1, <2>2, <2>3, NoneCoded, Zenon
<1>15. GlobalsKnown'
  BY <1>1, <1>2, <1>3, <1>9, <1>10, GlobalsKept, Zenon DEF Inv
<1>16. ExportsKnown' /\ EntriesKnown'
  <2>1. DOMAIN m.functions \subseteq DOMAIN m'.functions  BY <1>2, <1>6, <1>7, <1>9
  <2>2. ~HasEntries'  BY <1>1, <1>2, Zenon DEF HasEntries
  <2> QED  BY <1>1, <1>2, <1>10, <2>1, <2>2, EarlyKept, Zenon
<1>17. TablesKnown'  BY <1>1, <1>2, <1>10, TablesKept, Zenon DEF Inv
<1>18. Allocated'  BY <1>1, <1>2, AllocatedKept, Zenon DEF Inv
<1> QED  BY <1>12, <1>13, <1>14, <1>15, <1>16, <1>17, <1>18, Zenon DEF Inv

(* Arrays of the module itself are allocated.                              *)
LEMMA OwnArraysInv ==
  ASSUME Inv, NEW s \in 1..Memory, Begins(s), NEW n \in 0..MaxOwn, Items + n <= MaxItems,
         m' = m, says' = says, entries' = entries, fault' = fault,
         rc' \in Contexts, Items' = Items + n,
         rc'.own_globals = rc.own_globals, rc'.exports = rc.exports, rc'.start = rc.start,
         rc'.funcentries = rc.funcentries, rc'.import_funcentries = rc.import_funcentries,
         TablesKnown', NEW extra, heap' = heap \cup extra,
         \A p \in extra : /\ p \in StateHas' /\ p[1] # "body" /\ p[1] # "dropped locals"
                         /\ p # <<"funcentries">>,
         StateHas \subseteq StateHas', Needed' \subseteq Needed \cup extra
  PROVE  Inv'
<1>1. /\ Reads(s) /\ phase' = phase /\ phase = "reading" /\ section' = s
      /\ Onward /\ section < Element /\ section < Global /\ section # Global /\ section' # Global
      /\ ~HasEntries /\ HasState /\ section' \in 0..Data /\ n \in Nat
  BY BeginsEarly, Zenon
<1>2. SameFunctions  BY DEF SameFunctions
<1>3. ~HasEntries'  BY <1>1, Zenon DEF HasEntries
<1>4. Typed'  BY <1>1, TypedNext, Zenon DEF Inv, Typed
<1>5. Declared'  BY <1>1, <1>2, DeclaredKept, Zenon DEF Inv
<1>6. CodeInOrder'
  <2>1. \A p : p[1] = "body" \/ p[1] = "dropped locals" => (p \in heap <=> p \in heap')  BY Zenon
  <2>2. phase # "loaded"  BY <1>1
  <2> QED  BY <1>1, <1>2, <2>1, <2>2, CodeKept, Zenon DEF Inv
<1>7. GlobalsKnown'  BY <1>1, GlobalsKept, Zenon DEF Inv
<1>8. ExportsKnown' /\ EntriesKnown'  BY <1>1, <1>3, EarlyKept, Zenon
<1>9. Allocated'  BY <1>1, AllocatedMore, Zenon DEF Inv
<1> QED  BY <1>4, <1>5, <1>6, <1>7, <1>8, <1>9, Zenon DEF Inv

LEMMA TableSectionInv ==
  ASSUME Inv, NEW n \in 0..MaxOwn, TableSection(n)
  PROVE  Inv'
<1> DEFINE own == [i \in 1..n |-> i]
           q == rc.tables \o own
           c == Len(rc.tables)
           S == HostTables \cup OwnTables
           extra == Blocks({"own_tables"}) \cup {<<"entries", i>> : i \in 1..n}
<1>1. /\ Begins(Table) /\ Items + n <= MaxItems /\ Table \in 1..Memory
      /\ m' = m /\ says' = says /\ entries' = entries /\ fault' = fault
      /\ rc' = [rc EXCEPT !.tables = q, !.own_tables = n]
  BY Sections DEF TableSection
<1>2. heap' = heap \cup extra  BY Zenon DEF TableSection
<1>3. section < Table /\ section' = Table /\ Onward /\ n \in Nat /\ section < Element /\ section < Memory
  BY <1>1, BeginsEarly, Sections DEF Begins, Onward
<1>4. Typed /\ rc \in Contexts /\ TablesKnown  BY Zenon DEF Inv, Typed
<1>5. own \in Seq(S) /\ Len(own) = n /\ \A i \in 1..n : own[i] = i
  BY <1>3, LoaderAssumption DEF OwnTables
<1>6. c \in Nat /\ DOMAIN rc.tables = 1..c  BY <1>4, Lengths, Zenon
<1> HIDE DEF own, extra
<1>7. /\ q \in Seq(S) /\ Len(q) = c + n /\ DOMAIN q = 1..(c + n)
      /\ \A i \in 1..c : q[i] = rc.tables[i]
      /\ \A j \in 1..n : q[c + j] = j
      /\ \A i \in 1..(c + n) : i \in 1..c \/ i - c \in 1..n
  <2>1. rc.tables \in Seq(S) /\ own \in Seq(S)  BY <1>4, <1>5, Fields, Zenon
  <2>2. /\ q \in Seq(S) /\ Len(q) = Len(rc.tables) + Len(own)
        /\ DOMAIN q = 1..(Len(rc.tables) + Len(own))
        /\ \A i \in 1..Len(rc.tables) : q[i] = rc.tables[i]
        /\ \A j \in 1..Len(own) : q[Len(rc.tables) + j] = own[j]
        /\ \A i \in 1..(Len(rc.tables) + Len(own)) :
             i \in 1..Len(rc.tables) \/ i - Len(rc.tables) \in 1..Len(own)
    BY <2>1, Joined
  <2> QED  BY <1>5, <2>2, Zenon
<1> HIDE DEF q
<1>8. /\ rc' \in Contexts /\ rc'.tables = q /\ rc'.own_tables = n
      /\ rc'.own_memories = rc.own_memories /\ rc'.memories = rc.memories
      /\ rc'.own_globals = rc.own_globals /\ rc'.exports = rc.exports /\ rc'.start = rc.start
      /\ rc'.funcentries = rc.funcentries /\ rc'.import_funcentries = rc.import_funcentries
  BY <1>1, <1>3, <1>4, <1>7 DEF Contexts
<1>9. Len(rc'.tables) = c + n  BY <1>7, <1>8, Zenon
<1>10. Items' = Items + n  BY <1>1, <1>3, <1>4, <1>8, <1>9, Longer
<1> HIDE DEF c
<1>11. rc.own_tables = 0 /\ rc.own_memories = 0 /\ rc.own_memories <= Len(rc.memories)
  BY <1>3, <1>4, Zenon DEF TablesKnown
<1>12. TablesKnown'
  <2>1. n <= MaxOwn /\ n <= c + n /\ ~(Table < Table)
    BY <1>3, <1>6, Sections, LoaderAssumption
  <2>2. ASSUME NEW i \in 1..(c + n)  PROVE q[i] \in HostTables \cup (1..n)
    <3>1. CASE i \in 1..c
      <4>1. rc.tables[i] \in HostTables \cup (1..rc.own_tables)
        BY <1>4, <1>6, <3>1, Zenon DEF TablesKnown
      <4>2. 1..rc.own_tables = {}  BY <1>11
      <4> QED  BY <1>7, <3>1, <4>1, <4>2, Zenon
    <3>2. CASE i - c \in 1..n
      <4>1. c + (i - c) = i  BY <1>6
      <4>2. q[c + (i - c)] = i - c  BY <1>7, <3>2, Zenon
      <4> QED  BY <3>2, <4>1, <4>2
    <3> QED  BY <1>7, <3>1, <3>2
  <2>3. \A i \in DOMAIN rc'.tables : rc'.tables[i] \in HostTables \cup (1..rc'.own_tables)
    BY <1>7, <1>8, <2>2, Zenon
  <2>4. rc'.own_memories <= Len(rc'.memories) /\ (section' < Memory => rc'.own_memories = 0)
    BY <1>8, <1>11, Zenon
  <2> QED  BY <1>1, <1>3, <1>4, <1>8, <1>9, <2>1, <2>3, <2>4, TablesEarly, Zenon
<1>13. /\ \A p \in extra : /\ p \in StateHas' /\ p[1] # "body" /\ p[1] # "dropped locals"
                          /\ p # <<"funcentries">>
       /\ StateHas \subseteq StateHas' /\ Needed' \subseteq Needed \cup extra
  <2>1. 1..rc.own_tables = {} /\ 1..rc'.own_tables = 1..n /\ rc'.own_memories = rc.own_memories
    BY <1>8, <1>11
  <2>2. \A p \in extra : p = <<"own_tables">> \/ \E i \in 1..n : p = <<"entries", i>>
    BY Zenon DEF extra, Blocks
  <2>3. \A p \in extra : p[1] # "body" /\ p[1] # "dropped locals" /\ p # <<"funcentries">>
    <3>1. <<"own_tables">>[1] = "own_tables" /\ \A i : <<"entries", i>>[1] = "entries"  OBVIOUS
    <3>2. <<"funcentries">>[1] = "funcentries"  OBVIOUS
    <3> QED  BY <2>2, <3>1, <3>2
  <2>4. \A p \in extra : p \in StateHas'
    BY <2>1, <2>2, Zenon DEF StateHas, Blocks
  <2>5. StateHas \subseteq StateHas'
    BY <2>1, Zenon DEF StateHas, StateArrays, Blocks
  <2>6. Needed' \subseteq Needed \cup extra
    BY <2>1, Zenon DEF Needed, StateArrays, Blocks, extra
  <2> QED  BY <2>3, <2>4, <2>5, <2>6, Zenon
<1> QED
  BY <1>1, <1>2, <1>8, <1>10, <1>12, <1>13, OwnArraysInv, Zenon

LEMMA MemorySectionInv ==
  ASSUME Inv, NEW n \in 0..MaxOwn, MemorySection(n)
  PROVE  Inv'
<1> DEFINE own == [i \in 1..n |-> i]
           q == rc.memories \o own
           c == Len(rc.memories)
           S == HostMemories \cup Nat
           extra == Blocks({"own_memories"}) \cup {<<"bytes", i>> : i \in 1..n}
<1>1. /\ Begins(Memory) /\ Items + n <= MaxItems /\ Memory \in 1..Memory
      /\ m' = m /\ says' = says /\ entries' = entries /\ fault' = fault
      /\ rc' = [rc EXCEPT !.memories = q, !.own_memories = n]
  BY Sections DEF MemorySection
<1>2. heap' = heap \cup extra  BY Zenon DEF MemorySection
<1>3. section < Memory /\ section' = Memory /\ Onward /\ n \in Nat /\ section < Element
      /\ (section' < Table => section < Table)
  BY <1>1, BeginsEarly, Sections DEF Begins, Onward
<1>4. Typed /\ rc \in Contexts /\ TablesKnown  BY Zenon DEF Inv, Typed
<1>5. own \in Seq(S) /\ Len(own) = n
  BY <1>3
<1>6. c \in Nat  BY <1>4, Lengths, Zenon
<1> HIDE DEF own, extra
<1>7. q \in Seq(S) /\ Len(q) = c + n
  <2>1. rc.memories \in Seq(S) /\ own \in Seq(S)  BY <1>4, <1>5, Fields, Zenon
  <2>2. /\ q \in Seq(S) /\ Len(q) = Len(rc.memories) + Len(own)
    BY <2>1, Joined
  <2> QED  BY <1>5, <2>2, Zenon
<1> HIDE DEF q
<1>8. /\ rc' \in Contexts /\ rc'.memories = q /\ rc'.own_memories = n
      /\ rc'.own_tables = rc.own_tables /\ rc'.tables = rc.tables
      /\ rc'.own_globals = rc.own_globals /\ rc'.exports = rc.exports /\ rc'.start = rc.start
      /\ rc'.funcentries = rc.funcentries /\ rc'.import_funcentries = rc.import_funcentries
  BY <1>1, <1>3, <1>4, <1>7 DEF Contexts
<1>9. Len(rc'.memories) = c + n  BY <1>7, <1>8, Zenon
<1>10. Items' = Items + n  BY <1>1, <1>3, <1>4, <1>8, <1>9, Longer
<1> HIDE DEF c
<1>11. rc.own_memories = 0  BY <1>3, <1>4, Zenon DEF TablesKnown
<1>12. TablesKnown'
  <2>1. n <= c + n /\ ~(Memory < Memory)
    BY <1>3, <1>6, Sections
  <2>2. /\ rc.own_tables <= MaxOwn /\ rc.own_tables <= Len(rc.tables)
        /\ section' < Table => rc.own_tables = 0
        /\ \A i \in DOMAIN rc.tables : rc.tables[i] \in HostTables \cup (1..rc.own_tables)
    BY <1>3, <1>4, Zenon DEF TablesKnown
  <2> QED  BY <1>1, <1>3, <1>4, <1>8, <1>9, <2>1, <2>2, TablesEarly, Zenon
<1>13. /\ \A p \in extra : /\ p \in StateHas' /\ p[1] # "body" /\ p[1] # "dropped locals"
                          /\ p # <<"funcentries">>
       /\ StateHas \subseteq StateHas' /\ Needed' \subseteq Needed \cup extra
  <2>1. 1..rc.own_memories = {} /\ 1..rc'.own_memories = 1..n /\ rc'.own_tables = rc.own_tables
    BY <1>8, <1>11
  <2>2. \A p \in extra : p = <<"own_memories">> \/ \E i \in 1..n : p = <<"bytes", i>>
    BY Zenon DEF extra, Blocks
  <2>3. \A p \in extra : p[1] # "body" /\ p[1] # "dropped locals" /\ p # <<"funcentries">>
    <3>1. <<"own_memories">>[1] = "own_memories" /\ \A i : <<"bytes", i>>[1] = "bytes"  OBVIOUS
    <3>2. <<"funcentries">>[1] = "funcentries"  OBVIOUS
    <3> QED  BY <2>2, <3>1, <3>2
  <2>4. \A p \in extra : p \in StateHas'
    BY <2>1, <2>2, Zenon DEF StateHas, Blocks
  <2>5. StateHas \subseteq StateHas'
    BY <2>1, Zenon DEF StateHas, StateArrays, Blocks
  <2>6. Needed' \subseteq Needed \cup extra
    BY <2>1, Zenon DEF Needed, StateArrays, Blocks, extra
  <2> QED  BY <2>3, <2>4, <2>5, <2>6, Zenon
<1> QED
  BY <1>1, <1>2, <1>8, <1>10, <1>12, <1>13, OwnArraysInv, Zenon

-----------------------------------------------------------------------------
(* Globals.                                                                *)

LEMMA SameSteps ==
  ASSUME Inv, NEW s \in {Global, GlobalsEnd}, Reads(s), section = Global, phase' = phase,
         entries' = entries, heap' = heap, fault' = fault, m' \in Modules, rc' \in Contexts,
         says' \in Descriptions, Items' <= MaxItems, SameFunctions,
         says'.functions = says.functions, says'.exports = says.exports,
         says'.elements = says.elements,
         rc'.tables = rc.tables, rc'.memories = rc.memories, rc'.own_tables = rc.own_tables,
         rc'.own_memories = rc.own_memories, rc'.exports = rc.exports, rc'.start = rc.start,
         rc'.funcentries = rc.funcentries, rc'.import_funcentries = rc.import_funcentries,
         GlobalsKnown'
  PROVE  Inv'
<1>1. s \in 1..Data /\ s # Code /\ section # Code /\ section < Code /\ section < Element
      /\ section < Export
  BY Sections
<1>2. /\ Typed /\ Onward /\ phase = "reading" /\ section' = s /\ HasCompiler /\ HasState
      /\ fault = "none"
  BY <1>1, Reading, Zenon
<1>3. ~HasEntries  BY <1>1, <1>2, NoEntriesYet, Zenon
<1>4. ~HasEntries'  BY <1>3, Zenon DEF HasEntries
<1>5. section' \in 0..Data /\ phase # "loaded"  BY <1>1, <1>2, Sections
<1>6. Typed'  BY <1>2, <1>5, TypedNext, Zenon DEF Inv, Typed
<1>7. Declared'  BY <1>2, DeclaredKept, Zenon DEF Inv
<1>8. CodeInOrder'  BY <1>2, <1>3, <1>5, CodeKept, Zenon DEF Inv, HasState
<1>9. ExportsKnown'  BY <1>1, ExportsEarly, Zenon DEF Inv
<1>10. TablesKnown'  BY <1>1, <1>2, TablesKept, Zenon DEF Inv
<1>11. EntriesKnown'
  BY <1>1, <1>2, <1>3, <1>4, EntriesKept, Zenon DEF Inv, SameFunctions
<1>12. Allocated'  BY <1>2, AllocatedKept, Zenon DEF Inv
<1> QED  BY <1>6, <1>7, <1>8, <1>9, <1>10, <1>11, <1>12, Zenon DEF Inv

(* An initial value is what the module means.                              *)
LEMMA EvaluatedMeant ==
  ASSUME Typed, GlobalsKnown, Plain, NEW e \in Initializers
  PROVE  Evaluated(e) = Meant(e) /\ Meant(e) \in Initial
<1>1. Const \in Initial  BY Zenon DEF Initial
<1>2. CASE e = Const
  <2>1. Const[1] # "get" /\ Const[1] # "func"  BY DEF Const
  <2> QED  BY <1>1, <1>2, <2>1, Zenon DEF Evaluated, Meant
<1>3. CASE e # Const
  <2>1. PICK i \in DOMAIN says.globals :
               says.globals[i][1] \in {"reference", "number"} /\ e = <<"get", i>>
    BY <1>3, Zenon DEF Initializers, Plain
  <2> DEFINE g == says.globals[i]
  <2>2. g[1] # "own" /\ g[1] # "variable"  BY <2>1
  <2>3. i \in DOMAIN m.globals
    BY <2>1, Lengths, Zenon DEF GlobalsKnown
  <2>4. g[2] \in HostGlobals /\ m.globals[i] = Described(FALSE, Host(g[2]))
    BY <2>2, <2>3, Zenon DEF GlobalsKnown, AddressIn
  <2> HIDE DEF g
  <2>5. m.globals[i].w = Host(g[2])  BY <2>4 DEF Described
  <2>6. Host(g[2])[1] = "host" /\ Host(g[2])[2] = g[2]  BY DEF Host
  <2>7. e[1] = "get" /\ e[2] = i /\ e[1] # "func"  BY <2>1
  <2>8. Evaluated(e) = <<"content", g[2]>>
    BY <1>3, <2>5, <2>6, <2>7, Zenon DEF Evaluated
  <2>9. Meant(e) = <<"content", g[2]>>
    BY <1>3, <2>7, Zenon DEF Meant, g
  <2> QED  BY <2>4, <2>8, <2>9, Zenon DEF Initial
<1> QED  BY <1>2, <1>3

LEMMA DefineGlobalInv ==
  ASSUME Inv, Plain, NEW e \in Initializers, DefineGlobal(e)
  PROVE  Inv'
<1> DEFINE n == Len(m.globals)
           l == Len(rc.own_globals)
           w == Provisional(l + 1)
           src == <<"own", l + 1>>
           q == Append(m.globals, w)
           r == Append(says.globals, src)
           v == Append(rc.own_globals, Meant(e))
           u == Append(says.values, Meant(e))
<1>1. Typed /\ m \in Modules /\ rc \in Contexts /\ says \in Descriptions /\ GlobalsKnown
      /\ says.values = rc.own_globals
  BY Zenon DEF Inv, Typed, GlobalsKnown
<1>2. Evaluated(e) = Meant(e) /\ Meant(e) \in Initial  BY <1>1, EvaluatedMeant, Zenon
<1>3. /\ section = Global /\ Reads(Global) /\ Items < MaxItems
      /\ phase' = phase /\ entries' = entries /\ heap' = heap /\ fault' = fault
      /\ m' = [m EXCEPT !.globals = q] /\ rc' = [rc EXCEPT !.own_globals = v]
      /\ says' = [says EXCEPT !.globals = r, !.values = u]
  BY <1>2, Zenon DEF DefineGlobal
<1>4. n \in Nat /\ l \in Nat /\ DOMAIN m.globals = 1..n /\ Len(says.globals) = n
  BY <1>1, Lengths, Zenon DEF GlobalsKnown
<1>5. w \in Addressed /\ src \in Sources
  BY <1>4 DEF Provisional, Described, Addressed, Words, Sources
<1>6. q \in Seq(Addressed) /\ Len(q) = n + 1 /\ DOMAIN q = 1..(n + 1)
      /\ (\A i \in 1..n : q[i] = m.globals[i]) /\ q[n + 1] = w
  <2>1. m.globals \in Seq(Addressed)  BY <1>1, Fields, Zenon
  <2> HIDE DEF w
  <2> QED  BY <1>5, <2>1, Appended
<1>7. r \in Seq(Sources) /\ Len(r) = n + 1
      /\ (\A i \in 1..n : r[i] = says.globals[i]) /\ r[n + 1] = src
  <2>1. says.globals \in Seq(Sources)  BY <1>1, Fields, Zenon
  <2> HIDE DEF src
  <2> QED  BY <1>4, <1>5, <2>1, Appended
<1>8. v \in Seq(Initial) /\ u \in Seq(Initial) /\ Len(v) = l + 1 /\ u = v
  <2>1. rc.own_globals \in Seq(Initial)  BY <1>1, Fields, Zenon
  <2> QED  BY <1>1, <1>2, <2>1, Appended
<1> HIDE DEF q, r, v, u
<1>9. /\ m' \in Modules /\ m'.globals = q /\ m'.functions = m.functions
      /\ m'.import_count = m.import_count /\ SameFunctions
  BY <1>1, <1>3, <1>6 DEF Modules, SameFunctions
<1>10. /\ rc' \in Contexts /\ rc'.own_globals = v
       /\ rc'.tables = rc.tables /\ rc'.memories = rc.memories /\ rc'.own_tables = rc.own_tables
       /\ rc'.own_memories = rc.own_memories /\ rc'.exports = rc.exports /\ rc'.start = rc.start
       /\ rc'.funcentries = rc.funcentries /\ rc'.import_funcentries = rc.import_funcentries
  BY <1>1, <1>3, <1>8 DEF Contexts
<1>11. /\ says' \in Descriptions /\ says'.globals = r /\ says'.values = u
       /\ says'.functions = says.functions /\ says'.exports = says.exports
       /\ says'.elements = says.elements
  BY <1>1, <1>3, <1>7, <1>8 DEF Descriptions
<1>12. Items' <= MaxItems
  <2>1. Items' = Items + 1  BY <1>1, <1>4, <1>6, <1>9, <1>10, Longer DEF n
  <2>2. Items \in Nat /\ MaxItems \in Nat  BY <1>1, Bounded, Zenon
  <2> QED  BY <1>3, <2>1, <2>2
<1>13. Global \in {Global, GlobalsEnd} /\ section' = Global
  BY <1>3, Sections, Reading
<1>14. GlobalsKnown'
  <2>1. \A i \in 1..(n + 1) : i \in 1..n \/ i = n + 1  BY <1>4
  <2>2. ASSUME NEW i \in 1..n  PROVE AddressIn(i)'
    <3>1. AddressIn(i)  BY <1>1, <1>4, Zenon DEF GlobalsKnown
    <3>2. \A j \in 1..l : j \in 1..(l + 1)  BY <1>4
    <3>3. Len(rc'.own_globals) = l + 1  BY <1>8, <1>10, Zenon
    <3> QED
      BY <1>3, <3>1, <3>2, <3>3, <1>6, <1>7, <1>9, <1>11, <1>13, ZenonT(60)
      DEF AddressIn, Described, Provisional, Host
  <2>3. ASSUME NEW i, i = n + 1  PROVE AddressIn(i)'
    <3>1. r[i][1] = "own" /\ r[i][2] = l + 1  BY <1>7, <2>3
    <3>2. q[i] = Provisional(r[i][2])  BY <1>6, <2>3, <3>1, Zenon
    <3>3. r[i][2] \in 1..Len(rc'.own_globals)  BY <1>4, <1>8, <1>10, <3>1
    <3> QED  BY <1>9, <1>11, <1>13, <3>1, <3>2, <3>3, Zenon DEF AddressIn, Described, Provisional
  <2>4. DOMAIN m'.globals = 1..(n + 1)  BY <1>6, <1>9, Zenon
  <2>5. \A i \in DOMAIN m'.globals : AddressIn(i)'  BY <2>1, <2>2, <2>3, <2>4, Zenon
  <2>6. Len(m'.globals) = Len(says'.globals)  BY <1>6, <1>7, <1>9, <1>11, Zenon
  <2>7. ~(section' < Global)  BY <1>13, Sections
  <2>8. rc'.own_globals = says'.values  BY <1>8, <1>10, <1>11, Zenon
  <2> QED  BY <2>5, <2>6, <2>7, <2>8, Zenon DEF GlobalsKnown
<1> QED
  BY <1>3, <1>9, <1>10, <1>11, <1>12, <1>13, <1>14, SameSteps, Zenon

LEMMA EndGlobalsInv ==
  ASSUME Inv, EndGlobals
  PROVE  Inv'
<1> DEFINE n == Len(m.globals)
           l == Len(rc.own_globals)
           q == [i \in DOMAIN m.globals |-> Placed(m.globals[i])]
<1>1. /\ section = Global /\ Reads(GlobalsEnd) /\ m' = [m EXCEPT !.globals = q]
      /\ phase' = phase /\ rc' = rc /\ entries' = entries /\ heap' = heap /\ says' = says
      /\ fault' = fault
  BY Zenon DEF EndGlobals
<1>2. Typed /\ m \in Modules /\ rc \in Contexts /\ says \in Descriptions /\ GlobalsKnown
      /\ Items <= MaxItems
  BY Zenon DEF Inv, Typed
<1>3. n \in Nat /\ l \in Nat /\ DOMAIN m.globals = 1..n
  BY <1>2, Lengths, Zenon
<1>4. GlobalsEnd \in {Global, GlobalsEnd} /\ section' = GlobalsEnd /\ section' # Global
      /\ ~(section' < Global)
  BY <1>1, Sections, Reading
<1>5. ASSUME NEW i \in 1..n
      PROVE  q[i] \in Addressed /\ AddressIn(i)'
  <2> DEFINE g == says.globals[i]
  <2>1. AddressIn(i) /\ q[i] = Placed(m.globals[i])  BY <1>2, <1>3, Zenon DEF GlobalsKnown
  <2>2. m'.globals = q  BY <1>1, <1>2 DEF Modules
  <2>3. CASE g[1] = "own"
    <3>1. g[2] \in 1..l /\ m.globals[i] = Provisional(g[2])
      BY <1>1, <2>1, <2>3 DEF AddressIn
    <3>2. Placed(Provisional(g[2])) = Described(FALSE, Variable(g[2], l))
      <4> DEFINE sv == Provisional(g[2])
      <4>1. sv.imm = TRUE /\ sv.w = <<"offset", g[2]>>  BY DEF Provisional, Described
      <4>2. sv.w[1] = "offset" /\ sv.w[2] = g[2]  BY <4>1
      <4> HIDE DEF sv
      <4> QED  BY <4>1, <4>2, Zenon DEF Placed, sv
    <3>3. Described(FALSE, Variable(g[2], l)) \in Addressed
      BY <1>3, <3>1 DEF Described, Addressed, Words, Addresses
    <3> QED
      BY <1>1, <1>4, <2>1, <2>2, <2>3, <3>1, <3>2, <3>3, Zenon
      DEF AddressIn, Described, Variable
  <2>4. CASE g[1] # "own"
    <3>1. g[1] \in {"variable", "reference"} /\ g[2] \in HostGlobals
          /\ m.globals[i] = Described(FALSE, Host(g[2]))
      BY <2>1, <2>4, Zenon DEF AddressIn
    <3>2. Placed(Described(FALSE, Host(g[2]))) = Described(FALSE, Host(g[2]))
      <4>1. Described(FALSE, Host(g[2])).imm = FALSE  BY DEF Described
      <4> QED  BY <4>1, Zenon DEF Placed
    <3>3. Described(FALSE, Host(g[2])) \in Addressed
      BY <3>1 DEF Described, Addressed, Words, Addresses
    <3> QED
      BY <1>1, <2>1, <2>2, <3>1, <3>2, <3>3, Zenon DEF AddressIn, Described, Host
  <2> QED  BY <2>3, <2>4
<1>6. q \in Seq(Addressed) /\ Len(q) = n /\ DOMAIN q = 1..n
  <2>1. \A i \in 1..n : q[i] \in Addressed  BY <1>5
  <2>2. DOMAIN q = 1..n  BY <1>3, Zenon
  <2>3. q = [i \in 1..n |-> q[i]]  BY <1>3, Zenon
  <2> HIDE DEF q
  <2> QED  BY <1>3, <2>1, <2>2, <2>3
<1> HIDE DEF q
<1>7. /\ m' \in Modules /\ m'.globals = q /\ m'.functions = m.functions
      /\ m'.import_count = m.import_count /\ SameFunctions
  BY <1>1, <1>2, <1>6 DEF Modules, SameFunctions
<1>8. Items' = Items
  BY <1>1, <1>6, <1>7, Zenon DEF Items
<1>9. GlobalsKnown'
  <2>1. \A i \in DOMAIN m'.globals : AddressIn(i)'  BY <1>5, <1>6, <1>7, Zenon
  <2>2. Len(m'.globals) = Len(says'.globals)  BY <1>1, <1>2, <1>6, <1>7, Zenon DEF GlobalsKnown
  <2> QED  BY <1>1, <1>2, <1>4, <2>1, <2>2, Zenon DEF GlobalsKnown
<1>10. Items' <= MaxItems /\ rc' \in Contexts /\ says' \in Descriptions
  BY <1>1, <1>2, <1>8, Zenon
<1> QED
  BY <1>1, <1>4, <1>7, <1>9, <1>10, SameSteps, Zenon

-----------------------------------------------------------------------------
(* Exports, start, elements and data.                                      *)

LEMMA Later ==
  ASSUME Inv, NEW s \in {Export, Start, Element, Data}, Reads(s)
  PROVE  /\ s \in 1..Data /\ s # Code /\ section' = s /\ section <= s /\ Onward
         /\ Typed /\ phase = "reading" /\ phase # "loaded" /\ section # Global /\ section' # Global
         /\ HasState /\ section' \in 0..Data /\ fault = "none"
         /\ section = Code /\ s > Code => \A i \in DOMAIN m.functions : m.functions[i] # NULL
<1>1. s \in 1..Data /\ s # Global /\ s # GlobalsEnd /\ s # Code  BY Sections
<1>2. /\ Typed /\ Onward /\ phase = "reading" /\ section' = s /\ section <= s /\ HasState
      /\ fault = "none" /\ section # Global /\ section' # Global
      /\ section = Code /\ s > Code => \A i \in DOMAIN m.functions : m.functions[i] # NULL
  BY <1>1, Reading, Zenon
<1>3. section' \in 0..Data /\ phase # "loaded"  BY <1>1, <1>2, Sections
<1> QED  BY <1>1, <1>2, <1>3, Zenon

LEMMA LaterInv ==
  ASSUME Inv, NEW s \in {Export, Start, Element, Data}, Reads(s),
         phase' = phase, heap' = heap, fault' = fault, m' = m,
         rc' \in Contexts, says' \in Descriptions,
         entries' \in [TableSet -> [1..TableSize -> Pointers]], Items' <= MaxItems,
         says'.functions = says.functions, says'.globals = says.globals,
         says'.values = says.values, rc'.own_globals = rc.own_globals,
         rc'.own_tables = rc.own_tables, rc'.own_memories = rc.own_memories,
         ExportsKnown', TablesKnown', EntriesKnown'
  PROVE  Inv'
<1>1. SameFunctions  BY DEF SameFunctions
<1>2. HasEntries' <=> HasEntries  BY Zenon DEF HasEntries
<1>3. Typed'  BY Later, TypedNext, Zenon DEF Inv, Typed
<1>4. Declared'  BY <1>1, Later, DeclaredKept, Zenon DEF Inv
<1>5. CodeInOrder'  BY <1>1, <1>2, Later, CodeKept, Zenon DEF Inv, HasState
<1>6. GlobalsKnown'  BY Later, GlobalsKept, Zenon DEF Inv
<1>7. Allocated'  BY Later, AllocatedKept, Zenon DEF Inv
<1> QED  BY <1>3, <1>4, <1>5, <1>6, <1>7, Zenon DEF Inv

(* What is known of exports, elements and entries, if it does not change.  *)
LEMMA LaterKept ==
  ASSUME Inv, NEW s \in {Export, Start, Element, Data}, Reads(s), phase' = phase, heap' = heap, m' = m,
         says'.globals = says.globals, rc'.own_globals = rc.own_globals
  PROVE  /\ \A i : PointerTo(i)' = PointerTo(i)
         /\ \A i : Address(i)' = Address(i)
         /\ rc'.exports = rc.exports /\ says'.exports = says.exports => ExportsKnown'
         /\ /\ rc'.own_tables = rc.own_tables /\ rc'.tables = rc.tables
            /\ rc'.own_memories = rc.own_memories /\ rc'.memories = rc.memories
            /\ entries' = entries /\ says'.elements = says.elements
            => TablesKnown'
         /\ /\ rc'.start = rc.start /\ rc'.funcentries = rc.funcentries
            /\ rc'.import_funcentries = rc.import_funcentries
            => EntriesKnown'
<1>1. \A i : PointerTo(i)' = PointerTo(i)  BY Later, PointersKept, Zenon
<1>2. \A i : Address(i)' = Address(i)  BY AddressesKept, Zenon
<1>3. rc'.exports = rc.exports /\ says'.exports = says.exports => ExportsKnown'
  BY <1>1, <1>2, Later, ExportsKept, Zenon DEF Inv
<1>4. ASSUME rc'.own_tables = rc.own_tables, rc'.tables = rc.tables,
             rc'.own_memories = rc.own_memories, rc'.memories = rc.memories,
             entries' = entries, says'.elements = says.elements
      PROVE  TablesKnown'
  BY <1>1, <1>4, Later, TablesKept, Zenon DEF Inv
<1>5. ASSUME rc'.start = rc.start, rc'.funcentries = rc.funcentries,
             rc'.import_funcentries = rc.import_funcentries
      PROVE  EntriesKnown'
  <2>1. HasEntries' <=> HasEntries  BY Zenon DEF HasEntries
  <2> QED  BY <1>5, <2>1, Later, EntriesKept, Zenon DEF Inv
<1> QED  BY <1>1, <1>2, <1>3, <1>4, <1>5, Zenon

LEMMA DataItemInv ==
  ASSUME Inv, NEW n, DataItem(n)
  PROVE  Inv'
<1>1. /\ Reads(Data) /\ phase' = phase /\ m' = m /\ rc' = rc /\ entries' = entries /\ heap' = heap
      /\ says' = says /\ fault' = fault
  BY Zenon DEF DataItem
<1>2. /\ rc \in Contexts /\ says \in Descriptions /\ Items <= MaxItems
      /\ entries \in [TableSet -> [1..TableSize -> Pointers]]
  BY Zenon DEF Inv, Typed
<1>3. Items' = Items  BY <1>1, Zenon DEF Items
<1>4. ExportsKnown' /\ TablesKnown' /\ EntriesKnown'
  BY <1>1, LaterKept, Zenon
<1> QED  BY <1>1, <1>2, <1>3, <1>4, LaterInv, Zenon

LEMMA StartSectionInv ==
  ASSUME Inv, NEW i, StartSection(i)
  PROVE  Inv'
<1>1. /\ Reads(Start) /\ section < Start /\ phase' = phase /\ m' = m /\ entries' = entries
      /\ heap' = heap /\ says' = says /\ fault' = fault
      /\ rc' = [rc EXCEPT !.start = i] /\ i \in DOMAIN m.functions
  BY Zenon DEF StartSection, Begins
<1>2. /\ rc \in Contexts /\ says \in Descriptions /\ Items <= MaxItems /\ Typed
      /\ entries \in [TableSet -> [1..TableSize -> Pointers]] /\ EntriesKnown
  BY Zenon DEF Inv, Typed
<1>3. i \in Nat
  <2>1. i \in 1..Len(m.functions)  BY <1>1, <1>2, Lengths, Zenon
  <2> QED  BY <2>1
<1>4. /\ rc' \in Contexts /\ rc'.start = i /\ rc'.own_globals = rc.own_globals
      /\ rc'.exports = rc.exports /\ rc'.tables = rc.tables /\ rc'.memories = rc.memories
      /\ rc'.own_tables = rc.own_tables /\ rc'.own_memories = rc.own_memories
      /\ rc'.funcentries = rc.funcentries /\ rc'.import_funcentries = rc.import_funcentries
  BY <1>1, <1>2, <1>3 DEF Contexts
<1>5. Items' = Items  BY <1>1, <1>4, Zenon DEF Items
<1>6. ExportsKnown' /\ TablesKnown'
  BY <1>1, <1>4, LaterKept, Zenon
<1>7. EntriesKnown'
  <2>1. section < Code /\ ~(section' < Start) /\ section' # Code /\ phase = "reading"
    BY <1>1, Later, Sections DEF Onward
  <2>2. ~HasEntries  BY <2>1, NoEntriesYet, Zenon
  <2>3. ~HasEntries' /\ phase # "loaded"  BY <1>1, <2>1, <2>2 DEF HasEntries
  <2> QED  BY <1>1, <1>2, <1>4, <2>1, <2>2, <2>3, Zenon DEF EntriesKnown
<1> QED  BY <1>1, <1>2, <1>4, <1>5, <1>6, <1>7, LaterInv, Zenon

(* What is exported is what it should be.                                  *)
LEMMA ExportedRight ==
  ASSUME Inv, phase = "reading", section # Global, NEW kind \in Kinds, NEW i \in 1..MaxItems,
         i \in CASE kind = "function" -> DOMAIN m.functions [] kind = "table" -> DOMAIN rc.tables
                 [] kind = "memory" -> DOMAIN rc.memories [] kind = "global" -> DOMAIN m.globals
  PROVE  /\ Exported(kind, i) \in Values
         /\ kind = "function" => i \in DOMAIN m.functions /\ Exported(kind, i) = PointerTo(i)
         /\ kind = "global" => i \in DOMAIN m.globals /\ Exported(kind, i) = Address(i)
<1>1. Typed /\ GlobalsKnown  BY DEF Inv
<1>2. phase # "loaded"  OBVIOUS
<1>3. CASE kind = "function"
  <2>1. i \in DOMAIN m.functions  BY <1>3, Zenon
  <2>2. Exported(kind, i) = FuncRecord(i)  BY <1>3, Zenon DEF Exported
  <2>3. FuncRecord(i) \in Pointers  BY <1>1, <2>1, RecordTyped, Zenon
  <2>4. kind # "global"  BY <1>3
  <2> QED  BY <1>2, <2>1, <2>2, <2>3, <2>4, Zenon DEF PointerTo, Values
<1>4. CASE kind = "table"
  <2>0. kind # "global" /\ kind # "function" /\ kind # "memory"  BY <1>4
  <2>1. i \in DOMAIN rc.tables  BY <1>4, <2>0, Zenon
  <2>2. Exported(kind, i) = rc.tables[i]  BY <1>4, <2>0, Zenon DEF Exported
  <2>3. rc.tables[i] \in HostTables \cup OwnTables
    BY <1>1, <2>1, Fields, Sequence, Zenon
  <2>4. \A t \in OwnTables : t \in Nat  BY DEF OwnTables
  <2> QED  BY <2>0, <2>2, <2>3, <2>4, Zenon DEF Values
<1>5. CASE kind = "memory"
  <2>0. kind # "global" /\ kind # "function" /\ kind # "table"  BY <1>5
  <2>1. i \in DOMAIN rc.memories  BY <1>5, <2>0, Zenon
  <2>2. Exported(kind, i) = rc.memories[i]  BY <1>5, <2>0, Zenon DEF Exported
  <2>3. rc.memories[i] \in HostMemories \cup Nat
    BY <1>1, <2>1, Fields, Sequence, Zenon
  <2> QED  BY <2>0, <2>2, <2>3, Zenon DEF Values
<1>6. CASE kind = "global"
  <2>0. kind # "memory" /\ kind # "function" /\ kind # "table"  BY <1>6
  <2>1. i \in DOMAIN m.globals  BY <1>6, <2>0, Zenon
  <2>2. Exported(kind, i) = m.globals[i].w  BY <1>6, <2>0, Zenon DEF Exported
  <2>3. m.globals[i] \in Addressed
    BY <1>1, <2>1, Fields, Sequence, Zenon
  <2>4. m.globals[i].w \in Words  BY <2>3 DEF Addressed
  <2> DEFINE g == says.globals[i]
  <2>5. AddressIn(i)  BY <1>1, <2>1, Zenon DEF GlobalsKnown
  <2>6. \A w : Described(FALSE, w).w = w  BY DEF Described
  <2>7. CASE g[1] = "own"
    <3>1. g[1] \notin {"variable", "reference"}  BY <2>7
    <3>2. m.globals[i] = Described(FALSE, Variable(g[2], Len(rc.own_globals)))
      BY <2>5, <2>7, <3>1, Zenon DEF AddressIn, Described, Variable
    <3> QED  BY <2>0, <2>1, <2>2, <2>4, <2>6, <2>7, <3>2, Zenon DEF Address, Values
  <2>8. CASE g[1] # "own"
    <3>1. m.globals[i] = Described(FALSE, Host(g[2]))
      BY <2>5, <2>8, Zenon DEF AddressIn, Described, Host
    <3> QED  BY <2>0, <2>1, <2>2, <2>4, <2>6, <2>8, <3>1, Zenon DEF Address, Values
  <2> QED  BY <2>7, <2>8
<1> QED  BY <1>3, <1>4, <1>5, <1>6, Zenon DEF Kinds

LEMMA ExportItemInv ==
  ASSUME Inv, NEW kind \in Kinds, NEW i \in 1..MaxItems, ExportItem(kind, i)
  PROVE  Inv'
<1> DEFINE item == [kind |-> kind, value |-> Exported(kind, i)]
           q == Append(rc.exports, item)
           r == Append(says.exports, i)
           n == Len(rc.exports)
<1>1. /\ Reads(Export) /\ Items < MaxItems /\ phase' = phase /\ m' = m /\ entries' = entries
      /\ heap' = heap /\ fault' = fault
      /\ rc' = [rc EXCEPT !.exports = q] /\ says' = [says EXCEPT !.exports = r]
  BY Zenon DEF ExportItem
<1>2. /\ rc \in Contexts /\ says \in Descriptions /\ Typed /\ ExportsKnown
      /\ entries \in [TableSet -> [1..TableSize -> Pointers]]
  BY Zenon DEF Inv, Typed
<1>3. Export \in {Export, Start, Element, Data}  OBVIOUS
<1>4. phase = "reading" /\ section # Global /\ ~(section' < Export)
  BY <1>1, <1>3, Later, Sections
<1>5. /\ Exported(kind, i) \in Values
      /\ kind = "function" => i \in DOMAIN m.functions /\ Exported(kind, i) = PointerTo(i)
      /\ kind = "global" => i \in DOMAIN m.globals /\ Exported(kind, i) = Address(i)
  BY <1>4, ExportedRight, Zenon DEF ExportItem
<1>6. item \in Exports /\ item.kind = kind /\ item.value = Exported(kind, i)
  BY <1>5 DEF Exports
<1>7. /\ n \in Nat /\ DOMAIN rc.exports = 1..n /\ Len(says.exports) = n
  BY <1>2, Lengths, Zenon DEF ExportsKnown
<1> HIDE DEF item
<1>8. q \in Seq(Exports) /\ Len(q) = n + 1 /\ DOMAIN q = 1..(n + 1)
      /\ (\A j \in 1..n : q[j] = rc.exports[j]) /\ q[n + 1] = item
  <2>1. rc.exports \in Seq(Exports)  BY <1>2, Fields, Zenon
  <2> QED  BY <1>6, <2>1, Appended
<1>9. r \in Seq(Nat) /\ Len(r) = n + 1
      /\ (\A j \in 1..n : r[j] = says.exports[j]) /\ r[n + 1] = i
  <2>1. says.exports \in Seq(Nat) /\ i \in Nat  BY <1>2, Fields
  <2> QED  BY <1>7, <2>1, Appended
<1> HIDE DEF q, r, n
<1>10. /\ rc' \in Contexts /\ rc'.exports = q /\ rc'.own_globals = rc.own_globals
       /\ rc'.start = rc.start /\ rc'.tables = rc.tables /\ rc'.memories = rc.memories
       /\ rc'.own_tables = rc.own_tables /\ rc'.own_memories = rc.own_memories
       /\ rc'.funcentries = rc.funcentries /\ rc'.import_funcentries = rc.import_funcentries
  BY <1>1, <1>2, <1>8 DEF Contexts
<1>11. /\ says' \in Descriptions /\ says'.exports = r /\ says'.globals = says.globals
       /\ says'.values = says.values /\ says'.functions = says.functions
       /\ says'.elements = says.elements
  BY <1>1, <1>2, <1>9 DEF Descriptions
<1>12. Items' <= MaxItems
  <2>1. Items' = Items + 1  BY <1>1, <1>2, <1>8, <1>10, Longer DEF n
  <2>2. Items \in Nat /\ MaxItems \in Nat  BY <1>2, Bounded, Zenon
  <2> QED  BY <1>1, <2>1, <2>2
<1>13. /\ \A j : PointerTo(j)' = PointerTo(j)
       /\ \A j : Address(j)' = Address(j)
       /\ TablesKnown' /\ EntriesKnown'
  BY <1>1, <1>3, <1>10, <1>11, LaterKept, Zenon
<1>14. ExportsKnown'
  <2>1. \A j \in 1..(n + 1) : j \in 1..n \/ j = n + 1  BY <1>7
  <2>2. ASSUME NEW e \in 1..(n + 1)
        PROVE  /\ q[e].kind = "function" => r[e] \in DOMAIN m.functions /\ q[e].value = PointerTo(r[e])
               /\ q[e].kind = "global" => r[e] \in DOMAIN m.globals /\ q[e].value = Address(r[e])
    <3>1. CASE e \in 1..n
      BY <1>2, <1>7, <1>8, <1>9, <3>1, Zenon DEF ExportsKnown, PointerTo, Address
    <3>2. CASE e = n + 1
      BY <1>5, <1>6, <1>8, <1>9, <3>2, Zenon
    <3> QED  BY <2>1, <3>1, <3>2
  <2>3. \A e \in DOMAIN rc'.exports :
          /\ rc'.exports[e].kind = "function" =>
               says'.exports[e] \in DOMAIN m'.functions
               /\ rc'.exports[e].value = PointerTo(says'.exports[e])
          /\ rc'.exports[e].kind = "global" =>
               says'.exports[e] \in DOMAIN m'.globals
               /\ rc'.exports[e].value = Address(says'.exports[e])
    BY <1>1, <1>8, <1>10, <1>11, <2>2, ZenonT(60)
  <2>4. Len(rc'.exports) = Len(says'.exports)  BY <1>8, <1>9, <1>10, <1>11, Zenon
  <2> QED  BY <1>4, <1>13, <2>3, <2>4, Zenon DEF ExportsKnown
<1> QED
  BY <1>1, <1>2, <1>3, <1>10, <1>11, <1>12, <1>13, <1>14, LaterInv, Zenon

(* One entry of one table changed.                                         *)
LEMMA EntryChanged ==
  ASSUME NEW S, NEW n, NEW V, NEW f \in [S -> [1..n -> V]], NEW t \in S, NEW k \in 1..n,
         NEW v \in V, NEW g, g = [f EXCEPT ![t][k] = v]
  PROVE  /\ g \in [S -> [1..n -> V]] /\ g[t][k] = v
         /\ \A u \in S, j \in 1..n : ~(u = t /\ j = k) => g[u][j] = f[u][j]
<1> DEFINE K == 1..n
<1>1. k \in K /\ f \in [S -> [K -> V]]  OBVIOUS
<1> HIDE DEF K
<1>2. g \in [S -> [K -> V]] /\ g[t][k] = v
      /\ \A u \in S, j \in K : ~(u = t /\ j = k) => g[u][j] = f[u][j]
  BY <1>1
<1> QED  BY <1>2 DEF K

LEMMA ElementItemInv ==
  ASSUME Inv, Plain, NEW n \in DOMAIN rc.tables, NEW k \in 1..TableSize,
         NEW i \in DOMAIN m.functions, NEW d \in BOOLEAN, ElementItem(n, k, i, d)
  PROVE  Inv'
<1> DEFINE t == rc.tables[n]
<1>1. /\ Reads(Element) /\ phase' = phase /\ m' = m /\ rc' = rc /\ heap' = heap /\ fault' = fault
      /\ t \notin HostTables /\ ~d
      /\ entries' = [entries EXCEPT ![t][k] = FuncRecord(i)]
      /\ says' = [says EXCEPT !.elements[t][k] = i]
  BY Zenon DEF ElementItem, Plain
<1>2. /\ rc \in Contexts /\ says \in Descriptions /\ Items <= MaxItems /\ Typed /\ TablesKnown
      /\ entries \in [TableSet -> [1..TableSize -> Pointers]]
  BY Zenon DEF Inv, Typed
<1>3. Element \in {Export, Start, Element, Data}  OBVIOUS
<1>4. section' >= Element /\ phase # "loaded" /\ phase' # "loaded"
  BY <1>1, <1>3, Later, Sections
<1>5. t \in 1..rc.own_tables /\ t \in TableSet
  <2>1. t \in 1..rc.own_tables /\ rc.own_tables <= MaxOwn
    BY <1>1, <1>2, Zenon DEF TablesKnown
  <2>2. t \in OwnTables
    BY <1>2, <2>1, Fields, LoaderAssumption, SMTT(40) DEF OwnTables
  <2> QED  BY <2>1, <2>2, Zenon DEF TableSet
<1>6. i \in Nat /\ i # 0
  <2>1. i \in 1..Len(m.functions)  BY <1>2, Lengths, Zenon
  <2> QED  BY <2>1
<1>7. FuncRecord(i) \in Pointers  BY <1>2, RecordTyped, Zenon
<1> DEFINE p == FuncRecord(i)
<1> HIDE DEF t, p
<1>8. /\ entries' \in [TableSet -> [1..TableSize -> Pointers]]
      /\ entries'[t][k] = p
      /\ \A u \in TableSet, j \in 1..TableSize :
           ~(u = t /\ j = k) => entries'[u][j] = entries[u][j]
  <2>1. entries' = [entries EXCEPT ![t][k] = p] /\ p \in Pointers  BY <1>1, <1>7, Zenon DEF p
  <2>2. entries \in [TableSet -> [1..TableSize -> Pointers]] /\ t \in TableSet
    BY <1>2, <1>5, Zenon
  <2> QED  BY <2>1, <2>2, EntryChanged
<1>9. /\ says' \in Descriptions /\ says'.globals = says.globals /\ says'.values = says.values
      /\ says'.functions = says.functions /\ says'.exports = says.exports
      /\ says'.elements = [says.elements EXCEPT ![t][k] = i]
  BY <1>1, <1>2, <1>5, <1>6 DEF Descriptions
<1>10. /\ says'.elements[t][k] = i
       /\ \A u \in TableSet, j \in 1..TableSize :
            ~(u = t /\ j = k) => says'.elements[u][j] = says.elements[u][j]
  <2>1. says.elements \in [TableSet -> [1..TableSize -> Nat]]  BY <1>2, Fields, Zenon
  <2>2. says'.elements = [says.elements EXCEPT ![t][k] = i]  BY <1>9, Zenon
  <2> DEFINE e == says.elements
  <2>3. e \in [TableSet -> [1..TableSize -> Nat]] /\ i \in Nat /\ t \in TableSet
    BY <1>5, <1>6, <2>1, Zenon
  <2> HIDE DEF e
  <2> QED  BY <2>2, <2>3, EntryChanged DEF e
<1>11. Items' = Items  BY <1>1, Zenon DEF Items
<1>12. /\ \A j : PointerTo(j)' = PointerTo(j)
       /\ ExportsKnown' /\ EntriesKnown'
  BY <1>1, <1>3, <1>9, LaterKept, Zenon
<1>13. TablesKnown'
  <2>1. PointerTo(i) = p  BY <1>4, Zenon DEF PointerTo, p
  <2>2. ASSUME NEW u \in TableSet, NEW j \in 1..TableSize
        PROVE  LET x == says'.elements[u][j]
               IN  IF x = 0 THEN entries'[u][j] = NULL
                   ELSE /\ x \in DOMAIN m'.functions /\ u \in 1..rc'.own_tables
                        /\ section' >= Element /\ entries'[u][j] = PointerTo(x)
    <3>1. CASE u = t /\ j = k
      <4>1. says'.elements[u][j] = i /\ entries'[u][j] = PointerTo(i)
        BY <1>8, <1>10, <2>1, <3>1, Zenon
      <4>2. i \in DOMAIN m'.functions /\ u \in 1..rc'.own_tables
        BY <1>1, <1>5, <3>1, Zenon
      <4> QED  BY <1>4, <1>6, <4>1, <4>2, Zenon
    <3>2. CASE ~(u = t /\ j = k)
      <4>1. entries'[u][j] = entries[u][j] /\ says'.elements[u][j] = says.elements[u][j]
        BY <1>8, <1>10, <3>2, Zenon
      <4>2. LET x == says.elements[u][j]
            IN  IF x = 0 THEN entries[u][j] = NULL
                ELSE /\ x \in DOMAIN m.functions /\ u \in 1..rc.own_tables
                     /\ entries[u][j] = PointerTo(x)
        BY <1>2, Zenon DEF TablesKnown
      <4> QED  BY <1>1, <1>4, <4>1, <4>2, Zenon
    <3> QED  BY <3>1, <3>2
  <2>3. ~(section' < Table) /\ ~(section' < Memory)
    BY <1>1, <1>3, Later, Sections
  <2>4. TableSet' = TableSet  BY DEF TableSet, OwnTables
  <2> QED  BY <1>1, <1>2, <1>12, <2>2, <2>3, <2>4, Zenon DEF TablesKnown
<1> QED  BY <1>1, <1>2, <1>3, <1>8, <1>9, <1>11, <1>12, <1>13, LaterInv, Zenon

-----------------------------------------------------------------------------
(* Code.                                                                   *)

LEMMA BeginCodeInv ==
  ASSUME Inv, BeginCode
  PROVE  Inv'
<1> DEFINE q == [i \in DOMAIN m.functions |-> Junk]
           extra == Blocks({"funcentries"})
<1>1. /\ Reads(Code) /\ section < Code /\ phase' = phase /\ m' = m /\ entries' = entries
      /\ says' = says /\ fault' = fault /\ rc' = [rc EXCEPT !.funcentries = q]
  BY Zenon DEF BeginCode, Begins
<1>2. heap' = heap \cup extra  BY Zenon DEF BeginCode
<1> HIDE DEF extra
<1>3. /\ rc \in Contexts /\ says \in Descriptions /\ Items <= MaxItems /\ Typed /\ EntriesKnown
      /\ entries \in [TableSet -> [1..TableSize -> Pointers]]
  BY Zenon DEF Inv, Typed
<1>4. /\ Onward /\ phase = "reading" /\ section' = Code /\ section # Global /\ section' # Global
      /\ fault = "none" /\ HasState
  BY <1>1, Reading, Sections
<1>5. ~HasEntries /\ section' \in 0..Data /\ phase # "loaded" /\ phase # "new"
  BY <1>1, <1>4, NoEntriesYet, Sections
<1>6. <<"funcentries">> \in extra /\ \A p \in extra : p = <<"funcentries">>
  BY Zenon DEF extra, Blocks
<1>7. HasEntries'  BY <1>2, <1>6, Zenon DEF HasEntries
<1>8. q \in Seq(Pointers)
  <2>1. DOMAIN m.functions = 1..Len(m.functions) /\ Len(m.functions) \in Nat
    BY <1>3, Lengths, Zenon
  <2> QED  BY <2>1, PointerTypes
<1> HIDE DEF q
<1>9. /\ rc' \in Contexts /\ rc'.funcentries = q
      /\ rc'.start = rc.start /\ rc'.own_globals = rc.own_globals
      /\ rc'.exports = rc.exports /\ rc'.tables = rc.tables /\ rc'.memories = rc.memories
      /\ rc'.own_tables = rc.own_tables /\ rc'.own_memories = rc.own_memories
      /\ rc'.import_funcentries = rc.import_funcentries
  BY <1>1, <1>3, <1>8 DEF Contexts
<1>10. SameFunctions /\ Items' = Items  BY <1>1, <1>9, Zenon DEF SameFunctions, Items
<1>11. \A p \in extra : p[1] # "body" /\ p[1] # "dropped locals"
  <2>1. <<"funcentries">>[1] = "funcentries"  OBVIOUS
  <2> QED  BY <1>6, <2>1
<1>12. Typed'  BY <1>1, <1>3, <1>4, <1>5, <1>9, <1>10, TypedNext, Zenon DEF Inv, Typed
<1>13. Declared'  BY <1>1, <1>4, <1>10, DeclaredKept, Zenon DEF Inv
<1>14. CodeInOrder'
  <2>1. \A p : p[1] = "body" \/ p[1] = "dropped locals" => (p \in heap <=> p \in heap')
    BY <1>2, <1>11, Zenon
  <2> QED  BY <1>4, <1>7, <1>10, <2>1, CodeKept, Zenon DEF Inv
<1>15. GlobalsKnown'  BY <1>1, <1>3, <1>4, <1>9, GlobalsKept, Zenon DEF Inv
<1>16. \A i : PointerTo(i)' = PointerTo(i)  BY <1>1, <1>5, PointersKept, Zenon
<1>17. ExportsKnown'
  <2>1. \A i : Address(i)' = Address(i)  BY <1>1, <1>9, AddressesKept, Zenon
  <2> QED  BY <1>1, <1>4, <1>9, <1>16, <2>1, ExportsKept, Zenon DEF Inv
<1>18. TablesKnown'  BY <1>1, <1>4, <1>9, <1>16, TablesKept, Zenon DEF Inv
<1>19. EntriesKnown'
  <2>1. ~(section' > Code) /\ section' >= Code /\ (section' < Start => section < Start)
    BY <1>4, Sections DEF Onward
  <2>2. rc'.funcentries = [i \in DOMAIN m'.functions |-> Junk]
    BY <1>1, <1>9, Zenon DEF q
  <2>3. rc.import_funcentries = 0 /\ rc.start \in {0} \cup DOMAIN m.functions
        /\ (section < Start => rc.start = 0)
    BY <1>3, <1>5, Zenon DEF EntriesKnown
  <2> QED  BY <1>1, <1>4, <1>5, <1>7, <1>9, <2>1, <2>2, <2>3, Zenon DEF EntriesKnown
<1>20. Allocated'
  <2>1. \A p \in extra : p \in StateHas'
    BY <1>6, Zenon DEF StateHas, Blocks
  <2>2. StateHas \subseteq StateHas' /\ Needed' \subseteq Needed
    BY <1>9, Zenon DEF StateHas, Needed, StateArrays, Blocks
  <2> QED  BY <1>1, <1>2, <1>4, <2>1, <2>2, AllocatedMore, Zenon DEF Inv
<1> QED
  BY <1>12, <1>13, <1>14, <1>15, <1>17, <1>18, <1>19, <1>20, Zenon DEF Inv

(* The functions are imports, functions with code and functions without.   *)
LEMMA FunctionCases ==
  ASSUME Typed, Declared, NEW k \in 0..Own, Coded(k), NEW i \in DOMAIN m.functions
  PROVE  /\ m.functions[i] = NULL => k < Own
         /\ k = Own => m.functions[i] = says.functions[i]
<1> DEFINE c == m.import_count
           n == Len(m.functions)
<1>1. c \in Nat /\ n \in Nat /\ i \in 1..n /\ Own = n - c /\ c <= n
  BY Fields, Lengths, Zenon DEF Own, Declared
<1>2. CASE i \in 1..c
  BY <1>2, Distinct, Zenon DEF Declared
<1>3. CASE i \notin 1..c
  <2> DEFINE b == i - c
  <2> HIDE DEF c, n
  <2>1. b \in 1..Own /\ c + b = i  BY <1>1, <1>3
  <2> HIDE DEF b
  <2>2. m.functions[i] = IF b <= k THEN Body(b) ELSE NULL
    BY <2>1, Zenon DEF Coded, c
  <2>3. says.functions[i] = Body(b)  BY <2>1, Zenon DEF Declared, c
  <2>4. b <= k \/ k < Own  BY <1>1, <2>1
  <2>5. k = Own => b <= k  BY <2>1
  <2> QED  BY <2>2, <2>3, <2>4, <2>5, Distinct, Zenon
<1> QED  BY <1>2, <1>3

(* The next body is the first without code.                                *)
LEMMA NextBodyIs ==
  ASSUME Typed, Declared, HasState, NEW k \in 0..Own, Coded(k), k < Own
  PROVE  NextBody = k + 1 /\ k + 1 \in 1..Own /\ m.import_count + (k + 1) \in 1..Len(m.functions)
<1> DEFINE c == m.import_count
           n == Len(m.functions)
           First(b) == Body(b) \notin heap /\ \A before \in 1 .. b - 1 : Body(before) \in heap
<1>1. c \in Nat /\ n \in Nat /\ Own = n - c /\ c <= n
  BY Fields, Lengths, Zenon DEF Own, Declared
<1>2. k + 1 \in 1..n /\ k \in Nat /\ k + 1 \in 1..Own /\ c + (k + 1) \in 1..n
  <2> HIDE DEF c, n
  <2> QED  BY <1>1
<1>3. Body(k + 1) \notin heap
  <2>1. \A b \in 1..k : b # k + 1  BY <1>2
  <2>2. Body(k + 1)[1] = "body"  BY DEF Body
  <2> QED  BY <2>1, <2>2, Distinct, Zenon DEF Coded
<1>4. \A b \in 1..k : Body(b) \in heap  BY Zenon DEF Coded
<1>5. First(k + 1)
  <2>1. 1 .. (k + 1) - 1 = 1..k  BY <1>2
  <2> QED  BY <1>3, <1>4, <2>1, Zenon
<1>6. ASSUME NEW b \in 1..n, First(b)  PROVE b = k + 1
  <2>1. CASE b \in 1..k  BY <1>4, <1>6, <2>1, Zenon
  <2>2. CASE k + 1 \in 1 .. b - 1  BY <1>3, <1>6, <2>2, Zenon
  <2> QED
    <3> HIDE DEF First
    <3> QED  BY <1>1, <1>2, <2>1, <2>2
<1> HIDE DEF First
<1>7. NextBody = CHOOSE b \in 1..n : First(b)  BY Zenon DEF NextBody, First
<1> QED  BY <1>2, <1>5, <1>6, <1>7, Zenon

LEMMA EmitBodyInv ==
  ASSUME Inv, EmitBody
  PROVE  Inv'
<1> DEFINE c == m.import_count
           n == Len(m.functions)
<1>1. /\ section = Code /\ ~Complete /\ Reads(Code) /\ phase' = phase /\ rc' = rc
      /\ entries' = entries /\ says' = says /\ fault' = fault
      /\ m' = [m EXCEPT !.functions[c + NextBody] = Body(NextBody)]
      /\ heap' = heap \cup {Body(NextBody), DroppedLocals(NextBody)}
  BY Zenon DEF EmitBody, FunctionOf
<1>2. /\ rc \in Contexts /\ says \in Descriptions /\ Items <= MaxItems /\ Typed /\ EntriesKnown
      /\ entries \in [TableSet -> [1..TableSize -> Pointers]] /\ m \in Modules /\ Declared
  BY Zenon DEF Inv, Typed
<1>3. /\ Onward /\ phase = "reading" /\ section' = Code /\ section # Global /\ section' # Global
      /\ fault = "none" /\ HasState /\ section' \in 0..Data /\ section' = section
      /\ phase # "loaded"
  BY <1>1, Reading, Sections
<1>4. HasEntries  BY <1>1, <1>3, CodeHasEntries, Zenon
<1>5. PICK k \in 0..Own : Coded(k)  BY Zenon DEF Inv, CodeInOrder
<1>6. k < Own
  <2>1. PICK i \in DOMAIN m.functions : m.functions[i] = NULL
    BY <1>1, <1>3, Zenon DEF Complete
  <2> QED  BY <1>2, <1>5, <2>1, FunctionCases, Zenon
<1>7. NextBody = k + 1 /\ k + 1 \in 1..Own /\ c + (k + 1) \in 1..n
  BY <1>2, <1>3, <1>5, <1>6, NextBodyIs, Zenon
<1>8. c \in Nat /\ n \in Nat /\ Own = n - c /\ c <= n /\ DOMAIN m.functions = 1..n
      /\ Own <= MaxOwn /\ MaxOwn \in Nat
  BY <1>2, Fields, Lengths, LoaderAssumption, Zenon DEF Own, Declared
<1>9. Body(k + 1) \in Pointers
  <2>1. k + 1 \in 1..MaxOwn
    <3> HIDE DEF c, n
    <3> QED  BY <1>7, <1>8
  <2> QED  BY <2>1, PointerTypes, Zenon
<1> DEFINE q == [m.functions EXCEPT ![c + (k + 1)] = Body(k + 1)]
<1>10. m' = [m EXCEPT !.functions = q]
  BY <1>1, <1>7, Zenon
<1>11. q \in Seq(Pointers) /\ Len(q) = n /\ DOMAIN q = 1..n
       /\ q[c + (k + 1)] = Body(k + 1)
       /\ \A i \in 1..n : i # c + (k + 1) => q[i] = m.functions[i]
  <2>1. m.functions \in Seq(Pointers)  BY <1>2, Fields, Zenon
  <2>2. m.functions = [i \in 1..n |-> m.functions[i]] /\ m.functions \in [1..n -> Pointers]
    BY <1>8, <2>1
  <2> DEFINE f == m.functions  j == c + (k + 1)  p == Body(k + 1)
  <2>3. f \in [1..n -> Pointers] /\ j \in 1..n /\ p \in Pointers /\ n \in Nat
        /\ q = [f EXCEPT ![j] = p]
    BY <1>7, <1>8, <1>9, <2>2, Zenon
  <2> HIDE DEF f, j, p, q, n
  <2>4. /\ q \in Seq(Pointers) /\ Len(q) = n /\ DOMAIN q = 1..n /\ q[j] = p
        /\ \A i \in 1..n : i # j => q[i] = f[i]
    BY <2>3
  <2> QED  BY <2>4, Zenon DEF f, j, p
<1> HIDE DEF q
<1>12. /\ m' \in Modules /\ m'.functions = q /\ m'.import_count = c /\ m'.globals = m.globals
       /\ Len(m'.functions) = n
  BY <1>2, <1>10, <1>11 DEF Modules
<1>13. Own' = Own /\ Items' = Items
  BY <1>1, <1>12, Zenon DEF Own, Items
<1>14. Typed'  BY <1>1, <1>2, <1>3, <1>12, <1>13, TypedNext, Zenon DEF Inv, Typed
<1>15. Declared'
  <2>1. \A i \in 1..c : i # c + (k + 1) /\ i \in 1..n
    <3> HIDE DEF c, n
    <3> QED  BY <1>7, <1>8
  <2>2. ASSUME NEW i \in 1..c
        PROVE  q[i] = m.functions[i]
    BY <1>11, <2>1, Zenon
  <2>3. section' < Function => section < Function  BY <1>3
  <2> QED  BY <1>1, <1>2, <1>12, <1>13, <2>2, <2>3, Zenon DEF Declared
<1>16. CodeInOrder'
  <2>1. k + 1 \in 0..Own' /\ k \in Nat
    <3> HIDE DEF c, n
    <3> QED  BY <1>7, <1>8, <1>13
  <2>2. ASSUME NEW b \in 1..Own'
        PROVE  m'.functions[m'.import_count + b] = IF b <= k + 1 THEN Body(b) ELSE NULL
    <3>1. CASE b = k + 1
      <4>1. b <= k + 1  BY <2>1, <3>1
      <4> QED  BY <1>11, <1>12, <3>1, <4>1, Zenon
    <3>2. CASE b # k + 1
      <4>1. c + b \in 1..n /\ c + b # c + (k + 1) /\ (b <= k + 1 <=> b <= k) /\ b \in 1..Own
        <5> HIDE DEF c, n
        <5> QED  BY <1>8, <1>13, <2>1, <3>2
      <4>2. m.functions[c + b] = IF b <= k THEN Body(b) ELSE NULL
        BY <1>5, <4>1, Zenon DEF Coded
      <4>3. m'.functions[m'.import_count + b] = m.functions[c + b]
        <5>1. q[c + b] = m.functions[c + b]  BY <1>11, <4>1
        <5> QED  BY <1>12, <5>1, Zenon
      <4> QED  BY <4>1, <4>2, <4>3, Zenon
    <3> QED  BY <3>1, <3>2
  <2>3. \A b : b \in 1..(k + 1) <=> b \in 1..k \/ b = k + 1  BY <2>1
  <2>9. \A p : p \in heap' <=> p \in heap \/ p = Body(k + 1) \/ p = DroppedLocals(k + 1)
    BY <1>1, <1>7, Zenon
  <2>10. \A b : Body(b)[1] = "body" /\ DroppedLocals(b)[1] = "dropped locals"
    BY DEF Body, DroppedLocals
  <2>11. "body" # "dropped locals"  OBVIOUS
  <2>4. \A p \in heap' : p[1] = "body" => \E b \in 1..(k + 1) : p = Body(b)
    BY <1>3, <1>5, <2>3, <2>9, <2>10, <2>11, Zenon DEF Coded
  <2>5. \A b \in 1..(k + 1) : Body(b) \in heap' /\ DroppedLocals(b) \in heap'
    BY <1>3, <1>5, <2>3, <2>9, Zenon DEF Coded
  <2>12. \A p \in heap' : p[1] = "dropped locals" => \E b \in 1..(k + 1) : p = DroppedLocals(b)
    BY <1>5, <2>3, <2>9, <2>10, <2>11, Zenon DEF Coded
  <2>6. HasEntries'  BY <1>1, <1>4, Zenon DEF HasEntries
  <2> DEFINE j == k + 1
  <2>7. \E x \in 0..Own' : x = j  BY <2>1, Zenon
  <2> HIDE DEF j
  <2>8. ASSUME NEW x \in 0..Own', x = j  PROVE Coded(x)'
    BY <2>2, <2>4, <2>5, <2>6, <2>8, <2>12, Zenon DEF Coded, j
  <2> QED  BY <2>7, <2>8, Zenon DEF CodeInOrder
<1>17. GlobalsKnown'  BY <1>1, <1>2, <1>3, <1>12, GlobalsKept, Zenon DEF Inv
<1>18. \A i : PointerTo(i)' = PointerTo(i)  BY <1>1, <1>3, <1>12, PointersKept, Zenon
<1>19. DOMAIN m'.functions = DOMAIN m.functions  BY <1>8, <1>11, <1>12, Zenon
<1>20. ExportsKnown'
  <2>1. \A i : Address(i)' = Address(i)  BY <1>1, AddressesKept, Zenon
  <2> QED  BY <1>1, <1>3, <1>12, <1>18, <1>19, <2>1, ExportsKept, Zenon DEF Inv
<1>21. TablesKnown'  BY <1>1, <1>3, <1>18, <1>19, TablesKept, Zenon DEF Inv
<1>22. EntriesKnown'
  <2>1. ~(section' > Code) /\ section' >= Code  BY <1>3, Sections
  <2>2. HasEntries'  BY <1>1, <1>4, Zenon DEF HasEntries
  <2>3. /\ rc.funcentries = [i \in DOMAIN m.functions |-> Junk] /\ rc.import_funcentries = 0
        /\ rc.start \in {0} \cup DOMAIN m.functions /\ (section < Start => rc.start = 0)
    BY <1>2, <1>3, <1>4, Zenon DEF EntriesKnown
  <2>4. rc'.funcentries = [i \in DOMAIN m'.functions |-> Junk]  BY <1>1, <1>19, <2>3, Zenon
  <2> QED  BY <1>1, <1>3, <1>19, <2>1, <2>2, <2>3, <2>4, Zenon DEF EntriesKnown
<1>23. Allocated'
  <2>1. Body(NextBody)[1] = "body" /\ DroppedLocals(NextBody)[1] = "dropped locals"
    BY DEF Body, DroppedLocals
  <2>2. \A p \in {Body(NextBody), DroppedLocals(NextBody)} :
          p[1] = "body" \/ p[1] = "dropped locals"
    BY <2>1, Zenon
  <2>3. StateHas' = StateHas /\ Needed' = Needed
    BY <1>1, Zenon DEF StateHas, Needed, StateArrays, Blocks
  <2> QED  BY <1>1, <1>3, <2>2, <2>3, AllocatedMore, Zenon DEF Inv
<1> QED
  BY <1>14, <1>15, <1>16, <1>17, <1>20, <1>21, <1>22, <1>23, Zenon DEF Inv

-----------------------------------------------------------------------------
(* The end of load_module.                                                 *)

(* When all is read, every function has the code that the module says.     *)
LEMMA AllCoded ==
  ASSUME Inv, Plain, Finish
  PROVE  /\ m.functions = says.functions
         /\ Len(rc.funcentries) = Len(m.functions)
<1>1. Typed /\ Declared /\ EntriesKnown /\ phase = "reading" /\ Complete /\ phase # "loaded"
  BY Zenon DEF Inv, Finish, Typed
<1>2. PICK k \in 0..Own : Coded(k)  BY Zenon DEF Inv, CodeInOrder
<1> DEFINE n == Len(m.functions)
<1>3. n \in Nat /\ DOMAIN m.functions = 1..n /\ Len(says.functions) = n
      /\ m.functions \in Seq(Pointers) /\ says.functions \in Seq(Pointers)
      /\ DOMAIN says.functions = 1..n
  BY <1>1, Lengths, Fields, Zenon DEF Declared
<1>4. CASE HasEntries
  <2>1. /\ rc.funcentries = [i \in DOMAIN m.functions |-> Junk] /\ section >= Code
        /\ section > Code => \A i \in DOMAIN m.functions : m.functions[i] # NULL
    BY <1>1, <1>4, Zenon DEF EntriesKnown
  <2>2. section = Code \/ section > Code  BY <1>1, <2>1, Sections DEF Typed
  <2>3. \A i \in DOMAIN m.functions : m.functions[i] # NULL
    BY <1>1, <2>1, <2>2, Zenon DEF Complete
  <2>4. k = Own
    <3> DEFINE c == m.import_count
    <3>1. c \in Nat /\ Own = n - c /\ c <= n
      BY <1>1, Fields, Zenon DEF Own, Declared
    <3>2. SUFFICES ASSUME k # Own PROVE FALSE  OBVIOUS
    <3> DEFINE b == k + 1
    <3>3. b \in 1..Own /\ ~(b <= k) /\ c + b \in 1..n
      <4> HIDE DEF c, n
      <4> QED  BY <1>3, <3>1, <3>2
    <3> HIDE DEF b
    <3>4. m.functions[c + b] = NULL  BY <1>2, <3>3, Zenon DEF Coded
    <3> QED  BY <1>3, <2>3, <3>3, <3>4, Zenon
  <2>5. \A i \in 1..n : m.functions[i] = says.functions[i]
    BY <1>1, <1>2, <1>3, <2>4, FunctionCases, Zenon
  <2>6. m.functions = says.functions
    BY <1>3, <2>5
  <2>7. Len(rc.funcentries) = n  BY <1>3, <2>1
  <2> QED  BY <2>6, <2>7
<1>5. CASE ~HasEntries
  <2>1. rc.funcentries = <<>>  BY <1>1, <1>5, Zenon DEF EntriesKnown
  <2>2. Len(rc.funcentries) = 0  BY <2>1
  <2>3. ~(Len(rc.funcentries) < n)  BY Zenon DEF Finish, Plain
  <2>4. n = 0  BY <1>3, <2>2, <2>3
  <2>5. m.functions = <<>> /\ says.functions = <<>>
    BY <1>3, <2>4
  <2> QED  BY <2>2, <2>4, <2>5
<1> QED  BY <1>4, <1>5

(* A pointer that was taken while reading is resolved.                     *)
LEMMA ResolvedRight ==
  /\ Resolved(NULL) = NULL
  /\ \A i : Resolved(FuncRecord(i)) = m.functions[i]
<1>1. NULL[1] = "null" /\ NULL[1] # "WasmFunction"  BY DEF NULL
<1>2. \A i : /\ FuncRecord(i)[1] = "WasmFunction" /\ FuncRecord(i)[2] = i
             /\ FuncRecord(i)[3] = Len(m.functions)
  BY DEF FuncRecord
<1> QED  BY <1>1, <1>2, Zenon DEF Resolved

LEMMA FinishInv ==
  ASSUME Inv, Plain, Finish
  PROVE  Inv'
<1> DEFINE q == [e \in DOMAIN rc.exports |-> ResolvedExport(rc.exports[e])]
           row(t) == IF t \in 1..rc.own_tables
                     THEN [k \in DOMAIN entries[t] |-> Resolved(entries[t][k])] ELSE entries[t]
           n == Len(m.functions)
           x == Len(rc.exports)
<1>1. /\ rc \in Contexts /\ says \in Descriptions /\ Items <= MaxItems /\ Typed /\ EntriesKnown
      /\ entries \in [TableSet -> [1..TableSize -> Pointers]] /\ m \in Modules /\ Declared
      /\ TablesKnown /\ ExportsKnown
  BY Zenon DEF Inv, Typed
<1>2. m.functions = says.functions /\ Len(rc.funcentries) = n  BY AllCoded, Zenon
<1>3. /\ n \in Nat /\ DOMAIN m.functions = 1..n /\ m.functions \in Seq(Pointers)
      /\ x \in Nat /\ DOMAIN rc.exports = 1..x /\ rc.exports \in Seq(Exports)
  BY <1>1, Lengths, Fields, Zenon
<1>4. ~(Len(rc.funcentries) < n)  BY <1>2, <1>3
<1>5. /\ phase = "reading" /\ phase' = "loaded" /\ Complete /\ fault = "none" /\ fault' = fault
      /\ section' = section /\ m' = m /\ heap' = heap /\ says' = says
      /\ rc' = [rc EXCEPT !.import_funcentries = m.import_count, !.funcentries = m.functions,
                          !.exports = q]
      /\ entries' = [t \in DOMAIN entries |-> row(t)]
  <2>1. /\ phase = "reading" /\ Complete /\ fault = "none"
        /\ section' = section /\ m' = m /\ heap' = heap /\ says' = says
    BY Zenon DEF Finish
  <2>2. phase' = "loaded" /\ fault' = fault  BY <1>4, Zenon DEF Finish
  <2>3. rc' = [rc EXCEPT !.import_funcentries = m.import_count, !.funcentries = m.functions,
                         !.exports = q]
    BY <1>4, Zenon DEF Finish
  <2>4. entries' = [t \in DOMAIN entries |-> row(t)]
    BY <1>4 DEF Finish
  <2> QED  BY <2>1, <2>2, <2>3, <2>4
<1>6. ASSUME NEW e \in 1..x
      PROVE  LET i == says.exports[e]
             IN  /\ q[e] \in Exports /\ q[e].kind = rc.exports[e].kind
                 /\ q[e].kind = "function" => i \in DOMAIN m.functions /\ q[e].value = says.functions[i]
                 /\ q[e].kind # "function" => q[e].value = rc.exports[e].value
  <2> DEFINE i == says.exports[e]
             r == rc.exports[e]
  <2>1. r \in Exports  BY <1>3, Sequence, Zenon
  <2>2. q[e] = ResolvedExport(r)  BY <1>3, Zenon
  <2>3. CASE r.kind = "function"
    <3>1. i \in DOMAIN m.functions /\ r.value = FuncRecord(i)
      BY <1>1, <1>3, <1>5, <2>3 DEF ExportsKnown, PointerTo
    <3>2. Resolved(r.value) = says.functions[i]  BY <1>2, <3>1, ResolvedRight, Zenon
    <3>3. says.functions[i] \in Values  BY <1>2, <1>3, <3>1, Sequence, Zenon DEF Values
    <3>4. q[e] = [r EXCEPT !.value = says.functions[i]]
      BY <2>2, <2>3, <3>2, Zenon DEF ResolvedExport
    <3> HIDE DEF q, r, i
    <3>5. q[e] \in Exports /\ q[e].kind = r.kind /\ q[e].value = says.functions[i]
      BY <2>1, <3>3, <3>4 DEF Exports
    <3> QED  BY <2>3, <3>1, <3>5, Zenon DEF r, i
  <2>4. CASE r.kind # "function"
    <3>1. q[e] = r  BY <2>2, <2>4, Zenon DEF ResolvedExport
    <3>2. q[e].kind # "function"  BY <2>4, <3>1, Zenon
    <3> HIDE DEF q
    <3> QED  BY <2>1, <3>1, <3>2, Zenon
  <2> QED  BY <2>3, <2>4
<1>7. q \in Seq(Exports) /\ Len(q) = x /\ DOMAIN q = 1..x
  <2>1. \A e \in 1..x : q[e] \in Exports  BY <1>6
  <2>2. DOMAIN q = 1..x  BY <1>3, Zenon
  <2>3. q = [e \in 1..x |-> q[e]]  BY <1>3, Zenon
  <2> HIDE DEF q, x
  <2> QED  BY <1>3, <2>1, <2>2, <2>3
<1> HIDE DEF q
<1>8. /\ rc' \in Contexts /\ rc'.import_funcentries = m.import_count
      /\ rc'.funcentries = m.functions /\ rc'.exports = q
      /\ rc'.start = rc.start /\ rc'.own_globals = rc.own_globals
      /\ rc'.tables = rc.tables /\ rc'.memories = rc.memories
      /\ rc'.own_tables = rc.own_tables /\ rc'.own_memories = rc.own_memories
  <2>1. m.import_count \in Nat  BY <1>1, Fields, Zenon
  <2> QED  BY <1>1, <1>3, <1>5, <1>7, <2>1 DEF Contexts
<1>9. ASSUME NEW t \in TableSet, NEW k \in 1..TableSize
      PROVE  LET i == says.elements[t][k]
             IN  /\ row(t)[k] \in Pointers
                 /\ IF i = 0 THEN row(t)[k] = NULL
                    ELSE /\ i \in DOMAIN m.functions /\ t \in 1..rc.own_tables /\ section >= Element
                         /\ row(t)[k] = says.functions[i]
  <2> DEFINE i == says.elements[t][k]
  <2>1. DOMAIN entries[t] = 1..TableSize  BY <1>1
  <2>2. row(t)[k] = IF t \in 1..rc.own_tables THEN Resolved(entries[t][k]) ELSE entries[t][k]
    BY <2>1, Zenon
  <2>3. CASE i = 0
    <3>1. entries[t][k] = NULL  BY <1>1, <2>3, Zenon DEF TablesKnown
    <3> QED  BY <2>2, <2>3, <3>1, ResolvedRight, PointerTypes, Zenon
  <2>4. CASE i # 0
    <3>1. /\ i \in DOMAIN m.functions /\ t \in 1..rc.own_tables /\ section >= Element
          /\ entries[t][k] = PointerTo(i)
      BY <1>1, <2>4, Zenon DEF TablesKnown
    <3>2. entries[t][k] = FuncRecord(i)  BY <1>5, <3>1 DEF PointerTo
    <3>3. row(t)[k] = says.functions[i]  BY <1>2, <2>2, <3>1, <3>2, ResolvedRight, Zenon
    <3>4. says.functions[i] \in Pointers  BY <1>2, <1>3, <3>1, Sequence, Zenon
    <3> QED  BY <2>4, <3>1, <3>3, <3>4, Zenon
  <2> QED  BY <2>3, <2>4
<1>10. ASSUME NEW t \in TableSet
       PROVE  row(t) \in [1..TableSize -> Pointers]
  <2>1. entries[t] \in [1..TableSize -> Pointers]  BY <1>1, Zenon
  <2>2. DOMAIN entries[t] = 1..TableSize  BY <2>1, Zenon
  <2>3. \A k \in 1..TableSize : row(t)[k] \in Pointers  BY <1>9
  <2>4. row(t) = [k \in 1..TableSize |-> row(t)[k]]
    BY <2>1, <2>2
  <2> HIDE DEF row
  <2> QED  BY <2>3, <2>4
<1> HIDE DEF row
<1>11. /\ entries' \in [TableSet -> [1..TableSize -> Pointers]]
       /\ \A t \in TableSet : entries'[t] = row(t)
  <2>1. DOMAIN entries = TableSet  BY <1>1
  <2>2. entries' = [t \in TableSet |-> row(t)]  BY <1>5, <2>1, Zenon
  <2> QED  BY <1>10, <2>2
<1>12. SameFunctions /\ Onward /\ section \in 0..Data /\ Items' = Items
  <2>1. Items' = Items  BY <1>5, <1>7, <1>8, Zenon DEF Items
  <2> QED  BY <1>1, <1>5, <2>1, Sections DEF SameFunctions, Onward, Typed
<1>13. Typed'  BY <1>1, <1>5, <1>8, <1>11, <1>12, TypedNext, Zenon
<1>14. Declared'  BY <1>1, <1>5, <1>12, DeclaredKept, Zenon
<1>15. CodeInOrder'  BY <1>5, <1>12, CodeKept, Zenon DEF Inv, HasState
<1>16. GlobalsKnown'  BY <1>1, <1>5, <1>8, <1>12, GlobalsKept, Zenon DEF Inv
<1>17. \A i : PointerTo(i)' = says.functions[i]  BY <1>5, Zenon DEF PointerTo
<1>18. ExportsKnown'
  <2>1. \A i : Address(i)' = Address(i)  BY <1>5, <1>8, AddressesKept, Zenon
  <2>2. ASSUME NEW e \in 1..x
        PROVE  LET i == says.exports[e]
               IN  /\ q[e].kind = "function" => i \in DOMAIN m.functions /\ q[e].value = says.functions[i]
                   /\ q[e].kind = "global" => i \in DOMAIN m.globals /\ q[e].value = Address(i)
    <3>1. q[e].kind = "global" => q[e].kind # "function"  OBVIOUS
    <3> QED  BY <1>1, <1>3, <1>6, <3>1, Zenon DEF ExportsKnown
  <2>3. section' < Export => rc'.exports = <<>>
    <3>1. CASE section < Export
      <4>1. rc.exports = <<>>  BY <1>1, <3>1, Zenon DEF ExportsKnown
      <4>2. x = 0  BY <4>1
      <4> QED  BY <1>7, <1>8, <4>2
    <3> QED  BY <1>5, <3>1
  <2>4. Len(rc'.exports) = Len(says'.exports) /\ DOMAIN rc'.exports = 1..x
    BY <1>1, <1>5, <1>7, <1>8, Zenon DEF ExportsKnown
  <2> QED  BY <1>5, <1>8, <1>17, <2>1, <2>2, <2>3, <2>4, ZenonT(60) DEF ExportsKnown
<1>19. TablesKnown'
  <2>1. TableSet' = TableSet  BY DEF TableSet, OwnTables
  <2>2. ASSUME NEW t \in TableSet, NEW k \in 1..TableSize
        PROVE  (LET i == says.elements[t][k]
                IN  IF i = 0 THEN entries[t][k] = NULL
                    ELSE /\ i \in DOMAIN m.functions /\ t \in 1..rc.own_tables
                         /\ section >= Element /\ entries[t][k] = PointerTo(i))'
    <3> DEFINE i == says.elements[t][k]
    <3>1. says'.elements[t][k] = i /\ entries'[t][k] = row(t)[k]  BY <1>5, <1>11, Zenon
    <3>2. CASE i = 0
      <4>1. row(t)[k] = NULL  BY <1>9, <3>2, Zenon
      <4> QED  BY <3>1, <3>2, <4>1, Zenon
    <3>3. CASE i # 0
      <4>1. i \in DOMAIN m.functions /\ t \in 1..rc.own_tables /\ section >= Element
            /\ row(t)[k] = says.functions[i]
        BY <1>9, <3>3, Zenon
      <4>2. says'.elements[t][k] # 0  BY <3>1, <3>3, Zenon
      <4>3. (entries[t][k] = PointerTo(says.elements[t][k]))'
        BY <1>5, <3>1, <4>1, Zenon DEF PointerTo
      <4>4. says'.elements[t][k] \in DOMAIN m'.functions /\ t \in 1..rc'.own_tables /\ section' >= Element
        BY <1>5, <1>8, <3>1, <4>1, Zenon
      <4> QED  BY <4>2, <4>3, <4>4, Zenon
    <3> QED  BY <3>2, <3>3
  <2>3. /\ rc'.own_tables <= MaxOwn /\ rc'.own_tables <= Len(rc'.tables)
        /\ rc'.own_memories <= Len(rc'.memories)
        /\ section' < Table => rc'.own_tables = 0
        /\ section' < Memory => rc'.own_memories = 0
        /\ \A n1 \in DOMAIN rc'.tables : rc'.tables[n1] \in HostTables \cup (1..rc'.own_tables)
    BY <1>1, <1>5, <1>8, Zenon DEF TablesKnown
  <2> QED  BY <2>1, <2>2, <2>3, Zenon DEF TablesKnown
<1>20. EntriesKnown'
  <2>1. section # Global  BY <1>5, Zenon DEF Complete
  <2> QED  BY <1>1, <1>2, <1>5, <1>8, <2>1, Zenon DEF EntriesKnown
<1>21. Allocated'
  <2>1. phase # "new" /\ phase' # "new" /\ phase' # "reading" /\ phase' # "refused"  BY <1>5
  <2> QED
    BY <1>5, <1>8, <2>1, Zenon
    DEF Inv, Allocated, HasCompiler, HasState, StateHas, Needed, StateArrays, CompilerArrays,
        Itself, Lost, Blocks
<1> QED
  BY <1>13, <1>14, <1>15, <1>16, <1>18, <1>19, <1>20, <1>21, Zenon DEF Inv

-----------------------------------------------------------------------------
(* Freeing.                                                                *)

(* Blocks by their names: those of the compiler are not those of the state. *)
LEMMA Apart ==
  /\ \A p : p \in CompilerParts => /\ p \notin Needed /\ p[1] # "body" /\ p # <<"context">>
                                   /\ p # <<"funcentries">> /\ p[1] # "dropped locals"
  /\ \A p : p \in StateParts \ OwnCode => /\ p \notin CompilerArrays \cup Itself
                                          /\ p[1] # "body" /\ p[1] # "dropped locals"
  /\ <<"context">> \in StateArrays
<1> DEFINE compiler == {"types", "types_pool", "globals", "functions", "compiler", "jitc"}
           state == {"context", "strings_pool", "exports", "memories", "tables", "own_globals",
                     "own_tables", "own_memories", "funcentries", "entries", "bytes"}
<1>1. \A p \in CompilerParts : p[1] \in compiler
  <2>1. \A p \in CompilerParts : p \in Blocks(compiler)
    BY Zenon DEF CompilerParts, CompilerArrays, Blocks
  <2> QED  BY <2>1, BlockName, Zenon
<1>2. \A p : p \in Needed \/ p \in StateParts \ OwnCode => p[1] \in state
  <2>1. \A p : p \in Needed \/ p \in StateParts \ OwnCode =>
               p \in Blocks(state) \/ \E i : p = <<"entries", i>> \/ p = <<"bytes", i>>
    BY Zenon DEF Needed, StateParts, StateArrays, Blocks
  <2>2. \A i : <<"entries", i>>[1] \in state /\ <<"bytes", i>>[1] \in state  OBVIOUS
  <2> QED  BY <2>1, <2>2, BlockName, Zenon
<1>3. \A p \in CompilerArrays \cup Itself : p[1] \in compiler
  <2>1. \A p \in CompilerArrays \cup Itself : p \in Blocks(compiler)
    BY Zenon DEF CompilerArrays, Itself, Blocks
  <2> QED  BY <2>1, BlockName, Zenon
<1>4. \A x \in compiler : /\ x \notin state /\ x # "body" /\ x # "context"
                          /\ x # "funcentries" /\ x # "dropped locals"
  OBVIOUS
<1>5. \A x \in state : x # "body" /\ x # "dropped locals"  OBVIOUS
<1>6. <<"context">>[1] = "context" /\ <<"funcentries">>[1] = "funcentries"  OBVIOUS
<1>7. <<"context">> \in StateArrays  BY Zenon DEF StateArrays, Blocks
<1> HIDE DEF compiler, state
<1> QED  BY <1>1, <1>2, <1>3, <1>4, <1>5, <1>6, <1>7, Zenon

(* The state of a loaded module is whole, with the code of its functions.  *)
LEMMA StateWhole ==
  ASSUME Inv, phase = "loaded", HasState
  PROVE  StateParts \subseteq heap /\ {p \in heap : p[1] = "body"} = OwnCode
<1> DEFINE c == m.import_count
           n == Len(m.functions)
<1>1. /\ Typed /\ Declared /\ rc.funcentries = m.functions /\ m.functions = says.functions
      /\ rc.import_funcentries = c
  BY Zenon DEF Inv, EntriesKnown
<1>2. PICK k \in 0..Own : Coded(k)  BY Zenon DEF Inv, CodeInOrder
<1>3. c \in Nat /\ n \in Nat /\ Own = n - c /\ c <= n
  BY <1>1, Fields, Lengths, Zenon DEF Own, Declared
<1>4. k = Own
  <2>1. SUFFICES ASSUME k # Own PROVE FALSE  OBVIOUS
  <2> DEFINE b == k + 1
  <2>2. b \in 1..Own /\ ~(b <= k)
    <3> HIDE DEF c, n
    <3> QED  BY <1>3, <2>1
  <2> HIDE DEF b
  <2>3. m.functions[c + b] = NULL  BY <1>2, <2>2, Zenon DEF Coded
  <2>4. m.functions[c + b] = Body(b)  BY <1>1, <2>2, Zenon DEF Declared
  <2> QED  BY <2>3, <2>4, Distinct, Zenon
<1>5. ASSUME NEW p
      PROVE  p \in OwnCode <=> \E b \in 1..Own : p = Body(b)
  <2>1. OwnCode = {m.functions[i] : i \in c + 1 .. n}  BY <1>1, Zenon DEF OwnCode
  <2>2. \A b \in 1..Own : m.functions[c + b] = Body(b)  BY <1>1, Zenon DEF Declared
  <2>3. \A b \in 1..Own : c + b \in c + 1 .. n
    <3> HIDE DEF c, n
    <3> QED  BY <1>3
  <2>4. \A i \in c + 1 .. n : i - c \in 1..Own /\ c + (i - c) = i
    <3> HIDE DEF c, n
    <3> QED  BY <1>3
  <2>5. ASSUME NEW i \in c + 1 .. n  PROVE \E b \in 1..Own : m.functions[i] = Body(b)
    <3>1. i - c \in 1..Own /\ m.functions[c + (i - c)] = Body(i - c)  BY <2>2, <2>4, Zenon
    <3>2. m.functions[i] = Body(i - c)  BY <2>4, <3>1
    <3> QED  BY <3>1, <3>2, Zenon
  <2> QED  BY <2>1, <2>2, <2>3, <2>5, Zenon
<1>6. \A p : p \in heap /\ p[1] = "body" <=> p \in OwnCode
  <2>1. \A b : Body(b)[1] = "body"  BY DEF Body
  <2>2. \A p \in heap : p[1] = "body" => \E b \in 1..k : p = Body(b)  BY <1>2, Zenon DEF Coded
  <2>3. \A b \in 1..k : Body(b) \in heap  BY <1>2, Zenon DEF Coded
  <2>4. \A p : p \in OwnCode <=> \E b \in 1..k : p = Body(b)  BY <1>4, <1>5
  <2> QED  BY <2>1, <2>2, <2>3, <2>4, Zenon
<1>7. Needed \subseteq heap
  <2>1. phase # "new"  OBVIOUS
  <2> QED  BY <2>1, Zenon DEF Inv, Allocated
<1>8. StateParts \subseteq heap
  BY <1>6, <1>7, Zenon DEF StateParts, Needed
<1> QED  BY <1>6, <1>8, Zenon

LEMMA SectionNumber == section \in 0..Data => section \in Nat /\ section <= section
BY Sections

(* Freeing changes what is allocated and nothing else.                     *)
LEMMA FreesInv ==
  ASSUME Inv, NEW parts, Frees(parts), parts \subseteq heap, phase \in {"loaded", "refused"},
         HasState' => \A p \in parts : p[1] # "body",
         \A p \in parts : p[1] # "dropped locals", Allocated'
  PROVE  Inv'
<1>1. /\ heap' = heap \ parts /\ fault' = "none" /\ section' = section /\ phase' = phase
      /\ m' = m /\ rc' = rc /\ entries' = entries /\ says' = says
  BY Zenon DEF Frees
<1>2. /\ Typed /\ EntriesKnown /\ section \in 0..Data
  BY Zenon DEF Inv, Typed
<1>3. SameFunctions /\ Onward
  <2>1. section \in Nat /\ section <= section  BY <1>2, SectionNumber, Zenon
  <2> QED  BY <1>1, <2>1, Zenon DEF SameFunctions, Onward
<1>4. \A p : p \in heap' <=> p \in heap /\ p \notin parts  BY <1>1, Zenon
<1>5. phase = "loaded" \/ (phase = "refused" /\ ~HasEntries /\ ~HasEntries')
  <2>1. phase # "reading"  OBVIOUS
  <2>2. phase = "loaded" \/ ~HasEntries  BY <1>2, <2>1, Zenon DEF EntriesKnown
  <2>3. phase = "loaded" \/ phase = "refused"  OBVIOUS
  <2>4. ~HasEntries => ~HasEntries'  BY <1>4, Zenon DEF HasEntries
  <2> QED  BY <2>2, <2>3, <2>4, Zenon
<1>6. HasState' => HasState  BY <1>4, Zenon DEF HasState
<1>7. Typed'
  BY <1>1, <1>2, Zenon DEF Typed, Items, TableSet, OwnTables, Modules, Contexts, Descriptions
<1>8. Declared'  BY <1>1, <1>3, DeclaredKept, Zenon DEF Inv
<1>9. CodeInOrder'
  <2>1. HasState' => \A p : p[1] = "body" => (p \in heap <=> p \in heap')
    BY <1>4, Zenon
  <2>2. phase' # "loaded" /\ ~HasEntries' => phase # "loaded" /\ ~HasEntries
    BY <1>1, <1>5, Zenon
  <2>3. \A p : p[1] = "dropped locals" => (p \in heap <=> p \in heap')
    BY <1>4, Zenon
  <2> QED  BY <1>3, <1>6, <2>1, <2>2, <2>3, CodeKept, Zenon DEF Inv
<1>10. GlobalsKnown'  BY <1>1, <1>2, <1>3, GlobalsKept, Zenon DEF Inv
<1>11. \A i : PointerTo(i)' = PointerTo(i)  BY <1>1, Zenon DEF PointerTo, FuncRecord
<1>12. ExportsKnown'
  <2>1. \A i : Address(i)' = Address(i)  BY <1>1, AddressesKept, Zenon
  <2> QED  BY <1>1, <1>3, <1>11, <2>1, ExportsKept, Zenon DEF Inv
<1>13. TablesKnown'  BY <1>1, <1>3, <1>11, TablesKept, Zenon DEF Inv
<1>14. EntriesKnown'
  <2>1. phase = "refused" => phase # "loaded"  OBVIOUS
  <2> QED  BY <1>1, <1>2, <1>5, <2>1, Zenon DEF EntriesKnown
<1> QED  BY <1>7, <1>8, <1>9, <1>10, <1>12, <1>13, <1>14, Zenon DEF Inv

(* What Allocated says of a module that is no longer being read.           *)
LEMMA Ended ==
  ASSUME Inv, phase \in {"loaded", "refused"}
  PROVE  /\ \A p \in heap :
              \/ HasCompiler /\ p \in CompilerArrays \cup Itself
              \/ HasState /\ p \in StateHas
              \/ HasState /\ p[1] = "body"
              \/ p \in Lost \/ p[1] = "dropped locals"
         /\ HasCompiler => CompilerArrays \subseteq heap
         /\ HasState => Needed \subseteq heap
         /\ phase = "refused" => (HasCompiler <=> HasState)
<1>1. phase # "new"  OBVIOUS
<1> QED  BY <1>1, Zenon DEF Inv, Allocated

LEMMA Freed ==
  ASSUME Inv, NEW parts, Frees(parts), phase \in {"loaded", "refused"}
  PROVE  /\ phase' = phase /\ phase # "new" /\ phase # "reading"
         /\ \A p : p \in heap' <=> p \in heap /\ p \notin parts
         /\ CompilerArrays' = CompilerArrays /\ Itself' = Itself /\ Lost' = Lost
         /\ StateHas' = StateHas /\ Needed' = Needed
<1>1. heap' = heap \ parts /\ phase' = phase /\ rc' = rc  BY Zenon DEF Frees
<1>2. StateHas' = StateHas /\ Needed' = Needed
  BY <1>1, Zenon DEF StateHas, Needed, StateArrays, Blocks
<1>3. CompilerArrays' = CompilerArrays /\ Itself' = Itself /\ Lost' = Lost
  BY DEF CompilerArrays, Itself, Lost, Blocks
<1>4. phase # "new" /\ phase # "reading"  OBVIOUS
<1> QED  BY <1>1, <1>2, <1>3, <1>4, Zenon

LEMMA FreeStateInv ==
  ASSUME Inv, FreeState
  PROVE  Inv'
<1>1. phase = "loaded" /\ HasState /\ Frees(StateParts)  BY Zenon DEF FreeState, HasState
<1>2. StateParts \subseteq heap /\ {p \in heap : p[1] = "body"} = OwnCode
  BY <1>1, StateWhole, Zenon
<1>3. phase \in {"loaded", "refused"} /\ phase # "refused"  BY <1>1
<1>4. <<"context">> \in StateParts  BY Apart, Zenon DEF StateParts
<1>5. ~HasState'  BY <1>1, <1>3, <1>4, Freed, Zenon DEF HasState
<1>6. \A p : p \in heap /\ (p \in StateHas \/ p[1] = "body") => p \in StateParts
  <2>1. OwnCode \subseteq StateParts  BY Zenon DEF StateParts
  <2>2. \A p : p \in heap /\ p \in StateHas => p \in StateParts
    BY Zenon DEF StateHas, StateParts, Blocks
  <2> QED  BY <1>2, <2>1, <2>2, Zenon
<1>7. \A p : p \in CompilerArrays \cup Itself => p \notin StateParts
  <2>1. \A p \in OwnCode : p[1] = "body"  BY <1>2, Zenon
  <2>2. \A p : p \in CompilerArrays \cup Itself => p \notin OwnCode
    BY <2>1, NoBodies, Zenon
  <2> QED  BY <2>2, Apart, Zenon
<1>8. HasCompiler' <=> HasCompiler
  <2>1. <<"compiler">> \in Itself  BY Zenon DEF Itself, Blocks
  <2> QED  BY <1>1, <1>3, <1>7, <2>1, Freed, Zenon DEF HasCompiler
<1>9. \A p \in heap' : \/ HasCompiler' /\ p \in CompilerArrays \cup Itself
                       \/ p \in Lost \/ p[1] = "dropped locals"
  BY <1>1, <1>3, <1>6, <1>8, Ended, Freed, Zenon
<1>10. HasCompiler' => CompilerArrays \subseteq heap'
  BY <1>1, <1>3, <1>7, <1>8, Ended, Freed, Zenon
<1>11. Allocated'  BY <1>1, <1>3, <1>5, <1>9, <1>10, Freed, Zenon DEF Allocated
<1>12. \A p \in StateParts : p[1] # "dropped locals"
  <2>1. \A p \in OwnCode : p[1] = "body"  BY <1>2, Zenon
  <2>2. "body" # "dropped locals"  OBVIOUS
  <2> QED  BY <2>1, <2>2, Apart, Zenon
<1> QED  BY <1>1, <1>2, <1>3, <1>5, <1>11, <1>12, FreesInv, Zenon

LEMMA FreeCompilerInv ==
  ASSUME Inv, Plain, FreeCompiler
  PROVE  Inv'
<1>1. HasCompiler /\ phase # "reading" /\ phase # "new" /\ Typed
      /\ Frees(CompilerParts \cup (IF phase = "loaded" THEN {} ELSE StateParts))
  BY Zenon DEF FreeCompiler, HasCompiler, Plain, Inv
<1>2. phase \in {"loaded", "refused"}  BY <1>1 DEF Typed
<1>3. CompilerParts \subseteq heap
  <2>1. CompilerArrays \subseteq heap /\ <<"compiler">> \in heap
    BY <1>1, <1>2, Ended, Zenon DEF HasCompiler
  <2> QED  BY <2>1, Zenon DEF CompilerParts, Blocks
<1>4. CompilerArrays \cup Itself \subseteq CompilerParts  BY Zenon DEF CompilerParts, Itself
<1>5. <<"compiler">> \in CompilerParts  BY Zenon DEF CompilerParts, Blocks
<1>6. CASE phase = "loaded"
  <2>1. Frees(CompilerParts)
    <3>1. CompilerParts \cup (IF phase = "loaded" THEN {} ELSE StateParts) = CompilerParts
      BY <1>6, Zenon
    <3> QED  BY <1>1, <3>1, Zenon
  <2>2. ~HasCompiler'  BY <1>2, <1>5, <2>1, Freed, Zenon DEF HasCompiler
  <2>3. HasState' <=> HasState  BY <1>2, <2>1, Apart, Freed, Zenon DEF HasState
  <2>4. \A p \in heap' :
          \/ HasState' /\ p \in StateHas
          \/ HasState' /\ p[1] = "body"
          \/ p \in Lost \/ p[1] = "dropped locals"
    BY <1>2, <1>4, <2>1, <2>3, Ended, Freed, Zenon
  <2>5. HasState' => Needed \subseteq heap'  BY <1>2, <2>1, <2>3, Apart, Ended, Freed, Zenon
  <2>6. phase # "refused"  BY <1>6
  <2>7. Allocated'  BY <1>2, <2>1, <2>2, <2>4, <2>5, <2>6, Freed, Zenon DEF Allocated
  <2>8. \A p \in CompilerParts : p[1] # "body" /\ p[1] # "dropped locals"  BY Apart, Zenon
  <2> QED  BY <1>2, <1>3, <2>1, <2>7, <2>8, FreesInv, Zenon
<1>7. CASE phase = "refused"
  <2>0. phase # "loaded"  BY <1>7
  <2> DEFINE parts == CompilerParts \cup StateParts
  <2>1. Frees(parts)
    <3>1. CompilerParts \cup (IF phase = "loaded" THEN {} ELSE StateParts) = parts
      BY <2>0, Zenon
    <3> QED  BY <1>1, <3>1, Zenon
  <2>2. HasState  BY <1>1, <1>2, <1>7, Ended, Zenon
  <2>3. ~HasEntries /\ rc.funcentries = <<>> /\ rc.import_funcentries = 0
    BY <1>1, <2>0, Zenon DEF Inv, EntriesKnown
  <2>4. OwnCode = {}
    <3>1. rc.import_funcentries + 1 .. Len(rc.funcentries) = {}  BY <2>3
    <3> QED  BY <3>1, Zenon DEF OwnCode
  <2>5. \A p \in heap : p[1] # "body"
    <3>1. PICK k \in 0..Own : Coded(k)  BY Zenon DEF Inv, CodeInOrder
    <3>2. k = 0  BY <2>0, <2>3, <3>1, Zenon DEF Coded
    <3>3. 1..k = {}  BY <3>2
    <3> QED  BY <2>2, <3>1, <3>3, Zenon DEF Coded
  <2>6. parts \subseteq heap
    <3>1. Needed \subseteq heap  BY <1>2, <2>2, Ended, Zenon
    <3>2. StateParts \subseteq heap  BY <2>4, <3>1, Zenon DEF StateParts, Needed
    <3> QED  BY <1>3, <3>2, Zenon
  <2>7. \A p : p \in heap /\ p \in StateHas => p \in parts
    BY Zenon DEF StateHas, StateParts, Blocks
  <2>8. ~HasCompiler' /\ ~HasState'
    <3>1. <<"context">> \in parts /\ <<"compiler">> \in parts
      BY <1>5, Apart, Zenon DEF StateParts
    <3> HIDE DEF parts
    <3> QED  BY <1>2, <2>1, <3>1, Freed, Zenon DEF HasCompiler, HasState
  <2>9. CompilerArrays \cup Itself \subseteq parts  BY <1>4, Zenon
  <2>12. \A p \in parts : p[1] # "dropped locals"  BY <2>4, Apart, Zenon
  <2> HIDE DEF parts
  <2>10. \A p \in heap' : p \in Lost \/ p[1] = "dropped locals"
    BY <1>2, <2>1, <2>5, <2>7, <2>9, Ended, Freed, Zenon
  <2>11. Allocated'  BY <1>2, <2>1, <2>8, <2>10, Freed, Zenon DEF Allocated
  <2> QED  BY <1>2, <2>1, <2>6, <2>8, <2>11, <2>12, FreesInv, Zenon
<1> QED  BY <1>2, <1>6, <1>7

-----------------------------------------------------------------------------
(* Every step.                                                             *)

LEMMA InitInv ==
  ASSUME Init
  PROVE  Inv
<1> DEFINE none == [t \in TableSet |-> [k \in 1..TableSize |-> 0]]
<1>1. /\ phase = "new" /\ section = 0 /\ heap = Itself /\ fault = "none"
      /\ m = [functions |-> <<>>, import_count |-> 0, globals |-> <<>>]
      /\ rc = [tables |-> <<>>, own_tables |-> 0, memories |-> <<>>, own_memories |-> 0,
               own_globals |-> <<>>, exports |-> <<>>, start |-> 0,
               funcentries |-> <<>>, import_funcentries |-> 0]
      /\ entries = [t \in TableSet |-> [k \in 1..TableSize |-> NULL]]
      /\ says = [functions |-> <<>>, globals |-> <<>>, values |-> <<>>, exports |-> <<>>,
                 elements |-> none]
  BY Zenon DEF Init, TableSet, Itself
<1>2. none \in [TableSet -> [1..TableSize -> Nat]]  OBVIOUS
<1> HIDE DEF none
<1>3. \A S : <<>> \in Seq(S) /\ Len(<<>>) = 0 /\ DOMAIN <<>> = {}  OBVIOUS
<1>4. /\ m.functions = <<>> /\ m.import_count = 0 /\ m.globals = <<>> /\ m \in Modules
  BY <1>1, <1>3 DEF Modules
<1>5. /\ rc.tables = <<>> /\ rc.own_tables = 0 /\ rc.memories = <<>> /\ rc.own_memories = 0
      /\ rc.own_globals = <<>> /\ rc.exports = <<>> /\ rc.start = 0
      /\ rc.funcentries = <<>> /\ rc.import_funcentries = 0 /\ rc \in Contexts
  BY <1>1, <1>3 DEF Contexts
<1>6. /\ says.functions = <<>> /\ says.globals = <<>> /\ says.values = <<>>
      /\ says.exports = <<>> /\ says.elements = none /\ says \in Descriptions
  BY <1>1, <1>2, <1>3 DEF Descriptions
<1>7. phase # "loaded" /\ phase # "reading" /\ phase # "refused" /\ section \in 0..Data
      /\ section < Export /\ section < Start /\ section < Table /\ section < Memory
      /\ section # Global /\ section # Code
  BY <1>1, Sections
<1>8. ~HasEntries /\ ~HasState
  <2>1. \A p \in Itself : p = <<"compiler">>  BY Zenon DEF Itself, Blocks
  <2>2. <<"funcentries">>[1] # "compiler" /\ <<"context">>[1] # "compiler"
        /\ <<"compiler">>[1] = "compiler"
    OBVIOUS
  <2> QED  BY <1>1, <2>1, <2>2, Zenon DEF HasEntries, HasState
<1>9. Typed
  <2>1. Items = 0  BY <1>3, <1>4, <1>5 DEF Items
  <2>2. Items <= MaxItems  BY <2>1, LoaderAssumption
  <2>3. entries \in [TableSet -> [1..TableSize -> Pointers]]  BY <1>1, PointerTypes
  <2>4. phase \in {"new", "reading", "loaded", "refused"}  BY <1>1
  <2> QED  BY <1>1, <1>4, <1>5, <1>6, <1>7, <2>2, <2>3, <2>4, Zenon DEF Typed
<1>10. Own = 0 /\ 1..Own = {} /\ 1..0 = {}
  <2>1. Own = 0  BY <1>3, <1>4 DEF Own
  <2> QED  BY <2>1
<1>11. Declared
  <2>1. 0 <= MaxOwn /\ 0 <= Len(m.functions)  BY <1>3, <1>4, LoaderAssumption
  <2>2. Len(m.functions) = Len(says.functions)  BY <1>4, <1>6, Zenon
  <2> QED  BY <1>4, <1>10, <2>1, <2>2, Zenon DEF Declared
<1>12. CodeInOrder
  <2>1. 0 \in 0..Own  BY <1>10
  <2>2. \A p \in heap : p[1] # "dropped locals"  BY <1>1, NoBodies, Zenon
  <2>3. \A b : b \notin 1..Own /\ b \notin 1..0  BY <1>10, Zenon
  <2> QED  BY <1>8, <2>1, <2>2, <2>3, Zenon DEF Coded, CodeInOrder
<1>13. GlobalsKnown
  BY <1>3, <1>4, <1>5, <1>6, Zenon DEF GlobalsKnown
<1>14. ExportsKnown
  BY <1>3, <1>5, <1>6, Zenon DEF ExportsKnown
<1>15. TablesKnown
  <2>1. 0 <= MaxOwn /\ 0 <= Len(rc.tables) /\ 0 <= Len(rc.memories)
    BY <1>3, <1>5, LoaderAssumption
  <2>2. ASSUME NEW t \in TableSet, NEW k \in 1..TableSize
        PROVE  says.elements[t][k] = 0 /\ entries[t][k] = NULL
    BY <1>1, <1>6, Zenon DEF none
  <2> QED  BY <1>3, <1>5, <2>1, <2>2, Zenon DEF TablesKnown
<1>16. EntriesKnown
  BY <1>5, <1>7, <1>8, Zenon DEF EntriesKnown
<1>17. Allocated
  BY <1>1, <1>7, Zenon DEF Allocated
<1> QED  BY <1>9, <1>11, <1>12, <1>13, <1>14, <1>15, <1>16, <1>17, Zenon DEF Inv

LEMMA NextInv ==
  ASSUME Inv, Plain, [Next]_vars
  PROVE  Inv'
<1>1. CASE Compile  BY <1>1, CompileInv, Zenon
<1>2. CASE ReadSection
  <2>1. CASE \E s \in {Import, Global, Export, Element, Code, Data} : Refuse(s)
    BY <2>1, RefuseInv, Zenon
  <2>2. CASE \E accepted \in BOOLEAN : TypeSection(accepted)
    BY <2>2, TypeSectionInv, Zenon
  <2>3. CASE ReadImport
    BY <2>3, ImportFunctionInv, ImportTableInv, ImportMemoryInv, ImportGlobalInv, Zenon DEF ReadImport
  <2>4. CASE \E n \in 0..MaxOwn : FunctionSection(n) \/ TableSection(n) \/ MemorySection(n)
    BY <2>4, FunctionSectionInv, TableSectionInv, MemorySectionInv, Zenon
  <2>5. CASE BeginGlobals  BY <2>5, BeginGlobalsInv, Zenon
  <2>6. CASE EndGlobals  BY <2>6, EndGlobalsInv, Zenon
  <2>7. CASE \E e \in Initializers : DefineGlobal(e)
    BY <2>7, DefineGlobalInv, Zenon
  <2>8. CASE \E kind \in {"function", "table", "memory", "global"}, i \in 1..MaxItems :
               ExportItem(kind, i)
    BY <2>8, ExportItemInv, Zenon DEF Kinds
  <2>9. CASE \E i \in DOMAIN m.functions : StartSection(i)
    BY <2>9, StartSectionInv, Zenon
  <2>10. CASE \E n \in DOMAIN rc.tables, k \in 1..TableSize, i \in DOMAIN m.functions, d \in BOOLEAN :
                ElementItem(n, k, i, d)
    BY <2>10, ElementItemInv, Zenon
  <2>11. CASE \E n \in DOMAIN rc.memories : DataItem(n)
    BY <2>11, DataItemInv, Zenon
  <2>12. CASE BeginCode  BY <2>12, BeginCodeInv, Zenon
  <2>13. CASE EmitBody  BY <2>13, EmitBodyInv, Zenon
  <2> QED
    BY <1>2, <2>1, <2>2, <2>3, <2>4, <2>5, <2>6, <2>7, <2>8, <2>9, <2>10, <2>11, <2>12, <2>13, Zenon
    DEF ReadSection
<1>3. CASE Finish  BY <1>3, FinishInv, Zenon
<1>4. CASE FreeCompiler  BY <1>4, FreeCompilerInv, Zenon
<1>5. CASE FreeState  BY <1>5, FreeStateInv, Zenon
<1>6. CASE UNCHANGED vars
  <2>1. /\ phase' = phase /\ section' = section /\ m' = m /\ rc' = rc /\ entries' = entries
        /\ heap' = heap /\ says' = says /\ fault' = fault
    BY <1>6 DEF vars
  <2>2. Typed /\ section \in 0..Data  BY Zenon DEF Inv, Typed
  <2>3. SameFunctions /\ Onward
    BY <2>1, <2>2, Sections DEF SameFunctions, Onward
  <2>4. Typed'
    BY <2>1, <2>2, Zenon DEF Typed, Items, TableSet, OwnTables, Modules, Contexts, Descriptions
  <2>5. Declared'  BY <2>1, <2>3, DeclaredKept, Zenon DEF Inv
  <2>6. CodeInOrder'  BY <2>1, <2>3, CodeKept, Zenon DEF Inv, HasState, HasEntries
  <2>7. GlobalsKnown'  BY <2>1, <2>2, <2>3, GlobalsKept, Zenon DEF Inv
  <2>8. \A i : PointerTo(i)' = PointerTo(i)  BY <2>1, Zenon DEF PointerTo, FuncRecord
  <2>9. ExportsKnown'
    <3>1. \A i : Address(i)' = Address(i)  BY <2>1, AddressesKept, Zenon
    <3> QED  BY <2>1, <2>3, <2>8, <3>1, ExportsKept, Zenon DEF Inv
  <2>10. TablesKnown'  BY <2>1, <2>3, <2>8, TablesKept, Zenon DEF Inv
  <2>11. EntriesKnown'  BY <2>1, Zenon DEF Inv, EntriesKnown, HasEntries
  <2>12. Allocated'
    BY <2>1, Zenon
    DEF Inv, Allocated, HasCompiler, HasState, StateHas, Needed, StateArrays, CompilerArrays,
        Itself, Lost, Blocks
  <2> QED  BY <2>4, <2>5, <2>6, <2>7, <2>9, <2>10, <2>11, <2>12, Zenon DEF Inv
<1> QED  BY <1>1, <1>2, <1>3, <1>4, <1>5, <1>6, Zenon DEF Next

(* The invariant holds of every behaviour of a plain module.               *)
THEOREM LoaderAlwaysInv ==
  ASSUME Plain
  PROVE  Spec => []Inv
<1>1. Init => Inv  BY InitInv
<1>2. Inv /\ [Next]_vars => Inv'  BY NextInv
<1> QED  BY <1>1, <1>2, PTL DEF Spec

(* All of the loader's state keeps its type, and no access goes wrong on   *)
(* the way: load_module and the two pwart_free functions.                  *)
THEOREM LoaderAlwaysTyped ==
  ASSUME Plain
  PROVE  Spec => []TypeOK
<1>1. ASSUME Inv  PROVE TypeOK
  <2>1. /\ phase \in {"new", "reading", "loaded", "refused"} /\ section \in 0..Data
        /\ Typed /\ Declared /\ TablesKnown /\ ExportsKnown /\ GlobalsKnown /\ EntriesKnown
        /\ fault = "none" /\ entries \in [TableSet -> [1..TableSize -> Pointers]]
    BY <1>1, Zenon DEF Inv, Typed
  <2>2. m.functions \in Seq(Pointers) /\ m.import_count \in 0..Len(m.functions)
    <3> DEFINE n == Len(m.functions)
    <3>1. m.functions \in Seq(Pointers) /\ m.import_count \in Nat /\ n \in Nat
          /\ m.import_count <= n
      BY <2>1, Fields, Lengths, Zenon DEF Declared
    <3> HIDE DEF n
    <3>2. m.import_count \in 0..n  BY <3>1
    <3> QED  BY <3>1, <3>2 DEF n
  <2>3. \A i \in DOMAIN m.globals : m.globals[i].imm \in BOOLEAN
    <3>1. \A i \in DOMAIN m.globals : m.globals[i] \in Addressed
      BY <2>1, Fields, Sequence, Zenon
    <3> QED  BY <3>1 DEF Addressed
  <2>4. rc.funcentries \in Seq(Pointers) /\ rc.import_funcentries \in 0..Len(rc.funcentries)
    <3> DEFINE n == Len(rc.funcentries)
    <3>1. rc.funcentries \in Seq(Pointers) /\ rc.import_funcentries \in Nat /\ n \in Nat
      BY <2>1, Fields, Lengths, Zenon
    <3>2. rc.import_funcentries = 0 \/ rc.import_funcentries <= n
      BY <2>1, Zenon DEF EntriesKnown, Declared
    <3> HIDE DEF n
    <3>3. rc.import_funcentries \in 0..n  BY <3>1, <3>2
    <3> QED  BY <3>1, <3>3 DEF n
  <2>5. rc.own_tables \in 0..Len(rc.tables)
    <3> DEFINE n == Len(rc.tables)
    <3>1. rc.own_tables \in Nat /\ n \in Nat /\ rc.own_tables <= n
      BY <2>1, Fields, Lengths, Zenon DEF TablesKnown
    <3> HIDE DEF n
    <3>2. rc.own_tables \in 0..n  BY <3>1
    <3> QED  BY <3>2 DEF n
  <2>6. rc.own_memories \in 0..Len(rc.memories)
    <3> DEFINE n == Len(rc.memories)
    <3>1. rc.own_memories \in Nat /\ n \in Nat /\ rc.own_memories <= n
      BY <2>1, Fields, Lengths, Zenon DEF TablesKnown
    <3> HIDE DEF n
    <3>2. rc.own_memories \in 0..n  BY <3>1
    <3> QED  BY <3>2 DEF n
  <2>7. \A t \in DOMAIN entries : entries[t] \in [1..TableSize -> Pointers]  BY <2>1, Zenon
  <2>8. Len(rc.exports) = Len(says.exports) /\ Len(m.globals) = Len(says.globals)
    BY <2>1, Zenon DEF ExportsKnown, GlobalsKnown
  <2> QED  BY <2>1, <2>2, <2>3, <2>4, <2>5, <2>6, <2>7, <2>8, Zenon DEF TypeOK
<1> QED  BY <1>1, LoaderAlwaysInv, PTL

(* In a loaded module whatever can be called is code, and the code that    *)
(* the module says: pwart_free_module_compiler changes nothing of that.    *)
THEOREM LoadedCallsReachCode ==
  ASSUME Plain
  PROVE  Spec => []CallsReachCode
<1>1. ASSUME Inv  PROVE CallsReachCode
  <2> SUFFICES ASSUME phase = "loaded"  PROVE CallsReachCode  BY Zenon DEF CallsReachCode, Live
  <2>1. Typed /\ TablesKnown /\ ExportsKnown /\ EntriesKnown  BY <1>1, Zenon DEF Inv
  <2>2. rc.funcentries = says.functions /\ rc.funcentries = m.functions
        /\ rc.start \in {0} \cup DOMAIN m.functions
    BY <2>1, Zenon DEF EntriesKnown
  <2>3. ASSUME NEW n \in DOMAIN rc.tables, NEW k \in 1..TableSize
        PROVE  LET t == rc.tables[n]
                   i == says.elements[t][k]
               IN  entries[t][k] = IF i = 0 THEN NULL ELSE says.functions[i]
    <3>1. rc.tables[n] \in TableSet
      BY <2>1, Fields, Sequence, Zenon DEF TableSet
    <3> QED  BY <2>1, <3>1, Zenon DEF TablesKnown, PointerTo
  <2>4. \A e \in DOMAIN rc.exports :
          rc.exports[e].kind = "function" => rc.exports[e].value = says.functions[says.exports[e]]
    BY <2>1, Zenon DEF ExportsKnown, PointerTo
  <2> QED  BY <2>2, <2>3, <2>4, Zenon DEF CallsReachCode
<1> QED  BY <1>1, LoaderAlwaysInv, PTL

(* Generated code, and what is exported, has the addresses of the globals  *)
(* that the module says, in the array where they are by then, with their   *)
(* initial values.                                                         *)
THEOREM GlobalsAlwaysInPlace ==
  ASSUME Plain
  PROVE  Spec => []GlobalsInPlace
<1>1. ASSUME Inv  PROVE GlobalsInPlace
  <2> SUFFICES ASSUME (phase = "reading" /\ section >= Code) \/ phase = "loaded"
               PROVE  GlobalsInPlace
    BY Zenon DEF GlobalsInPlace, Live
  <2>1. Typed /\ GlobalsKnown /\ ExportsKnown /\ EntriesKnown  BY <1>1, Zenon DEF Inv
  <2>2. section # Global
    <3>1. CASE phase = "loaded"  BY <2>1, <3>1, Zenon DEF EntriesKnown
    <3>2. CASE section >= Code  BY <2>1, <3>2, Sections DEF Typed
    <3> QED  BY <3>1, <3>2
  <2>3. ASSUME NEW i \in DOMAIN m.globals
        PROVE  m.globals[i] = Described(FALSE, Address(i))
    <3>1. AddressIn(i)  BY <2>1, Zenon DEF GlobalsKnown
    <3>2. "own" \notin {"variable", "reference"}  OBVIOUS
    <3> QED  BY <2>2, <3>1, <3>2, Zenon DEF AddressIn, Address
  <2>4. rc.own_globals = says.values  BY <2>1, Zenon DEF GlobalsKnown
  <2>5. \A e \in DOMAIN rc.exports :
          rc.exports[e].kind = "global" => rc.exports[e].value = Address(says.exports[e])
    BY <2>1, Zenon DEF ExportsKnown
  <2> QED  BY <2>3, <2>4, <2>5, Zenon DEF GlobalsInPlace
<1> QED  BY <1>1, LoaderAlwaysInv, PTL

(* pwart_free_module_compiler and pwart_free_module_state free only what   *)
(* is allocated, and load_module writes inside its arrays.                 *)
THEOREM LoaderNeverFaults ==
  ASSUME Plain
  PROVE  Spec => []NoFault
<1>1. ASSUME Inv  PROVE NoFault  BY <1>1, Zenon DEF Inv, Typed, NoFault
<1> QED  BY <1>1, LoaderAlwaysInv, PTL

LEMMA StateNotLost == \A p \in StateHas : p \notin Lost
<1> DEFINE names == {"context", "strings_pool", "exports", "memories", "tables", "own_globals",
                     "own_tables", "own_memories", "funcentries", "entries", "bytes"}
<1>1. \A p \in StateHas : p \in Blocks(names) \/ \E i : p = <<"entries", i>> \/ p = <<"bytes", i>>
  BY Zenon DEF StateHas, StateArrays, Blocks
<1>2. \A i : <<"entries", i>>[1] \in names /\ <<"bytes", i>>[1] \in names  OBVIOUS
<1>3. \A p \in Lost : p[1] \in {"dropped types"}  BY BlockName, Zenon DEF Lost
<1>4. "dropped types" \notin names  OBVIOUS
<1> HIDE DEF names
<1> QED  BY <1>1, <1>2, <1>3, <1>4, BlockName, Zenon

(* The functions that have code are the first of a module's own.           *)
LEMMA CompiledAre ==
  ASSUME NEW k \in 0..Own, Coded(k), Typed, Declared
  PROVE  Compiled = 1..k
<1> DEFINE c == m.import_count
           n == Len(m.functions)
<1>1. c \in Nat /\ n \in Nat /\ Own = n - c /\ c <= n
  BY Fields, Lengths, Zenon DEF Own, Declared
<1>2. \A b \in 1..k : b \in 1..Own /\ b <= k
  <2> HIDE DEF c, n
  <2> QED  BY <1>1
<1>3. \A b \in 1..Own : b <= k => b \in 1..k
  <2> HIDE DEF c, n
  <2> QED  BY <1>1
<1>4. \A b \in 1..Own : m.functions[c + b] = IF b <= k THEN Body(b) ELSE NULL
  BY Zenon DEF Coded
<1>5. \A b : b \in Compiled <=> b \in 1..Own /\ m.functions[c + b] # NULL
  BY Zenon DEF Compiled, Own
<1> HIDE DEF c, n
<1>6. \A b : b \in Compiled <=> b \in 1..k
  BY <1>2, <1>3, <1>4, <1>5, Distinct, Zenon
<1> QED  BY <1>6, Zenon

(* A state that is in use is whole, and has no code but its own; when the  *)
(* compiler is freed nothing is left with it but the arrays that were      *)
(* dropped: of types by load_module, and of locals, one for each body, by  *)
(* pwart_EmitFunction.                                                     *)
THEOREM HeapAlwaysExact ==
  ASSUME Plain
  PROVE  Spec => []HeapExact
<1>1. ASSUME Inv  PROVE HeapExact
  <2>1. Live => StateParts \subseteq heap /\ {p \in heap : p[1] = "body"} = OwnCode
    BY <1>1, StateWhole, Zenon DEF Live, HasState
  <2>2. ASSUME ~HasCompiler
        PROVE  heap \ Lost
                 = {DroppedLocals(b) : b \in Compiled} \cup (IF Live THEN StateParts ELSE {})
    <3>1. Allocated /\ Typed /\ Declared  BY <1>1, Zenon DEF Inv
    <3>2. <<"compiler">> \in Itself  BY Zenon DEF Itself, Blocks
    <3>3. phase # "new" /\ phase # "reading"
      BY <2>2, <3>1, <3>2, Zenon DEF Allocated, HasCompiler, Itself
    <3>4. phase \in {"loaded", "refused"}  BY <3>1, <3>3 DEF Typed
    <3>5. HasState <=> Live
      <4>1. CASE phase = "loaded"  BY <4>1, Zenon DEF Live, HasState
      <4>2. CASE phase = "refused"
        <5>1. phase # "loaded"  BY <4>2
        <5> QED  BY <1>1, <2>2, <3>4, <4>2, <5>1, Ended, Zenon DEF Live
      <4> QED  BY <3>4, <4>1, <4>2
    <3>6. PICK k \in 0..Own : Coded(k)  BY <1>1, Zenon DEF Inv, CodeInOrder
    <3>7. Compiled = 1..k  BY <3>1, <3>6, CompiledAre, Zenon
    <3>8. \A p : p \in heap /\ p[1] = "dropped locals"
                <=> \E b \in Compiled : p = DroppedLocals(b)
      <4>1. \A b : DroppedLocals(b)[1] = "dropped locals"  BY DEF DroppedLocals
      <4> QED  BY <3>6, <3>7, <4>1, Zenon DEF Coded
    <3>9. \A p : p[1] = "dropped locals" => p \notin Lost  BY NoBodies, Zenon
    <3>10. \A p \in heap \ Lost : p[1] = "dropped locals" \/ (Live /\ p \in StateParts)
      <4>1. Live => \A p : p \in heap /\ p[1] = "body" => p \in StateParts
        <5>1. OwnCode \subseteq StateParts  BY Zenon DEF StateParts
        <5> QED  BY <2>1, <5>1, Zenon
      <4>2. \A p : p \in heap /\ p \in StateHas => p \in StateParts
        BY Zenon DEF StateHas, StateParts, Blocks
      <4> QED  BY <1>1, <2>2, <3>4, <3>5, <4>1, <4>2, Ended, Zenon
    <3>11. Live => \A p \in StateParts : p \in heap /\ p \notin Lost
      <4>1. \A p \in StateParts : p[1] = "body" \/ p \in StateHas
                                 \/ p \in OwnCode
        BY Zenon DEF StateParts, StateHas, Blocks
      <4>2. \A p \in StateHas : p \notin Lost  BY StateNotLost, Zenon
      <4> QED  BY <2>1, <4>1, <4>2, NoBodies, Zenon
    <3>12. \A p : p \in heap \ Lost
                 <=> \/ \E b \in Compiled : p = DroppedLocals(b)
                     \/ Live /\ p \in StateParts
      BY <3>8, <3>9, <3>10, <3>11, Zenon
    <3> QED  BY <3>12, Zenon
  <2> QED  BY <2>1, <2>2, Zenon DEF HeapExact, HasCompiler, Lost
<1> QED  BY <1>1, LoaderAlwaysInv, PTL
=============================================================================
