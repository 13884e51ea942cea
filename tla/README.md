# Verification of pwart

pwart is a WebAssembly runtime: it loads a module, translates each function to
machine code in one pass, with sljit as assembler, and lets the host call it.
This directory models the parts of it that carry its own logic in TLA+, checks
them with TLC on small instances, and proves the properties that matter most
with TLAPS for every instance. Paths below are those of the repository.

Contents: the [system](#the-system) and its hard parts, the
[modules](#modules-and-their-correspondence-to-the-code) and how they
correspond to the code, the [runs](#runs-and-bounds), where the
[code deviates](#where-the-code-deviates), what is [proved](#proofs), what is
[not modelled](#what-is-not-modelled), and the [plan](#plan).

## The system

| Component | Where | State it keeps | Operations |
|---|---|---|---|
| Runtime value stack | `pwart/pwart.c:139-231`, frame layout in `pwart/opgen_utils.c` | one block of memory per chain of calls; the frame pointer S0 of each running function | `allocate_stack`, `free_stack`, `rstack_put_*`, `rstack_get_*`; placing arguments, parameters, results |
| Operand stack translation | `pwart/opgen_utils.c`, `opgen_num.c`, `opgen_mem.c` | `m->stack[0..sp]`: for each operand where it is; `m->locals`; register reservations | one handler per instruction; `GetFreeReg`, `EmitSaveStack`, `EmitLoadReg`, `EmitCallFunc2`, `EmitFuncReturn` |
| Control flow translation | `pwart/opgen_ctl.c` | `m->blocks`: kind, `saved_sp`, labels, jumps to patch; `block_returned` | block, loop, if, else, end, br, br_if, br_table, return, call, call_indirect, drop, select |
| Scan before translation | `pwart/wagen.c:110-288` | a level and a flag per local, the cached memory, whether table entries are cached | `pwart_PrepareFunc`, once per function |
| Code generation | `pwart/wagen.c:294-387`, `opgen_utils.c:643-776` | `m->pc`, `m->locals` with their registers, machine code | `GenCode`, `FuncEnter`, `EmitFunction`, `FreeFunction` |
| Linear memory | `pwart/extfunc.c:289-309`, `modparser.c:44-58`, `346-366`, `opgen_mem.c:138-387` | `Memory`: bytes, pages, maximum, fixed; the base each function holds | the Memory section, memory.size, memory.grow, loads and stores |
| Namespace | `pwart/namespace.c` | `Namespace.mods`, an array of named modules | new, delete, find, remove, define_module, define_wasm_module, define_host_module |
| Module loader | `pwart/modparser.c` | `ModuleCompiler`, `RuntimeContext` and everything they own | `load_module`, `free_module`, `free_runtimectx` |
| Constant expressions, globals, segments | `pwart/extfunc.c:483-599`, `modparser.c:368-527` | `m->globals`, `own_globals`, table entries, memory contents | `waexpr_run_const`, the sections |
| Tables, bulk operations | `pwart/opgen_mem.c:72-136`, `389-483`, `extfunc.c:328-377` | `Table`: entries, size; the cached base of table 0 | table.get, set, size, copy, fill, memory.copy, fill, call_indirect |
| Executable memory | `sljit/sljit_src/allocator_src/sljitExecAllocatorCore.c` (vendored) | chunks, block headers, a list of free blocks, two counters | `sljit_malloc_exec`, `sljit_free_exec`, `sljit_free_unused_memory_exec` |
| libuv bridge | `pwart_syslib/libuv.c` | a record per thread; mutexes and conditions of libuv | thread_create, mutex_lock, cond_wait, ... |
| LEB128, arrays, pools | `pwart/util.c` | length, capacity, block | `read_LEB_`, `dynarr_*`, `pool_*` |
| Builtin functions | `pwart/extfunc.c`, `pwart/pwart.c:269-316` | none of their own | load_module, unload_module, import, memory.grow, ... |
| System library | `pwart_syslib/` | a host module each for libuv, WASI, libffi, simpleffi | load, unload, the wrapped calls |

How they interact:

- The embedder calls the namespace, the namespace calls the loader, the loader
  runs the scan and the code generator over each body. All of this is one
  thread of C.
- The namespace calls back host modules (`on_attached`, `on_detached`) in the
  middle of its operations, and they may call it again. Compiled code calls
  the builtins `load_module`, `unload_module` and `import`, which find the
  namespace through a pointer in the state of the module.
- Host functions and compiled functions hand each other arguments and results
  through the runtime stack, by arithmetic on addresses only.
- The translator and the machine code it emits share an understanding of where
  each operand is. The translator's descriptions are the state here: they are
  updated in the order of the text, while the code runs in the order of the
  branches taken.
- Compiled functions share the `Memory` structure with `memory.grow`, called
  by any function on the chain of calls, and by any thread that the program
  makes through the libuv bridge. pwart synchronises nothing itself.
- Compiled code hands addresses and counts of bytes, not tables and entries, to
  the C functions that copy and fill.
- Each compiled function is a block of the executable memory, taken when its
  body is compiled and freed with the state of its module.

What is hard, and what must be right:

| Component | Hard behaviour | Properties |
|---|---|---|
| Runtime stack | two hands lay out the same frame, nested calls from odd offsets | a value is read where it was written; frames aligned; no frame of a caller overwritten |
| Operand stack | registers run out, comparisons stay in the flags, operands alias locals, calls move frames | one operand per register; places apart; what is computed is what WebAssembly computes |
| Control flow | one label, many ways to it; a text that is read once | every way leaves operands in the same places; the same decisions as WebAssembly |
| Scan | a path may avoid what the text contains | whatever is read before it is set is zeroed |
| Linear memory | the block moves while functions hold its address | a base in use is current; pages zero at first, then kept |
| Threads | one grows the memory while others keep its base in a register | an access reaches the current block; all threads see one memory; a thread's record is freed once |
| Tables | indices become addresses, counts become counts of bytes; areas overlap | entries, copies and fills as WebAssembly has them, nothing next to a table touched |
| Executable memory | blocks are cut and joined in any order | the code of live functions is apart; list, headers and counters agree |
| Numbers | a number may take more bytes than an int has bits | what is read is what was written |
| Namespace | callbacks re-enter, arrays move, modules are freed, also while their code runs | one slot per name; one owner per module, attached and detached in pairs; deletion ends |
| Loader | an error in any section, imported and own things in one list | nothing freed twice, nothing of others freed; what is left is known block by block |

## Modules and their correspondence to the code

`PROJECT.json` maps each definition to its lines. The dependencies:

    RuntimeStack      <- MCRuntimeStack, FunctionProofs
    LinearMemory      <- MCLinearMemory, FunctionProofs
      INSTANCE WasmMemory      (what a memory promises)
    SharedMemory      <- MCSharedMemory, SharedMemoryProofs
      INSTANCE WasmMemory
    Tables            <- MCTables, TablesProofs
      INSTANCE WasmTables      (what tables and bulk operations promise)
    StackValues       <- StackValuesProofs
                      <- OperandStack <- MCOperandStack, OperandStackProofs
                           INSTANCE WasmStack       (what WebAssembly says)
                      <- ControlFlow  <- MCControlFlow, ControlFlowProofs
    LocalsInit        <- MCLocalsInit, FunctionProofs
    Namespace         <- MCNamespace, NamespaceProofs
      INSTANCE ModuleRegistry  (what a namespace promises)
    Loader            <- MCLoader, LoaderProofs
    ExecAllocator     <- MCExecAllocator, FunctionProofs
    Leb128

`OperandStackProofs` and `ControlFlowProofs` extend `StackValuesProofs`, which has
what both need. `FunctionProofs` is about four models at once, those of what a
generated function relies on; so that it can extend them all, the specifications
of three have names of their own: `MemorySpec`, `MemoryInit`, `MemoryNext` and
`MemoryTypeOK`, likewise `Scan` in LocalsInit and `Heap` in ExecAllocator.

**RuntimeStack.** A behaviour is a chain of nested calls; each transfers
arguments, runs, and transfers results back. `HostPut` and `HostGet` are the
ten functions `pwart_rstack_put_*` and `get_*`; they align addresses.
`FrameSlot` is `stackvalue_GetAlignedOffset`; it aligns an offset from the frame
pointer. `CallFrameOffset` is the correction in `pwart_EmitCallFunc2`.
Addresses are integers; the bytes themselves are left out, since a value is
identified by the address it was written to. The host's stack begins at an
address that is a multiple of 16 (`pwart_allocate_stack`), here 0.

**StackValues** holds what the two translation modules share. A description
`[type, mode, n, at]` is a `StackValue`: `mode` and `n` stand for `jit_type` and
`val`, `at` for `frame_offset`. Operators on a record `s` do to descriptions
what the C function does, and to the machine (frame, scratch registers, locals,
flags) what the emitted code does when it runs. Frame offsets are in words of
4 bytes; an i64 takes two cells that must match, so an overlap spoils it.
`Settled` overwrites everything no description names, so that states
that differ only in dead values are one state.

**OperandStack**: one action per instruction (`Const`, `LocalGet`, `LocalSet`,
`LocalTee`, `Drop`, `Arithmetic`, `Divide`, `Compare`, `Eqz`, `Select`,
`MemorySize`, `Call`, `ReturnCall`, `Return`), in straight-line code, each both
translated and run. The abstract specification **WasmStack** is a stack of typed
values and nothing else. The mapping takes each description to the value it
denotes.

**ControlFlow**: blocks, loops, ifs, branches, tables of branches and returns.
Code is translated once but may run many times or not at all, so the module
follows one run: `path` says whether the machine is where the translator is,
or on its way to a label further on, in which case only descriptions change. A
branch back to a loop goes on from its head, with the descriptions the
translator had there. `wasm` is the run WebAssembly prescribes, next to it.

**LocalsInit**: the loop of `pwart_PrepareFunc`, with `level` (`sv->val.op`),
`flagged` (`sv->jit_type & 1`) and `blocks`. `path` is as in ControlFlow;
`assigned` and `early` record what the run has set and what it has read too
early. A conditional branch not taken is no step, since the scan passes over it;
one that is taken, `br`, `br_if` or `br_table`, is `Branch`.

**LinearMemory**: `mem` is the `Memory` structure, `data` what each page holds.
`code` is what each function decided when it was compiled about finding the
block, `stack` the functions that run with the base each holds. `Enter`, `Leave`
and `TailCall` are calls among them; `GrowRefused`, `GrowFixed` and `GrowMoves`
are the three ways through `insn_memorygrow`, with `wa_realloc` answering an old
or a new address. The abstract **WasmMemory** has one set of pages.

**SharedMemory**: threads (`t`) of the libuv bridge that share one memory. `at[t]`
says what a thread is doing: running compiled code, in one of the six steps of
`insn_memorygrow` (`GrowReads`, `GrowRefused` or `GrowAdds`, `GrowReallocs`,
`GrowAssigns`, `GrowClears`: one for each use of what threads share), in one of
the wrappers around a mutex and a condition, or on its way back from a call.
`Return` is the code behind every call, which reloads the cached base; that the
wrappers are calls is what makes the design work. `block` is what `realloc` gave
last, `mem` what the structure says. `ThreadCreate`, `ThreadCreated`,
`ThreadEntry` and `ThreadExit` are the life of a thread and of its record. Each
access, assignment and call of libc is atomic; a data race, where there is one,
is an interleaving of these. To the abstract WasmMemory, the same that
LinearMemory implements, memory.grow happens when the last page is cleared.

**Tables**: tables and memories on one heap of bytes. A reference takes
`PtrSize` bytes that must match, so one that is misplaced or half overwritten
reads as no reference. `memoryfill` and `copy_bytes` are the C functions
`insn_memoryfill` and `insn_ref_copy_bytes`; the instructions compute addresses
and counts for them as the emitted code does. `Marked` is what the scan looks
for, `Entered` the start of a function, where the local with the entries of
table 0 is set or left alone. `CallIndirect` calls, or tail-calls, what the
entry refers to. The abstract **WasmTables** has arrays of cells.

**ExecAllocator**: `header` has the `block_header` at each place, `free` the
doubly linked list, `allocated` and `total` the two counters. The three ways
through `sljit_malloc_exec` are `MallocTakes`, `MallocCuts` and `MallocGrows`;
`MallocFails` when the system gives no chunk. `sljit_free_exec` joins in one
step (`Joined`), and then keeps the block (`FreeKeeps`) or gives the chunk back
(`FreeGivesBack`). Sizes are the real ones; `sljit_malloc_exec` holds a lock.

**Leb128**: `read_LEB_`, one byte per step, with the widths of a group of bits,
an int and a long as parameters. Bytes come from `Encoding`, the definition of
WebAssembly, with and without padding.

**Namespace**: `slots` is `n->mods`. `calls` is a stack of the operations and
callbacks under way: a callback is a frame on top of the operation that called
it, and while it is there it may start others, also on the module that is being
removed. `stale` marks a pointer into the array after the array has moved. A wasm
module that is called is a frame too (`Call`, `Return`); the builtins `LoadModule`
and `UnloadModule` are steps of the one that runs, and `Starts` is the rest of
load_module, which calls the start function of what it has loaded. `Free` is
`pwart_free_module_state` and allows the code that is freed to be on the stack
only with a liberty; coming back into it is the fault that `Return` records. The abstract
**ModuleRegistry** binds names to modules one at a time. Simplified: a host module is
defined under one name at a time; the namespace is deleted from outside of all
calls; compiling resolves imports, and so may call host modules, before
define_wasm_module changes anything, which is the same as those calls before it. That
`pwart_namespace_delete` frees the structure and not its array
(`namespace.c:95-98`) is left out.

**Loader**: one compiler and the state it makes. `m` is the `ModuleCompiler`,
`rc` its `context`, with the fields that matter later; `entries` is what tables
hold, `heap` what is allocated, by the names of the fields that point at it.
`says` is what the sections read so far mean in WebAssembly. Sections come in
the order the standard gives them, and items of Import, Global, Export, Element,
Code and Data sections are a step each, since any of them may be refused
(`Refuse`). Pointers into arrays that still grow carry the length the array had:
`FuncRecord(i)` is `&m->functions[i]`, `Variable(k, len)` an address in
`own_globals`. `EndGlobals` and `Finish` resolve what was provisional. `DroppedLocals(b)` is the array
that `pwart_EmitFunction` allocates for body b and `pwart_PrepareFunc` forgets.
Types, names and the bytes of code and data are left out.

## Runs and bounds

| Run | Checks | States |
|---|---|---|
| `runtime_stack_64` | layout and agreement, 8-byte pointers | 3 values per transfer, 3 frames, gaps of 0 and 4 bytes |
| `linear_memory` | current base, block, refinement of WasmMemory | word of 32 bytes, page of 4, 2 functions nested 3 deep |
| `shared_memory` | the same among threads, the life of their records | the embedder's thread and one more, 2 nested calls each, 2 pages, 2 addresses |
| `tables` | refinement of WasmTables | tables of 3 and 1 entries next to each other and to a memory of 2 bytes, 2 nested calls, pointers of 2 bytes |
| `exec_allocator` | blocks apart, list and counters | 3 chunks of 64 KiB, code of 20, 20000 and 45000 bytes, 3 functions at a time |
| `operand_stack` | registers, flags, places, refinement of WasmStack | 3 operands, 2 scratch registers, 2 callees |
| `control_flow` | labels and decisions | 2 operands, 2 nested blocks, tables of up to 3 |
| `locals_init` | zeroing | a parameter and a variable, 3 nested blocks |
| `namespace` | all of its properties, with liveness | 2 names, 2 host and 2 wasm modules, 5 calls under way |
| `loader` | calls, globals, ownership of everything allocated | 4 functions, tables, memories, globals and exports in all, 2 entries per table; 2 host functions, which symmetry exchanges |
| `loader_refused_late`, `leb128_wide_negative` | one deviation each, see below | |

Why the bounds are enough for what is asked:

- *Runtime stack.* Alignment repeats every 8 bytes; three values and gaps of 0
  and 4 reach every residue at every place. Three frames are a host, a function,
  and one that it calls. The theorems remove the bounds.
- *Memory.* The word is scaled so that 8 pages fill it: a memory has room to
  grow twice and to reach its maximum.
  Three frames are a function whose callee calls one that grows the memory.
- *Threads.* Whatever one thread does between two steps of another is there
  with two; that the mutex passes by a third was checked once with three threads
  and one call each (686,000 states). Two calls are a function that holds a base
  and one that it calls while others run. The theorems remove the bounds.
- *Tables.* Three entries overlap in either direction with an entry to spare;
  the second table and the memory are where a count that is too large would
  write. Two functions differ in whether they cache the entries.
- *Executable memory.* A block of 20000 fits three times into a chunk, one of
  45000 once with room left, one of 20 is below the least size; three functions
  leave a free block on the left, on the right, on both sides, and chunks that
  are given back and not.
- *Operand stack.* Two scratch registers for three operands: registers run out
  in every combination. `FirstSaved = 3` is above both, as on the hosts where
  all scratch registers are saved. One local is a parameter in the frame, the
  other is in a saved register. Two callees differ in whether they take
  operands, so that frames are moved up and not.
- *Control flow.* Two nested blocks are what is needed for a branch across a
  block; two operands, for one of the enclosing block and one result. A local
  is in a saved register; blocks have a result, loops do not, ifs with a result
  have an else. The values are 0 and 1, which every condition tells apart.
- *Scan.* Each local is treated alone; the other is there because the code
  loops over all. Three levels allow a set in a block, in an arm, in a loop.
- *Namespace.* Two names show a slot before and one after the one that is used;
  five calls are a replacement, its callback, a removal or a wasm module called in
  it, and what that calls in turn. The array is moved or not each time it may be.

- *Loader.* Four items in all allow two imported and two own functions, an
  imported and an own one with a table and an export of them, or an imported
  global before two own ones; a table of two entries shows a wrong one next to
  the right one. Arrays are taken to move each time they grow, which is more
  than they do.

`CHECK_DEADLOCK FALSE` is set where the system stops: a function that has
returned, a namespace that has been deleted, a module that has been freed.

**Fairness.** Only Namespace has a liveness property, `DeleteEnds`, and it
assumes `WF_vars(Operation)`: an operation that has begun runs on and callbacks
return. The code is single-threaded C without waiting, so each step of an
operation is taken unless a callback does not return; `Starts`, which goes on in
load_module, is such a step. Nothing is assumed of
what the embedder or a callback chooses to call: a callback may go on defining
modules, until it has used all that there are. Nor does a wasm module that was called
have to return (`Return` is not fair), so callbacks of a deletion do not call one in the
run: with `<<"in delete", "call">>` a deletion need not end.

**What code and callbacks are taken to do.** Some valid programs are translated
wrongly, and some callbacks are more than the namespace can bear. So that the
passing runs show what holds otherwise, `Shapes` (OperandStack, ControlFlow, Loader) and
`Liberties` (Namespace, SharedMemory) name these cases, and the passing runs leave them out.
The next section lists each one. A conjunct in the action concerned is all that
excludes it; adding its name to the constant brings it in and TLC then finds the
deviation.

## Where the code deviates

Shown by a run of this project:

| Run | What it shows |
|---|---|
| `loader_refused_late` | A module that is refused in or after its Code section, as one with a passive data segment is (`pwart/modparser.c:504`), makes `free_module` free entries never written and imported ones (`:581`, `:649`), and leaks the code generated so far. |
| `leb128_wide_negative` | A negative i64 whose encoding has five to nine bytes is read wrongly, since its sign is extended by an int (`pwart/util.c:92`): `i64.const -134217729` becomes -1. With `Shapes = {}`, that is without these numbers, the run passes. |

Found with the same models by adding the name to `Shapes` or `Liberties`, and
not kept as runs:

| Name | What happens |
|---|---|
| `"several results"` | Several results overwrite the parameters they come from (`opgen_utils.c:488`). |
| `"return"` | After an arm that returns, the result of an if is taken from what that arm had left (`opgen_ctl.c:117`). |
| `"tail call"` | The arguments of a tail call overwrite parameters that later arguments still are (`opgen_utils.c:404`); when the first is not at a multiple of 8, all are put above the frame instead of at its bottom (`:383`). |
| `"scattered"` | A call that has moved its frame up leaves an i32 result 4 bytes above the end of the operand below. As the second argument of the next call, as in `h(1, g())`, it is saved there (`opgen_utils.c:410`), while the callee reads its arguments one after the other: it gets garbage. Seen with callees `<<>> -> i32` and `i32 i32 -> i32`; the repository's `README.md:85` lists the WebAssembly MVP as implemented. |
| `"divide in memory"` | A division of memory.size divides an address (`opgen_num.c:458`). |
| `"apart"` | After a call whose frame was moved up, the result of a block is 4 bytes above the first place free (`opgen_utils.c:385`). Where one way to a label leaves it there and another does not, the code behind the label reads only one of the two (`opgen_ctl.c:117`). |
| `"excess"` | A branch with a result and other operands below leaves the result too high (`opgen_ctl.c:132`). |
| `"function"` | A branch to the function's own label uses a list that is NULL (`opgen_ctl.c:142`, `wagen.c:314`). |
| `"local index"` | br_table counts down the local its index came from (`opgen_ctl.c:215`). |
| `<<"in code", "lost struct">>` | `define_wasm_module` leaves the state with a pointer to its own local variable, through which load_module, unload_module and import go later (`namespace.c:153`). |
| `<<"in remove", "define new">>` | A module defined by `on_detached` moves the array under `remove_module` (`namespace.c:144`). The array moves as its second and fourth slots are filled, the first of which is the namespace's own, so this needs a third name. |
| `<<"in remove", "define same">>` | `on_detached` defines the name that is being removed: `remove_module` comes back and sets the type of the new module to NULL (`namespace.c:127`), or `define_module` stores its own over it (`:144`). The module is lost without being freed, and `OneOwner` is violated. |
| `<<"in code", "free">>` | A wasm module that replaces or removes itself, or one further out on the chain of calls, with load_module or unload_module, or a callback that does so, frees code that runs (`extfunc.c:396`, `:410`, `modparser.c:650`). `NoFault` is violated when the call returns. |
| `<<"in code", "bad bytes">>` | `load_module` of bytes that do not compile uses a state that is NULL (`extfunc.c:397`). |
| `<<"in delete", "remove">>`, `<<"in delete", "define over">>` | During deletion a callback can remove or replace a module that was freed already, which frees it again (`namespace.c:124`). |
| `"unlocked grow"`, `"unlocked access"` | A memory that moves is grown or used without the mutex: another thread goes on with the old block (`extfunc.c:301`), as `include/pwart.h:318` warns. |
| `"late handle"` | A thread ends before libuv has stored its handle, which is then written into the record it has freed (`libuv.c:67`). Libraries that store the handle first do not show it. |
| `"imported number"` | An imported constant number is copied to where code expects the address of a global (`modparser.c:283`); with a Global section it is taken for an offset (`:404`). |
| `"element of import"` | Elements put into an imported table stay pointers to records of the compiler, which is freed (`modparser.c:587`). |
| `"declarative"` | Element segments with flags 1 and 3 are written, at an offset that was never set (`modparser.c:464`). |
| `"function reference"` | ref.func as the initial value of a global leaves such a pointer too (`extfunc.c:529`). |
| `"no code"` | A module that imports functions and has no Code section makes load_module write through NULL (`modparser.c:583`). |
| `"unused"` | Freeing a compiler that has compiled nothing reads a state that is NULL (`modparser.c:665`). |

Found with the same models and other constants: the sum of pages wraps before it
is compared with the maximum (`extfunc.c:296`), so that growing by 2^32 - 1 answers the
old number of pages and takes one away; and a declared maximum of 65536 pages, whose
bytes wrap to 0, allocates nothing (`modparser.c:356`), where `include/pwart.h:93` says
that such a memory is allocated to its maximum. With `ScaledWord - 1` among `Deltas`, or
`Limited(1, 8)` among `Declared`, TLC finds `BlockHoldsPages` and `ImplementsWasmMemory`
violated (`NothingWraps` in `MCLinearMemory` rules both out). A function whose only use of table 0
is a table.copy or a table.fill reads a local that is not there, since the scan
does not look for these (`wagen.c:203-222`, `opgen_mem.c:95`): with `Bodies =
{{<<"fill", 0>>, <<"size", 0>>}}` TLC finds `ImplementsWasmTables` violated (`Prepared` rules this out),
where the repository's `README.md` lists Bulk Memory Operations as implemented.

Found while modelling, and left to the text: memory and table indices of the
bulk operations are read as signed numbers (`opgen_misc.c:101-132`), so one of 64
to 127 in one byte becomes negative; with 4-byte pointers
`pwart_rstack_put_ref` aligns to 8 and the reader does not (`pwart.c:180`; set
`PtrSize = 4` in `RuntimeStack64.cfg` and `ReadWhereWritten` fails); the array
for types that load_module begins with is dropped by the
Type section (`modparser.c:144`), and one of locals by each body that is compiled, since
`pwart_EmitFunction` allocates `m->locals` (`wagen.c:370`) and `pwart_PrepareFunc` sets it
to NULL and allocates it again (`:122`), while it is freed once: `HeapExact` says that these
are lost, and nothing else; memory.grow adds pages to a memory with a declared maximum,
where `include/pwart.h:91` says that it answers -1 (`extfunc.c:301`; it moves nothing, so
no property is disturbed); `on_detached` is called while the module can still be found
(`namespace.c:119`, `:127`), where `include/pwart.h:328` says that it is called after the
removal, which is what makes removing or defining the same name again from it possible;
an imported table or memory is compared by its maximum, not its size (`:260`);
`define_wasm_module` never frees a compiler that refused (`namespace.c:172`).

One more is excluded by a guard: a block that ends behind a branch to another block,
without a result on the stack, shows an old entry (`opgen_ctl.c:117`): excluded
by `Complete`.

## Proofs

The proofs are in `FunctionProofs` (the runtime stack, linear memory, the locals
and executable memory), `SharedMemoryProofs`, `TablesProofs`, `StackValuesProofs`,
`OperandStackProofs`, `ControlFlowProofs`, `NamespaceProofs` and `LoaderProofs`;
every leaf is checked by tlapm.

**Runtime stack.** Assumed: `RuntimeStackAssumption` (pointers of 4 or 8 bytes,
bounds that are numbers). `TypeAndLayout` proves `TypeOK` together with `Layout`
for both sizes. `NaturallyAligned`, `CallersUntouched` and `SlotsDisjoint` speak
of slots already written and are not inductive: `Layout` adds that frames lie
above the parameters of those below them, at multiples of 8 (`FramesOrdered`),
and that the cursor is past the last slot. `HandsAgree` needs 8-byte pointers:
the invariant `Agreement` says that each slot is the first aligned address after
the one before, so both sides compute the same chain. The lemma
`FrameSlotIsAddress` is the heart of it: from a frame at a multiple of 8,
aligning an offset and aligning an address are the same.

**Linear memory.** Assumed: `LinearMemoryAssumption`. `BaseAlwaysCurrent`
and `LinearMemoryTyped` have the hypothesis `NoWrap`, that
no declaration and no argument of memory.grow that is considered wraps, since
the code is wrong otherwise (see above). `BaseCurrent` speaks of the innermost
function only and is not inductive, since its caller becomes innermost. `Held`
says what the callers keep: constants of a memory that never moves; the others
are reloaded.

`BlockAlwaysHoldsPages` and `LinearImplementsWasm` have one more hypothesis,
`BytesFit`: that no count of bytes wraps. `Holds` is the invariant: the block has exactly the bytes that
memory.grow or the Memory section asked for, and the spare pages of a memory
that never moves are still zero, so that growing into them needs no clearing.

**Threads.** Assumed: `SharedMemoryAssumption`; every theorem has the hypothesis
`Liberties = {}`, with any of which the properties fail. `AccessCurrent` speaks of
a thread that may access now. It follows from `Current`: in a thread that runs and holds
the mutex, the innermost function has the base the structure has; and from
`Settled`: outside of two steps of memory.grow, the structure and the block agree,
and only the holder is in them (`Holding`). A thread that waits keeps a base that
may be stale, and may do so: it comes back by way of `Return`, and `Called` says that
there is a function to come back to. `Creating` ties a thread being made to its maker, and
`RecordsKept` is inductive with it. `SharedImplementsWasm` maps memory.grow to
its last step; `Grown` says what its locals hold on the way, `Spare` that pages
beyond the end of a fixed memory are zero.

**Tables.** Assumed: `TablesAssumption`, and `LayoutAssumption`, that the loader
has got a block of its own for each table and memory; there may be any number of
them, of any size. The hypothesis `Prepared` says that a body that copies or
fills table 0 also has an instruction the scan looks for; without it the code is
wrong (see above). The invariant is small: the structures never move, and a frame
has the entries its body was given (`Addressed`). The rest is arithmetic: byte k of
entry i is in a run of entries if i is (`InEntries`), the remainder by the size of
a pointer tells k, and what is copied to a byte of entry i comes from the same
byte of the entry it should come from (`CopiedFrom`). Then a step that writes inside
one table changes that table only (`OneTable`).

**Operand stack.** Assumed: `StackValuesAssumption` and `OperandStackAssumption`, of which three parts say
something: there are at least two scratch registers, which the divisions need; those a
call saves are numbered above them (`Scratch < FirstSaved`); and the
frame that is modelled has three words for each operand above the parameters. Types
and numbers of parameters, locals, results and callees, the registers, the values and
the body are free. `WellKept` is the invariant: each operand is described by
something that can be read (`Readable`), in its own place, that of a
local, or a register no other operand has (`Homed`, `Described`); places lie one above
the other (`Apart`); and only the topmost operand is in the flags (`FlagsTop`). Why
the frame never fills is part of it: a call whose first argument is at an odd word
moves its frame up, results are left there and the next call may move again, so an
operand's place has no bound of its own; `Placeable` says that the place of the ith
operand, rounded to a multiple of 8 bytes, ends within three words for each operand
up to it, and `LayoutClose` that laying out results keeps that. From `WellKept` follow `OperandsAlwaysTyped`,
`RegistersHeldOnce`, `FlagsAlwaysOnTop` and `PlacesAlwaysApart`, with whatever `Shapes`.

What the operators of StackValues do to descriptions and to the machine is proved in
`StackValuesProofs`, for OperandStack and ControlFlow alike.

`StackImplementsWasm` has the hypothesis `Shapes = {}`, since with any of them the code is
wrong. To `WellKept` it adds `Sound`: what operands and locals denote is a value, never
`Junk`. Each operator that moves operands gets a lemma that it changes what no operand
denotes (`Saves`, `Same`, `Agrees`), and each instruction one lemma about the
machine (`...Is`) and one that maps it to the step of WasmStack (`...Maps`). Calls are
the long part: whichever way the loop over the arguments runs, no argument
saved overwrites one still to be saved (`UpwardStep`, `DeliveredUp`).
The loops are recursive functions; `StepByStep` and `Recursion` derive the induction
over their steps from the least counterexample.

**Control flow.** Assumed: `StackValuesAssumption` and `ControlFlowAssumption`, which
says that types are types and that with a value all smaller ones are values, since
br_table counts its index down. The three properties are parts of one invariant,
`Right`, proved by `ControlRight`: `Ordered` holds with whatever `Shapes` and gives
`ControlTyped` and `ControlEnclosingSaved`; `Followed` holds with none and gives
`ControlFollowsWasm`. `EnclosingSaved` needs that inner blocks begin above outer ones
(`Nested`) and that the emitted code changes no description of an operand that is in
its own place (`Rests`): spilling is the identity there, and instructions only touch
what is above the operands that were saved as the block began. `FollowsWasm` speaks of the
path where it is being translated, and says nothing of a path that has jumped ahead.
`Waits` is what carries it there: the operands under the block are in their places,
which translating the text in between cannot change, and the result is in the first
place above them (`ResultPlace`), which is where the description at the label says.
`Goes` and `Prescribes` say that a path only waits for a label that is still to come, with
as many operands as the label asks for; that after a return no block around has a result is the
part of `Followed` that the shape `"return"` breaks.

**Locals.** Assumed: `LocalsInitAssumption` (nesting below the code's marker
0xffff). `ReadsAlwaysZeroed` proves that whatever is read too early is zeroed,
for any locals and nesting. `ReadsZeroed` needs `Sure` (a local whose level is
that of a block around the path has been set), and that needs `HeadsSure` and
`HeadsOpen`, the same of the levels a loop goes back to. `LevelsAlwaysOpen` is
the part of the invariant about the scan alone.

**Namespace.** Assumed: `NamespaceAssumption` (a host module is not a state, and
neither is called as a name that the model uses). `NamesAlwaysUnique` and
`NamespaceAlwaysTyped` need no hypothesis: `Nested` says how operations and
callbacks lie on one another, and that what define_module will store has the name
its slot has, however the array has moved since. The other theorems have the
hypothesis `Bearable`, that callbacks and modules do none of the seven things of
`Unbearable`: those in the table above, each of which breaks one of the three. What is left
to callbacks includes removing again the very module that is being removed, any number
of times, and whatever is possible amid a definition or between operations. `OneOwner` counts places and is not
inductive; `Apart` says that no module has two places, among slots and modules
about to be stored; `Owned` that a place means loaded, but for slots the deletion
has passed; `Removals` that the slot a remove_module comes back to still is the
host module it left, or has been vacated by a removal of the same slot inside of it,
that its pointer is not stale, and that a deletion and a removal are never under way
at once; `RunningLoaded` that code which runs, or is about to be started, is loaded; `Paired` that the attached host modules are
those in slots that are not being removed; `Passed` that a deletion leaves nothing
in use behind it. With these, `NamespaceImplementsRegistry` follows from one lemma:
a step that leaves what is in use in all other slots alone changes one binding
(`OneBinding`).

**Executable memory.** Assumed: `ExecAllocatorAssumption` (a header of 8 or 16
bytes, sizes that are numbers). `CodeStaysApart` and `FreeBlocksJoined` hold for
code of any sizes, in any number of chunks, freed in any order. `BlocksApart`
speaks of blocks in use only, and says nothing of what becomes of their neighbours;
the invariant `HeapInv` has all headers as one structure. `Heap` says that a chunk
begins with a block and ends with its terminator, that the place where a block ends
has a header with its size (`Followed`), that no header is inside a block
(`Clear`), and that a header leads back to the one before it (`Preceded`). Three
lemmas are the heart of it: cutting a block in two (`CutKeepsHeap`), making one of
two neighbours (`JoinKeepsHeap`), and adding or dropping chunks keep `Heap`. What
`sljit_free_exec` writes is then the same blocks with another owner, one join, or
two, by way of a heap that is never in memory. `NoneJoinable` is why two joins
are enough. That a chunk to be given back has no code left in it is `WholeIs`: a
free block with no bytes before it and the terminator behind is all there is.
The counters are sums over blocks. Which element a sum takes first is not
determined, so `TotalOut` proves, by way of a smallest set for which it would
fail, that it does not matter.

**Loader.** Assumed: `LoaderAssumption`. Every theorem has the hypothesis `Plain`,
that the module has none of the `Shapes` with which the loader goes wrong (a
refusal in or after the code, see above); everything else is free: any
imports, definitions, initialisers, exports, tables and their elements, in any
number, and a refusal in any section before the code. The properties
speak of a loaded module or of what is left at the end, so none is inductive. The
invariant `Inv` says what each array of the compiler and the state has while
sections are still being read: `Declared` counts them against what the module
says; `CodeInOrder` that exactly the first k own functions have code, which is
what the loop over the bodies relies on; `GlobalsKnown` that offsets stand for
addresses during the Global section only, where the array may still move, and are
all replaced at its end; `ExportsKnown`, `TablesKnown` and `EntriesKnown` that an
index becomes what it names, provisionally for a function whose code
is still to come, and that `Finish` replaces each of these; `Allocated` that the heap
has the blocks of the structures there are and of those that were lost, no more and no
fewer, which makes `NoFault` and `HeapExact` follow.

Only model-checked: the two runs that show a deviation, and `DeleteEnds`, since
liveness is out of the prover's reach.

## What is not modelled

- Operands in floating-point registers, references as operands, and 32-bit
  hosts in the translation modules, where an i64 is in two registers. Values of
  either type are 0 and 1, and one binary operation stands for all: what
  each opcode computes is one instruction of sljit.
- The width, offset and alignment of single loads and stores. pwart checks no
  bounds, by design, so the models keep accesses inside the memory.
- `unreachable`, code that cannot be reached, and block parameters.
- Traps: pwart has none of its own.
- sljit but for its allocator, libuv, uvwasi and libffi, which are modelled where
  pwart uses them or not at all. More than nine tenths of the lines under
  `sljit/` are encoders of instructions for processors, and tests of them:
  vendored, without state of their own beyond a buffer, and not pwart's logic.
- The characters of names, which are compared and never spelled out.
- Symbol look-up, which reads only; inspection and configuration.
- The system library but for threads, mutexes and conditions; the command line
  runner and the tests.
- Memory models weaker than interleaving: what a data race may do to a processor
  that reorders accesses is not followed.

`PROJECT.json` lists the hazards each property is for, and those no property
covers yet, with the reason.

## Plan

Done in the order planned: the runtime stack, memory, the two translation
modules, the scan, namespace and loader; then threads, tables, executable memory
and numbers. What is left, the most useful first:

1. *Loader and Namespace composed*: modules that import from each other, and
   what becomes of an import whose module is replaced or removed.
2. *ConstExpr*: arithmetic in initialisers; data segments; segments of expressions.
3. *OperandStack*, floats: registers of two kinds, what calls save.
4. *Syslib*: what unload frees while it is still registered.
