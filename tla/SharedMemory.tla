---------------------------- MODULE SharedMemory ----------------------------
(***************************************************************************)
(* Threads made by the libuv bridge that share one linear memory.  Nothing *)
(* in pwart is synchronised: memory.grow is a C function of several steps  *)
(* and compiled functions keep the base of the block in a register, to be  *)
(* reloaded after calls.  What makes sharing work is that the functions to *)
(* lock, unlock and wait are calls too, so that a thread which holds the   *)
(* mutex has reloaded its base since it got it.                            *)
(***************************************************************************)
EXTENDS Integers, Sequences

CONSTANTS
  Threads,    (* the threads there can be                                  *)
  Main,       (* the thread of the embedder                                *)
  Nobody,     (* no thread                                                 *)
  Addresses,  (* where realloc can put a block                             *)
  Maximum,    (* the maximum number of pages                               *)
  Values,     (* what is stored in pages                                   *)
  Liberties,  (* what programs and libuv do, see below                     *)
  MaxDepth    (* bound: nested calls of a thread                           *)

(* Liberties: "unlocked grow", "unlocked access" of a memory that moves,   *)
(* and "late handle", a thread that runs before its handle is stored.      *)
ASSUME SharedMemoryAssumption ==
  /\ Main \in Threads /\ Nobody \notin Threads
  /\ Maximum \in Nat \ {0} /\ MaxDepth \in Nat \ {0}
  /\ Liberties \subseteq {"unlocked grow", "unlocked access", "late handle"}

VARIABLES
  mem,     (* the Memory structure: pages, bytes, fixed                    *)
  block,   (* the block allocated: its address, pages and what they hold   *)
  holder,  (* who holds the mutex                                          *)
  at,      (* at[t]: what the thread is doing                              *)
  frames,  (* frames[t]: its compiled functions, innermost last: how each  *)
           (* finds the block, and the base it holds                       *)
  local,   (* local[t], in memory.grow: delta, prev_pages and the answer   *)
           (* of realloc                                                   *)
  record,  (* record[t]: its struct libuv_wasmthread                       *)
  handle,  (* handle[t]: whether uvt has been stored in it                 *)
  making,  (* making[t]: the thread that t is creating                     *)
  out,     (* the answer of the last operation on the memory               *)
  fault    (* the first wrong access to a thread's record                  *)

memoryVars == <<mem, block, out>>
threadVars == <<record, handle, making, fault>>
vars == <<memoryVars, holder, at, frames, local, threadVars>>

NULL == "null"
PageIndex == 0 .. Maximum - 1
NoLocals == [delta |-> 0, prev |-> 0, moved |-> NULL]
Doing == {"absent", "created", "running", "locking", "waiting", "returning", "creating",
          "growing", "resizing", "assigning", "clearing", "exiting", "ended"}

Init ==
  /\ \E n \in 1 .. Maximum, a \in Addresses, fixed \in BOOLEAN :
       /\ mem = [pages |-> n, bytes |-> a, fixed |-> fixed]
       /\ block = [at |-> a, pages |-> IF fixed THEN Maximum ELSE n,
                   data |-> [p \in PageIndex |-> "zero"]]
  /\ holder = Nobody
  /\ at = [t \in Threads |-> IF t = Main THEN "running" ELSE "absent"]
  /\ frames = [t \in Threads |-> <<>>]
  /\ local = [t \in Threads |-> NoLocals]
  /\ record = [t \in Threads |-> "none"] /\ handle = [t \in Threads |-> FALSE]
  /\ making = [t \in Threads |-> Nobody]
  /\ out = <<"none">> /\ fault = "none"

Goes(t, from, to) == at[t] = from /\ at' = [at EXCEPT ![t] = to]
InCode(t) == at[t] = "running" /\ frames[t] # <<>>

-----------------------------------------------------------------------------
(* Compiled functions.  The base is loaded on entry, reloaded after every  *)
(* call unless the memory is fixed, or read at each access.                *)

Modes == IF mem.fixed THEN {"constant", "direct"} ELSE {"cached", "direct"}
Top(t) == frames[t][Len(frames[t])]
BaseOf(fr) == IF fr.mode = "direct" THEN mem.bytes ELSE fr.base
Entered(mode) == [mode |-> mode, base |-> IF mode = "direct" THEN NULL ELSE mem.bytes]

Enter(t, mode) ==
  /\ at[t] = "running" /\ Len(frames[t]) < MaxDepth /\ mode \in Modes
  /\ t # Main => frames[t] # <<>>
  /\ frames' = [frames EXCEPT ![t] = Append(@, Entered(mode))]
  /\ UNCHANGED <<memoryVars, holder, at, local, threadVars>>

(* A thread does not end while it holds the mutex.                         *)
Leave(t) ==
  /\ InCode(t)
  /\ Len(frames[t]) = 1 => holder # t
  /\ frames' = [frames EXCEPT ![t] = SubSeq(@, 1, Len(@) - 1)]
  /\ at' = [at EXCEPT ![t] = IF Len(frames[t]) > 1 THEN "returning"
                             ELSE IF t = Main THEN "running" ELSE "exiting"]
  /\ UNCHANGED <<memoryVars, holder, local, threadVars>>

(* Mutant of Reloaded: a base is kept across calls.                        *)
NotReloaded(fr) == fr

Reloaded(fr) == IF fr.mode = "cached" THEN [fr EXCEPT !.base = mem.bytes] ELSE fr

(* Back from any call: of compiled code or of the host.                    *)
Return(t) ==
  /\ Goes(t, "returning", "running")
  /\ frames' = [frames EXCEPT ![t][Len(frames[t])] = Reloaded(Top(t))]
  /\ UNCHANGED <<memoryVars, holder, local, threadVars>>

(* A thread that holds the mutex may use the memory; so may any thread if  *)
(* the memory never moves.                                                 *)
MayAccess(t) ==
  InCode(t) /\ (holder = t \/ mem.fixed \/ "unlocked access" \in Liberties)

Store(t, p, v) ==
  /\ MayAccess(t) /\ p < mem.pages
  /\ block' = IF BaseOf(Top(t)) = block.at THEN [block EXCEPT !.data[p] = v] ELSE block
  /\ out' = <<"none">>
  /\ UNCHANGED <<mem, holder, at, frames, local, threadVars>>

Load(t, p) ==
  /\ MayAccess(t) /\ p < mem.pages
  /\ out' = <<"read", IF BaseOf(Top(t)) = block.at THEN block.data[p] ELSE "junk">>
  /\ UNCHANGED <<mem, block, holder, at, frames, local, threadVars>>

-----------------------------------------------------------------------------
(* memory.grow, one step for each time it uses what threads share.         *)

GrowReads(t, delta) ==
  /\ InCode(t) /\ Goes(t, "running", "growing")
  /\ holder = t \/ "unlocked grow" \in Liberties
  /\ local' = [local EXCEPT ![t].delta = delta, ![t].prev = mem.pages]
  /\ UNCHANGED <<memoryVars, holder, frames, threadVars>>

GrowRefused(t) ==
  /\ Goes(t, "growing", "returning")
  /\ local[t].delta + local[t].prev > Maximum
  /\ out' = <<"refused">>
  /\ local' = [local EXCEPT ![t] = NoLocals]
  /\ UNCHANGED <<mem, block, holder, frames, threadVars>>

GrowAdds(t) ==
  /\ Goes(t, "growing", IF mem.fixed THEN "returning" ELSE "resizing")
  /\ local[t].delta + local[t].prev <= Maximum
  /\ mem' = [mem EXCEPT !.pages = @ + local[t].delta]
  /\ out' = IF mem.fixed THEN <<"grew", local[t].prev>> ELSE out
  /\ local' = IF mem.fixed THEN [local EXCEPT ![t] = NoLocals] ELSE local
  /\ UNCHANGED <<block, holder, frames, threadVars>>

(* realloc keeps what both blocks have room for.                           *)
GrowReallocs(t) ==
  /\ Goes(t, "resizing", "assigning")
  /\ \E a \in Addresses :
       /\ block' = [at |-> a, pages |-> mem.pages,
                    data |-> [p \in PageIndex |->
                                IF p < block.pages /\ p < mem.pages THEN block.data[p]
                                ELSE "junk"]]
       /\ local' = [local EXCEPT ![t].moved = a]
  /\ UNCHANGED <<mem, holder, frames, out, threadVars>>

(* Mutant of GrowAssigns: the answer of realloc is lost.                   *)
GrowAssignsLost(t) ==
  /\ Goes(t, "assigning", "clearing")
  /\ mem' = [mem EXCEPT !.bytes = NULL]
  /\ UNCHANGED <<block, holder, frames, local, out, threadVars>>

GrowAssigns(t) ==
  /\ Goes(t, "assigning", "clearing")
  /\ mem' = [mem EXCEPT !.bytes = local[t].moved]
  /\ UNCHANGED <<block, holder, frames, local, out, threadVars>>

(* Mutant of Cleared: counted from the new end of the memory.              *)
ClearedBeyond(t) == mem.pages .. mem.pages + local[t].delta - 1

Cleared(t) == local[t].prev .. local[t].prev + local[t].delta - 1

GrowClears(t) ==
  /\ Goes(t, "clearing", "returning")
  /\ block' = IF mem.bytes # block.at THEN block
              ELSE [block EXCEPT !.data = [p \in PageIndex |->
                                             IF p \in Cleared(t) THEN "zero" ELSE @[p]]]
  /\ out' = <<"grew", local[t].prev>>
  /\ local' = [local EXCEPT ![t] = NoLocals]
  /\ UNCHANGED <<mem, holder, frames, threadVars>>

-----------------------------------------------------------------------------
(* The mutex and a condition variable: wrappers that call libuv.           *)

Lock(t) ==
  /\ InCode(t) /\ holder # t /\ Goes(t, "running", "locking")
  /\ UNCHANGED <<memoryVars, holder, frames, local, threadVars>>

(* Also when uv_cond_wait takes the mutex again.                           *)
Locked(t) ==
  /\ Goes(t, "locking", "returning") /\ holder = Nobody
  /\ holder' = t
  /\ UNCHANGED <<memoryVars, frames, local, threadVars>>

TryLock(t) ==
  /\ InCode(t) /\ holder # t /\ Goes(t, "running", "returning")
  /\ holder' = IF holder = Nobody THEN t ELSE holder
  /\ UNCHANGED <<memoryVars, frames, local, threadVars>>

Unlock(t) ==
  /\ InCode(t) /\ holder = t /\ Goes(t, "running", "returning")
  /\ holder' = Nobody
  /\ UNCHANGED <<memoryVars, frames, local, threadVars>>

Wait(t) ==
  /\ InCode(t) /\ holder = t /\ Goes(t, "running", "waiting")
  /\ holder' = Nobody
  /\ UNCHANGED <<memoryVars, frames, local, threadVars>>

(* uv_cond_wait may also return for no reason.                             *)
Wakes(t) ==
  /\ Goes(t, "waiting", "locking")
  /\ UNCHANGED <<memoryVars, holder, frames, local, threadVars>>

Signal(t) ==
  /\ InCode(t)
  /\ LET waiters == {u \in Threads : at[u] = "waiting"}
     IN  \E woken \in IF waiters = {} THEN {Nobody} ELSE waiters :
           at' = [u \in Threads |-> IF u = t THEN "returning"
                                    ELSE IF u = woken THEN "locking" ELSE at[u]]
  /\ UNCHANGED <<memoryVars, holder, frames, local, threadVars>>

-----------------------------------------------------------------------------
(* Threads: uv_thread_create allocates the record and starts the thread,   *)
(* and the handle is stored in the record before or after it runs.         *)

ThreadCreate(t, u) ==
  /\ InCode(t) /\ at[u] = "absent"
  /\ at' = [at EXCEPT ![t] = "creating", ![u] = "created"]
  /\ record' = [record EXCEPT ![u] = "allocated"]
  /\ making' = [making EXCEPT ![t] = u]
  /\ UNCHANGED <<memoryVars, holder, frames, local, handle, fault>>

ThreadCreated(t) ==
  /\ Goes(t, "creating", "returning")
  /\ handle' = [handle EXCEPT ![making[t]] = TRUE]
  /\ fault' = IF record[making[t]] = "allocated" THEN fault ELSE "handle stored in freed record"
  /\ making' = [making EXCEPT ![t] = Nobody]
  /\ UNCHANGED <<memoryVars, holder, frames, local, record>>

(* wasm__uv_wasmthreadentry, and the function that it calls is entered.    *)
ThreadEntry(u, mode) ==
  /\ Goes(u, "created", "running") /\ mode \in Modes
  /\ handle[u] \/ "late handle" \in Liberties
  /\ fault' = IF record[u] = "allocated" THEN fault ELSE "record used after it was freed"
  /\ frames' = [frames EXCEPT ![u] = <<Entered(mode)>>]
  /\ UNCHANGED <<memoryVars, holder, local, record, handle, making>>

(* Mutant of ThreadExit: the record is left.                               *)
ThreadExitKeeps(u) ==
  /\ Goes(u, "exiting", "ended")
  /\ UNCHANGED <<memoryVars, holder, frames, local, threadVars>>

(* Its stack, then its record are freed.                                   *)
ThreadExit(u) ==
  /\ Goes(u, "exiting", "ended")
  /\ fault' = IF record[u] = "allocated" THEN fault ELSE "record used after it was freed"
  /\ record' = [record EXCEPT ![u] = "freed"]
  /\ UNCHANGED <<memoryVars, holder, frames, local, handle, making>>

Grow(t) ==
  \/ \E delta \in 0 .. Maximum : GrowReads(t, delta)
  \/ GrowRefused(t) \/ GrowAdds(t) \/ GrowReallocs(t) \/ GrowAssigns(t) \/ GrowClears(t)

Synchronise(t) ==
  Lock(t) \/ Locked(t) \/ TryLock(t) \/ Unlock(t) \/ Wait(t) \/ Wakes(t) \/ Signal(t)

Step(t) ==
  \/ \E mode \in {"cached", "constant", "direct"} : Enter(t, mode) \/ ThreadEntry(t, mode)
  \/ Leave(t) \/ Return(t)
  \/ \E p \in PageIndex : Load(t, p) \/ \E v \in Values : Store(t, p, v)
  \/ Grow(t) \/ Synchronise(t)
  \/ \E u \in Threads \ {Main} : ThreadCreate(t, u)
  \/ ThreadCreated(t) \/ ThreadExit(t)

Next == \E t \in Threads : Step(t)
Spec == Init /\ [][Next]_vars

-----------------------------------------------------------------------------

Frame == [mode : {"cached", "constant", "direct"}, base : Addresses \cup {NULL}]
TypeOK ==
  /\ mem \in [pages : Nat, bytes : Addresses, fixed : BOOLEAN]
  /\ block \in [at : Addresses, pages : Nat, data : [PageIndex -> Values \cup {"zero", "junk"}]]
  /\ holder \in Threads \cup {Nobody} /\ at \in [Threads -> Doing]
  /\ frames \in [Threads -> Seq(Frame)]
  /\ local \in [Threads -> [delta : Nat, prev : Nat, moved : Addresses \cup {NULL}]]
  /\ record \in [Threads -> {"none", "allocated", "freed"}]
  /\ handle \in [Threads -> BOOLEAN] /\ making \in [Threads -> Threads \cup {Nobody}]

(* Whichever thread may use the memory next does so through the address of *)
(* the block there is now, wherever other threads have moved it since the  *)
(* function was entered, and finds the block as large as the memory.       *)
AccessCurrent ==
  \A t \in Threads :
    MayAccess(t) => BaseOf(Top(t)) = block.at /\ mem.pages <= block.pages

(* The memory.grow that has changed the number of pages but not yet put    *)
(* zeros into the new ones.                                                *)
Unfinished == {t \in Threads : at[t] \in {"resizing", "assigning", "clearing"}}
Pages == IF Unfinished = {} THEN mem.pages ELSE local[CHOOSE t \in Unfinished : TRUE].prev

Wasm == INSTANCE WasmMemory WITH
  limit <- Maximum,
  pages <- Pages,
  data <- [p \in PageIndex |-> IF p < Pages THEN block.data[p] ELSE "zero"]

(* To all threads it is one memory, each operation of which happens at     *)
(* once, although memory.grow takes several steps.                         *)
ImplementsWasmMemory == Wasm!Spec

(* The record of a thread is there from its creation until it has ended,   *)
(* and nobody uses it later.                                               *)
RecordsKept ==
  /\ fault = "none"
  /\ \A t \in Threads \ {Main} :
       record[t] = IF at[t] = "absent" THEN "none"
                   ELSE IF at[t] = "ended" THEN "freed" ELSE "allocated"
=============================================================================
