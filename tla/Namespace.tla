----------------------------- MODULE Namespace -----------------------------
(***************************************************************************)
(* A namespace: an array of named modules, host modules with callbacks and *)
(* wasm modules with a state the namespace frees.  Everything runs in one  *)
(* thread, but the callbacks of host modules run in the middle of the      *)
(* operations and may themselves call them, and so may the code of a wasm  *)
(* module, which an operation may free while it runs.                      *)
(***************************************************************************)
EXTENDS Integers, Sequences, SequencesExt, FiniteSets

CONSTANTS
  Names,      (* the names of modules                                      *)
  Hosts,      (* host modules                                              *)
  States,     (* states of wasm modules                                    *)
  Liberties,  (* what callbacks and modules do, see May                    *)
  MaxCalls    (* bound: no more is begun when so many calls are under way  *)

ASSUME NamespaceAssumption ==
  /\ Hosts \cap States = {}
  /\ {"meta", "none"} \cap (Names \cup Hosts \cup States) = {}

VARIABLES
  slots,      (* n->mods: [name, type, val]                                *)
  status,     (* status[s] of a wasm module: "unused", "loaded", "freed"   *)
  attached,   (* the host modules told that they are attached, not yet     *)
              (* told that they are detached                               *)
  lasting,    (* the wasm modules whose named module the embedder keeps    *)
  calls,      (* the operations, callbacks and wasm functions under way,   *)
              (* innermost last                                            *)
  deleted,    (* whether the namespace has been deleted                    *)
  fault       (* the first access to memory that is no longer valid        *)

vars == <<slots, status, attached, lasting, calls, deleted, fault>>

Meta == "meta"
Slot(name, type, val) == [name |-> name, type |-> type, val |-> val]
Null == "null"
NoModule == Slot("none", Null, "none")

(* Calls under way.  slot is what the pointer m of an operation points at; *)
(* it is stale once the array has been moved.  mod is what define_module   *)
(* stores there afterwards, if it called remove_module.  code is the wasm  *)
(* module that runs, or that load_module will start.                       *)
Frame(op, i, mod, s) ==
  [op |-> op, slot |-> i, stale |-> FALSE, mod |-> mod, code |-> s]
Removing(i, mod) == Frame("remove", i, mod, "none")
Deleting(i) == Frame("delete", i, NoModule, "none")
Callback(op) == Frame(op, 0, NoModule, "none")
Running(s) == Frame("running", 0, NoModule, s)
Starting(s) == Frame("starting", 0, NoModule, s)

Init ==
  /\ slots = <<Slot(Meta, "host", Meta)>>
  /\ status = [s \in States |-> "unused"]
  /\ attached = {} /\ lasting = {} /\ calls = <<>>
  /\ deleted = FALSE /\ fault = "none"

InDelete == \E k \in DOMAIN calls : calls[k].op = "delete"
Pending(i) == \E k \in DOMAIN calls : calls[k].op = "remove" /\ calls[k].slot = i

(* The operation that callbacks, and the code they call, are amid.         *)
Amid ==
  IF InDelete THEN "in delete"
  ELSE IF \E k \in DOMAIN calls : calls[k].op = "remove" THEN "in remove"
  ELSE IF \E k \in DOMAIN calls : calls[k].op = "on_attached" THEN "in define" ELSE "between"

(* Between operations the embedder and the code it calls may do anything   *)
(* (but what is said at each operation); callbacks, and the code they      *)
(* call, do what Liberties allows amid an operation.                       *)
May(what) ==
  /\ ~deleted /\ fault = "none" /\ Len(calls) < MaxCalls
  /\ calls # <<>> => Last(calls).op \in {"on_attached", "on_detached", "running"}
  /\ Amid = "between" \/ <<Amid, what>> \in Liberties

(* Mutant of Find: names of removed modules are passed over.               *)
FindInUse(n) ==
  SelectInSeq(slots, LAMBDA s : s.name = n /\ s.type # Null)

(* find_module: also finds the names of modules that have been removed.    *)
Find(n) == SelectInSeq(slots, LAMBDA s : s.name = n)

-----------------------------------------------------------------------------

Loaded(mod, st) == IF mod.type = "wasm" THEN [st EXCEPT ![mod.val] = "loaded"] ELSE st

(* pwart_free_module_state, and the state of mod, if any, is loaded.  The  *)
(* code of the module may be running, or may be called to return to.       *)
Free(s, mod) ==
  /\ (\E k \in DOMAIN calls : calls[k].code = s) => <<"in code", "free">> \in Liberties
  /\ status' = Loaded(mod, [status EXCEPT ![s] = "freed"])
  /\ fault' = IF status[s] = "loaded" THEN fault ELSE "freed twice"

(* define_module ends by telling a host module that it is attached.        *)
Attach(mod, under) ==
  /\ calls' = IF mod.type = "host" THEN Append(under, Callback("on_attached")) ELSE under
  /\ attached' = IF mod.type = "host" THEN attached \cup {mod.val} ELSE attached

(* A host module is told that it is detached before anything is changed.   *)
Detach(i, under) ==
  /\ calls' = Append(under, Callback("on_detached"))
  /\ attached' = attached \ {slots[i].val}
  /\ UNCHANGED slots

(* dynarr_push doubles the array when it would be full, and realloc moves  *)
(* it or not; pointers into it are stale once it has moved.                *)
Grows == Len(slots) + 1 \in {1, 2, 4, 8, 16}
Stale(cs) == [k \in DOMAIN cs |-> [cs[k] EXCEPT !.stale = TRUE]]

(* define_module, of a module that is loaded in the same step; under are   *)
(* the calls that are under way.  The module that has the name is removed  *)
(* first, also one whose removal is already under way.                     *)
Define(mod, under) ==
  LET i == Find(mod.name)
  IN  \/ /\ i = 0 /\ May("define new")
         /\ slots' = Append(slots, mod)
         /\ \E moved \in {FALSE, Grows} : Attach(mod, IF moved THEN Stale(under) ELSE under)
         /\ status' = Loaded(mod, status) /\ UNCHANGED fault
      \/ /\ i # 0 /\ May(IF Pending(i) THEN "define same" ELSE "define over")
         /\ IF slots[i].type = "host"
            THEN Detach(i, Append(under, Removing(i, mod)))
            ELSE slots' = [slots EXCEPT ![i] = mod] /\ Attach(mod, under)
         /\ IF slots[i].type = "wasm" THEN Free(slots[i].val, mod)
            ELSE status' = Loaded(mod, status) /\ UNCHANGED fault

(* A host module is defined under one name at a time.                      *)
DefineHost(n, h) ==
  /\ h \notin attached
  /\ \A k \in DOMAIN calls : calls[k].mod.val # h
  /\ \A i \in DOMAIN slots : slots[i].type = "host" => slots[i].val # h
  /\ Define(Slot(n, "host", h), calls)
  /\ UNCHANGED <<lasting, deleted>>

(* define_wasm_module, whose named module is gone when it returns, or      *)
(* define_module by an embedder that keeps it.  Bytes that do not compile  *)
(* change nothing.                                                         *)
DefineWasm(n, s, keeps, under) ==
  /\ status[s] = "unused"
  /\ Define(Slot(n, "wasm", s), under)
  /\ lasting' = IF keeps THEN lasting \cup {s} ELSE lasting
  /\ UNCHANGED deleted

(* Mutant of Vacated: the type is not set to NULL.                         *)
VacatedNot(i) == slots

(* Mutant of Vacated: the slots above move down.                           *)
VacatedShift(i) == RemoveAt(slots, i)

Vacated(i) == [slots EXCEPT ![i].type = Null]

(* A module whose removal is under way may be removed again, and is told   *)
(* again that it is detached.                                              *)
RemoveModule(n) ==
  LET i == Find(n)
  IN  /\ i # 0 /\ May("remove")
      /\ CASE slots[i].type = "host" ->
                Detach(i, Append(calls, Removing(i, NoModule))) /\ UNCHANGED <<status, fault>>
           [] slots[i].type = "wasm" ->
                slots' = Vacated(i) /\ Free(slots[i].val, NoModule) /\ UNCHANGED <<calls, attached>>
           [] slots[i].type = Null -> UNCHANGED <<slots, status, fault, calls, attached>>
      /\ UNCHANGED <<lasting, deleted>>

AttachedReturns ==
  /\ calls # <<>> /\ Last(calls).op = "on_attached" /\ fault = "none"
  /\ calls' = Front(calls)
  /\ UNCHANGED <<slots, status, attached, lasting, deleted, fault>>

(* Back in remove_module, which sets the type, and in the define_module    *)
(* that may have called it, which stores its module; or in delete.         *)
DetachedReturns ==
  /\ calls # <<>> /\ Last(calls).op = "on_detached" /\ fault = "none"
  /\ LET under == Front(calls)
         f == Last(under)
     IN  IF f.op = "delete" THEN calls' = under /\ UNCHANGED <<slots, attached, fault>>
         ELSE IF f.stale THEN /\ fault' = "stale slot" /\ calls' = Front(under)
                              /\ UNCHANGED <<slots, attached>>
         ELSE /\ IF f.mod = NoModule
                 THEN slots' = Vacated(f.slot) /\ calls' = Front(under) /\ UNCHANGED attached
                 ELSE slots' = [slots EXCEPT ![f.slot] = f.mod] /\ Attach(f.mod, Front(under))
              /\ UNCHANGED fault
  /\ UNCHANGED <<status, lasting, deleted>>

-----------------------------------------------------------------------------
(* The code of wasm modules.                                               *)

(* Whoever may do anything may call a function of a loaded module.         *)
Call(s) ==
  /\ May("call") /\ status[s] = "loaded"
  /\ calls' = Append(calls, Running(s))
  /\ UNCHANGED <<slots, status, attached, lasting, deleted, fault>>

Return ==
  /\ calls # <<>> /\ Last(calls).op = "running" /\ fault = "none"
  /\ calls' = Front(calls)
  /\ fault' = IF status[Last(calls).code] = "loaded" THEN fault ELSE "returned into freed code"
  /\ UNCHANGED <<slots, status, attached, lasting, deleted>>

(* The builtin functions load_module and unload_module, called by the code *)
(* of module s through the named module that its state points at.          *)
Runs(s) ==
  /\ calls # <<>> /\ Last(calls).op = "running" /\ Last(calls).code = s
  /\ status[s] = "loaded" /\ ~deleted /\ fault = "none"
Faults(how) ==
  /\ fault' = how
  /\ UNCHANGED <<slots, status, attached, lasting, calls, deleted>>
LostStruct(s) ==
  s \notin lasting /\ <<"in code", "lost struct">> \in Liberties /\ Faults("dangling resolver")

(* load_module goes on to ask for the start function of a state that it    *)
(* does not have when the bytes do not compile.                            *)
LoadModule(s, n, new, compiles) ==
  /\ Runs(s)
  /\ \/ LostStruct(s)
     \/ /\ s \in lasting /\ ~compiles
        /\ <<"in code", "bad bytes">> \in Liberties /\ Faults("no state")
     \/ s \in lasting /\ compiles /\ DefineWasm(n, new, FALSE, Append(calls, Starting(new)))

(* Back in load_module, which calls the start function, if there is one.   *)
Starts ==
  /\ calls # <<>> /\ Last(calls).op = "starting" /\ fault = "none"
  /\ calls' \in {Front(calls), Append(Front(calls), Running(Last(calls).code))}
  /\ UNCHANGED <<slots, status, attached, lasting, deleted, fault>>

UnloadModule(s, n) ==
  /\ Runs(s)
  /\ LostStruct(s) \/ (s \in lasting /\ RemoveModule(n))

-----------------------------------------------------------------------------
(* pwart_namespace_delete.                                                 *)

BeginDelete ==
  /\ calls = <<>> /\ ~deleted /\ fault = "none"
  /\ calls' = <<Deleting(1)>>
  /\ UNCHANGED <<slots, status, attached, lasting, deleted, fault>>

(* Mutant of Advanced: the loop stops at the module it started on.         *)
AdvancedNot(f) == f

(* Mutant of Advanced: the loop passes over a module.                      *)
AdvancedTwice(f) == [f EXCEPT !.slot = @ + 2]

Advanced(f) == [f EXCEPT !.slot = @ + 1]

DeleteOne ==
  /\ calls # <<>> /\ Last(calls).op = "delete" /\ fault = "none"
  /\ Last(calls).slot \in DOMAIN slots
  /\ LET i == Last(calls).slot
         on == Append(Front(calls), Advanced(Last(calls)))
     IN  CASE slots[i].type = "host" -> Detach(i, on) /\ UNCHANGED <<status, fault>>
           [] slots[i].type = "wasm" ->
                calls' = on /\ Free(slots[i].val, NoModule) /\ UNCHANGED <<slots, attached>>
           [] slots[i].type = Null -> calls' = on /\ UNCHANGED <<slots, attached, status, fault>>
  /\ UNCHANGED <<lasting, deleted>>

EndDelete ==
  /\ calls # <<>> /\ Last(calls).op = "delete" /\ fault = "none"
  /\ Last(calls).slot \notin DOMAIN slots
  /\ deleted' = TRUE /\ calls' = Front(calls)
  /\ UNCHANGED <<slots, status, attached, lasting, fault>>

Embedder ==
  \/ \E n \in Names, h \in Hosts : DefineHost(n, h)
  \/ \E n \in Names, s \in States, keeps \in BOOLEAN : DefineWasm(n, s, keeps, calls)
  \/ \E n \in Names : RemoveModule(n)
  \/ \E s, new \in States, n \in Names, compiles \in BOOLEAN : LoadModule(s, n, new, compiles)
  \/ \E s \in States, n \in Names : UnloadModule(s, n)
  \/ \E s \in States : Call(s)
  \/ Return \/ BeginDelete
Operation == AttachedReturns \/ DetachedReturns \/ Starts \/ DeleteOne \/ EndDelete

Next == Embedder \/ Operation
Spec == Init /\ [][Next]_vars /\ WF_vars(Operation)

-----------------------------------------------------------------------------

TypeOK ==
  /\ \A i \in DOMAIN slots :
       /\ slots[i].name \in Names \cup {Meta}
       /\ \/ slots[i].type \in {"host", Null} /\ slots[i].val \in Hosts \cup {Meta}
          \/ slots[i].type \in {"wasm", Null} /\ slots[i].val \in States
  /\ status \in [States -> {"unused", "loaded", "freed"}]
  /\ attached \subseteq Hosts /\ lasting \subseteq States
  /\ \A k \in DOMAIN calls :
       /\ calls[k].op = "remove" => calls[k].slot \in DOMAIN slots
       /\ calls[k].op \in {"running", "starting"} <=> calls[k].code \in States

(* Each name has one slot, however often it is removed and defined again,  *)
(* and whatever Liberties callbacks take in between.                       *)
NamesUnique ==
  \A i, j \in DOMAIN slots : slots[i].name = slots[j].name => i = j

(* A wasm module is loaded exactly as long as one slot has it, or a        *)
(* define_module under way will put it into one: none is freed twice, none *)
(* is lost, none is found after it was freed (but while deleting).  And    *)
(* the host modules that were told that they are attached, and not that    *)
(* they are detached, are between operations those that are defined.       *)
OneOwner ==
  /\ \A s \in States :
       LET in == {i \in DOMAIN slots : slots[i].type = "wasm" /\ slots[i].val = s}
           to == {k \in DOMAIN calls : calls[k].mod.val = s}
       IN  /\ status[s] = "loaded" => Cardinality(in) + Cardinality(to) = 1
           /\ status[s] = "unused" => in = {} /\ to = {}
           /\ status[s] = "freed" /\ ~InDelete /\ ~deleted => in = {} /\ to = {}
  /\ calls = <<>> /\ ~deleted =>
       attached = {slots[i].val : i \in {j \in DOMAIN slots : slots[j].type = "host"}} \ {Meta}

(* No operation uses memory after it was freed or moved, or a module state *)
(* that is not there, and none returns into code that was freed.           *)
NoFault == fault = "none"

(* The module in use under each name.                                      *)
Bound ==
  [n \in Names |->
    LET i == Find(n)
    IN  IF i = 0 THEN "nothing"
        ELSE IF \/ slots[i].type = "wasm" /\ status[slots[i].val] = "loaded"
                \/ slots[i].type = "host" /\ slots[i].val \in attached
             THEN slots[i].val ELSE "nothing"]

Registry == INSTANCE ModuleRegistry WITH
  Modules <- Hosts \cup States, Nothing <- "nothing", bound <- Bound, closed <- deleted

(* A namespace is a registry of the modules in use, changed one binding at *)
(* a time, that leaves none in use when it is deleted.                     *)
ImplementsRegistry == Registry!Spec

(* A deletion that has begun ends, whatever its callbacks define.          *)
DeleteEnds == (calls # <<>> /\ InDelete) ~> deleted
=============================================================================
