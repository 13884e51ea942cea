--------------------------- MODULE ModuleRegistry ---------------------------
(***************************************************************************)
(* What a namespace promises: a name is bound to at most one module that   *)
(* is in use, one binding changes at a time, and when the namespace is     *)
(* gone no module of it is left in use.                                    *)
(***************************************************************************)
CONSTANTS
  Names,    (* the names of modules                                        *)
  Modules,  (* the modules                                                 *)
  Nothing   (* bound to a name that has none                               *)

VARIABLES
  bound,    (* bound[n]: the module in use under name n                    *)
  closed    (* whether the namespace has been deleted                      *)

vars == <<bound, closed>>

Init == bound = [n \in Names |-> Nothing] /\ closed = FALSE

InUse == {bound[n] : n \in Names} \ {Nothing}

Bind(n, m) ==
  /\ ~closed /\ m \notin InUse
  /\ bound' = [bound EXCEPT ![n] = m] /\ UNCHANGED closed

Unbind(n) == ~closed /\ bound' = [bound EXCEPT ![n] = Nothing] /\ UNCHANGED closed

Close == ~closed /\ InUse = {} /\ closed' = TRUE /\ UNCHANGED bound

Next ==
  \/ \E n \in Names, m \in Modules : Bind(n, m)
  \/ \E n \in Names : Unbind(n)
  \/ Close

Spec == Init /\ [][Next]_vars
=============================================================================
