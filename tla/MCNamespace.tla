---------------------------- MODULE MCNamespace ----------------------------
(***************************************************************************)
(* What callbacks do, for the instances that are checked.                  *)
(***************************************************************************)
EXTENDS Namespace

(* Callbacks do what the code can bear.                                    *)
Careful ==
  {"in define"} \X {"define new", "define over", "remove", "call"}
  \cup {"in remove"} \X {"define over", "remove", "call"}
  \cup {<<"in delete", "define new">>}
=============================================================================
