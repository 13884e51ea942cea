--------------------------- MODULE MCControlFlow ---------------------------
(***************************************************************************)
(* Two values, one local in a saved register; blocks with a result, loops  *)
(* without, ifs with and without.                                          *)
(***************************************************************************)
EXTENDS ControlFlow

TwoValues == {0, 1}
None == <<>>
OneI32 == <<"i32">>
Sig(params, results) == [params |-> params, results |-> results]
OneCallee == {Sig(<<>>, OneI32)}
NoShapes == {}
SomeTypes == [block |-> {"i32"}, loop |-> {"none"}, if |-> {"none", "i32"}]
=============================================================================
