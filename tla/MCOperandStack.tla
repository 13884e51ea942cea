--------------------------- MODULE MCOperandStack ---------------------------
(***************************************************************************)
(* Two values, a binary instruction that tells its operands apart, and     *)
(* signatures small enough for TLC.                                        *)
(***************************************************************************)
EXTENDS OperandStack

TwoValues == {0, 1}
AndNot == [p \in TwoValues \X TwoValues |-> IF p[1] = 1 /\ p[2] = 0 THEN 1 ELSE 0]
OneI32 == <<"i32">>
TwoI32 == <<"i32", "i32">>
OneI64 == <<"i64">>
None == <<>>
Sig(params, results) == [params |-> params, results |-> results]
SomeCallees == {Sig(<<>>, <<"i32">>), Sig(<<"i32", "i64">>, <<"i64">>)}
All == {"const", "local.get", "local.set", "local.tee", "drop", "arithmetic", "divide",
        "compare", "eqz", "select", "memory.size", "call", "return_call", "return"}
NoShapes == {}
=============================================================================
