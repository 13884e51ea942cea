------------------------------ MODULE MCTables ------------------------------
(* Instances of Tables for TLC: two tables that follow each other, and a   *)
(* memory behind them.                                                     *)
EXTENDS Tables

Small == [tabs |-> [t \in 0 .. 1 |-> IF t = 0 THEN [size |-> 3, entries |-> 0]
                                     ELSE [size |-> 1, entries |-> 6]],
          mems |-> [m \in 0 .. 0 |-> [size |-> 2, bytes |-> 8]],
          end |-> 11]

All == {"call_indirect", "get", "set", "copy", "fill", "size", "grow"} \X {0, 1}
Other == {"get", "copy", "fill"} \X {1}
Functions == [r \in {1} |-> Other]
Hosted == {All}
=============================================================================
