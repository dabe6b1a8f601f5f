----------------------------- MODULE MCRymSema -----------------------------
(* RymSema on files with a variable, which can shadow itself and be the     *)
(* payload of a match arm, another with the name of an enum, and functions  *)
(* with a move and a read parameter.                                        *)
EXTENDS RymSema

MCSigs == [take |-> <<"move">>, look |-> <<"read">>]

MCParams == { <<[name |-> "x", mode |-> "move"]>>,
              <<[name |-> "x", mode |-> "read"], [name |-> "x", mode |-> "mut"]>> }

A(n, m) == [name |-> n, mode |-> m, whole |-> TRUE]
Inside(n) == [name |-> n, mode |-> "inferred", whole |-> FALSE]
Plain(args) == [fn |-> NoName, base |-> NoName, pipe |-> NoName, args |-> args]
Call(f, args) == [fn |-> f, base |-> NoName, pipe |-> NoName, args |-> args]
Method(n, f) == [fn |-> f, base |-> n, pipe |-> NoName, args |-> <<>>]
Piped(n, f, args) == [fn |-> f, base |-> NoName, pipe |-> n, args |-> args]

(* Values are given away by a move argument and read by name, by a pipe     *)
(* into a read parameter or by a function of another file.                  *)
MoveExprs == { Plain(<<>>), Plain(<<A("x", "inferred")>>), Plain(<<A("E", "inferred")>>),
               Call("take", <<A("x", "move")>>), Call("take", <<A("E", "move")>>),
               Call("take", <<A("x", "inferred")>>), Call("look", <<Inside("x")>>),
               Piped("x", "look", <<>>), Method("x", "len") }

Checked == stmts = MaxStmts /\ open = <<>> /\ zone = "alg" /\ UNCHANGED vars

MCSpec == Init /\ [][Next \/ Checked]_vars
=============================================================================
