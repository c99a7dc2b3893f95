------------------------------- MODULE MCScopes -------------------------------
(***************************************************************************)
(* Three names of variables, an enumerator and a function.                 *)
(***************************************************************************)
EXTENDS Scopes

Entry(n, t, v) == [name |-> n, type |-> t, value |-> v]

ThreeObjects == {Entry("x", "int", "none"), Entry("y", "char", "none"), Entry("z", "int", "none")}
OneEnumerator == {Entry("RED", "int", "0")}
OneFunction == {Entry("f", "int()", "none")}

\* x is an int here and a char there.
TwoTypes == {Entry("x", "int", "none"), Entry("x", "char", "none")}
=============================================================================
