------------------------------ MODULE SyntaxTree ------------------------------
(***************************************************************************)
(* The nodes of the syntax tree (src/frontend/ast/AST.hpp) that the parser *)
(* makes and the code generators walk.  Types, and the casts that the      *)
(* parser inserts for them, are left out.                                  *)
(***************************************************************************)
EXTENDS Integers, Sequences, SequencesExt

\* A null pointer.
Nothing == [kind |-> "nothing"]

(* Expressions *)

Name(n) == [kind |-> "name", name |-> n]
Literal(v) == [kind |-> "literal", val |-> v]
\* An expression of which only the value matters.
Computed(v) == [kind |-> "computed", val |-> v]
Unary(op, e) == [kind |-> "unary", op |-> op, e |-> e]
Postfix(op, e) == [kind |-> "postfix", op |-> op, e |-> e]
Binary(op, l, r) == [kind |-> "binary", op |-> op, l |-> l, r |-> r]
Index(a, i) == [kind |-> "index", l |-> a, r |-> i]
Member(op, e, member) == [kind |-> "member", op |-> op, e |-> e, member |-> member]
Call(name, args) == [kind |-> "call", name |-> name, args |-> args]
\* (struct S){ .m = v, ... }: the number of each member that is named, and its value;
\* and { v, ... }.
StructInit(members, values) ==
  [kind |-> "structinit", members |-> members, values |-> values]
InitializerList(values) == [kind |-> "list", values |-> values]
Ternary(c, t, f) == [kind |-> "ternary", c |-> c, t |-> t, f |-> f]

Assignments == {"=", "+=", "-=", "*=", "/="}
Relations == {"==", "!=", "<", ">", "<=", ">="}

(* Statements *)

Expr(e) == [kind |-> "expr", e |-> e]
Decl(n, init) == [kind |-> "decl", name |-> n, init |-> init]
Compound(body) == [kind |-> "compound", body |-> body]
If(c, then, else) == [kind |-> "if", cond |-> c, then |-> then, else |-> else]
While(c, body) == [kind |-> "while", cond |-> c, body |-> body]
For(init, c, inc, body) ==
  [kind |-> "for", init |-> init, cond |-> c, inc |-> inc, body |-> body]
\* The arms as they were written; the class keeps the cases and the body of the
\* default apart.
Switch(c, arms) == [kind |-> "switch", cond |-> c, arms |-> arms]
Case(const, body) == [default |-> FALSE, const |-> const, body |-> body]
Default(body) == [default |-> TRUE, const |-> 0, body |-> body]
Return(e) == [kind |-> "return", e |-> e]
Break == [kind |-> "break"]
Continue == [kind |-> "continue"]

CasesOf(s) == SelectSeq(s.arms, LAMBDA arm : ~arm.default)
DefaultOf(s) ==
  FoldLeft(LAMBDA body, arm : IF arm.default THEN arm.body ELSE body, <<>>, s.arms)
=============================================================================
