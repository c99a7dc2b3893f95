--------------------------- MODULE MCTargetLowering ---------------------------
(***************************************************************************)
(* Statements on two variables of type int, one of each other type and a    *)
(* global int.                                                              *)
(***************************************************************************)
EXTENDS TargetLowering

\* Two bits stand for a byte, three for a word, four for a double word.
MCBits == (1 :> 1) @@ (8 :> 2) @@ (32 :> 3) @@ (64 :> 4)

MCTypeOf ==
  [c |-> "Char", u |-> "UnsignedChar", i |-> "Int", j |-> "Int", n |-> "UnsignedInt",
   l |-> "Long", g |-> "Int"]

MCSizeOf == [v \in DOMAIN MCTypeOf |-> TypeSize[MCTypeOf[v]]]

Plain(v) == [form |-> "variable", var |-> v, postfix |-> "none", value |-> 0]
Literal(k) == [form |-> "literal", var |-> "none", postfix |-> "none", value |-> k]
Absent == [Literal(0) EXCEPT !.form = "absent"]
Changed(v, p) == [Plain(v) EXCEPT !.postfix = p]

Literals == {-2, 0, 3}
Operands ==
  {Plain(v) : v \in DOMAIN MCTypeOf} \cup {Literal(k) : k \in Literals}
    \cup {Changed(v, p) : v \in {"c", "u", "i", "l"}, p \in {"INCREMENT", "DECREMENT"}}

IsLiteral(x) == x.form = "literal"
IsChanged(x) == x.postfix # "none"

\* Statements without and with an operation.  What a postfix operator
\* changes is used once; the selection has no constants below zero for subtractions and shifts.
Unary ==
  {[dst |-> d, op |-> o, left |-> x, right |-> Absent] :
     d \in DOMAIN MCTypeOf, o \in {"none", "MINUS"}, x \in Operands}

Lefts == {Plain(v) : v \in {"c", "u", "i", "n", "l", "g"}} \cup {Literal(k) : k \in Literals}
Rights == {Plain(v) : v \in {"c", "u", "j", "n", "l"}} \cup {Literal(k) : k \in Literals}

Binary ==
  {[dst |-> d, op |-> o, left |-> x, right |-> y] :
     d \in {"i"}, o \in ArithmeticOps \cup {"MOD", "LSL"}, x \in Lefts, y \in Rights}
  \cup {[dst |-> d, op |-> "ADD", left |-> Plain(v), right |-> Plain("j")] :
           d \in DOMAIN MCTypeOf, v \in {"c", "n", "l"}}
  \cup {[dst |-> "i", op |-> "MUL", left |-> x, right |-> y] :
           x \in {y \in Operands : IsChanged(y)}, y \in Rights}

Conditions ==
  {[dst |-> "none", op |-> o, left |-> x, right |-> y] :
     o \in Relations, x \in Lefts, y \in Rights}
   \cup {[dst |-> "none", op |-> "truth", left |-> x, right |-> Absent] : x \in Operands}

WellFormed(s) ==
  /\ ~(IsLiteral(s.left) /\ IsLiteral(s.right))
  /\ s.op \in {"MINUS", "truth"} => ~IsLiteral(s.left)
  /\ s.op \in {"SUB", "LSL"} => s.right.value >= 0
  /\ IsChanged(s.left) => s.left.var \notin {s.dst, s.right.var}

MCStatements == {s \in Unary \cup Binary \cup Conditions : WellFormed(s)}

=============================================================================
