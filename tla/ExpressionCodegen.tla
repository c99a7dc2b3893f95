--------------------------- MODULE ExpressionCodegen ---------------------------
(***************************************************************************)
(* The code of one statement: a variable is assigned the value of an        *)
(* expression with at most one operation, or the statement asks for the     *)
(* value of a condition.  The operands are variables, which a postfix       *)
(* operator may change, and literals.  The casts are those of the parser    *)
(* (src/frontend/parser/Parser.cpp); the code is that of                    *)
(* src/frontend/ast/AST.cpp after its lowering by src/backend/IRtoLLIR.cpp. *)
(* Meaning is what C says that the statement does.                          *)
(***************************************************************************)
EXTENDS MachineCode

CONSTANTS
  TypeOf        \* variable |-> its type

\* The types in the order of Type::VariantKind.
Types == <<"Char", "UnsignedChar", "Int", "UnsignedInt", "Long">>
Rank(t) == CHOOSE i \in DOMAIN Types : Types[i] = t
TypeSize == [Char |-> 8, UnsignedChar |-> 8, Int |-> 32, UnsignedInt |-> 32, Long |-> 64]
UnsignedTypes == {"UnsignedChar", "UnsignedInt"}

ASSUME ExpressionAssumption ==
  \A v \in Variables : SizeOf[v] = TypeSize[TypeOf[v]]

\* A statement: an assignment to dst, or an if with no dst.
\*   op: "none", "MINUS", an operation, a relation, or "truth" of a condition
\*   left, right: [form |-> "variable", "literal" or "absent",
\*                 var, postfix |-> "none", "INCREMENT" or "DECREMENT", value]
Relations == {"EQ", "NE", "LT", "GE", "GT", "LE"}
ArithmeticOps == {"ADD", "SUB", "MUL", "DIV"}

OperandType(x) == IF x.form = "variable" THEN TypeOf[x.var] ELSE "Int"

-----------------------------------------------------------------------------
(* The parser: the types to which the operands and the result are cast. *)

GetStrongestType(t, u) == IF Rank(t) > Rank(u) THEN t ELSE u
IsSmallerThanInt(t) == Rank(t) < Rank("Int")
OnlySigndnessDifference(t, u) == t # u /\ TypeSize[t] = TypeSize[u]

Promoted(s, x) ==
  IF s.op \in ArithmeticOps /\ IsSmallerThanInt(OperandType(x)) THEN "Int" ELSE OperandType(x)

\* The one of lower rank is cast, but for a modulo operation.
CastType(s, x) ==
  LET t == Promoted(s, s.left)
      u == Promoted(s, s.right)
  IN IF s.right.form = "absent" \/ s.op = "MOD" \/ OnlySigndnessDifference(t, u)
     THEN Promoted(s, x)
     ELSE GetStrongestType(t, u)

ResultType(s) ==
  IF s.right.form = "absent" THEN OperandType(s.left)
  ELSE GetStrongestType(GetStrongestType(CastType(s, s.left), CastType(s, s.right)), "Int")

-----------------------------------------------------------------------------
(* Code generation.  e is the code so far, with the number of the next value; *)
(* a value is a machine operand.                                              *)

Emit(e, mi) == [e EXCEPT !.code = Append(@, mi)]

\* A value gets the next number.
EmitValue(e, op, size, operands) ==
  [code |-> Append(e.code, Instr(op, <<Reg(e.next, size)>> \o operands)),
   next |-> e.next + 1, value |-> Reg(e.next, size)]

\* The address of a variable: a stack slot, or a register for a global.
EmitAddress(e, v) ==
  IF v # Global THEN [e |-> e, address |-> Slot(v)]
  ELSE [e |-> EmitValue(e, "GLOBAL_ADDRESS", 64, <<Symbol(v)>>), address |-> Mem(e.next)]

\* IRFactory::CreateSTR
EmitStore(e, v, value) ==
  LET a == EmitAddress(e, v) IN Emit(a.e, Instr("STORE", <<a.address, value>>))

\* The value before a postfix operator.
EmitPostfix(e, x) ==
  LET size == SizeOf[x.var]
      op == IF x.postfix = "INCREMENT" THEN "ADD" ELSE "SUB"
      changed == EmitValue(e, op, size, <<e.value, Imm(1)>>)
  IN [EmitStore(changed, x.var, changed.value) EXCEPT !.value = e.value]

EmitOperand(e, x) ==
  LET a == EmitAddress(e, x.var)
      load == EmitValue(a.e, "LOAD", SizeOf[x.var], <<a.address>>)
  IN IF x.form = "literal" THEN [e EXCEPT !.value = Imm(x.value)]
     ELSE IF x.postfix = "none" THEN load
     ELSE EmitPostfix(load, x)

\* ImplicitCastExpression::IRCodegen
EmitCast(e, from, to) ==
  IF from = to \/ OnlySigndnessDifference(from, to) THEN e
  ELSE LET op == IF TypeSize[to] < TypeSize[from] THEN "TRUNC"
                 ELSE IF {from, to} \cap UnsignedTypes # {} THEN "ZEXT" ELSE "SEXT"
       IN EmitValue(e, op, TypeSize[to], <<e.value>>)

EmitOperandAs(e, s, x) == EmitCast(EmitOperand(e, x), OperandType(x), CastType(s, x))

\* The literal on the left of a commutative operation goes to the right.
Commutative == {"ADD", "MUL", "EQ", "NE"}

\* The operation on the values l and r.
EmitOperation(e, s, l, r) ==
  LET swap == IsImmediate(l) /\ s.op \in Commutative
      first == IF swap THEN r ELSE l
      second == IF swap THEN l ELSE r
      moved == IF IsImmediate(first) THEN EmitValue(e, "LOAD_IMM", second.size, <<first>>)
               ELSE [e EXCEPT !.value = first]
      unsigned == ResultType(s) \in UnsignedTypes
      op == IF s.op = "DIV" /\ unsigned THEN "DIVU"
            ELSE IF s.op = "MOD" /\ unsigned THEN "MODU" ELSE s.op
  IN IF s.op \in Relations
     THEN [code |-> Append(moved.code, Compare(s.op, <<Reg(moved.next, 1), moved.value, second>>)),
           next |-> moved.next + 1, value |-> Reg(moved.next, 1)]
     ELSE EmitValue(moved, op, moved.value.size, <<moved.value, second>>)

\* Of the expression.  A minus in front of a literal is part of the literal.
EmitExpression(s) ==
  LET none == [code |-> <<>>, next |-> 1, value |-> Imm(0)]
      l == EmitOperandAs(none, s, s.left)
      r == EmitOperandAs(l, s, s.right)
  IN IF s.op = "none" THEN l
     ELSE IF s.op = "MINUS" THEN EmitValue(l, "SUB", 32, <<Imm(0), l.value>>)
     ELSE IF s.op = "truth"
     THEN [code |-> Append(l.code, Compare("NE", <<Reg(l.next, 1), l.value, Imm(0)>>)),
           next |-> l.next + 1, value |-> Reg(l.next, 1)]
     ELSE EmitOperation(r, s, l.value, r.value)

InvertRelation == [EQ |-> "NE", NE |-> "EQ", LT |-> "GE", GE |-> "LT", GT |-> "LE", LE |-> "GT"]

\* A branch around the statement's body is taken if the condition does not hold.
IRCodegen(s) ==
  LET e == EmitExpression(s)
      last == Len(e.code)
      inverted == [e EXCEPT !.code[last].relation = InvertRelation[@]]
      cast == EmitCast(e, ResultType(s), TypeOf[s.dst])
  IN IF s.dst = "none" THEN Emit(inverted, Instr("BRANCH", <<e.value, Label>>))
     ELSE EmitStore(cast, s.dst, cast.value)

-----------------------------------------------------------------------------
(* What C says that a statement does. *)

\* A number as a value of a type.
As(n, t) ==
  IF t \in UnsignedTypes THEN Truncated(n, TypeSize[t]) ELSE Signed(n, TypeSize[t])

ValueOfOperand(x, memory) ==
  IF x.form = "literal" THEN x.value ELSE As(memory[x.var], OperandType(x))

\* The usual arithmetic conversions; those of a shift leave out the right operand.
CommonType(s) ==
  LET left == GetStrongestType(OperandType(s.left), "Int")
  IN IF s.right.form = "absent" \/ s.op = "LSL" THEN left
     ELSE GetStrongestType(left, OperandType(s.right))

Converted(s, x, memory) == As(ValueOfOperand(x, memory), CommonType(s))

\* Division by zero, shifts out of range.
IsUndefined(s, memory) ==
  LET r == ValueOfOperand(s.right, memory) IN
  \/ s.op \in {"DIV", "MOD"} /\ r = 0
  \/ s.op = "LSL" /\ r \notin 0..(Bits[TypeSize[CommonType(s)]] - 1)

ValueOf(s, memory) ==
  LET l == Converted(s, s.left, memory)
      r == Converted(s, s.right, memory)
  IN CASE s.op = "none" -> l
       [] s.op = "MINUS" -> -l
       [] s.op = "LSL" -> l * 2 ^ ValueOfOperand(s.right, memory)
       [] OTHER -> Compute(s.op, l, r)

Stored(memory, v, n) == [memory EXCEPT ![v] = Truncated(n, SizeOf[v])]

\* The memory after the postfix operators.
AfterPostfix(memory, x) ==
  IF x.form # "variable" \/ x.postfix = "none" THEN memory
  ELSE Stored(memory, x.var, memory[x.var] + IF x.postfix = "INCREMENT" THEN 1 ELSE -1)

\* The memory after the statement, and whether the branch is taken.
Meaning(s, memory) ==
  LET after == AfterPostfix(AfterPostfix(memory, s.left), s.right)
      holds == IF s.op = "truth" THEN ValueOfOperand(s.left, memory) # 0
               ELSE Holds(s.op, Converted(s, s.left, memory), Converted(s, s.right, memory))
  IN IF s.dst = "none" THEN [memory |-> after, taken |-> ~holds]
     ELSE [memory |-> Stored(after, s.dst, As(ValueOf(s, memory), CommonType(s))), taken |-> FALSE]

=============================================================================
