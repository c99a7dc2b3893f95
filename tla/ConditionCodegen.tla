--------------------------- MODULE ConditionCodegen ---------------------------
(***************************************************************************)
(* The code generators of the expressions over variables of type int       *)
(* (src/frontend/ast/AST.cpp), with the blocks that !, && and ?: make.     *)
(* Each leaves its value in f.val.  Variables are local; allocations for   *)
(* the results of !, && and ?: are numbered like instructions.             *)
(***************************************************************************)
EXTENDS IRFactory

RECURSIVE GenerateExpression(_, _)

With(f, v) == [f EXCEPT !.val = v]

\* br on the value being false: a comparison is inverted in place, anything else
\* is compared with 0.
BranchIfFalse(f, v, target) ==
  IF v.kind = "cmp" THEN CreateBR(InvertRelation(f, v), v, target)
  ELSE LET tested == CreateCMP(f, "==", v, Const(0))
       IN CreateBR(tested, tested.val, target)

GenerateReference(e, f) == CreateLD(f, Var(e.name))

GenerateNot(e, f) ==
  LET operand == GenerateExpression(e.e, f)
      true == operand.made + 1
      final == operand.made + 2
      slot == CreateSA(MakeBBs(operand, 2))
      result == slot.val
      tested == BranchIfFalse(CreateSTR(slot, Const(1), result), operand.val, final)
      set == CreateSTR(InsertBB(tested, true, "not_true"), Const(0), result)
  IN CreateLD(InsertBB(CreateJUMP(set, final), final, "not_final"), result)

\* The literal itself is negated.
GenerateMinus(e, f) ==
  LET operand == GenerateExpression(e.e, f)
  IN IF e.e.kind = "literal" THEN With(f, Const(-e.e.val))
     ELSE CreateBinaryInstruction(operand, "-", Const(0), operand.val)

\* Mutation: the value is the changed one.
GeneratePostfixAsPrefix(e, f) ==
  LET loaded == CreateLD(f, Var(e.e.name))
      changed == CreateBinaryInstruction(loaded, IF e.op = "++" THEN "+" ELSE "-",
                                         loaded.val, Const(1))
  IN CreateSTR(changed, changed.val, Var(e.e.name))

GeneratePostfix(e, f) ==
  LET loaded == CreateLD(f, Var(e.e.name))
      changed == CreateBinaryInstruction(loaded, IF e.op = "++" THEN "+" ELSE "-",
                                         loaded.val, Const(1))
  IN With(CreateSTR(changed, changed.val, Var(e.e.name)), loaded.val)

\* Mutation: the result is cleared only after the left operand was generated.
GenerateAndLate(e, f) ==
  LET rhs == f.made + 1
      true == f.made + 2
      false == f.made + 3
      final == f.made + 4
      left == GenerateExpression(e.l, MakeBBs(f, 4))
      slot == CreateSA(left)
      result == slot.val
      leftTested == BranchIfFalse(CreateSTR(slot, Const(0), result), left.val, false)
      right == GenerateExpression(e.r, InsertBB(leftTested, rhs, "test_RHS"))
      rightTested == BranchIfFalse(right, right.val, false)
      holds == CreateSTR(InsertBB(rightTested, true, "true"), Const(1), result)
      fails == CreateSTR(InsertBB(CreateJUMP(holds, final), false, "false"),
                         Const(0), result)
  IN CreateLD(InsertBB(CreateJUMP(fails, final), final, "final"), result)

GenerateAnd(e, f) ==
  LET rhs == f.made + 1
      true == f.made + 2
      false == f.made + 3
      final == f.made + 4
      slot == CreateSA(MakeBBs(f, 4))
      result == slot.val
      left == GenerateExpression(e.l, CreateSTR(slot, Const(0), result))
      leftTested == BranchIfFalse(left, left.val, false)
      right == GenerateExpression(e.r, InsertBB(leftTested, rhs, "test_RHS"))
      rightTested == BranchIfFalse(right, right.val, false)
      holds == CreateSTR(InsertBB(rightTested, true, "true"), Const(1), result)
      fails == CreateSTR(InsertBB(CreateJUMP(holds, final), false, "false"),
                         Const(0), result)
  IN CreateLD(InsertBB(CreateJUMP(fails, final), final, "final"), result)

\* The right side first; the value is that of the right side.
GenerateAssign(e, f) ==
  LET right == GenerateExpression(e.r, f)
  IN CreateSTR(right, right.val, Var(e.l.name))

OperationOf(op) ==
  CASE op = "+=" -> "+" [] op = "-=" -> "-" [] op = "*=" -> "*" [] op = "/=" -> "/"

GenerateCompoundAssign(e, f) ==
  LET right == GenerateExpression(e.r, f)
      left == GenerateExpression(e.l, right)
      result == CreateBinaryInstruction(left, OperationOf(e.op), left.val, right.val)
  IN CreateSTR(result, result.val, Var(e.l.name))

Commutative == {"+", "*", "&", "==", "!="}

\* A constant goes to the right where that makes no difference, else to a
\* register.
GenerateBinary(e, f) ==
  LET left == GenerateExpression(e.l, f)
      right == GenerateExpression(e.r, left)
      swap == /\ left.val.kind = "const" /\ right.val.kind # "const"
              /\ e.op \in Commutative
      L == IF swap THEN right.val ELSE left.val
      R == IF swap THEN left.val ELSE right.val
      moved == IF L.kind = "const" THEN CreateMOV(right, L) ELSE With(right, L)
  IN IF e.op \in Relations THEN CreateCMP(moved, e.op, moved.val, R)
     ELSE CreateBinaryInstruction(moved, e.op, moved.val, R)

\* The value is the allocation: who uses it loads it.
GenerateTernary(e, f) ==
  LET true == f.made + 1
      false == f.made + 2
      final == f.made + 3
      condition == GenerateExpression(e.c, MakeBBs(f, 3))
      tested == BranchIfFalse(condition, condition.val, false)
      ifTrue == GenerateExpression(e.t, InsertBB(tested, true, "true"))
      slot == CreateSA(ifTrue)
      result == slot.val
      stored == CreateJUMP(CreateSTR(slot, ifTrue.val, result), final)
      ifFalse == GenerateExpression(e.f, InsertBB(stored, false, "false"))
      both == CreateJUMP(CreateSTR(ifFalse, ifFalse.val, result), final)
  IN With(InsertBB(both, final, "end"), result)

\* Expression::IRCodegen; on a null pointer the compiler crashes.
GenerateExpression(e, f) ==
  CASE e.kind = "nothing" -> [With(f, Const(0)) EXCEPT !.crashed = TRUE]
    [] e.kind = "name" -> GenerateReference(e, f)
    [] e.kind = "literal" -> With(f, Const(e.val))
    [] e.kind = "unary" /\ e.op = "!" -> GenerateNot(e, f)
    [] e.kind = "unary" /\ e.op = "-" -> GenerateMinus(e, f)
    [] e.kind = "postfix" -> GeneratePostfix(e, f)
    [] e.kind = "ternary" -> GenerateTernary(e, f)
    [] e.kind = "binary" ->
         CASE e.op = "&&" -> GenerateAnd(e, f)
           [] e.op = "=" -> GenerateAssign(e, f)
           [] e.op \in Assignments \ {"="} -> GenerateCompoundAssign(e, f)
           [] OTHER -> GenerateBinary(e, f)
=============================================================================
