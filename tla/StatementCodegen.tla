--------------------------- MODULE StatementCodegen --------------------------
(***************************************************************************)
(* The code generators of the statements and of a function                 *)
(* (src/frontend/ast/AST.cpp).                                             *)
(***************************************************************************)
EXTENDS ConditionCodegen

RECURSIVE Generate(_, _)

GenerateAll(statements, f) ==
  FoldLeft(LAMBDA g, s : Generate(s, g), f, statements)

\* The variable becomes an allocation before its initial value is computed.
GenerateVariableDeclaration(s, f) ==
  LET init == GenerateExpression(s.init, CreateSA(f))
  IN IF s.init = Nothing THEN CreateSA(f)
     ELSE CreateSTR(init, init.val, Var(s.name))

GenerateIf(s, f) ==
  LET haveElse == s.else # Nothing
      made == IF haveElse THEN 2 ELSE 1
      else == f.made + 1
      end == f.made + made
      condition == GenerateExpression(s.cond, MakeBBs(f, made))
      tested == BranchIfFalse(condition, condition.val, IF haveElse THEN else ELSE end)
      true == tested.made + 1
      then == InsertBB(MakeBBs(tested, 1), true, "if_true")
      taken == CreateJUMP(Generate(s.then, then), end)
      both == IF haveElse
              THEN CreateJUMP(Generate(s.else, InsertBB(taken, else, "if_else")),
                              end)
              ELSE taken
  IN InsertBB(both, end, "if_end")

NonEmpty(cases) == {i \in DOMAIN cases : cases[i].body # <<>>}

\* Mutation: a case without statements goes to the default.
CaseTargetDefault(cases, i, first, default) ==
  IF cases[i].body = <<>> THEN default
  ELSE first + Cardinality({j \in NonEmpty(cases) : j < i})

\* CaseBodies[CaseIdx]: the body of the case or the next one that has one; past
\* the last body the vector is read beyond its end.
CaseTarget(cases, i, first, default) ==
  IF \E j \in NonEmpty(cases) : j >= i
  THEN first + Cardinality({j \in NonEmpty(cases) : j < i})
  ELSE Undefined

\* Mutation: the block is not taken from the front of CaseBodies.
GenerateCasesInFirst(cases, first, f) ==
  FoldLeft(LAMBDA g, c : IF c.body = <<>> THEN g
                         ELSE GenerateAll(c.body, InsertBB(g, first, "switch_case")),
           f, cases)

\* The bodies of the cases, each in the block that was made for it.
GenerateCasesOnly(cases, first, f) ==
  LET generate[i \in 0..Len(cases)] ==
        IF i = 0 THEN <<f, first>>
        ELSE LET g == generate[i - 1] IN
             IF cases[i].body = <<>> THEN g
             ELSE <<GenerateAll(cases[i].body, InsertBB(g[1], g[2], "switch_case")),
                    g[2] + 1>>
  IN generate[Len(cases)][1]

\* cmp.eq with the constant of the case, and the branch on it.
CompareCase(f, v, const, target) ==
  LET compared == CreateCMP(f, "==", v, Const(const))
  IN CreateBR(compared, compared.val, target)

\* Wherever the default stands, it comes last.
GenerateSwitch(s, f) ==
  LET cases == CasesOf(s)
      end == f.made + 1
      default == f.made + 2
      condition == GenerateExpression(s.cond, MakeBBs(f, 2))
      first == condition.made + 1
      start == PushBreak(MakeBBs(condition, Cardinality(NonEmpty(cases))), end)
      compared == FoldLeft(
                    LAMBDA g, i : CompareCase(g, condition.val, cases[i].const,
                                              CaseTarget(cases, i, first, default)),
                    start, [i \in DOMAIN cases |-> i])
      bodies == GenerateCasesOnly(cases, first, CreateJUMP(compared, default))
      all == GenerateAll(DefaultOf(s), InsertBB(bodies, default, "switch_default"))
  IN InsertBB(PopBreak(all), end, "switch_end")

\* The condition of a loop in its header.
GenerateHeader(cond, f, header, end) ==
  LET start == InsertBB(CreateJUMP(f, header), header, "loop_header")
      condition == GenerateExpression(cond, start)
  IN BranchIfFalse(condition, condition.val, end)

GenerateWhile(s, f) ==
  LET header == f.made + 1
      body == f.made + 2
      end == f.made + 3
      tested == PushBreak(GenerateHeader(s.cond, MakeBBs(f, 3), header, end), end)
      done == PopBreak(Generate(s.body, InsertBB(tested, body, "loop_body")))
  IN InsertBB(CreateJUMP(done, header), end, "loop_end")

\* Mutation: the jump to the increment is inserted into the increment.
EndForBodySwapped(f, increment) ==
  CreateJUMP(InsertBB(f, increment, "loop_increment"), increment)

EndForBody(f, increment) ==
  InsertBB(CreateJUMP(f, increment), increment, "loop_increment")

\* The increment is a block of its own, the target of continue.
GenerateFor(s, f) ==
  LET header == f.made + 1
      body == f.made + 2
      increment == f.made + 3
      end == f.made + 4
      init == Generate(s.init, MakeBBs(f, 4))
      tested == InsertBB(GenerateHeader(s.cond, init, header, end), body, "loop_body")
      inside == PushBreak(PushIncrement(tested, increment), end)
      done == PopIncrement(PopBreak(Generate(s.body, inside)))
      stepped == GenerateExpression(s.inc, EndForBody(done, increment))
  IN InsertBB(CreateJUMP(stepped, header), end, "loop_end")

\* With several returns each stores its value and jumps to a block that is
\* known only later.  A void function has none: the parser needs an expression.
GenerateReturn(s, f) ==
  LET value == GenerateExpression(s.e, f)
  IN IF f.returnValue # Nothing
     THEN CreateJUMP(CreateSTR(value, value.val, f.returnValue), NoBlock)
     ELSE CreateRET(value, value.val)

GenerateBreak(f) == CreateJUMP(f, Last(f.breaks))

\* back() of an empty table is whatever lies in front of it.
GenerateContinue(f) ==
  CreateJUMP(f, IF f.increments = <<>> THEN Undefined ELSE Last(f.increments))

Generate(s, f) ==
  CASE s.kind = "expr" -> GenerateExpression(s.e, f)
    [] s.kind = "decl" -> GenerateVariableDeclaration(s, f)
    [] s.kind = "compound" -> GenerateAll(s.body, f)
    [] s.kind = "if" -> GenerateIf(s, f)
    [] s.kind = "switch" -> GenerateSwitch(s, f)
    [] s.kind = "while" -> GenerateWhile(s, f)
    [] s.kind = "for" -> GenerateFor(s, f)
    [] s.kind = "break" -> GenerateBreak(f)
    [] s.kind = "continue" -> GenerateContinue(f)
    [] s.kind = "return" -> GenerateReturn(s, f)

\* Mutation: only the jumps of the last block are patched.
PatchLast(f, target) ==
  [f EXCEPT !.blocks[Len(f.blocks) - 1].code =
     [i \in DOMAIN @ |-> IF @[i].op = "jump" /\ @[i].to = NoBlock
                         THEN [@[i] EXCEPT !.to = target] ELSE @[i]]]

Patch(f, target) ==
  [f EXCEPT !.blocks =
     [b \in DOMAIN @ |->
        [@[b] EXCEPT !.code =
           [i \in DOMAIN @ |-> IF @[i].op = "jump" /\ @[i].to = NoBlock
                               THEN [@[i] EXCEPT !.to = target] ELSE @[i]]]]]

\* Mutation: two returns are not several.
HasMoreThanTwoReturns(function) == ~function.void /\ function.returns > 2

HasMultipleReturn(function) == ~function.void /\ function.returns > 1

\* A void function returns where its body ends.
FinishFunction(function, body) ==
  LET end == body.made + 1
      final == CreateLD(InsertBB(MakeBBs(body, 1), end, "function_end"),
                        body.returnValue)
  IN CASE HasMultipleReturn(function) -> Patch(CreateRET(final, final.val), end)
       [] function.void /\ function.returns = 0 -> CreateRET(body, Nothing)
       [] OTHER -> body

GenerateFunction(function) ==
  LET slot == CreateSA(NewFunction)
  IN FinishFunction(function,
                    Generate(function.body,
                             IF HasMultipleReturn(function)
                             THEN [slot EXCEPT !.returnValue = slot.val]
                             ELSE NewFunction))
=============================================================================
