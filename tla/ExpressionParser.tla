--------------------------- MODULE ExpressionParser ---------------------------
(***************************************************************************)
(* The expression parser (src/frontend/parser/Parser.cpp), which climbs    *)
(* precedences, and how C writes an expression down.  The nodes of the     *)
(* implicit conversions are left out, and so are initializers of structs,  *)
(* suffixes of literals and enumerators.                                   *)
(***************************************************************************)
EXTENDS SyntaxTree

\* The level from which on a text has no parentheses around the condition of a
\* ternary expression.  C needs none from the level of && on, 3; at 10 every
\* operation is in parentheses, which Parser.cpp:1140 says it is limited to.
CONSTANT ConditionLevel

T(k) == [kind |-> k]
Identifier(n) == [kind |-> "identifier", name |-> n]
Integer(v) == [kind |-> "integer", val |-> v]

UnaryOperators == {"&", "*", "!", "-"}
PostfixOperators == {"++", "--", "(", "[", ".", "->"}

\* Mutation: the comparisons share a level.
GetBinOpPrecedenceFlat(t) ==
  CASE t \in Assignments -> 10
    [] t = "&&" -> 20
    [] t = "&" -> 30
    [] t \in {"==", "!=", ">=", "<=", "<", ">"} -> 40
    [] t \in {"<<", ">>"} -> 60
    [] t \in {"+", "-"} -> 70
    [] t \in {"*", "/", "%"} -> 80
    [] OTHER -> -1

GetBinOpPrecedence(t) ==
  CASE t \in Assignments -> 10
    [] t = "&&" -> 20
    [] t = "&" -> 30
    [] t \in {"==", "!=", ">=", "<="} -> 40
    [] t \in {"<", ">"} -> 50
    [] t \in {"<<", ">>"} -> 60
    [] t \in {"+", "-"} -> 70
    [] t \in {"*", "/", "%"} -> 80
    [] OTHER -> -1

Kind(ts, i) == IF i <= Len(ts) THEN ts[i].kind ELSE "eof"

\* Expect reports an unexpected token and takes it all the same.
Expect(i) == i + 1

\* Each parser returns the expression and where the next token is.
At(e, i) == [e |-> e, next |-> i]

RECURSIVE ParseExpression(_, _), ParseUnaryExpression(_, _), ParsePostfixes(_, _, _),
          ParseBinaryExpressionRHS(_, _, _), ParseCallArgs(_, _)

\* A minus belongs to the literal where only a constant may stand.
ParseConstantExpression(ts, i) ==
  IF Kind(ts, i) = "-" THEN At(Literal(-ts[i + 1].val), i + 2)
  ELSE At(Literal(ts[i].val), i + 1)

\* Nothing, where no expression begins: the caller stops at an assertion.
ParsePrimaryExpression(ts, i) ==
  CASE Kind(ts, i) = "(" -> LET inner == ParseExpression(ts, i + 1)
                            IN At(inner.e, Expect(inner.next))
    [] Kind(ts, i) = "identifier" -> At(Name(ts[i].name), i + 1)
    [] Kind(ts, i) = "integer" -> ParseConstantExpression(ts, i)
    [] OTHER -> At(Nothing, i)

\* args = [e, next]: the arguments so far.
ParseCallArgs(ts, args) ==
  IF Kind(ts, args.next) # "," THEN args
  ELSE LET arg == ParseExpression(ts, args.next + 1)
       IN ParseCallArgs(ts, At(Append(args.e, arg.e), arg.next))

\* What is called is the token the postfix expression began with.
ParseCallExpression(ts, begin, i) ==
  LET first == ParseExpression(ts, i + 1)
      args == IF Kind(ts, i + 1) = ")" THEN At(<<>>, i + 1)
              ELSE ParseCallArgs(ts, At(<<first.e>>, first.next))
  IN At(Call(ts[begin].name, args.e), Expect(args.next))

ParseArrayExpression(ts, base) ==
  LET index == ParseExpression(ts, base.next + 1)
  IN At(Index(base.e, index.e), Expect(index.next))

\* left = [e, next] is what was parsed so far, from the token begin on.
ParsePostfixes(ts, begin, left) ==
  LET t == Kind(ts, left.next) IN
  CASE t \in {"++", "--"} ->
         ParsePostfixes(ts, begin, At(Postfix(t, left.e), left.next + 1))
    [] t = "(" -> ParsePostfixes(ts, begin, ParseCallExpression(ts, begin, left.next))
    [] t = "[" -> ParsePostfixes(ts, begin, ParseArrayExpression(ts, left))
    [] t \in {".", "->"} ->
         ParsePostfixes(ts, begin,
                        At(Member(t, left.e, ts[left.next + 1].name), left.next + 2))
    [] OTHER -> left

ParsePostFixExpression(ts, i) == ParsePostfixes(ts, i, ParsePrimaryExpression(ts, i))

Applied(op, operand) == At(Unary(op, operand.e), operand.next)

ParseUnaryExpression(ts, i) ==
  IF Kind(ts, i) \notin UnaryOperators THEN ParsePostFixExpression(ts, i)
  ELSE Applied(Kind(ts, i),
               IF Kind(ts, i + 1) \in UnaryOperators THEN ParseUnaryExpression(ts, i + 1)
               ELSE ParsePostFixExpression(ts, i + 1))

ParseTernaryExpression(ts, condition) ==
  LET t == ParseExpression(ts, Expect(condition.next))
      f == ParseExpression(ts, Expect(t.next))
  IN At(Ternary(condition.e, t.e, f.e), f.next)

\* What was parsed is the condition of a ternary expression if a ? follows.
Conditional(ts, parse) ==
  IF Kind(ts, parse.next) = "?" THEN ParseTernaryExpression(ts, parse) ELSE parse

ParseExpression(ts, i) ==
  ParseBinaryExpressionRHS(ts, 0, Conditional(ts, ParseUnaryExpression(ts, i)))

\* Mutation: what follows an operator of the same level is its right operand.
BindsRightAlways(op, next) == GetBinOpPrecedence(op) <= GetBinOpPrecedence(next)

\* Does the right operand go on with the next operator?  = is right associative.
BindsRight(op, next) ==
  GetBinOpPrecedence(op) <
    GetBinOpPrecedence(next) + (IF op = "=" THEN 1 ELSE 0)

Combined(op, left, right) == At(Binary(op, left.e, right.e), right.next)

RightOperand(ts, op, operand) ==
  Conditional(ts, IF BindsRight(op, Kind(ts, operand.next))
                  THEN ParseBinaryExpressionRHS(
                         ts, GetBinOpPrecedence(op) + (IF op = "=" THEN 0 ELSE 1), operand)
                  ELSE operand)

ParseBinaryExpressionRHS(ts, precedence, left) ==
  LET op == Kind(ts, left.next) IN
  IF GetBinOpPrecedence(op) < precedence THEN left
  ELSE ParseBinaryExpressionRHS(
         ts, precedence,
         Combined(op, left,
                  RightOperand(ts, op, ParseUnaryExpression(ts, left.next + 1))))

-----------------------------------------------------------------------------
(* How C writes an expression: the levels of its grammar, and parentheses    *)
(* where an operand is of a lower level than its place allows.               *)

CLevel(e) ==
  CASE e.kind \in {"name", "literal"} -> 12
    [] e.kind \in {"postfix", "index", "member", "call"} -> 11
    [] e.kind = "unary" -> 10
    [] e.kind = "ternary" -> 2
    [] OTHER ->
         CASE e.op \in Assignments -> 1
           [] e.op = "&&" -> 3
           [] e.op = "&" -> 4
           [] e.op \in {"==", "!="} -> 5
           [] e.op \in {"<", ">", "<=", ">="} -> 6
           [] e.op \in {"<<", ">>"} -> 7
           [] e.op \in {"+", "-"} -> 8
           [] e.op \in {"*", "/", "%"} -> 9

RECURSIVE Write(_, _)

Separated(texts, separator) ==
  FoldLeft(LAMBDA text, t : IF text = <<>> THEN t ELSE text \o separator \o t,
           <<>>, texts)

Bare(e) ==
  CASE e.kind = "name" -> <<Identifier(e.name)>>
    [] e.kind = "literal" -> <<Integer(e.val)>>
    [] e.kind = "unary" -> <<T(e.op)>> \o Write(e.e, 10)
    [] e.kind = "postfix" -> Write(e.e, 11) \o <<T(e.op)>>
    [] e.kind = "index" -> Write(e.l, 11) \o <<T("[")>> \o Write(e.r, 1) \o <<T("]")>>
    [] e.kind = "member" -> Write(e.e, 11) \o <<T(e.op), Identifier(e.member)>>
    [] e.kind = "call" ->
         <<Identifier(e.name), T("(")>>
           \o Separated([i \in DOMAIN e.args |-> Write(e.args[i], 1)], <<T(",")>>)
           \o <<T(")")>>
    [] e.kind = "ternary" ->
         Write(e.c, ConditionLevel) \o <<T("?")>> \o Write(e.t, 1) \o <<T(":")>> \o Write(e.f, 2)
    [] e.kind = "binary" /\ e.op \in Assignments ->
         Write(e.l, 10) \o <<T(e.op)>> \o Write(e.r, 1)
    [] OTHER -> Write(e.l, CLevel(e)) \o <<T(e.op)>> \o Write(e.r, CLevel(e) + 1)

Write(e, level) ==
  IF CLevel(e) >= level THEN Bare(e) ELSE <<T("(")>> \o Bare(e) \o <<T(")")>>
=============================================================================
