---------------------------- MODULE StatementParser ---------------------------
(***************************************************************************)
(* The parser of the statements and the body of a function                 *)
(* (src/frontend/parser/Parser.cpp), and how C writes them down.  Variables*)
(* are of type int; what the parser does with their names is in Scopes.    *)
(***************************************************************************)
EXTENDS ExpressionParser

TypeSpecifiers == {"int"}

\* A statement, where the next token is, and the returns that were counted.
Parsed(s, i, n) == [s |-> s, next |-> i, returns |-> n]

RECURSIVE ParseStatement(_, _), ParseStatements(_, _, _, _), ParseArms(_, _)

ParseVariableDeclaration(ts, i) ==
  LET name == ts[i + 1].name
      init == ParseExpression(ts, i + 3)
  IN IF Kind(ts, i + 2) = "="
     THEN Parsed(Decl(name, init.e), Expect(init.next), 0)
     ELSE Parsed(Decl(name, Nothing), Expect(i + 2), 0)

Extended(done, one) ==
  Parsed(Append(done.s, one.s), one.next, done.returns + one.returns)

\* The statements up to one of the tokens end; done is what was parsed so far.  In
\* an arm of a switch nothing begins a declaration.  At the end of the text the
\* code stops at an assertion.
ParseStatements(ts, done, end, specifiers) ==
  IF Kind(ts, done.next) \in end \cup {"eof"} THEN done
  ELSE ParseStatements(ts,
                       Extended(done, IF Kind(ts, done.next) \in specifiers
                                      THEN ParseVariableDeclaration(ts, done.next)
                                      ELSE ParseStatement(ts, done.next)),
                       end, specifiers)

AsCompound(all) == Parsed(Compound(all.s), Expect(all.next), all.returns)

ParseCompoundStatement(ts, i) ==
  AsCompound(ParseStatements(ts, Parsed(<<>>, Expect(i), 0), {"}"}, TypeSpecifiers))

\* The condition in parentheses behind the keyword at i.
ParseCondition(ts, i) ==
  LET c == ParseExpression(ts, Expect(Expect(i))) IN At(c.e, Expect(c.next))

ParseIfStatement(ts, i) ==
  LET c == ParseCondition(ts, i)
      then == ParseStatement(ts, c.next)
      else == ParseStatement(ts, then.next + 1)
  IN IF Kind(ts, then.next) = "else"
     THEN Parsed(If(c.e, then.s, else.s), else.next, then.returns + else.returns)
     ELSE Parsed(If(c.e, then.s, Nothing), then.next, then.returns)

\* done = the arms so far.
ParseArms(ts, done) ==
  LET isCase == Kind(ts, done.next) = "case"
      const == ParseConstantExpression(ts, done.next + 1)
      colon == IF isCase THEN const.next ELSE done.next + 1
      body == ParseStatements(ts, Parsed(<<>>, Expect(colon), done.returns),
                              {"}", "case", "default"}, {})
      arm == IF isCase THEN Case(const.e.val, body.s) ELSE Default(body.s)
  IN IF Kind(ts, done.next) \notin {"case", "default"} THEN done
     ELSE ParseArms(ts, Parsed(Append(done.s, arm), body.next, body.returns))

ParseSwitchStatement(ts, i) ==
  LET c == ParseCondition(ts, i)
      arms == ParseArms(ts, Parsed(<<>>, Expect(c.next), 0))
  IN Parsed(Switch(c.e, arms.s), Expect(arms.next), arms.returns)

ParseWhileStatement(ts, i) ==
  LET c == ParseCondition(ts, i)
      body == ParseStatement(ts, c.next)
  IN Parsed(While(c.e, body.s), body.next, body.returns)

\* A declaration takes its semicolon, an expression leaves it.
ParseForInit(ts, i) ==
  LET e == ParseExpression(ts, i)
  IN IF Kind(ts, i) \in TypeSpecifiers THEN ParseVariableDeclaration(ts, i)
     ELSE Parsed(Expr(e.e), Expect(e.next), 0)

ParseForStatement(ts, i) ==
  LET init == ParseForInit(ts, Expect(Expect(i)))
      c == ParseExpression(ts, init.next)
      inc == ParseExpression(ts, Expect(c.next))
      body == ParseStatement(ts, Expect(inc.next))
  IN Parsed(For(init.s, c.e, inc.e, body.s), body.next, body.returns)

ParseExpressionStatement(ts, i) ==
  LET e == IF Kind(ts, i) = ";" THEN At(Nothing, i) ELSE ParseExpression(ts, i)
  IN Parsed(Expr(e.e), Expect(e.next), 0)

\* Without an expression the code stops at an assertion; here it goes on, and
\* the code generator does not.
ParseReturnStatement(ts, i) ==
  LET e == ParseExpression(ts, Expect(i)) IN Parsed(Return(e.e), Expect(e.next), 1)

ParseStatement(ts, i) ==
  CASE Kind(ts, i) = "if" -> ParseIfStatement(ts, i)
    [] Kind(ts, i) = "switch" -> ParseSwitchStatement(ts, i)
    [] Kind(ts, i) = "while" -> ParseWhileStatement(ts, i)
    [] Kind(ts, i) = "for" -> ParseForStatement(ts, i)
    [] Kind(ts, i) = "{" -> ParseCompoundStatement(ts, i)
    [] Kind(ts, i) = "break" -> Parsed(Break, Expect(i + 1), 0)
    [] Kind(ts, i) = "continue" -> Parsed(Continue, Expect(i + 1), 0)
    [] Kind(ts, i) = "return" -> ParseReturnStatement(ts, i)
    [] OTHER -> ParseExpressionStatement(ts, i)

Function(body, void) ==
  [body |-> body.s, returns |-> body.returns, next |-> body.next, void |-> void]

\* What stands behind the name of a function: no parameters, and its body.
ParseFunctionDeclaration(ts, void) ==
  Function(ParseCompoundStatement(ts, Expect(Expect(1))), void)

-----------------------------------------------------------------------------
(* How C writes statements.  An else belongs to the nearest if: where it     *)
(* does not, the tree has a compound statement.                              *)

RECURSIVE WriteStatement(_)

WriteAll(statements) ==
  FlattenSeq([i \in DOMAIN statements |-> WriteStatement(statements[i])])

Parenthesised(e) == <<T("(")>> \o Write(e, 1) \o <<T(")")>>

WriteArm(arm) ==
  (IF arm.default THEN <<T("default")>> ELSE <<T("case"), Integer(arm.const)>>)
    \o <<T(":")>> \o WriteAll(arm.body)

WriteStatement(s) ==
  CASE s.kind = "expr" ->
         (IF s.e = Nothing THEN <<>> ELSE Write(s.e, 1)) \o <<T(";")>>
    [] s.kind = "decl" ->
         <<T("int"), Identifier(s.name)>>
           \o (IF s.init = Nothing THEN <<>> ELSE <<T("=")>> \o Write(s.init, 1))
           \o <<T(";")>>
    [] s.kind = "compound" -> <<T("{")>> \o WriteAll(s.body) \o <<T("}")>>
    [] s.kind = "if" ->
         <<T("if")>> \o Parenthesised(s.cond) \o WriteStatement(s.then)
           \o (IF s.else = Nothing THEN <<>>
               ELSE <<T("else")>> \o WriteStatement(s.else))
    [] s.kind = "while" ->
         <<T("while")>> \o Parenthesised(s.cond) \o WriteStatement(s.body)
    [] s.kind = "for" ->
         <<T("for"), T("(")>> \o WriteStatement(s.init) \o Write(s.cond, 1)
           \o <<T(";")>> \o Write(s.inc, 1) \o <<T(")")>> \o WriteStatement(s.body)
    [] s.kind = "switch" ->
         <<T("switch")>> \o Parenthesised(s.cond) \o <<T("{")>>
           \o FlattenSeq([i \in DOMAIN s.arms |-> WriteArm(s.arms[i])]) \o <<T("}")>>
    [] s.kind = "return" ->
         <<T("return")>> \o (IF s.e = Nothing THEN <<>> ELSE Write(s.e, 1)) \o <<T(";")>>
    [] s.kind \in {"break", "continue"} -> <<T(s.kind), T(";")>>

WriteFunction(body) == <<T("("), T(")")>> \o WriteStatement(body)

\* The returns that are written in a statement.
RECURSIVE ReturnsIn(_)
ReturnsIn(s) ==
  LET InAll(statements) == FoldLeft(LAMBDA n, t : n + ReturnsIn(t), 0, statements)
  IN CASE s.kind = "return" -> 1
       [] s.kind = "if" -> ReturnsIn(s.then) + ReturnsIn(s.else)
       [] s.kind \in {"while", "for"} -> ReturnsIn(s.body)
       [] s.kind = "compound" -> InAll(s.body)
       [] s.kind = "switch" ->
            InAll(FlattenSeq([i \in DOMAIN s.arms |-> s.arms[i].body]))
       [] OTHER -> 0
=============================================================================
