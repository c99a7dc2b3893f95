----------------------------- MODULE MCControlFlow ----------------------------
(***************************************************************************)
(* Functions of four families: statements nested up to a depth, with break,*)
(* continue and return wherever C allows them; functions that may end      *)
(* without a return; conditions nested in each other, in each place where  *)
(* one may stand; and expressions that are only parsed.  A variable's name *)
(* is a path in the tree or a number.                                      *)
(***************************************************************************)
EXTENDS ControlFlow, TLC

Three == 0..2

Opaque(p) == Name(p)
Do(p) == Expr(Opaque(p))
ReturnOf(p) == Return(Opaque(p))
\* An if as the first branch of another would take its else.
Closed(s) == IF s.kind = "if" THEN Compound(<<s>>) ELSE s

\* What stands around a statement: may it break, may it continue?
Outside == [breaks |-> FALSE, continues |-> FALSE]
InFor(c) == [breaks |-> TRUE, continues |-> TRUE]
InWhile(c) == [breaks |-> TRUE, continues |-> FALSE]
InSwitch(c) == [c EXCEPT !.breaks = TRUE]

Leaves(p, c) ==
  {Do(p), ReturnOf(p)}
    \cup (IF c.breaks THEN {Break} ELSE {})
    \cup (IF c.continues THEN {Continue} ELSE {})

RECURSIVE Statements(_, _, _)

Loops(d, p, c) ==
  {While(Opaque(p), Compound(<<s, Do(p \o <<2>>)>>)) :
     s \in Statements(d - 1, p \o <<1>>, InWhile(c))}
  \cup {For(Do(p \o <<7>>), Opaque(p), Opaque(p \o <<8>>),
            Compound(<<s, Do(p \o <<2>>)>>)) :
     s \in Statements(d - 1, p \o <<1>>, InFor(c))}

Ifs(d, p, c) ==
  UNION {{If(Opaque(p), s, Nothing),
          If(Opaque(p), Closed(s), ReturnOf(p \o <<2>>)),
          If(Opaque(p), Do(p \o <<2>>), s)} :
           s \in Statements(d - 1, p \o <<1>>, c)}

Switches(d, p, c) ==
  LET e == Do(p \o <<2>>)
      x == Do(p \o <<3>>)
  IN UNION {{Switch(Opaque(p), <<Case(1, <<s>>), Default(<<x>>)>>),
             Switch(Opaque(p), <<Case(1, <<>>), Case(2, <<s>>)>>),
             Switch(Opaque(p), <<Case(1, <<s>>), Case(2, <<e>>), Default(<<x>>)>>),
             Switch(Opaque(p), <<Case(2, <<e>>), Case(1, <<s>>), Default(<<x>>)>>),
             Switch(Opaque(p), <<Case(1, <<e>>), Default(<<s>>)>>)} :
              s \in Statements(d - 1, p \o <<1>>, InSwitch(c))}

Statements(d, p, c) ==
  IF d = 0 THEN Leaves(p, c)
  ELSE Leaves(p, c) \cup Loops(d, p, c) \cup Ifs(d, p, c) \cup Switches(d, p, c)

FunctionOf(body, void) == [body |-> Compound(body), void |-> void, compiled |-> TRUE]

\* A statement in front of the return, or the body of a void function.
Finished(s) ==
  {FunctionOf(<<s, ReturnOf(<<9>>)>>, FALSE)}
    \cup (IF ReturnsIn(s) = 0 THEN {FunctionOf(<<s>>, TRUE)} ELSE {})

\* Depth 2 of everything, and a loop around it.
NestedStatements ==
  UNION {Finished(s) : s \in Statements(2, <<1>>, Outside)
                             \cup Loops(3, <<1>>, Outside)}

\* The last statement is no return: control may reach the end without a value.
UnfinishedStatements ==
  UNION {{FunctionOf(<<s>>, FALSE),
          FunctionOf(<<s, If(Opaque(<<9>>), ReturnOf(<<9, 1>>), Nothing)>>, FALSE)} :
           s \in Statements(2, <<1>>, Outside)}

-----------------------------------------------------------------------------

a == Name(<<91>>)
b == Name(<<92>>)
c == Name(<<93>>)
x == Name(<<94>>)

And(l, r) == Binary("&&", l, r)
Not(e) == Unary("!", e)

\* Expressions that have a value, and relations, which are only conditions.
Arithmetic ==
  {a, Unary("-", a), Unary("-", Literal(1)), Postfix("--", x), Binary("=", x, b),
   Binary("-=", x, a), Binary("-", a, b), Binary("-", Literal(1), a),
   Binary("*", Literal(2), a), Binary("=", x, Binary("+=", c, a))}
Relational ==
  {Binary("<", a, b), Binary(">=", Literal(1), a), Binary("!=", Literal(1), a),
   Binary("<=", Binary("-", a, b), c), Binary("==", Binary("=", x, a), b)}

\* A constant is not compared with a constant.
Simple == (Arithmetic \ {Unary("-", Literal(1))}) \cup Relational
Few == {a, Postfix("--", x), Binary("<", a, b), Binary("==", Binary("=", x, a), b)}

Ands(lefts, rights) == {And(l, r) : l \in lefts, r \in rights}
Not1 == {Not(e) : e \in Simple \ Relational}
Ternaries(t) ==
  {Ternary(t, l, r) : l \in {a, Literal(1), Binary("-", a, b)},
                      r \in {b, Unary("-", Literal(1)), Binary("=", x, b)}}

\* Logical operators in each other.
Inner == Ands(Few, Few) \cup {Not(a), Ternary(a, b, Literal(0)),
                              Ternary(Binary("<", a, b), x, c)}
Around(e) ==
  {Not(e), Ternary(e, a, b), Ternary(a, e, b), Ternary(a, b, e),
   Binary("-", e, a), Binary("-", a, e), Binary("-", Literal(1), e)}

Finishing(s) == FunctionOf(<<s, Return(x)>>, FALSE)

InIf(e) == Finishing(If(e, Expr(Postfix("++", x)), Expr(Postfix("--", x))))

Places(e) ==
  {Finishing(If(e, Return(a), Nothing)),
   Finishing(While(e, Compound(<<If(e, Break, Nothing), Expr(a)>>))),
   Finishing(For(Decl(<<95>>, Literal(1)), e, Postfix("++", x),
                 If(e, Continue, Expr(Binary("=", x, b))))),
   Finishing(If(a, Closed(If(e, Expr(a), Expr(b))), Expr(c)))}

ValuePlaces(e) ==
  {FunctionOf(<<Return(e)>>, FALSE),
   Finishing(Decl(<<95>>, e)),
   Finishing(Expr(Binary("=", x, e))),
   Finishing(For(Expr(e), a, e, Compound(<<Decl(<<95>>, Nothing)>>))),
   Finishing(Switch(e, <<Case(1, <<Expr(e), Break>>), Case(2, <<Return(e)>>),
                         Default(<<Expr(b)>>)>>))}

\* A condition in an if, and some in each place where an expression may stand.
Conditions ==
  {{InIf(And(l, r)) : r \in Simple} : l \in Simple}
  \cup {{InIf(e) : e \in Ternaries(t)} : t \in Simple}
  \cup {{InIf(e) : e \in Simple \cup Not1}}
  \cup {{InIf(e) : e \in Ands({i}, Few) \cup Ands(Few, {i}) \cup Around(i)} : i \in Inner}
  \cup {Places(e) : e \in Few \cup Ands(Few, Few)}
  \cup {ValuePlaces(e) :
          e \in Arithmetic \cup {Not(a), And(a, b), And(Binary("<", a, b), c),
                                 Ternary(a, b, c),
                                 Ternary(Binary("<", a, b), a, Literal(1))}}

-----------------------------------------------------------------------------
(* Expressions, with operators of each level on both sides of each other.    *)

\* The left operand of an assignment is one.
Assignable == {a, Index(a, b), Member("->", a, <<1>>)}

Of(ops, operands, right) ==
  {Binary(op, l, r) : op \in ops \ Assignments, l \in operands, r \in right}
  \cup {Binary(op, l, r) : op \in ops \cap Assignments, l \in Assignable, r \in right}

Grow(ops, operands) ==
  operands \cup Of(ops, operands, operands)
    \cup {Unary("-", e) : e \in operands} \cup {Unary("*", e) : e \in operands}
    \cup {Postfix("++", e) : e \in Assignable}
    \cup {Index(a, e) : e \in operands} \cup {Call(<<96>>, <<e, b>>) : e \in operands}
    \cup {Member(".", Index(a, e), <<1>>) : e \in operands}

Chosen == {"=", "&&", "&", "==", "<", "<<", "-", "*"}

one == Grow(Chosen, {a})
some == Grow({"=", "==", "<", "-"}, {a})

\* A binary operator on smaller expressions, a ternary on still smaller ones.
Deep ==
  {Of({op}, one, one) : op \in Chosen}
  \cup {{Unary("!", e) : e \in Of({op}, one, {a})} : op \in Chosen}
  \cup {{Index(e, b) : e \in Of({op}, {a}, one)} : op \in Chosen}
  \cup {{Call(<<96>>, <<e, Literal(1), f>>) : e \in one} : f \in some}
  \cup {{Ternary(t, e, f) : e \in some, f \in some} : t \in some}
  \cup {{Binary(op, a, Binary(q, b, Ternary(t, e, a))) :
           op \in {"=", "-"}, q \in {"=", "&&"}, e \in some} : t \in some}
  \* four operators in a row
  \cup {UNION {{Binary(p, Binary(q, a, b), Binary(r, a, Binary(s, b, a))),
                Binary(p, Binary(q, Binary(r, a, b), a), Binary(s, b, a))} :
                 r, s \in Chosen \ {"="}} : p, q \in Chosen \ {"="}}
  \* the other operators of a level, alone
  \cup {Of({op, "&&", "-"}, Grow({op, "&&", "-"}, {a}), Grow({op, "&&", "-"}, {a})) :
          op \in {"<=", ">=", ">", "!=", ">>", "+", "/", "%"}}
  \cup {Of({op}, {a}, Grow(Chosen \ {"="}, {a})) : op \in {"+=", "-=", "*=", "/="}}

Parsing(e) == [body |-> Compound(<<Expr(e)>>), void |-> TRUE, compiled |-> FALSE]

AllFunctions ==
  {NestedStatements, UnfinishedStatements} \cup Conditions
    \cup {{Parsing(e) : e \in family} : family \in Deep}

-----------------------------------------------------------------------------
(* The smallest programs for which the code does not do what C says, and the *)
(* property that each of them violates.                                      *)

\* while (c) { if (d) continue; ... } inside of a for loop:
\* FollowsTheSource.
ContinueInWhile ==
  {{FunctionOf(<<For(Expr(a), a, a, Compound(<<
      While(b, Compound(<<If(c, Continue, Nothing), Expr(x)>>))>>))>>, TRUE)}}

\* switch (a) { case 1: b; case 2: default: c; }: TargetsInserted.
TrailingEmptyCase ==
  {{FunctionOf(<<Switch(a, <<Case(1, <<Expr(b)>>), Case(2, <<>>),
                            Default(<<Expr(c)>>)>>)>>, TRUE)}}

\* switch (a) { default: b; case 1: c; }: FollowsTheSource.
DefaultFirst ==
  {{FunctionOf(<<Switch(a, <<Default(<<Expr(b)>>), Case(1, <<Expr(c)>>)>>)>>, TRUE)}}

\* while (a) ; stops the compiler: FollowsTheSource.
EmptyStatement == {{FunctionOf(<<While(a, Expr(Nothing))>>, TRUE)}}

\* if (x = a < b) ... stores the inverted relation: FollowsTheSource.  It does so
\* between the comparison and its branch, as !(a < b) does:
\* BranchesFollowTheirCompare.
AssignedComparison ==
  {{Finishing(If(Binary("=", x, Binary("<", a, b)), Expr(b), Nothing))}}
NegatedComparison == {{Finishing(If(Not(Binary("<", a, b)), Expr(b), Nothing))}}

\* a == b <= a and a += b += a: GroupsAsC.
EqualityOfComparison == {{Parsing(Binary("==", a, Binary("<=", b, a)))}}
TwoCompoundAssignments == {{Parsing(Binary("+=", a, Binary("+=", b, a)))}}

\* a < b ? c : x, a && b ? c : x: GroupsAsC, with a ConditionLevel of 3.  With 10
\* they are written with parentheses around the condition.
ConditionalOperation ==
  {{Parsing(Ternary(Binary("<", a, b), c, x)), Parsing(Ternary(And(a, b), c, x))}}
=============================================================================
