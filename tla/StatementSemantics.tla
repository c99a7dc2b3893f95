-------------------------- MODULE StatementSemantics -------------------------
(***************************************************************************)
(* What C says the statements do, independently of any code: a function is *)
(* the list of what is still to be done, in which a loop leaves the mark   *)
(* to which its body returns and a switch the mark of its end, and the     *)
(* values that expressions have left.  Where C does not say which operand  *)
(* comes first, it is the one that the compiler takes first.               *)
(***************************************************************************)
EXTENDS SyntaxTree

Truth(b) == IF b THEN 1 ELSE 0

Operate(o, l, r) ==
  CASE o = "+" -> l + r
    [] o = "-" -> l - r
    [] o = "*" -> l * r
    [] o = "==" -> Truth(l = r)
    [] o = "!=" -> Truth(l # r)
    [] o = "<" -> Truth(l < r)
    [] o = ">" -> Truth(l > r)
    [] o = "<=" -> Truth(l <= r)
    [] o = ">=" -> Truth(l >= r)

(* What is to be done beside statements. *)

Eval(e) == [kind |-> "eval", e |-> e]
Read(n) == [kind |-> "read", name |-> n]                \* a variable
Write(n) == [kind |-> "write", name |-> n]              \* the value stays
Push(v) == [kind |-> "push", v |-> v]
Apply(o) == [kind |-> "apply", o |-> o]                 \* to the last two values
Copy == [kind |-> "copy"]
Swap == [kind |-> "swap"]
Drop == [kind |-> "drop"]
Choose(t, f) == [kind |-> "choose", t |-> t, f |-> f]   \* by the last value
Again(loop) == [kind |-> "again", loop |-> loop]        \* test the condition again
Step(loop) == [kind |-> "step", loop |-> loop]          \* do the increment first
Select(s) == [kind |-> "select", switch |-> s]
Leave == [kind |-> "leave"]                             \* the end of a switch
Returning == [kind |-> "returning"]                     \* the last value

Operation(op) ==
  CASE op \in {"+=", "++"} -> "+" [] op \in {"-=", "--"} -> "-" [] op = "*=" -> "*"

\* What the evaluation of an expression consists of.
Evaluation(e) ==
  CASE e.kind = "name" -> <<Read(e.name)>>
    [] e.kind = "literal" -> <<Push(e.val)>>
    [] e.kind = "unary" ->
         IF e.op = "-" THEN <<Push(0), Eval(e.e), Apply("-")>>
         ELSE <<Eval(e.e), Push(0), Apply("==")>>
    [] e.kind = "postfix" ->
         <<Read(e.e.name), Copy, Push(1), Apply(Operation(e.op)), Write(e.e.name), Drop>>
    [] e.kind = "ternary" -> <<Eval(e.c), Choose(<<Eval(e.t)>>, <<Eval(e.f)>>)>>
    [] e.kind = "binary" ->
         CASE e.op = "&&" -> <<Eval(e.l), Choose(<<Eval(e.r), Push(0), Apply("!=")>>,
                                                 <<Push(0)>>)>>
           [] e.op = "=" -> <<Eval(e.r), Write(e.l.name)>>
           [] e.op \in Assignments \ {"="} ->
                <<Eval(e.r), Read(e.l.name), Swap, Apply(Operation(e.op)),
                  Write(e.l.name)>>
           [] OTHER -> <<Eval(e.l), Eval(e.r), Apply(e.op)>>

\* break drops everything up to and including the innermost mark, continue
\* everything up to the innermost loop's.
FirstMark(todo, kinds) ==
  CHOOSE i \in DOMAIN todo :
    todo[i].kind \in kinds /\ \A j \in 1..(i - 1) : todo[j].kind \notin kinds

DropBreak(todo) ==
  SubSeq(todo, FirstMark(todo, {"again", "step", "leave"}) + 1, Len(todo))

DropContinue(todo) ==
  SubSeq(todo, FirstMark(todo, {"again", "step"}), Len(todo))

\* The bodies from the arm of a value on, or from the default's.
ArmsFor(s, v) ==
  LET chosen == {i \in DOMAIN s.arms : ~s.arms[i].default /\ s.arms[i].const = v}
      arms == IF chosen # {} THEN chosen
              ELSE {i \in DOMAIN s.arms : s.arms[i].default}
  IN FlattenSeq([i \in DOMAIN s.arms |->
                   IF \E a \in arms : a <= i THEN s.arms[i].body ELSE <<>>])

\* What is to be done instead of s, which is followed by then, when v is the last
\* value; nothing of it is observed.
Instead(s, then, v) ==
  CASE s.kind = "nothing" -> then
    [] s.kind = "eval" -> Evaluation(s.e) \o then
    [] s.kind = "choose" -> (IF v # 0 THEN s.t ELSE s.f) \o then
    [] s.kind = "expr" -> <<Eval(s.e), Drop>> \o then
    [] s.kind = "decl" -> (IF s.init = Nothing THEN <<>>
                           ELSE <<Eval(s.init), Write(s.name), Drop>>) \o then
    [] s.kind = "compound" -> s.body \o then
    [] s.kind = "if" -> <<Eval(s.cond), Choose(<<s.then>>, <<s.else>>)>> \o then
    [] s.kind = "switch" -> <<Eval(s.cond), Select(s)>> \o then
    [] s.kind = "select" -> ArmsFor(s.switch, v) \o <<Leave>> \o then
    [] s.kind = "leave" -> then
    [] s.kind = "while" -> <<Again(s)>> \o then
    [] s.kind = "for" -> <<s.init, Again(s)>> \o then
    [] s.kind = "again" ->
         <<Eval(s.loop.cond),
           Choose(<<s.loop.body,
                    IF s.loop.kind = "for" THEN Step(s.loop) ELSE Again(s.loop)>>,
                  <<>>)>> \o then
    [] s.kind = "step" -> <<Eval(s.loop.inc), Drop, Again(s.loop)>> \o then
    [] s.kind = "break" -> DropBreak(then)
    [] s.kind = "continue" -> DropContinue(then)
    [] s.kind = "return" -> <<Eval(s.e), Returning>>
    [] OTHER -> then

\* The values that are left.
ValuesAfter(s, vals) ==
  LET n == Len(vals) IN
  CASE s.kind = "push" -> Append(vals, s.v)
    [] s.kind = "copy" -> Append(vals, vals[n])
    [] s.kind = "apply" ->
         Append(SubSeq(vals, 1, n - 2), Operate(s.o, vals[n - 1], vals[n]))
    [] s.kind = "swap" -> SubSeq(vals, 1, n - 2) \o <<vals[n], vals[n - 1]>>
    [] s.kind \in {"drop", "choose", "select"} -> Front(vals)
    [] OTHER -> vals

Source(todo, vals) == [todo |-> todo, vals |-> vals]

\* The source up to its next observable step: a variable is read or written, a
\* value is returned, the end.
RECURSIVE Settle(_)
Settle(source) ==
  IF source.todo = <<>> \/ Head(source.todo).kind \in {"read", "write", "returning"}
  THEN source
  ELSE LET s == Head(source.todo)
           v == IF source.vals = <<>> THEN 0 ELSE Last(source.vals)
       IN Settle(Source(Instead(s, Tail(source.todo), v), ValuesAfter(s, source.vals)))

\* What is observed next, given a settled source.
Observation(source) ==
  IF source.todo = <<>> THEN [op |-> "end"]
  ELSE LET s == Head(source.todo) IN
       CASE s.kind = "read" -> [op |-> "read", name |-> s.name]
         [] s.kind = "write" ->
              [op |-> "write", name |-> s.name, val |-> Last(source.vals)]
         [] s.kind = "returning" -> [op |-> "ret", val |-> Last(source.vals)]

\* What is left when a variable was read as v, or written.
AfterRead(source, v) == Settle(Source(Tail(source.todo), Append(source.vals, v)))
AfterWrite(source) == Settle(Source(Tail(source.todo), source.vals))
=============================================================================
