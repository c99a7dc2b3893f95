----------------------------- MODULE ControlFlow -----------------------------
(***************************************************************************)
(* A function is written down, parsed, compiled to basic blocks, and the   *)
(* blocks are executed.  Beside the machine runs the source: what the      *)
(* statements say is still to be done.  What a variable holds when it is   *)
(* read is open, and both see the same value.                              *)
(***************************************************************************)
EXTENDS StatementParser, StatementCodegen

S == INSTANCE StatementSemantics

CONSTANTS
  Families,    \* sets of functions: [body: a compound statement, void,
               \* compiled: FALSE to parse only]
  Values       \* what a variable that is read may hold

VARIABLES
  source,    \* the function as it is meant
  function,  \* the function as it was parsed
  pc,        \* "parse", "generate", "run"; "parsed", "returned"; "lost": the
             \* compiler stopped, or control is out of the code
  code,      \* its IR
  at,        \* running: block and instruction
  regs,      \* the values of instructions and of allocations, by their number
  rest       \* the source: what is still to be done, settled

vars == <<source, function, pc, code, at, regs, rest>>

Init ==
  /\ \E family \in Families : source \in family
  /\ function = Nothing
  /\ pc = "parse"
  /\ code = NewFunction
  /\ at = <<1, 1>>
  /\ regs = <<>>
  /\ rest = S!Source(<<>>, <<>>)

Parse ==
  /\ pc = "parse"
  /\ function' = ParseFunctionDeclaration(WriteFunction(source.body), source.void)
  /\ pc' = IF source.compiled THEN "generate" ELSE "parsed"
  /\ UNCHANGED <<source, code, at, regs, rest>>

Compile ==
  /\ pc = "generate"
  /\ code' = GenerateFunction(function)
  /\ pc' = IF code'.crashed THEN "lost" ELSE "run"
  /\ rest' = S!Settle(S!Source(<<source.body>>, <<>>))
  /\ UNCHANGED <<source, function, at, regs>>

Block == code.blocks[at[1]].code
AtEnd == at[2] > Len(Block)
Current == Block[at[2]]
Following == <<at[1], at[2] + 1>>

Executing(ops) == pc = "run" /\ ~AtEnd /\ Current.op \in ops

\* The value of an operand; an allocation is loaded by its user.
Value(v) ==
  CASE v.kind = "const" -> v.val
    [] v.kind = "nothing" -> 0
    [] v.kind \in {"reg", "cmp", "slot"} ->
         IF v.id \in DOMAIN regs THEN regs[v.id] ELSE 0

-----------------------------------------------------------------------------
(* Registers and allocations hold a value from the instruction that writes   *)
(* them to the last one that reads them.                                     *)

Operands(instr) ==
  CASE instr.op \in {"binary", "cmp"} -> {instr.l, instr.r}
    [] instr.op \in {"mov", "ld", "str", "ret"} -> {instr.l}
    [] OTHER -> {}

Reads(instr) ==
  {v.id : v \in {w \in Operands(instr) : w.kind \in {"reg", "cmp", "slot"}}}
    \cup (IF instr.op = "br" THEN {instr.id} ELSE {})

Writes(instr) ==
  CASE instr.op = "str" -> IF instr.loc.kind = "slot" THEN {instr.loc.id} ELSE {}
    [] instr.op \in {"binary", "cmp", "mov", "ld"} -> {instr.id}
    [] OTHER -> {}

Before(b, i) == b < at'[1] \/ (b = at'[1] /\ i < at'[2])

Live ==
  LET places == UNION {{<<b, i>> : i \in DOMAIN code.blocks[b].code} :
                         b \in DOMAIN code.blocks}
      early == {p \in places : Before(p[1], p[2])}
      All(Of(_), some) == UNION {Of(code.blocks[p[1]].code[p[2]]) : p \in some}
  IN All(Writes, early) \cap All(Reads, places \ early)

\* The registers after a step that wrote none, or wrote v to id.
Keep == regs' = [r \in DOMAIN regs \cap Live |-> regs[r]]
Set(id, v) ==
  regs' = [r \in (DOMAIN regs \cap Live) \cup {id} |-> IF r = id THEN v ELSE regs[r]]

-----------------------------------------------------------------------------

\* What the current instruction does that can be observed.
Observed ==
  CASE Current.op = "ld" /\ Current.l.kind = "var" ->
         [op |-> "read", name |-> Current.l.name]
    [] Current.op = "str" /\ Current.loc.kind = "var" ->
         [op |-> "write", name |-> Current.loc.name, val |-> Value(Current.l)]
    [] Current.op = "ret" ->
         IF Current.l = Nothing THEN [op |-> "end"]
         ELSE [op |-> "ret", val |-> Value(Current.l)]
    [] OTHER -> Nothing

Observing == pc = "run" /\ ~AtEnd /\ Observed # Nothing

\* The machine does what the source does next.
Agrees == S!Observation(rest) = Observed

\* What the source does meanwhile; it reads what the machine reads.
FollowSource ==
  IF ~Observing \/ Current.op = "ret" THEN UNCHANGED rest
  ELSE /\ Agrees
       /\ rest' = IF Current.op = "ld" THEN S!AfterRead(rest, regs'[Current.id])
                  ELSE S!AfterWrite(rest)

ReadVariable ==
  /\ Executing({"ld"}) /\ Current.l.kind = "var"
  /\ at' = Following
  /\ \E v \in Values : Set(Current.id, v)
  /\ UNCHANGED <<source, function, pc, code>>

WriteVariable ==
  /\ Executing({"str"}) /\ Current.loc.kind = "var"
  /\ at' = Following
  /\ Keep
  /\ UNCHANGED <<source, function, pc, code>>

LoadSlot ==
  /\ Executing({"ld"}) /\ Current.l.kind = "slot"
  /\ at' = Following
  /\ Set(Current.id, Value(Current.l))
  /\ UNCHANGED <<source, function, pc, code>>

StoreSlot ==
  /\ Executing({"str"}) /\ Current.loc.kind = "slot"
  /\ at' = Following
  /\ Set(Current.loc.id, Value(Current.l))
  /\ UNCHANGED <<source, function, pc, code>>

Operate ==
  /\ Executing({"binary", "cmp"})
  /\ at' = Following
  /\ Set(Current.id, S!Operate(Current.o, Value(Current.l), Value(Current.r)))
  /\ UNCHANGED <<source, function, pc, code>>

Move ==
  /\ Executing({"mov"})
  /\ at' = Following
  /\ Set(Current.id, Value(Current.l))
  /\ UNCHANGED <<source, function, pc, code>>

\* The target may be no block of the function: it is not known what happens.
GoTo(target) ==
  IF target \in BlockIds(code)
  THEN at' = <<Resolve(code, target), 1>> /\ UNCHANGED pc
  ELSE pc' = "lost" /\ UNCHANGED at

TakeJump ==
  /\ Executing({"jump"})
  /\ GoTo(Current.to)
  /\ Keep
  /\ UNCHANGED <<source, function, code>>

TakeBranch ==
  /\ Executing({"br"}) /\ regs[Current.id] # 0
  /\ GoTo(Current.to)
  /\ Keep
  /\ UNCHANGED <<source, function, code>>

PassBranch ==
  /\ Executing({"br"}) /\ regs[Current.id] = 0
  /\ at' = Following
  /\ Keep
  /\ UNCHANGED <<source, function, pc, code>>

FallThrough ==
  /\ pc = "run" /\ AtEnd /\ at[1] < Len(code.blocks)
  /\ at' = <<at[1] + 1, 1>>
  /\ UNCHANGED <<source, function, pc, code, regs>>

RunOffTheEnd ==
  /\ pc = "run" /\ AtEnd /\ at[1] = Len(code.blocks)
  /\ pc' = "lost"
  /\ UNCHANGED <<source, function, code, at, regs>>

ReturnToCaller ==
  /\ Executing({"ret"})
  /\ pc' = "returned"
  /\ UNCHANGED <<source, function, code, at, regs>>

Terminated == pc \in {"parsed", "returned", "lost"} /\ UNCHANGED vars

\* A step of the machine.
Execute ==
  \/ ReadVariable \/ WriteVariable \/ LoadSlot \/ StoreSlot \/ Operate \/ Move
  \/ TakeJump \/ TakeBranch \/ PassBranch \/ FallThrough \/ RunOffTheEnd
  \/ ReturnToCaller

Next == Parse \/ Compile \/ (Execute /\ FollowSource) \/ Terminated

\* The machine goes on executing.
Spec == Init /\ [][Next]_vars /\ WF_<<pc, at, regs>>(Execute)

-----------------------------------------------------------------------------
(* Properties *)

\* The variables have their types; every block that was made was moved into the
\* function at most once.
TypeOK ==
  /\ IsInjective([b \in DOMAIN code.blocks |-> code.blocks[b].id])
  /\ BlockIds(code) \subseteq 1..code.made
  /\ pc \in {"parse", "generate", "run", "parsed", "returned", "lost"}
  /\ at[1] \in DOMAIN code.blocks /\ at[2] \in 1..(Len(Block) + 1)
  /\ DOMAIN regs \subseteq 0..(code.ID - 1)

\* The parser takes all tokens of a function and groups them as C does: every
\* operand goes to the operator it belongs to, every else to its if, every
\* statement to its loop or arm; and it counts the returns.  The texts are those
\* with every operation that is the condition of a ternary in parentheses.
GroupsAsC ==
  pc \in {"generate", "parsed"} =>
    /\ function.body = source.body
    /\ function.returns = ReturnsIn(source.body)
    /\ function.next = Len(WriteFunction(source.body)) + 1

\* The blocks do what the statements say, whatever the variables hold: they read
\* the same variables in the same order, write the same values, and return the
\* value of the return statement that was reached.  break and continue inside of
\* any nesting of loops and switches, falling through cases, returning from
\* within, short circuits and inverted comparisons are all in this one property.
\* Control leaves the code without a return only where the source does, at the
\* end of a function that should have returned a value.
FollowsTheSource ==
  /\ Observing =>
       \/ Agrees
       \/ Current.op = "ret" /\ ~function.void /\ rest.todo = <<>>
  /\ pc = "lost" => rest.todo = <<>> /\ ~function.void /\ ~code.crashed

\* Every jump and branch has a block of this function as its target, once: no
\* jump is left unpatched, no target was read beyond the end of a table, and no
\* block was made, referred to, and then not inserted.
TargetsInserted ==
  \A b \in DOMAIN code.blocks : \A i \in DOMAIN code.blocks[b].code :
    LET instr == code.blocks[b].code[i] IN
    instr.op \in {"jump", "br"} =>
      Cardinality({c \in DOMAIN code.blocks : code.blocks[c].id = instr.to}) = 1

\* Every branch comes directly behind its comparison: instruction selection takes
\* the condition from the instruction in front of the branch.
BranchesFollowTheirCompare ==
  \A b \in DOMAIN code.blocks : \A i \in DOMAIN code.blocks[b].code :
    LET block == code.blocks[b].code IN
    block[i].op = "br" =>
      i > 1 /\ block[i - 1].op = "cmp" /\ block[i - 1].id = block[i].id

\* The tables of the targets of break and continue are left as they were found:
\* the next function does not see a block of this one.
TablesAreLeftEmpty == code.breaks = <<>> /\ code.increments = <<>>

\* In a function that ends with its return, or is void, there is only one return
\* and it is the last instruction of the last block: prologue insertion puts the
\* epilogue in front of that instruction.
ReturnComesLast ==
  pc \in {"run", "returned"}
    /\ (source.void \/ Last(source.body.body).kind = "return") =>
    LET final == Last(code.blocks).code IN
    /\ final # <<>> /\ Last(final).op = "ret"
    /\ \A b \in DOMAIN code.blocks : \A i \in DOMAIN code.blocks[b].code :
         code.blocks[b].code[i].op = "ret" =>
           b = Len(code.blocks) /\ i = Len(final)

\* The code never loops without evaluating something.
KeepsObserving == []<>(Observing \/ pc # "run")
=============================================================================
