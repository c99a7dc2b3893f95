------------------------------- MODULE IRFactory ------------------------------
(***************************************************************************)
(* The builder the code generators of the AST nodes share                  *)
(* (src/middle_end/IR/IRFactory.hpp) and the function it builds: a list of *)
(* basic blocks, the last of which receives the instructions.  A block is  *)
(* created before it is inserted, and jumps refer to it from then on.      *)
(***************************************************************************)
EXTENDS SyntaxTree, FiniteSets

\* The target of a jump that is to be patched, and what is read from a table
\* beyond its end.
NoBlock == 0
Undefined == 99999

(* Values of the IR: a constant, the result of an instruction or of a        *)
(* comparison, an allocation without a name and one of a variable.           *)
Const(v) == [kind |-> "const", val |-> v]
Reg(id) == [kind |-> "reg", id |-> id]
Cmp(id) == [kind |-> "cmp", id |-> id]
Slot(id) == [kind |-> "slot", id |-> id]
Var(n) == [kind |-> "var", name |-> n]

\* A new function: an entry block, no labels and no numbers yet; the tables of
\* the targets of break and continue belong to the factory and are not cleared.
\* val is the value that the last code generator returned, crashed that it
\* followed a null pointer instead.
NewFunction ==
  [blocks |-> <<[id |-> 1, name |-> <<"entry", 0>>, code |-> <<>>]>>,
   made |-> 1, labels |-> <<>>, breaks |-> <<>>, increments |-> <<>>, ID |-> 0,
   returnValue |-> Nothing, val |-> Nothing, crashed |-> FALSE]

\* n blocks are made, their addresses are those that follow f.made.
MakeBBs(f, n) == [f EXCEPT !.made = @ + n]

Insert(f, instr) ==
  [f EXCEPT !.blocks[Len(f.blocks)].code = Append(@, instr)]

\* An instruction that has a result takes the next number.
Define(f, instr, value) == [Insert(f, instr) EXCEPT !.ID = @ + 1, !.val = value]

CreateMOV(f, v) == Define(f, [op |-> "mov", id |-> f.ID, l |-> v], Reg(f.ID))

CreateBinaryInstruction(f, o, l, r) ==
  Define(f, [op |-> "binary", id |-> f.ID, o |-> o, l |-> l, r |-> r], Reg(f.ID))

CreateCMP(f, rel, l, r) ==
  Define(f, [op |-> "cmp", id |-> f.ID, o |-> rel, l |-> l, r |-> r], Cmp(f.ID))

CreateLD(f, from) == Define(f, [op |-> "ld", id |-> f.ID, l |-> from], Reg(f.ID))

CreateSTR(f, v, to) == Insert(f, [op |-> "str", l |-> v, loc |-> to])

\* Allocations are collected at the front of the entry block.
CreateSA(f) == [f EXCEPT !.ID = @ + 1, !.val = Slot(f.ID)]

CreateJUMP(f, target) == Insert(f, [op |-> "jump", to |-> target])
CreateBR(f, cond, target) == Insert(f, [op |-> "br", id |-> cond.id, to |-> target])
CreateRET(f, v) == Insert(f, [op |-> "ret", l |-> v])

Inverted(rel) ==
  CASE rel = "==" -> "!=" [] rel = "!=" -> "==" [] rel = "<" -> ">="
    [] rel = ">" -> "<=" [] rel = "<=" -> ">" [] rel = ">=" -> "<"

\* The comparison is changed where it stands.
InvertRelation(f, cmp) ==
  LET Is(instr) == instr.op = "cmp" /\ instr.id = cmp.id
      b == CHOOSE b \in DOMAIN f.blocks : \E i \in DOMAIN f.blocks[b].code :
             Is(f.blocks[b].code[i])
      i == CHOOSE i \in DOMAIN f.blocks[b].code : Is(f.blocks[b].code[i])
  IN [f EXCEPT !.blocks[b].code[i].o = Inverted(@)]

LabelCount(f, name) == IF name \in DOMAIN f.labels THEN f.labels[name] ELSE 0

\* Mutation: the labels are numbered, but not counted.
InsertBBUncounted(f, id, name) ==
  [f EXCEPT !.blocks = Append(@, [id |-> id, name |-> <<name, 0>>, code |-> <<>>])]

\* The label is made unique by the number of labels of this name so far.
InsertBB(f, id, name) ==
  [f EXCEPT
     !.blocks = Append(@, [id |-> id, name |-> <<name, LabelCount(f, name)>>,
                           code |-> <<>>]),
     !.labels = [l \in DOMAIN @ \cup {name} |->
                   IF l = name THEN LabelCount(f, name) + 1 ELSE @[l]]]

PushBreak(f, id) == [f EXCEPT !.breaks = Append(@, id)]
\* Mutation: the target of break stays in the table.
PopNoBreak(f) == f
PopBreak(f) == [f EXCEPT !.breaks = Front(@)]
PushIncrement(f, id) == [f EXCEPT !.increments = Append(@, id)]
PopIncrement(f) == [f EXCEPT !.increments = Front(@)]

BlockIds(f) == {f.blocks[b].id : b \in DOMAIN f.blocks}

\* A jump is resolved by name: the first block that bears the target's.
Resolve(f, id) ==
  LET target == CHOOSE b \in DOMAIN f.blocks : f.blocks[b].id = id
      same == {b \in DOMAIN f.blocks : f.blocks[b].name = f.blocks[target].name}
  IN CHOOSE b \in same : \A c \in same : b <= c
=============================================================================
