---------------------------- MODULE TargetLowering ----------------------------
(***************************************************************************)
(* From the generic code of a statement to AArch64 instructions: the        *)
(* legalizer (MachineInstructionLegalizer::Run with the expansions of       *)
(* TargetInstructionLegalizer and AArch64InstructionLegalizer), the          *)
(* selection (InsturctionSelection::InstrSelect) and the MOV fix.  Each      *)
(* walks over the block by an index, the legalizer while it rewrites it.    *)
(* The MOV fix comes behind the allocation of registers; it looks at their  *)
(* sizes only, which the allocation keeps.                                  *)
(***************************************************************************)
EXTENDS ExpressionCodegen, AArch64TargetMachine, TLC

CONSTANTS
  Statements,   \* the statements that are compiled
  Admitted,     \* the kinds of statements that are admitted besides
  MaxVReg       \* bound of the registers

Kinds == {"uncast", "comparisons", "widening", "postfix", "negation", "truncation"}

\* Generating the code of a statement takes at most fifteen registers.
ASSUME LoweringAssumption ==
  Admitted \subseteq Kinds /\ MaxVReg \in Nat /\ MaxVReg >= 16

\* Operands of an expression, and statements (see ExpressionCodegen).
Expression == [form : {"variable", "literal", "absent"}, var : Variables \cup {"none"},
               postfix : {"none", "INCREMENT", "DECREMENT"}, value : Int]

IsExpression(x) == x \in Expression /\ (x.form = "variable" => x.var \in Variables)

Operations == {"none", "MINUS", "truth", "MOD", "LSL"} \cup ArithmeticOps \cup Relations

\* Expressions of one operand have no right one, conditions assign nothing.
ASSUME StatementAssumption ==
  /\ \A v \in Variables : TypeOf[v] \in {Types[i] : i \in DOMAIN Types}
  /\ \A s \in Statements :
       /\ s.op \in Operations /\ s.dst \in Variables \cup {"none"}
       /\ IsExpression(s.left) /\ s.left.form # "absent" /\ IsExpression(s.right)
       /\ (s.right.form = "absent") <=> (s.op \in {"none", "MINUS", "truth"})
       /\ (s.dst \notin Variables) <=> (s.op \in {"truth"} \cup Relations)
  /\ "none" \notin Variables

VARIABLES
  statement,
  code,         \* the block
  nextVReg,     \* GetNextAvailableVReg
  pass,         \* "legalize", "select", "fix", "done"
  index         \* of the instruction that is looked at

vars == <<statement, code, nextVReg, pass, index>>

-----------------------------------------------------------------------------
(* Statements that are not compiled as C has them, each kind shown by a run. *)

Present(s) == {x \in {s.left, s.right} : x.form # "absent"}

\* The casts from one type to another.
Casts(s) ==
  {<<OperandType(x), CastType(s, x)>> : x \in Present(s)}
    \cup (IF s.dst = "none" THEN {} ELSE {<<ResultType(s), TypeOf[s.dst]>>})

OperandTypes(s) == {OperandType(x) : x \in Present(s)}

Exceptions(s) ==
  LET types == OperandTypes(s)
      bytes == {TypeSize[t] : t \in types} = {8}
      order == s.op \in Relations \ {"EQ", "NE"}
  IN {k \in Kinds :
        CASE k = "uncast" ->
               \/ s.op = "LSL" /\ bytes
               \/ s.op = "MOD" /\ types \cap {"Char", "UnsignedChar", "Long"} # {}
          [] k = "comparisons" ->
               \/ order /\ CommonType(s) = "UnsignedInt"
               \/ s.op \in Relations /\ bytes /\ "Char" \in types
          [] k = "widening" ->
               \E c \in Casts(s) : (c[1] \in UnsignedTypes /\ c[2] = "Long") \/ c = <<"Char", "UnsignedInt">>
          [] k = "postfix" ->
               \E x \in Present(s) : OperandType(x) = "UnsignedChar" /\ x.postfix # "none"
          [] k = "negation" -> s.op = "MINUS" /\ types \cap {"Char", "Long"} # {}
          [] k = "truncation" -> \E c \in Casts(s) : c[1] = "Long" /\ TypeSize[c[2]] = 8}

Init ==
  /\ statement \in {s \in Statements : Exceptions(s) \subseteq Admitted}
  /\ code = IRCodegen(statement).code
  /\ nextVReg = IRCodegen(statement).next
  /\ pass = "legalize" /\ index = 1

-----------------------------------------------------------------------------
(* The legalizer.  What replaces an instruction is looked at itself.         *)

\* The instruction of index i is replaced by some.
Spliced(s, i, new) == SubSeq(s, 1, i - 1) \o new \o SubSeq(s, i + 1, Len(s))

\* The instruction at the index is illegal and one of these.
Illegal(ops) ==
  /\ pass = "legalize" /\ index <= Len(code)
  /\ ~Check(code, index) /\ code[index].op \in ops

\* Mutation: the registers are not counted.
ExpandUncounted(new, registers) ==
  /\ nextVReg + registers <= MaxVReg
  /\ code' = Spliced(code, index, new)
  /\ UNCHANGED <<statement, nextVReg, pass, index>>

\* Mutation: the walk goes on behind the first instruction that is inserted.
ExpandAndGoOn(new, registers) ==
  /\ nextVReg + registers <= MaxVReg
  /\ code' = Spliced(code, index, new)
  /\ nextVReg' = nextVReg + registers
  /\ index' = index + 1
  /\ UNCHANGED <<statement, pass>>

Expand(new, registers) ==
  /\ nextVReg + registers <= MaxVReg
  /\ code' = Spliced(code, index, new)
  /\ nextVReg' = nextVReg + registers
  /\ UNCHANGED <<statement, pass, index>>

\* Mutation: what the remainder is subtracted from is the quotient's product.
ExpandMODReversed ==
  LET mi == code[index]
      div == Reg(nextVReg, 32)
      mul == Reg(nextVReg + 1, 32)
  IN
  /\ Illegal({"MOD", "MODU"})
  /\ Expand(<<Instr(IF mi.op = "MODU" THEN "DIVU" ELSE "DIV", <<div, mi.args[2], mi.args[3]>>),
              Instr("MUL", <<mul, div, mi.args[3]>>),
              Instr("SUB", <<mi.args[1], mul, mi.args[2]>>)>>, 2)

\* The two results have the default size of a virtual register.
ExpandMOD ==
  LET mi == code[index]
      div == Reg(nextVReg, 32)
      mul == Reg(nextVReg + 1, 32)
  IN
  /\ Illegal({"MOD", "MODU"})
  /\ Expand(<<Instr(IF mi.op = "MODU" THEN "DIVU" ELSE "DIV", <<div, mi.args[2], mi.args[3]>>),
              Instr("MUL", <<mul, div, mi.args[3]>>),
              Instr("SUB", <<mi.args[1], mi.args[2], mul>>)>>, 2)

\* Zero has a register.
ExpandSTOREOfZero ==
  LET mi == code[index] IN
  /\ Illegal({"STORE"}) /\ mi.args[2].id = 0
  /\ Expand(<<Instr("STORE", <<mi.args[1], Zero>>)>>, 0)

ExpandSTORE ==
  LET mi == code[index]
      r == Reg(nextVReg, 32)
  IN
  /\ Illegal({"STORE"}) /\ mi.args[2].id # 0
  /\ Expand(<<Instr("LOAD_IMM", <<r, mi.args[2]>>), Instr("STORE", <<mi.args[1], r>>)>>, 1)

\* The immediate operand i is loaded; its register is read as one of the result's size.
ExpandArithmeticInstWithImm(i) ==
  LET mi == code[index]
      load == Reg(nextVReg, mi.args[i].size)
      operand == Reg(nextVReg, mi.args[1].size)
  IN Expand(<<Instr("LOAD_IMM", <<load, mi.args[i]>>), [mi EXCEPT !.args[i] = operand]>>, 1)

ExpandSUB == Illegal({"SUB"}) /\ ExpandArithmeticInstWithImm(2)

\* Mutation: the first operand is loaded.
ExpandMULOrDIVFirst == Illegal({"MUL", "DIV", "DIVU"}) /\ ExpandArithmeticInstWithImm(2)

ExpandMULOrDIV == Illegal({"MUL", "DIV", "DIVU"}) /\ ExpandArithmeticInstWithImm(3)

\* The load before the extension becomes one that extends.
ExpandZEXT ==
  LET load == code[index - 1] IN
  /\ Illegal({"ZEXT"})
  /\ code' = Spliced(Spliced(code, index, <<>>), index - 1,
                     <<Instr("ZEXT_LOAD", <<code[index].args[1]>> \o load.args)>>)
  /\ UNCHANGED <<statement, nextVReg, pass, index>>

ExpandGLOBAL_ADDRESS ==
  LET mi == code[index]
      dest == mi.args[1]
  IN
  /\ Illegal({"GLOBAL_ADDRESS"})
  /\ Expand(<<[mi EXCEPT !.op = "ADRP"],
              Instr("ADD", <<dest, dest, LowPart(mi.args[2].id)>>)>>, 0)

KeepLegal ==
  /\ pass = "legalize" /\ index <= Len(code) /\ Check(code, index)
  /\ index' = index + 1
  /\ UNCHANGED <<statement, code, nextVReg, pass>>

-----------------------------------------------------------------------------
(* The passes behind it, which replace one instruction by one. *)

Select ==
  /\ pass = "select" /\ index <= Len(code)
  /\ code' = [code EXCEPT ![index] = SelectInstruction(code, index)]
  /\ index' = index + 1
  /\ UNCHANGED <<statement, nextVReg, pass>>

Fix ==
  /\ pass = "fix" /\ index <= Len(code)
  /\ code' = [code EXCEPT ![index] = FixMOV(@)]
  /\ index' = index + 1
  /\ UNCHANGED <<statement, nextVReg, pass>>

NextPass ==
  /\ pass # "done" /\ index > Len(code)
  /\ pass' = [legalize |-> "select", select |-> "fix", fix |-> "done"][pass]
  /\ index' = 1
  /\ UNCHANGED <<statement, code, nextVReg>>

Next ==
  \/ ExpandMOD \/ ExpandSTOREOfZero \/ ExpandSTORE \/ ExpandSUB \/ ExpandMULOrDIV
  \/ ExpandZEXT \/ ExpandGLOBAL_ADDRESS \/ KeepLegal
  \/ Select \/ Fix \/ NextPass

\* The compiler runs its passes to the end.
Spec == Init /\ [][Next]_vars /\ WF_vars(Next)

-----------------------------------------------------------------------------
(* Properties *)

Passes == {"legalize", "select", "fix", "done"}

TypeOK ==
  /\ statement \in Statements /\ pass \in Passes
  /\ nextVReg \in 1..MaxVReg /\ index \in 1..(Len(code) + 1)
  /\ \A i \in DOMAIN code : \A k \in Registers(code[i]) :
       code[i].args[k].id \in 1..(nextVReg - 1) /\ code[i].args[k].size \in DOMAIN Bits

\* What the variables hold before the statement: its operands any value, the
\* variable that is assigned all ones, so that a short store shows.
Used(s) == {x.var : x \in {y \in {s.left, s.right} : y.form = "variable"}}
AllOnes(v) == 2 ^ Bits[SizeOf[v]] - 1

Inputs(s) == {f \in [Used(s) -> 0..2 ^ Bits[64] - 1] : \A v \in Used(s) : f[v] <= AllOnes(v)}

Memory(s, input) ==
  [v \in Variables |-> IF v \in Used(s) THEN input[v] ELSE IF v = s.dst THEN AllOnes(v) ELSE 0]

\* A comparison is selected, and the branch that asks for its result is the next.
BetweenCompareAndBranch ==
  pass = "select" /\ index <= Len(code) /\ code[index].op = "BRANCH"

\* After every rewriting of an instruction, in each pass, the block does what C
\* says that the statement does, whatever its operands hold: it leaves the same
\* memory, and branches if the condition does not hold.  The casts, the order and
\* the signedness of code generation, the expansions and the selection have to
\* agree on it.
MeaningKept ==
  \A input \in Inputs(statement) :
    LET memory == Memory(statement, input)
        m == Run(code, memory)
        meant == Meaning(statement, memory)
    IN \/ IsUndefined(statement, memory) \/ BetweenCompareAndBranch
       \/ ~m.fault /\ m.memory = meant.memory /\ m.taken = meant.taken

\* What the legalizer has passed is legal and stays so while the rest of the block
\* is rewritten, which may insert, change and erase instructions before the index:
\* no illegal instruction is left for the selection.
PassedIsLegal ==
  /\ pass = "legalize" => \A i \in 1..(index - 1) : Check(code, i)
  /\ pass = "select" => \A i \in index..Len(code) : Check(code, i)

\* In the end every instruction is one of AArch64 with operands of sizes that it
\* has: registers are made in the expansions, by casts and by the selection, which
\* extends some operands and not others.
OperandSizesAgree == pass = "done" => \A i \in DOMAIN code : Assembles(code[i])

\* The legalizer looks again at what it made, and yet comes to an end, as do the
\* other passes.
Termination == <>(pass = "done")

=============================================================================
