------------------------- MODULE AArch64TargetMachine -------------------------
(***************************************************************************)
(* Which generic instructions AArch64 has and which instruction is selected *)
(* for one (AArch64InstructionLegalizer::Check, TargetMachine.cpp,          *)
(* AArch64TargetMachine.cpp).                                               *)
(***************************************************************************)
EXTENDS MachineCode

\* Check(MI), for the instruction of that index.
Check(code, i) ==
  LET mi == code[i] IN
  ~ \/ mi.op \in {"MOD", "MODU", "GLOBAL_ADDRESS"}
    \/ mi.op = "STORE" /\ IsImmediate(mi.args[Len(mi.args)])
    \/ mi.op = "SUB" /\ IsImmediate(mi.args[2])
    \/ mi.op \in {"MUL", "DIV", "DIVU"} /\ IsImmediate(mi.args[3])
    \/ mi.op = "ZEXT" /\ i > 1 /\ code[i - 1].op = "LOAD"

-----------------------------------------------------------------------------
(* SelectInstruction *)

ExtendRegSize(o) == IF o.size < 32 THEN [o EXCEPT !.size = 32] ELSE o

\* The selected instruction: the sizes of the operands of that index are extended.
Selected(mi, op, extended) ==
  [mi EXCEPT !.op = op,
             !.args = [i \in DOMAIN @ |-> IF i \in extended THEN ExtendRegSize(@[i]) ELSE @[i]]]

Replace(s, i, o) == [s EXCEPT ![i] = o]
RemoveOperand(s, i) == SubSeq(s, 1, i - 1) \o SubSeq(s, i + 1, Len(s))

\* An operation with a form for a constant as the last operand and one for none.
SelectArithmetic(mi, rri, rrr) ==
  Selected(mi, IF IsImmediate(mi.args[3]) THEN rri ELSE rrr, {1, 2})

\* Negative constants: the stack pointer's, and those of the program.
SelectADD(mi) ==
  IF mi.args[3].kind = "lo12" THEN Selected(mi, "ADD_rri", {1, 2})
  ELSE IF IsImmediate(mi.args[3]) /\ mi.args[3].id < 0
  THEN SelectArithmetic([mi EXCEPT !.args[3] = Imm(-(@.id))], "SUB_rri", "SUB_rrr")
  ELSE SelectArithmetic(mi, "ADD_rri", "ADD_rrr")

\* The result of a comparison is in the flags.
SelectCMP(mi) ==
  LET s == SelectArithmetic(mi, "CMP_ri", "CMP_rr")
  IN [s EXCEPT !.args = RemoveOperand(@, 1)]

SelectSEXT(mi) ==
  Selected(mi, IF IsImmediate(mi.args[2]) THEN "MOV_rc"
               ELSE IF mi.args[2].size = 8 THEN "SXTB" ELSE "SXTW", {1})

\* "its not right to do this"
SelectZEXT(mi) == SelectSEXT(mi)

SelectTRUNC(mi) ==
  IF mi.args[1].size # 8 THEN Selected(mi, "MOV_rr", {})
  ELSE IF IsImmediate(mi.args[2])
  THEN Selected([mi EXCEPT !.args[2] = Imm(Truncated(@.id, 8))], "MOV_rc", {1})
  ELSE Selected([mi EXCEPT !.args = Append(@, Imm(2 ^ Bits[8] - 1))], "AND_rri", {1})

SelectZEXT_LOAD(mi) ==
  Selected([mi EXCEPT !.args = RemoveOperand(@, 2)],
           IF mi.args[2].size = 8 THEN "LDRB" ELSE "LDR", {})

SelectLOAD(mi) ==
  IF mi.args[1].size = 8 \/ (mi.args[2].kind = "slot" /\ mi.args[2].size = 8)
  THEN Selected(mi, "LDRB", {1})
  ELSE Selected(mi, "LDR", {})

SelectSTORE(mi) ==
  Selected(mi, IF mi.args[2].size = 8 \/ (mi.args[1].kind = "slot" /\ mi.args[1].size = 8)
               THEN "STRB" ELSE "STR", {})

BranchFor == [EQ |-> "BEQ", NE |-> "BNE", LT |-> "BLT", GE |-> "BGE", GT |-> "BGT", LE |-> "BLE"]

\* The condition is that of the instruction before the branch.
SelectBRANCH(code, i) ==
  [code[i] EXCEPT !.op = BranchFor[code[i - 1].relation], !.args = RemoveOperand(@, 1)]

\* The instruction that stands for the one of index i.
SelectInstruction(code, i) ==
  LET mi == code[i] IN
  CASE IsAlreadySelected(mi) -> mi
    [] mi.op = "LSL" -> SelectArithmetic(mi, "LSL_rri", "LSL_rrr")
    [] mi.op = "ADD" -> SelectADD(mi)
    [] mi.op = "SUB" -> SelectArithmetic(mi, "SUB_rri", "SUB_rrr")
    [] mi.op = "MUL" -> SelectArithmetic(mi, "MUL_rri", "MUL_rrr")
    [] mi.op = "DIV" -> SelectArithmetic(mi, "SDIV_rri", "SDIV_rrr")
    [] mi.op = "DIVU" -> Selected(mi, "UDIV_rrr", {1, 2})
    [] mi.op = "CMP" -> SelectCMP(mi)
    [] mi.op = "SEXT" -> SelectSEXT(mi)
    [] mi.op = "ZEXT" -> SelectZEXT(mi)
    [] mi.op = "TRUNC" -> SelectTRUNC(mi)
    [] mi.op = "ZEXT_LOAD" -> SelectZEXT_LOAD(mi)
    [] mi.op = "LOAD_IMM" -> Selected(mi, "MOV_rc", {})
    [] mi.op = "LOAD" -> SelectLOAD(mi)
    [] mi.op = "STORE" -> SelectSTORE(mi)
    [] mi.op = "BRANCH" -> SelectBRANCH(code, i)

\* Mutation: the sizes are taken the wrong way round.
FixMOVUpwards(mi) ==
  IF mi.op = "MOV_rr" /\ mi.args[1].size = 64 /\ mi.args[2].size = 32
  THEN [mi EXCEPT !.args[1].size = 32] ELSE mi

\* AArch64MOVFixPass: the low part of the source is moved to a shorter register.
FixMOV(mi) ==
  IF mi.op = "MOV_rr" /\ mi.args[1].size = 32 /\ mi.args[2].size = 64
  THEN [mi EXCEPT !.args[2].size = 32] ELSE mi

=============================================================================
