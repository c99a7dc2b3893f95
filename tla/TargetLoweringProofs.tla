------------------------- MODULE TargetLoweringProofs --------------------------
(***************************************************************************)
(* Proofs about the lowering of a statement, for every statement of the     *)
(* form of ExpressionCodegen, whatever variables and types it names: the    *)
(* legalizer leaves nothing illegal behind, and the instructions that come  *)
(* out have operands of sizes that AArch64 has.                             *)
(***************************************************************************)
EXTENDS TargetLowering, SequenceLemmas

-----------------------------------------------------------------------------
(* Operands and instructions as sets.                                       *)

TargetOps ==
  {"LSL_rri", "LSL_rrr", "ADD_rri", "ADD_rrr", "SUB_rri", "SUB_rrr", "MUL_rri", "MUL_rrr",
   "SDIV_rri", "SDIV_rrr", "UDIV_rrr", "CMP_ri", "CMP_rr", "MOV_rc", "MOV_rr", "SXTB", "SXTW",
   "AND_rri", "LDRB", "LDR", "STRB", "STR", "ADRP"} \cup {BranchFor[r] : r \in Relations}

OperandKinds ==
  {"register", "immediate", "slot", "memory", "symbol", "lo12", "label", "zero"}

Ids == Int \cup Variables \cup {Truncated(n, 8) : n \in Int} \cup {2 ^ Bits[8] - 1}

Operands == [kind : OperandKinds, id : Ids, size : {0, 1, 8, 32, 64}]

Instructions ==
  [op : GenericOps \cup TargetOps, args : Seq(Operands), relation : Relations \cup {"none"}]

-----------------------------------------------------------------------------
(* What an instruction of the generic code has to be like for the selected    *)
(* one to assemble.  Only a size of 64 makes a difference.                    *)

\* The registers of these operands are all of 64 bits or all shorter.
Agree(mi, operands) ==
  \A i, j \in Registers(mi) \cap operands : (mi.args[i].size = 64) <=> (mi.args[j].size = 64)

Narrow(o) == o.kind = "register" => o.size # 64

ThreeOperandOps == {"LSL", "ADD", "SUB", "MUL", "DIV", "DIVU", "MOD", "MODU"}

FitsArithmetic(mi) ==
  /\ Len(mi.args) = 3 /\ mi.args[1].kind = "register" /\ Agree(mi, {1, 2, 3})
  /\ mi.op \in {"MOD", "MODU"} => \A k \in 1..3 : Narrow(mi.args[k])

FitsCMP(mi) ==
  Len(mi.args) = 3 /\ mi.relation \in Relations /\ Agree(mi, {2, 3})

FitsExtension(mi) ==
  /\ Len(mi.args) = 2 /\ mi.args[1].kind = "register"
  /\ mi.op = "ZEXT" => mi.args[1].size # 64

FitsTRUNC(mi) ==
  /\ Len(mi.args) = 2 /\ mi.args[1].kind = "register" /\ mi.args[1].size \in {8, 32}
  /\ mi.args[1].size = 8 => Narrow(mi.args[2])

FitsLOAD_IMM(mi) ==
  Len(mi.args) = 2 /\ mi.args[1].kind = "register" /\ IsImmediate(mi.args[2])

IsAddress(o) == o.kind \in {"slot", "memory"}

FitsLOAD(mi) ==
  /\ Len(mi.args) = 2 /\ mi.args[1].kind = "register" /\ IsAddress(mi.args[2])
  /\ IsByte(mi.args[2]) => mi.args[1].size # 64

FitsZEXT_LOAD(mi) ==
  /\ Len(mi.args) = 3 /\ IsAddress(mi.args[3])
  /\ mi.args[1].kind = "register" /\ mi.args[1].size # 64

FitsSTORE(mi) ==
  /\ Len(mi.args) = 2 /\ IsAddress(mi.args[1])
  /\ IsByte(mi.args[1]) => Narrow(mi.args[2])

FitsGLOBAL_ADDRESS(mi) ==
  Len(mi.args) = 2 /\ mi.args[1].kind = "register" /\ mi.args[2].kind = "symbol"

FitsBRANCH(mi) == Len(mi.args) = 2 /\ mi.args[2].kind = "label"

FitsADRP(mi) ==
  Len(mi.args) = 2 /\ mi.args[1].kind = "register" /\ mi.args[2].kind = "symbol"

Fits(mi) ==
  /\ \A k \in DOMAIN mi.args :
       IsImmediate(mi.args[k]) => mi.args[k].id \in Int /\ mi.args[k].size = 32
  /\ mi.op # "CMP" => mi.relation = "none"
  /\ \/ mi.op \in ThreeOperandOps /\ FitsArithmetic(mi)
     \/ mi.op = "CMP" /\ FitsCMP(mi)
     \/ mi.op \in {"SEXT", "ZEXT"} /\ FitsExtension(mi)
     \/ mi.op = "TRUNC" /\ FitsTRUNC(mi)
     \/ mi.op = "LOAD_IMM" /\ FitsLOAD_IMM(mi)
     \/ mi.op = "LOAD" /\ FitsLOAD(mi)
     \/ mi.op = "ZEXT_LOAD" /\ FitsZEXT_LOAD(mi)
     \/ mi.op = "STORE" /\ FitsSTORE(mi)
     \/ mi.op = "GLOBAL_ADDRESS" /\ FitsGLOBAL_ADDRESS(mi)
     \/ mi.op = "BRANCH" /\ FitsBRANCH(mi)
     \/ mi.op = "ADRP" /\ FitsADRP(mi)

\* The registers are among the first n - 1.
InRange(mi, n) ==
  \A k \in Registers(mi) :
    mi.args[k].id \in 1..(n - 1) /\ mi.args[k].size \in {1, 8, 32, 64}

-----------------------------------------------------------------------------
(* The inductive invariant.                                                  *)

\* What a branch asks for is right before it.
AfterCompare(c, i) ==
  c[i].op = "BRANCH" => i > 1 /\ c[i - 1].relation \in Relations

\* The sizes agree once the MOV fix has passed.
Selects(mi) == Assembles(FixMOV(mi))

BlockInv ==
  /\ code \in Seq(Instructions)
  /\ \A i \in DOMAIN code : InRange(code[i], nextVReg)
  /\ pass \in {"legalize", "select"} => \A i \in DOMAIN code : AfterCompare(code, i)

\* The instructions before the index have gone through the pass, the others not.
PassInv ==
  \A i \in DOMAIN code :
    /\ pass = "legalize" => Fits(code[i]) /\ (i < index => Check(code, i))
    /\ pass = "select" =>
         IF i < index THEN Selects(code[i]) ELSE Fits(code[i]) /\ Check(code, i)
    /\ pass = "fix" => IF i < index THEN Assembles(code[i]) ELSE Selects(code[i])
    /\ pass = "done" => Assembles(code[i])

LoweringInv ==
  /\ statement \in Statements /\ pass \in Passes
  /\ nextVReg \in 1..MaxVReg /\ index \in 1..(Len(code) + 1)
  /\ BlockInv /\ PassInv

-----------------------------------------------------------------------------
(* Sequences of operands and of instructions.                                *)

LEMMA Elements ==
  ASSUME NEW S, NEW s \in Seq(S)
  PROVE  Len(s) \in Nat /\ DOMAIN s = 1..Len(s) /\ \A i \in DOMAIN s : s[i] \in S
BY LenProperties, ElementOfSeq

LEMMA InstructionParts ==
  ASSUME NEW mi \in Instructions
  PROVE  /\ mi = [op |-> mi.op, args |-> mi.args, relation |-> mi.relation]
         /\ mi.op \in GenericOps \cup TargetOps /\ mi.relation \in Relations \cup {"none"}
         /\ mi.args \in Seq(Operands) /\ Len(mi.args) \in Nat
         /\ DOMAIN mi.args = 1..Len(mi.args)
         /\ \A k \in DOMAIN mi.args : mi.args[k] \in Operands
<1>1. /\ mi = [op |-> mi.op, args |-> mi.args, relation |-> mi.relation]
      /\ mi.op \in GenericOps \cup TargetOps /\ mi.relation \in Relations \cup {"none"}
      /\ mi.args \in Seq(Operands)
  BY DEF Instructions
<1> QED BY <1>1, Elements

LEMMA NewInstruction ==
  ASSUME NEW op \in GenericOps \cup TargetOps, NEW args \in Seq(Operands)
  PROVE  Instr(op, args) \in Instructions
BY DEF Instr, Instructions

LEMMA OperandParts ==
  ASSUME NEW o \in Operands
  PROVE  /\ o = [kind |-> o.kind, id |-> o.id, size |-> o.size]
         /\ o.kind \in OperandKinds /\ o.id \in Ids /\ o.size \in {0, 1, 8, 32, 64}
BY DEF Operands

LEMMA NewOperand ==
  ASSUME NEW k \in OperandKinds, NEW n \in Ids, NEW z \in {0, 1, 8, 32, 64}
  PROVE  [kind |-> k, id |-> n, size |-> z] \in Operands
BY DEF Operands

\* The target's operations are not generic ones.
LEMMA OpsDisjoint ==
  /\ TargetOps \cap GenericOps = {}
  /\ \A r \in Relations : BranchFor[r] \in TargetOps \ {"MOV_rr", "SXTB", "SXTW", "LDRB", "STRB"}
<1>1. \A r \in Relations : BranchFor[r] \in {"BEQ", "BNE", "BLT", "BGE", "BGT", "BLE"}
  BY DEF Relations, BranchFor
<1>2. TargetOps \cap GenericOps = {}
  BY <1>1 DEF TargetOps, GenericOps
<1> QED BY <1>1, <1>2 DEF TargetOps

LEMMA RemoveOperandProperties ==
  ASSUME NEW s \in Seq(Operands), NEW i \in 1..Len(s)
  PROVE  /\ RemoveOperand(s, i) \in Seq(Operands)
         /\ Len(RemoveOperand(s, i)) = Len(s) - 1
         /\ \A j \in 1..(Len(s) - 1) :
              RemoveOperand(s, i)[j] = s[IF j < i THEN j ELSE j + 1]
<1>1. RemoveOperand(s, i) = RemoveAt(s, i)
  BY DEF RemoveOperand, RemoveAt
<1>2. /\ RemoveAt(s, i) \in Seq(Operands)
      /\ Len(RemoveAt(s, i)) = Len(s) - 1
      /\ \A j \in 1..(Len(s) - 1) : RemoveAt(s, i)[j] = IF j < i THEN s[j] ELSE s[j + 1]
  BY RemoveAtProperties
<1> QED BY <1>1, <1>2

-----------------------------------------------------------------------------
(* Selection.                                                                *)

\* What stays as it is when the sizes of operands are extended.
Alike(mi, to) ==
  /\ to.relation = mi.relation /\ Len(to.args) = Len(mi.args)
  /\ \A k \in DOMAIN mi.args :
       /\ to.args[k].kind = mi.args[k].kind /\ to.args[k].id = mi.args[k].id
       /\ (to.args[k].size = 64) <=> (mi.args[k].size = 64)
       /\ to.args[k].size \in {mi.args[k].size, 32}

LEMMA UpdatedInstruction ==
  ASSUME NEW mi \in Instructions, NEW op, NEW args
  PROVE  [mi EXCEPT !.op = op, !.args = args]
           = [op |-> op, args |-> args, relation |-> mi.relation]
<1>1. PICK o, a, r : mi = [op |-> o, args |-> a, relation |-> r]
  BY InstructionParts
<1>2. [[op |-> o, args |-> a, relation |-> r] EXCEPT !.op = op, !.args = args]
        = [op |-> op, args |-> args, relation |-> r]
  <2>1. [[op |-> o, args |-> a, relation |-> r] EXCEPT !.op = op]
          = [op |-> op, args |-> a, relation |-> r]
    OBVIOUS
  <2>2. [[op |-> op, args |-> a, relation |-> r] EXCEPT !.args = args]
          = [op |-> op, args |-> args, relation |-> r]
    OBVIOUS
  <2> QED BY <2>1, <2>2, Zenon
<1>3. mi.relation = r
  BY <1>1
<1> QED BY <1>1, <1>2, <1>3

LEMMA SelectedProperties ==
  ASSUME NEW mi \in Instructions, NEW op \in TargetOps, NEW extended
  PROVE  /\ Selected(mi, op, extended) \in Instructions
         /\ Selected(mi, op, extended).op = op
         /\ Alike(mi, Selected(mi, op, extended))
<1> DEFINE args == [i \in DOMAIN mi.args |->
                      IF i \in extended THEN ExtendRegSize(mi.args[i]) ELSE mi.args[i]]
           to == Selected(mi, op, extended)
<1>1. to = [op |-> op, args |-> args, relation |-> mi.relation]
  BY UpdatedInstruction, Zenon DEF Selected
<1>2. ASSUME NEW o \in Operands
      PROVE  /\ ExtendRegSize(o) \in Operands
             /\ ExtendRegSize(o).kind = o.kind /\ ExtendRegSize(o).id = o.id
             /\ (ExtendRegSize(o).size = 64) <=> (o.size = 64)
             /\ ExtendRegSize(o).size \in {o.size, 32}
  <2>1. CASE o.size < 32
    <3>1. ExtendRegSize(o) = [kind |-> o.kind, id |-> o.id, size |-> 32]
      BY <2>1, OperandParts DEF ExtendRegSize
    <3>2. o.size # 64 /\ o.kind \in OperandKinds /\ o.id \in Ids
      BY <2>1, OperandParts
    <3>3. ExtendRegSize(o) \in Operands
      BY <3>1, <3>2, NewOperand
    <3>4. /\ ExtendRegSize(o).kind = o.kind /\ ExtendRegSize(o).id = o.id
          /\ ExtendRegSize(o).size = 32
      BY <3>1
    <3> QED BY <3>2, <3>3, <3>4
  <2>2. CASE ~(o.size < 32)
    BY <2>2 DEF ExtendRegSize
  <2> QED BY <2>1, <2>2
<1>3. \A i \in DOMAIN mi.args :
        /\ args[i] \in Operands
        /\ args[i].kind = mi.args[i].kind /\ args[i].id = mi.args[i].id
        /\ (args[i].size = 64) <=> (mi.args[i].size = 64)
        /\ args[i].size \in {mi.args[i].size, 32}
  BY <1>2, InstructionParts
<1>4. args \in Seq(Operands) /\ Len(args) = Len(mi.args)
  <2>1. args \in [1..Len(mi.args) -> Operands]
    BY <1>3, InstructionParts
  <2> HIDE DEF args
  <2> QED BY <2>1, InstructionParts, SeqDef, LenProperties
<1> HIDE DEF args
<1>5. to \in Instructions
  BY <1>1, <1>4, InstructionParts DEF Instructions
<1> QED BY <1>1, <1>3, <1>4, <1>5 DEF Alike

LEMMA ChangedArgs ==
  ASSUME NEW mi \in Instructions, NEW args \in Seq(Operands)
  PROVE  /\ [mi EXCEPT !.args = args] \in Instructions
         /\ [mi EXCEPT !.args = args].op = mi.op
         /\ [mi EXCEPT !.args = args].args = args
         /\ [mi EXCEPT !.args = args].relation = mi.relation
<1>1. [mi EXCEPT !.args = args]
        = [op |-> mi.op, args |-> args, relation |-> mi.relation]
  BY InstructionParts
<1> QED BY <1>1, InstructionParts DEF Instructions

LEMMA ChangedOperand ==
  ASSUME NEW mi \in Instructions, NEW k \in DOMAIN mi.args, NEW o \in Operands
  PROVE  LET to == [mi EXCEPT !.args[k] = o]
         IN /\ to \in Instructions /\ to.op = mi.op /\ to.relation = mi.relation
            /\ Len(to.args) = Len(mi.args) /\ to.args[k] = o
            /\ \A j \in DOMAIN mi.args \ {k} : to.args[j] = mi.args[j]
<1> DEFINE args == [mi.args EXCEPT ![k] = o]
<1>1. [mi EXCEPT !.args[k] = o] = [mi EXCEPT !.args = args]
  OBVIOUS
<1>2. /\ args \in Seq(Operands) /\ Len(args) = Len(mi.args) /\ args[k] = o
      /\ \A j \in DOMAIN mi.args \ {k} : args[j] = mi.args[j]
  <2>1. /\ mi.args \in Seq(Operands) /\ Len(mi.args) \in Nat
        /\ DOMAIN mi.args = 1..Len(mi.args)
    BY InstructionParts
  <2>2. mi.args \in [1..Len(mi.args) -> Operands]
    BY InstructionParts
  <2>3. args \in [1..Len(mi.args) -> Operands]
    BY <2>2
  <2>4. args[k] = o /\ \A j \in DOMAIN mi.args \ {k} : args[j] = mi.args[j]
    BY <2>2
  <2> HIDE DEF args
  <2> QED BY <2>1, <2>3, <2>4, SeqDef, LenProperties
<1> HIDE DEF args
<1> QED BY <1>1, <1>2, ChangedArgs

\* What has to be shown of an instruction that stands for mi.
StandsFor(mi, to, n) ==
  /\ to \in Instructions /\ to.op \in TargetOps /\ to.relation = mi.relation
  /\ InRange(to, n) /\ Selects(to)

AgreeAll(mi) ==
  \A i, j \in Registers(mi) : (mi.args[i].size = 64) <=> (mi.args[j].size = 64)

AllNarrow(mi) == \A i \in Registers(mi) : mi.args[i].size # 64

LEMMA AgreeingAssembles ==
  ASSUME NEW mi \in Instructions, mi.op \in TargetOps,
         mi.op \in {"SXTB", "SXTW"} \/ AgreeAll(mi),
         mi.op \in {"LDRB", "STRB"} => AllNarrow(mi)
  PROVE  Assembles(mi)
<1>1. IsAlreadySelected(mi)
  BY OpsDisjoint DEF IsAlreadySelected
<1> QED BY <1>1 DEF Assembles, AgreeAll, AllNarrow, RegisterSize

LEMMA AlikeRegisters ==
  ASSUME NEW mi \in Instructions, NEW to \in Instructions, Alike(mi, to)
  PROVE  /\ Registers(to) = Registers(mi)
         /\ AgreeAll(mi) => AgreeAll(to)
         /\ AllNarrow(mi) => AllNarrow(to)
         /\ \A n : InRange(mi, n) => InRange(to, n)
<1>1. DOMAIN to.args = DOMAIN mi.args
  BY InstructionParts DEF Alike
<1>2. Registers(to) = Registers(mi)
  BY <1>1 DEF Registers, Alike
<1>3. \A k \in Registers(mi) :
        /\ to.args[k].id = mi.args[k].id
        /\ (to.args[k].size = 64) <=> (mi.args[k].size = 64)
        /\ to.args[k].size \in {mi.args[k].size, 32}
  BY DEF Registers, Alike
<1>4. \A n : InRange(mi, n) => InRange(to, n)
  BY <1>2, <1>3 DEF InRange
<1> QED BY <1>2, <1>3, <1>4 DEF AgreeAll, AllNarrow

\* Selecting an instruction whose registers agree.
LEMMA SelectedStandsFor ==
  ASSUME NEW mi \in Instructions, NEW op \in TargetOps \ {"MOV_rr"}, NEW extended, NEW n,
         op \in {"SXTB", "SXTW"} \/ AgreeAll(mi),
         op \in {"LDRB", "STRB"} => AllNarrow(mi), InRange(mi, n)
  PROVE  StandsFor(mi, Selected(mi, op, extended), n)
<1> DEFINE to == Selected(mi, op, extended)
<1>1. to \in Instructions /\ to.op = op /\ Alike(mi, to)
  BY SelectedProperties
<1> HIDE DEF to
<1>2. FixMOV(to) = to
  BY <1>1 DEF FixMOV
<1>3. Assembles(to)
  BY <1>1, AlikeRegisters, AgreeingAssembles
<1> QED BY <1>1, <1>2, <1>3, AlikeRegisters DEF StandsFor, Selects, Alike, to

\* An operation is selected by whether its last operand is a constant.
LEMMA ArithmeticStandsFor ==
  ASSUME NEW mi \in Instructions, NEW rri \in TargetOps \ {"MOV_rr", "LDRB", "STRB"},
         NEW rrr \in TargetOps \ {"MOV_rr", "LDRB", "STRB"}, NEW n,
         AgreeAll(mi), InRange(mi, n)
  PROVE  StandsFor(mi, SelectArithmetic(mi, rri, rrr), n)
<1>1. CASE IsImmediate(mi.args[3])
  <2>1. SelectArithmetic(mi, rri, rrr) = Selected(mi, rri, {1, 2})
    BY <1>1 DEF SelectArithmetic
  <2> QED BY <2>1, SelectedStandsFor
<1>2. CASE ~IsImmediate(mi.args[3])
  <2>1. SelectArithmetic(mi, rri, rrr) = Selected(mi, rrr, {1, 2})
    BY <1>2 DEF SelectArithmetic
  <2> QED BY <2>1, SelectedStandsFor
<1> QED BY <1>1, <1>2

LEMMA FittingArithmetic ==
  ASSUME NEW mi \in Instructions, Fits(mi), mi.op \in ThreeOperandOps
  PROVE  Len(mi.args) = 3 /\ AgreeAll(mi)
<1>1. FitsArithmetic(mi)
  BY DEF Fits, ThreeOperandOps
<1>2. Registers(mi) \subseteq {1, 2, 3}
  BY <1>1, InstructionParts DEF FitsArithmetic, Registers
<1> QED BY <1>1, <1>2 DEF FitsArithmetic, Agree, AgreeAll

\* A constant in the place of an operand that is none of the registers.
LEMMA ConstantOperand ==
  ASSUME NEW mi \in Instructions, NEW k \in DOMAIN mi.args, mi.args[k].kind # "register",
         NEW o \in Operands, o.kind # "register", NEW n, AgreeAll(mi), InRange(mi, n)
  PROVE  LET to == [mi EXCEPT !.args[k] = o]
         IN /\ to \in Instructions /\ to.relation = mi.relation /\ to.op = mi.op
            /\ AgreeAll(to) /\ InRange(to, n) /\ Registers(to) = Registers(mi)
            /\ \A j \in Registers(mi) : to.args[j] = mi.args[j]
<1> DEFINE to == [mi EXCEPT !.args[k] = o]
<1>1. /\ to \in Instructions /\ to.op = mi.op /\ to.relation = mi.relation
      /\ Len(to.args) = Len(mi.args) /\ to.args[k] = o
      /\ \A j \in DOMAIN mi.args \ {k} : to.args[j] = mi.args[j]
  BY ChangedOperand
<1> HIDE DEF to
<1>2. DOMAIN to.args = DOMAIN mi.args
  BY <1>1, InstructionParts
<1>3. Registers(to) = Registers(mi) /\ \A j \in Registers(mi) : to.args[j] = mi.args[j]
  BY <1>1, <1>2 DEF Registers
<1> QED BY <1>1, <1>3 DEF AgreeAll, InRange, to

LEMMA ImmIsOperand ==
  ASSUME NEW n \in Ids
  PROVE  Imm(n) \in Operands /\ Imm(n).kind = "immediate" /\ Imm(n).id = n /\ Imm(n).size = 32
BY DEF Imm, Operands, OperandKinds

LEMMA ADDStandsFor ==
  ASSUME NEW mi \in Instructions, Fits(mi), mi.op = "ADD", NEW n, InRange(mi, n)
  PROVE  StandsFor(mi, SelectADD(mi), n)
<1>1. Len(mi.args) = 3 /\ AgreeAll(mi) /\ DOMAIN mi.args = {1, 2, 3}
  <2>1. Len(mi.args) = 3 /\ AgreeAll(mi)
    BY FittingArithmetic DEF ThreeOperandOps
  <2> QED BY <2>1, InstructionParts
<1>2. CASE mi.args[3].kind = "lo12"
  <2>1. SelectADD(mi) = Selected(mi, "ADD_rri", {1, 2})
    BY <1>2 DEF SelectADD
  <2> QED BY <1>1, <2>1, SelectedStandsFor DEF TargetOps
<1>3. CASE mi.args[3].kind # "lo12" /\ IsImmediate(mi.args[3]) /\ mi.args[3].id < 0
  <2> DEFINE o == Imm(-(mi.args[3].id))
             to == [mi EXCEPT !.args[3] = o]
  <2>1. SelectADD(mi) = SelectArithmetic(to, "SUB_rri", "SUB_rrr")
    BY <1>3 DEF SelectADD
  <2>2. o \in Operands /\ o.kind # "register"
    <3>1. mi.args[3].id \in Int
      BY <1>1, <1>3 DEF Fits
    <3>2. -(mi.args[3].id) \in Ids
      BY <3>1 DEF Ids
    <3> QED BY <3>2, ImmIsOperand
  <2> HIDE DEF o
  <2>3. to \in Instructions /\ to.relation = mi.relation /\ AgreeAll(to) /\ InRange(to, n)
    BY <1>1, <1>3, <2>2, ConstantOperand DEF IsImmediate
  <2> HIDE DEF to
  <2>4. StandsFor(to, SelectArithmetic(to, "SUB_rri", "SUB_rrr"), n)
    BY <2>3, ArithmeticStandsFor DEF TargetOps
  <2> QED BY <2>1, <2>3, <2>4 DEF StandsFor
<1>4. CASE mi.args[3].kind # "lo12" /\ ~(IsImmediate(mi.args[3]) /\ mi.args[3].id < 0)
  <2>1. SelectADD(mi) = SelectArithmetic(mi, "ADD_rri", "ADD_rrr")
    BY <1>4 DEF SelectADD
  <2> QED BY <1>1, <2>1, ArithmeticStandsFor DEF TargetOps
<1> QED BY <1>2, <1>3, <1>4

\* An operand is taken out: the registers that are left are registers of mi.
LEMMA WithoutOperand ==
  ASSUME NEW mi \in Instructions, NEW k \in DOMAIN mi.args
  PROVE  LET to == [mi EXCEPT !.args = RemoveOperand(mi.args, k)]
         IN /\ to \in Instructions /\ to.relation = mi.relation /\ to.op = mi.op
            /\ Len(to.args) = Len(mi.args) - 1
            /\ \A j \in 1..(Len(mi.args) - 1) : to.args[j] = mi.args[IF j < k THEN j ELSE j + 1]
<1> DEFINE args == RemoveOperand(mi.args, k)
           to == [mi EXCEPT !.args = args]
<1>1. /\ mi.args \in Seq(Operands) /\ Len(mi.args) \in Nat /\ k \in 1..Len(mi.args)
      /\ DOMAIN mi.args = 1..Len(mi.args)
  BY InstructionParts
<1>2. /\ args \in Seq(Operands) /\ Len(args) = Len(mi.args) - 1
      /\ \A j \in 1..(Len(mi.args) - 1) : args[j] = mi.args[IF j < k THEN j ELSE j + 1]
  BY <1>1, RemoveOperandProperties
<1> HIDE DEF args
<1>3. to \in Instructions /\ to.relation = mi.relation /\ to.op = mi.op /\ to.args = args
  BY <1>2, ChangedArgs
<1> HIDE DEF to
<1> QED BY <1>2, <1>3 DEF to, args

LEMMA CMPStandsFor ==
  ASSUME NEW mi \in Instructions, Fits(mi), mi.op = "CMP", NEW n, InRange(mi, n)
  PROVE  StandsFor(mi, SelectCMP(mi), n)
<1> DEFINE s == SelectArithmetic(mi, "CMP_ri", "CMP_rr")
           to == [s EXCEPT !.args = RemoveOperand(s.args, 1)]
<1>1. Len(mi.args) = 3 /\ DOMAIN mi.args = 1..3 /\ Agree(mi, {2, 3})
  <2>1. FitsCMP(mi)
    BY DEF Fits, ThreeOperandOps
  <2> QED BY <2>1, InstructionParts DEF FitsCMP
<1>2. s \in Instructions /\ s.op \in {"CMP_ri", "CMP_rr"} /\ Alike(mi, s)
  BY SelectedProperties DEF SelectArithmetic, TargetOps
<1>3. SelectCMP(mi) = to
  BY DEF SelectCMP
<1> HIDE DEF s
<1>4. Len(s.args) = 3 /\ DOMAIN s.args = 1..3
  BY <1>1, <1>2, InstructionParts DEF Alike
<1>5. /\ to \in Instructions /\ to.relation = s.relation /\ to.op = s.op
      /\ Len(to.args) = 2
      /\ \A j \in 1..2 : to.args[j] = s.args[j + 1]
  <2>1. 1 \in DOMAIN s.args
    BY <1>4
  <2>2. /\ to \in Instructions /\ to.relation = s.relation /\ to.op = s.op
        /\ Len(to.args) = Len(s.args) - 1
        /\ \A j \in 1..(Len(s.args) - 1) :
              to.args[j] = s.args[IF j < 1 THEN j ELSE j + 1]
    BY <1>2, <2>1, WithoutOperand
  <2> HIDE DEF to
  <2> QED BY <1>4, <2>2
<1> HIDE DEF to
<1>6. DOMAIN to.args = 1..2
  BY <1>5, InstructionParts
<1>7. \A j \in Registers(to) :
        /\ j + 1 \in Registers(mi) \cap {2, 3}
        /\ to.args[j].id = mi.args[j + 1].id
        /\ (to.args[j].size = 64) <=> (mi.args[j + 1].size = 64)
        /\ to.args[j].size \in {mi.args[j + 1].size, 32}
  <2> SUFFICES ASSUME NEW j \in Registers(to)
               PROVE  /\ j + 1 \in Registers(mi) \cap {2, 3}
                      /\ to.args[j].id = mi.args[j + 1].id
                      /\ (to.args[j].size = 64) <=> (mi.args[j + 1].size = 64)
                      /\ to.args[j].size \in {mi.args[j + 1].size, 32}
    OBVIOUS
  <2>1. j \in 1..2 /\ to.args[j].kind = "register"
    BY <1>6 DEF Registers
  <2>2. j + 1 \in {2, 3} /\ to.args[j] = s.args[j + 1] /\ j + 1 \in DOMAIN mi.args
    BY <1>1, <1>5, <1>6, <2>1
  <2> QED BY <1>2, <2>1, <2>2 DEF Alike, Registers
<1>8. AgreeAll(to)
  BY <1>1, <1>7 DEF AgreeAll, Agree
<1>9. InRange(to, n)
  BY <1>7 DEF InRange
<1>10. to.op \in TargetOps /\ FixMOV(to) = to /\ to.op \notin {"LDRB", "STRB"}
  BY <1>2, <1>5 DEF TargetOps, FixMOV
<1>11. Assembles(to)
  BY <1>5, <1>8, <1>10, AgreeingAssembles
<1> QED BY <1>2, <1>3, <1>5, <1>9, <1>10, <1>11 DEF StandsFor, Selects, Alike

LEMMA ExtensionStandsFor ==
  ASSUME NEW mi \in Instructions, Fits(mi), mi.op \in {"SEXT", "ZEXT"}, NEW n, InRange(mi, n)
  PROVE  StandsFor(mi, SelectSEXT(mi), n)
<1>1. Len(mi.args) = 2 /\ DOMAIN mi.args = 1..2
  <2>1. FitsExtension(mi)
    BY DEF Fits, ThreeOperandOps
  <2> QED BY <2>1, InstructionParts DEF FitsExtension
<1>2. CASE IsImmediate(mi.args[2])
  <2>1. SelectSEXT(mi) = Selected(mi, "MOV_rc", {1})
    BY <1>2 DEF SelectSEXT
  <2>2. AgreeAll(mi)
    <3>1. Registers(mi) \subseteq {1}
      BY <1>1, <1>2 DEF Registers, IsImmediate
    <3> QED BY <3>1 DEF AgreeAll
  <2> QED BY <2>1, <2>2, SelectedStandsFor DEF TargetOps
<1>3. CASE ~IsImmediate(mi.args[2])
  <2>1. PICK op \in {"SXTB", "SXTW"} : SelectSEXT(mi) = Selected(mi, op, {1})
    BY <1>3 DEF SelectSEXT
  <2> QED BY <2>1, SelectedStandsFor DEF TargetOps
<1> QED BY <1>2, <1>3

\* Of an address and a register, or of a register and a constant.
LEMMA OneRegisterStandsFor ==
  ASSUME NEW mi \in Instructions, NEW k, Registers(mi) \subseteq {k},
         NEW op \in TargetOps \ {"MOV_rr"}, NEW extended, NEW n, InRange(mi, n),
         op \in {"LDRB", "STRB"} /\ mi.args[k].kind = "register" => mi.args[k].size # 64
  PROVE  StandsFor(mi, Selected(mi, op, extended), n)
<1>1. AgreeAll(mi)
  BY DEF AgreeAll
<1>2. op \in {"LDRB", "STRB"} => AllNarrow(mi)
  BY DEF AllNarrow, Registers
<1> QED BY <1>1, <1>2, SelectedStandsFor

LEMMA LOADStandsFor ==
  ASSUME NEW mi \in Instructions, Fits(mi), mi.op = "LOAD", NEW n, InRange(mi, n)
  PROVE  StandsFor(mi, SelectLOAD(mi), n)
<1>1. Len(mi.args) = 2 /\ DOMAIN mi.args = 1..2 /\ FitsLOAD(mi)
  <2>1. FitsLOAD(mi)
    BY DEF Fits, ThreeOperandOps
  <2> QED BY <2>1, InstructionParts DEF FitsLOAD
<1>2. Registers(mi) \subseteq {1}
  BY <1>1 DEF Registers, FitsLOAD, IsAddress
<1>3. CASE mi.args[1].size = 8 \/ IsByte(mi.args[2])
  <2>1. SelectLOAD(mi) = Selected(mi, "LDRB", {1})
    BY <1>3 DEF SelectLOAD, IsByte
  <2>2. mi.args[1].size # 64
    BY <1>1, <1>3 DEF FitsLOAD
  <2> QED BY <1>2, <2>1, <2>2, OneRegisterStandsFor DEF TargetOps
<1>4. CASE ~(mi.args[1].size = 8 \/ IsByte(mi.args[2]))
  <2>1. SelectLOAD(mi) = Selected(mi, "LDR", {})
    BY <1>4 DEF SelectLOAD, IsByte
  <2> QED BY <1>2, <2>1, OneRegisterStandsFor DEF TargetOps
<1> QED BY <1>3, <1>4

LEMMA STOREStandsFor ==
  ASSUME NEW mi \in Instructions, Fits(mi), mi.op = "STORE", NEW n, InRange(mi, n)
  PROVE  StandsFor(mi, SelectSTORE(mi), n)
<1>1. Len(mi.args) = 2 /\ DOMAIN mi.args = 1..2 /\ FitsSTORE(mi)
  <2>1. FitsSTORE(mi)
    BY DEF Fits, ThreeOperandOps
  <2> QED BY <2>1, InstructionParts DEF FitsSTORE
<1>2. Registers(mi) \subseteq {2}
  BY <1>1 DEF Registers, FitsSTORE, IsAddress
<1>3. CASE mi.args[2].size = 8 \/ IsByte(mi.args[1])
  <2>1. SelectSTORE(mi) = Selected(mi, "STRB", {})
    BY <1>3 DEF SelectSTORE, IsByte
  <2>2. mi.args[2].kind = "register" => mi.args[2].size # 64
    BY <1>1, <1>3 DEF FitsSTORE, Narrow
  <2> QED BY <1>2, <2>1, <2>2, OneRegisterStandsFor DEF TargetOps
<1>4. CASE ~(mi.args[2].size = 8 \/ IsByte(mi.args[1]))
  <2>1. SelectSTORE(mi) = Selected(mi, "STR", {})
    BY <1>4 DEF SelectSTORE, IsByte
  <2> QED BY <1>2, <2>1, OneRegisterStandsFor DEF TargetOps
<1> QED BY <1>3, <1>4

LEMMA LOAD_IMMStandsFor ==
  ASSUME NEW mi \in Instructions, Fits(mi), mi.op = "LOAD_IMM", NEW n, InRange(mi, n)
  PROVE  StandsFor(mi, Selected(mi, "MOV_rc", {}), n)
<1>1. Len(mi.args) = 2 /\ DOMAIN mi.args = 1..2 /\ FitsLOAD_IMM(mi)
  <2>1. FitsLOAD_IMM(mi)
    BY DEF Fits, ThreeOperandOps
  <2> QED BY <2>1, InstructionParts DEF FitsLOAD_IMM
<1>2. Registers(mi) \subseteq {1}
  BY <1>1 DEF Registers, FitsLOAD_IMM, IsImmediate
<1> QED BY <1>2, OneRegisterStandsFor DEF TargetOps

\* A move is fixed when the source is the longer one.
LEMMA FixedMove ==
  ASSUME NEW mi \in Instructions, mi.op = "MOV_rr", Len(mi.args) = 2, mi.args[1].size = 32
  PROVE  Assembles(FixMOV(mi))
<1>1. DOMAIN mi.args = 1..2
  BY InstructionParts
<1>2. CASE mi.args[2].size = 64
  <2> DEFINE o == [mi.args[2] EXCEPT !.size = 32]
             to == [mi EXCEPT !.args[2] = o]
  <2>1. FixMOV(mi) = to
    <3>1. FixMOV(mi) = [mi EXCEPT !.args[2].size = 32]
      BY <1>2 DEF FixMOV
    <3>2. [mi EXCEPT !.args[2].size = 32] = [mi EXCEPT !.args[2] = [@ EXCEPT !.size = 32]]
      OBVIOUS
    <3>3. [mi EXCEPT !.args[2] = [@ EXCEPT !.size = 32]] = to
      OBVIOUS
    <3> QED BY <3>1, <3>2, <3>3
  <2>2. o \in Operands /\ o.size = 32
    BY <1>1, InstructionParts DEF Operands
  <2> HIDE DEF o
  <2>3. /\ to \in Instructions /\ to.op = mi.op /\ Len(to.args) = 2
        /\ to.args[2] = o /\ to.args[1] = mi.args[1]
    BY <1>1, <2>2, ChangedOperand
  <2> HIDE DEF to
  <2>4. DOMAIN to.args = 1..2
    BY <2>3, InstructionParts
  <2>5. AgreeAll(to)
    BY <2>2, <2>3, <2>4 DEF AgreeAll, Registers
  <2> QED BY <2>1, <2>3, <2>5, AgreeingAssembles DEF TargetOps
<1>3. CASE mi.args[2].size # 64
  <2>1. FixMOV(mi) = mi
    BY <1>3 DEF FixMOV
  <2>2. AgreeAll(mi)
    BY <1>1, <1>3 DEF AgreeAll, Registers
  <2> QED BY <2>1, <2>2, AgreeingAssembles DEF TargetOps
<1> QED BY <1>2, <1>3

LEMMA TRUNCStandsFor ==
  ASSUME NEW mi \in Instructions, Fits(mi), mi.op = "TRUNC", NEW n, InRange(mi, n)
  PROVE  StandsFor(mi, SelectTRUNC(mi), n)
<1>1. Len(mi.args) = 2 /\ DOMAIN mi.args = 1..2 /\ FitsTRUNC(mi)
  <2>1. FitsTRUNC(mi)
    BY DEF Fits, ThreeOperandOps
  <2> QED BY <2>1, InstructionParts DEF FitsTRUNC
<1>2. CASE mi.args[1].size # 8
  <2> DEFINE to == Selected(mi, "MOV_rr", {})
  <2>1. SelectTRUNC(mi) = to
    BY <1>2 DEF SelectTRUNC
  <2>2. to \in Instructions /\ to.op = "MOV_rr" /\ Alike(mi, to)
    BY SelectedProperties DEF TargetOps
  <2> HIDE DEF to
  <2>3. Len(to.args) = 2 /\ to.args[1].size = 32
    BY <1>1, <1>2, <2>2 DEF Alike, FitsTRUNC
  <2>4. Assembles(FixMOV(to))
    BY <2>2, <2>3, FixedMove
  <2> QED BY <2>1, <2>2, <2>4, AlikeRegisters DEF StandsFor, Selects, Alike, TargetOps
<1>3. CASE mi.args[1].size = 8 /\ IsImmediate(mi.args[2])
  <2> DEFINE o == Imm(Truncated(mi.args[2].id, 8))
             to == [mi EXCEPT !.args[2] = o]
  <2>1. SelectTRUNC(mi) = Selected(to, "MOV_rc", {1})
    BY <1>3 DEF SelectTRUNC
  <2>2. o \in Operands /\ o.kind # "register"
    <3>1. mi.args[2].id \in Int
      BY <1>1, <1>3 DEF Fits
    <3>2. Truncated(mi.args[2].id, 8) \in Ids
      BY <3>1 DEF Ids
    <3> QED BY <3>2, ImmIsOperand
  <2> HIDE DEF o
  <2>3. Registers(mi) \subseteq {1}
    BY <1>1, <1>3 DEF Registers, IsImmediate
  <2>4. AgreeAll(mi)
    BY <2>3 DEF AgreeAll
  <2>5. to \in Instructions /\ to.relation = mi.relation /\ AgreeAll(to) /\ InRange(to, n)
    BY <1>1, <1>3, <2>2, <2>4, ConstantOperand DEF IsImmediate
  <2> HIDE DEF to
  <2>6. StandsFor(to, Selected(to, "MOV_rc", {1}), n)
    BY <2>5, SelectedStandsFor DEF TargetOps
  <2> QED BY <2>1, <2>5, <2>6 DEF StandsFor
<1>4. CASE mi.args[1].size = 8 /\ ~IsImmediate(mi.args[2])
  <2> DEFINE o == Imm(2 ^ Bits[8] - 1)
             args == Append(mi.args, o)
             to == [mi EXCEPT !.args = args]
  <2>1. SelectTRUNC(mi) = Selected(to, "AND_rri", {1})
    BY <1>4 DEF SelectTRUNC
  <2>2. o \in Operands /\ o.kind # "register"
    <3>1. 2 ^ Bits[8] - 1 \in Ids
      BY DEF Ids
    <3> QED BY <3>1, ImmIsOperand
  <2> HIDE DEF o
  <2>3. /\ args \in Seq(Operands) /\ Len(args) = 3 /\ DOMAIN args = 1..3
        /\ args[3] = o /\ \A j \in 1..2 : args[j] = mi.args[j]
    <3>1. mi.args \in Seq(Operands)
      BY InstructionParts
    <3>2. /\ args \in Seq(Operands) /\ DOMAIN args = 1..(Len(mi.args) + 1)
          /\ \A j \in 1..Len(mi.args) : args[j] = mi.args[j]
          /\ args[Len(mi.args) + 1] = o
      BY <2>2, <3>1, PushBackProperties
    <3> HIDE DEF args
    <3>4. DOMAIN args = 1..3 /\ args[3] = o /\ \A j \in 1..2 : args[j] = mi.args[j]
      BY <1>1, <3>2
    <3>5. Len(args) = Len(mi.args) + 1
      BY <2>2, <3>1, AppendProperties DEF args
    <3>6. Len(args) = 3
      BY <1>1, <3>5
    <3> QED BY <3>2, <3>4, <3>6
  <2> HIDE DEF args
  <2>4. to \in Instructions /\ to.relation = mi.relation /\ to.args = args
    BY <2>3, ChangedArgs
  <2> HIDE DEF to
  <2>5. \A j \in Registers(to) : j \in Registers(mi) /\ to.args[j] = mi.args[j]
    <3> SUFFICES ASSUME NEW j \in Registers(to)
                 PROVE  j \in Registers(mi) /\ to.args[j] = mi.args[j]
      OBVIOUS
    <3>1. j \in 1..3 /\ j # 3
      BY <2>2, <2>3, <2>4 DEF Registers
    <3> QED BY <1>1, <2>3, <2>4, <3>1 DEF Registers
  <2>6. \A j \in Registers(mi) : mi.args[j].size # 64
    BY <1>1, <1>4 DEF Registers, FitsTRUNC, Narrow
  <2>7. AgreeAll(to) /\ InRange(to, n)
    BY <2>5, <2>6 DEF AgreeAll, InRange
  <2>8. StandsFor(to, Selected(to, "AND_rri", {1}), n)
    BY <2>4, <2>7, SelectedStandsFor DEF TargetOps
  <2> QED BY <2>1, <2>4, <2>8 DEF StandsFor
<1> QED BY <1>1, <1>2, <1>3, <1>4

LEMMA ZEXT_LOADStandsFor ==
  ASSUME NEW mi \in Instructions, Fits(mi), mi.op = "ZEXT_LOAD", NEW n, InRange(mi, n)
  PROVE  StandsFor(mi, SelectZEXT_LOAD(mi), n)
<1> DEFINE to == [mi EXCEPT !.args = RemoveOperand(mi.args, 2)]
<1>1. Len(mi.args) = 3 /\ DOMAIN mi.args = 1..3 /\ FitsZEXT_LOAD(mi)
  <2>1. FitsZEXT_LOAD(mi)
    BY DEF Fits, ThreeOperandOps
  <2> QED BY <2>1, InstructionParts DEF FitsZEXT_LOAD
<1>2. PICK op \in {"LDRB", "LDR"} : SelectZEXT_LOAD(mi) = Selected(to, op, {})
  BY DEF SelectZEXT_LOAD
<1>3. /\ to \in Instructions /\ to.relation = mi.relation /\ Len(to.args) = 2
      /\ to.args[1] = mi.args[1] /\ to.args[2] = mi.args[3]
  <2>1. 2 \in DOMAIN mi.args
    BY <1>1
  <2>2. /\ to \in Instructions /\ to.relation = mi.relation
        /\ Len(to.args) = Len(mi.args) - 1
        /\ \A j \in 1..(Len(mi.args) - 1) : to.args[j] = mi.args[IF j < 2 THEN j ELSE j + 1]
    BY <2>1, WithoutOperand
  <2> HIDE DEF to
  <2> QED BY <1>1, <2>2
<1> HIDE DEF to
<1>4. Registers(to) \subseteq {1}
  <2>1. DOMAIN to.args = 1..2
    BY <1>3, InstructionParts
  <2> QED BY <1>1, <1>3, <2>1 DEF Registers, FitsZEXT_LOAD, IsAddress
<1>5. InRange(to, n)
  BY <1>1, <1>3, <1>4 DEF InRange, Registers
<1>6. to.args[1].size # 64
  BY <1>1, <1>3 DEF FitsZEXT_LOAD
<1>7. StandsFor(to, Selected(to, op, {}), n)
  BY <1>3, <1>4, <1>5, <1>6, OneRegisterStandsFor DEF TargetOps
<1> QED BY <1>2, <1>3, <1>7 DEF StandsFor

\* The condition of the instruction before.
LEMMA BRANCHStandsFor ==
  ASSUME NEW c \in Seq(Instructions), NEW i \in DOMAIN c, Fits(c[i]), c[i].op = "BRANCH",
         AfterCompare(c, i), NEW n, InRange(c[i], n)
  PROVE  StandsFor(c[i], SelectBRANCH(c, i), n)
<1> DEFINE mi == c[i]
           op == BranchFor[c[i - 1].relation]
           args == RemoveOperand(mi.args, 1)
           less == [mi EXCEPT !.args = args]
           to == SelectBRANCH(c, i)
<1>1. mi \in Instructions /\ Len(mi.args) = 2 /\ DOMAIN mi.args = 1..2 /\ FitsBRANCH(mi)
  <2>1. mi \in Instructions
    BY Elements
  <2>2. FitsBRANCH(mi)
    BY DEF Fits, ThreeOperandOps
  <2> QED BY <2>1, <2>2, InstructionParts DEF FitsBRANCH
<1>2. op \in TargetOps \ {"MOV_rr", "SXTB", "SXTW", "LDRB", "STRB"}
  BY OpsDisjoint DEF AfterCompare
<1>3. to = [mi EXCEPT !.op = op, !.args = args]
  BY DEF SelectBRANCH
<1>4. to = [op |-> op, args |-> args, relation |-> mi.relation]
  BY <1>1, <1>3, UpdatedInstruction, Zenon
<1>5. /\ args \in Seq(Operands) /\ Len(args) = 1 /\ args[1] = mi.args[2]
  <2>1. mi.args \in Seq(Operands) /\ 1 \in 1..Len(mi.args)
    BY <1>1, InstructionParts
  <2>2. /\ args \in Seq(Operands) /\ Len(args) = Len(mi.args) - 1
        /\ \A j \in 1..(Len(mi.args) - 1) : args[j] = mi.args[IF j < 1 THEN j ELSE j + 1]
    BY <2>1, RemoveOperandProperties
  <2> HIDE DEF args, mi
  <2> QED BY <1>1, <2>2
<1> HIDE DEF op, args, mi
<1>6. to \in Instructions
  BY <1>1, <1>2, <1>4, <1>5, InstructionParts DEF Instructions
<1>7. to.op = op /\ to.args = args /\ to.relation = mi.relation
  BY <1>4
<1> HIDE DEF to
<1>8. Registers(to) = {}
  <2>1. DOMAIN to.args = 1..1
    BY <1>5, <1>6, <1>7, InstructionParts
  <2> QED BY <1>1, <1>5, <1>7, <2>1 DEF Registers, FitsBRANCH
<1>9. FixMOV(to) = to
  BY <1>2, <1>7 DEF FixMOV
<1>10. Assembles(to)
  BY <1>2, <1>6, <1>7, <1>8, AgreeingAssembles DEF AgreeAll
<1> QED BY <1>2, <1>6, <1>7, <1>8, <1>9, <1>10 DEF StandsFor, Selects, InRange, mi, to

\* Every instruction that is legal is selected.
LEMMA Selection ==
  ASSUME NEW c \in Seq(Instructions), NEW i \in DOMAIN c, NEW n, InRange(c[i], n),
         Fits(c[i]), Check(c, i), AfterCompare(c, i)
  PROVE  StandsFor(c[i], SelectInstruction(c, i), n)
<1> DEFINE mi == c[i]
           to == SelectInstruction(c, i)
<1>1. mi \in Instructions /\ Fits(mi) /\ InRange(mi, n)
  BY Elements
<1>2. mi.op \notin {"MOD", "MODU", "GLOBAL_ADDRESS"}
  BY DEF Check
<1>3. mi.op \in GenericOps => ~IsAlreadySelected(mi)
  BY DEF IsAlreadySelected
<1>4. CASE mi.op = "LSL"
  <2>1. to = SelectArithmetic(mi, "LSL_rri", "LSL_rrr")
    BY <1>4 DEF SelectInstruction, IsAlreadySelected, GenericOps
  <2>2. AgreeAll(mi)
    BY <1>1, <1>4, FittingArithmetic DEF ThreeOperandOps
  <2> QED BY <1>1, <2>1, <2>2, ArithmeticStandsFor DEF TargetOps
<1>5. CASE mi.op = "ADD"
  <2>1. to = SelectADD(mi)
    BY <1>5 DEF SelectInstruction, IsAlreadySelected, GenericOps
  <2> QED BY <1>1, <1>5, <2>1, ADDStandsFor
<1>6. CASE mi.op = "SUB"
  <2>1. to = SelectArithmetic(mi, "SUB_rri", "SUB_rrr")
    BY <1>6 DEF SelectInstruction, IsAlreadySelected, GenericOps
  <2>2. AgreeAll(mi)
    BY <1>1, <1>6, FittingArithmetic DEF ThreeOperandOps
  <2> QED BY <1>1, <2>1, <2>2, ArithmeticStandsFor DEF TargetOps
<1>7. CASE mi.op = "MUL"
  <2>1. to = SelectArithmetic(mi, "MUL_rri", "MUL_rrr")
    BY <1>7 DEF SelectInstruction, IsAlreadySelected, GenericOps
  <2>2. AgreeAll(mi)
    BY <1>1, <1>7, FittingArithmetic DEF ThreeOperandOps
  <2> QED BY <1>1, <2>1, <2>2, ArithmeticStandsFor DEF TargetOps
<1>8. CASE mi.op = "DIV"
  <2>1. to = SelectArithmetic(mi, "SDIV_rri", "SDIV_rrr")
    BY <1>8 DEF SelectInstruction, IsAlreadySelected, GenericOps
  <2>2. AgreeAll(mi)
    BY <1>1, <1>8, FittingArithmetic DEF ThreeOperandOps
  <2> QED BY <1>1, <2>1, <2>2, ArithmeticStandsFor DEF TargetOps
<1>9. CASE mi.op = "DIVU"
  <2>1. to = Selected(mi, "UDIV_rrr", {1, 2})
    BY <1>9 DEF SelectInstruction, IsAlreadySelected, GenericOps
  <2>2. AgreeAll(mi)
    BY <1>1, <1>9, FittingArithmetic DEF ThreeOperandOps
  <2> QED BY <1>1, <2>1, <2>2, SelectedStandsFor DEF TargetOps
<1>10. CASE mi.op = "CMP"
  <2>1. to = SelectCMP(mi)
    BY <1>10 DEF SelectInstruction, IsAlreadySelected, GenericOps
  <2> QED BY <1>1, <1>10, <2>1, CMPStandsFor
<1>11. CASE mi.op \in {"SEXT", "ZEXT"}
  <2>1. to = SelectSEXT(mi)
    BY <1>11 DEF SelectInstruction, IsAlreadySelected, GenericOps, SelectZEXT
  <2> QED BY <1>1, <1>11, <2>1, ExtensionStandsFor
<1>12. CASE mi.op = "TRUNC"
  <2>1. to = SelectTRUNC(mi)
    BY <1>12 DEF SelectInstruction, IsAlreadySelected, GenericOps
  <2> QED BY <1>1, <1>12, <2>1, TRUNCStandsFor
<1>13. CASE mi.op = "ZEXT_LOAD"
  <2>1. to = SelectZEXT_LOAD(mi)
    BY <1>13 DEF SelectInstruction, IsAlreadySelected, GenericOps
  <2> QED BY <1>1, <1>13, <2>1, ZEXT_LOADStandsFor
<1>14. CASE mi.op = "LOAD_IMM"
  <2>1. to = Selected(mi, "MOV_rc", {})
    BY <1>14 DEF SelectInstruction, IsAlreadySelected, GenericOps
  <2> QED BY <1>1, <1>14, <2>1, LOAD_IMMStandsFor
<1>15. CASE mi.op = "LOAD"
  <2>1. to = SelectLOAD(mi)
    BY <1>15 DEF SelectInstruction, IsAlreadySelected, GenericOps
  <2> QED BY <1>1, <1>15, <2>1, LOADStandsFor
<1>16. CASE mi.op = "STORE"
  <2>1. to = SelectSTORE(mi)
    BY <1>16 DEF SelectInstruction, IsAlreadySelected, GenericOps
  <2> QED BY <1>1, <1>16, <2>1, STOREStandsFor
<1>17. CASE mi.op = "BRANCH"
  <2>1. to = SelectBRANCH(c, i)
    BY <1>17 DEF SelectInstruction, IsAlreadySelected, GenericOps
  <2> QED BY <1>17, <2>1, BRANCHStandsFor
<1>18. CASE mi.op = "ADRP"
  <2>1. to = mi
    BY <1>18 DEF SelectInstruction, IsAlreadySelected, GenericOps
  <2>2. FitsADRP(mi) /\ DOMAIN mi.args = 1..2
    <3>1. FitsADRP(mi)
      BY <1>1, <1>18 DEF Fits, ThreeOperandOps
    <3> QED BY <1>1, <3>1, InstructionParts DEF FitsADRP
  <2>3. Registers(mi) \subseteq {1}
    BY <2>2 DEF FitsADRP, Registers
  <2>4. AgreeAll(mi)
    BY <2>3 DEF AgreeAll
  <2>5. FixMOV(mi) = mi
    BY <1>18 DEF FixMOV
  <2>6. mi.op \in TargetOps \ {"LDRB", "STRB"}
    BY <1>18 DEF TargetOps
  <2>7. Assembles(mi)
    BY <1>1, <2>4, <2>6, AgreeingAssembles
  <2> QED BY <1>1, <2>1, <2>5, <2>6, <2>7 DEF StandsFor, Selects
<1> QED
  <2>1. mi.op \in {"LSL", "ADD", "SUB", "MUL", "DIV", "DIVU", "CMP", "SEXT", "ZEXT", "TRUNC",
                   "ZEXT_LOAD", "LOAD_IMM", "LOAD", "STORE", "BRANCH", "ADRP"}
    BY <1>1, <1>2 DEF Fits, ThreeOperandOps
  <2> QED
    BY <1>4, <1>5, <1>6, <1>7, <1>8, <1>9, <1>10, <1>11, <1>12, <1>13, <1>14, <1>15, <1>16,
       <1>17, <1>18, <2>1, Zenon

-----------------------------------------------------------------------------
(* An instruction is replaced.                                               *)

LEMMA SplicedProperties ==
  ASSUME NEW S, NEW s \in Seq(S), NEW i \in 1..Len(s), NEW new \in Seq(S)
  PROVE  /\ Spliced(s, i, new) \in Seq(S)
         /\ Len(Spliced(s, i, new)) = Len(s) - 1 + Len(new)
         /\ \A j \in 1..(i - 1) : Spliced(s, i, new)[j] = s[j]
         /\ \A j \in (i + 1)..Len(s) : Spliced(s, i, new)[j - 1 + Len(new)] = s[j]
<1> DEFINE front == SubSeq(s, 1, i - 1)
           back == SubSeq(s, i + 1, Len(s))
<1>1. Len(s) \in Nat /\ i \in Nat /\ 1 <= i /\ i <= Len(s) /\ Len(new) \in Nat
  BY LenProperties
<1>2. /\ front \in Seq(S) /\ Len(front) = i - 1
      /\ \A j \in 1..(i - 1) : front[j] = s[j]
  BY <1>1, SubSeqProperties
<1>3. /\ back \in Seq(S) /\ Len(back) = Len(s) - i
      /\ \A j \in 1..(Len(s) - i) : back[j] = s[i + j]
  BY <1>1, SubSeqProperties
<1> HIDE DEF front, back
<1>4. /\ front \o new \in Seq(S) /\ Len(front \o new) = i - 1 + Len(new)
      /\ \A j \in 1..(i - 1) : (front \o new)[j] = s[j]
      /\ \A j \in 1..Len(new) : (front \o new)[i - 1 + j] = new[j]
  <2>1. front \o new \in Seq(S) /\ Len(front \o new) = i - 1 + Len(new)
    BY <1>1, <1>2, ConcatProperties
  <2>2. \A j \in 1..(i - 1) : (front \o new)[j] = s[j]
    BY <1>1, <1>2, ConcatProperties
  <2>3. ASSUME NEW j \in 1..Len(new) PROVE (front \o new)[i - 1 + j] = new[j]
    BY <1>1, <1>2, ConcatProperties
  <2> QED BY <2>1, <2>2, <2>3
<1> DEFINE first == front \o new
           all == first \o back
<1>5. all = Spliced(s, i, new)
  BY DEF Spliced, front, back
<1> HIDE DEF first
<1>6. /\ all \in Seq(S) /\ Len(all) = Len(s) - 1 + Len(new)
      /\ \A j \in 1..(i - 1 + Len(new)) : all[j] = first[j]
      /\ \A j \in 1..(Len(s) - i) : all[i - 1 + Len(new) + j] = s[i + j]
  <2>1. first \in Seq(S) /\ Len(first) = i - 1 + Len(new)
    BY <1>4 DEF first
  <2>2. all \in Seq(S) /\ Len(all) = Len(s) - 1 + Len(new)
    <3>1. all \in Seq(S) /\ Len(all) = Len(first) + Len(back)
      BY <1>3, <2>1, ConcatProperties
    <3> QED BY <1>1, <1>3, <2>1, <3>1
  <2>3. \A j \in 1..(i - 1 + Len(new)) : all[j] = first[j]
    BY <1>1, <1>3, <2>1, ConcatProperties
  <2>4. ASSUME NEW j \in 1..(Len(s) - i) PROVE all[i - 1 + Len(new) + j] = s[i + j]
    <3>1. all[i - 1 + Len(new) + j] = back[j]
      BY <1>1, <1>3, <2>1, ConcatProperties
    <3> QED BY <1>3, <3>1
  <2> QED BY <2>2, <2>3, <2>4
<1> HIDE DEF all
<1>7. \A j \in 1..(i - 1) : all[j] = s[j]
  BY <1>1, <1>4, <1>6 DEF first
<1>8. ASSUME NEW j \in (i + 1)..Len(s) PROVE all[j - 1 + Len(new)] = s[j]
  <2>1. j - i \in 1..(Len(s) - i)
    BY <1>1
  <2>2. all[i - 1 + Len(new) + (j - i)] = s[i + (j - i)]
    BY <1>6, <2>1
  <2>3. i - 1 + Len(new) + (j - i) = j - 1 + Len(new) /\ i + (j - i) = j
    BY <1>1
  <2> QED BY <2>2, <2>3
<1> QED BY <1>5, <1>6, <1>7, <1>8

LEMMA SplicedLength ==
  ASSUME NEW S, NEW s \in Seq(S), NEW i \in 1..Len(s), NEW new \in Seq(S)
  PROVE  Spliced(s, i, new) \in Seq(S) /\ Len(Spliced(s, i, new)) = Len(s) - 1 + Len(new)
BY SplicedProperties, Zenon

LEMMA SplicedNew ==
  ASSUME NEW S, NEW s \in Seq(S), NEW i \in 1..Len(s), NEW new \in Seq(S),
         NEW j \in 1..Len(new)
  PROVE  Spliced(s, i, new)[j + (i - 1)] = new[j]
<1> DEFINE front == SubSeq(s, 1, i - 1)
           back == SubSeq(s, i + 1, Len(s))
           first == front \o new
           k == j + (i - 1)
<1>1. Len(s) \in Nat /\ i \in Nat /\ 1 <= i /\ i <= Len(s) /\ Len(new) \in Nat
  BY LenProperties
<1>2. front \in Seq(S) /\ Len(front) = i - 1 /\ back \in Seq(S)
  BY <1>1, SubSeqProperties
<1>3. Spliced(s, i, new) = first \o back
  BY DEF Spliced
<1> HIDE DEF front, back
<1>4. first \in Seq(S) /\ Len(first) = i - 1 + Len(new)
  BY <1>1, <1>2, ConcatProperties
<1>5. first[Len(front) + j] = new[j]
  BY <1>1, <1>2, ConcatProperties
<1>6. k = Len(front) + j /\ k \in 1..Len(first)
  BY <1>1, <1>2, <1>4
<1>7. first[k] = new[j]
  BY <1>5, <1>6
<1> HIDE DEF first, k
<1>8. (first \o back)[k] = first[k]
  BY <1>2, <1>4, <1>6, ConcatProperties
<1> QED BY <1>3, <1>7, <1>8 DEF k

LEMMA SplicedOne ==
  ASSUME NEW S, NEW s \in Seq(S), NEW i \in 1..Len(s), NEW e \in S
  PROVE  Len(Spliced(s, i, <<e>>)) = Len(s) /\ Spliced(s, i, <<e>>)[i] = e
<1> DEFINE new == <<e>>
<1>1. new \in Seq(S) /\ Len(new) = 1 /\ new[1] = e
  OBVIOUS
<1>2. Len(s) \in Nat /\ i \in Nat
  BY LenProperties
<1> HIDE DEF new
<1>3. Len(Spliced(s, i, new)) = Len(s) - 1 + Len(new)
  BY <1>1, SplicedLength
<1>4. 1 \in 1..Len(new) /\ 1 + (i - 1) = i
  BY <1>1, <1>2
<1>5. Spliced(s, i, new)[i] = new[1]
  <2>1. new \in Seq(S)
    BY <1>1
  <2>2. ASSUME NEW j \in 1..Len(new) PROVE Spliced(s, i, new)[j + (i - 1)] = new[j]
    BY <2>1, SplicedNew
  <2> QED BY <1>4, <2>2
<1>6. Len(Spliced(s, i, new)) = Len(s)
  BY <1>1, <1>2, <1>3
<1> QED BY <1>1, <1>5, <1>6 DEF new

\* Where the instructions of the new block come from.
LEMMA SplicedPlaces ==
  ASSUME NEW S, NEW s \in Seq(S), NEW i \in 1..Len(s), NEW new \in Seq(S),
         NEW j \in DOMAIN Spliced(s, i, new)
  PROVE  \/ j \in 1..(i - 1)
         \/ \E k \in 1..Len(new) : j = k + (i - 1)
         \/ \E k \in (i + 1)..Len(s) : j = k - 1 + Len(new)
<1>1. Len(s) \in Nat /\ i \in Nat /\ 1 <= i /\ i <= Len(s) /\ Len(new) \in Nat
  BY LenProperties
<1>2. j \in 1..(Len(s) - 1 + Len(new))
  <2> DEFINE d == Spliced(s, i, new)
  <2>1. d \in Seq(S) /\ Len(d) = Len(s) - 1 + Len(new)
    BY SplicedProperties, Zenon
  <2> HIDE DEF d
  <2>2. DOMAIN d = 1..Len(d)
    BY <2>1, LenProperties
  <2> QED BY <2>1, <2>2 DEF d
<1>3. CASE j < i
  BY <1>1, <1>2, <1>3
<1>4. CASE i <= j /\ j <= i - 1 + Len(new)
  <2>1. j - i + 1 \in 1..Len(new) /\ j = (j - i + 1) + (i - 1)
    BY <1>1, <1>2, <1>4
  <2> QED BY <2>1
<1>5. CASE j > i - 1 + Len(new)
  <2>1. j + 1 - Len(new) \in (i + 1)..Len(s) /\ j = (j + 1 - Len(new)) - 1 + Len(new)
    BY <1>1, <1>2, <1>5
  <2> QED BY <2>1
<1> QED BY <1>1, <1>2, <1>3, <1>4, <1>5

\* A block before the selection: the instructions before k are legal.
Block(c, n, k) ==
  /\ c \in Seq(Instructions) /\ k \in 1..(Len(c) + 1)
  /\ \A i \in DOMAIN c :
       /\ Fits(c[i]) /\ InRange(c[i], n) /\ AfterCompare(c, i)
       /\ i < k => Check(c, i)

\* What is put into a block.
Fitting(new, n) ==
  new \in Seq(Instructions) /\ \A j \in DOMAIN new : Fits(new[j]) /\ InRange(new[j], n) /\ new[j].op # "BRANCH"

LEMMA MoreRegisters ==
  ASSUME NEW mi, NEW n \in Nat, NEW m \in Nat, n <= m, InRange(mi, n)
  PROVE  InRange(mi, m)
BY DEF InRange

LEMMA SameCheck ==
  ASSUME NEW c, NEW d, NEW i \in Nat, d[i] = c[i], i > 1 => d[i - 1] = c[i - 1], Check(c, i)
  PROVE  Check(d, i)
BY DEF Check

LEMMA SplicedBlock ==
  ASSUME NEW c, NEW n \in Nat, NEW k, Block(c, n, k), NEW i \in DOMAIN c, k <= i,
         c[i].relation = "none", NEW m \in Nat, n <= m, NEW new, Fitting(new, m)
  PROVE  Block(Spliced(c, i, new), m, k)
<1> DEFINE d == Spliced(c, i, new)
<1>1. /\ c \in Seq(Instructions) /\ DOMAIN c = 1..Len(c) /\ Len(c) \in Nat
      /\ new \in Seq(Instructions) /\ DOMAIN new = 1..Len(new) /\ Len(new) \in Nat
      /\ i \in 1..Len(c) /\ k \in 1..(Len(c) + 1)
  BY LenProperties DEF Block, Fitting
<1>2. /\ d \in Seq(Instructions) /\ Len(d) = Len(c) - 1 + Len(new)
      /\ \A j \in 1..(i - 1) : d[j] = c[j]
      /\ \A j \in 1..Len(new) : d[j + (i - 1)] = new[j]
      /\ \A j \in (i + 1)..Len(c) : d[j - 1 + Len(new)] = c[j]
  <2>1. c \in Seq(Instructions) /\ new \in Seq(Instructions) /\ i \in 1..Len(c)
    BY <1>1
  <2>2. /\ d \in Seq(Instructions) /\ Len(d) = Len(c) - 1 + Len(new)
        /\ \A j \in 1..(i - 1) : d[j] = c[j]
    BY <2>1, SplicedProperties
  <2>3. ASSUME NEW j \in 1..Len(new) PROVE d[j + (i - 1)] = new[j]
    BY <2>1, SplicedNew
  <2>4. ASSUME NEW j \in (i + 1)..Len(c) PROVE d[j - 1 + Len(new)] = c[j]
    BY <2>1, SplicedProperties, Zenon
  <2> QED BY <2>2, <2>3, <2>4
<1>3. k \in 1..(Len(d) + 1)
  BY <1>1, <1>2
<1>4. \A j \in DOMAIN d :
        \/ j \in 1..(i - 1)
        \/ \E p \in 1..Len(new) : j = p + (i - 1)
        \/ \E p \in (i + 1)..Len(c) : j = p - 1 + Len(new)
  BY <1>1, SplicedPlaces
<1> HIDE DEF d
<1>5. ASSUME NEW j \in DOMAIN d, j \in 1..(i - 1)
      PROVE  /\ Fits(d[j]) /\ InRange(d[j], m) /\ AfterCompare(d, j)
             /\ j < k => Check(d, j)
  <2>1. j \in DOMAIN c /\ j \in Nat /\ d[j] = c[j] /\ (j > 1 => d[j - 1] = c[j - 1])
    <3>1. j \in DOMAIN c /\ j \in Nat /\ (j > 1 => j - 1 \in 1..(i - 1))
      BY <1>1, <1>5
    <3>2. \A q \in 1..(i - 1) : d[q] = c[q]
      BY <1>2
    <3> QED BY <1>5, <3>1, <3>2
  <2>2. Fits(c[j]) /\ InRange(c[j], n) /\ AfterCompare(c, j) /\ (j < k => Check(c, j))
    BY <2>1 DEF Block
  <2>3. AfterCompare(d, j)
    BY <2>1, <2>2 DEF AfterCompare
  <2>4. j < k => Check(d, j)
    BY <2>1, <2>2, SameCheck
  <2>5. InRange(d[j], m)
    BY <2>1, <2>2, MoreRegisters
  <2> QED BY <2>1, <2>2, <2>3, <2>4, <2>5
<1>6. ASSUME NEW j \in DOMAIN d, NEW p \in 1..Len(new), j = p + (i - 1)
      PROVE  /\ Fits(d[j]) /\ InRange(d[j], m) /\ AfterCompare(d, j)
             /\ j < k => Check(d, j)
  <2>1. d[j] = new[p] /\ ~(j < k)
    BY <1>1, <1>2, <1>6
  <2>2. Fits(new[p]) /\ InRange(new[p], m) /\ new[p].op # "BRANCH"
    BY <1>1 DEF Fitting
  <2> QED BY <2>1, <2>2 DEF AfterCompare
<1>7. ASSUME NEW j \in DOMAIN d, NEW p \in (i + 1)..Len(c), j = p - 1 + Len(new)
      PROVE  /\ Fits(d[j]) /\ InRange(d[j], m) /\ AfterCompare(d, j)
             /\ j < k => Check(d, j)
  <2>1. d[j] = c[p] /\ ~(j < k) /\ p \in DOMAIN c
    BY <1>1, <1>2, <1>7
  <2>2. Fits(c[p]) /\ InRange(c[p], n) /\ AfterCompare(c, p)
    BY <2>1 DEF Block
  <2>3. InRange(d[j], m)
    BY <2>1, <2>2, MoreRegisters
  <2>4. ASSUME c[p].op = "BRANCH" PROVE j > 1 /\ d[j - 1].relation \in Relations
    <3>1. c[p - 1].relation \in Relations
      BY <2>2, <2>4 DEF AfterCompare
    <3>2. p - 1 # i
      BY <3>1 DEF Relations
    <3>3. p - 1 \in (i + 1)..Len(c) /\ j - 1 = (p - 1) - 1 + Len(new) /\ j > 1
      BY <1>1, <1>7, <3>2
    <3>4. d[(p - 1) - 1 + Len(new)] = c[p - 1]
      BY <1>2, <3>3
    <3> QED BY <3>1, <3>3, <3>4
  <2>5. AfterCompare(d, j)
    BY <2>1, <2>4 DEF AfterCompare
  <2> QED BY <2>1, <2>2, <2>3, <2>5
<1>8. \A j \in DOMAIN d :
        /\ Fits(d[j]) /\ InRange(d[j], m) /\ AfterCompare(d, j)
        /\ j < k => Check(d, j)
  BY <1>4, <1>5, <1>6, <1>7
<1> QED BY <1>2, <1>3, <1>8 DEF Block, d

\* The invariant while the legalizer is at work.
LEMMA LegalizerInv ==
  ASSUME pass = "legalize"
  PROVE  LoweringInv <=> /\ statement \in Statements /\ nextVReg \in 1..MaxVReg
                         /\ Block(code, nextVReg, index)
BY DEF LoweringInv, BlockInv, PassInv, Block, Passes

LEMMA LegalizerInvNext ==
  ASSUME pass' = "legalize"
  PROVE  LoweringInv' <=> /\ statement' \in Statements /\ nextVReg' \in 1..MaxVReg
                          /\ Block(code', nextVReg', index')
BY DEF LoweringInv, BlockInv, PassInv, Block, Passes

\* What an instruction is replaced by fits.
LEMMA ExpandKeepsInv ==
  ASSUME LoweringInv, NEW ops, Illegal(ops), "CMP" \notin ops,
         NEW registers \in Nat, NEW new,
         Fitting(new, nextVReg + registers), Expand(new, registers)
  PROVE  LoweringInv'
<1>1. /\ pass = "legalize" /\ pass' = "legalize"
      /\ statement' = statement /\ index' = index
      /\ nextVReg' = nextVReg + registers /\ nextVReg + registers <= MaxVReg
      /\ code' = Spliced(code, index, new)
  BY DEF Illegal, Expand
<1>2. statement \in Statements /\ nextVReg \in 1..MaxVReg /\ Block(code, nextVReg, index)
  BY <1>1, LegalizerInv
<1>3. nextVReg \in Nat /\ nextVReg + registers \in 1..MaxVReg /\ index \in Nat
      /\ nextVReg <= nextVReg + registers
  BY <1>1, <1>2, LoweringAssumption DEF Block
<1>4. index \in DOMAIN code
  BY <1>2, LenProperties DEF Illegal, Block
<1>5. code[index].relation = "none"
  <2>1. Fits(code[index]) /\ code[index].op # "CMP"
    BY <1>2, <1>4 DEF Block, Illegal
  <2> QED BY <2>1 DEF Fits
<1>6. Block(Spliced(code, index, new), nextVReg + registers, index)
  <2>1. index <= index
    BY <1>3
  <2>2. nextVReg + registers \in Nat
    BY <1>3
  <2> QED BY <1>2, <1>3, <1>4, <1>5, <2>1, <2>2, SplicedBlock
<1> QED BY <1>1, <1>2, <1>3, <1>6, LegalizerInvNext

-----------------------------------------------------------------------------
(* Instructions that are made, by the expansions and by code generation.     *)

\* An operand when the registers are among the first n - 1.
Sound(o, n) ==
  /\ o \in Operands
  /\ IsImmediate(o) => o.id \in Int /\ o.size = 32
  /\ o.kind = "register" => o.id \in 1..(n - 1) /\ o.size \in {1, 8, 32, 64}

SameSize(a, b) ==
  a.kind = "register" /\ b.kind = "register" => ((a.size = 64) <=> (b.size = 64))

Good(mi, n) == mi \in Instructions /\ Fits(mi) /\ InRange(mi, n)

LEMMA SoundOperands ==
  ASSUME NEW mi, NEW n, Good(mi, n), NEW k \in DOMAIN mi.args
  PROVE  Sound(mi.args[k], n)
<1>1. mi \in Instructions /\ Fits(mi) /\ InRange(mi, n)
  BY DEF Good
<1>2. mi.args[k] \in Operands
  BY <1>1, InstructionParts
<1>3. IsImmediate(mi.args[k]) => mi.args[k].id \in Int /\ mi.args[k].size = 32
  BY <1>1 DEF Fits
<1>4. mi.args[k].kind = "register" =>
        mi.args[k].id \in 1..(n - 1) /\ mi.args[k].size \in {1, 8, 32, 64}
  BY <1>1 DEF InRange, Registers
<1> QED BY <1>2, <1>3, <1>4 DEF Sound

LEMMA SoundMore ==
  ASSUME NEW o, NEW n \in Nat, NEW m \in Nat, n <= m, Sound(o, n)
  PROVE  Sound(o, m)
BY DEF Sound

LEMMA SoundConstants ==
  ASSUME NEW n
  PROVE  /\ \A k \in Int : Sound(Imm(k), n) /\ IsImmediate(Imm(k)) /\ Imm(k).kind # "register"
         /\ Sound(Zero, n) /\ Zero.kind = "zero"
         /\ Sound(Label, n) /\ Label.kind = "label"
<1>1. Int \subseteq Ids /\ 0 \in Ids
  BY DEF Ids
<1>2. ASSUME NEW k \in Int
      PROVE  Sound(Imm(k), n) /\ IsImmediate(Imm(k)) /\ Imm(k).kind # "register"
  BY <1>1, ImmIsOperand DEF Sound, IsImmediate
<1>3. Zero \in Operands /\ Zero.kind = "zero"
  BY <1>1 DEF Zero, Operands, OperandKinds
<1>4. Label \in Operands /\ Label.kind = "label"
  BY <1>1 DEF Label, Operands, OperandKinds
<1> QED BY <1>2, <1>3, <1>4 DEF Sound, IsImmediate

LEMMA SoundReg ==
  ASSUME NEW n \in Nat, NEW r \in 1..(n - 1), NEW z \in {1, 8, 32, 64}
  PROVE  /\ Sound(Reg(r, z), n) /\ Reg(r, z).kind = "register"
         /\ Reg(r, z).id = r /\ Reg(r, z).size = z
<1>1. r \in Ids
  BY DEF Ids
<1>2. Reg(r, z) \in Operands /\ Reg(r, z).kind = "register" /\ Reg(r, z).id = r /\ Reg(r, z).size = z
  BY <1>1 DEF Reg, Operands, OperandKinds
<1> QED BY <1>2 DEF Sound, IsImmediate

\* Of variables.
LEMMA SoundVariables ==
  ASSUME NEW v \in Variables, NEW n
  PROVE  /\ Sound(Slot(v), n) /\ Slot(v).kind = "slot" /\ Slot(v).size = SizeOf[v]
         /\ SizeOf[v] \in {8, 32, 64}
         /\ Sound(Symbol(v), n) /\ Symbol(v).kind = "symbol"
         /\ Sound(LowPart(v), n) /\ LowPart(v).kind = "lo12"
<1>1. v \in Ids /\ SizeOf[v] \in {8, 32, 64}
  BY MachineCodeAssumption DEF Ids, Variables
<1>2. Slot(v) \in Operands /\ Slot(v).kind = "slot" /\ Slot(v).size = SizeOf[v]
  BY <1>1 DEF Slot, Operands, OperandKinds
<1>3. Symbol(v) \in Operands /\ Symbol(v).kind = "symbol"
  BY <1>1 DEF Symbol, Operands, OperandKinds
<1>4. LowPart(v) \in Operands /\ LowPart(v).kind = "lo12"
  BY <1>1 DEF LowPart, Operands, OperandKinds
<1> QED BY <1>1, <1>2, <1>3, <1>4 DEF Sound, IsImmediate

\* An instruction of sound operands.
Made(mi, op, n) ==
  /\ mi \in Instructions /\ InRange(mi, n) /\ mi.op = op /\ mi.relation = "none"
  /\ \A k \in DOMAIN mi.args :
       IsImmediate(mi.args[k]) => mi.args[k].id \in Int /\ mi.args[k].size = 32

MadeOf2(mi, op, a, b, n) ==
  /\ Made(mi, op, n) /\ Len(mi.args) = 2 /\ DOMAIN mi.args = {1, 2}
  /\ mi.args[1] = a /\ mi.args[2] = b

MadeOf3(mi, op, a, b, c, n) ==
  /\ Made(mi, op, n) /\ Len(mi.args) = 3 /\ DOMAIN mi.args = {1, 2, 3}
  /\ mi.args[1] = a /\ mi.args[2] = b /\ mi.args[3] = c

LEMMA NewMade ==
  ASSUME NEW n, NEW op \in GenericOps \cup TargetOps, NEW args \in Seq(Operands),
         \A k \in DOMAIN args : Sound(args[k], n)
  PROVE  Made(Instr(op, args), op, n) /\ Instr(op, args).args = args
BY NewInstruction DEF Instr, Sound, InRange, Registers, Made

LEMMA NewMadeOf2 ==
  ASSUME NEW n, NEW op \in GenericOps \cup TargetOps, NEW a, NEW b, Sound(a, n), Sound(b, n)
  PROVE  MadeOf2(Instr(op, <<a, b>>), op, a, b, n)
<1> DEFINE args == <<a, b>>
<1>1. /\ args \in Seq(Operands) /\ Len(args) = 2 /\ DOMAIN args = {1, 2}
      /\ args[1] = a /\ args[2] = b
      /\ \A k \in DOMAIN args : Sound(args[k], n)
  BY DEF Sound
<1> HIDE DEF args
<1>2. Made(Instr(op, args), op, n) /\ Instr(op, args).args = args
  BY <1>1, NewMade
<1> QED BY <1>1, <1>2 DEF MadeOf2, args

LEMMA NewMadeOf3 ==
  ASSUME NEW n, NEW op \in GenericOps \cup TargetOps, NEW a, NEW b, NEW c,
         Sound(a, n), Sound(b, n), Sound(c, n)
  PROVE  MadeOf3(Instr(op, <<a, b, c>>), op, a, b, c, n)
<1> DEFINE args == <<a, b, c>>
<1>1. /\ args \in Seq(Operands) /\ Len(args) = 3 /\ DOMAIN args = {1, 2, 3}
      /\ args[1] = a /\ args[2] = b /\ args[3] = c
      /\ \A k \in DOMAIN args : Sound(args[k], n)
  BY DEF Sound
<1> HIDE DEF args
<1>2. Made(Instr(op, args), op, n) /\ Instr(op, args).args = args
  BY <1>1, NewMade
<1> QED BY <1>1, <1>2 DEF MadeOf3, args

LEMMA NewArithmetic ==
  ASSUME NEW n, NEW op \in ThreeOperandOps, NEW a, NEW b, NEW c,
         Sound(a, n), Sound(b, n), Sound(c, n), a.kind = "register",
         SameSize(a, b), SameSize(a, c), SameSize(b, c),
         op \in {"MOD", "MODU"} => Narrow(a) /\ Narrow(b) /\ Narrow(c)
  PROVE  Good(Instr(op, <<a, b, c>>), n) /\ Instr(op, <<a, b, c>>).op = op
<1> DEFINE mi == Instr(op, <<a, b, c>>)
<1>1. op \in GenericOps \cup TargetOps
  BY DEF ThreeOperandOps, GenericOps
<1>2. MadeOf3(mi, op, a, b, c, n)
  BY <1>1, NewMadeOf3
<1> HIDE DEF mi
<1>3. Agree(mi, {1, 2, 3})
  BY <1>2 DEF MadeOf3, Agree, Registers, SameSize
<1>4. FitsArithmetic(mi)
  BY <1>2, <1>3 DEF MadeOf3, Made, FitsArithmetic
<1>5. Fits(mi)
  BY <1>2, <1>4 DEF MadeOf3, Made, Fits
<1> QED BY <1>2, <1>5 DEF MadeOf3, Made, Good, mi

LEMMA NewLOAD_IMM ==
  ASSUME NEW n, NEW a, NEW b, Sound(a, n), Sound(b, n), a.kind = "register", IsImmediate(b)
  PROVE  Good(Instr("LOAD_IMM", <<a, b>>), n) /\ Instr("LOAD_IMM", <<a, b>>).op = "LOAD_IMM"
<1> DEFINE mi == Instr("LOAD_IMM", <<a, b>>)
<1>1. MadeOf2(mi, "LOAD_IMM", a, b, n)
  BY NewMadeOf2 DEF GenericOps
<1> HIDE DEF mi
<1>2. Fits(mi)
  BY <1>1 DEF MadeOf2, Made, Fits, FitsLOAD_IMM
<1> QED BY <1>1, <1>2 DEF MadeOf2, Made, Good, mi

LEMMA NewSTORE ==
  ASSUME NEW n, NEW a, NEW b, Sound(a, n), Sound(b, n), IsAddress(a), IsByte(a) => Narrow(b)
  PROVE  Good(Instr("STORE", <<a, b>>), n) /\ Instr("STORE", <<a, b>>).op = "STORE"
<1> DEFINE mi == Instr("STORE", <<a, b>>)
<1>1. MadeOf2(mi, "STORE", a, b, n)
  BY NewMadeOf2 DEF GenericOps
<1> HIDE DEF mi
<1>2. Fits(mi)
  BY <1>1 DEF MadeOf2, Made, Fits, FitsSTORE
<1> QED BY <1>1, <1>2 DEF MadeOf2, Made, Good, mi

LEMMA NewADRP ==
  ASSUME NEW mi, NEW n, Good(mi, n), mi.op = "GLOBAL_ADDRESS"
  PROVE  Good([mi EXCEPT !.op = "ADRP"], n) /\ [mi EXCEPT !.op = "ADRP"].op = "ADRP"
<1> DEFINE to == [mi EXCEPT !.op = "ADRP"]
<1>1. mi \in Instructions /\ FitsGLOBAL_ADDRESS(mi) /\ InRange(mi, n) /\ mi.relation = "none"
      /\ \A k \in DOMAIN mi.args :
           IsImmediate(mi.args[k]) => mi.args[k].id \in Int /\ mi.args[k].size = 32
  BY DEF Good, Fits, ThreeOperandOps
<1>2. to = [op |-> "ADRP", args |-> mi.args, relation |-> mi.relation]
  BY <1>1, InstructionParts
<1>3. "ADRP" \in TargetOps
  BY DEF TargetOps
<1>4. to \in Instructions
  BY <1>1, <1>2, <1>3, InstructionParts DEF Instructions
<1>5. to.op = "ADRP" /\ to.args = mi.args /\ to.relation = "none"
  BY <1>1, <1>2
<1> HIDE DEF to
<1>6. FitsADRP(to) /\ InRange(to, n)
  BY <1>1, <1>5 DEF FitsADRP, FitsGLOBAL_ADDRESS, InRange, Registers
<1>7. Fits(to)
  BY <1>1, <1>5, <1>6 DEF Fits
<1> QED BY <1>4, <1>5, <1>6, <1>7 DEF Good, to

-----------------------------------------------------------------------------
(* The expansions.                                                           *)

LEMMA OneFits ==
  ASSUME NEW n, NEW a, Good(a, n), a.op # "BRANCH"
  PROVE  Fitting(<<a>>, n)
BY DEF Fitting, Good

LEMMA TwoFit ==
  ASSUME NEW n, NEW a, NEW b, Good(a, n), a.op # "BRANCH", Good(b, n), b.op # "BRANCH"
  PROVE  Fitting(<<a, b>>, n)
<1>1. a \in Instructions /\ b \in Instructions
  BY DEF Good
<1>2. <<a, b>> \in Seq(Instructions) /\ DOMAIN <<a, b>> = {1, 2}
  BY <1>1
<1> QED BY <1>2 DEF Fitting, Good

LEMMA ThreeFit ==
  ASSUME NEW n, NEW a, NEW b, NEW c, Good(a, n), a.op # "BRANCH", Good(b, n), b.op # "BRANCH",
         Good(c, n), c.op # "BRANCH"
  PROVE  Fitting(<<a, b, c>>, n)
<1>1. a \in Instructions /\ b \in Instructions /\ c \in Instructions
  BY DEF Good
<1>2. <<a, b, c>> \in Seq(Instructions) /\ DOMAIN <<a, b, c>> = {1, 2, 3}
  BY <1>1
<1> QED BY <1>2 DEF Fitting, Good

\* The instruction that is looked at.
LEMMA IllegalInstruction ==
  ASSUME LoweringInv, NEW ops, Illegal(ops)
  PROVE  /\ Good(code[index], nextVReg) /\ code[index].op \in ops
         /\ nextVReg \in Nat /\ nextVReg >= 1 /\ index \in DOMAIN code
         /\ DOMAIN code[index].args = 1..Len(code[index].args)
<1>1. pass = "legalize" /\ index <= Len(code) /\ code[index].op \in ops
  BY DEF Illegal
<1>2. nextVReg \in 1..MaxVReg /\ Block(code, nextVReg, index)
  BY <1>1, LegalizerInv
<1>3. index \in DOMAIN code
  BY <1>1, <1>2, LenProperties DEF Block
<1>4. Good(code[index], nextVReg)
  BY <1>2, <1>3, Elements DEF Block, Good
<1>5. DOMAIN code[index].args = 1..Len(code[index].args)
  BY <1>4, InstructionParts DEF Good
<1> QED BY <1>1, <1>2, <1>3, <1>4, <1>5, LoweringAssumption

LEMMA KeptBySTOREOfZero ==
  ASSUME LoweringInv, ExpandSTOREOfZero
  PROVE  LoweringInv'
<1> DEFINE mi == code[index]
           new == <<Instr("STORE", <<mi.args[1], Zero>>)>>
<1>1. Illegal({"STORE"}) /\ Expand(new, 0)
  BY DEF ExpandSTOREOfZero
<1>2. /\ Good(mi, nextVReg) /\ mi.op = "STORE" /\ nextVReg \in Nat
      /\ DOMAIN mi.args = 1..Len(mi.args)
  BY <1>1, IllegalInstruction
<1>3. FitsSTORE(mi)
  BY <1>2 DEF Good, Fits, ThreeOperandOps
<1>4. Sound(mi.args[1], nextVReg) /\ IsAddress(mi.args[1])
  BY <1>2, <1>3, SoundOperands DEF FitsSTORE
<1>5. Sound(Zero, nextVReg) /\ Narrow(Zero)
  BY SoundConstants DEF Narrow
<1> HIDE DEF mi
<1>6. Fitting(new, nextVReg)
  BY <1>4, <1>5, NewSTORE, OneFits
<1> HIDE DEF new
<1>7. Fitting(new, nextVReg + 0) /\ 0 \in Nat
  BY <1>2, <1>6
<1> QED BY <1>1, <1>7, ExpandKeepsInv

LEMMA KeptBySTORE ==
  ASSUME LoweringInv, ExpandSTORE
  PROVE  LoweringInv'
<1> DEFINE mi == code[index]
           r == Reg(nextVReg, 32)
           new == <<Instr("LOAD_IMM", <<r, mi.args[2]>>), Instr("STORE", <<mi.args[1], r>>)>>
           n == nextVReg + 1
<1>1. Illegal({"STORE"}) /\ Expand(new, 1)
  BY DEF ExpandSTORE
<1>2. /\ Good(mi, nextVReg) /\ mi.op = "STORE" /\ nextVReg \in Nat /\ nextVReg >= 1
      /\ DOMAIN mi.args = 1..Len(mi.args)
  BY <1>1, IllegalInstruction
<1>3. FitsSTORE(mi) /\ Len(mi.args) = 2
  BY <1>2 DEF Good, Fits, ThreeOperandOps, FitsSTORE
<1>4. /\ Sound(mi.args[1], nextVReg) /\ Sound(mi.args[2], nextVReg)
      /\ IsAddress(mi.args[1])
  BY <1>2, <1>3, SoundOperands DEF FitsSTORE
<1>5. IsImmediate(mi.args[2])
  BY <1>1, <1>2, <1>3 DEF Illegal, Check
<1> HIDE DEF mi
<1>6. Sound(mi.args[1], n) /\ Sound(mi.args[2], n)
  BY <1>2, <1>4, SoundMore
<1>7. Sound(r, n) /\ r.kind = "register" /\ Narrow(r)
  <2>1. n \in Nat /\ nextVReg \in 1..(n - 1)
    BY <1>2
  <2> QED BY <2>1, SoundReg DEF Narrow
<1> HIDE DEF n, r
<1>8. Fitting(new, n)
  BY <1>4, <1>5, <1>6, <1>7, NewLOAD_IMM, NewSTORE, TwoFit
<1> HIDE DEF new
<1> QED BY <1>1, <1>8, ExpandKeepsInv DEF n

LEMMA KeptByMOD ==
  ASSUME LoweringInv, ExpandMOD
  PROVE  LoweringInv'
<1> DEFINE mi == code[index]
           div == Reg(nextVReg, 32)
           mul == Reg(nextVReg + 1, 32)
           op == IF mi.op = "MODU" THEN "DIVU" ELSE "DIV"
           new == <<Instr(op, <<div, mi.args[2], mi.args[3]>>),
                    Instr("MUL", <<mul, div, mi.args[3]>>),
                    Instr("SUB", <<mi.args[1], mi.args[2], mul>>)>>
           n == nextVReg + 2
<1>1. Illegal({"MOD", "MODU"}) /\ Expand(new, 2)
  BY DEF ExpandMOD
<1>2. /\ Good(mi, nextVReg) /\ mi.op \in {"MOD", "MODU"} /\ nextVReg \in Nat /\ nextVReg >= 1
      /\ DOMAIN mi.args = 1..Len(mi.args)
  BY <1>1, IllegalInstruction
<1>3. FitsArithmetic(mi) /\ Len(mi.args) = 3
  BY <1>2 DEF Good, Fits, ThreeOperandOps, FitsArithmetic
<1>4. /\ mi.args[1].kind = "register"
      /\ \A k \in 1..3 : Narrow(mi.args[k])
  BY <1>2, <1>3 DEF FitsArithmetic
<1>5. \A k \in 1..3 : Sound(mi.args[k], nextVReg)
  BY <1>2, <1>3, SoundOperands
<1> HIDE DEF mi
<1>6. \A k \in 1..3 : Sound(mi.args[k], n)
  BY <1>2, <1>5, SoundMore
<1>7. /\ Sound(div, n) /\ div.kind = "register" /\ Narrow(div)
      /\ Sound(mul, n) /\ mul.kind = "register" /\ Narrow(mul)
  <2>1. n \in Nat /\ nextVReg \in 1..(n - 1) /\ nextVReg + 1 \in 1..(n - 1)
    BY <1>2
  <2> QED BY <2>1, SoundReg DEF Narrow
<1>8. op \in {"DIV", "DIVU"}
  OBVIOUS
<1> HIDE DEF n, div, mul, op
<1>9. ASSUME NEW a, NEW b, Narrow(a), Narrow(b) PROVE SameSize(a, b)
  BY <1>9 DEF Narrow, SameSize
<1>10. Good(new[1], n) /\ new[1].op # "BRANCH"
  BY <1>4, <1>6, <1>7, <1>8, <1>9, NewArithmetic DEF ThreeOperandOps
<1>11. Good(new[2], n) /\ new[2].op # "BRANCH"
  BY <1>4, <1>6, <1>7, <1>9, NewArithmetic DEF ThreeOperandOps
<1>12. Good(new[3], n) /\ new[3].op # "BRANCH"
  BY <1>4, <1>6, <1>7, <1>9, NewArithmetic DEF ThreeOperandOps
<1>13. Fitting(new, n)
  BY <1>10, <1>11, <1>12, ThreeFit
<1> HIDE DEF new
<1> QED BY <1>1, <1>13, ExpandKeepsInv DEF n

LEMMA ChangedArithmetic ==
  ASSUME NEW mi, NEW n, Good(mi, n), mi.op \in {"SUB", "MUL", "DIV", "DIVU"},
         NEW k \in {2, 3}, NEW o, Sound(o, n), o.kind = "register", o.size = mi.args[1].size
  PROVE  Good([mi EXCEPT !.args[k] = o], n) /\ [mi EXCEPT !.args[k] = o].op = mi.op
<1> DEFINE to == [mi EXCEPT !.args[k] = o]
<1>1. mi \in Instructions /\ FitsArithmetic(mi) /\ mi.relation = "none"
  BY DEF Good, Fits, ThreeOperandOps
<1>2. Len(mi.args) = 3 /\ DOMAIN mi.args = 1..3 /\ mi.args[1].kind = "register"
  BY <1>1, InstructionParts DEF FitsArithmetic
<1>3. /\ to \in Instructions /\ to.op = mi.op /\ to.relation = mi.relation
      /\ Len(to.args) = Len(mi.args) /\ to.args[k] = o
      /\ \A j \in DOMAIN mi.args \ {k} : to.args[j] = mi.args[j]
  <2>1. k \in DOMAIN mi.args /\ o \in Operands
    BY <1>2 DEF Sound
  <2> QED BY <1>1, <2>1, ChangedOperand
<1> HIDE DEF to
<1>4. DOMAIN to.args = 1..3
  BY <1>2, <1>3, InstructionParts
<1>5. \A j \in 1..3 : Sound(to.args[j], n)
  BY <1>2, <1>3, SoundOperands
<1>6. \A j \in 1..3 \ {k} : to.args[j] = mi.args[j]
  BY <1>2, <1>3
<1>7. Agree(to, {1, 2, 3})
  <2> SUFFICES ASSUME NEW j \in Registers(to)
               PROVE  (to.args[j].size = 64) <=> (mi.args[1].size = 64)
    BY DEF Agree
  <2>1. j \in 1..3 /\ to.args[j].kind = "register"
    BY <1>4 DEF Registers
  <2>2. CASE j = k
    BY <1>3, <2>2
  <2>3. CASE j # k
    <3>1. j \in Registers(mi) /\ 1 \in Registers(mi)
      BY <1>2, <1>6, <2>1, <2>3 DEF Registers
    <3>2. j \in {1, 2, 3}
      BY <2>1
    <3> QED BY <1>1, <1>6, <2>1, <2>3, <3>1, <3>2 DEF FitsArithmetic, Agree
  <2> QED BY <2>2, <2>3
<1>8. to.args[1] = mi.args[1]
  BY <1>6
<1>9. FitsArithmetic(to)
  BY <1>1, <1>2, <1>3, <1>7, <1>8 DEF FitsArithmetic
<1>10. \A j \in DOMAIN to.args :
         IsImmediate(to.args[j]) => to.args[j].id \in Int /\ to.args[j].size = 32
  BY <1>4, <1>5 DEF Sound
<1>11. to.op \in ThreeOperandOps
  BY <1>3 DEF ThreeOperandOps
<1>12. Fits(to)
  BY <1>1, <1>3, <1>9, <1>10, <1>11 DEF Fits
<1>13. InRange(to, n)
  BY <1>4, <1>5 DEF InRange, Registers, Sound
<1> QED BY <1>3, <1>12, <1>13 DEF Good, to

LEMMA KeptByArithmeticInstWithImm ==
  ASSUME LoweringInv, NEW ops, ops \subseteq {"SUB", "MUL", "DIV", "DIVU"}, Illegal(ops),
         NEW k \in {2, 3}, IsImmediate(code[index].args[k]), ExpandArithmeticInstWithImm(k)
  PROVE  LoweringInv'
<1> DEFINE mi == code[index]
           load == Reg(nextVReg, mi.args[k].size)
           operand == Reg(nextVReg, mi.args[1].size)
           new == <<Instr("LOAD_IMM", <<load, mi.args[k]>>), [mi EXCEPT !.args[k] = operand]>>
           n == nextVReg + 1
<1>1. Expand(new, 1)
  BY DEF ExpandArithmeticInstWithImm
<1>2. /\ Good(mi, nextVReg) /\ mi.op \in {"SUB", "MUL", "DIV", "DIVU"}
      /\ nextVReg \in Nat /\ nextVReg >= 1 /\ DOMAIN mi.args = 1..Len(mi.args)
  BY IllegalInstruction
<1>3. FitsArithmetic(mi) /\ Len(mi.args) = 3 /\ mi.args[1].kind = "register"
  BY <1>2 DEF Good, Fits, ThreeOperandOps, FitsArithmetic
<1>4. Sound(mi.args[1], nextVReg) /\ Sound(mi.args[k], nextVReg)
  <2>1. 1 \in DOMAIN mi.args /\ k \in DOMAIN mi.args
    BY <1>2, <1>3
  <2> QED BY <1>2, <2>1, SoundOperands
<1>5. IsImmediate(mi.args[k])
  OBVIOUS
<1>6. n \in Nat /\ nextVReg <= n /\ nextVReg \in 1..(n - 1)
  BY <1>2
<1>7. Good(mi, n)
  BY <1>2, <1>6, MoreRegisters DEF Good
<1> HIDE DEF mi
<1>8. Sound(mi.args[k], n)
  BY <1>2, <1>4, <1>6, SoundMore
<1>9. mi.args[k].size \in {1, 8, 32, 64} /\ mi.args[1].size \in {1, 8, 32, 64}
  BY <1>3, <1>4, <1>5 DEF Sound
<1> HIDE DEF n
<1>10. Sound(load, n) /\ load.kind = "register"
  BY <1>6, <1>9, SoundReg
<1>11. Sound(operand, n) /\ operand.kind = "register" /\ operand.size = mi.args[1].size
  BY <1>6, <1>9, SoundReg
<1> HIDE DEF load, operand
<1>12. /\ Good(Instr("LOAD_IMM", <<load, mi.args[k]>>), n)
       /\ Instr("LOAD_IMM", <<load, mi.args[k]>>).op # "BRANCH"
  BY <1>5, <1>8, <1>10, NewLOAD_IMM
<1>13. Good([mi EXCEPT !.args[k] = operand], n) /\ [mi EXCEPT !.args[k] = operand].op # "BRANCH"
  BY <1>2, <1>7, <1>11, ChangedArithmetic
<1>14. Fitting(new, n)
  BY <1>12, <1>13, TwoFit
<1> HIDE DEF new
<1> QED BY <1>1, <1>14, ExpandKeepsInv DEF n

LEMMA KeptByGLOBAL_ADDRESS ==
  ASSUME LoweringInv, ExpandGLOBAL_ADDRESS
  PROVE  LoweringInv'
<1> DEFINE mi == code[index]
           dest == mi.args[1]
           low == LowPart(mi.args[2].id)
           new == <<[mi EXCEPT !.op = "ADRP"], Instr("ADD", <<dest, dest, low>>)>>
<1>1. Illegal({"GLOBAL_ADDRESS"}) /\ Expand(new, 0)
  BY DEF ExpandGLOBAL_ADDRESS
<1>2. /\ Good(mi, nextVReg) /\ mi.op = "GLOBAL_ADDRESS" /\ nextVReg \in Nat
      /\ DOMAIN mi.args = 1..Len(mi.args)
  BY <1>1, IllegalInstruction
<1>3. FitsGLOBAL_ADDRESS(mi) /\ Len(mi.args) = 2
  BY <1>2 DEF Good, Fits, ThreeOperandOps, FitsGLOBAL_ADDRESS
<1>4. Sound(dest, nextVReg) /\ dest.kind = "register" /\ mi.args[2].id \in Ids
  <2>1. 1 \in DOMAIN mi.args /\ 2 \in DOMAIN mi.args
    BY <1>2, <1>3
  <2> QED BY <1>2, <1>3, <2>1, SoundOperands, OperandParts DEF FitsGLOBAL_ADDRESS, Sound
<1> HIDE DEF mi
<1>5. Sound(low, nextVReg) /\ low.kind # "register"
  BY <1>4 DEF LowPart, Sound, Operands, OperandKinds, IsImmediate
<1> HIDE DEF dest, low
<1>6. Good([mi EXCEPT !.op = "ADRP"], nextVReg) /\ [mi EXCEPT !.op = "ADRP"].op # "BRANCH"
  BY <1>2, NewADRP
<1>7. SameSize(dest, dest) /\ SameSize(dest, low)
  BY <1>5 DEF SameSize
<1>8. /\ Good(Instr("ADD", <<dest, dest, low>>), nextVReg)
      /\ Instr("ADD", <<dest, dest, low>>).op # "BRANCH"
  BY <1>4, <1>5, <1>7, NewArithmetic DEF ThreeOperandOps
<1>9. Fitting(new, nextVReg)
  BY <1>6, <1>8, TwoFit
<1> HIDE DEF new
<1>10. Fitting(new, nextVReg + 0) /\ 0 \in Nat
  BY <1>2, <1>9
<1> QED BY <1>1, <1>10, ExpandKeepsInv

\* An extending load of what was loaded.
LEMMA NewZEXT_LOAD ==
  ASSUME NEW load, NEW zext, NEW n, Good(load, n), load.op = "LOAD", Good(zext, n), zext.op = "ZEXT"
  PROVE  LET mi == Instr("ZEXT_LOAD", <<zext.args[1]>> \o load.args)
         IN Good(mi, n) /\ mi.op = "ZEXT_LOAD"
<1> DEFINE a == zext.args[1]
           args == <<a>> \o load.args
           mi == Instr("ZEXT_LOAD", args)
<1>1. FitsLOAD(load) /\ load \in Instructions /\ FitsExtension(zext) /\ zext \in Instructions
  BY DEF Good, Fits, ThreeOperandOps
<1>2. /\ Len(load.args) = 2 /\ DOMAIN load.args = 1..2 /\ load.args \in Seq(Operands)
      /\ Len(zext.args) = 2 /\ DOMAIN zext.args = 1..2
  BY <1>1, InstructionParts DEF FitsLOAD, FitsExtension
<1>3. Sound(a, n) /\ Sound(load.args[1], n) /\ Sound(load.args[2], n)
  BY <1>2, SoundOperands
<1>4. a.kind = "register" /\ a.size # 64 /\ IsAddress(load.args[2])
  BY <1>1 DEF FitsExtension, FitsLOAD
<1>5. <<a>> \in Seq(Operands) /\ Len(<<a>>) = 1 /\ <<a>>[1] = a
  BY <1>3 DEF Sound
<1> HIDE DEF a
<1>6. /\ args \in Seq(Operands) /\ Len(args) = 3
      /\ args[1] = a /\ args[2] = load.args[1] /\ args[3] = load.args[2]
  <2> DEFINE b == <<a>>
  <2>1. b \in Seq(Operands) /\ Len(b) = 1 /\ b[1] = a
    BY <1>5
  <2> HIDE DEF b
  <2>2. b \o load.args \in Seq(Operands) /\ Len(b \o load.args) = 3
    <3>1. /\ b \o load.args \in Seq(Operands)
          /\ Len(b \o load.args) = Len(b) + Len(load.args)
      BY <1>2, <2>1, ConcatProperties
    <3> QED BY <1>2, <2>1, <3>1
  <2>3. (b \o load.args)[1] = b[1]
    BY <1>2, <2>1, ConcatProperties
  <2>4. (b \o load.args)[2] = load.args[1] /\ (b \o load.args)[3] = load.args[2]
    BY <1>2, <2>1, ConcatProperties
  <2> QED BY <2>1, <2>2, <2>3, <2>4 DEF b
<1> HIDE DEF args
<1>7. DOMAIN args = 1..3
  BY <1>6, LenProperties
<1>8. \A k \in DOMAIN args : Sound(args[k], n)
  BY <1>3, <1>6, <1>7
<1>9. Made(mi, "ZEXT_LOAD", n) /\ mi.args = args
  BY <1>6, <1>8, NewMade DEF GenericOps
<1> HIDE DEF mi
<1>10. FitsZEXT_LOAD(mi)
  BY <1>4, <1>6, <1>9 DEF FitsZEXT_LOAD
<1>11. Fits(mi)
  BY <1>9, <1>10 DEF Fits, Made
<1> QED BY <1>9, <1>11 DEF Good, Made, mi, args, a

LEMMA KeptByZEXT ==
  ASSUME LoweringInv, ExpandZEXT
  PROVE  LoweringInv'
<1> DEFINE n == nextVReg
           k == index - 1
           load == code[k]
           zext == code[index]
           zl == Instr("ZEXT_LOAD", <<zext.args[1]>> \o load.args)
           without == Spliced(code, index, <<>>)
<1>1. /\ pass = "legalize" /\ pass' = "legalize" /\ Illegal({"ZEXT"})
      /\ statement' = statement /\ nextVReg' = nextVReg /\ index' = index
      /\ code' = Spliced(without, k, <<zl>>)
  BY DEF ExpandZEXT, Illegal
<1>2. statement \in Statements /\ n \in 1..MaxVReg /\ Block(code, n, index)
  BY <1>1, LegalizerInv
<1>3. Good(zext, n) /\ zext.op = "ZEXT" /\ n \in Nat /\ index \in DOMAIN code
  BY <1>1, IllegalInstruction
<1>4. index > 1 /\ load.op = "LOAD"
  BY <1>1, <1>3 DEF Illegal, Check
<1>5. code \in Seq(Instructions) /\ DOMAIN code = 1..Len(code) /\ Len(code) \in Nat
  BY <1>2, LenProperties DEF Block
<1>6. index \in Nat /\ k \in Nat /\ k \in DOMAIN code /\ k \in 1..(index - 1) /\ k + 1 = index
  BY <1>3, <1>4, <1>5
<1>7. Good(load, n)
  BY <1>2, <1>5, <1>6, Elements DEF Block, Good
<1>8. Good(zl, n) /\ zl.op = "ZEXT_LOAD"
  BY <1>3, <1>4, <1>7, NewZEXT_LOAD
<1>9. Fitting(<<zl>>, n)
  BY <1>8, OneFits
<1>10. zext.relation = "none" /\ load.relation = "none"
  BY <1>3, <1>4, <1>7 DEF Good, Fits
<1> HIDE DEF zl
<1>11. Block(without, n, index)
  <2>1. Fitting(<<>>, n)
    BY DEF Fitting
  <2>2. index <= index /\ n <= n
    BY <1>3, <1>6
  <2> QED BY <1>2, <1>3, <1>10, <2>1, <2>2, SplicedBlock
<1>12. /\ without \in Seq(Instructions) /\ Len(without) = Len(code) - 1
       /\ without[k] = load
  <2>1. index \in 1..Len(code) /\ <<>> \in Seq(Instructions)
    BY <1>3, <1>5
  <2>2. without \in Seq(Instructions) /\ Len(without) = Len(code) - 1 + Len(<<>>)
    BY <1>5, <2>1, SplicedProperties, Zenon
  <2>3. \A j \in 1..(index - 1) : without[j] = code[j]
    BY <1>5, <2>1, SplicedProperties, Zenon
  <2> HIDE DEF without
  <2> QED BY <1>5, <1>6, <2>2, <2>3
<1> HIDE DEF without
<1>13. k \in DOMAIN without /\ DOMAIN without = 1..Len(without)
  <2>1. DOMAIN without = 1..Len(without)
    BY <1>12, LenProperties
  <2> QED BY <1>3, <1>5, <1>6, <1>12, <2>1
<1>14. Block(without, n, k)
  <2>1. k \in 1..(Len(without) + 1)
    BY <1>5, <1>6, <1>12, <1>13
  <2>2. \A i \in DOMAIN without : i < k => i < index
    BY <1>6, <1>13
  <2> HIDE DEF k
  <2> QED BY <1>11, <2>1, <2>2 DEF Block
<1>15. Block(code', n, k)
  <2>1. k <= k /\ n <= n /\ without[k].relation = "none"
    BY <1>3, <1>6, <1>10, <1>12
  <2> HIDE DEF k
  <2> QED BY <1>1, <1>3, <1>9, <1>13, <1>14, <2>1, SplicedBlock
<1>16. code'[k] = zl /\ Len(code') = Len(without)
  <2>1. k \in 1..Len(without) /\ zl \in Instructions
    BY <1>8, <1>13 DEF Good
  <2> HIDE DEF k
  <2> QED BY <1>1, <1>12, <2>1, SplicedOne
<1>17. Check(code', k)
  BY <1>8, <1>16 DEF Check
<1>18. Block(code', n, index)
  <2>1. index \in 1..(Len(code') + 1)
    BY <1>3, <1>5, <1>6, <1>12, <1>16
  <2>2. \A i \in DOMAIN code' : i < index => i < k \/ i = k
    <3>1. DOMAIN code' = 1..Len(code')
      BY <1>15, LenProperties DEF Block
    <3> QED BY <1>6, <3>1
  <2> HIDE DEF k
  <2> QED BY <1>15, <1>17, <2>1, <2>2 DEF Block
<1> QED BY <1>1, <1>2, <1>18, LegalizerInvNext

LEMMA KeptByKeepLegal ==
  ASSUME LoweringInv, KeepLegal
  PROVE  LoweringInv'
<1>1. /\ pass = "legalize" /\ pass' = "legalize" /\ index <= Len(code) /\ Check(code, index)
      /\ index' = index + 1 /\ statement' = statement /\ code' = code /\ nextVReg' = nextVReg
  BY DEF KeepLegal
<1>2. statement \in Statements /\ nextVReg \in 1..MaxVReg /\ Block(code, nextVReg, index)
  BY <1>1, LegalizerInv
<1>3. Block(code, nextVReg, index + 1)
  <2>1. code \in Seq(Instructions) /\ Len(code) \in Nat /\ DOMAIN code = 1..Len(code)
        /\ index \in 1..(Len(code) + 1)
    BY <1>2, LenProperties DEF Block
  <2>2. index + 1 \in 1..(Len(code) + 1)
    BY <1>1, <2>1
  <2>3. \A i \in DOMAIN code : i < index + 1 => i < index \/ i = index
    BY <2>1
  <2> QED BY <1>1, <1>2, <2>2, <2>3 DEF Block
<1> QED BY <1>1, <1>2, <1>3, LegalizerInvNext

LEMMA KeptBySUB ==
  ASSUME LoweringInv, ExpandSUB
  PROVE  LoweringInv'
<1>1. Illegal({"SUB"}) /\ ExpandArithmeticInstWithImm(2)
  BY DEF ExpandSUB
<1>2. IsImmediate(code[index].args[2])
  BY <1>1 DEF Illegal, Check
<1> QED BY <1>1, <1>2, KeptByArithmeticInstWithImm

LEMMA KeptByMULOrDIV ==
  ASSUME LoweringInv, ExpandMULOrDIV
  PROVE  LoweringInv'
<1>1. Illegal({"MUL", "DIV", "DIVU"}) /\ ExpandArithmeticInstWithImm(3)
  BY DEF ExpandMULOrDIV
<1>2. IsImmediate(code[index].args[3])
  BY <1>1 DEF Illegal, Check
<1> QED BY <1>1, <1>2, KeptByArithmeticInstWithImm

-----------------------------------------------------------------------------
(* The passes behind the legalizer.                                          *)

LEMMA ReplacedElement ==
  ASSUME NEW S, NEW s \in Seq(S), NEW i \in DOMAIN s, NEW e \in S
  PROVE  /\ [s EXCEPT ![i] = e] \in Seq(S) /\ Len([s EXCEPT ![i] = e]) = Len(s)
         /\ DOMAIN [s EXCEPT ![i] = e] = DOMAIN s
         /\ [s EXCEPT ![i] = e][i] = e
         /\ \A j \in DOMAIN s \ {i} : [s EXCEPT ![i] = e][j] = s[j]
<1> DEFINE t == [s EXCEPT ![i] = e]
<1>1. Len(s) \in Nat /\ DOMAIN s = 1..Len(s) /\ s \in [1..Len(s) -> S]
  BY LenProperties
<1>2. /\ t \in [1..Len(s) -> S] /\ t[i] = e
      /\ \A j \in DOMAIN s \ {i} : t[j] = s[j]
  BY <1>1
<1> HIDE DEF t
<1>3. t \in Seq(S) /\ Len(t) = Len(s) /\ DOMAIN t = 1..Len(s)
  BY <1>1, <1>2, SeqDef, LenProperties
<1> QED BY <1>1, <1>2, <1>3 DEF t

LEMMA KeptBySelect ==
  ASSUME LoweringInv, Select
  PROVE  LoweringInv'
<1> DEFINE to == SelectInstruction(code, index)
           n == nextVReg
<1>1. /\ pass = "select" /\ pass' = "select" /\ index <= Len(code)
      /\ code' = [code EXCEPT ![index] = to]
      /\ index' = index + 1 /\ statement' = statement /\ nextVReg' = n
  BY DEF Select
<1>2. /\ code \in Seq(Instructions) /\ Len(code) \in Nat /\ DOMAIN code = 1..Len(code)
      /\ index \in DOMAIN code /\ index \in Nat
  BY <1>1, LenProperties DEF LoweringInv, BlockInv
<1>3. \A i \in DOMAIN code :
        /\ InRange(code[i], n) /\ AfterCompare(code, i)
        /\ i < index => Selects(code[i])
        /\ ~(i < index) => Fits(code[i]) /\ Check(code, i)
  BY <1>1 DEF LoweringInv, BlockInv, PassInv
<1>4. StandsFor(code[index], to, n)
  <2>1. Fits(code[index]) /\ Check(code, index)
    BY <1>2, <1>3
  <2> QED BY <1>2, <1>3, <2>1, Selection
<1> HIDE DEF to
<1>5. /\ to \in Instructions /\ to.op \in TargetOps /\ to.relation = code[index].relation
      /\ InRange(to, n) /\ Selects(to)
  BY <1>4 DEF StandsFor
<1>6. /\ code' \in Seq(Instructions) /\ Len(code') = Len(code) /\ DOMAIN code' = DOMAIN code
      /\ code'[index] = to
      /\ \A j \in DOMAIN code \ {index} : code'[j] = code[j]
  BY <1>1, <1>2, <1>5, ReplacedElement
<1>7. to.op \notin GenericOps
  BY <1>5, OpsDisjoint
<1>8. ASSUME NEW i \in DOMAIN code
      PROVE  /\ InRange(code'[i], n) /\ AfterCompare(code', i)
             /\ i < index + 1 => Selects(code'[i])
             /\ ~(i < index + 1) => Fits(code'[i]) /\ Check(code', i)
  <2>1. i \in Nat /\ i >= 1
    BY <1>2
  <2>2. CASE i = index
    <3>1. InRange(code'[i], n) /\ Selects(code'[i]) /\ code'[i].op # "BRANCH"
      BY <1>5, <1>6, <1>7, <2>2 DEF GenericOps
    <3> QED BY <1>2, <2>2, <3>1 DEF AfterCompare
  <2>3. CASE i # index
    <3>1. code'[i] = code[i]
      BY <1>6, <2>3
    <3>2. i > 1 => code'[i - 1].relation = code[i - 1].relation
      <4>1. i > 1 => i - 1 \in DOMAIN code
        BY <1>2, <2>1
      <4>2. CASE i - 1 = index
        BY <1>5, <1>6, <4>2
      <4>3. CASE i - 1 # index
        BY <1>6, <4>1, <4>3
      <4> QED BY <4>2, <4>3
    <3>3. AfterCompare(code', i)
      BY <1>3, <3>1, <3>2 DEF AfterCompare
    <3>4. ASSUME ~(i < index + 1) PROVE Fits(code'[i]) /\ Check(code', i)
      <4>1. ~(i < index) /\ i > 1 /\ i - 1 \in DOMAIN code
        BY <1>2, <2>1, <2>3, <3>4
      <4>2. Fits(code[i]) /\ Check(code, i)
        BY <1>3, <4>1
      <4>3. code'[i - 1].op = "LOAD" => code[i - 1].op = "LOAD"
        <5>1. CASE i - 1 = index
          BY <1>6, <1>7, <5>1 DEF GenericOps
        <5>2. CASE i - 1 # index
          BY <1>6, <4>1, <5>2
        <5> QED BY <5>1, <5>2
      <4>4. Check(code', i)
        BY <3>1, <4>2, <4>3 DEF Check
      <4> QED BY <3>1, <4>2, <4>4
    <3>5. i < index + 1 => i < index
      BY <1>2, <2>1, <2>3
    <3> QED BY <1>3, <3>1, <3>3, <3>4, <3>5
  <2> QED BY <2>2, <2>3
<1>9. index' \in 1..(Len(code') + 1)
  BY <1>1, <1>2, <1>6
<1>10. BlockInv'
  BY <1>1, <1>6, <1>8 DEF BlockInv
<1>11. PassInv'
  BY <1>1, <1>6, <1>8 DEF PassInv
<1> QED BY <1>1, <1>9, <1>10, <1>11 DEF LoweringInv, Passes

LEMMA FixedInstruction ==
  ASSUME NEW mi \in Instructions, NEW n, InRange(mi, n)
  PROVE  FixMOV(mi) \in Instructions /\ InRange(FixMOV(mi), n)
<1>1. CASE FixMOV(mi) = mi
  BY <1>1
<1>2. CASE FixMOV(mi) = [mi EXCEPT !.args[2].size = 32]
  <2> DEFINE o == [mi.args[2] EXCEPT !.size = 32]
             args == [mi.args EXCEPT ![2] = o]
             to == [mi EXCEPT !.args = args]
  <2>1. [mi EXCEPT !.args[2].size = 32] = to
    <3>1. [mi EXCEPT !.args[2].size = 32] = [mi EXCEPT !.args[2] = [@ EXCEPT !.size = 32]]
      OBVIOUS
    <3>2. [mi EXCEPT !.args[2] = [@ EXCEPT !.size = 32]] = [mi EXCEPT !.args[2] = o]
      OBVIOUS
    <3>3. [mi EXCEPT !.args[2] = o] = to
      OBVIOUS
    <3> QED BY <3>1, <3>2, <3>3
  <2>2. /\ mi.args \in Seq(Operands) /\ Len(mi.args) \in Nat /\ DOMAIN mi.args = 1..Len(mi.args)
        /\ mi.args \in [1..Len(mi.args) -> Operands]
    BY InstructionParts
  <2>3. 2 \in DOMAIN mi.args => /\ o \in Operands /\ o.kind = mi.args[2].kind
                                /\ o.id = mi.args[2].id /\ o.size = 32
    BY <2>2 DEF Operands
  <2> HIDE DEF o
  <2>4. /\ args \in Seq(Operands) /\ DOMAIN args = DOMAIN mi.args
        /\ \A j \in DOMAIN mi.args :
             /\ args[j].kind = mi.args[j].kind /\ args[j].id = mi.args[j].id
             /\ args[j].size \in {mi.args[j].size, 32}
    <3>1. CASE 2 \in DOMAIN mi.args
      <4>1. /\ args \in Seq(Operands) /\ DOMAIN args = DOMAIN mi.args /\ args[2] = o
            /\ \A j \in DOMAIN mi.args \ {2} : args[j] = mi.args[j]
        BY <2>2, <2>3, <3>1, ReplacedElement
      <4> HIDE DEF args
      <4> QED BY <2>3, <4>1
    <3>2. CASE 2 \notin DOMAIN mi.args
      <4>1. args = mi.args
        BY <2>2, <3>2
      <4> HIDE DEF args
      <4> QED BY <2>2, <4>1
    <3> QED BY <3>1, <3>2
  <2> HIDE DEF args
  <2>5. to \in Instructions /\ to.args = args
    BY <2>4, ChangedArgs
  <2> HIDE DEF to
  <2>6. InRange(to, n)
    BY <2>4, <2>5 DEF InRange, Registers
  <2> QED BY <1>2, <2>1, <2>5, <2>6
<1> QED BY <1>1, <1>2 DEF FixMOV

LEMMA KeptByFix ==
  ASSUME LoweringInv, Fix
  PROVE  LoweringInv'
<1> DEFINE to == FixMOV(code[index])
           n == nextVReg
<1>1. /\ pass = "fix" /\ pass' = "fix" /\ index <= Len(code)
      /\ code' = [code EXCEPT ![index] = to]
      /\ index' = index + 1 /\ statement' = statement /\ nextVReg' = n
  BY DEF Fix
<1>2. /\ code \in Seq(Instructions) /\ Len(code) \in Nat /\ DOMAIN code = 1..Len(code)
      /\ index \in DOMAIN code /\ index \in Nat
  BY <1>1, LenProperties DEF LoweringInv, BlockInv
<1>3. \A i \in DOMAIN code :
        /\ InRange(code[i], n)
        /\ i < index => Assembles(code[i])
        /\ ~(i < index) => Selects(code[i])
  BY <1>1 DEF LoweringInv, BlockInv, PassInv
<1>4. to \in Instructions /\ InRange(to, n)
  BY <1>2, <1>3, Elements, FixedInstruction
<1>5. Assembles(to)
  BY <1>2, <1>3 DEF Selects
<1> HIDE DEF to
<1>6. /\ code' \in Seq(Instructions) /\ Len(code') = Len(code) /\ DOMAIN code' = DOMAIN code
      /\ code'[index] = to
      /\ \A j \in DOMAIN code \ {index} : code'[j] = code[j]
  BY <1>1, <1>2, <1>4, ReplacedElement
<1>7. ASSUME NEW i \in DOMAIN code
      PROVE  /\ InRange(code'[i], n)
             /\ i < index + 1 => Assembles(code'[i])
             /\ ~(i < index + 1) => Selects(code'[i])
  <2>1. i \in Nat
    BY <1>2
  <2>2. CASE i = index
    BY <1>2, <1>4, <1>5, <1>6, <2>2
  <2>3. CASE i # index
    <3>1. code'[i] = code[i]
      BY <1>6, <2>3
    <3>2. (i < index + 1) <=> (i < index)
      BY <1>2, <2>1, <2>3
    <3> QED BY <1>3, <3>1, <3>2
  <2> QED BY <2>2, <2>3
<1>8. index' \in 1..(Len(code') + 1)
  BY <1>1, <1>2, <1>6
<1>9. BlockInv'
  BY <1>1, <1>6, <1>7 DEF BlockInv
<1>10. PassInv'
  BY <1>1, <1>6, <1>7 DEF PassInv
<1> QED BY <1>1, <1>8, <1>9, <1>10 DEF LoweringInv, Passes

LEMMA KeptByNextPass ==
  ASSUME LoweringInv, NextPass
  PROVE  LoweringInv'
<1>1. /\ pass # "done" /\ index > Len(code) /\ index' = 1
      /\ pass' = [legalize |-> "select", select |-> "fix", fix |-> "done"][pass]
      /\ statement' = statement /\ code' = code /\ nextVReg' = nextVReg
  BY DEF NextPass
<1>2. /\ code \in Seq(Instructions) /\ Len(code) \in Nat /\ DOMAIN code = 1..Len(code)
      /\ index \in 1..(Len(code) + 1)
  BY LenProperties DEF LoweringInv, BlockInv
<1>3. \A i \in DOMAIN code : i < index /\ ~(i < index')
  BY <1>1, <1>2
<1>4. index' \in 1..(Len(code') + 1)
  BY <1>1, <1>2
<1>5. CASE pass = "legalize"
  <2>1. pass' = "select"
    BY <1>1, <1>5
  <2>2. BlockInv'
    BY <1>1, <1>5 DEF LoweringInv, BlockInv
  <2>3. \A i \in DOMAIN code : Fits(code[i]) /\ Check(code, i)
    BY <1>3, <1>5 DEF LoweringInv, PassInv
  <2>4. PassInv'
    BY <1>1, <1>3, <2>1, <2>3 DEF PassInv
  <2> QED BY <1>1, <1>4, <2>1, <2>2, <2>4 DEF LoweringInv, Passes
<1>6. CASE pass = "select"
  <2>1. pass' = "fix"
    BY <1>1, <1>6
  <2>2. BlockInv'
    BY <1>1, <2>1 DEF LoweringInv, BlockInv
  <2>3. \A i \in DOMAIN code : Selects(code[i])
    BY <1>3, <1>6 DEF LoweringInv, PassInv
  <2>4. PassInv'
    BY <1>1, <1>3, <2>1, <2>3 DEF PassInv
  <2> QED BY <1>1, <1>4, <2>1, <2>2, <2>4 DEF LoweringInv, Passes
<1>7. CASE pass = "fix"
  <2>1. pass' = "done"
    BY <1>1, <1>7
  <2>2. BlockInv'
    BY <1>1, <2>1 DEF LoweringInv, BlockInv
  <2>3. \A i \in DOMAIN code : Assembles(code[i])
    BY <1>3, <1>7 DEF LoweringInv, PassInv
  <2>4. PassInv'
    BY <1>1, <2>1, <2>3 DEF PassInv
  <2> QED BY <1>1, <1>4, <2>1, <2>2, <2>4 DEF LoweringInv, Passes
<1> QED BY <1>1, <1>5, <1>6, <1>7 DEF LoweringInv, Passes

LEMMA LoweringNext == LoweringInv /\ [Next]_vars => LoweringInv'
<1> SUFFICES ASSUME LoweringInv, [Next]_vars
             PROVE  LoweringInv'
  OBVIOUS
<1>1. CASE UNCHANGED vars
  BY <1>1 DEF vars, LoweringInv, BlockInv, PassInv, AfterCompare, Check
<1>2. CASE Next
  BY <1>2, KeptByMOD, KeptBySTOREOfZero, KeptBySTORE, KeptBySUB, KeptByMULOrDIV, KeptByZEXT,
     KeptByGLOBAL_ADDRESS, KeptByKeepLegal, KeptBySelect, KeptByFix, KeptByNextPass DEF Next
<1> QED BY <1>1, <1>2

-----------------------------------------------------------------------------
(* Code generation: the types.                                               *)

AllTypes == {"Char", "UnsignedChar", "Int", "UnsignedInt", "Long"}

LEMMA TypesAreAll == {Types[i] : i \in DOMAIN Types} = AllTypes
<1>1. DOMAIN Types = 1..5
  BY DEF Types
<1>2. /\ Types[1] = "Char" /\ Types[2] = "UnsignedChar" /\ Types[3] = "Int"
      /\ Types[4] = "UnsignedInt" /\ Types[5] = "Long"
  BY DEF Types
<1>3. 1..5 = {1, 2, 3, 4, 5}
  OBVIOUS
<1> QED BY <1>1, <1>2, <1>3 DEF AllTypes

LEMMA Ranks ==
  Rank("Long") = 5 /\ \A t \in AllTypes \ {"Long"} : Rank(t) \in 1..4
<1>1. DOMAIN Types = 1..5
  BY DEF Types
<1>2. /\ Types[1] = "Char" /\ Types[2] = "UnsignedChar" /\ Types[3] = "Int"
      /\ Types[4] = "UnsignedInt" /\ Types[5] = "Long"
  BY DEF Types
<1>3. ASSUME NEW t \in AllTypes
      PROVE  Rank(t) \in 1..5 /\ Types[Rank(t)] = t
  <2>1. \E i \in DOMAIN Types : Types[i] = t
    BY <1>1, <1>2 DEF AllTypes
  <2> QED BY <1>1, <2>1 DEF Rank
<1>4. Rank("Long") = 5
  <2>1. Rank("Long") \in 1..5 /\ Types[Rank("Long")] = "Long"
    BY <1>3 DEF AllTypes
  <2> QED BY <1>2, <2>1
<1>5. ASSUME NEW t \in AllTypes \ {"Long"}
      PROVE  Rank(t) \in 1..4
  <2>1. Rank(t) \in 1..5 /\ Rank(t) # 5
    BY <1>2, <1>3
  <2> QED BY <2>1
<1> QED BY <1>4, <1>5

\* The stronger type of two is the long one if there is one.
LEMMA Strongest ==
  ASSUME NEW t \in AllTypes, NEW u \in AllTypes
  PROVE  /\ GetStrongestType(t, u) \in {t, u}
         /\ (GetStrongestType(t, u) = "Long") <=> (t = "Long" \/ u = "Long")
<1>1. CASE t = "Long"
  BY <1>1, Ranks DEF GetStrongestType
<1>2. CASE t # "Long"
  <2>1. CASE u = "Long"
    BY <1>2, <2>1, Ranks DEF GetStrongestType
  <2>2. CASE u # "Long"
    BY <1>2, <2>2 DEF GetStrongestType
  <2> QED BY <2>1, <2>2
<1> QED BY <1>1, <1>2

LEMMA Sizes ==
  \A t \in AllTypes : TypeSize[t] \in {8, 32, 64} /\ (TypeSize[t] = 64 <=> t = "Long")
BY DEF AllTypes, TypeSize

LEMMA VariableTypes ==
  ASSUME NEW v \in Variables
  PROVE  TypeOf[v] \in AllTypes /\ SizeOf[v] = TypeSize[TypeOf[v]] /\ SizeOf[v] \in {8, 32, 64}
BY StatementAssumption, ExpressionAssumption, MachineCodeAssumption, TypesAreAll DEF Variables

-----------------------------------------------------------------------------
(* Code generation: what is emitted.                                         *)

Emission(e) ==
  /\ e = [code |-> e.code, next |-> e.next, value |-> e.value]
  /\ e.code \in Seq(Instructions) /\ e.next \in Nat \ {0}
  /\ \A i \in DOMAIN e.code : Good(e.code[i], e.next) /\ e.code[i].op # "BRANCH"

\* f comes behind e; at most k registers are taken.
Behind(e, f, k) == Emission(f) /\ f.next \in e.next..(e.next + k)

\* A value of the type: only that of a long takes 64 bits.
Typed(o, t) == o.kind \in {"register", "immediate"} /\ ((o.size = 64) <=> (t = "Long"))

Valued(e, t) == Sound(e.value, e.next) /\ Typed(e.value, t)

LEMMA GoodMore ==
  ASSUME NEW mi, NEW n \in Nat, NEW m \in Nat, n <= m, Good(mi, n)
  PROVE  Good(mi, m)
BY MoreRegisters DEF Good

LEMMA EmissionParts ==
  ASSUME NEW c \in Seq(Instructions), NEW n \in Nat \ {0}, NEW v,
         \A i \in DOMAIN c : Good(c[i], n) /\ c[i].op # "BRANCH"
  PROVE  Emission([code |-> c, next |-> n, value |-> v])
BY DEF Emission

LEMMA Appended ==
  ASSUME NEW e, Emission(e), NEW mi, NEW n \in Nat \ {0}, e.next <= n,
         Good(mi, n), mi.op # "BRANCH", NEW v
  PROVE  Emission([code |-> Append(e.code, mi), next |-> n, value |-> v])
<1> DEFINE c == Append(e.code, mi)
<1>1. e.code \in Seq(Instructions) /\ mi \in Instructions /\ e.next \in Nat
  BY DEF Emission, Good
<1>2. /\ c \in Seq(Instructions) /\ DOMAIN c = 1..(Len(e.code) + 1)
      /\ \A j \in 1..Len(e.code) : c[j] = e.code[j]
      /\ c[Len(e.code) + 1] = mi
  BY <1>1, PushBackProperties
<1>3. Len(e.code) \in Nat /\ DOMAIN e.code = 1..Len(e.code)
  BY <1>1, LenProperties
<1> HIDE DEF c
<1>4. ASSUME NEW i \in DOMAIN c PROVE Good(c[i], n) /\ c[i].op # "BRANCH"
  <2>1. CASE i = Len(e.code) + 1
    BY <1>2, <2>1
  <2>2. CASE i # Len(e.code) + 1
    <3>1. i \in DOMAIN e.code /\ c[i] = e.code[i]
      BY <1>2, <1>3, <2>2
    <3>2. Good(e.code[i], e.next) /\ e.code[i].op # "BRANCH"
      BY <3>1 DEF Emission
    <3> QED BY <1>1, <3>1, <3>2, GoodMore
  <2> QED BY <2>1, <2>2
<1> QED BY <1>2, <1>4, EmissionParts DEF c

LEMMA EmitKeeps ==
  ASSUME NEW e, Emission(e), NEW mi, Good(mi, e.next), mi.op # "BRANCH"
  PROVE  Behind(e, Emit(e, mi), 0) /\ Emit(e, mi).value = e.value /\ Emit(e, mi).next = e.next
<1>1. e = [code |-> e.code, next |-> e.next, value |-> e.value] /\ e.next \in Nat \ {0}
  BY DEF Emission
<1>2. Emit(e, mi) = [code |-> Append(e.code, mi), next |-> e.next, value |-> e.value]
  BY <1>1 DEF Emit
<1>3. Emission([code |-> Append(e.code, mi), next |-> e.next, value |-> e.value])
  BY <1>1, Appended
<1> QED BY <1>1, <1>2, <1>3 DEF Behind

\* A value with the next number.
LEMMA EmitValueKeeps ==
  ASSUME NEW e, Emission(e), NEW op, NEW size \in {1, 8, 32, 64}, NEW operands,
         LET mi == Instr(op, <<Reg(e.next, size)>> \o operands)
         IN Good(mi, e.next + 1) /\ mi.op # "BRANCH"
  PROVE  LET f == EmitValue(e, op, size, operands)
         IN /\ Behind(e, f, 1) /\ f.value = Reg(e.next, size) /\ f.next = e.next + 1
            /\ Sound(f.value, f.next)
<1> DEFINE mi == Instr(op, <<Reg(e.next, size)>> \o operands)
           f == EmitValue(e, op, size, operands)
           r == Reg(e.next, size)
<1>1. e.next \in Nat \ {0} /\ e.next + 1 \in Nat \ {0} /\ e.next <= e.next + 1
  BY DEF Emission
<1>2. Good(mi, e.next + 1) /\ mi.op # "BRANCH"
  OBVIOUS
<1>3. f = [code |-> Append(e.code, mi), next |-> e.next + 1, value |-> r]
  BY DEF EmitValue
<1>4. Sound(r, e.next + 1)
  <2>1. e.next \in 1..(e.next + 1 - 1)
    BY <1>1
  <2> QED BY <1>1, <2>1, SoundReg
<1> HIDE DEF mi, f, r
<1>5. Emission([code |-> Append(e.code, mi), next |-> e.next + 1, value |-> r])
  BY <1>1, <1>2, Appended
<1>6. f.value = r /\ f.next = e.next + 1
  BY <1>3
<1> QED BY <1>1, <1>3, <1>4, <1>5, <1>6 DEF Behind, f, r

LEMMA Concatenated ==
  ASSUME NEW S, NEW a \in S, NEW b \in S, NEW c \in S
  PROVE  <<a>> \o <<b>> = <<a, b>> /\ <<a>> \o <<b, c>> = <<a, b, c>>
<1>1. ASSUME NEW s \in Seq(S), Len(s) = 1, s[1] = a,
             NEW t \in Seq(S), NEW u \in Seq(S), Len(u) = 1 + Len(t), u[1] = a,
             \A i \in 2..Len(u) : u[i] = t[i - 1]
      PROVE  s \o t = u
  <2>1. /\ s \o t \in Seq(S) /\ Len(s \o t) = Len(s) + Len(t) /\ Len(t) \in Nat
        /\ \A i \in 1..(Len(s) + Len(t)) :
              (s \o t)[i] = IF i <= Len(s) THEN s[i] ELSE t[i - Len(s)]
    BY ConcatProperties, LenProperties
  <2>2. \A i \in 1..Len(u) : (s \o t)[i] = u[i]
    BY <1>1, <2>1
  <2>3. Len(s \o t) = Len(u)
    BY <1>1, <2>1
  <2> HIDE <1>1
  <2> QED BY <2>1, <2>2, <2>3, SeqEqual
<1>2. <<a>> \in Seq(S) /\ Len(<<a>>) = 1 /\ <<a>>[1] = a
  OBVIOUS
<1>3. /\ <<b>> \in Seq(S) /\ <<a, b>> \in Seq(S)
      /\ Len(<<a, b>>) = 1 + Len(<<b>>) /\ <<a, b>>[1] = a
      /\ \A i \in 2..Len(<<a, b>>) : <<a, b>>[i] = <<b>>[i - 1]
  OBVIOUS
<1>4. /\ <<b, c>> \in Seq(S) /\ <<a, b, c>> \in Seq(S)
      /\ Len(<<a, b, c>>) = 1 + Len(<<b, c>>) /\ <<a, b, c>>[1] = a
      /\ \A i \in 2..Len(<<a, b, c>>) : <<a, b, c>>[i] = <<b, c>>[i - 1]
  OBVIOUS
<1>5. <<a>> \o <<b>> = <<a, b>>
  BY <1>1, <1>2, <1>3, Zenon
<1>6. <<a>> \o <<b, c>> = <<a, b, c>>
  BY <1>1, <1>2, <1>4, Zenon
<1> QED BY <1>5, <1>6

LEMMA Concatenated2 ==
  ASSUME NEW S, NEW a \in S, NEW b \in S
  PROVE  <<a>> \o <<b>> = <<a, b>>
BY Concatenated

LEMMA Concatenated3 ==
  ASSUME NEW S, NEW a \in S, NEW b \in S, NEW c \in S
  PROVE  <<a>> \o <<b, c>> = <<a, b, c>>
BY Concatenated

LEMMA SoundMem ==
  ASSUME NEW k \in Nat, NEW n
  PROVE  Sound(Mem(k), n) /\ Mem(k).kind = "memory"
<1>1. k \in Ids
  BY DEF Ids
<1>2. Mem(k) \in Operands /\ Mem(k).kind = "memory"
  BY <1>1 DEF Mem, Operands, OperandKinds
<1> QED BY <1>2 DEF Sound, IsImmediate

LEMMA NewGLOBAL_ADDRESS ==
  ASSUME NEW n, NEW a, NEW b, Sound(a, n), Sound(b, n), a.kind = "register", b.kind = "symbol"
  PROVE  /\ Good(Instr("GLOBAL_ADDRESS", <<a, b>>), n)
         /\ Instr("GLOBAL_ADDRESS", <<a, b>>).op # "BRANCH"
<1> DEFINE mi == Instr("GLOBAL_ADDRESS", <<a, b>>)
<1>1. MadeOf2(mi, "GLOBAL_ADDRESS", a, b, n)
  BY NewMadeOf2 DEF GenericOps
<1> HIDE DEF mi
<1>2. Fits(mi)
  BY <1>1 DEF MadeOf2, Made, Fits, FitsGLOBAL_ADDRESS
<1> QED BY <1>1, <1>2 DEF MadeOf2, Made, Good, mi

LEMMA NewLOAD ==
  ASSUME NEW n, NEW a, NEW b, Sound(a, n), Sound(b, n), a.kind = "register", IsAddress(b),
         IsByte(b) => a.size # 64
  PROVE  Good(Instr("LOAD", <<a, b>>), n) /\ Instr("LOAD", <<a, b>>).op # "BRANCH"
<1> DEFINE mi == Instr("LOAD", <<a, b>>)
<1>1. MadeOf2(mi, "LOAD", a, b, n)
  BY NewMadeOf2 DEF GenericOps
<1> HIDE DEF mi
<1>2. Fits(mi)
  BY <1>1 DEF MadeOf2, Made, Fits, FitsLOAD
<1> QED BY <1>1, <1>2 DEF MadeOf2, Made, Good, mi

LEMMA NewExtension ==
  ASSUME NEW n, NEW op \in {"SEXT", "ZEXT"}, NEW a, NEW b, Sound(a, n), Sound(b, n),
         a.kind = "register", op = "ZEXT" => a.size # 64
  PROVE  Good(Instr(op, <<a, b>>), n) /\ Instr(op, <<a, b>>).op # "BRANCH"
<1> DEFINE mi == Instr(op, <<a, b>>)
<1>1. MadeOf2(mi, op, a, b, n)
  BY NewMadeOf2 DEF GenericOps
<1> HIDE DEF mi
<1>2. Fits(mi)
  BY <1>1 DEF MadeOf2, Made, Fits, FitsExtension
<1> QED BY <1>1, <1>2 DEF MadeOf2, Made, Good, mi

LEMMA NewTRUNC ==
  ASSUME NEW n, NEW a, NEW b, Sound(a, n), Sound(b, n), a.kind = "register",
         a.size \in {8, 32}, a.size = 8 => Narrow(b)
  PROVE  Good(Instr("TRUNC", <<a, b>>), n) /\ Instr("TRUNC", <<a, b>>).op # "BRANCH"
<1> DEFINE mi == Instr("TRUNC", <<a, b>>)
<1>1. MadeOf2(mi, "TRUNC", a, b, n)
  BY NewMadeOf2 DEF GenericOps
<1> HIDE DEF mi
<1>2. Fits(mi)
  BY <1>1 DEF MadeOf2, Made, Fits, FitsTRUNC
<1> QED BY <1>1, <1>2 DEF MadeOf2, Made, Good, mi

\* A comparison, of that relation.
LEMMA NewCMP ==
  ASSUME NEW n, NEW r \in Relations, NEW a, NEW b, NEW c, Sound(a, n), Sound(b, n), Sound(c, n),
         SameSize(b, c)
  PROVE  Good(Compare(r, <<a, b, c>>), n) /\ Compare(r, <<a, b, c>>).op = "CMP"
<1> DEFINE args == <<a, b, c>>
           mi == Compare(r, args)
<1>1. /\ args \in Seq(Operands) /\ Len(args) = 3 /\ DOMAIN args = {1, 2, 3}
      /\ args[1] = a /\ args[2] = b /\ args[3] = c
      /\ \A k \in DOMAIN args : Sound(args[k], n)
  BY DEF Sound
<1> HIDE DEF args
<1>2. mi = [op |-> "CMP", args |-> args, relation |-> r]
  BY DEF Compare
<1>3. mi \in Instructions
  BY <1>1, <1>2 DEF Instructions, GenericOps
<1>4. mi.op = "CMP" /\ mi.args = args /\ mi.relation = r
  BY <1>2
<1> HIDE DEF mi
<1>5. FitsCMP(mi)
  BY <1>1, <1>4 DEF FitsCMP, Agree, Registers, SameSize
<1>6. \A k \in DOMAIN mi.args :
        IsImmediate(mi.args[k]) => mi.args[k].id \in Int /\ mi.args[k].size = 32
  BY <1>1, <1>4 DEF Sound
<1>7. Fits(mi)
  BY <1>4, <1>5, <1>6 DEF Fits
<1>8. InRange(mi, n)
  BY <1>1, <1>4 DEF InRange, Registers, Sound
<1> QED BY <1>3, <1>4, <1>7, <1>8 DEF Good, mi, args

\* The condition inverted.
LEMMA Inverted ==
  ASSUME NEW mi, NEW n, Good(mi, n), mi.op = "CMP", NEW r \in Relations
  PROVE  LET to == [mi EXCEPT !.relation = r]
         IN Good(to, n) /\ to.relation = r /\ to.op = "CMP"
<1> DEFINE to == [mi EXCEPT !.relation = r]
<1>1. /\ mi \in Instructions /\ InRange(mi, n) /\ FitsCMP(mi)
      /\ \A k \in DOMAIN mi.args :
           IsImmediate(mi.args[k]) => mi.args[k].id \in Int /\ mi.args[k].size = 32
  BY DEF Good, Fits, ThreeOperandOps
<1>2. to = [op |-> "CMP", args |-> mi.args, relation |-> r]
  BY <1>1, InstructionParts
<1>3. to \in Instructions
  BY <1>1, <1>2, InstructionParts DEF Instructions, GenericOps
<1>4. to.op = "CMP" /\ to.args = mi.args /\ to.relation = r
  BY <1>2
<1> HIDE DEF to
<1>5. FitsCMP(to) /\ InRange(to, n)
  BY <1>1, <1>4 DEF FitsCMP, Agree, InRange, Registers
<1>6. Fits(to)
  BY <1>1, <1>4, <1>5 DEF Fits
<1> QED BY <1>3, <1>4, <1>5, <1>6 DEF Good, to

LEMMA NewBRANCH ==
  ASSUME NEW n, NEW a, NEW b, Sound(a, n), Sound(b, n), b.kind = "label"
  PROVE  Good(Instr("BRANCH", <<a, b>>), n) /\ Instr("BRANCH", <<a, b>>).op = "BRANCH"
<1> DEFINE mi == Instr("BRANCH", <<a, b>>)
<1>1. MadeOf2(mi, "BRANCH", a, b, n)
  BY NewMadeOf2 DEF GenericOps
<1> HIDE DEF mi
<1>2. Fits(mi)
  BY <1>1 DEF MadeOf2, Made, Fits, FitsBRANCH
<1> QED BY <1>1, <1>2 DEF MadeOf2, Made, Good, mi

-----------------------------------------------------------------------------
(* Code generation: addresses, operands and casts.                           *)

\* A value of one operand.
LEMMA EmitUnary ==
  ASSUME NEW e, Emission(e), NEW op, NEW size \in {1, 8, 32, 64}, NEW o, o \in Operands,
         LET mi == Instr(op, <<Reg(e.next, size), o>>)
         IN Good(mi, e.next + 1) /\ mi.op # "BRANCH"
  PROVE  LET f == EmitValue(e, op, size, <<o>>)
         IN /\ Behind(e, f, 1) /\ f.value = Reg(e.next, size) /\ f.next = e.next + 1
            /\ Sound(f.value, f.next)
<1>1. Reg(e.next, size) \in Operands
  <2>1. e.next \in Ids
    BY DEF Emission, Ids
  <2> QED BY <2>1 DEF Reg, Operands, OperandKinds
<1>2. <<Reg(e.next, size)>> \o <<o>> = <<Reg(e.next, size), o>>
  BY <1>1, Concatenated2
<1> DEFINE args == <<Reg(e.next, size)>> \o <<o>>
<1>3. Good(Instr(op, args), e.next + 1) /\ Instr(op, args).op # "BRANCH"
  BY <1>2, Zenon
<1> QED BY <1>3, EmitValueKeeps, Zenon

\* A value of two operands.
LEMMA EmitBinary ==
  ASSUME NEW e, Emission(e), NEW op, NEW size \in {1, 8, 32, 64}, NEW o \in Operands,
         NEW p \in Operands,
         LET mi == Instr(op, <<Reg(e.next, size), o, p>>)
         IN Good(mi, e.next + 1) /\ mi.op # "BRANCH"
  PROVE  LET f == EmitValue(e, op, size, <<o, p>>)
         IN /\ Behind(e, f, 1) /\ f.value = Reg(e.next, size) /\ f.next = e.next + 1
            /\ Sound(f.value, f.next)
<1>1. Reg(e.next, size) \in Operands
  <2>1. e.next \in Ids
    BY DEF Emission, Ids
  <2> QED BY <2>1 DEF Reg, Operands, OperandKinds
<1>2. <<Reg(e.next, size)>> \o <<o, p>> = <<Reg(e.next, size), o, p>>
  BY <1>1, Concatenated3
<1> DEFINE args == <<Reg(e.next, size)>> \o <<o, p>>
<1>3. Good(Instr(op, args), e.next + 1) /\ Instr(op, args).op # "BRANCH"
  BY <1>2, Zenon
<1> QED BY <1>3, EmitValueKeeps, Zenon

\* The register of the next value.
LEMMA NextReg ==
  ASSUME NEW e, Emission(e), NEW size \in {1, 8, 32, 64}
  PROVE  /\ e.next + 1 \in Nat \ {0} /\ e.next <= e.next + 1 /\ e.next \in Nat \ {0}
         /\ Sound(Reg(e.next, size), e.next + 1) /\ Reg(e.next, size).kind = "register"
         /\ Reg(e.next, size).size = size
<1>1. e.next \in Nat \ {0}
  BY DEF Emission
<1>2. e.next + 1 \in Nat \ {0} /\ e.next <= e.next + 1 /\ e.next \in 1..(e.next + 1 - 1)
  BY <1>1
<1> QED BY <1>1, <1>2, SoundReg

\* What is behind what is behind.
LEMMA BehindBehind ==
  ASSUME NEW e, NEW f, NEW g, NEW j \in Nat, NEW k \in Nat,
         Emission(e), Behind(e, f, j), Behind(f, g, k)
  PROVE  Behind(e, g, j + k)
BY DEF Behind, Emission

LEMMA EmitAddressKeeps ==
  ASSUME NEW e, Emission(e), NEW v \in Variables
  PROVE  LET a == EmitAddress(e, v)
         IN /\ Behind(e, a.e, 1) /\ a.e.next \in Nat \ {0}
            /\ Sound(a.address, a.e.next) /\ IsAddress(a.address)
            /\ IsByte(a.address) => SizeOf[v] = 8
<1>1. e.next \in Nat \ {0}
  BY DEF Emission
<1>2. CASE v # Global
  <2>1. EmitAddress(e, v) = [e |-> e, address |-> Slot(v)]
    BY <1>2 DEF EmitAddress
  <2>2. Sound(Slot(v), e.next) /\ Slot(v).kind = "slot" /\ Slot(v).size = SizeOf[v]
    BY SoundVariables
  <2> QED BY <1>1, <2>1, <2>2 DEF Behind, IsAddress, IsByte
<1>3. CASE v = Global
  <2> DEFINE f == EmitValue(e, "GLOBAL_ADDRESS", 64, <<Symbol(v)>>)
  <2>1. EmitAddress(e, v) = [e |-> f, address |-> Mem(e.next)]
    BY <1>3 DEF EmitAddress
  <2>2. Sound(Symbol(v), e.next + 1) /\ Symbol(v).kind = "symbol" /\ Symbol(v) \in Operands
    BY SoundVariables DEF Sound
  <2>3. Behind(e, f, 1) /\ f.next = e.next + 1
    <3>1. LET mi == Instr("GLOBAL_ADDRESS", <<Reg(e.next, 64), Symbol(v)>>)
          IN Good(mi, e.next + 1) /\ mi.op # "BRANCH"
      BY <2>2, NextReg, NewGLOBAL_ADDRESS
    <3> QED BY <2>2, <3>1, EmitUnary
  <2> HIDE DEF f
  <2>4. Sound(Mem(e.next), f.next) /\ Mem(e.next).kind = "memory"
    BY <1>1, SoundMem
  <2> QED BY <1>1, <2>1, <2>3, <2>4 DEF IsAddress, IsByte
<1> QED BY <1>2, <1>3

LEMMA EmitStoreKeeps ==
  ASSUME NEW e, Emission(e), NEW v \in Variables, NEW o, Sound(o, e.next),
         SizeOf[v] = 8 => Narrow(o)
  PROVE  Behind(e, EmitStore(e, v, o), 1)
<1> DEFINE a == EmitAddress(e, v)
           mi == Instr("STORE", <<a.address, o>>)
<1>1. /\ Behind(e, a.e, 1) /\ a.e.next \in Nat \ {0}
      /\ Sound(a.address, a.e.next) /\ IsAddress(a.address)
      /\ IsByte(a.address) => SizeOf[v] = 8
  BY EmitAddressKeeps
<1>2. EmitStore(e, v, o) = Emit(a.e, mi)
  BY DEF EmitStore
<1>3. e.next \in Nat \ {0} /\ Emission(a.e) /\ e.next <= a.e.next
  BY <1>1 DEF Emission, Behind
<1> HIDE DEF a
<1>4. Sound(o, a.e.next)
  BY <1>1, <1>3, SoundMore
<1>5. Good(mi, a.e.next) /\ mi.op # "BRANCH"
  BY <1>1, <1>4, NewSTORE
<1> HIDE DEF mi
<1>6. Behind(a.e, Emit(a.e, mi), 0)
  BY <1>3, <1>5, EmitKeeps
<1>7. Behind(e, Emit(a.e, mi), 1 + 0)
  BY <1>1, <1>6, BehindBehind
<1> QED BY <1>2, <1>7

LEMMA WithValue ==
  ASSUME NEW e, Emission(e), NEW v
  PROVE  LET f == [e EXCEPT !.value = v]
         IN Behind(e, f, 0) /\ f.value = v /\ f.next = e.next
<1>1. e = [code |-> e.code, next |-> e.next, value |-> e.value] /\ e.next \in Nat \ {0}
  BY DEF Emission
<1>2. [e EXCEPT !.value = v] = [code |-> e.code, next |-> e.next, value |-> v]
  BY <1>1
<1>3. Emission([code |-> e.code, next |-> e.next, value |-> v])
  BY EmissionParts DEF Emission
<1> QED BY <1>1, <1>2, <1>3 DEF Behind

LEMMA SoundBehind ==
  ASSUME NEW e, NEW f, NEW k, Emission(e), Behind(e, f, k), NEW o, Sound(o, e.next)
  PROVE  Sound(o, f.next)
<1>1. e.next \in Nat /\ f.next \in Nat /\ e.next <= f.next
  BY DEF Emission, Behind
<1> QED BY <1>1, SoundMore

\* The variable is changed; the value is that of before.
LEMMA EmitPostfixKeeps ==
  ASSUME NEW e, Emission(e), NEW x, x.var \in Variables, Sound(e.value, e.next),
         e.value.kind = "register", e.value.size = SizeOf[x.var]
  PROVE  Behind(e, EmitPostfix(e, x), 2) /\ EmitPostfix(e, x).value = e.value
<1> DEFINE size == SizeOf[x.var]
           op == IF x.postfix = "INCREMENT" THEN "ADD" ELSE "SUB"
           changed == EmitValue(e, op, size, <<e.value, Imm(1)>>)
           stored == EmitStore(changed, x.var, changed.value)
<1>1. EmitPostfix(e, x) = [stored EXCEPT !.value = e.value]
  BY DEF EmitPostfix
<1>2. op \in {"ADD", "SUB"} /\ size \in {8, 32, 64}
  BY VariableTypes
<1>3. /\ Sound(Imm(1), e.next + 1) /\ Imm(1).kind # "register"
      /\ e.value \in Operands /\ Imm(1) \in Operands
  BY SoundConstants DEF Sound
<1>4. Sound(e.value, e.next + 1)
  BY <1>2, NextReg, SoundMore
<1> HIDE DEF op
<1>5. /\ Behind(e, changed, 1) /\ changed.value = Reg(e.next, size)
      /\ Sound(changed.value, changed.next)
  <2> DEFINE r == Reg(e.next, size)
             mi == Instr(op, <<r, e.value, Imm(1)>>)
  <2>1. Sound(r, e.next + 1) /\ r.kind = "register" /\ r.size = size
    BY <1>2, NextReg
  <2>2. SameSize(r, e.value) /\ SameSize(r, Imm(1)) /\ SameSize(e.value, Imm(1))
    BY <1>3, <2>1 DEF SameSize
  <2>3. Good(mi, e.next + 1) /\ mi.op # "BRANCH"
    <3> HIDE DEF r
    <3>1. Good(mi, e.next + 1) /\ mi.op = op
      BY <1>2, <1>3, <1>4, <2>1, <2>2, NewArithmetic DEF ThreeOperandOps
    <3> QED BY <1>2, <3>1
  <2> QED BY <1>2, <1>3, <2>3, EmitBinary
<1> HIDE DEF changed
<1>6. Behind(changed, stored, 1)
  <2>1. Emission(changed)
    BY <1>5 DEF Behind
  <2>2. size = 8 => Narrow(changed.value)
    BY <1>5 DEF Narrow, Reg
  <2> QED BY <1>5, <2>1, <2>2, EmitStoreKeeps
<1>7. Behind(e, stored, 1 + 1)
  BY <1>5, <1>6, BehindBehind
<1> HIDE DEF stored
<1>8. /\ Behind(stored, [stored EXCEPT !.value = e.value], 0)
      /\ [stored EXCEPT !.value = e.value].value = e.value
  BY <1>6, WithValue DEF Behind
<1>9. Behind(e, [stored EXCEPT !.value = e.value], 2 + 0)
  BY <1>7, <1>8, BehindBehind
<1> QED BY <1>1, <1>8, <1>9

LEMMA OperandTypeKnown ==
  ASSUME NEW x, IsExpression(x)
  PROVE  OperandType(x) \in AllTypes
BY VariableTypes DEF IsExpression, OperandType, AllTypes

LEMMA EmitOperandKeeps ==
  ASSUME NEW e, Emission(e), NEW x, IsExpression(x), x.form # "absent"
  PROVE  LET f == EmitOperand(e, x) IN Behind(e, f, 4) /\ Valued(f, OperandType(x))
<1> DEFINE a == EmitAddress(e, x.var)
           size == SizeOf[x.var]
           load == EmitValue(a.e, "LOAD", size, <<a.address>>)
<1>1. x.form \in {"variable", "literal"} /\ x.value \in Int
      /\ (x.form = "variable" => x.var \in Variables)
  BY DEF IsExpression, Expression
<1>2. e.next \in Nat \ {0}
  BY DEF Emission
<1>3. CASE x.form = "literal"
  <2> DEFINE f == [e EXCEPT !.value = Imm(x.value)]
  <2>1. EmitOperand(e, x) = f /\ OperandType(x) = "Int"
    BY <1>3 DEF EmitOperand, OperandType
  <2>2. Behind(e, f, 0) /\ f.value = Imm(x.value)
    BY WithValue
  <2>3. Sound(Imm(x.value), f.next) /\ Typed(Imm(x.value), "Int")
    BY <1>1, SoundConstants DEF Typed, Imm
  <2> HIDE DEF f
  <2>4. Behind(e, f, 4)
    BY <1>2, <2>2 DEF Behind
  <2> QED BY <2>1, <2>2, <2>3, <2>4 DEF Valued
<1>4. CASE x.form = "variable"
  <2>1. /\ OperandType(x) = TypeOf[x.var] /\ TypeOf[x.var] \in AllTypes
        /\ size \in {8, 32, 64} /\ size = TypeSize[TypeOf[x.var]]
    BY <1>1, <1>4, VariableTypes DEF OperandType
  <2>2. /\ Behind(e, a.e, 1) /\ Sound(a.address, a.e.next) /\ IsAddress(a.address)
        /\ IsByte(a.address) => size = 8
    BY <1>1, <1>4, EmitAddressKeeps
  <2>3. Emission(a.e)
    BY <2>2 DEF Behind
  <2> DEFINE d == a.e
             o == a.address
  <2>4. load = EmitValue(d, "LOAD", size, <<o>>)
    OBVIOUS
  <2>5. Behind(e, d, 1) /\ Sound(o, d.next) /\ IsAddress(o) /\ Emission(d)
        /\ (IsByte(o) => size = 8)
    BY <2>2, <2>3
  <2> HIDE DEF d, o, size, load
  <2>6. /\ Behind(d, load, 1) /\ load.value = Reg(d.next, size)
        /\ Sound(load.value, load.next)
    <3>1. /\ Sound(Reg(d.next, size), d.next + 1) /\ Reg(d.next, size).kind = "register"
          /\ Reg(d.next, size).size = size
          /\ d.next \in Nat /\ d.next + 1 \in Nat /\ d.next <= d.next + 1
      BY <2>1, <2>5, NextReg
    <3>2. Sound(o, d.next + 1) /\ o \in Operands
      BY <2>5, <3>1, SoundMore DEF Sound
    <3>3. LET mi == Instr("LOAD", <<Reg(d.next, size), o>>)
          IN Good(mi, d.next + 1) /\ mi.op # "BRANCH"
      BY <2>1, <2>5, <3>1, <3>2, NewLOAD
    <3> QED BY <2>1, <2>4, <2>5, <3>2, <3>3, EmitUnary
  <2>7. load.value.kind = "register" /\ load.value.size = size
    BY <2>6 DEF Reg
  <2>8. Behind(e, load, 1 + 1) /\ Emission(load)
    BY <2>5, <2>6, BehindBehind DEF Behind
  <2>9. Typed(load.value, TypeOf[x.var])
    BY <2>1, <2>7, Sizes DEF Typed
  <2>10. CASE x.postfix = "none"
    <3>1. EmitOperand(e, x) = load
      BY <1>4, <2>10 DEF EmitOperand, load, a, size
    <3>2. Behind(e, load, 4)
      BY <1>2, <2>8 DEF Behind
    <3> QED BY <2>1, <2>6, <2>9, <3>1, <3>2 DEF Valued
  <2>11. CASE x.postfix # "none"
    <3> DEFINE f == EmitPostfix(load, x)
    <3>1. EmitOperand(e, x) = f
      BY <1>4, <2>11 DEF EmitOperand, load, a, size
    <3>2. Behind(load, f, 2) /\ f.value = load.value
      BY <1>1, <1>4, <2>6, <2>7, <2>8, EmitPostfixKeeps DEF size
    <3> HIDE DEF f
    <3>3. Sound(f.value, f.next)
      BY <2>6, <2>8, <3>2, SoundBehind
    <3>4. Behind(e, f, 2 + 2)
      BY <2>8, <3>2, BehindBehind
    <3> QED BY <2>1, <2>9, <3>1, <3>2, <3>3, <3>4 DEF Valued
  <2> QED BY <2>10, <2>11
<1> QED BY <1>1, <1>3, <1>4

\* Casts for which the instructions have operands of their sizes.
Castable(from, to) ==
  /\ from \in AllTypes /\ to \in AllTypes
  /\ ~(from \in UnsignedTypes /\ to = "Long") /\ ~(from = "Long" /\ TypeSize[to] = 8)

LEMMA EmitCastKeeps ==
  ASSUME NEW e, Emission(e), NEW from, NEW to, Castable(from, to), Valued(e, from)
  PROVE  Behind(e, EmitCast(e, from, to), 1) /\ Valued(EmitCast(e, from, to), to)
<1>1. from \in AllTypes /\ to \in AllTypes /\ e.next \in Nat \ {0}
  BY DEF Castable, Emission
<1>2. CASE from = to \/ OnlySigndnessDifference(from, to)
  <2>1. EmitCast(e, from, to) = e
    BY <1>2 DEF EmitCast
  <2>2. (from = "Long") <=> (to = "Long")
    BY <1>1, <1>2, Sizes DEF OnlySigndnessDifference
  <2> QED BY <1>1, <2>1, <2>2 DEF Behind, Valued, Typed
<1>3. CASE ~(from = to \/ OnlySigndnessDifference(from, to))
  <2> DEFINE op == IF TypeSize[to] < TypeSize[from] THEN "TRUNC"
                   ELSE IF {from, to} \cap UnsignedTypes # {} THEN "ZEXT" ELSE "SEXT"
             size == TypeSize[to]
             r == Reg(e.next, size)
             mi == Instr(op, <<r, e.value>>)
             f == EmitValue(e, op, size, <<e.value>>)
  <2>1. EmitCast(e, from, to) = f
    BY <1>3 DEF EmitCast
  <2>2. size \in {8, 32, 64} /\ (size = 64 <=> to = "Long")
    BY <1>1, Sizes
  <2>3. /\ Sound(r, e.next + 1) /\ r.kind = "register" /\ r.size = size
        /\ e.next <= e.next + 1 /\ e.next \in Nat /\ e.next + 1 \in Nat
    BY <2>2, NextReg
  <2>4. Sound(e.value, e.next + 1) /\ e.value \in Operands
    BY <2>3, SoundMore DEF Valued, Sound
  <2>5. Good(mi, e.next + 1) /\ mi.op # "BRANCH"
    <3>1. CASE TypeSize[to] < TypeSize[from]
      <4>1. op = "TRUNC" /\ size \in {8, 32}
        BY <1>1, <2>2, <3>1, Sizes
      <4>2. size = 8 => Narrow(e.value)
        BY <1>1 DEF Castable, Valued, Typed, Narrow
      <4> HIDE DEF op, r
      <4> QED BY <2>3, <2>4, <4>1, <4>2, NewTRUNC
    <3>2. CASE ~(TypeSize[to] < TypeSize[from])
      <4>1. op \in {"SEXT", "ZEXT"} /\ (op = "ZEXT" => size # 64)
        <5>1. op \in {"SEXT", "ZEXT"}
          BY <3>2
        <5>2. ASSUME op = "ZEXT" PROVE to # "Long"
          <6>1. {from, to} \cap UnsignedTypes # {}
            BY <3>2, <5>2
          <6> QED BY <6>1 DEF Castable, UnsignedTypes
        <5> QED BY <2>2, <5>1, <5>2
      <4> HIDE DEF op, r
      <4> QED BY <2>3, <2>4, <4>1, NewExtension
    <3> QED BY <3>1, <3>2
  <2> HIDE DEF op
  <2>6. Behind(e, f, 1) /\ f.value = r /\ Sound(f.value, f.next)
    BY <2>2, <2>4, <2>5, EmitUnary
  <2> HIDE DEF f
  <2>7. Typed(r, to)
    BY <2>2, <2>3 DEF Typed
  <2> QED BY <2>1, <2>6, <2>7 DEF Valued
<1> QED BY <1>2, <1>3

-----------------------------------------------------------------------------
(* Code generation: the statements.                                          *)

\* What is known of a statement that is compiled.
Compiled(s) ==
  /\ s.op \in Operations /\ s.dst \in Variables \cup {"none"}
  /\ IsExpression(s.left) /\ s.left.form # "absent" /\ IsExpression(s.right)
  /\ (s.right.form = "absent") <=> (s.op \in {"none", "MINUS", "truth"})
  /\ (s.dst = "none") <=> (s.op \in {"truth"} \cup Relations)
  /\ \A x \in Present(s) : Castable(OperandType(x), CastType(s, x))
  /\ s.dst # "none" => Castable(ResultType(s), TypeOf[s.dst])
  /\ s.op = "MOD" => \A x \in Present(s) : OperandType(x) # "Long"
  /\ s.op = "MINUS" => OperandType(s.left) # "Long"

LEMMA PresentOperands ==
  ASSUME NEW s, IsExpression(s.left), s.left.form # "absent", IsExpression(s.right)
  PROVE  /\ s.left \in Present(s) /\ (s.right.form # "absent" => s.right \in Present(s))
         /\ \A x \in Present(s) : IsExpression(x)
BY DEF Present

LEMMA PromotedKnown ==
  ASSUME NEW s, NEW x, IsExpression(x)
  PROVE  /\ Promoted(s, x) \in AllTypes /\ OperandType(x) \in AllTypes
         /\ (Promoted(s, x) = "Long") <=> (OperandType(x) = "Long")
         /\ s.op \notin ArithmeticOps => Promoted(s, x) = OperandType(x)
<1>1. OperandType(x) \in AllTypes
  BY OperandTypeKnown
<1>2. CASE s.op \in ArithmeticOps /\ IsSmallerThanInt(OperandType(x))
  <2>1. Promoted(s, x) = "Int"
    BY <1>2 DEF Promoted
  <2>2. OperandType(x) # "Long"
    <3>1. Rank("Int") \in 1..4
      BY Ranks DEF AllTypes
    <3> QED BY <1>2, <3>1, Ranks DEF IsSmallerThanInt
  <2> QED BY <1>1, <1>2, <2>1, <2>2 DEF AllTypes
<1>3. CASE ~(s.op \in ArithmeticOps /\ IsSmallerThanInt(OperandType(x)))
  BY <1>1, <1>3 DEF Promoted
<1> QED BY <1>2, <1>3

LEMMA CastTypes ==
  ASSUME NEW s, IsExpression(s.left), IsExpression(s.right)
  PROVE  /\ CastType(s, s.left) \in AllTypes /\ CastType(s, s.right) \in AllTypes
         /\ ResultType(s) \in AllTypes
         /\ s.right.form = "absent" => ResultType(s) = OperandType(s.left)
         /\ s.right.form = "absent" /\ s.op \notin ArithmeticOps =>
              CastType(s, s.left) = OperandType(s.left)
         /\ s.right.form # "absent" /\ s.op # "MOD" =>
              ((CastType(s, s.left) = "Long") <=> (CastType(s, s.right) = "Long"))
         /\ s.op = "MOD" =>
              /\ CastType(s, s.left) = OperandType(s.left)
              /\ CastType(s, s.right) = OperandType(s.right)
         /\ s.right.form # "absent" =>
              ((ResultType(s) = "Long") <=> (CastType(s, s.left) = "Long" \/ CastType(s, s.right) = "Long"))
<1> DEFINE t == Promoted(s, s.left)
           u == Promoted(s, s.right)
           l == CastType(s, s.left)
           r == CastType(s, s.right)
<1>1. t \in AllTypes /\ u \in AllTypes
  BY PromotedKnown
<1>2. /\ s.op \notin ArithmeticOps => t = OperandType(s.left) /\ u = OperandType(s.right)
      /\ OperandType(s.left) \in AllTypes
  BY PromotedKnown
<1> DEFINE keep == s.right.form = "absent" \/ s.op = "MOD" \/ OnlySigndnessDifference(t, u)
<1>3. /\ keep => l = t /\ r = u
      /\ ~keep => l = GetStrongestType(t, u) /\ r = GetStrongestType(t, u)
  BY DEF CastType
<1>4. OnlySigndnessDifference(t, u) => ((t = "Long") <=> (u = "Long"))
  BY <1>1, Sizes DEF OnlySigndnessDifference
<1>5. /\ s.right.form = "absent" => ResultType(s) = OperandType(s.left)
      /\ s.right.form # "absent" => ResultType(s) = GetStrongestType(GetStrongestType(l, r), "Int")
  BY DEF ResultType
<1> HIDE DEF t, u, l, r
<1>6. l \in AllTypes /\ r \in AllTypes
  BY <1>1, <1>3, Strongest
<1>7. s.right.form # "absent" /\ s.op # "MOD" => ((l = "Long") <=> (r = "Long"))
  BY <1>3, <1>4
<1>8. /\ s.right.form = "absent" /\ s.op \notin ArithmeticOps => l = OperandType(s.left)
      /\ s.op = "MOD" => l = OperandType(s.left) /\ r = OperandType(s.right)
  BY <1>2, <1>3 DEF ArithmeticOps
<1>9. s.right.form # "absent" =>
         /\ ResultType(s) \in AllTypes
         /\ (ResultType(s) = "Long") <=> (l = "Long" \/ r = "Long")
  <2>1. "Int" \in AllTypes /\ "Int" # "Long"
    BY DEF AllTypes
  <2> DEFINE m == GetStrongestType(l, r)
  <2>2. m \in AllTypes /\ (m = "Long" <=> (l = "Long" \/ r = "Long"))
    BY <1>6, Strongest
  <2> HIDE DEF m
  <2>3. GetStrongestType(m, "Int") \in AllTypes /\ (GetStrongestType(m, "Int") = "Long" <=> m = "Long")
    BY <2>1, <2>2, Strongest
  <2> QED BY <1>5, <2>2, <2>3 DEF m
<1>10. ResultType(s) \in AllTypes
  BY <1>2, <1>5, <1>9
<1> HIDE DEF keep
<1> QED BY <1>5, <1>6, <1>7, <1>8, <1>9, <1>10 DEF l, r

\* The statements that are not admitted are those that do not fit.
LEMMA StatementsAreCompiled ==
  ASSUME NEW s \in Statements, Exceptions(s) \subseteq {"comparisons", "postfix"}
  PROVE  Compiled(s)
<1>1. /\ s.op \in Operations /\ s.dst \in Variables \cup {"none"}
      /\ IsExpression(s.left) /\ s.left.form # "absent" /\ IsExpression(s.right)
      /\ (s.right.form = "absent") <=> (s.op \in {"none", "MINUS", "truth"})
      /\ (s.dst \notin Variables) <=> (s.op \in {"truth"} \cup Relations)
      /\ "none" \notin Variables
  BY StatementAssumption
<1>2. (s.dst = "none") <=> (s.dst \notin Variables)
  BY <1>1
<1>3. \A x \in Present(s) : IsExpression(x)
  BY <1>1, PresentOperands
<1>4. \A k \in {"uncast", "widening", "negation", "truncation"} : k \in Kinds /\ k \notin Exceptions(s)
  BY DEF Kinds
<1>5. ~\E c \in Casts(s) :
         (c[1] \in UnsignedTypes /\ c[2] = "Long") \/ c = <<"Char", "UnsignedInt">>
  <2>1. "widening" \in Kinds /\ "widening" \notin Exceptions(s)
    BY <1>4
  <2> QED BY <2>1 DEF Exceptions
<1>6. ~\E c \in Casts(s) : c[1] = "Long" /\ TypeSize[c[2]] = 8
  <2>1. "truncation" \in Kinds /\ "truncation" \notin Exceptions(s)
    BY <1>4
  <2> QED BY <2>1 DEF Exceptions
<1>7. ~(s.op = "MINUS" /\ OperandTypes(s) \cap {"Char", "Long"} # {})
  <2>1. "negation" \in Kinds /\ "negation" \notin Exceptions(s)
    BY <1>4
  <2> QED BY <2>1 DEF Exceptions
<1>8. ~(s.op = "MOD" /\ OperandTypes(s) \cap {"Char", "UnsignedChar", "Long"} # {})
  <2>1. "uncast" \in Kinds /\ "uncast" \notin Exceptions(s)
    BY <1>4
  <2> QED BY <2>1 DEF Exceptions
<1>9. ASSUME NEW from \in AllTypes, NEW to \in AllTypes, <<from, to>> \in Casts(s)
      PROVE  Castable(from, to)
  BY <1>5, <1>6, <1>9 DEF Castable
<1>10. ASSUME NEW x \in Present(s) PROVE Castable(OperandType(x), CastType(s, x))
  <2>1. <<OperandType(x), CastType(s, x)>> \in Casts(s)
    BY DEF Casts
  <2>2. OperandType(x) \in AllTypes
    BY <1>3, OperandTypeKnown
  <2>3. CastType(s, x) \in AllTypes
    BY <1>1, CastTypes DEF Present
  <2> QED BY <1>9, <2>1, <2>2, <2>3
<1>11. ASSUME s.dst # "none" PROVE Castable(ResultType(s), TypeOf[s.dst])
  <2>1. <<ResultType(s), TypeOf[s.dst]>> \in Casts(s)
    BY <1>11 DEF Casts
  <2>2. ResultType(s) \in AllTypes
    BY <1>1, CastTypes
  <2>3. TypeOf[s.dst] \in AllTypes
    BY <1>1, <1>11, VariableTypes
  <2> QED BY <1>9, <2>1, <2>2, <2>3
<1>12. s.op = "MOD" => \A x \in Present(s) : OperandType(x) # "Long"
  BY <1>8 DEF OperandTypes
<1>13. s.op = "MINUS" => OperandType(s.left) # "Long"
  <2>1. s.left \in Present(s)
    BY <1>1, PresentOperands
  <2> QED BY <1>7, <2>1 DEF OperandTypes
<1> QED BY <1>1, <1>2, <1>10, <1>11, <1>12, <1>13 DEF Compiled

LEMMA EmitOperandAsKeeps ==
  ASSUME NEW e, Emission(e), NEW s, Compiled(s), NEW x \in Present(s)
  PROVE  LET f == EmitOperandAs(e, s, x) IN Behind(e, f, 5) /\ Valued(f, CastType(s, x))
<1> DEFINE o == EmitOperand(e, x)
           f == EmitCast(o, OperandType(x), CastType(s, x))
<1>1. IsExpression(x) /\ x.form # "absent" /\ Castable(OperandType(x), CastType(s, x))
  BY DEF Compiled, Present
<1>2. Behind(e, o, 4) /\ Valued(o, OperandType(x)) /\ Emission(o)
  BY <1>1, EmitOperandKeeps DEF Behind
<1>3. EmitOperandAs(e, s, x) = f
  BY DEF EmitOperandAs
<1> HIDE DEF o
<1>4. Behind(o, f, 1) /\ Valued(f, CastType(s, x))
  BY <1>1, <1>2, EmitCastKeeps
<1> HIDE DEF f
<1>5. Behind(e, f, 4 + 1)
  BY <1>2, <1>4, BehindBehind
<1> QED BY <1>3, <1>4, <1>5

\* The code ends with a comparison.
EndsInCompare(e) == Len(e.code) >= 1 /\ e.code[Len(e.code)].op = "CMP"

\* A comparison of a register and what has the same size.
LEMMA EmitCompare ==
  ASSUME NEW e, Emission(e), NEW r \in Relations, NEW a, NEW b,
         Sound(a, e.next), Sound(b, e.next), SameSize(a, b)
  PROVE  LET f == [code |-> Append(e.code, Compare(r, <<Reg(e.next, 1), a, b>>)),
                   next |-> e.next + 1, value |-> Reg(e.next, 1)]
         IN Behind(e, f, 1) /\ Sound(f.value, f.next) /\ EndsInCompare(f)
<1> DEFINE v == Reg(e.next, 1)
           mi == Compare(r, <<v, a, b>>)
           f == [code |-> Append(e.code, mi), next |-> e.next + 1, value |-> v]
<1>1. /\ Sound(v, e.next + 1) /\ e.next \in Nat \ {0} /\ e.next + 1 \in Nat \ {0}
      /\ e.next <= e.next + 1
  BY NextReg
<1>2. Sound(a, e.next + 1) /\ Sound(b, e.next + 1)
  BY <1>1, SoundMore
<1> HIDE DEF v
<1>3. Good(mi, e.next + 1) /\ mi.op = "CMP"
  BY <1>1, <1>2, NewCMP
<1> HIDE DEF mi
<1>4. Emission(f)
  BY <1>1, <1>3, Appended
<1>5. EndsInCompare(f)
  <2>1. e.code \in Seq(Instructions) /\ mi \in Instructions
    BY <1>3 DEF Emission, Good
  <2>2. Len(Append(e.code, mi)) = Len(e.code) + 1
        /\ Append(e.code, mi)[Len(e.code) + 1] = mi
        /\ Len(Append(e.code, mi)) >= 1
    <3>1. Len(e.code) \in Nat
      BY <2>1, LenProperties
    <3>2. Len(Append(e.code, mi)) = Len(e.code) + 1
      BY <2>1, AppendProperties
    <3>3. Append(e.code, mi)[Len(e.code) + 1] = mi
      BY <2>1, PushBackProperties
    <3>4. Len(Append(e.code, mi)) >= 1
      BY <3>1, <3>2
    <3> QED BY <3>2, <3>3, <3>4
  <2> QED BY <1>3, <2>2 DEF EndsInCompare
<1> QED BY <1>1, <1>4, <1>5 DEF Behind, v, mi

\* The operations of two operands.
BinaryOps == ArithmeticOps \cup {"MOD", "LSL"} \cup Relations

LEMMA EmitOperationKeeps ==
  ASSUME NEW e, Emission(e), NEW s, Compiled(s), s.op \in BinaryOps, NEW l, NEW r,
         Sound(l, e.next), Typed(l, CastType(s, s.left)),
         Sound(r, e.next), Typed(r, CastType(s, s.right))
  PROVE  LET f == EmitOperation(e, s, l, r)
         IN /\ Behind(e, f, 2) /\ Sound(f.value, f.next)
            /\ s.op \in Relations => EndsInCompare(f)
            /\ s.op \notin Relations => Typed(f.value, ResultType(s))
<1> DEFINE swap == IsImmediate(l) /\ s.op \in Commutative
           first == IF swap THEN r ELSE l
           second == IF swap THEN l ELSE r
           loaded == EmitValue(e, "LOAD_IMM", second.size, <<first>>)
           moved == IF IsImmediate(first) THEN loaded ELSE [e EXCEPT !.value = first]
           unsigned == ResultType(s) \in UnsignedTypes
           op == IF s.op = "DIV" /\ unsigned THEN "DIVU"
                 ELSE IF s.op = "MOD" /\ unsigned THEN "MODU" ELSE s.op
           long == ResultType(s) = "Long"
           compared == [code |-> Append(moved.code,
                                        Compare(s.op, <<Reg(moved.next, 1), moved.value, second>>)),
                        next |-> moved.next + 1, value |-> Reg(moved.next, 1)]
           computed == EmitValue(moved, op, moved.value.size, <<moved.value, second>>)
<1>1. EmitOperation(e, s, l, r) = IF s.op \in Relations THEN compared ELSE computed
  BY DEF EmitOperation
<1>2. /\ IsExpression(s.left) /\ IsExpression(s.right) /\ s.right.form # "absent"
      /\ s.left.form # "absent"
  BY DEF Compiled, BinaryOps, ArithmeticOps, Relations
<1>3. /\ (CastType(s, s.left) = "Long") <=> long
      /\ (CastType(s, s.right) = "Long") <=> long
      /\ s.op = "MOD" => ~long
  <2>1. CASE s.op = "MOD"
    <3>1. s.left \in Present(s) /\ s.right \in Present(s)
      BY <1>2, PresentOperands
    <3>2. OperandType(s.left) # "Long" /\ OperandType(s.right) # "Long"
      BY <2>1, <3>1 DEF Compiled
    <3> QED BY <1>2, <2>1, <3>2, CastTypes
  <2>2. CASE s.op # "MOD"
    BY <1>2, <2>2, CastTypes
  <2> QED BY <2>1, <2>2
<1> HIDE DEF long
<1>4. /\ l.kind \in {"register", "immediate"} /\ (l.size = 64 <=> long)
      /\ r.kind \in {"register", "immediate"} /\ (r.size = 64 <=> long)
  BY <1>3 DEF Typed
<1>5. /\ Sound(first, e.next) /\ first.kind \in {"register", "immediate"}
      /\ (first.size = 64 <=> long)
      /\ Sound(second, e.next) /\ second.kind \in {"register", "immediate"}
      /\ (second.size = 64 <=> long)
  BY <1>4
<1> HIDE DEF swap, first, second
<1>6. second.size \in {1, 8, 32, 64} /\ first \in Operands /\ second \in Operands
  BY <1>5 DEF Sound, IsImmediate
<1>7. e.next \in Nat \ {0}
  BY DEF Emission
<1>8. /\ Behind(e, moved, 1) /\ Emission(moved) /\ Sound(moved.value, moved.next)
      /\ moved.value.kind = "register" /\ (moved.value.size = 64 <=> long)
  <2>1. CASE IsImmediate(first)
    <3> DEFINE v == Reg(e.next, second.size)
    <3>1. Sound(v, e.next + 1) /\ v.kind = "register" /\ v.size = second.size
          /\ e.next + 1 \in Nat /\ e.next <= e.next + 1
      BY <1>6, NextReg
    <3>2. Sound(first, e.next + 1)
      BY <1>5, <1>7, <3>1, SoundMore
    <3>3. LET mi == Instr("LOAD_IMM", <<v, first>>) IN Good(mi, e.next + 1) /\ mi.op # "BRANCH"
      <4> HIDE DEF v
      <4> QED BY <2>1, <3>1, <3>2, NewLOAD_IMM
    <3>4. Behind(e, loaded, 1) /\ loaded.value = v /\ Sound(loaded.value, loaded.next)
      BY <1>6, <3>3, EmitUnary
    <3>5. moved = loaded
      BY <2>1
    <3> HIDE DEF loaded, v, moved
    <3> QED BY <1>5, <3>1, <3>4, <3>5 DEF Behind
  <2>2. CASE ~IsImmediate(first)
    <3> DEFINE f == [e EXCEPT !.value = first]
    <3>1. moved = f
      BY <2>2
    <3>2. Behind(e, f, 0) /\ f.value = first /\ f.next = e.next
      BY WithValue
    <3> HIDE DEF f, moved
    <3> QED BY <1>5, <1>7, <2>2, <3>1, <3>2 DEF Behind, IsImmediate
  <2> QED BY <2>1, <2>2
<1>9. Sound(second, moved.next)
  BY <1>5, <1>8, SoundBehind
<1>10. SameSize(moved.value, second)
  BY <1>5, <1>8 DEF SameSize
<1> HIDE DEF moved
<1>11. CASE s.op \in Relations
  <2>1. Behind(moved, compared, 1) /\ Sound(compared.value, compared.next) /\ EndsInCompare(compared)
    BY <1>8, <1>9, <1>10, <1>11, EmitCompare
  <2> HIDE DEF compared
  <2>2. Behind(e, compared, 1 + 1)
    BY <1>8, <2>1, BehindBehind
  <2> QED BY <1>1, <1>11, <2>1, <2>2
<1>12. CASE s.op \notin Relations
  <2>1. op \in ThreeOperandOps /\ (op \in {"MOD", "MODU"} => ~long)
    BY <1>3, <1>12 DEF BinaryOps, ArithmeticOps, ThreeOperandOps
  <2> DEFINE size == moved.value.size
             v == Reg(moved.next, size)
             a == moved.value
  <2>2. size \in {1, 8, 32, 64} /\ a \in Operands
    BY <1>8 DEF Sound
  <2>3. Sound(v, moved.next + 1) /\ v.kind = "register" /\ v.size = size
        /\ moved.next \in Nat /\ moved.next + 1 \in Nat /\ moved.next <= moved.next + 1
    BY <1>8, <2>2, NextReg
  <2>4. Sound(a, moved.next + 1) /\ Sound(second, moved.next + 1)
    BY <1>8, <1>9, <2>3, SoundMore
  <2>5. /\ SameSize(v, a) /\ SameSize(v, second) /\ SameSize(a, second)
        /\ ~long => Narrow(v) /\ Narrow(a) /\ Narrow(second)
    BY <1>5, <1>8, <2>3 DEF SameSize, Narrow
  <2>6. Typed(v, ResultType(s))
    BY <1>8, <2>3 DEF Typed, long
  <2> HIDE DEF op, v, size, a
  <2>7. LET mi == Instr(op, <<v, a, second>>) IN Good(mi, moved.next + 1) /\ mi.op # "BRANCH"
    <3>1. LET mi == Instr(op, <<v, a, second>>) IN Good(mi, moved.next + 1) /\ mi.op = op
      BY <2>1, <2>3, <2>4, <2>5, NewArithmetic
    <3> QED BY <2>1, <3>1 DEF ThreeOperandOps
  <2>8. Behind(moved, computed, 1) /\ computed.value = v /\ Sound(computed.value, computed.next)
    BY <1>6, <1>8, <2>2, <2>7, EmitBinary DEF v, size, a
  <2> HIDE DEF computed
  <2>9. Behind(e, computed, 1 + 1)
    BY <1>8, <2>8, BehindBehind
  <2> QED BY <1>1, <1>12, <2>6, <2>8, <2>9
<1> QED BY <1>11, <1>12

LEMMA EmitExpressionKeeps ==
  ASSUME NEW s, Compiled(s)
  PROVE  LET f == EmitExpression(s)
         IN /\ Emission(f) /\ f.next \in 1..13 /\ Sound(f.value, f.next)
            /\ s.dst = "none" => EndsInCompare(f)
            /\ s.dst # "none" => Typed(f.value, ResultType(s))
<1> DEFINE none == [code |-> <<>>, next |-> 1, value |-> Imm(0)]
           l == EmitOperandAs(none, s, s.left)
           r == EmitOperandAs(l, s, s.right)
           f == EmitExpression(s)
<1>1. Emission(none) /\ none.next = 1
  <2>1. <<>> \in Seq(Instructions) /\ 1 \in Nat \ {0} /\ DOMAIN <<>> = {}
    OBVIOUS
  <2> QED BY <2>1, EmissionParts
<1>2. /\ s.op \in Operations /\ IsExpression(s.left) /\ s.left.form # "absent"
      /\ IsExpression(s.right)
      /\ (s.right.form = "absent") <=> (s.op \in {"none", "MINUS", "truth"})
      /\ (s.dst = "none") <=> (s.op \in {"truth"} \cup Relations)
  BY DEF Compiled
<1>3. s.left \in Present(s) /\ (s.right.form # "absent" => s.right \in Present(s))
  BY <1>2, PresentOperands
<1> HIDE DEF none
<1>4. Behind(none, l, 5) /\ Valued(l, CastType(s, s.left))
  BY <1>1, <1>3, EmitOperandAsKeeps
<1>5. f = IF s.op = "none" THEN l
          ELSE IF s.op = "MINUS" THEN EmitValue(l, "SUB", 32, <<Imm(0), l.value>>)
          ELSE IF s.op = "truth"
          THEN [code |-> Append(l.code, Compare("NE", <<Reg(l.next, 1), l.value, Imm(0)>>)),
                next |-> l.next + 1, value |-> Reg(l.next, 1)]
          ELSE EmitOperation(r, s, l.value, r.value)
  BY DEF EmitExpression, none
<1>6. ASSUME NEW g, NEW k \in 0..12, Behind(none, g, k) PROVE Emission(g) /\ g.next \in 1..13
  BY <1>1, <1>6 DEF Behind
<1>7. Emission(l) /\ l.next \in Nat \ {0} /\ Sound(l.value, l.next) /\ Typed(l.value, CastType(s, s.left))
  BY <1>4 DEF Behind, Emission, Valued
<1>8. s.right.form = "absent" =>
        /\ ResultType(s) = OperandType(s.left)
        /\ CastType(s, s.left) = OperandType(s.left)
  <2>1. {"none", "MINUS", "truth"} \cap ArithmeticOps = {}
    BY DEF ArithmeticOps
  <2> QED BY <1>2, <2>1, CastTypes
<1> HIDE DEF l
<1>9. CASE s.op = "none"
  <2>1. f = l
    BY <1>5, <1>9
  <2>2. Emission(l) /\ l.next \in 1..13
    BY <1>4, <1>6
  <2>3. s.dst # "none"
    BY <1>2, <1>9 DEF Relations
  <2> QED BY <1>2, <1>7, <1>8, <1>9, <2>1, <2>2, <2>3
<1>10. CASE s.op = "MINUS"
  <2> DEFINE v == Reg(l.next, 32)
             g == EmitValue(l, "SUB", 32, <<Imm(0), l.value>>)
             o == l.value
             z == Imm(0)
  <2>1. f = g
    BY <1>5, <1>10
  <2>2. Sound(v, l.next + 1) /\ v.kind = "register" /\ v.size = 32
        /\ l.next + 1 \in Nat /\ l.next <= l.next + 1
    BY <1>7, NextReg
  <2>3. /\ Sound(z, l.next + 1) /\ z.kind # "register" /\ z \in Operands
    BY SoundConstants DEF Sound
  <2>4. Sound(o, l.next + 1) /\ o \in Operands
    BY <1>7, <2>2, SoundMore DEF Sound
  <2>5. OperandType(s.left) # "Long"
    BY <1>10 DEF Compiled
  <2>6. SameSize(v, z) /\ SameSize(v, o) /\ SameSize(z, o)
    BY <1>2, <1>7, <1>8, <1>10, <2>2, <2>3, <2>5 DEF SameSize, Typed
  <2>7. Typed(v, ResultType(s))
    BY <1>2, <1>8, <1>10, <2>2, <2>5 DEF Typed
  <2> HIDE DEF v, z, o
  <2>8. LET mi == Instr("SUB", <<v, z, o>>) IN Good(mi, l.next + 1) /\ mi.op # "BRANCH"
    BY <2>2, <2>3, <2>4, <2>6, NewArithmetic DEF ThreeOperandOps
  <2>9. Behind(l, g, 1) /\ g.value = v /\ Sound(g.value, g.next)
    BY <1>7, <2>3, <2>4, <2>8, EmitBinary DEF v, z, o
  <2> HIDE DEF g
  <2>10. Behind(none, g, 5 + 1)
    BY <1>1, <1>4, <2>9, BehindBehind
  <2>11. Emission(g) /\ g.next \in 1..13
    BY <1>6, <2>10
  <2>12. s.dst # "none"
    BY <1>2, <1>10 DEF Relations
  <2> QED BY <2>1, <2>7, <2>9, <2>11, <2>12
<1>11. CASE s.op = "truth"
  <2> DEFINE g == [code |-> Append(l.code, Compare("NE", <<Reg(l.next, 1), l.value, Imm(0)>>)),
                   next |-> l.next + 1, value |-> Reg(l.next, 1)]
  <2>1. f = g
    BY <1>5, <1>11
  <2>2. Sound(Imm(0), l.next) /\ Imm(0).kind # "register"
    BY SoundConstants
  <2>3. SameSize(l.value, Imm(0)) /\ "NE" \in Relations
    BY <2>2 DEF SameSize, Relations
  <2>4. Behind(l, g, 1) /\ Sound(g.value, g.next) /\ EndsInCompare(g)
    BY <1>7, <2>2, <2>3, EmitCompare
  <2> HIDE DEF g
  <2>5. Behind(none, g, 5 + 1)
    BY <1>1, <1>4, <2>4, BehindBehind
  <2>6. Emission(g) /\ g.next \in 1..13
    BY <1>6, <2>5
  <2>7. s.dst = "none"
    BY <1>2, <1>11
  <2> QED BY <2>1, <2>4, <2>6, <2>7
<1>12. CASE s.op \notin {"none", "MINUS", "truth"}
  <2> DEFINE g == EmitOperation(r, s, l.value, r.value)
  <2>1. f = g
    BY <1>5, <1>12
  <2>2. s.op \in BinaryOps
    BY <1>2, <1>12 DEF Operations, BinaryOps
  <2>3. s.right \in Present(s)
    BY <1>2, <1>3, <1>12
  <2>4. Behind(l, r, 5) /\ Valued(r, CastType(s, s.right))
    BY <1>7, <2>3, EmitOperandAsKeeps
  <2> HIDE DEF r
  <2>5. /\ Emission(r) /\ Sound(r.value, r.next) /\ Typed(r.value, CastType(s, s.right))
        /\ Sound(l.value, r.next)
    BY <1>7, <2>4, SoundBehind DEF Behind, Valued
  <2>6. /\ Behind(r, g, 2) /\ Sound(g.value, g.next)
        /\ s.op \in Relations => EndsInCompare(g)
        /\ s.op \notin Relations => Typed(g.value, ResultType(s))
    BY <1>7, <2>2, <2>5, EmitOperationKeeps
  <2> HIDE DEF g
  <2>7. Behind(none, r, 5 + 5)
    BY <1>1, <1>4, <2>4, BehindBehind
  <2>8. Behind(none, g, 10 + 2)
    BY <1>1, <2>6, <2>7, BehindBehind
  <2>9. Emission(g) /\ g.next \in 1..13
    BY <1>6, <2>8
  <2>10. (s.dst = "none") <=> (s.op \in Relations)
    BY <1>2, <1>12
  <2> QED BY <2>1, <2>6, <2>9, <2>10
<1> QED BY <1>9, <1>10, <1>11, <1>12

LEMMA InvertedRelation == \A r \in Relations : InvertRelation[r] \in Relations
BY DEF Relations, InvertRelation

\* Generated code is a block to start with.
LEMMA Generated ==
  ASSUME NEW s, Compiled(s)
  PROVE  LET g == IRCodegen(s) IN g.next \in 1..15 /\ Block(g.code, g.next, 1)
<1> DEFINE e == EmitExpression(s)
           g == IRCodegen(s)
<1>1. /\ Emission(e) /\ e.next \in 1..13 /\ Sound(e.value, e.next)
      /\ s.dst = "none" => EndsInCompare(e)
      /\ s.dst # "none" => Typed(e.value, ResultType(s))
  BY EmitExpressionKeeps
<1>2. e = [code |-> e.code, next |-> e.next, value |-> e.value] /\ e.code \in Seq(Instructions)
      /\ \A i \in DOMAIN e.code : Good(e.code[i], e.next) /\ e.code[i].op # "BRANCH"
  BY <1>1 DEF Emission
<1>3. CASE s.dst # "none"
  <2> DEFINE cast == EmitCast(e, ResultType(s), TypeOf[s.dst])
             f == EmitStore(cast, s.dst, cast.value)
  <2>1. g = f
    BY <1>3 DEF IRCodegen
  <2>2. Castable(ResultType(s), TypeOf[s.dst]) /\ s.dst \in Variables
    BY <1>3 DEF Compiled
  <2> HIDE DEF e
  <2>3. Behind(e, cast, 1) /\ Valued(cast, TypeOf[s.dst])
    BY <1>1, <1>3, <2>2, EmitCastKeeps DEF Valued
  <2> HIDE DEF cast
  <2>4. Emission(cast) /\ Sound(cast.value, cast.next) /\ Typed(cast.value, TypeOf[s.dst])
    BY <2>3 DEF Behind, Valued
  <2>5. SizeOf[s.dst] = 8 => Narrow(cast.value)
    BY <2>2, <2>4, VariableTypes, Sizes DEF Typed, Narrow
  <2>6. Behind(cast, f, 1)
    BY <2>2, <2>4, <2>5, EmitStoreKeeps
  <2> HIDE DEF f
  <2>7. Behind(e, f, 1 + 1)
    BY <1>1, <2>3, <2>6, BehindBehind
  <2>8. Emission(f) /\ f.next \in 1..15
    BY <1>1, <2>7 DEF Behind
  <2>9. Block(f.code, f.next, 1)
    <3>1. f.code \in Seq(Instructions) /\ DOMAIN f.code = 1..Len(f.code) /\ Len(f.code) \in Nat
      BY <2>8, LenProperties DEF Emission
    <3>2. \A i \in DOMAIN f.code : ~(i < 1)
      BY <3>1
    <3>3. 1 \in 1..(Len(f.code) + 1)
      BY <3>1
    <3> QED BY <2>8, <3>1, <3>2, <3>3 DEF Block, Emission, Good, AfterCompare
  <2> QED BY <2>1, <2>8, <2>9
<1>4. CASE s.dst = "none"
  <2> DEFINE last == Len(e.code)
             mi == e.code[last]
             r == InvertRelation[mi.relation]
             to == [mi EXCEPT !.relation = r]
             code1 == [e.code EXCEPT ![last] = to]
             b == Instr("BRANCH", <<e.value, Label>>)
             all == Append(code1, b)
             n == e.next
  <2>1. g = [code |-> all, next |-> n, value |-> e.value]
    <3> DEFINE inverted == [e EXCEPT !.code[last].relation = InvertRelation[@]]
    <3>1. g = Emit(inverted, b)
      BY <1>4 DEF IRCodegen
    <3> HIDE DEF e
    <3>2. inverted = [code |-> code1, next |-> n, value |-> e.value]
      <4> DEFINE c == [e.code EXCEPT ![last].relation = r]
      <4>1. inverted = [e EXCEPT !.code = c]
        OBVIOUS
      <4>2. c = code1
        OBVIOUS
      <4>3. inverted = [e EXCEPT !.code = code1]
        BY <4>1, <4>2
      <4> HIDE DEF code1, inverted
      <4> QED BY <1>2, <4>3
    <3> HIDE DEF inverted, code1, b
    <3> QED BY <3>1, <3>2 DEF Emit
  <2> HIDE DEF e
  <2>2. /\ last \in Nat /\ last >= 1 /\ last \in DOMAIN e.code /\ mi.op = "CMP"
        /\ DOMAIN e.code = 1..last
    BY <1>1, <1>2, <1>4, LenProperties DEF EndsInCompare
  <2>3. Good(mi, n) /\ n \in Nat \ {0}
    BY <1>1, <1>2, <2>2
  <2>4. r \in Relations
    <3>1. mi.relation \in Relations
      BY <2>2, <2>3 DEF Good, Fits, ThreeOperandOps, FitsCMP
    <3> QED BY <3>1, InvertedRelation
  <2> HIDE DEF r, mi
  <2>5. Good(to, n) /\ to.relation = r /\ to.op = "CMP"
    BY <2>2, <2>3, <2>4, Inverted
  <2> HIDE DEF to
  <2>6. /\ code1 \in Seq(Instructions) /\ Len(code1) = last /\ DOMAIN code1 = 1..last
        /\ code1[last] = to
        /\ \A j \in DOMAIN e.code \ {last} : code1[j] = e.code[j]
    <3>1. to \in Instructions
      BY <2>5 DEF Good
    <3> QED BY <1>2, <2>2, <3>1, ReplacedElement
  <2> HIDE DEF code1
  <2>7. \A j \in 1..last : Good(code1[j], n) /\ code1[j].op # "BRANCH"
    BY <1>2, <2>2, <2>5, <2>6
  <2>8. Good(b, n) /\ b.op = "BRANCH"
    <3>1. Sound(Label, n) /\ Label.kind = "label"
      BY SoundConstants
    <3> QED BY <1>1, <3>1, NewBRANCH
  <2> HIDE DEF b
  <2>9. /\ all \in Seq(Instructions) /\ DOMAIN all = 1..(last + 1)
        /\ \A j \in 1..last : all[j] = code1[j]
        /\ all[last + 1] = b
    <3>1. b \in Instructions
      BY <2>8 DEF Good
    <3> QED BY <2>6, <3>1, PushBackProperties
  <2> HIDE DEF all
  <2>10. ASSUME NEW i \in DOMAIN all
         PROVE  Good(all[i], n) /\ AfterCompare(all, i) /\ ~(i < 1)
    <3>1. CASE i = last + 1
      <4>1. i - 1 = last /\ i > 1 /\ last \in 1..last
        BY <2>2, <3>1
      <4>2. all[i - 1].relation \in Relations
        BY <2>4, <2>5, <2>6, <2>9, <4>1
      <4> QED BY <2>8, <2>9, <3>1, <4>1, <4>2 DEF AfterCompare
    <3>2. CASE i # last + 1
      <4>1. i \in 1..last /\ ~(i < 1)
        BY <2>2, <2>9, <3>2
      <4> QED BY <2>7, <2>9, <4>1 DEF AfterCompare
    <3> QED BY <3>1, <3>2
  <2>11. Len(all) \in Nat
    BY <2>9, LenProperties
  <2>12. Block(all, n, 1)
    <3>1. 1 \in 1..(Len(all) + 1)
      BY <2>11
    <3> QED BY <2>9, <2>10, <3>1 DEF Block, Good
  <2>13. n \in 1..15
    BY <1>1
  <2> QED BY <2>1, <2>12, <2>13
<1> QED BY <1>3, <1>4


-----------------------------------------------------------------------------
(* The theorems.  The statements that are left out of them are those of the   *)
(* other kinds: TLC shows for each kind that the sizes do not agree then.     *)

Agreeing == {"comparisons", "postfix"}

LEMMA LoweringInit ==
  ASSUME Admitted \subseteq Agreeing, Init
  PROVE  LoweringInv
<1> DEFINE g == IRCodegen(statement)
<1>1. /\ statement \in Statements /\ Exceptions(statement) \subseteq Agreeing
      /\ code = g.code /\ nextVReg = g.next /\ pass = "legalize" /\ index = 1
  BY DEF Init
<1>2. Compiled(statement)
  BY <1>1, StatementsAreCompiled DEF Agreeing
<1>3. g.next \in 1..15 /\ Block(g.code, g.next, 1)
  BY <1>2, Generated
<1> HIDE DEF g
<1>4. nextVReg \in 1..MaxVReg
  BY <1>1, <1>3, LoweringAssumption
<1> QED BY <1>1, <1>3, <1>4, LegalizerInv

LEMMA InvImpliesTypeOK == LoweringInv => TypeOK
<1> SUFFICES ASSUME LoweringInv PROVE TypeOK
  OBVIOUS
<1>1. DOMAIN Bits = {1, 8, 32, 64}
  BY MachineCodeAssumption
<1>2. \A i \in DOMAIN code : \A k \in Registers(code[i]) :
        code[i].args[k].id \in 1..(nextVReg - 1) /\ code[i].args[k].size \in DOMAIN Bits
  BY <1>1 DEF LoweringInv, BlockInv, InRange
<1> QED BY <1>2 DEF LoweringInv, TypeOK

LEMMA InvImpliesPassedIsLegal == LoweringInv => PassedIsLegal
<1> SUFFICES ASSUME LoweringInv PROVE PassedIsLegal
  OBVIOUS
<1>1. DOMAIN code = 1..Len(code) /\ Len(code) \in Nat /\ index \in 1..(Len(code) + 1)
  BY LenProperties DEF LoweringInv, BlockInv
<1>2. ASSUME pass = "legalize", NEW i \in 1..(index - 1) PROVE Check(code, i)
  <2>1. i \in DOMAIN code /\ i < index
    BY <1>1
  <2> QED BY <1>2, <2>1 DEF LoweringInv, PassInv
<1>3. ASSUME pass = "select", NEW i \in index..Len(code) PROVE Check(code, i)
  <2>1. i \in DOMAIN code /\ ~(i < index)
    BY <1>1
  <2> QED BY <1>3, <2>1 DEF LoweringInv, PassInv
<1> QED BY <1>2, <1>3 DEF PassedIsLegal

LEMMA InvImpliesOperandSizesAgree == LoweringInv => OperandSizesAgree
BY DEF LoweringInv, PassInv, OperandSizesAgree

\* Whatever statement is compiled, the registers of its instructions have been
\* made, are of a size that a register has, and the index stays in the block that
\* the legalizer rewrites around it.
THEOREM LoweringTypeCorrect ==
  ASSUME Admitted \subseteq Agreeing
  PROVE  Spec => []TypeOK
<1>1. Init => LoweringInv
  BY LoweringInit
<1>2. LoweringInv /\ [Next]_vars => LoweringInv'
  BY LoweringNext
<1>3. LoweringInv => TypeOK
  BY InvImpliesTypeOK
<1> QED BY <1>1, <1>2, <1>3, PTL DEF Spec

\* No expansion of the legalizer makes an instruction that it has passed illegal
\* again, nor does one leave an illegal one to the selection.
THEOREM PassedStaysLegal ==
  ASSUME Admitted \subseteq Agreeing
  PROVE  Spec => []PassedIsLegal
<1>1. Init => LoweringInv
  BY LoweringInit
<1>2. LoweringInv /\ [Next]_vars => LoweringInv'
  BY LoweringNext
<1>3. LoweringInv => PassedIsLegal
  BY InvImpliesPassedIsLegal
<1> QED BY <1>1, <1>2, <1>3, PTL DEF Spec

\* The casts of code generation, the registers that the expansions make, the sizes
\* that the selection extends and the MOV fix leave every instruction with
\* registers of sizes that AArch64 has for it.
THEOREM SizesOfOperandsAgree ==
  ASSUME Admitted \subseteq Agreeing
  PROVE  Spec => []OperandSizesAgree
<1>1. Init => LoweringInv
  BY LoweringInit
<1>2. LoweringInv /\ [Next]_vars => LoweringInv'
  BY LoweringNext
<1>3. LoweringInv => OperandSizesAgree
  BY InvImpliesOperandSizesAgree
<1> QED BY <1>1, <1>2, <1>3, PTL DEF Spec

=============================================================================
