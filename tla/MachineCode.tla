------------------------------ MODULE MachineCode ------------------------------
(***************************************************************************)
(* The instructions of a machine basic block, generic ones and those of     *)
(* AArch64 (src/backend/MachineInstruction.hpp, AArch64InstructionDefinitions), *)
(* and what they do.  The legalizer and the selection rewrite a block one   *)
(* instruction at a time, so that a block may hold both sorts.              *)
(*                                                                         *)
(* Sizes are 8, 32 and 64 as in the source; Bits gives the number of bits   *)
(* that stand for them.                                                     *)
(***************************************************************************)
EXTENDS Integers, Sequences

CONSTANTS
  Bits,         \* size |-> number of bits
  SizeOf,       \* variable |-> size of its object
  Global        \* the variable that is no stack slot

ASSUME MachineCodeAssumption ==
  /\ Bits \in [{1, 8, 32, 64} -> Nat \ {0}]
  /\ Bits[8] < Bits[32] /\ Bits[32] < Bits[64]
  /\ \A v \in DOMAIN SizeOf : SizeOf[v] \in {8, 32, 64}

Variables == DOMAIN SizeOf

-----------------------------------------------------------------------------
(* Operands and instructions *)

Reg(n, size) == [kind |-> "register", id |-> n, size |-> size]
Imm(n) == [kind |-> "immediate", id |-> n, size |-> 32]
Slot(v) == [kind |-> "slot", id |-> v, size |-> SizeOf[v]]
Mem(n) == [kind |-> "memory", id |-> n, size |-> 64]
Symbol(v) == [kind |-> "symbol", id |-> v, size |-> 64]
LowPart(v) == [kind |-> "lo12", id |-> v, size |-> 64]
Label == [kind |-> "label", id |-> 0, size |-> 0]

\* GetZeroRegister: it is printed as wzr whatever its size.
Zero == [kind |-> "zero", id |-> 0, size |-> 64]

IsImmediate(o) == o.kind = "immediate"

Instr(op, args) == [op |-> op, args |-> args, relation |-> "none"]
Compare(relation, args) == [op |-> "CMP", args |-> args, relation |-> relation]

GenericOps ==
  {"LSL", "ADD", "SUB", "MUL", "DIV", "DIVU", "MOD", "MODU", "CMP", "SEXT", "ZEXT", "TRUNC",
   "BRANCH", "LOAD", "STORE", "GLOBAL_ADDRESS", "LOAD_IMM", "ZEXT_LOAD"}

IsAlreadySelected(mi) == mi.op \notin GenericOps

\* A W or an X register.
RegisterSize(size) == IF size = 64 THEN 64 ELSE 32

-----------------------------------------------------------------------------
(* The machine: registers, variables, the condition flags, whether a branch  *)
(* was taken, and whether it did what has no meaning: used a register that   *)
(* was never written, or memory around an object.                            *)

Page == 999
Address == 1000

Start(memory) ==
  [regs |-> <<>>, memory |-> memory, flags |-> <<0, 0>>, taken |-> FALSE, fault |-> FALSE]

Fault(m) == [m EXCEPT !.fault = TRUE]

Content(m, o) ==
  IF o.kind = "zero" THEN 0
  ELSE IF o.kind = "immediate" THEN o.id
  ELSE IF o.id \in DOMAIN m.regs THEN m.regs[o.id] ELSE 0

Unwritten(m, o) == o.kind \in {"register", "memory"} /\ o.id \notin DOMAIN m.regs

Truncated(n, size) == n % 2 ^ Bits[size]

Signed(n, size) ==
  LET u == Truncated(n, size)
  IN IF u >= 2 ^ (Bits[size] - 1) THEN u - 2 ^ Bits[size] ELSE u

WriteReg(m, n, value) ==
  [m EXCEPT !.regs = [k \in DOMAIN @ \cup {n} |-> IF k = n THEN value ELSE @[k]]]

\* A shorter register is the low part of the longer one, and clears the rest.
Write(m, mi, value) ==
  WriteReg(m, mi.args[1].id, Truncated(value, RegisterSize(mi.args[1].size)))

Quotient(a, b) ==
  LET abs(n) == IF n < 0 THEN -n ELSE n
      q == abs(a) \div abs(b)
  IN IF b = 0 THEN 0 ELSE IF (a < 0) = (b < 0) THEN q ELSE -q

Compute(op, a, b) ==
  CASE op = "ADD" -> a + b
    [] op = "SUB" -> a - b
    [] op = "MUL" -> a * b
    [] op \in {"DIV", "DIVU"} -> Quotient(a, b)
    [] op \in {"MOD", "MODU"} -> a - b * Quotient(a, b)
    [] op = "LSL" -> a * 2 ^ b

UnsignedOps == {"DIVU", "MODU"}

Holds(relation, a, b) ==
  CASE relation = "EQ" -> a = b
    [] relation = "NE" -> a # b
    [] relation = "LT" -> a < b
    [] relation = "GE" -> a >= b
    [] relation = "GT" -> a > b
    [] relation = "LE" -> a <= b

-----------------------------------------------------------------------------
(* What one instruction does *)

Arithmetic ==
  [ADD |-> "ADD", SUB |-> "SUB", MUL |-> "MUL", DIV |-> "DIV", DIVU |-> "DIVU",
   MOD |-> "MOD", MODU |-> "MODU", LSL |-> "LSL",
   ADD_rri |-> "ADD", ADD_rrr |-> "ADD", SUB_rri |-> "SUB", SUB_rrr |-> "SUB",
   MUL_rri |-> "MUL", MUL_rrr |-> "MUL", SDIV_rri |-> "DIV", SDIV_rrr |-> "DIV",
   UDIV_rrr |-> "DIVU", LSL_rri |-> "LSL", LSL_rrr |-> "LSL"]

Branches == [BEQ |-> "EQ", BNE |-> "NE", BLT |-> "LT", BGE |-> "GE", BGT |-> "GT", BLE |-> "LE"]

\* An operand as a number: at the width of its register, an immediate at that of
\* the result.
Operand(m, mi, o, unsigned) ==
  LET width == RegisterSize((IF IsImmediate(o) THEN mi.args[1] ELSE o).size)
  IN IF unsigned THEN Truncated(Content(m, o), width)
     ELSE IF IsImmediate(o) THEN o.id
     ELSE Signed(Content(m, o), width)

\* :lo12: completes the address of a page.
DoArithmetic(m, mi) ==
  LET op == Arithmetic[mi.op]
      value(i) == Operand(m, mi, mi.args[i], op \in UnsignedOps)
  IN IF mi.args[3].kind = "lo12"
     THEN IF Content(m, mi.args[2]) = Page THEN WriteReg(m, mi.args[1].id, Address) ELSE Fault(m)
     ELSE Write(m, mi, Compute(op, value(2), value(3)))

Compared(m, mi, i) ==
  <<Operand(m, mi, mi.args[i], FALSE), Operand(m, mi, mi.args[i + 1], FALSE)>>

\* The object at an address, if there is one.
Objects(m, o) ==
  IF o.kind = "slot" THEN {o.id}
  ELSE IF Content(m, o) = Address THEN {Global} ELSE {}

\* A load of some width into a register.
DoLoad(m, mi, address, width) ==
  IF \E v \in Objects(m, address) : width <= SizeOf[v]
  THEN Write(m, mi, Truncated(m.memory[CHOOSE v \in Objects(m, address) : TRUE], width))
  ELSE Fault(m)

\* A store of the low part of a register or of a constant.
DoStore(m, mi, width) ==
  LET address == mi.args[1]
      value == Truncated(Content(m, mi.args[2]), width)
      stored(old) == old - Truncated(old, width) + value
  IN IF \E v \in Objects(m, address) : width <= SizeOf[v]
     THEN [m EXCEPT !.memory[CHOOSE v \in Objects(m, address) : TRUE] = stored(@)]
     ELSE Fault(m)

\* The zero register is a W register; no more than a byte goes to a slot of one.
StoredSize(o) == IF o.kind = "zero" THEN 32 ELSE o.size
IsByte(o) == o.kind = "slot" /\ o.size = 8

\* The operands that are read.
Reads(mi) ==
  CASE mi.op \in {"CMP_ri", "CMP_rr", "BRANCH", "STORE", "STR", "STRB"} -> DOMAIN mi.args
    [] mi.op = "ZEXT_LOAD" -> {3}
    [] OTHER -> DOMAIN mi.args \ {1}

Execute(m, mi) ==
  LET args == mi.args
      source == args[Len(args)]
      effect ==
        CASE mi.op \in DOMAIN Arithmetic -> DoArithmetic(m, mi)
          [] mi.op = "CMP" ->
               WriteReg(m, args[1].id, LET c == Compared(m, mi, 2)
                                       IN IF Holds(mi.relation, c[1], c[2]) THEN 1 ELSE 0)
          [] mi.op \in {"CMP_ri", "CMP_rr"} -> [m EXCEPT !.flags = Compared(m, mi, 1)]
          [] mi.op = "BRANCH" -> [m EXCEPT !.taken = Content(m, args[1]) # 0]
          [] mi.op \in DOMAIN Branches ->
               [m EXCEPT !.taken = Holds(Branches[mi.op], m.flags[1], m.flags[2])]
          [] mi.op = "SEXT" -> Write(m, mi, Signed(Content(m, source), source.size))
          [] mi.op = "SXTB" -> Write(m, mi, Signed(Content(m, source), 8))
          [] mi.op = "SXTW" -> Write(m, mi, Signed(Content(m, source), 32))
          [] mi.op = "ZEXT" -> Write(m, mi, Truncated(Content(m, source), source.size))
          [] mi.op = "AND_rri" -> Write(m, mi, Truncated(Content(m, args[2]), 8))
          [] mi.op \in {"TRUNC", "LOAD_IMM", "MOV_rc", "MOV_rr"} -> Write(m, mi, Content(m, source))
          [] mi.op = "GLOBAL_ADDRESS" -> WriteReg(m, args[1].id, Address)
          [] mi.op = "ADRP" -> WriteReg(m, args[1].id, Page)
          [] mi.op = "LOAD" -> DoLoad(m, mi, source, args[1].size)
          [] mi.op = "ZEXT_LOAD" -> DoLoad(m, mi, source, args[2].size)
          [] mi.op = "LDRB" -> DoLoad(m, mi, source, 8)
          [] mi.op = "LDR" -> DoLoad(m, mi, source, RegisterSize(args[1].size))
          [] mi.op = "STORE" -> DoStore(m, mi, IF IsByte(args[1]) THEN 8 ELSE StoredSize(source))
          [] mi.op = "STRB" -> DoStore(m, mi, 8)
          [] mi.op = "STR" -> DoStore(m, mi, RegisterSize(StoredSize(source)))
  IN IF \E i \in Reads(mi) : Unwritten(m, args[i]) THEN Fault(m) ELSE effect

\* A whole block.
Run(code, memory) ==
  LET f[k \in 0..Len(code)] ==
        IF k = 0 THEN Start(memory) ELSE Execute(f[k - 1], code[k])
  IN f[Len(code)]

-----------------------------------------------------------------------------
(* Sizes that an assembler accepts: those of the registers of an instruction *)
(* agree, but for extensions, and a byte is loaded into a W register.        *)

Registers(mi) == {i \in DOMAIN mi.args : mi.args[i].kind = "register"}

Assembles(mi) ==
  /\ IsAlreadySelected(mi)
  /\ mi.op \in {"SXTB", "SXTW"}
       \/ \A i, j \in Registers(mi) :
            RegisterSize(mi.args[i].size) = RegisterSize(mi.args[j].size)
  /\ mi.op \in {"LDRB", "STRB"} =>
       \A i \in Registers(mi) : RegisterSize(mi.args[i].size) = 32

=============================================================================
