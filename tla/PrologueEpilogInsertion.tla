----------------------- MODULE PrologueEpilogInsertion -----------------------
(***************************************************************************)
(* The stack frame of one function from its first object to its last use:  *)
(* the objects are pushed (src/backend/IRtoLLIR.cpp), the accesses are     *)
(* lowered to offsets from SP (end of src/backend/RegisterAllocator.cpp),  *)
(* prologue and epilogue are inserted                                      *)
(* (src/backend/PrologueEpilogInsertion.cpp), and the finished code runs.  *)
(***************************************************************************)
EXTENDS StackFrame, SequencesExt

CONSTANTS
  FirstSlot,        \* NextStackSlot starts here (10000)
  StackAlignment,   \* of TargetABI
  MaxImmediate,     \* largest immediate an ADD or SUB takes (12 bits)
  LinkRegister,
  CalleeSaved,      \* set of registers
  Functions         \* what IRtoLLIR hands over

\* slots: the objects in the order they are pushed; caller: HasCall; used:
\* UsedCalleSavedRegs; blocks: accesses to objects, calls, jumps, the return.
Accesses == {"read", "write"}
Instructions == [op : Accesses \cup {"call", "jump", "ret"}, arg : Int]

\* Objects are pushed as their numbers are dealt out, and no word overflows.
SlotsAssumption(slots) ==
  /\ slots \in Seq([id : 0..(FirstSlot - 1), size : Nat])
  /\ \A i, j \in DOMAIN slots : i < j => slots[i].id < slots[j].id
  /\ \E largest \in Words :
       /\ \A i \in DOMAIN slots : slots[i].size <= largest
       /\ Len(slots) * (2 * largest) + 64 <= WordModulus

\* An instruction that leaves a block ends it, the function is left at its end.
\* Functions that call are marked; a local is read after it was written.
BlocksAssumption(f) ==
  /\ f.blocks \in Seq(Seq(Instructions)) /\ f.blocks # <<>>
  /\ \A b \in DOMAIN f.blocks :
       /\ f.blocks[b] # <<>>
       /\ \A i \in DOMAIN f.blocks[b] :
            LET instr == f.blocks[b][i] IN
            /\ instr.op = "ret" <=> b = Len(f.blocks) /\ i = Len(f.blocks[b])
            /\ instr.op = "jump" <=> b # Len(f.blocks) /\ i = Len(f.blocks[b])
            /\ instr.op = "call" => f.caller
            /\ instr.op \in Accesses => \E s \in DOMAIN f.slots : f.slots[s].id = instr.arg
            /\ instr.op = "read" =>
                 \E c \in 1..b : \E k \in DOMAIN f.blocks[c] :
                   (c = b => k < i) /\ f.blocks[c][k] = [op |-> "write", arg |-> instr.arg]

FunctionAssumption ==
  \A f \in Functions :
    /\ SlotsAssumption(f.slots) /\ BlocksAssumption(f)
    /\ f.caller \in BOOLEAN /\ f.used \in Seq(CalleeSaved)
    /\ FirstSlot + Len(f.used) < WordModulus
ASSUME FunctionAssumption

ASSUME RegisterAssumption ==
  /\ FirstSlot \in Nat /\ MaxImmediate \in Nat
  /\ StackAlignment = 16
  /\ CalleeSaved \cup {LinkRegister} \subseteq 0..(FirstSlot - 1)

VARIABLES
  func,     \* the function
  pc,       \* phase of the compilation, "run" and "returned" after it
  frame,    \* its StackFrame
  slotOf,   \* LocalPhysRegToStackSlotMap, which outlives the function
  next,     \* NextStackSlot
  blocks,   \* the basic blocks
  at,       \* running: block and instruction
  sp, lr,   \* running: stack pointer, counted from its value on entry; x30
  mem,      \* running: the owner of each byte of memory that was written
  seen      \* running: <<object, owner of a byte of it when it was read>>

machine == <<at, sp, lr, mem, seen>>
vars == <<func, pc, frame, slotOf, next, blocks, machine>>

\* The stack above the frame, and who can own what a byte or x30 holds: an
\* object or register by its ID, the caller, this function, or nobody.
CallerBytes == 0..15
CallerOwned == -1
Own == -2
Nobody == -3

Instr(op, arg) == [op |-> op, arg |-> arg]

Init ==
  /\ func \in Functions
  /\ pc = "push"
  /\ frame = EmptyFrame
  /\ \E stale \in {0, FirstSlot} :
       slotOf = [r \in CalleeSaved \cup {LinkRegister} |-> stale]
  /\ next = 0
  /\ blocks = func.blocks
  /\ at = <<1, 1>> /\ sp = 0 /\ lr = CallerOwned
  /\ mem = [a \in CallerBytes |-> CallerOwned] /\ seen = {}

-----------------------------------------------------------------------------
(* Compilation *)

\* MachineFunction::InsertStackSlot, in the order of the instructions.
PushObject ==
  LET n == Cardinality(DOMAIN frame.slots) + 1 IN
  /\ pc = "push" /\ n <= Len(func.slots)
  /\ frame' = InsertStackSlot(frame, func.slots[n].id, func.slots[n].size)
  /\ UNCHANGED <<func, pc, slotOf, next, blocks, machine>>

LowerInstr(instr) ==
  IF instr.op \in Accesses
  THEN [instr EXCEPT !.arg = [id |-> instr.arg,
                              offset |-> GetPosition(frame, instr.arg)]]
  ELSE instr

\* Stack accesses become offsets from SP, with the frame as it is now.
LowerStackAccesses ==
  /\ pc = "push" /\ Cardinality(DOMAIN frame.slots) = Len(func.slots)
  /\ blocks' = [b \in DOMAIN blocks |->
                  [i \in DOMAIN blocks[b] |-> LowerInstr(blocks[b][i])]]
  /\ pc' = "frame"
  /\ UNCHANGED <<func, frame, slotOf, next, machine>>

HasNothingToAdjust == frame.size = 0 /\ func.used = <<>> /\ func.caller

\* No prologue at all, although the function calls.
SkipFunction ==
  /\ pc = "frame" /\ HasNothingToAdjust
  /\ pc' = "run"
  /\ UNCHANGED <<func, frame, slotOf, next, blocks, machine>>

\* Mutation: the link register goes in front of the objects.
LinkSlotInFront == 0

\* The object the link register is saved in.
LinkSlot == next

StartInsertion ==
  /\ pc = "frame" /\ ~HasNothingToAdjust
  /\ next' = FirstSlot
  /\ pc' = "slots"
  /\ UNCHANGED <<func, frame, slotOf, blocks, machine>>

\* The callee-saved register whose turn it is.
HasNextUsed == next - FirstSlot < Len(func.used)
NextUsed == func.used[next - FirstSlot + 1]

\* InsertStackSlot asserts that the register's ID is not that of an object.
SlotOfCalleeSavedIsTaken ==
  /\ pc = "slots" /\ HasNextUsed /\ IsStackSlot(frame, NextUsed)
  /\ pc' = "aborted"
  /\ UNCHANGED <<func, frame, slotOf, next, blocks, machine>>

\* A callee-saved register is entered under its own ID, but the map says
\* NextStackSlot...
InsertCalleeSavedSlot ==
  /\ pc = "slots" /\ HasNextUsed /\ ~IsStackSlot(frame, NextUsed)
  /\ frame' = InsertStackSlot(frame, NextUsed, 8)
  /\ slotOf' = [slotOf EXCEPT ![NextUsed] = next]
  /\ next' = next + 1
  /\ UNCHANGED <<func, pc, blocks, machine>>

\* ... the link register is entered as the map says.
InsertLinkRegisterSlot ==
  /\ pc = "slots" /\ ~HasNextUsed
  /\ IF func.caller
     THEN /\ frame' = InsertStackSlot(frame, LinkSlot, 16)
          /\ slotOf' = [slotOf EXCEPT ![LinkRegister] = LinkSlot]
          /\ next' = next + 1
     ELSE UNCHANGED <<frame, slotOf, next>>
  /\ pc' = "adjust"
  /\ UNCHANGED <<func, blocks, machine>>

Adjustment == GetNextAlignedValue(frame.size, StackAlignment)

\* The selector asserts that the immediate of the SUB fits.
FrameTooLarge ==
  /\ pc = "adjust" /\ Adjustment > MaxImmediate
  /\ pc' = "aborted"
  /\ UNCHANGED <<func, frame, slotOf, next, blocks, machine>>

InsertStackAdjustmentUpward ==
  /\ pc = "adjust" /\ Adjustment <= MaxImmediate
  /\ blocks' = [blocks EXCEPT ![1] = InsertAt(@, 1, Instr("adjust", -Adjustment))]
  /\ pc' = "save"
  /\ UNCHANGED <<func, frame, slotOf, next, machine>>

LinkOffset == GetNextAlignedValue(GetPosition(frame, slotOf[LinkRegister]), 16)

\* Mutation: the save goes in front of the adjustment of SP.
InsertLinkRegisterSaveFirst ==
  /\ pc = "save"
  /\ blocks' = IF func.caller
               THEN [blocks EXCEPT ![1] = InsertAt(@, 1, Instr("save", LinkOffset))]
               ELSE blocks
  /\ pc' = "spill"
  /\ UNCHANGED <<func, frame, slotOf, next, machine>>

\* The adjustment is in front already, hence position 1.
InsertLinkRegisterSave ==
  /\ pc = "save"
  /\ blocks' = IF func.caller
               THEN [blocks EXCEPT ![1] = InsertAt(@, 2, Instr("save", LinkOffset))]
               ELSE blocks
  /\ pc' = "spill"
  /\ UNCHANGED <<func, frame, slotOf, next, machine>>

\* GetPosition asserts that the ID the map gives is a stack slot: the IDs of
\* the map were never inserted.
SlotOfCalleeSavedIsMissing ==
  /\ pc = "spill" /\ func.used # <<>>
  /\ ~IsStackSlot(frame, slotOf[func.used[1]])
  /\ pc' = "aborted"
  /\ UNCHANGED <<func, frame, slotOf, next, blocks, machine>>

NothingToSpill ==
  /\ pc = "spill" /\ func.used = <<>>
  /\ pc' = "reload"
  /\ UNCHANGED <<func, frame, slotOf, next, blocks, machine>>

AboveReturn(instr) ==
  [blocks EXCEPT ![Len(blocks)] = InsertAt(@, Len(@), instr)]

InsertLinkRegisterReload ==
  /\ pc = "reload"
  /\ blocks' = IF func.caller THEN AboveReturn(Instr("reload", LinkOffset))
                              ELSE blocks
  /\ pc' = "release"
  /\ UNCHANGED <<func, frame, slotOf, next, machine>>

\* Mutation: the frame is given up at the start of the last block.
InsertStackAdjustmentEarly ==
  /\ pc = "release"
  /\ blocks' = [blocks EXCEPT ![Len(blocks)] =
                  InsertAt(@, 1, Instr("adjust", Adjustment))]
  /\ pc' = "run"
  /\ UNCHANGED <<func, frame, slotOf, next, machine>>

InsertStackAdjustmentDownward ==
  /\ pc = "release"
  /\ blocks' = AboveReturn(Instr("adjust", Adjustment))
  /\ pc' = "run"
  /\ UNCHANGED <<func, frame, slotOf, next, machine>>

-----------------------------------------------------------------------------
(* Execution of the finished code *)

Current == blocks[at[1]][at[2]]
Following == <<at[1], at[2] + 1>>

compiled == <<func, frame, slotOf, next, blocks>>

WriteBytes(first, size, owner) ==
  [a \in DOMAIN mem \cup (first..(first + size - 1)) |->
     IF a \in first..(first + size - 1) THEN owner ELSE mem[a]]

\* What a byte holds; outside of what was written it is anything.
Owner(a) == IF a \in DOMAIN mem THEN mem[a] ELSE Nobody

AdjustSP ==
  /\ pc = "run" /\ Current.op = "adjust"
  /\ sp' = sp + Current.arg
  /\ at' = Following
  /\ UNCHANGED <<compiled, pc, lr, mem, seen>>

\* What is saved is the caller's only before the first call.
SaveLR ==
  /\ pc = "run" /\ Current.op = "save"
  /\ mem' = WriteBytes(sp + Current.arg, 8,
                       IF lr = CallerOwned THEN LinkRegister ELSE Nobody)
  /\ at' = Following
  /\ UNCHANGED <<compiled, pc, sp, lr, seen>>

\* A whole x30 comes back only if nobody wrote to a byte of it.
ReloadLR ==
  /\ pc = "run" /\ Current.op = "reload"
  /\ lr' = IF \A a \in (sp + Current.arg)..(sp + Current.arg + 7) :
                Owner(a) = LinkRegister
           THEN CallerOwned ELSE Nobody
  /\ at' = Following
  /\ UNCHANGED <<compiled, pc, sp, mem, seen>>

WriteObject ==
  /\ pc = "run" /\ Current.op = "write"
  /\ mem' = WriteBytes(sp + Current.arg.offset, frame.slots[Current.arg.id],
                       Current.arg.id)
  /\ at' = Following
  /\ UNCHANGED <<compiled, pc, sp, lr, seen>>

ReadObject ==
  LET first == sp + Current.arg.offset
      last == first + frame.slots[Current.arg.id] - 1
  IN
  /\ pc = "run" /\ Current.op = "read"
  /\ seen' = seen \cup {<<Current.arg.id, Owner(a)>> : a \in first..last}
  /\ at' = Following
  /\ UNCHANGED <<compiled, pc, sp, lr, mem>>

\* The callee returns here through x30 and uses the stack below SP.
CallFunction ==
  /\ pc = "run" /\ Current.op = "call"
  /\ lr' = Own
  /\ mem' = [a \in {b \in DOMAIN mem : b >= sp} |-> mem[a]]
  /\ at' = Following
  /\ UNCHANGED <<compiled, pc, sp, seen>>

JumpToNextBlock ==
  /\ pc = "run" /\ Current.op = "jump"
  /\ at' = <<at[1] + 1, 1>>
  /\ UNCHANGED <<compiled, pc, sp, lr, mem, seen>>

ReturnFromFunction ==
  /\ pc = "run" /\ Current.op = "ret"
  /\ pc' = "returned"
  /\ UNCHANGED <<compiled, machine>>

Terminated == pc \in {"aborted", "returned"} /\ UNCHANGED vars

Next ==
  \/ PushObject \/ LowerStackAccesses \/ SkipFunction
  \/ StartInsertion \/ SlotOfCalleeSavedIsTaken \/ InsertCalleeSavedSlot
  \/ InsertLinkRegisterSlot
  \/ FrameTooLarge \/ InsertStackAdjustmentUpward \/ InsertLinkRegisterSave
  \/ SlotOfCalleeSavedIsMissing \/ NothingToSpill
  \/ InsertLinkRegisterReload \/ InsertStackAdjustmentDownward
  \/ AdjustSP \/ SaveLR \/ ReloadLR \/ WriteObject \/ ReadObject
  \/ CallFunction \/ JumpToNextBlock \/ ReturnFromFunction
  \/ Terminated

Spec == Init /\ [][Next]_vars /\ WF_vars(Next)

-----------------------------------------------------------------------------
(* Properties *)

\* The insertion gives up on the other functions (CalleeSavedCanBeSpilled): the
\* slots of their registers are in nobody's order and may move the objects.
SavesNoRegister == func.used = <<>>

\* Two objects of a frame never share a byte, whatever their sizes are and
\* however alignment spreads them.
ObjectsDisjoint ==
  SavesNoRegister =>
    \A i, j \in DOMAIN frame.slots :
      i # j => Bytes(frame, i) \cap Bytes(frame, j) = {}

\* The size that was accumulated while pushing covers the positions that are
\* computed from the map afterwards.
FrameCoversObjects ==
  SavesNoRegister =>
    \A i \in DOMAIN frame.slots : Bytes(frame, i) \subseteq 0..(frame.size - 1)

\* Offsets are lowered before prologue insertion adds its own objects: those
\* must not move the objects the code already refers to.
LoweredOffsetsStayValid ==
  SavesNoRegister /\ pc \notin {"push", "aborted"} =>
    \A b \in DOMAIN blocks : \A i \in DOMAIN blocks[b] :
      blocks[b][i].op \in Accesses =>
        blocks[b][i].arg.offset = GetPosition(frame, blocks[b][i].arg.id)

\* What is read from a local is what was last written to it, also across calls
\* and next to the saved link register.
LocalsKeepTheirValues == \A s \in seen : s[1] = s[2]

\* A function with a prologue returns to its caller: SP and the return address
\* are what they were on entry, and the caller's stack was not written to.
ReturnsToItsCaller ==
  pc = "returned" /\ ~HasNothingToAdjust =>
    /\ sp = 0
    /\ lr = CallerOwned
    /\ \A a \in CallerBytes : mem[a] = CallerOwned

\* Every call finds SP aligned as the ABI demands, whatever the frame's size.
CallsWithAlignedStack ==
  pc = "run" /\ Current.op = "call" => sp % StackAlignment = 0

\* A function that calls saves and restores the return address, also when it
\* has no stack frame.
ReturnAddressIsKept == pc = "returned" => lr = CallerOwned

\* The registers that must be saved by the called function are saved: the
\* insertion does not give up on a function that uses them.
CalleeSavedCanBeSpilled == pc = "aborted" => SavesNoRegister

\* The order of the entries represents the order of the objects pushed to the
\* stack: what was pushed later lies behind.
PositionsInPushOrder ==
  \A i, j \in 1..Len(func.slots) :
    LET a == func.slots[i].id
        b == func.slots[j].id
    IN i < j /\ IsStackSlot(frame, a) /\ IsStackSlot(frame, b)
         => GetPosition(frame, a) + frame.slots[a] <= GetPosition(frame, b)
=============================================================================
