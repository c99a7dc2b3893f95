-------------------------- MODULE RegisterAllocator --------------------------
(***************************************************************************)
(* The linear-scan register allocator of the back end                      *)
(* (src/backend/RegisterAllocator.cpp), run on one machine function.       *)
(*                                                                         *)
(* A register is a pair <<unit, bits>>: the unit is the full-width         *)
(* register (x0, x1, ...), which is what the pools hold; a register of     *)
(* fewer bits is the sub-register of its unit (w0 of x0).  An instruction  *)
(* keeps the operands the allocator looks at: virtual registers,           *)
(* parameters, bases of memory accesses and, for a return, an immediate.   *)
(***************************************************************************)
EXTENDS Naturals, Sequences, FiniteSets, SequencesExt, FiniteSetsExt

CONSTANTS
  Unit,               \* full-width physical registers
  ArgumentRegisters,  \* TargetABI: sequence of units
  CallerSaved,        \* TargetABI: sequence of units, the first pool
  CalleeSaved,        \* TargetABI: sequence of units, the backup pool
  ReturnRegister,     \* first of TargetABI's return registers
  Widths,             \* the bit widths a unit and its sub-registers have
  Unkilled,           \* the kill line ~0 of a range that was never used
  MachineFunctions    \* the functions handed to the allocator

VReg == Nat
Operand == [vreg : BOOLEAN, val : VReg, size : Nat]
\* writes: the first operand is a destination; fixed: the units the
\* instruction itself names as destination (argument moves, the clobbers of a
\* call).  The allocator looks at neither.
Instr == [ops : Seq(Operand), writes : BOOLEAN, ret : BOOLEAN,
          fixed : SUBSET Unit]
\* lastBB: position of the first instruction of the last basic block.
MachineFunction == [params : Seq([reg : VReg, size : Nat]), code : Seq(Instr),
                    lastBB : Nat]

ASSUME ABIAssumption ==
  /\ ArgumentRegisters \in Seq(Unit)
  /\ CallerSaved \in Seq(Unit) /\ IsInjective(CallerSaved)
  /\ CalleeSaved \in Seq(Unit) /\ IsInjective(CalleeSaved)
  /\ Range(CallerSaved) \cap Range(CalleeSaved) = {}
  /\ Range(ArgumentRegisters) \cup {ReturnRegister} \subseteq Range(CallerSaved)
  /\ Widths \in [Unit -> SUBSET Nat]

ASSUME FunctionAssumption ==
  /\ MachineFunctions \subseteq MachineFunction
  /\ Unkilled \in Nat
  /\ \A f \in MachineFunctions : Len(f.code) <= Unkilled

VARIABLES
  fn,         \* the function being allocated
  pc,         \* phase of RunRA
  counter,    \* InstrCounter of the live range computation
  ranges,     \* LiveRanges: virtual register -> [def, kill]
  width,      \* VRegToMOMap: virtual register -> size of its first operand
  allocated,  \* AllocatedRegisters: virtual register -> <<unit, bits>>
  pool,       \* RegisterPool
  backup,     \* BackupRegisterPool
  used,       \* UsedCalleSavedRegs of the function
  todo,       \* the part of SortedLiveRanges not visited yet
  now,        \* DefLine of the interval being visited
  worklist,   \* FreeAbleWorkList
  index,      \* i, from 1: where the loop over the work list is
  emitted     \* the registers the operands were rewritten to

vars == <<fn, pc, counter, ranges, width, allocated, pool, backup, used, todo,
          now, worklist, index, emitted>>

-----------------------------------------------------------------------------
(* Helpers *)

\* Mutation: the sub-register itself goes back to the pool.
Itself(r) == r

\* GetParentReg, or the register itself when it has none.
Parent(r) == r[1]

\* The first operand is a virtual register the instruction writes.
Writes(instr) ==
  instr.writes /\ 1 \in DOMAIN instr.ops /\ instr.ops[1].vreg

ParamVRegs(f) == {f.params[i].reg : i \in DOMAIN f.params}

ParamIndex(f, v) == CHOOSE i \in DOMAIN f.params : f.params[i].reg = v

\* Every return of the last block that has an operand, whatever the operand is.
Returns(f) ==
  {i \in DOMAIN f.code : i >= f.lastBB /\ f.code[i].ret /\ f.code[i].ops # <<>>}

RetVRegs(f) == {f.code[i].ops[1].val : i \in Returns(f)}

RetSize(f, v) ==
  f.code[Min({i \in Returns(f) : f.code[i].ops[1].val = v})].ops[1].size

PreAllocated(f) == ParamVRegs(f) \cup RetVRegs(f)

PreAllocatedUnits ==
  {Parent(allocated[v]) : v \in PreAllocated(fn) \cap DOMAIN allocated}

\* The registers handed out by the scan, as opposed to the pre-allocated ones.
Scanned == DOMAIN allocated \ PreAllocated(fn)

MentionsIn(instr, v) ==
  {j \in DOMAIN instr.ops : instr.ops[j].vreg /\ instr.ops[j].val = v}

\* Mutation: only the sources are looked at.
SourceVRegsIn(instr) ==
  {instr.ops[j].val : j \in {k \in DOMAIN instr.ops : instr.ops[k].vreg /\ k > 1}}

VRegsIn(instr) ==
  {instr.ops[j].val : j \in {k \in DOMAIN instr.ops : instr.ops[k].vreg}}

\* What IRtoLLIR hands over, as far as the allocator relies on it: there is at
\* most one register to return, nothing is written to a parameter's register,
\* and by the time the register to return is written (it may share x0 with the
\* first parameter) the parameters have been stored to their stack slots.
ASSUME LoweringAssumption ==
  \A f \in MachineFunctions :
    /\ \A u, w \in RetVRegs(f) : u = w
    /\ \A k \in DOMAIN f.code :
         Writes(f.code[k]) =>
           /\ f.code[k].ops[1].val \notin ParamVRegs(f)
           /\ f.code[k].ops[1].val \in RetVRegs(f) =>
                \A i \in DOMAIN f.code :
                  i > k => VRegsIn(f.code[i]) \cap ParamVRegs(f) = {}

-----------------------------------------------------------------------------
Init ==
  /\ fn \in MachineFunctions
  /\ pc = "preallocate"
  /\ counter = 0
  /\ ranges = <<>> /\ width = <<>> /\ allocated = <<>>
  /\ pool = CallerSaved /\ backup = CalleeSaved /\ used = <<>>
  /\ todo = {} /\ now = 0 /\ worklist = <<>> /\ index = 1
  /\ emitted = <<>>

\* PreAllocateParameters asserts that there is an argument register for each.
OutOfParameterRegisters ==
  /\ pc = "preallocate"
  /\ Len(fn.params) > Len(ArgumentRegisters)
  /\ pc' = "aborted"
  /\ UNCHANGED <<fn, counter, ranges, width, allocated, pool, backup, used,
                 todo, now, worklist, index, emitted>>

\* PreAllocateParameters, then PreAllocateReturnRegister, whose entries
\* overwrite those of the parameters.
PreAllocate ==
  /\ pc = "preallocate"
  /\ Len(fn.params) <= Len(ArgumentRegisters)
  /\ ranges' = [v \in ParamVRegs(fn) |-> [def |-> 0, kill |-> Unkilled]]
  /\ allocated' =
       [v \in PreAllocated(fn) |->
          IF v \in RetVRegs(fn)
          THEN <<ReturnRegister, RetSize(fn, v)>>
          ELSE <<ArgumentRegisters[ParamIndex(fn, v)],
                 fn.params[ParamIndex(fn, v)].size>>]
  /\ pc' = "ranges"
  /\ UNCHANGED <<fn, counter, width, pool, backup, used, todo, now, worklist,
                 index, emitted>>

\* Mutation: the scan may start with pre-allocated registers in the pool.
Unpruned == TRUE

\* The pre-allocated registers and the registers they are parts of are gone.
PoolPruned == Range(pool) \cap PreAllocatedUnits = {}

\* One round of the loop that takes the pre-allocated registers out of the pool.
RemovePreAllocated ==
  /\ pc = "ranges"
  /\ \E i \in DOMAIN pool :
       /\ pool[i] \in PreAllocatedUnits
       /\ pool' = RemoveAt(pool, i)
  /\ UNCHANGED <<fn, pc, counter, ranges, width, allocated, backup, used, todo,
                 now, worklist, index, emitted>>

\* Mutation: the kill line stays where it was first set.
FirstUseRange(instr, v) ==
  IF v \notin DOMAIN ranges THEN [def |-> counter, kill |-> Unkilled]
  ELSE [def |-> ranges[v].def, kill |-> Min({ranges[v].kill, counter})]

\* The first mention of a register opens its range, every later one (also in
\* the same instruction) moves the kill line.
RangeAfter(instr, v) ==
  IF v \in DOMAIN ranges THEN [def |-> ranges[v].def, kill |-> counter]
  ELSE [def |-> counter,
        kill |-> IF Cardinality(MentionsIn(instr, v)) > 1 THEN counter
                 ELSE Unkilled]

ScanInstruction ==
  LET instr == fn.code[counter + 1] IN
  /\ pc = "ranges" /\ PoolPruned
  /\ counter < Len(fn.code)
  /\ ranges' =
       [v \in DOMAIN ranges \cup VRegsIn(instr) |->
          IF v \in VRegsIn(instr) THEN RangeAfter(instr, v) ELSE ranges[v]]
  /\ width' =
       [v \in DOMAIN width \cup VRegsIn(instr) |->
          IF v \in DOMAIN width THEN width[v]
          ELSE instr.ops[Min(MentionsIn(instr, v))].size]
  /\ counter' = counter + 1
  /\ UNCHANGED <<fn, pc, allocated, pool, backup, used, todo, now, worklist,
                 index, emitted>>

SortRanges ==
  /\ pc = "ranges" /\ PoolPruned
  /\ counter = Len(fn.code)
  /\ todo' = DOMAIN ranges
  /\ pc' = "allocate"
  /\ UNCHANGED <<fn, counter, ranges, width, allocated, pool, backup, used,
                 now, worklist, index, emitted>>

\* The order of std::sort: by def line, then by kill line; ties either way.
Precedes(u, v) ==
  \/ ranges[u].def < ranges[v].def
  \/ ranges[u].def = ranges[v].def /\ ranges[u].kill < ranges[v].kill

IsNext(v) == v \in todo /\ \A u \in todo : ~Precedes(u, v)

\* The interval's register is there already: only the freeing follows.
VisitAllocated(v) ==
  /\ pc = "allocate" /\ IsNext(v)
  /\ v \in DOMAIN allocated
  /\ todo' = todo \ {v} /\ now' = ranges[v].def /\ index' = 1
  /\ pc' = "free"
  /\ UNCHANGED <<fn, counter, ranges, width, allocated, pool, backup, used,
                 worklist, emitted>>

\* The pool GetNextAvailableReg searches: an empty one is first given the head
\* of the backup pool.
SearchPool == IF pool = <<>> THEN <<backup[1]>> ELSE pool

Fitting(v) == {i \in DOMAIN SearchPool : width[v] \in Widths[SearchPool[i]]}

\* Mutation: the prologue is not told.
RefillSilently ==
  IF pool = <<>> THEN backup' = Tail(backup) /\ UNCHANGED used
                 ELSE UNCHANGED <<backup, used>>

\* Moving the head of the backup pool over marks it as used.
Refill ==
  IF pool = <<>>
  THEN backup' = Tail(backup) /\ used' = Append(used, Head(backup))
  ELSE UNCHANGED <<backup, used>>

AllocateInterval(v) ==
  /\ pc = "allocate" /\ IsNext(v)
  /\ v \notin DOMAIN allocated
  /\ ~(pool = <<>> /\ backup = <<>>)
  /\ Fitting(v) # {}
  /\ LET i == Min(Fitting(v)) IN
       /\ allocated' = [w \in DOMAIN allocated \cup {v} |->
                          IF w = v THEN <<SearchPool[i], width[v]>>
                                   ELSE allocated[w]]
       /\ pool' = RemoveAt(SearchPool, i)
  /\ Refill
  /\ worklist' = Append(worklist, v)
  /\ todo' = todo \ {v} /\ now' = ranges[v].def /\ index' = 1
  /\ pc' = "free"
  /\ UNCHANGED <<fn, counter, ranges, width, emitted>>

\* assert "Ran out of registers": there is no spilling.
RunOutOfRegisters(v) ==
  /\ pc = "allocate" /\ IsNext(v)
  /\ v \notin DOMAIN allocated
  /\ pool = <<>> /\ backup = <<>>
  /\ pc' = "ranOut"
  /\ UNCHANGED <<fn, counter, ranges, width, allocated, pool, backup, used,
                 todo, now, worklist, index, emitted>>

\* assert "Have not found the right registers".
NoRegisterFits(v) ==
  /\ pc = "allocate" /\ IsNext(v)
  /\ v \notin DOMAIN allocated
  /\ ~(pool = <<>> /\ backup = <<>>)
  /\ Fitting(v) = {}
  /\ pc' = "aborted"
  /\ UNCHANGED <<fn, counter, ranges, width, allocated, pool, backup, used,
                 todo, now, worklist, index, emitted>>

\* Mutation: the definition line is compared instead of the kill line.
ExpiredByDefinition == {i \in DOMAIN worklist : ranges[worklist[i]].def < now}

Expired == {i \in DOMAIN worklist : ranges[worklist[i]].kill < now}

\* The rounds of the loop that frees.  Mutation: the entry is not erased.
FreeAgain ==
  /\ pc = "free" /\ index \in Expired
  /\ pool' = <<Parent(allocated[worklist[index]])>> \o pool
  /\ index' = index + 1
  /\ UNCHANGED <<fn, pc, counter, ranges, width, allocated, backup, used, todo,
                 now, worklist, emitted>>

\* The parent of the register goes to the front of the pool.  The entry behind the
\* erased one has its index, which is set back and counted up.
FreeExpired ==
  /\ pc = "free" /\ index \in Expired
  /\ pool' = <<Parent(allocated[worklist[index]])>> \o pool
  /\ worklist' = RemoveAt(worklist, index)
  /\ UNCHANGED <<fn, pc, counter, ranges, width, allocated, backup, used, todo,
                 now, index, emitted>>

\* Mutation: the index is set back in every round.
KeepAndSetBack ==
  /\ pc = "free" /\ index \in DOMAIN worklist \ Expired
  /\ UNCHANGED vars

\* Mutation: the loop ends at a range that is live.
StopAtLive ==
  /\ pc = "free" /\ index \in DOMAIN worklist \ Expired
  /\ pc' = "allocate"
  /\ UNCHANGED <<fn, counter, ranges, width, allocated, pool, backup, used,
                 todo, now, worklist, index, emitted>>

KeepLive ==
  /\ pc = "free" /\ index \in DOMAIN worklist \ Expired
  /\ index' = index + 1
  /\ UNCHANGED <<fn, pc, counter, ranges, width, allocated, pool, backup, used,
                 todo, now, worklist, emitted>>

FreeingDone ==
  /\ pc = "free" /\ index > Len(worklist)
  /\ pc' = "allocate"
  /\ UNCHANGED <<fn, counter, ranges, width, allocated, pool, backup, used,
                 todo, now, worklist, index, emitted>>

\* AllocatedRegisters[v]: a missing entry is made up as register 0.
NoRegister == <<>>

RegisterOf(v) == IF v \in DOMAIN allocated THEN allocated[v] ELSE NoRegister

\* Virtual registers, parameters and memory bases become physical registers.
RewriteOperands ==
  /\ pc = "allocate"
  /\ todo = {}
  /\ emitted' = [i \in DOMAIN fn.code |->
                   [j \in {k \in DOMAIN fn.code[i].ops : fn.code[i].ops[k].vreg}
                      |-> RegisterOf(fn.code[i].ops[j].val)]]
  /\ pc' = "done"
  /\ UNCHANGED <<fn, counter, ranges, width, allocated, pool, backup, used,
                 todo, now, worklist, index>>

Terminated == pc \in {"done", "aborted", "ranOut"} /\ UNCHANGED vars

Next ==
  \/ OutOfParameterRegisters \/ PreAllocate \/ RemovePreAllocated
  \/ ScanInstruction \/ SortRanges
  \/ \E v \in todo : \/ VisitAllocated(v) \/ AllocateInterval(v)
                     \/ RunOutOfRegisters(v) \/ NoRegisterFits(v)
  \/ FreeExpired \/ KeepLive \/ FreeingDone \/ RewriteOperands
  \/ Terminated

\* The compiler is one thread that runs until it exits or an assertion stops it.
Spec == Init /\ [][Next]_vars /\ WF_vars(Next)

-----------------------------------------------------------------------------
(* Properties *)

Phases == {"preallocate", "ranges", "allocate", "free", "done", "aborted",
           "ranOut"}

LiveRange == [def : Nat, kill : Nat]

\* Every variable has the type its declaration announces (what the operands are
\* rewritten to is the subject of EveryOperandGetsARegister).
TypeOK ==
  /\ fn \in MachineFunction
  /\ pc \in Phases
  /\ counter \in 0..Len(fn.code)
  /\ DOMAIN ranges \subseteq VReg /\ ranges \in [DOMAIN ranges -> LiveRange]
  /\ DOMAIN width \subseteq VReg /\ width \in [DOMAIN width -> Nat]
  /\ DOMAIN allocated \subseteq VReg
  /\ allocated \in [DOMAIN allocated -> Unit \X Nat]
  /\ pool \in Seq(Unit) /\ backup \in Seq(Unit) /\ used \in Seq(Unit)
  /\ todo \subseteq DOMAIN ranges
  /\ now \in Nat
  /\ worklist \in Seq(DOMAIN allocated)
  /\ index \in Nat

Scanning == pc \in {"allocate", "free", "done", "ranOut"}

\* The register of the i-th entry of the work list.
Held(i) == Parent(allocated[worklist[i]])

HeldUnits == {Held(i) : i \in DOMAIN worklist}

\* Throughout the scan a register is in exactly one place: the pool, the backup
\* pool, held by one live range, or pre-allocated.  Taking from one pool,
\* refilling it from the other and freeing at its front neither double a
\* register nor lose one.
RegistersConserved ==
  Scanning =>
    /\ IsInjective(pool) /\ IsInjective(backup)
    /\ \A i, j \in DOMAIN worklist : Held(i) = Held(j) => i = j
    /\ Range(pool) \cap Range(backup) = {}
    /\ HeldUnits \cap (Range(pool) \cup Range(backup)) = {}
    /\ PreAllocatedUnits
         \cap (Range(pool) \cup Range(backup) \cup HeldUnits) = {}
    /\ Range(CallerSaved) \cup Range(CalleeSaved)
         = Range(pool) \cup Range(backup) \cup HeldUnits \cup PreAllocatedUnits

Overlap(u, v) ==
  ranges[u].def <= ranges[v].kill /\ ranges[v].def <= ranges[u].kill

\* Two virtual registers whose live ranges overlap are never given the same
\* register by the scan, although registers are freed and handed out again.
NoInterference ==
  \A u, v \in Scanned :
    u # v /\ Overlap(u, v) => Parent(allocated[u]) # Parent(allocated[v])

\* What the prologue has to save is exactly what was taken from the backup
\* pool, each register once and in the order of the ABI; a callee-saved register
\* is never handed out without being recorded.
CalleeSavedRecorded ==
  /\ used \o backup = CalleeSaved
  /\ \A v \in Scanned :
       Parent(allocated[v]) \in Range(CalleeSaved)
         => Parent(allocated[v]) \in Range(used)

\* The allocator gives up only under real pressure: when it reports that it ran
\* out, every register it may use belongs to a range that still had uses at or
\* after the previous definition.
RunsOutOnlyUnderPressure ==
  pc = "ranOut" =>
    {Parent(allocated[v]) : v \in {w \in Scanned : ranges[w].kill >= now}}
      = (Range(CallerSaved) \cup Range(CalleeSaved)) \ PreAllocatedUnits

\* The map would silently make up register 0 for an operand
\* that was never allocated: there is none, each operand of the function that
\* names a virtual register leaves with a register of the target.
EveryOperandGetsARegister ==
  pc = "done" =>
    \A i \in DOMAIN fn.code : \A j \in DOMAIN fn.code[i].ops :
      fn.code[i].ops[j].vreg => emitted[i][j] \in Unit \X Nat

Written(i) == {j \in {1} : Writes(fn.code[i])}

ReadOperands(i) ==
  {j \in DOMAIN fn.code[i].ops : fn.code[i].ops[j].vreg} \ Written(i)

Definitions(v) ==
  {i \in DOMAIN fn.code : \E j \in Written(i) : fn.code[i].ops[j].val = v}
    \cup {k \in {0} : v \in ParamVRegs(fn)}

\* The line whose value operand j of instruction i has to see.
Reaching(i, j) == {d \in Definitions(fn.code[i].ops[j].val) : d < i}

\* In the rewritten code an operand reads the register its own last definition
\* wrote: no write to another virtual register came in between.  (The writes to
\* fixed registers are FixedWritesRespected.)
OperandsReadTheirDefinition ==
  pc = "done" =>
    \A i \in DOMAIN fn.code : \A j \in ReadOperands(i) :
      Reaching(i, j) # {} =>
        \A k \in (Max(Reaching(i, j)) + 1)..(i - 1) : \A w \in Written(k) :
          Parent(emitted[k][w]) # Parent(emitted[i][j])

\* The same for the registers an instruction names itself: a call and the moves
\* that fill the argument registers leave the values needed after them alone
\* (a move of the very value into the register it is in changes nothing).
FixedWritesRespected ==
  pc = "done" =>
    \A i \in DOMAIN fn.code : \A j \in ReadOperands(i) :
      Reaching(i, j) # {} =>
        \A k \in (Max(Reaching(i, j)) + 1)..(i - 1) :
          fn.code[i].ops[j].val \notin VRegsIn(fn.code[k])
            => Parent(emitted[i][j]) \notin fn.code[k].fixed

\* The vector of the ranges is ordered by the kill line, and by the definition
\* line where that is equal: the scan visits the ranges in this order.
VisitedByKillLine ==
  [][\A v \in todo \ todo', u \in todo :
       \/ ranges[v].kill < ranges[u].kill
       \/ ranges[v].kill = ranges[u].kill /\ ranges[v].def <= ranges[u].def]_vars

\* The scan always comes to an end, with code or with an assertion.
Termination == <>(pc \in {"done", "aborted", "ranOut"})

\* The allocator is a colouring of the live ranges.
Coloring == INSTANCE IntervalColoring WITH
  Color <- Unit,
  range <- ranges,
  color <- [v \in Scanned |-> Parent(allocated[v])],
  reserved <- PreAllocatedUnits

ColoringSpec == Coloring!Spec
=============================================================================
