----------------------- MODULE RegisterAllocatorProofs -----------------------
(***************************************************************************)
(* Proofs about the register allocator, for every target description and   *)
(* every set of functions that satisfy the assumptions of the module.      *)
(***************************************************************************)
EXTENDS RegisterAllocator, SequenceLemmas

-----------------------------------------------------------------------------
(* The inductive invariant.  RegistersConserved and NoInterference are not     *)
(* inductive by themselves: that a register taken from a pool belongs to no    *)
(* overlapping range rests on where every register is (Places) and on the      *)
(* order in which the ranges are visited (Visits).                             *)

\* Until the scan starts nothing but the pre-allocation has happened.
BeforeScan ==
  /\ pc \in {"preallocate", "ranges"} =>
       worklist = <<>> /\ todo = {} /\ now = 0
         /\ DOMAIN allocated \subseteq PreAllocated(fn)
  /\ pc = "preallocate" => allocated = <<>> /\ ranges = <<>>
  /\ pc \notin {"preallocate", "aborted"} =>
       PreAllocated(fn) \subseteq DOMAIN allocated

\* Each register of the two pools of the ABI is in one place.
Places ==
  /\ IsInjective(pool) /\ IsInjective(backup)
  /\ \A i, j \in DOMAIN worklist : Held(i) = Held(j) => i = j
  /\ Range(pool) \cap Range(backup) = {}
  /\ HeldUnits \cap (Range(pool) \cup Range(backup)) = {}
  /\ PreAllocatedUnits \cap (Range(backup) \cup HeldUnits) = {}
  /\ Scanning => PreAllocatedUnits \cap Range(pool) = {}
  /\ Range(CallerSaved) \cup Range(CalleeSaved)
       = Range(pool) \cup Range(backup) \cup HeldUnits \cup PreAllocatedUnits

\* A range that was visited is held or lies before the current definition, one
\* that was not starts there or later.
Visits ==
  /\ \A i \in DOMAIN worklist : worklist[i] \in Scanned
  /\ \A v \in Scanned :
       /\ v \in DOMAIN ranges /\ v \notin todo
       /\ v \in Range(worklist) \/ ranges[v].kill < now
       /\ Parent(allocated[v]) \notin PreAllocatedUnits
  /\ \A v \in todo : now <= ranges[v].def
  /\ pc = "free" => \A i \in Expired : index <= i
  /\ pc \in {"allocate", "ranOut", "done"} => Expired = {}

-----------------------------------------------------------------------------
(* Types *)

\* The parts of a machine function have the types its record announces.
LEMMA FunctionTypes ==
  ASSUME NEW f \in MachineFunction
  PROVE  /\ Len(f.code) \in Nat /\ DOMAIN f.code = 1..Len(f.code)
         /\ Unkilled \in Nat
         /\ Len(f.params) \in Nat /\ DOMAIN f.params = 1..Len(f.params)
         /\ \A i \in DOMAIN f.params : f.params[i].reg \in Nat
                                        /\ f.params[i].size \in Nat
         /\ \A i \in DOMAIN f.code : f.code[i] \in Instr
         /\ \A i \in DOMAIN f.code :
              /\ DOMAIN f.code[i].ops = 1..Len(f.code[i].ops)
              /\ Len(f.code[i].ops) \in Nat
              /\ \A j \in DOMAIN f.code[i].ops : f.code[i].ops[j] \in Operand
<1>1. /\ f.params \in Seq([reg : VReg, size : Nat]) /\ f.code \in Seq(Instr)
      /\ Unkilled \in Nat
  BY FunctionAssumption DEF MachineFunction
<1>2. /\ Len(f.code) \in Nat /\ DOMAIN f.code = 1..Len(f.code)
      /\ Len(f.params) \in Nat /\ DOMAIN f.params = 1..Len(f.params)
      /\ \A i \in DOMAIN f.code : f.code[i] \in Instr
      /\ \A i \in DOMAIN f.params : f.params[i] \in [reg : VReg, size : Nat]
  BY <1>1, LenProperties, ElementOfSeq
<1>3. ASSUME NEW i \in DOMAIN f.code
      PROVE  /\ DOMAIN f.code[i].ops = 1..Len(f.code[i].ops)
             /\ Len(f.code[i].ops) \in Nat
             /\ \A j \in DOMAIN f.code[i].ops : f.code[i].ops[j] \in Operand
  <2>1. f.code[i].ops \in Seq(Operand)
    BY <1>2 DEF Instr
  <2> QED BY <2>1, LenProperties, ElementOfSeq
<1> QED BY <1>1, <1>2, <1>3 DEF VReg

\* A pre-allocated register has a return size or is a parameter.
LEMMA PreAllocatedTypes ==
  ASSUME NEW f \in MachineFunction
  PROVE  /\ PreAllocated(f) \subseteq VReg
         /\ \A v \in RetVRegs(f) : RetSize(f, v) \in Nat
         /\ \A v \in ParamVRegs(f) : ParamIndex(f, v) \in DOMAIN f.params
<1>1. \A i \in Returns(f) :
        /\ i \in DOMAIN f.code /\ i \in Nat
        /\ 1 \in DOMAIN f.code[i].ops
        /\ f.code[i].ops[1].val \in Nat /\ f.code[i].ops[1].size \in Nat
  <2> SUFFICES ASSUME NEW i \in Returns(f)
               PROVE  /\ i \in DOMAIN f.code /\ i \in Nat
                      /\ 1 \in DOMAIN f.code[i].ops
                      /\ f.code[i].ops[1].val \in Nat
                      /\ f.code[i].ops[1].size \in Nat
    OBVIOUS
  <2>1. i \in DOMAIN f.code /\ f.code[i].ops # <<>>
    BY DEF Returns
  <2>2. f.code[i].ops \in Seq(Operand) /\ i \in Nat
    BY <2>1, FunctionTypes DEF Instr
  <2>3. 1 \in 1..Len(f.code[i].ops)
    BY <2>1, <2>2, EmptySeq
  <2> QED BY <2>1, <2>2, <2>3, FunctionTypes DEF Operand, VReg
<1>2. ASSUME NEW v \in RetVRegs(f)
      PROVE  RetSize(f, v) \in Nat
  <2> DEFINE S == {i \in Returns(f) : f.code[i].ops[1].val = v}
  <2>1. S # {} /\ S \subseteq Nat
    BY <1>1 DEF RetVRegs
  <2>2. Min(S) \in S
    BY <2>1, MinInSet
  <2> QED BY <1>1, <2>2 DEF RetSize
<1>3. ASSUME NEW v \in ParamVRegs(f)
      PROVE  ParamIndex(f, v) \in DOMAIN f.params
  BY DEF ParamVRegs, ParamIndex
<1>4. PreAllocated(f) \subseteq VReg
  BY <1>1, FunctionTypes DEF PreAllocated, ParamVRegs, RetVRegs, VReg
<1> QED BY <1>2, <1>3, <1>4

\* Facts about one state that most steps below use.
LEMMA StateTypes ==
  ASSUME TypeOK
  PROVE  /\ fn \in MachineFunction
         /\ Len(pool) \in Nat /\ DOMAIN pool = 1..Len(pool)
         /\ Len(backup) \in Nat /\ DOMAIN backup = 1..Len(backup)
         /\ Len(worklist) \in Nat /\ DOMAIN worklist = 1..Len(worklist)
         /\ \A i \in DOMAIN worklist : worklist[i] \in DOMAIN allocated
         /\ \A v \in DOMAIN allocated : Parent(allocated[v]) \in Unit
         /\ \A v \in DOMAIN ranges : ranges[v].def \in Nat /\ ranges[v].kill \in Nat
         /\ Range(pool) \subseteq Unit /\ Range(backup) \subseteq Unit
         /\ (pool = <<>> /\ backup # <<>>) => backup[1] \in Unit /\ 1 \in DOMAIN backup
<1>1. /\ pool \in Seq(Unit) /\ backup \in Seq(Unit)
      /\ worklist \in Seq(DOMAIN allocated)
      /\ allocated \in [DOMAIN allocated -> Unit \X Nat]
      /\ ranges \in [DOMAIN ranges -> LiveRange]
      /\ fn \in MachineFunction
  BY DEF TypeOK
<1>2. /\ Len(pool) \in Nat /\ DOMAIN pool = 1..Len(pool)
      /\ Len(backup) \in Nat /\ DOMAIN backup = 1..Len(backup)
      /\ Len(worklist) \in Nat /\ DOMAIN worklist = 1..Len(worklist)
      /\ \A i \in DOMAIN worklist : worklist[i] \in DOMAIN allocated
  BY <1>1, LenProperties, ElementOfSeq
<1>3. Range(pool) \subseteq Unit /\ Range(backup) \subseteq Unit
  BY <1>1, RangeOfSeq
<1>4. backup # <<>> => backup[1] \in Unit /\ 1 \in DOMAIN backup
  BY <1>1, <1>2, EmptySeq, ElementOfSeq
<1>5. \A v \in DOMAIN allocated : Parent(allocated[v]) \in Unit
  BY <1>1 DEF Parent
<1>6. \A v \in DOMAIN ranges : ranges[v].def \in Nat /\ ranges[v].kill \in Nat
  BY <1>1 DEF LiveRange
<1> QED BY <1>1, <1>2, <1>3, <1>4, <1>5, <1>6

\* The pool that is searched is a sequence of registers; it is the pool itself
\* or, when that is empty, the head of the backup pool.
LEMMA SearchPoolTypes ==
  ASSUME TypeOK, ~(pool = <<>> /\ backup = <<>>)
  PROVE  /\ SearchPool \in Seq(Unit)
         /\ DOMAIN SearchPool = 1..Len(SearchPool) /\ Len(SearchPool) \in Nat
         /\ \A v : Fitting(v) \subseteq 1..Len(SearchPool)
         /\ \A v : Fitting(v) # {} => Min(Fitting(v)) \in Fitting(v)
         /\ pool = <<>> => Range(SearchPool) = {backup[1]} /\ IsInjective(SearchPool)
         /\ pool # <<>> => SearchPool = pool
<1>1. SearchPool \in Seq(Unit)
  BY StateTypes DEF SearchPool, TypeOK
<1>2. DOMAIN SearchPool = 1..Len(SearchPool) /\ Len(SearchPool) \in Nat
  BY <1>1, LenProperties
<1>3. \A v : Fitting(v) \subseteq 1..Len(SearchPool)
  BY <1>2 DEF Fitting
<1>4. \A v : Fitting(v) # {} => Min(Fitting(v)) \in Fitting(v)
  <2> SUFFICES ASSUME NEW v, Fitting(v) # {}
               PROVE  Min(Fitting(v)) \in Fitting(v)
    OBVIOUS
  <2>1. Fitting(v) \subseteq Nat
    BY <1>2, <1>3
  <2> QED BY <2>1, MinInSet
<1>5. pool = <<>> => Range(SearchPool) = {backup[1]} /\ IsInjective(SearchPool)
  <2> SUFFICES ASSUME pool = <<>>
               PROVE  Range(SearchPool) = {backup[1]} /\ IsInjective(SearchPool)
    OBVIOUS
  <2>1. SearchPool = <<backup[1]>>
    BY DEF SearchPool
  <2> QED BY <2>1 DEF Range, IsInjective
<1> QED BY <1>1, <1>2, <1>3, <1>4, <1>5 DEF SearchPool

\* The initial values have their types.
LEMMA InitTypeOK == Init => TypeOK
<1> SUFFICES ASSUME Init PROVE TypeOK
  OBVIOUS
<1>1. <<>> \in Seq(Unit) /\ <<>> \in Seq(DOMAIN allocated)
  BY EmptySeq
<1>2. DOMAIN <<>> = {}
  OBVIOUS
<1>3. counter \in 0..Len(fn.code)
  <2>1. fn \in MachineFunction
    BY FunctionAssumption DEF Init
  <2> QED BY <2>1, FunctionTypes DEF Init
<1>4. /\ ranges \in [DOMAIN ranges -> LiveRange]
      /\ width \in [DOMAIN width -> Nat]
      /\ allocated \in [DOMAIN allocated -> Unit \X Nat]
  BY DEF Init
<1> QED BY <1>1, <1>2, <1>3, <1>4, ABIAssumption, FunctionAssumption
        DEF Init, TypeOK, Phases

\* The pre-allocation of parameters and results keeps the types.
LEMMA PreAllocateTypeOK == TypeOK /\ BeforeScan /\ PreAllocate => TypeOK'
<1> SUFFICES ASSUME TypeOK, BeforeScan, PreAllocate PROVE TypeOK'
  OBVIOUS
<1>1. fn \in MachineFunction
  BY DEF TypeOK
<1>2. DOMAIN allocated' = PreAllocated(fn) /\ DOMAIN allocated' \subseteq VReg
  BY <1>1, PreAllocatedTypes DEF PreAllocate
<1>3. ASSUME NEW v \in PreAllocated(fn)
      PROVE  allocated'[v] \in Unit \X Nat
  <2>1. CASE v \in RetVRegs(fn)
    <3>1. ReturnRegister \in Unit
      BY ABIAssumption, RangeOfSeq
    <3> QED BY <1>1, <2>1, <3>1, PreAllocatedTypes DEF PreAllocate
  <2>2. CASE v \notin RetVRegs(fn)
    <3>1. v \in ParamVRegs(fn)
      BY <2>2 DEF PreAllocated
    <3>2. ParamIndex(fn, v) \in 1..Len(fn.params)
      BY <1>1, <3>1, PreAllocatedTypes, FunctionTypes
    <3>3. Len(fn.params) <= Len(ArgumentRegisters)
      BY DEF PreAllocate
    <3>4. Len(ArgumentRegisters) \in Nat /\ Len(fn.params) \in Nat
      BY <1>1, ABIAssumption, LenProperties, FunctionTypes
    <3>5. ArgumentRegisters[ParamIndex(fn, v)] \in Unit
      BY <3>2, <3>3, <3>4, ABIAssumption, ElementOfSeq
    <3>6. fn.params[ParamIndex(fn, v)].size \in Nat
      BY <1>1, <3>2, FunctionTypes
    <3> QED BY <2>2, <3>5, <3>6 DEF PreAllocate
  <2> QED BY <2>1, <2>2
<1>4. allocated' \in [DOMAIN allocated' -> Unit \X Nat]
  BY <1>2, <1>3 DEF PreAllocate
<1>5. /\ DOMAIN ranges' \subseteq VReg
      /\ ranges' \in [DOMAIN ranges' -> LiveRange]
  <2>1. ParamVRegs(fn) \subseteq VReg /\ Unkilled \in Nat
    BY <1>1, PreAllocatedTypes, FunctionTypes DEF PreAllocated
  <2> QED BY <2>1 DEF PreAllocate, LiveRange
<1>6. worklist' \in Seq(DOMAIN allocated') /\ todo' \subseteq DOMAIN ranges'
  <2>1. worklist' = <<>> /\ todo' = {}
    BY DEF BeforeScan, PreAllocate
  <2> QED BY <2>1, EmptySeq
<1> QED BY <1>2, <1>4, <1>5, <1>6 DEF PreAllocate, TypeOK, Phases

\* Building the live ranges of one more instruction keeps the types.
LEMMA ScanInstructionTypeOK == TypeOK /\ BeforeScan /\ ScanInstruction => TypeOK'
<1> SUFFICES ASSUME TypeOK, BeforeScan, ScanInstruction PROVE TypeOK'
  OBVIOUS
<1> DEFINE instr == fn.code[counter + 1]
<1>1. fn \in MachineFunction /\ counter \in 0..Len(fn.code) /\ counter < Len(fn.code)
  BY DEF TypeOK, ScanInstruction
<1>2. counter + 1 \in DOMAIN fn.code /\ counter \in Nat
      /\ counter + 1 \in 0..Len(fn.code)
  BY <1>1, FunctionTypes
<1>3. /\ DOMAIN instr.ops = 1..Len(instr.ops) /\ Len(instr.ops) \in Nat
      /\ \A j \in DOMAIN instr.ops : instr.ops[j] \in Operand
  BY <1>1, <1>2, FunctionTypes
<1>4. VRegsIn(instr) \subseteq VReg
  BY <1>3 DEF VRegsIn, Operand
<1>5. ASSUME NEW v \in VRegsIn(instr)
      PROVE  instr.ops[Min(MentionsIn(instr, v))].size \in Nat
  <2>1. MentionsIn(instr, v) # {} /\ MentionsIn(instr, v) \subseteq DOMAIN instr.ops
    BY DEF MentionsIn, VRegsIn
  <2>2. Min(MentionsIn(instr, v)) \in DOMAIN instr.ops
    BY <1>3, <2>1, MinInSet
  <2> QED BY <1>3, <2>2 DEF Operand
<1>6. DOMAIN ranges' = DOMAIN ranges \cup VRegsIn(instr)
      /\ DOMAIN width' = DOMAIN width \cup VRegsIn(instr)
  BY DEF ScanInstruction
<1>7. ASSUME NEW v \in DOMAIN ranges'
      PROVE  ranges'[v] \in LiveRange
  <2>1. /\ v \in DOMAIN ranges =>
             ranges[v] \in LiveRange /\ ranges[v].def \in Nat
      /\ Unkilled \in Nat /\ counter \in Nat
    BY <1>1, <1>2, StateTypes, FunctionTypes DEF TypeOK
  <2>2. CASE v \notin VRegsIn(instr)
    BY <1>6, <2>1, <2>2 DEF ScanInstruction
  <2>3. CASE v \in VRegsIn(instr) /\ v \in DOMAIN ranges
    BY <1>6, <2>1, <2>3 DEF ScanInstruction, RangeAfter, LiveRange
  <2>4. CASE v \in VRegsIn(instr) /\ v \notin DOMAIN ranges
    BY <1>6, <2>1, <2>4 DEF ScanInstruction, RangeAfter, LiveRange
  <2> QED BY <2>2, <2>3, <2>4
<1>8. ASSUME NEW v \in DOMAIN width'
      PROVE  width'[v] \in Nat
  <2>1. CASE v \in DOMAIN width
    BY <1>6, <2>1 DEF ScanInstruction, TypeOK
  <2>2. CASE v \notin DOMAIN width
    <3>1. v \in VRegsIn(instr)
      BY <1>6, <2>2
    <3> QED BY <1>5, <1>6, <2>2, <3>1 DEF ScanInstruction
  <2> QED BY <2>1, <2>2
<1>9. /\ ranges' \in [DOMAIN ranges' -> LiveRange]
      /\ width' \in [DOMAIN width' -> Nat]
  BY <1>7, <1>8 DEF ScanInstruction
<1>10. DOMAIN ranges' \subseteq VReg /\ DOMAIN width' \subseteq VReg
  BY <1>4, <1>6 DEF TypeOK
<1> HIDE DEF instr
<1> QED BY <1>2, <1>6, <1>9, <1>10 DEF ScanInstruction, TypeOK

\* Giving a range a register keeps the types.
LEMMA AllocateIntervalTypeOK ==
  ASSUME TypeOK, NEW v \in todo, AllocateInterval(v)
  PROVE  TypeOK'
<1> DEFINE i == Min(Fitting(v))
<1>1. ~(pool = <<>> /\ backup = <<>>) /\ Fitting(v) # {}
  BY DEF AllocateInterval
<1>2. i \in Fitting(v) /\ i \in 1..Len(SearchPool) /\ SearchPool \in Seq(Unit)
  BY <1>1, SearchPoolTypes
<1>3. SearchPool[i] \in Unit
  BY <1>2, ElementOfSeq
<1>4. width[v] \in Nat
  BY <1>2, <1>3, ABIAssumption DEF Fitting
<1>5. v \in VReg /\ DOMAIN allocated' = DOMAIN allocated \cup {v}
  BY DEF TypeOK, AllocateInterval
<1>6. allocated' \in [DOMAIN allocated' -> Unit \X Nat]
  BY <1>3, <1>4, <1>5 DEF TypeOK, AllocateInterval
<1>7. pool' \in Seq(Unit)
  BY <1>2, RemoveAtProperties DEF AllocateInterval
<1>8. backup' \in Seq(Unit) /\ used' \in Seq(Unit)
  <2>1. CASE pool = <<>>
    <3>1. backup # <<>> /\ backup \in Seq(Unit) /\ used \in Seq(Unit)
      BY <1>1, <2>1 DEF TypeOK
    <3>2. Tail(backup) \in Seq(Unit) /\ Head(backup) \in Unit
      BY <3>1, HeadTailProperties
    <3>3. Append(used, Head(backup)) \in Seq(Unit)
      BY <3>1, <3>2, AppendProperties
    <3> QED BY <2>1, <3>2, <3>3 DEF AllocateInterval, Refill
  <2>2. CASE pool # <<>>
    BY <2>2 DEF AllocateInterval, Refill, TypeOK
  <2> QED BY <2>1, <2>2
<1>9. worklist' \in Seq(DOMAIN allocated')
  <2>1. worklist \in Seq(DOMAIN allocated')
    BY <1>5, SeqMonotonic DEF TypeOK
  <2> QED BY <1>5, <2>1, AppendProperties DEF AllocateInterval
<1>10. now' \in Nat /\ todo' \subseteq DOMAIN ranges'
  BY StateTypes DEF AllocateInterval, TypeOK
<1> HIDE DEF i
<1> QED BY <1>5, <1>6, <1>7, <1>8, <1>9, <1>10
        DEF AllocateInterval, TypeOK, Phases

\* Returning the register of an expired range keeps the types.
LEMMA FreeExpiredTypeOK == TypeOK /\ FreeExpired => TypeOK'
<1> SUFFICES ASSUME TypeOK, FreeExpired PROVE TypeOK'
  OBVIOUS
<1>1. index \in 1..Len(worklist)
  BY StateTypes DEF FreeExpired, Expired
<1>2. Parent(allocated[worklist[index]]) \in Unit
  BY <1>1, StateTypes
<1>3. pool' \in Seq(Unit)
  BY <1>2, PushFrontProperties DEF FreeExpired, TypeOK
<1>4. worklist' \in Seq(DOMAIN allocated)
  BY <1>1, RemoveAtProperties DEF FreeExpired, TypeOK
<1> QED BY <1>3, <1>4 DEF FreeExpired, TypeOK

\* Type correctness is inductive together with what holds before the scan.
LEMMA NextTypeOK == TypeOK /\ BeforeScan /\ [Next]_vars => TypeOK'
<1> SUFFICES ASSUME TypeOK, BeforeScan, [Next]_vars PROVE TypeOK'
  OBVIOUS
<1>1. CASE OutOfParameterRegisters
  BY <1>1 DEF OutOfParameterRegisters, TypeOK, Phases
<1>2. CASE PreAllocate
  BY <1>2, PreAllocateTypeOK
<1>3. CASE RemovePreAllocated
  <2>1. PICK i \in DOMAIN pool : pool' = RemoveAt(pool, i)
    BY <1>3 DEF RemovePreAllocated
  <2>2. pool' \in Seq(Unit)
    BY <2>1, RemoveAtProperties, StateTypes DEF TypeOK
  <2> QED BY <1>3, <2>2 DEF RemovePreAllocated, TypeOK
<1>4. CASE ScanInstruction
  BY <1>4, ScanInstructionTypeOK
<1>5. CASE SortRanges
  BY <1>5 DEF SortRanges, TypeOK, Phases
<1>6. ASSUME NEW v \in todo, VisitAllocated(v)
      PROVE  TypeOK'
  BY <1>6, StateTypes DEF VisitAllocated, TypeOK, Phases
<1>7. ASSUME NEW v \in todo, AllocateInterval(v)
      PROVE  TypeOK'
  BY <1>7, AllocateIntervalTypeOK
<1>8. ASSUME NEW v \in todo, RunOutOfRegisters(v) \/ NoRegisterFits(v)
      PROVE  TypeOK'
  BY <1>8 DEF RunOutOfRegisters, NoRegisterFits, TypeOK, Phases
<1>9. CASE FreeExpired
  BY <1>9, FreeExpiredTypeOK
<1>10. CASE KeepLive \/ FreeingDone
  <2>1. CASE KeepLive
    <3>1. index' \in Nat
      BY <2>1 DEF KeepLive, TypeOK
    <3> QED BY <2>1, <3>1 DEF KeepLive, TypeOK
  <2>2. CASE FreeingDone
    BY <2>2 DEF FreeingDone, TypeOK, Phases
  <2> QED BY <1>10, <2>1, <2>2
<1>11. CASE RewriteOperands
  BY <1>11 DEF RewriteOperands, TypeOK, Phases
<1>12. CASE UNCHANGED vars
  BY <1>12 DEF vars, TypeOK
<1>13. CASE Terminated
  BY <1>12, <1>13 DEF Terminated
<1> QED BY <1>1, <1>2, <1>3, <1>4, <1>5, <1>6, <1>7, <1>8, <1>9, <1>10, <1>11,
           <1>12, <1>13 DEF Next

-----------------------------------------------------------------------------
(* The inductive invariant *)

IInv ==
  /\ TypeOK
  /\ BeforeScan
  /\ Places
  /\ Visits
  /\ CalleeSavedRecorded
  /\ NoInterference

\* The backup pool is what is left of the callee-saved registers.
LEMMA BackupIsCalleeSaved ==
  ASSUME TypeOK, CalleeSavedRecorded
  PROVE  Range(CalleeSaved) = Range(used) \cup Range(backup)
<1>1. used \in Seq(Unit) /\ backup \in Seq(Unit)
  BY DEF TypeOK
<1>2. used \o backup = CalleeSaved
  BY DEF CalleeSavedRecorded
<1>3. Range(used \o backup) = Range(used) \cup Range(backup)
  BY <1>1, RangeConcatenation
<1> QED BY <1>2, <1>3

\* The loop that frees starts in front of every entry.
LEMMA FreeingStarts ==
  ASSUME TypeOK', index' = 1
  PROVE  \A i \in Expired' : index' <= i
<1>1. DOMAIN worklist' = 1..Len(worklist') /\ Len(worklist') \in Nat
  BY LenProperties DEF TypeOK
<1> QED BY <1>1 DEF Expired

\* What an invariant says depends on these variables only.
LEMMA UnchangedIInv ==
  IInv /\ UNCHANGED vars => IInv'
<1> SUFFICES ASSUME IInv, UNCHANGED vars PROVE IInv'
  OBVIOUS
<1>1. TypeOK' /\ BeforeScan' /\ CalleeSavedRecorded'
  BY DEF IInv, TypeOK, BeforeScan, CalleeSavedRecorded, Scanned, vars
<1>2. NoInterference'
  BY DEF IInv, NoInterference, Overlap, Scanned, vars
<1>3. Visits'
  BY DEF IInv, Visits, Scanned, PreAllocatedUnits, Expired, vars
<1>4. Places'
  BY DEF IInv, Places, Held, HeldUnits, PreAllocatedUnits, Scanning, vars
<1> QED BY <1>1, <1>2, <1>3, <1>4 DEF IInv

\* The invariant holds before the allocation.
LEMMA InitIInv == Init => IInv
<1> SUFFICES ASSUME Init PROVE IInv
  OBVIOUS
<1>1. TypeOK
  BY InitTypeOK
<1>2. DOMAIN allocated = {} /\ DOMAIN worklist = {} /\ worklist = <<>>
  BY DEF Init
<1>3. Scanned = {} /\ PreAllocatedUnits = {} /\ HeldUnits = {} /\ Expired = {}
  BY <1>2 DEF Scanned, PreAllocatedUnits, HeldUnits, Expired
<1>4. BeforeScan
  BY <1>2 DEF Init, BeforeScan
<1>5. Visits
  BY <1>2, <1>3 DEF Init, Visits
<1>6. NoInterference
  BY <1>3 DEF NoInterference
<1>7. CalleeSavedRecorded
  <2>1. <<>> \o CalleeSaved = CalleeSaved
    BY ABIAssumption, ConcatEmptySeq
  <2> QED BY <1>3, <2>1 DEF Init, CalleeSavedRecorded
<1>8. Places
  BY <1>2, <1>3, ABIAssumption DEF Init, Places, Scanning
<1> QED BY <1>1, <1>4, <1>5, <1>6, <1>7, <1>8 DEF IInv

\* The pre-allocation keeps the invariant: nothing is held yet.
LEMMA PreAllocateIInv == IInv /\ PreAllocate => IInv'
<1> SUFFICES ASSUME IInv, PreAllocate PROVE IInv'
  OBVIOUS
<1>1. TypeOK'
  BY PreAllocateTypeOK DEF IInv
<1>2. /\ allocated = <<>> /\ worklist = <<>> /\ todo = {} /\ now = 0
      /\ worklist' = <<>> /\ todo' = {} /\ now' = 0 /\ pc' = "ranges"
      /\ DOMAIN allocated' = PreAllocated(fn) /\ fn' = fn
  BY DEF IInv, BeforeScan, PreAllocate
<1>3. /\ DOMAIN worklist = {} /\ DOMAIN worklist' = {} /\ DOMAIN allocated = {}
      /\ Scanned' = {} /\ HeldUnits = {} /\ HeldUnits' = {} /\ Expired' = {}
      /\ PreAllocatedUnits = {}
  BY <1>2 DEF Scanned, HeldUnits, Expired, PreAllocatedUnits
<1>4. BeforeScan'
  BY <1>2, <1>3 DEF BeforeScan
<1>5. Visits' /\ NoInterference'
  BY <1>2, <1>3 DEF Visits, NoInterference
<1>6. CalleeSavedRecorded'
  BY <1>3 DEF IInv, CalleeSavedRecorded, PreAllocate
<1>7. PreAllocatedUnits' \subseteq Range(CallerSaved)
  <2> SUFFICES ASSUME NEW v \in PreAllocated(fn)
               PROVE  Parent(allocated'[v]) \in Range(CallerSaved)
    BY <1>2 DEF PreAllocatedUnits
  <2>1. CASE v \in RetVRegs(fn)
    <3>1. allocated'[v] = <<ReturnRegister, RetSize(fn, v)>>
      BY <2>1 DEF PreAllocate
    <3> QED BY <3>1, ABIAssumption DEF Parent
  <2>2. CASE v \notin RetVRegs(fn)
    <3> DEFINE k == ParamIndex(fn, v)
    <3>1. allocated'[v] = <<ArgumentRegisters[k], fn.params[k].size>>
      BY <2>2 DEF PreAllocate
    <3>2. k \in 1..Len(fn.params) /\ Len(fn.params) \in Nat
      BY <2>2, PreAllocatedTypes, FunctionTypes DEF PreAllocated, IInv, TypeOK
    <3>3. k \in DOMAIN ArgumentRegisters
      BY <3>2, ABIAssumption, LenProperties DEF PreAllocate
    <3> HIDE DEF k
    <3>4. ArgumentRegisters[k] \in Range(ArgumentRegisters)
      BY <3>3 DEF Range
    <3>5. Parent(allocated'[v]) = ArgumentRegisters[k]
      BY <3>1 DEF Parent
    <3> QED BY <3>4, <3>5, ABIAssumption
  <2> QED BY <2>1, <2>2
<1>8. Places'
  <2>1. pool' = pool /\ backup' = backup
    BY DEF PreAllocate
  <2>2. Range(backup) \subseteq Range(CalleeSaved)
    BY BackupIsCalleeSaved DEF IInv
  <2>3. PreAllocatedUnits' \cap Range(backup) = {}
    BY <1>7, <2>2, ABIAssumption
  <2>4. ~Scanning'
    BY <1>2 DEF Scanning
  <2> QED BY <1>3, <1>7, <2>1, <2>3, <2>4 DEF IInv, Places
<1> QED BY <1>1, <1>4, <1>5, <1>6, <1>8 DEF IInv

\* Taking a pre-allocated register out of the pool keeps each in one place.
LEMMA RemovePreAllocatedIInv == IInv /\ RemovePreAllocated => IInv'
<1> SUFFICES ASSUME IInv, RemovePreAllocated PROVE IInv'
  OBVIOUS
<1>1. TypeOK'
  BY NextTypeOK DEF IInv, Next
<1>2. PICK i \in DOMAIN pool :
        pool[i] \in PreAllocatedUnits /\ pool' = RemoveAt(pool, i)
  BY DEF RemovePreAllocated
<1>3. IsInjective(pool') /\ Range(pool') = Range(pool) \ {pool[i]}
  BY <1>2, StateTypes, RemoveAtInjective DEF IInv, TypeOK, Places
<1>4. /\ BeforeScan' /\ CalleeSavedRecorded' /\ NoInterference' /\ Visits'
      /\ HeldUnits' = HeldUnits /\ PreAllocatedUnits' = PreAllocatedUnits
      /\ ~Scanning'
  BY DEF RemovePreAllocated, IInv, BeforeScan, CalleeSavedRecorded,
         NoInterference, Overlap, Visits, Expired, Held, HeldUnits,
         PreAllocatedUnits, Scanning, Scanned
<1>5. Places'
  BY <1>2, <1>3, <1>4 DEF RemovePreAllocated, IInv, Places, Held
<1> QED BY <1>1, <1>4, <1>5 DEF IInv

\* Building live ranges keeps the invariant: no register moves.
LEMMA ScanInstructionIInv == IInv /\ ScanInstruction => IInv'
<1> SUFFICES ASSUME IInv, ScanInstruction PROVE IInv'
  OBVIOUS
<1>1. TypeOK'
  BY ScanInstructionTypeOK DEF IInv
<1>2. /\ pc = "ranges" /\ pc' = pc /\ fn' = fn /\ worklist' = worklist
      /\ todo' = todo /\ now' = now /\ allocated' = allocated
      /\ pool' = pool /\ backup' = backup /\ used' = used
  BY DEF ScanInstruction
<1>3. /\ worklist = <<>> /\ todo = {} /\ DOMAIN worklist = {}
      /\ Scanned = {} /\ Scanned' = {}
  BY <1>2 DEF IInv, BeforeScan, Scanned
<1>4. BeforeScan' /\ CalleeSavedRecorded'
  BY <1>2, <1>3 DEF IInv, BeforeScan, CalleeSavedRecorded
<1>5. NoInterference' /\ Visits'
  BY <1>2, <1>3 DEF NoInterference, Visits
<1>6. Places'
  BY <1>2 DEF IInv, Places, Held, HeldUnits, PreAllocatedUnits, Scanning
<1> QED BY <1>1, <1>4, <1>5, <1>6 DEF IInv

\* Sorting the ranges starts the scan with nothing visited.
LEMMA SortRangesIInv == IInv /\ SortRanges => IInv'
<1> SUFFICES ASSUME IInv, SortRanges PROVE IInv'
  OBVIOUS
<1>1. TypeOK'
  BY NextTypeOK DEF IInv, Next
<1>2. /\ pc = "ranges" /\ pc' = "allocate" /\ fn' = fn /\ worklist' = worklist
      /\ now' = now /\ allocated' = allocated /\ ranges' = ranges
      /\ pool' = pool /\ backup' = backup /\ used' = used
      /\ todo' = DOMAIN ranges /\ PoolPruned
  BY DEF SortRanges
<1>3. /\ worklist = <<>> /\ now = 0 /\ DOMAIN worklist = {}
      /\ Scanned = {} /\ Scanned' = {} /\ Expired' = {}
  BY <1>2 DEF IInv, BeforeScan, Scanned, Expired
<1>4. BeforeScan' /\ CalleeSavedRecorded' /\ NoInterference'
  BY <1>2, <1>3 DEF IInv, BeforeScan, CalleeSavedRecorded, NoInterference
<1>5. Visits'
  <2>1. \A v \in todo' : 0 <= ranges[v].def
    BY <1>2, StateTypes DEF IInv
  <2> QED BY <1>2, <1>3, <2>1 DEF Visits
<1>6. Places'
  BY <1>2 DEF IInv, Places, Held, HeldUnits, PreAllocatedUnits, PoolPruned
<1> QED BY <1>1, <1>4, <1>5, <1>6 DEF IInv

\* The definition lines of the intervals still to be visited only grow.
LEMMA NextIntervalIsLater ==
  ASSUME IInv, NEW v \in todo, IsNext(v)
  PROVE  /\ v \in DOMAIN ranges /\ now \in Nat
         /\ ranges[v].def \in Nat /\ now <= ranges[v].def
         /\ \A u \in todo : ranges[v].def <= ranges[u].def
         /\ \A u \in Scanned : u # v
<1>1. todo \subseteq DOMAIN ranges
  BY DEF IInv, TypeOK
<1>2. \A u \in todo : ranges[u].def \in Nat
  BY <1>1, StateTypes DEF IInv
<1>3. \A u \in todo : ~(ranges[u].def < ranges[v].def)
  BY DEF IsNext, Precedes
<1>4. now \in Nat /\ now <= ranges[v].def /\ \A u \in Scanned : u # v
  BY DEF IInv, TypeOK, Visits
<1> QED BY <1>1, <1>2, <1>3, <1>4

\* Visiting a pre-allocated range keeps the invariant.
LEMMA VisitAllocatedIInv ==
  ASSUME IInv, NEW v \in todo, VisitAllocated(v)
  PROVE  IInv'
<1>1. TypeOK'
  BY NextTypeOK DEF IInv, Next
<1>2. /\ pc = "allocate" /\ pc' = "free" /\ fn' = fn /\ worklist' = worklist
      /\ now' = ranges[v].def /\ allocated' = allocated /\ ranges' = ranges
      /\ pool' = pool /\ backup' = backup /\ used' = used
      /\ todo' = todo \ {v} /\ IsNext(v) /\ index' = 1
  BY DEF VisitAllocated
<1>3. BeforeScan' /\ CalleeSavedRecorded' /\ NoInterference'
  BY <1>2 DEF IInv, BeforeScan, CalleeSavedRecorded, NoInterference, Overlap,
              Scanned
<1>4. Visits'
  <2>1. now <= now' /\ now \in Nat /\ now' \in Nat
        /\ \A u \in todo' : now' <= ranges[u].def
    BY <1>2, NextIntervalIsLater
  <2>2. \A u \in Scanned : ranges[u].kill < now => ranges[u].kill < now'
    <3>1. \A u \in Scanned : ranges[u].kill \in Nat
      BY StateTypes DEF IInv, Visits
    <3> QED BY <2>1, <3>1
  <2>3. Scanned' = Scanned /\ PreAllocatedUnits' = PreAllocatedUnits
    BY <1>2 DEF Scanned, PreAllocatedUnits
  <2>4. \A i \in Expired' : index' <= i
    BY <1>1, <1>2, FreeingStarts
  <2> QED BY <1>2, <2>1, <2>2, <2>3, <2>4 DEF IInv, Visits
<1>5. Places'
  BY <1>2 DEF IInv, Places, Held, HeldUnits, PreAllocatedUnits, Scanning
<1> QED BY <1>1, <1>3, <1>4, <1>5 DEF IInv

\* The register an interval is given comes out of one of the two pools, which
\* lose that register and no other.
LEMMA TakenFromPools ==
  ASSUME IInv, NEW v \in todo, AllocateInterval(v)
  PROVE  \E c \in Range(pool) \cup Range(backup) :
           /\ allocated' = [w \in DOMAIN allocated \cup {v} |->
                              IF w = v THEN <<c, width[v]>> ELSE allocated[w]]
           /\ IsInjective(pool') /\ IsInjective(backup')
           /\ Range(pool') \cap Range(backup') = {}
           /\ Range(pool') \subseteq Range(pool)
           /\ Range(backup') \subseteq Range(backup)
           /\ Range(pool') \cup Range(backup')
                = (Range(pool) \cup Range(backup)) \ {c}
           /\ used' \o backup' = used \o backup
           /\ c \in Range(backup) => pool = <<>> /\ c = Head(backup)
                                       /\ used' = Append(used, c)
           /\ c \in Range(pool) => used' = used
<1> DEFINE i == Min(Fitting(v))
           c == SearchPool[i]
<1>1. TypeOK /\ ~(pool = <<>> /\ backup = <<>>) /\ Fitting(v) # {}
  BY DEF IInv, AllocateInterval
<1>2. /\ i \in 1..Len(SearchPool) /\ i \in DOMAIN SearchPool
      /\ SearchPool \in Seq(Unit)
  BY <1>1, SearchPoolTypes
<1>3. /\ pool' = RemoveAt(SearchPool, i)
      /\ allocated' = [w \in DOMAIN allocated \cup {v} |->
                         IF w = v THEN <<c, width[v]>> ELSE allocated[w]]
  BY DEF AllocateInterval
<1>4. /\ pool \in Seq(Unit) /\ backup \in Seq(Unit) /\ used \in Seq(Unit)
      /\ IsInjective(pool) /\ IsInjective(backup)
      /\ Range(pool) \cap Range(backup) = {}
  BY DEF IInv, TypeOK, Places
<1>5. IsInjective(SearchPool)
  BY <1>1, <1>4, SearchPoolTypes
<1>6. /\ IsInjective(pool') /\ Range(pool') = Range(SearchPool) \ {c}
      /\ c \in Range(SearchPool)
  <2>1. c \in Range(SearchPool)
    BY <1>2 DEF Range
  <2> QED BY <1>2, <1>3, <1>5, <2>1, RemoveAtInjective
<1> HIDE DEF c, i
<1>7. CASE pool = <<>>
  <2>1. backup # <<>>
    BY <1>1, <1>7
  <2>2. /\ IsInjective(Tail(backup)) /\ Head(backup) = backup[1]
        /\ Range(Tail(backup)) = Range(backup) \ {backup[1]}
    BY <1>4, <2>1, TailInjective
  <2>3. Range(SearchPool) = {backup[1]}
    BY <1>1, <1>7, SearchPoolTypes
  <2>4. backup' = Tail(backup) /\ used' = Append(used, Head(backup))
    BY <1>7 DEF AllocateInterval, Refill
  <2>5. c = backup[1] /\ Range(pool') = {} /\ Range(pool) = {}
    <3>1. DOMAIN pool = {}
      BY <1>7
    <3> QED BY <1>6, <2>3, <3>1 DEF Range
  <2>6. backup[1] \in Range(backup)
    BY <1>1, <1>7, <2>1, StateTypes DEF Range
  <2>7. used' \o backup' = used \o backup
    BY <1>4, <2>1, <2>4, MoveHead
  <2> QED BY <1>3, <1>6, <1>7, <2>2, <2>4, <2>5, <2>6, <2>7
<1>8. CASE pool # <<>>
  <2>1. SearchPool = pool /\ backup' = backup /\ used' = used
    BY <1>1, <1>8, SearchPoolTypes DEF AllocateInterval, Refill
  <2>2. c \in Range(pool) /\ c \notin Range(backup)
    BY <1>4, <1>6, <2>1
  <2> QED BY <1>3, <1>4, <1>6, <2>1, <2>2
<1> QED BY <1>7, <1>8

\* A register taken from a pool interferes with no range that holds one.
LEMMA AllocateIntervalIInv ==
  ASSUME IInv, NEW v \in todo, AllocateInterval(v)
  PROVE  IInv'
<1>1. TypeOK'
  BY AllocateIntervalTypeOK DEF IInv
<1>2. /\ pc = "allocate" /\ pc' = "free" /\ fn' = fn
      /\ worklist' = Append(worklist, v) /\ v \notin DOMAIN allocated
      /\ now' = ranges[v].def /\ ranges' = ranges
      /\ todo' = todo \ {v} /\ IsNext(v)
  BY DEF AllocateInterval
<1>3. PICK c \in Range(pool) \cup Range(backup) :
        /\ allocated' = [w \in DOMAIN allocated \cup {v} |->
                           IF w = v THEN <<c, width[v]>> ELSE allocated[w]]
        /\ IsInjective(pool') /\ IsInjective(backup')
        /\ Range(pool') \cap Range(backup') = {}
        /\ Range(pool') \subseteq Range(pool)
        /\ Range(backup') \subseteq Range(backup)
        /\ Range(pool') \cup Range(backup')
             = (Range(pool) \cup Range(backup)) \ {c}
        /\ used' \o backup' = used \o backup
        /\ c \in Range(backup) => pool = <<>> /\ c = Head(backup)
                                    /\ used' = Append(used, c)
        /\ c \in Range(pool) => used' = used
  BY TakenFromPools
<1>4. /\ PreAllocated(fn) \subseteq DOMAIN allocated /\ v \notin PreAllocated(fn)
      /\ Scanning /\ Scanning'
  BY <1>2 DEF IInv, BeforeScan, Scanning
<1>5. /\ DOMAIN allocated' = DOMAIN allocated \cup {v}
      /\ Scanned' = Scanned \cup {v} /\ v \notin Scanned
      /\ \A w \in DOMAIN allocated : allocated'[w] = allocated[w]
      /\ Parent(allocated'[v]) = c
  BY <1>2, <1>3, <1>4 DEF Scanned, Parent
<1>6. PreAllocatedUnits' = PreAllocatedUnits
  BY <1>2, <1>4, <1>5 DEF PreAllocatedUnits
<1>7. c \notin HeldUnits /\ c \notin PreAllocatedUnits
  BY <1>3, <1>4 DEF IInv, Places
<1>8. /\ Len(worklist) \in Nat /\ DOMAIN worklist = 1..Len(worklist)
      /\ DOMAIN worklist' = 1..(Len(worklist) + 1)
      /\ \A j \in DOMAIN worklist :
           worklist'[j] = worklist[j] /\ worklist[j] \in DOMAIN allocated
      /\ worklist'[Len(worklist) + 1] = v
      /\ Range(worklist') = Range(worklist) \cup {v}
  <2>1. worklist \in Seq(VReg) /\ v \in VReg
    BY SeqMonotonic DEF IInv, TypeOK
  <2> QED BY <1>2, <2>1, PushBackProperties, StateTypes DEF IInv
<1>9. /\ \A j \in DOMAIN worklist : Held(j)' = Held(j)
      /\ \A j \in DOMAIN worklist' \ DOMAIN worklist : Held(j)' = c
      /\ HeldUnits' = HeldUnits \cup {c}
  <2>1. \A j \in DOMAIN worklist : Held(j)' = Held(j)
    BY <1>5, <1>8 DEF Held
  <2>2. \A j \in DOMAIN worklist' \ DOMAIN worklist : worklist'[j] = v
    BY <1>8
  <2>3. \A j \in DOMAIN worklist' \ DOMAIN worklist : Held(j)' = c
    BY <1>5, <2>2 DEF Held
  <2>4. /\ DOMAIN worklist \subseteq DOMAIN worklist'
        /\ \E j \in DOMAIN worklist' : j \notin DOMAIN worklist
    BY <1>8
  <2> QED BY <2>1, <2>3, <2>4 DEF HeldUnits
<1>10. BeforeScan'
  BY <1>2, <1>4, <1>5 DEF BeforeScan
<1>11. Places'
  <2>1. ASSUME NEW j \in DOMAIN worklist', NEW k \in DOMAIN worklist',
               Held(j)' = Held(k)'
        PROVE  j = k
    <3>1. \A l \in DOMAIN worklist : Held(l) # c
      BY <1>7 DEF HeldUnits
    <3>2. /\ j \in DOMAIN worklist \/ j = Len(worklist) + 1
          /\ k \in DOMAIN worklist \/ k = Len(worklist) + 1
      BY <1>8
    <3>3. \A m, n \in DOMAIN worklist : Held(m) = Held(n) => m = n
      BY DEF IInv, Places
    <3> QED BY <1>9, <2>1, <3>1, <3>2, <3>3
  <2> QED BY <1>3, <1>4, <1>6, <1>7, <1>9, <2>1 DEF IInv, Places
<1>12. Visits'
  <2>1. now <= now' /\ now \in Nat /\ now' \in Nat
        /\ \A u \in todo' : now' <= ranges[u].def
        /\ v \in DOMAIN ranges
    BY <1>2, NextIntervalIsLater
  <2>2. \A u \in Scanned : ranges[u].kill < now => ranges[u].kill < now'
    <3>1. \A u \in Scanned : ranges[u].kill \in Nat
      BY StateTypes DEF IInv, Visits
    <3> QED BY <2>1, <3>1
  <2>3. \A j \in DOMAIN worklist' : worklist'[j] \in Scanned'
    <3>1. \A j \in DOMAIN worklist' : j \in DOMAIN worklist \/ worklist'[j] = v
      BY <1>8
    <3> QED BY <1>5, <1>8, <3>1 DEF IInv, Visits
  <2>4. ASSUME NEW u \in Scanned'
        PROVE  /\ u \in DOMAIN ranges' /\ u \notin todo'
               /\ u \in Range(worklist') \/ ranges'[u].kill < now'
               /\ Parent(allocated'[u]) \notin PreAllocatedUnits'
    <3>1. CASE u = v
      <4>1. v \in DOMAIN ranges' /\ v \notin todo'
        BY DEF IInv, TypeOK, AllocateInterval
      <4>2. v \in Range(worklist')
        BY <1>8
      <4>3. Parent(allocated'[v]) \notin PreAllocatedUnits'
        BY <1>5, <1>6, <1>7
      <4> QED BY <3>1, <4>1, <4>2, <4>3
    <3>2. CASE u \in Scanned
      <4>1. allocated'[u] = allocated[u]
        BY <1>5, <3>2 DEF Scanned
      <4> QED BY <1>2, <1>6, <1>8, <2>2, <3>2, <4>1 DEF IInv, Visits
    <3> QED BY <1>5, <3>1, <3>2
  <2>5. \A j \in Expired' : index' <= j
    <3>1. index' = 1
      BY DEF AllocateInterval
    <3> QED BY <1>1, <3>1, FreeingStarts
  <2> QED BY <1>2, <2>1, <2>3, <2>4, <2>5 DEF Visits
<1>13. CalleeSavedRecorded'
  <2>1. used' \o backup' = CalleeSaved
    BY <1>3 DEF IInv, CalleeSavedRecorded
  <2>2. used \in Seq(Unit) /\ used' \in Seq(Unit) /\ c \in Unit
    BY <1>1, <1>3, StateTypes DEF IInv, TypeOK
  <2>3. CASE c \in Range(backup)
    <3>1. Range(used') = Range(used) \cup {c}
      <4>1. Range(Append(used, c)) = Range(used) \cup {c}
        BY <2>2, PushBackProperties
      <4> QED BY <1>3, <2>3, <4>1
    <3> QED BY <1>5, <2>1, <3>1 DEF IInv, CalleeSavedRecorded, Scanned
  <2>4. CASE c \in Range(pool)
    <3>1. c \in Range(CalleeSaved) => c \in Range(used)
      BY <2>4, BackupIsCalleeSaved DEF IInv, Places
    <3> QED BY <1>3, <1>5, <2>1, <2>4, <3>1
            DEF IInv, CalleeSavedRecorded, Scanned
  <2> QED BY <1>3, <2>3, <2>4
<1>14. NoInterference'
  \* A range that was given c before is not in the work list any more.
  <2>1. ASSUME NEW u \in Scanned, Parent(allocated[u]) = c
        PROVE  ranges[u].kill < ranges[v].def
    <3>1. u \notin Range(worklist)
      BY <1>7, <2>1 DEF HeldUnits, Held, Range
    <3>2. ranges[u].kill < now
      BY <3>1 DEF IInv, Visits
    <3>3. ranges[u].kill \in Nat
      BY StateTypes DEF IInv, Visits
    <3> QED BY <1>2, <3>2, <3>3, NextIntervalIsLater
  <2>2. ASSUME NEW u \in Scanned, Parent(allocated[u]) = c
        PROVE  ~Overlap(u, v) /\ ~Overlap(v, u)
    <3>1. ranges[u].kill \in Nat /\ ranges[v].def \in Nat
      BY <1>2, NextIntervalIsLater, StateTypes DEF IInv, Visits
    <3> QED BY <2>1, <2>2, <3>1 DEF Overlap
  <2>3. ASSUME NEW u \in Scanned', NEW w \in Scanned',
               u # w, Overlap(u, w)
        PROVE  Parent(allocated'[u]) # Parent(allocated'[w])
    <3>1. \A x \in Scanned : allocated'[x] = allocated[x]
      BY <1>5 DEF Scanned
    <3>2. CASE u = v
      BY <1>5, <2>2, <2>3, <3>1, <3>2
    <3>3. CASE w = v
      BY <1>5, <2>2, <2>3, <3>1, <3>3
    <3>4. CASE u # v /\ w # v
      BY <1>5, <2>3, <3>1, <3>4 DEF IInv, NoInterference
    <3> QED BY <3>2, <3>3, <3>4
  <2> QED BY <1>2, <2>3 DEF NoInterference, Overlap
<1> QED BY <1>1, <1>10, <1>11, <1>12, <1>13, <1>14 DEF IInv

\* A register that goes back to the pool is held by nobody else.
LEMMA FreeExpiredIInv == IInv /\ FreeExpired => IInv'
<1> SUFFICES ASSUME IInv, FreeExpired PROVE IInv'
  OBVIOUS
<1> DEFINE i == index
           c == Held(i)
<1>1. TypeOK'
  BY FreeExpiredTypeOK DEF IInv
<1>2. /\ pc = "free" /\ pc' = pc /\ fn' = fn /\ todo' = todo /\ now' = now
      /\ ranges' = ranges /\ allocated' = allocated /\ backup' = backup
      /\ used' = used
      /\ pool' = <<c>> \o pool /\ worklist' = RemoveAt(worklist, i)
      /\ index' = i
  BY DEF FreeExpired, Held
<1>3. /\ i \in Expired /\ i \in DOMAIN worklist /\ i \in 1..Len(worklist)
      /\ ranges[worklist[i]].kill < now /\ \A k \in Expired : i <= k
  BY StateTypes DEF IInv, Visits, FreeExpired, Expired
<1>4. /\ Scanned' = Scanned /\ PreAllocatedUnits' = PreAllocatedUnits
      /\ Scanning /\ Scanning'
  BY <1>2 DEF Scanned, PreAllocatedUnits, Scanning
<1>5. /\ c \in HeldUnits /\ c \notin Range(pool) /\ c \notin Range(backup)
      /\ c \notin PreAllocatedUnits /\ c \in Unit
  <2>1. c \in HeldUnits /\ c \in Unit
    BY <1>3, StateTypes DEF IInv, HeldUnits, Held
  <2> QED BY <2>1 DEF IInv, Places
<1> HIDE DEF i, c
<1>6. IsInjective(pool') /\ Range(pool') = Range(pool) \cup {c}
  BY <1>2, <1>5, PushFrontProperties DEF IInv, TypeOK, Places
<1>7. /\ worklist \in Seq(VReg)
      /\ Len(worklist) \in Nat /\ DOMAIN worklist = 1..Len(worklist)
      /\ DOMAIN worklist' = 1..(Len(worklist) - 1)
      /\ \A j \in DOMAIN worklist' :
           worklist'[j] = worklist[IF j < i THEN j ELSE j + 1]
  <2>1. worklist \in Seq(VReg)
    BY SeqMonotonic DEF IInv, TypeOK
  <2>2. /\ worklist' \in Seq(VReg) /\ Len(worklist') = Len(worklist) - 1
        /\ \A j \in 1..(Len(worklist) - 1) :
             worklist'[j] = IF j < i THEN worklist[j] ELSE worklist[j + 1]
    BY <1>2, <1>3, <2>1, RemoveAtProperties
  <2> QED BY <2>1, <2>2, LenProperties
<1> DEFINE Old(j) == IF j < i THEN j ELSE j + 1
<1>8. /\ \A j \in DOMAIN worklist' :
           Old(j) \in DOMAIN worklist \ {i} /\ worklist'[j] = worklist[Old(j)]
      /\ \A j, k \in DOMAIN worklist' : Old(j) = Old(k) => j = k
      /\ \A k \in DOMAIN worklist \ {i} : \E j \in DOMAIN worklist' : k = Old(j)
  <2>1. \A j \in DOMAIN worklist' :
           Old(j) \in DOMAIN worklist \ {i} /\ worklist'[j] = worklist[Old(j)]
    BY <1>3, <1>7
  <2>2. \A j, k \in DOMAIN worklist' : Old(j) = Old(k) => j = k
    BY <1>3, <1>7
  <2>3. ASSUME NEW k \in DOMAIN worklist \ {i}
        PROVE  \E j \in DOMAIN worklist' : k = Old(j)
    <3>1. CASE k < i
      BY <1>3, <1>7, <3>1
    <3>2. CASE k > i
      <4>1. k - 1 \in DOMAIN worklist' /\ k = Old(k - 1)
        BY <1>3, <1>7, <3>2
      <4> QED BY <4>1
    <3> QED BY <1>3, <1>7, <3>1, <3>2
  <2> QED BY <2>1, <2>2, <2>3
<1> HIDE DEF Old
<1>9. \A j \in DOMAIN worklist' : Held(j)' = Held(Old(j))
  BY <1>2, <1>8 DEF Held
<1>10. \A k \in DOMAIN worklist \ {i} : Held(k) # c
  BY <1>3 DEF IInv, Places, c
<1>11. HeldUnits' = HeldUnits \ {c}
  BY <1>8, <1>9, <1>10 DEF HeldUnits, c
<1>12. BeforeScan' /\ NoInterference' /\ CalleeSavedRecorded'
  BY <1>2, <1>4 DEF IInv, BeforeScan, NoInterference, Overlap,
                    CalleeSavedRecorded, Scanned
<1>13. Places'
  <2>1. ASSUME NEW j \in DOMAIN worklist', NEW k \in DOMAIN worklist',
               Held(j)' = Held(k)'
        PROVE  j = k
    <3>1. Held(Old(j)) = Held(Old(k))
      BY <1>9, <2>1
    <3> QED BY <1>8, <3>1 DEF IInv, Places
  <2> QED BY <1>2, <1>4, <1>5, <1>6, <1>11, <2>1 DEF IInv, Places
<1>14. Visits'
  <2>1. \A j \in DOMAIN worklist' : worklist'[j] \in Scanned'
    BY <1>4, <1>8 DEF IInv, Visits
  <2>2. ASSUME NEW u \in Range(worklist), u \notin Range(worklist')
        PROVE  ranges[u].kill < now
    <3>1. PICK k \in DOMAIN worklist : worklist[k] = u
      BY <2>2 DEF Range
    <3>2. k = i
      BY <1>8, <2>2, <3>1 DEF Range
    <3> QED BY <1>3, <3>1, <3>2
  <2>3. \A j \in Expired' : index' <= j
    <3>1. ASSUME NEW j \in DOMAIN worklist',
                 ranges'[worklist'[j]].kill < now'
          PROVE  Old(j) \in Expired /\ j \in Nat
      BY <1>2, <1>7, <1>8, <3>1 DEF Expired
    <3>2. \A j \in DOMAIN worklist' : i <= Old(j) => i <= j
      BY <1>3, <1>7 DEF Old
    <3> QED BY <1>2, <1>3, <3>1, <3>2 DEF Expired
  <2> QED BY <1>2, <1>4, <2>1, <2>2, <2>3 DEF IInv, Visits
<1> QED BY <1>1, <1>12, <1>13, <1>14 DEF IInv

\* A live range that is passed by leaves no expired one behind.
LEMMA KeepLiveIInv == IInv /\ KeepLive => IInv'
<1> SUFFICES ASSUME IInv, KeepLive PROVE IInv'
  OBVIOUS
<1>1. TypeOK'
  BY NextTypeOK DEF IInv, Next
<1>2. /\ UNCHANGED <<fn, pc, ranges, allocated, pool, backup, used, todo, now,
                     worklist>>
      /\ pc = "free" /\ index \notin Expired /\ index' = index + 1
  BY DEF KeepLive
<1>3. Visits'
  <2>1. /\ Expired' = Expired /\ Scanned' = Scanned
        /\ PreAllocatedUnits' = PreAllocatedUnits
    BY <1>2 DEF Expired, Scanned, PreAllocatedUnits
  <2>2. \A i \in Expired : index <= i /\ i # index /\ i \in Nat
    BY <1>2, StateTypes DEF IInv, Visits, Expired
  <2>3. \A i \in Expired' : index' <= i
    BY <1>2, <2>1, <2>2 DEF IInv, TypeOK
  <2> QED BY <1>2, <2>1, <2>3 DEF IInv, Visits
<1>4. BeforeScan' /\ CalleeSavedRecorded' /\ NoInterference'
  BY <1>2 DEF IInv, BeforeScan, CalleeSavedRecorded, NoInterference, Overlap,
              Scanned
<1>5. Places'
  BY <1>2 DEF IInv, Places, Held, HeldUnits, PreAllocatedUnits, Scanning
<1> QED BY <1>1, <1>3, <1>4, <1>5 DEF IInv

\* The steps that change the phase, and the operands, and nothing else.
LEMMA PhaseChangeIInv ==
  ASSUME IInv, TypeOK',
         UNCHANGED <<fn, ranges, allocated, pool, backup, used, todo, now,
                     worklist>>,
         pc \in {"preallocate", "allocate", "free"},
         \/ pc' = "aborted"
         \/ pc # "preallocate" /\ Expired = {}
              /\ pc' \in {"allocate", "ranOut", "done"}
  PROVE  IInv'
<1>1. BeforeScan' /\ CalleeSavedRecorded'
  BY DEF IInv, BeforeScan, CalleeSavedRecorded, Scanned
<1>2. NoInterference'
  BY DEF IInv, NoInterference, Overlap, Scanned
<1>3. Visits'
  BY DEF IInv, Visits, Scanned, PreAllocatedUnits, Expired
<1>4. Places'
  BY DEF IInv, Places, Held, HeldUnits, PreAllocatedUnits, Scanning
<1> QED BY <1>1, <1>2, <1>3, <1>4 DEF IInv

\* Every step keeps the invariant.
LEMMA NextIInv == IInv /\ [Next]_vars => IInv'
<1> SUFFICES ASSUME IInv, [Next]_vars PROVE IInv'
  OBVIOUS
<1>0. TypeOK'
  BY NextTypeOK DEF IInv
<1>1. CASE OutOfParameterRegisters
  BY <1>0, <1>1, PhaseChangeIInv DEF OutOfParameterRegisters
<1>2. CASE PreAllocate
  BY <1>2, PreAllocateIInv
<1>3. CASE RemovePreAllocated
  BY <1>3, RemovePreAllocatedIInv
<1>4. CASE ScanInstruction
  BY <1>4, ScanInstructionIInv
<1>5. CASE SortRanges
  BY <1>5, SortRangesIInv
<1>6. ASSUME NEW v \in todo, VisitAllocated(v)
      PROVE  IInv'
  BY <1>6, VisitAllocatedIInv
<1>7. ASSUME NEW v \in todo, AllocateInterval(v)
      PROVE  IInv'
  BY <1>7, AllocateIntervalIInv
<1>8. ASSUME NEW v \in todo, RunOutOfRegisters(v) \/ NoRegisterFits(v)
      PROVE  IInv'
  <2>1. pc = "allocate" => Expired = {}
    BY DEF IInv, Visits
  <2> QED BY <1>0, <1>8, <2>1, PhaseChangeIInv
          DEF RunOutOfRegisters, NoRegisterFits
<1>9. CASE FreeExpired
  BY <1>9, FreeExpiredIInv
<1>10. CASE FreeingDone
  <2>1. Expired = {}
    BY <1>10, StateTypes DEF IInv, TypeOK, Visits, FreeingDone, Expired
  <2> QED BY <1>0, <1>10, <2>1, PhaseChangeIInv DEF FreeingDone
<1>11. CASE RewriteOperands
  <2>1. pc = "allocate" => Expired = {}
    BY DEF IInv, Visits
  <2> QED BY <1>0, <1>11, <2>1, PhaseChangeIInv DEF RewriteOperands
<1>12. CASE UNCHANGED vars
  BY <1>12, UnchangedIInv
<1>13. CASE Terminated
  BY <1>12, <1>13 DEF Terminated
<1>14. CASE KeepLive
  BY <1>14, KeepLiveIInv
<1> QED BY <1>1, <1>2, <1>3, <1>4, <1>5, <1>6, <1>7, <1>8, <1>9, <1>10, <1>11,
           <1>12, <1>13, <1>14 DEF Next

\* The invariant holds in every state.
LEMMA InvariantIInv == Spec => []IInv
<1>1. Init => IInv
  BY InitIInv
<1>2. IInv /\ [Next]_vars => IInv'
  BY NextIInv
<1> QED BY <1>1, <1>2, PTL DEF Spec

-----------------------------------------------------------------------------
(* The properties *)

\* Every variable keeps its type.
THEOREM TypeCorrectness == Spec => []TypeOK
<1>1. IInv => TypeOK
  BY DEF IInv
<1> QED BY <1>1, InvariantIInv, PTL

\* No register is lost or handed out twice, whatever the pools hold and however
\* many live ranges there are.
THEOREM RegisterConservation == Spec => []RegistersConserved
<1>1. IInv => RegistersConserved
  BY DEF IInv, Places, RegistersConserved
<1> QED BY <1>1, InvariantIInv, PTL

\* Overlapping live ranges never share a register.
THEOREM InterferenceFreedom == Spec => []NoInterference
<1>1. IInv => NoInterference
  BY DEF IInv
<1> QED BY <1>1, InvariantIInv, PTL

\* The prologue is told of every callee-saved register that is handed out.
THEOREM CalleeSavedAreRecorded == Spec => []CalleeSavedRecorded
<1>1. IInv => CalleeSavedRecorded
  BY DEF IInv
<1> QED BY <1>1, InvariantIInv, PTL

-----------------------------------------------------------------------------
(* Running out of registers *)

\* The assertion fails where both pools are empty.
PoolsExhausted == pc = "ranOut" => pool = <<>> /\ backup = <<>>

\* The allocator gives up only with its pools empty, in every step.
LEMMA NextPoolsExhausted == PoolsExhausted /\ [Next]_vars => PoolsExhausted'
<1> SUFFICES ASSUME PoolsExhausted, [Next]_vars PROVE PoolsExhausted'
  OBVIOUS
<1>1. ASSUME NEW v \in todo,
             VisitAllocated(v) \/ AllocateInterval(v) \/ RunOutOfRegisters(v)
               \/ NoRegisterFits(v)
      PROVE  PoolsExhausted'
  BY <1>1 DEF PoolsExhausted, VisitAllocated, AllocateInterval,
              RunOutOfRegisters, NoRegisterFits
<1>2. CASE UNCHANGED vars
  BY <1>2 DEF vars, PoolsExhausted
<1>3. CASE Terminated
  BY <1>2, <1>3 DEF Terminated
<1>4. CASE ~(\E v \in todo : \/ VisitAllocated(v) \/ AllocateInterval(v)
                             \/ RunOutOfRegisters(v) \/ NoRegisterFits(v))
  BY <1>2, <1>3, <1>4
     DEF Next, PoolsExhausted, OutOfParameterRegisters, PreAllocate,
         RemovePreAllocated, ScanInstruction, SortRanges, FreeExpired,
         KeepLive, FreeingDone, RewriteOperands
<1> QED BY <1>1, <1>4

\* A function is given up on only when the ranges in use fill the target.
THEOREM PressureIsReal == Spec => []RunsOutOnlyUnderPressure
<1>1. Init => PoolsExhausted
  BY DEF Init, PoolsExhausted
<1>2. PoolsExhausted /\ [Next]_vars => PoolsExhausted'
  BY NextPoolsExhausted
<1>3. IInv /\ PoolsExhausted => RunsOutOnlyUnderPressure
  <2> SUFFICES ASSUME IInv, PoolsExhausted, pc = "ranOut"
               PROVE  {Parent(allocated[v]) :
                         v \in {w \in Scanned : ranges[w].kill >= now}}
                        = (Range(CallerSaved) \cup Range(CalleeSaved))
                            \ PreAllocatedUnits
    BY DEF RunsOutOnlyUnderPressure
  <2>1. Range(pool) = {} /\ Range(backup) = {}
    <3>1. pool = <<>> /\ backup = <<>>
      BY DEF PoolsExhausted
    <3> QED BY <3>1 DEF Range
  <2>2. HeldUnits = (Range(CallerSaved) \cup Range(CalleeSaved))
                      \ PreAllocatedUnits
    BY <2>1 DEF IInv, Places
  <2>3. \A w \in Scanned : ranges[w].kill \in Nat /\ now \in Nat
    BY StateTypes DEF IInv, TypeOK, Visits
  <2>4. \A w \in Scanned : ranges[w].kill >= now <=> w \in Range(worklist)
    <3>1. \A j \in DOMAIN worklist : ~(ranges[worklist[j]].kill < now)
      BY DEF IInv, Visits, Expired
    <3>2. \A w \in Scanned : w \in Range(worklist) => ~(ranges[w].kill < now)
      BY <3>1 DEF Range
    <3>3. \A w \in Scanned : ~(ranges[w].kill < now) => w \in Range(worklist)
      BY DEF IInv, Visits
    <3> QED BY <2>3, <3>2, <3>3
  <2>5. {w \in Scanned : ranges[w].kill >= now} = Range(worklist)
    <3>1. Range(worklist) \subseteq Scanned
      BY DEF IInv, Visits, Range
    <3> QED BY <2>4, <3>1
  <2>6. HeldUnits = {Parent(allocated[v]) : v \in Range(worklist)}
    BY DEF HeldUnits, Held, Range
  <2> QED BY <2>2, <2>5, <2>6
<1>4. Spec => []PoolsExhausted
  BY <1>1, <1>2, PTL DEF Spec
<1> QED BY <1>3, <1>4, InvariantIInv, PTL

-----------------------------------------------------------------------------
(* Every operand is rewritten *)

\* The registers of the scanned instructions have ranges, and the ranges are
\* either still to be visited or have a register.
Covered ==
  /\ pc = "preallocate" => counter = 0
  /\ \A k \in 1..counter : VRegsIn(fn.code[k]) \subseteq DOMAIN ranges
  /\ Scanning =>
       /\ counter = Len(fn.code)
       /\ DOMAIN ranges \subseteq todo \cup DOMAIN allocated
  /\ EveryOperandGetsARegister

\* Every step keeps that the operands read so far have a range.
LEMMA NextCovered == IInv /\ Covered /\ [Next]_vars => Covered'
<1> SUFFICES ASSUME IInv, Covered, [Next]_vars PROVE Covered'
  OBVIOUS
<1>0. counter \in Nat /\ TypeOK
  BY FunctionTypes DEF IInv, TypeOK
<1>1. CASE OutOfParameterRegisters
  BY <1>1 DEF OutOfParameterRegisters, Covered, Scanning,
              EveryOperandGetsARegister
<1>2. CASE PreAllocate
  BY <1>2 DEF PreAllocate, Covered, Scanning, EveryOperandGetsARegister
<1>3. CASE RemovePreAllocated
  BY <1>3 DEF RemovePreAllocated, Covered, Scanning, EveryOperandGetsARegister
<1>4. CASE ScanInstruction
  <2>1. /\ counter' = counter + 1 /\ fn' = fn /\ pc' = "ranges"
        /\ DOMAIN ranges' = DOMAIN ranges \cup VRegsIn(fn.code[counter + 1])
    BY <1>4 DEF ScanInstruction
  <2>2. ASSUME NEW k \in 1..counter'
        PROVE  VRegsIn(fn.code[k]) \subseteq DOMAIN ranges'
    <3>1. CASE k = counter + 1
      BY <2>1, <3>1
    <3>2. CASE k # counter + 1
      <4>1. k \in 1..counter
        BY <1>0, <2>1, <2>2, <3>2
      <4> QED BY <2>1, <4>1 DEF Covered
    <3> QED BY <3>1, <3>2
  <2> QED BY <2>1, <2>2 DEF Covered, Scanning, EveryOperandGetsARegister
<1>5. CASE SortRanges
  BY <1>5 DEF SortRanges, Covered, Scanning, EveryOperandGetsARegister
<1>6. ASSUME NEW v \in todo, VisitAllocated(v)
      PROVE  Covered'
  BY <1>6 DEF VisitAllocated, Covered, Scanning, EveryOperandGetsARegister
<1>7. ASSUME NEW v \in todo, AllocateInterval(v)
      PROVE  Covered'
  <2>1. /\ DOMAIN allocated' = DOMAIN allocated \cup {v}
        /\ todo' = todo \ {v} /\ ranges' = ranges /\ fn' = fn
        /\ counter' = counter /\ pc = "allocate" /\ pc' = "free"
    BY <1>7 DEF AllocateInterval
  <2> QED BY <2>1 DEF Covered, Scanning, EveryOperandGetsARegister
<1>8. ASSUME NEW v \in todo, RunOutOfRegisters(v) \/ NoRegisterFits(v)
      PROVE  Covered'
  BY <1>8 DEF RunOutOfRegisters, NoRegisterFits, Covered, Scanning,
              EveryOperandGetsARegister
<1>9. CASE FreeExpired
  BY <1>9 DEF FreeExpired, Covered, Scanning, EveryOperandGetsARegister
<1>10. CASE KeepLive \/ FreeingDone
  BY <1>10 DEF KeepLive, FreeingDone, Covered, Scanning,
               EveryOperandGetsARegister
<1>11. CASE RewriteOperands
  <2>1. /\ pc = "allocate" /\ todo = {} /\ pc' = "done" /\ fn' = fn
        /\ counter' = counter /\ ranges' = ranges /\ allocated' = allocated
        /\ todo' = todo
    BY <1>11 DEF RewriteOperands
  <2>2. DOMAIN ranges \subseteq DOMAIN allocated /\ counter = Len(fn.code)
    BY <2>1 DEF Covered, Scanning
  <2>3. ASSUME NEW i \in DOMAIN fn.code, NEW j \in DOMAIN fn.code[i].ops,
               fn.code[i].ops[j].vreg
        PROVE  emitted'[i][j] \in Unit \X Nat
    <3>1. emitted'[i][j] = RegisterOf(fn.code[i].ops[j].val)
      BY <1>11, <2>3 DEF RewriteOperands
    <3>2. i \in 1..counter
      BY <1>0, <2>2, FunctionTypes DEF TypeOK
    <3>3. fn.code[i].ops[j].val \in VRegsIn(fn.code[i])
      BY <2>3 DEF VRegsIn
    <3>4. fn.code[i].ops[j].val \in DOMAIN allocated
      BY <2>2, <3>2, <3>3 DEF Covered
    <3> QED BY <1>0, <3>1, <3>4 DEF TypeOK, RegisterOf
  <2>4. EveryOperandGetsARegister'
    BY <2>1, <2>3 DEF EveryOperandGetsARegister
  <2> QED BY <2>1, <2>4 DEF Covered, Scanning
<1>12. CASE UNCHANGED vars
  BY <1>12 DEF vars, Covered, Scanning, EveryOperandGetsARegister
<1>13. CASE Terminated
  BY <1>12, <1>13 DEF Terminated
<1> QED BY <1>1, <1>2, <1>3, <1>4, <1>5, <1>6, <1>7, <1>8, <1>9, <1>10, <1>11,
           <1>12, <1>13 DEF Next

\* No operand of a compiled function is left without a register.
THEOREM OperandsAreAllocated == Spec => []EveryOperandGetsARegister
<1>1. Init => Covered
  BY DEF Init, Covered, Scanning, EveryOperandGetsARegister
<1>2. IInv /\ Covered /\ [Next]_vars => Covered'
  BY NextCovered
<1>3. Covered => EveryOperandGetsARegister
  BY DEF Covered
<1> QED BY <1>1, <1>2, <1>3, InvariantIInv, PTL DEF Spec

-----------------------------------------------------------------------------
(* Operands read what was written for them *)

\* The line of every mention lies in the range of the register mentioned, and
\* the rewritten operands are the registers of the map.
Lines ==
  /\ fn \in MachineFunctions
  /\ \A v \in DOMAIN ranges : ranges[v].def <= counter
  /\ \A i \in 1..counter : \A v \in VRegsIn(fn.code[i]) :
       /\ v \in DOMAIN ranges
       /\ ranges[v].def <= i - 1 /\ i - 1 <= ranges[v].kill
  /\ pc = "done" =>
       /\ todo = {}
       /\ \A i \in DOMAIN fn.code : \A j \in DOMAIN fn.code[i].ops :
            fn.code[i].ops[j].vreg
              => emitted[i][j] = RegisterOf(fn.code[i].ops[j].val)

\* Scanning an instruction extends the ranges of its registers to its line.
LEMMA ScanInstructionLines == IInv /\ Lines /\ ScanInstruction => Lines'
<1> SUFFICES ASSUME IInv, Lines, ScanInstruction PROVE Lines'
  OBVIOUS
<1> DEFINE instr == fn.code[counter + 1]
<1>1. /\ counter' = counter + 1 /\ fn' = fn /\ pc' = "ranges"
      /\ counter < Len(fn.code)
      /\ DOMAIN ranges' = DOMAIN ranges \cup VRegsIn(instr)
      /\ \A v \in VRegsIn(instr) : ranges'[v] = RangeAfter(instr, v)
      /\ \A v \in DOMAIN ranges \ VRegsIn(instr) : ranges'[v] = ranges[v]
  BY DEF ScanInstruction
<1>2. counter \in Nat /\ Len(fn.code) \in Nat /\ Unkilled \in Nat
      /\ Len(fn.code) <= Unkilled
      /\ \A v \in DOMAIN ranges : ranges[v].def \in Nat /\ ranges[v].kill \in Nat
  BY StateTypes, FunctionTypes, FunctionAssumption DEF IInv, TypeOK, Lines
<1> HIDE DEF instr
<1>3. ASSUME NEW v \in VRegsIn(instr)
      PROVE  /\ ranges'[v].def <= counter /\ ranges'[v].def \in Nat
             /\ counter <= ranges'[v].kill
             /\ v \in DOMAIN ranges => ranges'[v].def = ranges[v].def
  <2>1. CASE v \in DOMAIN ranges
    <3>1. ranges'[v] = [def |-> ranges[v].def, kill |-> counter]
      BY <1>1, <2>1 DEF RangeAfter
    <3>2. ranges'[v].def = ranges[v].def /\ ranges'[v].kill = counter
      BY <3>1
    <3> QED BY <1>2, <2>1, <3>2 DEF Lines
  <2>2. CASE v \notin DOMAIN ranges
    <3>1. /\ ranges'[v].def = counter
          /\ ranges'[v].kill = counter \/ ranges'[v].kill = Unkilled
      BY <1>1, <2>2 DEF RangeAfter
    <3> QED BY <1>1, <1>2, <2>2, <3>1
  <2> QED BY <2>1, <2>2
<1>4. \A v \in DOMAIN ranges' : ranges'[v].def <= counter'
  BY <1>1, <1>2, <1>3 DEF Lines
<1>5. ASSUME NEW i \in 1..counter', NEW v \in VRegsIn(fn.code[i])
      PROVE  /\ v \in DOMAIN ranges'
             /\ ranges'[v].def <= i - 1 /\ i - 1 <= ranges'[v].kill
  <2>1. CASE i = counter + 1
    <3>1. v \in VRegsIn(instr) /\ i - 1 = counter
      BY <1>2, <2>1 DEF instr
    <3> QED BY <1>1, <1>3, <3>1
  <2>2. CASE i # counter + 1
    <3>1. i \in 1..counter
      BY <1>1, <1>2, <2>2
    <3>2. v \in DOMAIN ranges /\ ranges[v].def <= i - 1
            /\ i - 1 <= ranges[v].kill
      BY <3>1 DEF Lines
    <3>3. CASE v \in VRegsIn(instr)
      <4>1. i - 1 <= counter
        BY <1>2, <3>1
      <4>2. ranges'[v].def = ranges[v].def /\ counter <= ranges'[v].kill
        BY <1>3, <3>2, <3>3
      <4>3. ranges'[v].kill \in Nat
        BY <1>1, <3>3, ScanInstructionTypeOK, StateTypes DEF IInv, TypeOK, LiveRange
      <4> QED BY <1>1, <1>2, <3>1, <3>2, <4>1, <4>2, <4>3
    <3>4. CASE v \notin VRegsIn(instr)
      BY <1>1, <3>2, <3>4
    <3> QED BY <3>3, <3>4
  <2> QED BY <2>1, <2>2
<1> QED BY <1>1, <1>4, <1>5 DEF Lines

\* Every step keeps the lines within the ranges.
LEMMA NextLines == IInv /\ Covered /\ Lines /\ [Next]_vars => Lines'
<1> SUFFICES ASSUME IInv, Covered, Lines, [Next]_vars PROVE Lines'
  OBVIOUS
<1>1. CASE OutOfParameterRegisters
  BY <1>1 DEF OutOfParameterRegisters, Lines
<1>2. CASE PreAllocate
  <2>1. /\ counter' = 0 /\ pc' = "ranges" /\ fn' = fn
        /\ \A v \in DOMAIN ranges' : ranges'[v].def = 0
    BY <1>2 DEF PreAllocate, Covered
  <2> QED BY <2>1 DEF Lines
<1>3. CASE RemovePreAllocated
  BY <1>3 DEF RemovePreAllocated, Lines
<1>4. CASE ScanInstruction
  BY <1>4, ScanInstructionLines
<1>5. CASE SortRanges
  BY <1>5 DEF SortRanges, Lines
<1>6. ASSUME NEW v \in todo,
             \/ VisitAllocated(v) \/ AllocateInterval(v)
             \/ RunOutOfRegisters(v) \/ NoRegisterFits(v)
      PROVE  Lines'
  <2>1. UNCHANGED <<fn, counter, ranges>> /\ pc' # "done"
    BY <1>6 DEF VisitAllocated, AllocateInterval, RunOutOfRegisters,
                NoRegisterFits
  <2> QED BY <2>1 DEF Lines
<1>7. CASE FreeExpired \/ KeepLive \/ FreeingDone
  BY <1>7 DEF FreeExpired, KeepLive, FreeingDone, Lines
<1>8. CASE RewriteOperands
  <2>1. UNCHANGED <<fn, counter, ranges, allocated>> /\ todo' = {}
    BY <1>8 DEF RewriteOperands
  <2>2. ASSUME NEW i \in DOMAIN fn.code, NEW j \in DOMAIN fn.code[i].ops,
               fn.code[i].ops[j].vreg
        PROVE  emitted'[i][j] = RegisterOf(fn.code[i].ops[j].val)
    BY <1>8, <2>2 DEF RewriteOperands
  <2>3. \A v : RegisterOf(v)' = RegisterOf(v)
    BY <2>1 DEF RegisterOf
  <2> QED BY <2>1, <2>2, <2>3 DEF Lines
<1>9. CASE UNCHANGED vars
  BY <1>9 DEF vars, Lines, RegisterOf
<1>10. CASE Terminated
  BY <1>9, <1>10 DEF Terminated
<1> QED BY <1>1, <1>2, <1>3, <1>4, <1>5, <1>6, <1>7, <1>8, <1>9, <1>10 DEF Next

\* What is written between a definition and a use is another register: it is
\* live at its own line, which lies in the range of the operand, and neither of
\* the two is a parameter there.
LEMMA WritesBetween ==
  ASSUME IInv, Covered, Lines, pc = "done",
         NEW i \in DOMAIN fn.code, NEW v \in VRegsIn(fn.code[i]),
         NEW d \in Definitions(v), d < i,
         \A e \in Definitions(v) : e < i => e <= d,
         NEW k \in (d + 1)..(i - 1), Writes(fn.code[k])
  PROVE  LET w == fn.code[k].ops[1].val IN
           /\ v \in DOMAIN allocated /\ w \in DOMAIN allocated
           /\ Parent(allocated[w]) # Parent(allocated[v])
<1> DEFINE w == fn.code[k].ops[1].val
<1>1. /\ fn \in MachineFunctions /\ DOMAIN fn.code = 1..Len(fn.code)
      /\ Len(fn.code) \in Nat /\ counter = Len(fn.code)
      /\ Scanning
  BY FunctionTypes, StateTypes DEF IInv, Lines, Covered, Scanning
<1>2. d \in Nat
  BY <1>1 DEF Definitions
<1>3. i \in Nat /\ k \in Nat /\ d < k /\ k < i /\ k \in DOMAIN fn.code
  BY <1>1, <1>2
<1>4. 1 \in Written(k) /\ w \in VRegsIn(fn.code[k])
  BY DEF Written, Writes, VRegsIn
<1> HIDE DEF w
<1>5. w # v
  <2>1. k \in Definitions(w)
    BY <1>3, <1>4 DEF Definitions, w
  <2> QED BY <1>2, <1>3, <2>1
<1>6. w \notin ParamVRegs(fn)
  BY <1>1, <1>3, LoweringAssumption DEF w
<1>7. /\ v \in DOMAIN ranges /\ ranges[v].def <= i - 1 /\ i - 1 <= ranges[v].kill
      /\ w \in DOMAIN ranges /\ ranges[w].def <= k - 1 /\ k - 1 <= ranges[w].kill
  <2>1. i \in 1..counter /\ k \in 1..counter
    BY <1>1, <1>3
  <2> QED BY <1>4, <2>1 DEF Lines
<1>8. v \in DOMAIN allocated /\ w \in DOMAIN allocated
  <2>1. todo = {}
    BY DEF Lines
  <2> QED BY <1>1, <1>7, <2>1 DEF Covered
<1>9. CASE v \in ParamVRegs(fn)
  <2>1. w \notin RetVRegs(fn)
    BY <1>1, <1>3, <1>9, LoweringAssumption DEF w
  <2>2. w \in Scanned /\ v \in PreAllocated(fn)
    BY <1>6, <1>8, <1>9, <2>1 DEF Scanned, PreAllocated
  <2> QED BY <1>8, <2>2 DEF IInv, Visits, PreAllocatedUnits, w
<1>10. CASE v \notin ParamVRegs(fn) /\ v \in RetVRegs(fn)
  <2>1. w \notin RetVRegs(fn)
    BY <1>1, <1>5, <1>10, LoweringAssumption
  <2>2. w \in Scanned /\ v \in PreAllocated(fn)
    BY <1>6, <1>8, <1>10, <2>1 DEF Scanned, PreAllocated
  <2> QED BY <1>8, <2>2 DEF IInv, Visits, PreAllocatedUnits, w
<1>11. CASE v \in Scanned /\ w \in PreAllocated(fn)
  BY <1>8, <1>11 DEF IInv, Visits, PreAllocatedUnits, w
<1>12. CASE v \in Scanned /\ w \in Scanned
  <2>1. PICK e \in DOMAIN fn.code : e = d /\ v \in VRegsIn(fn.code[e])
    <3>1. v \notin ParamVRegs(fn)
      BY <1>12 DEF Scanned, PreAllocated
    <3> QED BY <3>1 DEF Definitions, Written, Writes, VRegsIn
  <2>2. ranges[v].def <= d - 1
    <3>1. d \in 1..counter
      BY <1>1, <2>1
    <3> QED BY <2>1, <3>1 DEF Lines
  <2>3. /\ ranges[v].def \in Nat /\ ranges[v].kill \in Nat
        /\ ranges[w].def \in Nat /\ ranges[w].kill \in Nat
    BY <1>7, StateTypes DEF IInv
  <2>4. Overlap(w, v)
    BY <1>2, <1>3, <1>7, <2>2, <2>3 DEF Overlap
  <2> QED BY <1>5, <1>8, <1>12, <2>4 DEF IInv, NoInterference, w
<1> QED BY <1>8, <1>9, <1>10, <1>11, <1>12 DEF Scanned, PreAllocated

\* Between a definition and a use no other definition ends up in the same
\* register, whatever the function and the target.
THEOREM OperandsReadWhatWasDefined == Spec => []OperandsReadTheirDefinition
<1>1. Init => Covered /\ Lines
  <2> SUFFICES ASSUME Init PROVE Covered /\ Lines
    OBVIOUS
  <2> QED BY DEF Init, Covered, Scanning, EveryOperandGetsARegister, Lines
<1>2. IInv /\ Covered /\ Lines /\ [Next]_vars => Covered' /\ Lines'
  BY NextCovered, NextLines
<1>3. IInv /\ Covered /\ Lines => OperandsReadTheirDefinition
  <2> SUFFICES ASSUME IInv, Covered, Lines, pc = "done",
                      NEW i \in DOMAIN fn.code, NEW j \in ReadOperands(i),
                      Reaching(i, j) # {},
                      NEW k \in (Max(Reaching(i, j)) + 1)..(i - 1),
                      NEW w \in Written(k)
               PROVE  Parent(emitted[k][w]) # Parent(emitted[i][j])
    BY DEF OperandsReadTheirDefinition
  <2> DEFINE v == fn.code[i].ops[j].val
             d == Max(Reaching(i, j))
  <2>1. /\ fn \in MachineFunction /\ DOMAIN fn.code = 1..Len(fn.code)
        /\ Len(fn.code) \in Nat /\ i \in Nat
    BY FunctionTypes, StateTypes DEF IInv
  <2>2. Reaching(i, j) \subseteq Nat /\ \A e \in Reaching(i, j) : e <= i
    BY <2>1 DEF Reaching, Definitions
  <2>3. d \in Reaching(i, j) /\ \A e \in Reaching(i, j) : e <= d
    BY <2>1, <2>2, MaxInSet
  <2>4. v \in VRegsIn(fn.code[i]) /\ fn.code[i].ops[j].vreg
          /\ j \in DOMAIN fn.code[i].ops
    BY DEF ReadOperands, VRegsIn
  <2>5. /\ d \in Definitions(v) /\ d < i
        /\ \A e \in Definitions(v) : e < i => e <= d
    BY <2>3 DEF Reaching
  <2>6. w = 1 /\ Writes(fn.code[k]) /\ k \in (d + 1)..(i - 1)
    BY DEF Written
  <2>7. k \in DOMAIN fn.code
    BY <2>1, <2>2, <2>3, <2>6
  <2>8. /\ emitted[i][j] = RegisterOf(v)
        /\ emitted[k][w] = RegisterOf(fn.code[k].ops[1].val)
    BY <2>4, <2>6, <2>7 DEF Lines, Writes
  <2> HIDE DEF v, d
  <2>9. /\ v \in DOMAIN allocated /\ fn.code[k].ops[1].val \in DOMAIN allocated
        /\ Parent(allocated[fn.code[k].ops[1].val]) # Parent(allocated[v])
    BY <2>4, <2>5, <2>6, WritesBetween
  <2> QED BY <2>8, <2>9 DEF RegisterOf
<1> QED BY <1>1, <1>2, <1>3, InvariantIInv, PTL DEF Spec

-----------------------------------------------------------------------------
(* The allocator implements the colouring of the live ranges *)

\* The colours the abstract specification sees.
color == [v \in Scanned |-> Parent(allocated[v])]

\* Handing out a register is the abstract step that gives a free colour.
LEMMA AllocateGives ==
  ASSUME IInv, NEW v \in todo, AllocateInterval(v)
  PROVE  Coloring!Next
<1>1. IInv' /\ fn' = fn /\ ranges' = ranges /\ v \notin DOMAIN allocated
      /\ pc = "allocate" /\ v \in DOMAIN ranges
  BY AllocateIntervalIInv DEF AllocateInterval, IInv, TypeOK
<1>2. PICK c \in Range(pool) \cup Range(backup) :
        allocated' = [w \in DOMAIN allocated \cup {v} |->
                        IF w = v THEN <<c, width[v]>> ELSE allocated[w]]
  BY TakenFromPools
<1>3. PreAllocated(fn) \subseteq DOMAIN allocated
  BY <1>1 DEF IInv, BeforeScan
<1>4. /\ Scanned' = Scanned \cup {v} /\ v \notin Scanned
      /\ Parent(allocated'[v]) = c
      /\ \A w \in DOMAIN allocated : allocated'[w] = allocated[w]
      /\ PreAllocatedUnits' = PreAllocatedUnits
  BY <1>1, <1>2, <1>3 DEF Scanned, Parent, PreAllocatedUnits
<1>5. c \in Unit /\ c \notin PreAllocatedUnits
  <2>1. c \in Unit
    BY StateTypes DEF IInv
  <2>2. Scanning
    BY <1>1 DEF Scanning
  <2> QED BY <2>1, <2>2 DEF IInv, Places
<1>6. ASSUME NEW w \in Scanned, Overlap(v, w)
      PROVE  Parent(allocated[w]) # c
  <2>1. v \in Scanned' /\ w \in Scanned' /\ v # w /\ Overlap(v, w)'
    BY <1>1, <1>4, <1>6 DEF Overlap
  <2>2. Parent(allocated'[v]) # Parent(allocated'[w])
    BY <1>1, <2>1 DEF IInv, NoInterference
  <2> QED BY <1>4, <2>2 DEF Scanned
<1>7. /\ DOMAIN color = Scanned
      /\ \A w \in Scanned : color[w] = Parent(allocated[w])
  BY DEF color
<1>8. color' = [w \in DOMAIN color \cup {v} |-> IF w = v THEN c ELSE color[w]]
  <2>1. \A w \in Scanned : Parent(allocated'[w]) = color[w]
    BY <1>4, <1>7 DEF Scanned
  <2>2. color' = [w \in Scanned \cup {v} |-> Parent(allocated'[w])]
    BY <1>4 DEF color
  <2> QED BY <1>4, <1>7, <2>1, <2>2
<1>9. Coloring!Free(v, c)
  BY <1>5, <1>6, <1>7
     DEF Coloring!Free, Coloring!Overlap, Overlap, color
<1>10. Coloring!Give(v, c)
  BY <1>1, <1>4, <1>7, <1>8, <1>9 DEF Coloring!Give, color
<1> QED BY <1>1, <1>5, <1>10 DEF Coloring!Next

\* Every other step leaves the colours alone.
LEMMA StepRefines == IInv /\ [Next]_vars => [Coloring!Next]_(Coloring!vars)
<1> SUFFICES ASSUME IInv, [Next]_vars
             PROVE  Coloring!Next \/ UNCHANGED Coloring!vars
  BY DEF Coloring!vars
<1>1. ASSUME pc \in {"preallocate", "ranges"}, fn' = fn,
             DOMAIN allocated' \subseteq PreAllocated(fn)
      PROVE  Coloring!Next
  <2>1. Scanned = {} /\ Scanned' = {}
    BY <1>1 DEF IInv, BeforeScan, Scanned
  <2>2. color = <<>> /\ color' = color
    BY <2>1 DEF color
  <2> QED BY <2>2 DEF Coloring!Next, Coloring!Prepare, color
<1>2. ASSUME UNCHANGED <<fn, ranges, allocated>>
      PROVE  UNCHANGED Coloring!vars
  BY <1>2 DEF Coloring!vars, Scanned, PreAllocatedUnits
<1>3. CASE PreAllocate
  BY <1>1, <1>3 DEF PreAllocate
<1>4. CASE ScanInstruction
  BY <1>1, <1>4 DEF ScanInstruction, IInv, BeforeScan
<1>5. ASSUME NEW v \in todo, AllocateInterval(v)
      PROVE  Coloring!Next
  BY <1>5, AllocateGives
<1>6. ASSUME NEW v \in todo,
             VisitAllocated(v) \/ RunOutOfRegisters(v) \/ NoRegisterFits(v)
      PROVE  UNCHANGED Coloring!vars
  BY <1>2, <1>6 DEF VisitAllocated, RunOutOfRegisters, NoRegisterFits
<1>7. CASE \/ OutOfParameterRegisters \/ RemovePreAllocated \/ SortRanges
           \/ FreeExpired \/ KeepLive \/ FreeingDone \/ RewriteOperands
  BY <1>2, <1>7
     DEF OutOfParameterRegisters, RemovePreAllocated, SortRanges, FreeExpired,
         KeepLive, FreeingDone, RewriteOperands
<1>8. CASE UNCHANGED vars
  BY <1>2, <1>8 DEF vars
<1>9. CASE Terminated
  BY <1>8, <1>9 DEF Terminated
<1> QED BY <1>3, <1>4, <1>5, <1>6, <1>7, <1>8, <1>9 DEF Next

\* Linear scan is a colouring of the live ranges: each step gives one range a
\* colour that no overlapping range and no pre-allocated register has, or
\* changes nothing the colouring sees.
THEOREM ScanImplementsColoring == Spec => ColoringSpec
<1>1. Init => Coloring!Init
  <2> SUFFICES ASSUME Init PROVE color = <<>>
    BY DEF Coloring!Init, color
  <2>1. Scanned = {}
    BY DEF Init, Scanned
  <2> QED BY <2>1 DEF color
<1>2. IInv /\ [Next]_vars => [Coloring!Next]_(Coloring!vars)
  BY StepRefines
<1> QED BY <1>1, <1>2, InvariantIInv, PTL DEF Spec, ColoringSpec, Coloring!Spec
=============================================================================
