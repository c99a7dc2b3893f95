--------------------------- MODULE VirtualRegisters ---------------------------
(***************************************************************************)
(* The lowering of the IR of one function (src/backend/IRtoLLIR.cpp) and    *)
(* the numbers it deals out (MachineFunction::GetNextAvailableVReg).  The   *)
(* values of the IR, the virtual registers and the stack slots are numbers  *)
(* of one range; IRVregToLLIRVreg says which register or slot has a value.  *)
(*                                                                         *)
(* A step lowers one instruction and executes what it emits, since the     *)
(* instructions of a block run in the order in which they are lowered.     *)
(* `reads` compares what the emitted instructions read with what the       *)
(* instruction of the IR reads.  What lies behind pointers to elements is  *)
(* not modelled.                                                           *)
(***************************************************************************)
EXTENDS Naturals, Sequences, FiniteSets

CONSTANTS
  Signatures,      \* the kinds of the parameters: sequences over Kinds
  LocalKinds,      \* the kinds of local variables
  MaxLocals,
  MaxIDs,          \* bounds of IRFactory::ID and of NextVReg: above the numbers of
  MaxNumbers,      \* the parameters
  Globals,         \* the numbers of the global aggregates
  Admitted         \* the kinds of programs that are admitted besides

Kinds == {"scalar", "pointer", "struct"}

\* Programs where a value has the number of the slot of a result, where the address
\* of a variable is an operand, where a global has the number of a slot.
Meetings == {"results", "addresses", "globals"}

ASSUME LoweringAssumption ==
  /\ Signatures \subseteq Seq(Kinds) /\ LocalKinds \subseteq Kinds
  /\ MaxLocals \in Nat /\ MaxIDs \in Nat /\ MaxNumbers \in Nat
  /\ Globals \subseteq Nat /\ Admitted \subseteq Meetings

VARIABLES
  pc,
  signature,
  param,     \* the parameter that is lowered next
  locals,    \* the stack allocations of the function: ID |-> kind
  ID,        \* IRFactory::ID, when the next instruction was made
  values,    \* the IR's values still to be used: ID |-> [kind, token]
  memory,    \* and its variables: <<local, part>> |-> token
  mf,        \* MachineFunction and IRtoLLIR, with a machine that executes it
  reads      \* the last instruction's operands: <<what IR reads, what is read>>

vars == <<pc, signature, param, locals, ID, values, memory, mf, reads>>

-----------------------------------------------------------------------------
(* Tokens stand for the contents of registers and memory. *)

Parts == {1, 2}
ValueOf(n) == <<"value", n>>
AddressOf(n) == <<"address", n>>
Parameter(i, part) == <<"parameter", i, part>>
Constant == <<"constant">>
Undefined == <<"undefined">>

Initial(n, part) == <<"initial", n, part>>
Global == <<"global">>

PartsOf(kind) == IF kind = "struct" THEN Parts ELSE {1}

With(f, k, v) == [x \in DOMAIN f \cup {k} |-> IF x = k THEN v ELSE f[x]]
Over(new, f) ==
  [x \in DOMAIN new \cup DOMAIN f |-> IF x \in DOMAIN new THEN new[x] ELSE f[x]]
At(f, k) == IF k \in DOMAIN f THEN f[k] ELSE Undefined
Nothing == [x \in {} |-> x]

-----------------------------------------------------------------------------
(* Numbers.  The second loop of GetNextAvailableVReg looks at the registers  *)
(* in the code; these have been dealt out before, or are parameters, so that *)
(* it finds none above NextVReg (NumbersAreFresh).                           *)

\* The first loop, over the parameters.
Scanned(parameters, next) ==
  LET f[i \in 0..Len(parameters)] ==
        IF i = 0 THEN next
        ELSE IF parameters[i] = f[i - 1] THEN f[i - 1] + 1
        ELSE IF parameters[i] > f[i - 1] THEN parameters[i]
        ELSE f[i - 1]
  IN f[Len(parameters)]

GetNextAvailableVReg(m) == Scanned(m.parameters, m.next)

\* A register of that number is defined with the token t.
Define(m, t) ==
  LET n == GetNextAvailableVReg(m) IN
  [m EXCEPT !.next = n + 1, !.regs = With(@, n, t)]

\* The number that Define takes.
New(m) == GetNextAvailableVReg(m)

\* Mutation: the number of the slot may be dealt out again.
InsertSlotOnly(m, n) == [m EXCEPT !.slots = @ \cup {n}]

InsertStackSlot(m, n) ==
  [m EXCEPT !.slots = @ \cup {n}, !.next = IF @ <= n THEN n + 1 ELSE @]

IsStackSlot(m, n) == n \in m.slots

-----------------------------------------------------------------------------
(* Operands *)

\* The numbers are bounded.
EndID == 2 * Len(signature) + MaxIDs
EndVReg == 2 * Len(signature) + MaxNumbers

\* The number of the next value: the stack allocations took some.
NextID ==
  CHOOSE n \in ID..EndID :
    /\ n \notin DOMAIN locals
    /\ \A k \in ID..(n - 1) : k \in DOMAIN locals

GetIDFromValue(m, v) == IF v \in DOMAIN m.map THEN m.map[v] ELSE v

Load(m, slot) ==
  [m |-> Define(m, At(m.frame, <<slot, 1>>)), reg |-> New(m)]

MapNew(m, v) ==
  [m |-> [Define(m, Undefined) EXCEPT !.map = With(@, v, New(m))], reg |-> New(m)]

\* Mutation: what a value is mapped to is taken for a register.
OperandWithoutLoad(m, v, isDef) ==
  IF v \in DOMAIN m.map THEN [m |-> m, reg |-> m.map[v]]
  ELSE IF ~isDef /\ IsStackSlot(m, v) THEN Load(m, v)
  ELSE MapNew(m, v)

\* The register of the IR's register v, and what was emitted to have it there.
GetMachineOperandFromValue(m, v, isDef) ==
  IF v \notin DOMAIN m.map
  THEN IF ~isDef /\ IsStackSlot(m, v) THEN Load(m, v) ELSE MapNew(m, v)
  ELSE IF ~isDef /\ IsStackSlot(m, m.map[v]) THEN Load(m, m.map[v])
  ELSE [m |-> m, reg |-> m.map[v]]

\* Results are asked for as if they were sources, but for those of loads.
Result(m, v) == GetMachineOperandFromValue(m, v, FALSE)

\* The operands of the IR: a constant, a value, or the address of a variable.
Literal == EndID + 1
Variables == {v \in DOMAIN locals : v < NextID}

KindOf(v) == IF v = Literal THEN "scalar"
             ELSE IF v \in DOMAIN values THEN values[v].kind
             ELSE "pointer"

TokenOf(v) == IF v = Literal THEN Constant
              ELSE IF v \in DOMAIN values THEN values[v].token
              ELSE AddressOf(v)

\* Code generation walks over the expression: the value that is used next is the
\* last one, and the one that is used together with it the one before.
Latest == {v \in DOMAIN values : \A w \in DOMAIN values : w <= v}
LastBut(v) == {w \in DOMAIN values \ {v} : \A x \in DOMAIN values \ {v} : x <= w}

Operands(candidates, kinds) ==
  {v \in candidates \cup {Literal} \cup (IF "addresses" \in Admitted THEN Variables ELSE {}) :
     KindOf(v) \in kinds}

Source(m, v) ==
  IF v = Literal THEN [m |-> m, reg |-> Literal]
  ELSE GetMachineOperandFromValue(m, v, FALSE)

\* The operand o was emitted for v and is read in the machine's state m.
Read(m, v, o) == <<TokenOf(v), IF v = Literal THEN Constant ELSE At(m.regs, o.reg)>>

\* v is an address: of a slot, or in a register.
AddressRead(m, v) ==
  LET a == GetIDFromValue(m, v)
  IN <<TokenOf(v), IF IsStackSlot(m, a) THEN AddressOf(a) ELSE At(m.regs, a)>>

-----------------------------------------------------------------------------
(* Initialisation: the parameters, then the stack allocations, which stand in *)
(* front of the first block, then the stores of the parameters.               *)

\* The number of a parameter is behind that of its own variable.
LocalOf(i) == 2 * (i - 1)
ParameterOf(i) == 2 * (i - 1) + 1

ParameterLocals(sig) ==
  [n \in {LocalOf(i) : i \in DOMAIN sig} |-> sig[(n \div 2) + 1]]

\* Those of the parameters have the first numbers, and other numbers behind them
\* may be those of variables.
OtherLocals(sig) ==
  UNION {[S -> LocalKinds] :
           S \in {T \in SUBSET (2 * Len(sig)..2 * Len(sig) + MaxIDs - 1) :
                   Cardinality(T) <= MaxLocals}}

Allocations(sig) ==
  LET p == ParameterLocals(sig) IN
  {[n \in DOMAIN p \cup DOMAIN l |-> IF n \in DOMAIN p THEN p[n] ELSE l[n]] :
     l \in OtherLocals(sig)}

EmptyFunction ==
  [next |-> 0, parameters |-> <<>>, structs |-> Nothing, loaded |-> Nothing,
   map |-> Nothing, slots |-> {}, regs |-> Nothing, frame |-> Nothing]

Cells(n) == {<<n, p>> : p \in PartsOf(locals[n])}
InitialCells(n) == [c \in Cells(n) |-> Initial(c[1], c[2])]

Init ==
  /\ pc = "parameters" /\ signature \in Signatures /\ param = 1
  /\ locals \in Allocations(signature)
  /\ ID = 2 * Len(signature)
  /\ values = Nothing /\ memory = Nothing /\ reads = {}
  /\ mf = EmptyFunction

\* A parameter has its own number, but a struct takes two new ones.
InsertParameter(m, n, t) ==
  [m EXCEPT !.parameters = Append(@, n), !.regs = With(@, n, t)]

InsertNewParameter(m, t) ==
  InsertParameter([m EXCEPT !.next = New(m) + 1], New(m), t)

HandleFunctionParam ==
  LET kind == signature[param]
      first == InsertNewParameter(mf, Parameter(param, 1))
  IN
  /\ pc = "parameters" /\ param <= Len(signature) /\ param' = param + 1
  /\ mf' = IF kind = "struct"
           THEN [InsertNewParameter(first, Parameter(param, 2)) EXCEPT
                   !.structs = With(@, param, <<New(mf), New(first)>>)]
           ELSE InsertParameter(mf, ParameterOf(param), Parameter(param, 1))
  /\ UNCHANGED <<pc, signature, locals, ID, values, memory, reads>>

ParametersHandled ==
  /\ pc = "parameters" /\ param > Len(signature) /\ pc' = "allocations"
  /\ UNCHANGED <<signature, param, locals, ID, values, memory, mf, reads>>

\* The stack allocations are lowered in the order of their numbers.
HandleStackAllocation ==
  /\ pc = "allocations"
  /\ \E n \in DOMAIN locals \ mf.slots :
       /\ \A k \in DOMAIN locals \ mf.slots : n <= k
       /\ mf' = [InsertStackSlot(mf, n) EXCEPT !.frame = Over(InitialCells(n), @)]
       /\ memory' = Over(InitialCells(n), memory)
  /\ UNCHANGED <<pc, signature, param, locals, ID, values, reads>>

\* The stores of the parameters to their variables.
RegisterOf(i, part) ==
  IF signature[i] = "struct" THEN mf.structs[i][part] ELSE ParameterOf(i)

StoreParameters ==
  LET cells == UNION {Cells(LocalOf(i)) : i \in DOMAIN signature}
      parameter(c) == (c[1] \div 2) + 1
      ir == [c \in cells |-> Parameter(parameter(c), c[2])]
      machine == [c \in cells |-> At(mf.regs, RegisterOf(parameter(c), c[2]))]
  IN
  /\ pc = "allocations" /\ DOMAIN locals \subseteq mf.slots /\ pc' = "body"
  /\ mf' = [mf EXCEPT !.frame = Over(machine, @)]
  /\ memory' = Over(ir, memory)
  /\ reads' = {<<ir[c], machine[c]>> : c \in cells}
  /\ UNCHANGED <<signature, param, locals, ID, values>>

-----------------------------------------------------------------------------
(* One instruction each *)

\* The values that are not used after the instruction, if these are not.
Without(dead) == [v \in DOMAIN values \ dead |-> values[v]]

\* The instruction gives the value NextID, of some kind and content.
Gives(kind, token, dead) ==
  /\ NextID < EndID /\ ID' = NextID + 1
  /\ values' = With(Without(dead), NextID, [kind |-> kind, token |-> token])

\* The number of the value is looked up as that of a source.
LooksUp == "results" \in Admitted \/ ~IsStackSlot(mf, NextID)

Unchanged == UNCHANGED <<pc, signature, param, locals>>

SetReg(m, n, t) == [m EXCEPT !.regs = With(@, n, t)]

LowerBinary(l, r, dead) ==
  LET d == Result(mf, NextID)
      a == Source(d.m, l)
      b == Source(a.m, r)
  IN
  /\ pc = "body" /\ LooksUp /\ Gives("scalar", ValueOf(NextID), dead)
  /\ mf' = SetReg(b.m, d.reg, ValueOf(NextID))
  /\ reads' = {Read(b.m, l, a), Read(b.m, r, b)}
  /\ UNCHANGED memory /\ Unchanged

LowerUnary(x) ==
  LET d == Result(mf, NextID)
      a == Source(d.m, x)
  IN
  /\ pc = "body" /\ LooksUp /\ Gives("scalar", ValueOf(NextID), {x})
  /\ mf' = SetReg(a.m, d.reg, ValueOf(NextID))
  /\ reads' = {Read(a.m, x, a)}
  /\ UNCHANGED memory /\ Unchanged

\* Loads and stores: a variable, or what a pointer points to.
Locations ==
  {v \in Variables : locals[v] # "struct"}
    \cup {v \in Latest : values[v].kind = "pointer"}

ContentKind(v) == IF v \in DOMAIN values THEN "scalar" ELSE locals[v]

LowerLoad(v, dead) ==
  LET d == GetMachineOperandFromValue(mf, NextID, TRUE)
      a == GetIDFromValue(mf, v)
      ir == IF v \in DOMAIN values THEN ValueOf(NextID) ELSE At(memory, <<v, 1>>)
      machine == IF IsStackSlot(d.m, a) THEN At(d.m.frame, <<a, 1>>) ELSE ValueOf(NextID)
  IN
  /\ pc = "body"
  /\ ContentKind(v) = "pointer" => LooksUp
  /\ Gives(ContentKind(v), ir, dead)
  /\ mf' = SetReg(d.m, d.reg, machine)
  /\ reads' = {AddressRead(d.m, v)}
  /\ UNCHANGED memory /\ Unchanged

LowerStore(v, x, dead) ==
  LET a == GetIDFromValue(mf, v)
      s == Source(mf, x)
      stored == Read(s.m, x, s)
  IN
  /\ pc = "body" /\ KindOf(x) = ContentKind(v)
  /\ mf' = IF IsStackSlot(mf, a) THEN [s.m EXCEPT !.frame = With(@, <<a, 1>>, stored[2])]
           ELSE s.m
  /\ memory' = IF v \in DOMAIN values THEN memory ELSE With(memory, <<v, 1>>, stored[1])
  /\ reads' = {AddressRead(s.m, v), stored}
  /\ values' = Without(dead)
  /\ UNCHANGED ID /\ Unchanged

\* The address of a global takes a number before anything else does.
LowerLoadGlobal ==
  LET g == Define(mf, Global)
      d == GetMachineOperandFromValue(g, NextID, TRUE)
  IN
  /\ pc = "body" /\ Gives("scalar", ValueOf(NextID), {})
  /\ mf' = SetReg(d.m, d.reg, ValueOf(NextID))
  /\ reads' = {<<Global, At(d.m.regs, New(mf))>>}
  /\ UNCHANGED memory /\ Unchanged

LowerStoreGlobal(x) ==
  LET s == Source(Define(mf, Global), x) IN
  /\ pc = "body" /\ mf' = s.m
  /\ reads' = {<<Global, At(s.m.regs, New(mf))>>, Read(s.m, x, s)}
  /\ values' = Without({x})
  /\ UNCHANGED <<ID, memory>> /\ Unchanged

\* The address of an element of v.  An index in a register takes from one to
\* three numbers: for its extension, the size of an element, and the product.
Structs == {v \in Variables : locals[v] = "struct"}

Aggregates(candidates) ==
  Structs \cup {v \in candidates : values[v].kind = "pointer"}

Temporaries(m, k) ==
  LET f[i \in 0..k] == IF i = 0 THEN m ELSE Define(f[i - 1], Undefined) IN f[k]

LowerGEP(v, x, extra) ==
  LET onStack == IsStackSlot(mf, GetIDFromValue(mf, v))
      d == Result(mf, NextID)
      i == Source(d.m, x)
      t == Temporaries(i.m, extra)
      b == IF onStack THEN [m |-> t, reg |-> Literal] ELSE Source(t, v)
  IN
  /\ pc = "body" /\ LooksUp /\ Gives("pointer", ValueOf(NextID), {v, x})
  /\ (x = Literal) = (extra = 0)
  /\ mf' = SetReg(b.m, d.reg, ValueOf(NextID))
  /\ reads' = {Read(i.m, x, i),
               IF onStack THEN AddressRead(mf, v) ELSE Read(b.m, v, b)}
  /\ UNCHANGED memory /\ Unchanged

\* Of a global, whose number is looked up like that of a value.  With a constant
\* index, the offset is that of a stack access if there is a slot of that number.
LowerGEPGlobal(g, x, extra, zero) ==
  LET onStack == IsStackSlot(mf, GetIDFromValue(mf, g))
      d == Result(mf, NextID)
      i == Source(d.m, x)
      lost == x = Literal /\ ~zero /\ onStack
  IN
  /\ pc = "body" /\ LooksUp /\ Gives("pointer", ValueOf(NextID), {x})
  /\ (x = Literal) = (extra = 0)
  /\ zero => x = Literal
  /\ lost => "globals" \in Admitted
  /\ mf' = SetReg(Temporaries(i.m, extra), d.reg, IF lost THEN Global ELSE ValueOf(NextID))
  /\ reads' = {Read(i.m, x, i)}
  /\ UNCHANGED memory /\ Unchanged

\* A struct that is passed by value is loaded into registers first.
LowerLoadStruct(v) ==
  LET d == GetMachineOperandFromValue(mf, NextID, TRUE)
      a == GetIDFromValue(mf, v)
      first == Define(d.m, At(d.m.frame, <<a, 1>>))
      second == Define(first, At(d.m.frame, <<a, 2>>))
  IN
  /\ pc = "body" /\ Gives("struct", [p \in Parts |-> At(memory, <<v, p>>)], {})
  /\ mf' = [second EXCEPT !.loaded = With(@, NextID, <<New(d.m), New(first)>>)]
  /\ reads' = {AddressRead(d.m, v)}
  /\ UNCHANGED memory /\ Unchanged

\* memcopy from a variable, by loads and stores of the parts.
LowerMemoryCopy(v, from) ==
  LET a == GetIDFromValue(mf, v)
      b == GetIDFromValue(mf, from)
      m == Temporaries(mf, Cardinality(Parts))
      copied == [c \in {<<a, p>> : p \in Parts} |-> At(mf.frame, <<b, c[2]>>)]
      ir == [c \in {<<v, p>> : p \in Parts} |-> At(memory, <<from, c[2]>>)]
  IN
  /\ pc = "body" /\ NextID < EndID /\ ID' = NextID + 1
  /\ mf' = IF IsStackSlot(mf, a) THEN [m EXCEPT !.frame = Over(copied, @)] ELSE m
  /\ memory' = IF v \in DOMAIN values THEN memory ELSE Over(ir, memory)
  /\ reads' = {AddressRead(m, v), AddressRead(m, from)}
  /\ values' = Without({v})
  /\ Unchanged

-----------------------------------------------------------------------------
(* Calls: a move to an argument register per argument, or per part of a      *)
(* struct; the result goes to a slot of its own.                             *)

Passed(m, v) ==
  IF KindOf(v) = "struct"
  THEN [m |-> m, reads |-> {<<values[v].token[p], At(m.regs, m.loaded[v][p])>> : p \in Parts}]
  ELSE IF KindOf(v) = "pointer" /\ IsStackSlot(m, v)
  THEN [m |-> m, reads |-> {<<TokenOf(v), AddressOf(v)>>}]
  ELSE LET s == Source(m, v) IN [m |-> s.m, reads |-> {Read(s.m, v, s)}]

PassedAll(m, args) ==
  LET f[i \in 0..Len(args)] ==
        IF i = 0 THEN [m |-> m, reads |-> {}]
        ELSE LET p == Passed(f[i - 1].m, args[i])
             IN [m |-> p.m, reads |-> f[i - 1].reads \cup p.reads]
  IN f[Len(args)]

LowerVoidCall(args) ==
  LET passed == PassedAll(mf, args) IN
  /\ pc = "body" /\ mf' = passed.m /\ reads' = passed.reads
  /\ values' = Without({args[i] : i \in DOMAIN args})
  /\ UNCHANGED <<ID, memory>> /\ Unchanged

\* The call of a function that returns a scalar, with its one slot.  For a
\* struct that comes in registers the code makes a slot for each of them
\* (IRtoLLIR.cpp:519), and MemoryAccess has what is stored there.
LowerCall(args) ==
  LET passed == PassedAll(mf, args)
      slot == New(passed.m)
  IN
  /\ pc = "body"
  /\ Gives("scalar", ValueOf(NextID), {args[i] : i \in DOMAIN args})
  /\ mf' = [InsertStackSlot(passed.m, slot) EXCEPT
              !.map = With(@, NextID, slot),
              !.frame = With(@, <<slot, 1>>, ValueOf(NextID))]
  /\ reads' = passed.reads
  /\ UNCHANGED memory /\ Unchanged

-----------------------------------------------------------------------------
(* Statements *)

\* The end of an expression statement: its values are not used any more.
EndStatement ==
  /\ pc = "body" /\ values # Nothing
  /\ values' = Nothing /\ reads' = {}
  /\ UNCHANGED <<ID, memory, mf>> /\ Unchanged

LowerBranch(x) ==
  LET s == Source(mf, x) IN
  /\ pc = "body" /\ mf' = s.m /\ reads' = {Read(s.m, x, s)} /\ values' = Nothing
  /\ UNCHANGED <<ID, memory>> /\ Unchanged

LowerReturn(x) ==
  LET s == Source(mf, x) IN
  /\ pc = "body" /\ mf' = s.m /\ reads' = {Read(s.m, x, s)} /\ pc' = "done"
  /\ UNCHANGED <<signature, param, locals, ID, values, memory>>

Scalars == {"scalar"}
Simple == {"scalar", "pointer"}

\* An assignment has the value that it stores, an increment the one it loads, and
\* uses the address twice; all other values are used once.
Dead(used) == {{}, used \cap DOMAIN values}

ArgumentLists ==
  LET Argument(candidates) == candidates \cup {Literal} \cup Variables IN
  {<<>>} \cup {<<v>> : v \in Argument(Latest)}
    \cup UNION {{<<w, v>> : w \in Argument(LastBut(v))} : v \in Argument(Latest)}

LowerInstruction ==
  \/ \E r \in Operands(Latest, Scalars) : \E l \in Operands(LastBut(r), Scalars) :
       \E dead \in IF r = Literal THEN Dead({l}) ELSE {{l, r}} : LowerBinary(l, r, dead)
  \/ \E x \in Operands(Latest, Scalars) :
       LowerUnary(x) \/ LowerStoreGlobal(x) \/ LowerBranch(x) \/ LowerReturn(x)
  \/ \E v \in Locations : \E dead \in Dead({v}) : LowerLoad(v, dead)
  \/ \E v \in Locations : \E x \in Operands(LastBut(v), Simple) :
       \E dead \in {{v}, {v, x}} : LowerStore(v, x, dead)
  \/ LowerLoadGlobal
  \/ \E x \in Operands(Latest, Scalars) : \E v \in Aggregates(LastBut(x)), extra \in 0..3 :
       LowerGEP(v, x, extra)
  \/ \E x \in Operands(Latest, Scalars), g \in Globals, extra \in 0..3, zero \in BOOLEAN :
       LowerGEPGlobal(g, x, extra, zero)
  \/ \E v \in Structs : LowerLoadStruct(v)
  \/ \E v \in Aggregates(Latest), from \in Structs : LowerMemoryCopy(v, from)
  \/ \E args \in ArgumentLists : LowerVoidCall(args) \/ LowerCall(args)

Next ==
  \/ HandleFunctionParam
  \/ ParametersHandled
  \/ HandleStackAllocation
  \/ StoreParameters
  \/ LowerInstruction /\ mf'.next <= EndVReg
  \/ EndStatement

Spec == Init /\ [][Next]_vars

-----------------------------------------------------------------------------
(* Properties *)

Numbers(m) == 0..(m.next - 1) \cup {ParameterOf(i) : i \in DOMAIN signature}

\* What the emitted instructions read is what the instruction of the IR reads:
\* the same values, and the same variables.
OperandsHoldTheirValues == \A r \in reads : r[1] = r[2]

\* No register or slot is numbered above NextVReg, parameters excepted; the number
\* of a new one is that of nothing else, and parameters have one register each.
NumbersAreFresh ==
  /\ DOMAIN mf.regs \subseteq Numbers(mf) /\ mf.slots \subseteq 0..(mf.next - 1)
  /\ pc = "body" => New(mf) \notin DOMAIN mf.regs \cup mf.slots
  /\ \A i, j \in DOMAIN mf.parameters : mf.parameters[i] = mf.parameters[j] => i = j
=============================================================================
