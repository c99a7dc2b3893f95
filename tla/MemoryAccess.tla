----------------------------- MODULE MemoryAccess -----------------------------
(***************************************************************************)
(* How the compiled code reaches objects in memory: frames and data, the   *)
(* loads, stores and address computations that code generation             *)
(* (src/frontend/ast/AST.cpp) makes of names, indices, members and         *)
(* pointers, and their lowering (src/backend/IRtoLLIR.cpp).  A step        *)
(* compiles a statement and executes it: memory is one of bytes, each a    *)
(* token that tells whose byte it is.  One function calls another, whose   *)
(* frame lies below its own; what else is in the frames, and which         *)
(* register has a value, are in PrologueEpilogInsertion and                *)
(* VirtualRegisters.                                                       *)
(***************************************************************************)
EXTENDS IRType, SyntaxTree, StackFrame, FiniteSets

CONSTANT Programs     \* see ObjectStore

VARIABLES
  program,     \* the one that is compiled
  layout,      \* where its objects are
  memory,      \* address |-> byte
  gtype,       \* GlobalVariable's types: global |-> type
  call,        \* the call that is executed
  last         \* the statement that was executed last

vars == <<program, layout, memory, gtype, call, last>>

-----------------------------------------------------------------------------
(* Bytes, and the contents of registers: sequences of bytes. *)

Untouched == <<"untouched", 0, 0>>
Zero == <<"zero", 0, 0>>
ValueBytes(n, width) == [k \in 1..width |-> <<"val", n, k>>]
\* Literals are small.
LiteralBytes(n, width) ==
  [k \in 1..width |-> IF k = 1 /\ n # 0 THEN <<"lit", n, 1>> ELSE Zero]

Nowhere == 0
PointerSize == 8
AddressBytes(a) == [k \in 1..PointerSize |-> <<"at", a, k>>]
Pointed(word) ==
  IF word # <<>> /\ word = AddressBytes(word[1][2]) THEN word[1][2] ELSE Nowhere

\* An address outside of memory is one of an object that was not found.
Load(m, a, n) == [k \in 1..n |-> IF a + k - 1 \in DOMAIN m THEN m[a + k - 1] ELSE Untouched]
Write(m, a, word) ==
  [x \in DOMAIN m |-> IF x \in a..(a + Len(word) - 1) THEN word[x - a + 1] ELSE m[x]]

-----------------------------------------------------------------------------
(* Where objects are. *)

MaxStructSizePassedByValue == 128

TooBig(t) == IsStruct(t) /\ ~IsPTR(t) /\ GetByteSize(t) * 8 > MaxStructSizePassedByValue

\* A struct that is too big to be passed by value is passed as a pointer to it.
ParameterType(t) == IF TooBig(t) THEN Incremented(t) ELSE t

IsParameter(p, o) == \E k \in 1..p.parameters : p.callee[k] = o
DeclaredType(p, o) == IF IsParameter(p, o) THEN ParameterType(p.type[o]) ELSE p.type[o]

\* HandleStackAllocation
SlotSize(t) == IF IsPTR(t) THEN PointerSize ELSE GetByteSize(t)

FrameOf(p, objects) ==
  FoldLeft(LAMBDA frame, i : InsertStackSlot(frame, i, SlotSize(DeclaredType(p, objects[i]))),
           EmptyFrame, [i \in DOMAIN objects |-> i])

Rounded(frame) == GetNextAlignedValue(frame.size, 16)

\* The data of a global: the sizes and initial values of its pieces.
Allocations(t, list) ==
  IF list = <<>> THEN <<[size |-> GetByteSize(t), n |-> 0]>>
  ELSE IF IsStruct(t)
       THEN [i \in DOMAIN t.members |-> [size |-> GetByteSize(t.members[i]), n |-> list[i]]]
  ELSE IF IsArray(t)
       THEN [i \in DOMAIN list |-> [size |-> t.bits \div 8, n |-> list[i]]]
  ELSE <<[size |-> GetByteSize(t), n |-> list[1]]>>

DataOf(p, o) ==
  FoldLeft(LAMBDA data, piece : data \o LiteralBytes(piece.n, piece.size), <<>>,
           Allocations(p.type[o], p.initial[o]))

Bottom == 16
Above == 16
CallerBase(p) == Bottom + Rounded(FrameOf(p, p.callee))
CallerEnd(p) == CallerBase(p) + Rounded(FrameOf(p, p.caller))
GlobalBase(p, i) ==
  FoldLeft(LAMBDA a, o : a + Len(DataOf(p, o)), CallerEnd(p) + Above,
           SubSeq(p.globals, 1, i - 1))
End(p) == GlobalBase(p, Len(p.globals) + 1)

IndexIn(objects, o) == CHOOSE i \in DOMAIN objects : objects[i] = o

\* The result of a call that is too big is in the caller's temporary.
AddressIn(p, o) ==
  IF Contains(p.globals, o) THEN GlobalBase(p, IndexIn(p.globals, o))
  ELSE IF Contains(p.caller, o)
       THEN CallerBase(p) + GetPosition(FrameOf(p, p.caller), IndexIn(p.caller, o))
  ELSE IF Contains(p.callee, o)
       THEN Bottom + GetPosition(FrameOf(p, p.callee), IndexIn(p.callee, o))
  ELSE CallerBase(p) + GetPosition(FrameOf(p, p.caller), IndexIn(p.caller, p.temporary))

\* The cells of the objects of C: where each is in its object; and the places a
\* pointer may lead to.
CellAt(t, path) ==
  [type |-> TypeAt(t, path), offset |-> Displacement(t, path), width |-> Width(TypeAt(t, path))]
CellsOf(t) ==
  [path \in {q \in PathsIn(t) : Cell(TypeAt(t, q))} |-> CellAt(t, path)]
PlacesIn(p, o) ==
  {[o |-> o, path |-> path, type |-> TypeAt(p.type[o], path),
    address |-> AddressIn(p, o) + Displacement(p.type[o], path)] : path \in PathsIn(p.type[o])}

Objects(p) == DOMAIN p.type \ {p.temporary}

LayoutOf(p) ==
  [address |-> [o \in DOMAIN p.type |-> AddressIn(p, o)],
   cells |-> [o \in Objects(p) |-> CellsOf(p.type[o])],
   places |-> UNION {PlacesIn(p, o) : o \in Objects(p)},
   callee |-> Bottom..(CallerBase(p) - 1),
   caller |-> CallerBase(p)..(CallerEnd(p) - 1),
   globals |-> (CallerEnd(p) + Above)..(End(p) - 1),
   memory |-> 0..(End(p) + Above - 1),
   data |-> FoldLeft(LAMBDA data, o : data \o DataOf(p, o), <<>>, p.globals)]

Forgotten(m, bytes) == [a \in DOMAIN m |-> IF a \in bytes THEN Untouched ELSE m[a]]

\* A temporary is not read again.
Temporary ==
  IF program.temporary = "" THEN {}
  ELSE layout.address[program.temporary]..(layout.address[program.temporary] + GetByteSize(program.type[program.temporary]) - 1)

-----------------------------------------------------------------------------
(* Values of the IR: a stack allocation, a global variable, or a register    *)
(* with its contents; addr is where LD, STR and GEP take each to point.      *)

\* size: of the slot; from: the memory location of a load.
Slot(o) ==
  [at |-> "slot", type |-> Incremented(DeclaredType(program, o)), addr |-> layout.address[o],
   size |-> SlotSize(DeclaredType(program, o)), word |-> <<>>, from |-> Nowhere]
Global(o) ==
  [at |-> "global", type |-> gtype[o], addr |-> layout.address[o], size |-> 0, word |-> <<>>,
   from |-> Nowhere]
Loaded(type, word, from) ==
  [at |-> "register", type |-> type, addr |-> Pointed(word), size |-> 0, word |-> word,
   from |-> from]
Register(type, word) == Loaded(type, word, Nowhere)
\* The compiler stops, or what is in the register is unrelated.
Lost(type) == Register(type, <<Untouched>>)

\* GetSymbolValue and GetGlobalVar.  The struct that a function returns in memory
\* is its last parameter.
Symbol(o) ==
  IF o \in DOMAIN gtype THEN Global(o)
  ELSE IF o = program.result /\ TooBig(program.type[o])
       THEN Register(Incremented(program.type[o]), AddressBytes(layout.address[o]))
  ELSE Slot(o)

RegisterBytes(t) == IF IsPTR(t) THEN PointerSize ELSE t.bits \div 8
\* A slot of one byte is accessed as such.
AccessSize(v, bytes) == IF v.size = 1 THEN 1 ELSE bytes

\* A struct in whole registers.
InRegisters(t) == PointerSize * (GetNextAlignedValue(GetByteSize(t) * 8, 64) \div 64)

\* The pieces of a struct are loaded from its slot.
LoadOf(m, type, v) ==
  IF IsStruct(type) /\ ~IsPTR(type)
  THEN IF v.at = "slot" THEN Register(type, Load(m, v.addr, InRegisters(type))) ELSE Lost(type)
  ELSE Loaded(type, Load(m, v.addr, AccessSize(v, RegisterBytes(type))), v.addr)

\* The constructor lowers the pointer level.
CreateLD(m, type, v) == LoadOf(m, IF IsPTR(type) THEN Decremented(type) ELSE type, v)

ElementOffset(t, n) == IF IsStruct(t) THEN GetElemByteOffset(t, n) ELSE CalcElemSize(t) * n

\* A struct has no members behind its last, and none whose number is in a register.
CreateGEP(type, v, index) ==
  IF \/ v.addr = Nowhere
     \/ IsStruct(v.type) /\ index.kind = "computed"
     \/ IsStruct(v.type) /\ index.val >= Len(v.type.members)
  THEN Lost(type)
  ELSE Register(type, AddressBytes(v.addr + ElementOffset(v.type, index.val)))

CreateSTR(m, word, v) == Write(m, v.addr, SubSeq(word, 1, AccessSize(v, Len(word))))

\* Mutation: a word for each byte.
CreateMEMCOPYWords(m, to, from, size) ==
  IF from.at # "slot" \/ to.at = "global" THEN m
  ELSE Write(m, to.addr, Load(m, from.addr, 4 * size))

\* Words of four bytes, from a slot to a slot or to where a register points.
CreateMEMCOPY(m, to, from, size) ==
  IF from.at # "slot" \/ to.at = "global" THEN m
  ELSE Write(m, to.addr, Load(m, from.addr, 4 * (size \div 4)))

-----------------------------------------------------------------------------
(* Expressions *)

IsStructType(t) == IsStruct(t) /\ ~IsArray(t)

\* The type of an expression in the syntax tree.
RECURSIVE ResultType(_)
ResultType(e) ==
  CASE e.kind = "name" -> program.type[e.name]
    [] e.kind = "index" ->
         IF IsPTR(ResultType(e.l)) THEN Decremented(ResultType(e.l))
         ELSE ReduceDimension(ResultType(e.l))
    [] e.kind = "member" -> ResultType(e.e).members[e.member + 1]
    [] e.kind = "unary" -> Decremented(ResultType(e.e))

GenerateReference(m, o, lvalue) ==
  IF lvalue \/ IsStructType(program.type[o]) THEN Symbol(o) ELSE CreateLD(m, Symbol(o).type, Symbol(o))

\* The type of an address in an array.
ElementType(t) ==
  IF IsPTR(t) THEN ReduceDimension(t) ELSE Incremented(ReduceDimension(t))

\* A row of an array is not loaded.
ElementAt(m, v, lvalue) ==
  IF lvalue \/ IsArray(v.type) THEN v ELSE CreateLD(m, v.type, v)

\* A pointer in a slot is loaded first.
GenerateIndex(m, base, index, lvalue) ==
  IF ~IsPTR(base.type) \/ IsArray(base.type)
  THEN ElementAt(m, CreateGEP(ElementType(base.type), base, index), lvalue)
  ELSE IF base.at = "slot"
  THEN ElementAt(m, CreateGEP(Decremented(base.type), CreateLD(m, base.type, base), index), lvalue)
  ELSE ElementAt(m, CreateGEP(base.type, base, index), lvalue)

RECURSIVE StructPointer(_, _)
StructPointer(m, v) ==
  IF v.type.ptr > 1 THEN StructPointer(m, CreateLD(m, v.type, v)) ELSE v

MemberPointer(m, base, member) ==
  CreateGEP(Incremented(base.type.members[member + 1]), StructPointer(m, base), Literal(member))

\* A member with parts, and one that is indexed or assigned to, is not loaded.
GenerateMember(m, base, e, lvalue) ==
  IF lvalue \/ IsStructType(ResultType(e)) \/ IsArray(ResultType(e))
  THEN MemberPointer(m, base, e.member)
  ELSE CreateLD(m, ResultType(e), MemberPointer(m, base, e.member))

\* Mutation: the pointer itself.
GenerateDerefKept(m, v) == v

GenerateDeref(m, v) == CreateLD(m, v.type, v)

\* The base of an index is an lvalue, but for one that is itself an index: the flag
\* that is set is not the one that is read.
IsLValueAsBase(e) == e.kind # "index"

RECURSIVE Generate(_, _, _)
Generate(m, e, lvalue) ==
  CASE e.kind = "name" -> GenerateReference(m, e.name, lvalue)
    [] e.kind = "index" ->
         GenerateIndex(m, Generate(m, e.l, IsLValueAsBase(e.l)), e.r, lvalue)
    [] e.kind = "member" -> GenerateMember(m, Generate(m, e.e, FALSE), e, lvalue)
    [] e.kind = "unary" -> GenerateDeref(m, Generate(m, e.e, FALSE))

-----------------------------------------------------------------------------
(* Statements.  Each definition gives the memory after one. *)

\* The parser has cast the right side.
Operand(m, e, type) ==
  CASE e.kind = "literal" -> Register(type, LiteralBytes(e.val, RegisterBytes(type)))
    [] e.kind = "computed" -> Register(type, ValueBytes(e.val, RegisterBytes(type)))
    [] OTHER -> Generate(m, e, FALSE)

Assigned(m, to, from) ==
  IF IsStruct(from.type) THEN CreateMEMCOPY(m, to, from, GetByteSize(from.type))
  ELSE CreateSTR(m, from.word, to)

AfterAssignment(m, l, r) ==
  Assigned(m, Generate(m, l, TRUE), Operand(m, r, ResultType(l)))

\* The left side of a compound assignment is loaded; the result goes back to where
\* it came from.
UpdatedWord(word) ==
  ValueBytes(IF word = ValueBytes(1, Len(word)) THEN 2 ELSE 1, Len(word))
StoredBack(m, v) == Write(m, v.from, UpdatedWord(v.word))
AfterCompound(m, l) == StoredBack(m, Generate(m, l, FALSE))

\* What is in a list is not cast: a number has 32 bits.
Uncast(m, e, type) ==
  IF e.kind = "literal" THEN LiteralBytes(e.val, 4) ELSE Operand(m, e, type).word

\* The values are put into a temporary in their order, whatever members are named,
\* and the temporary is then copied.
WithMembers(m, temporary, values) ==
  FoldLeft(LAMBDA n, i :
             CreateSTR(n, Uncast(n, values[i], temporary.type.members[i]),
                       CreateGEP(Incremented(temporary.type.members[i]), temporary,
                                 Literal(i - 1))),
           m, [i \in DOMAIN values |-> i])
AfterStructInit(m, l, values) ==
  Assigned(WithMembers(m, Slot(program.temporary), values), Generate(m, l, TRUE), Slot(program.temporary))

\* The elements of a local array, each a constant.
WithElements(m, array, values) ==
  FoldLeft(LAMBDA n, i :
             CreateSTR(n, Uncast(n, values[i], array.type),
                       CreateGEP(ElementType(array.type), array, Literal(i - 1))),
           m, [i \in DOMAIN values |-> i])
AfterDeclaration(m, o, values) == WithElements(m, Slot(o), values)

-----------------------------------------------------------------------------
(* Calls *)

IsCall(st) == st.kind = "call" \/ (st.kind = "binary" /\ st.r.kind = "call")
ArgumentsOf(st) == IF st.kind = "call" THEN st.args ELSE st.r.args
NoCall == [kind |-> "none"]

IsAddress(arg) == arg.kind = "unary" /\ arg.op = "&"

Padded(word) == [k \in 1..PointerSize |-> IF k <= Len(word) THEN word[k] ELSE Untouched]
Split(word) ==
  [i \in 1..(Len(word) \div PointerSize) |->
     SubSeq(word, PointerSize * (i - 1) + 1, PointerSize * i)]

\* The registers of an argument that is a struct: its pieces, or where it is.  A
\* global one stops the compiler.
StructRegisters(m, v) ==
  IF ~IsPTR(v.type) THEN <<>>
  ELSE IF TooBig(Decremented(v.type)) THEN <<AddressBytes(v.addr)>>
  ELSE Split(CreateLD(m, v.type, v).word)

DecayedArray(o) == CreateGEP(Incremented(program.type[o]), Symbol(o), Literal(0))

ArgumentRegisters(m, arg) ==
  IF IsAddress(arg) THEN <<AddressBytes(Symbol(arg.e.name).addr)>>
  ELSE IF IsArray(ResultType(arg)) THEN <<DecayedArray(arg.name).word>>
  ELSE IF IsStructType(ResultType(arg)) /\ ~IsPTR(ResultType(arg))
       THEN StructRegisters(m, Generate(m, arg, FALSE))
  ELSE <<Padded(Generate(m, arg, FALSE).word)>>

\* What is behind the registers that are passed is undefined.
Registers(m, args) ==
  FoldLeft(LAMBDA regs, arg : regs \o ArgumentRegisters(m, arg), <<>>, args)
    \o [i \in 1..PointerSize |-> Padded(<<>>)]

\* The address of a global variable raises the pointer level of the variable.
Raised(args) ==
  [o \in DOMAIN gtype |->
     FoldLeft(LAMBDA t, arg : IF IsAddress(arg) /\ arg.e.name = o THEN Incremented(t) ELSE t,
              gtype[o], args)]
LevelsRaised(types) ==
  FoldFunction(LAMBDA t, n : n + t.ptr, 0, types)
    - FoldFunction(LAMBDA t, n : n + t.ptr, 0, [o \in DOMAIN types |-> program.type[o]])

\* A struct takes two registers as a parameter, whatever its size.
RegistersOf(t) == IF IsStruct(t) /\ ~IsPTR(t) THEN 2 ELSE 1
ParameterWord(regs, next, t) ==
  IF RegistersOf(t) = 2 THEN regs[next] \o regs[next + 1]
  ELSE SubSeq(regs[next], 1, RegisterBytes(t))

WithParameters(m, regs) ==
  FoldLeft(LAMBDA w, o :
             [m |-> Write(w.m, layout.address[o], ParameterWord(regs, w.next, DeclaredType(program, o))),
              next |-> w.next + RegistersOf(DeclaredType(program, o))],
           [m |-> m, next |-> 1], SubSeq(program.callee, 1, program.parameters)).m

AfterCall(m, args) == WithParameters(m, Registers(m, args))

\* A struct is returned in registers, or has been written to the temporary.
WithResult(m) ==
  IF TooBig(program.type[program.result]) THEN m
  ELSE CreateSTR(m, Load(m, layout.address[program.result], InRegisters(program.type[program.result])),
                 Slot(program.temporary))
AfterReturn(m) ==
  IF call.kind = "call" THEN m
  ELSE Assigned(WithResult(m), Generate(m, call.l, TRUE), Slot(program.temporary))

-----------------------------------------------------------------------------
(* What the memory says of the objects of C. *)

Undefined == <<"undefined">>
Garbage == <<"garbage">>

PointerValue(t, a) ==
  IF \E place \in layout.places : place.address = a /\ place.type = t
  THEN LET place == CHOOSE q \in layout.places : q.address = a /\ q.type = t
       IN <<"to", place.o, place.path>>
  ELSE Garbage

CellValue(t, word) ==
  IF \A k \in DOMAIN word : word[k] = Untouched THEN Undefined
  ELSE IF IsPTR(t) /\ word # LiteralBytes(0, PointerSize)
       THEN PointerValue(Decremented(t), Pointed(word))
  ELSE IF word = ValueBytes(word[1][2], Len(word)) THEN <<"val", word[1][2]>>
  ELSE IF word = LiteralBytes(word[1][2], Len(word)) THEN <<"lit", word[1][2]>>
  ELSE Garbage

\* A parameter that is too big is where the argument is.
Where(o) ==
  IF IsParameter(program, o) /\ TooBig(program.type[o])
  THEN Pointed(Load(memory, layout.address[o], PointerSize))
  ELSE layout.address[o]

InCallee(o) == o = program.result \/ Contains(program.callee, o)

ContentsOf(o, cell) ==
  IF InCallee(o) /\ call = NoCall THEN Undefined
  ELSE CellValue(cell.type, Load(memory, Where(o) + cell.offset, cell.width))

Contents ==
  [c \in UNION {{<<o, path>> : path \in DOMAIN layout.cells[o]} : o \in DOMAIN layout.cells} |->
     ContentsOf(c[1], layout.cells[c[1]][c[2]])]

C == INSTANCE ObjectStore WITH store <- Contents

-----------------------------------------------------------------------------

Init ==
  /\ program \in Programs
  /\ layout = LayoutOf(program)
  /\ memory = [a \in layout.memory |->
                 IF a \in layout.globals THEN layout.data[a - CallerEnd(program) - Above + 1] ELSE Untouched]
  /\ gtype = [o \in {program.globals[i] : i \in DOMAIN program.globals} |-> program.type[o]]
  /\ call = NoCall
  /\ last = NoCall

\* The legal statements of the function that is executed.
Legal == {st \in program.statements[IF call = NoCall THEN "caller" ELSE "callee"] : C!Legal(st)}

Does(st, m) == memory' = m /\ last' = st /\ UNCHANGED <<program, layout>>

Assign ==
  \E st \in Legal :
    /\ st.kind = "binary" /\ st.op = "=" /\ st.r.kind \notin {"structinit", "call"}
    /\ Does(st, AfterAssignment(memory, st.l, st.r))
    /\ UNCHANGED <<gtype, call>>

AssignStructInit ==
  \E st \in Legal :
    /\ st.kind = "binary" /\ st.r.kind = "structinit"
    /\ Does(st, Forgotten(AfterStructInit(memory, st.l, st.r.values), Temporary))
    /\ UNCHANGED <<gtype, call>>

CompoundAssign ==
  \E st \in Legal :
    /\ st.kind = "binary" /\ st.op # "="
    /\ Does(st, AfterCompound(memory, st.l))
    /\ UNCHANGED <<gtype, call>>

DeclareArray ==
  \E st \in Legal :
    /\ st.kind = "decl"
    /\ Does(st, AfterDeclaration(memory, st.name, st.init.values))
    /\ UNCHANGED <<gtype, call>>

CallFunction ==
  \E st \in Legal :
    /\ IsCall(st)
    /\ LevelsRaised(Raised(ArgumentsOf(st))) <= program.addresses
    /\ gtype' = Raised(ArgumentsOf(st))
    /\ Does(st, AfterCall(memory, ArgumentsOf(st)))
    /\ call' = st

ReturnFromFunction ==
  \E st \in Legal :
    /\ st.kind = "return"
    /\ Does(st, Forgotten(AfterReturn(memory), Temporary \cup layout.callee))
    /\ call' = NoCall /\ UNCHANGED gtype

Next ==
  \/ Assign \/ AssignStructInit \/ CompoundAssign \/ DeclareArray
  \/ CallFunction \/ ReturnFromFunction

Spec == Init /\ [][Next]_vars

-----------------------------------------------------------------------------
(* Properties *)

\* Memory keeps its size, and the type of a global variable changes only by the
\* pointer levels that taking its address (UnaryExpression::IRCodegen) adds.
TypeOK ==
  /\ program \in Programs
  /\ DOMAIN memory = layout.memory
  /\ DOMAIN gtype = {program.globals[i] : i \in DOMAIN program.globals}
  /\ LevelsRaised(gtype) \in 0..program.addresses
  /\ \A o \in DOMAIN gtype : [gtype[o] EXCEPT !.ptr = program.type[o].ptr] = program.type[o]
  /\ IsCall(call) \/ call = NoCall

\* The loads and stores that are generated for a statement, a call or a return do to
\* the bytes of memory what C says that it does to the objects: the cells of the left
\* side get the value, and no other cell of any object changes.
ImplementsObjectStore == C!Spec

\* Whatever has happened before, the code of an expression that may be read loads the
\* value of the cell that C says it leads to: its offsets, its pointer levels and the
\* width of its load are right.
ReadsFindTheirCell ==
  \A e \in program.reads[IF call = NoCall THEN "caller" ELSE "callee"] :
    C!Readable(e) => CellValue(ResultType(e), Generate(memory, e, FALSE).word) = C!Meaning(e, <<>>)

\* Copies and stores of whole words stay inside of the frames and the data, although
\* their sizes come from the type and not from the slot.
NothingElseIsWritten ==
  \A a \in layout.memory \ (layout.callee \cup layout.caller \cup layout.globals) : memory[a] = Untouched
=============================================================================
