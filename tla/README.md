# A verification project for the mini C compiler

The compiler translates a subset of C to AArch64 (or RISC-V) assembly, in one
process and one thread: no component waits for another, nothing is persisted
but the output, nothing is retried. What is hard about it is *state that is read
after it was changed*: vectors that are rewritten while a loop walks over them,
offsets that are written down before the frame they refer to is complete, tables
that one pass fills and a later one reads in a different order, and numbers that
stand for a value here and for a stack slot there. The modules take these parts
one by one; each states what the part promises and compares what the code does
with it, usually by running the *result* of the pass (the lines, the tokens, the
blocks, the frame, the registers) beside the meaning of its input.

All line numbers below refer to `src/`.

## 1. The system

`frontend/frontend_test.cpp` (44–180) runs the passes in this order; each owns
its state and hands its result to the next.

| component | state | operations | what makes it correct |
|---|---|---|---|
| preprocessor | the vector of lines, the map `DefinedMacros` | `Run`, `ParseDirective`, `SubstituteMacros` | finished lines are what C makes of them, although directives are erased and files inserted in the vector the loop walks over; it ends |
| lexer | line and column, `TokenBuffer` | `Lex`, `LookAhead` | each token of the text is delivered once and in order, whatever mixture of the two the parser uses |
| parser | the lexer, `SymTabStack`, `CurrentFuncRetType`, the number of returns | recursive descent, one function per construct | statements and expressions are grouped as C groups them; a name stands for the declaration in scope |
| AST code generation | `IRFactory` | `IRCodegen` of each node | the blocks execute what the statements say; every jump has a target; loads and stores reach the objects that C says, and no others |
| IRFactory | functions, blocks, symbol table, label table, stacks of break and continue targets, the counter `ID` | `Create…`, `Insert…` | names of labels and numbers of values are unique |
| IRtoLLIR | `IRVregToLLIRVreg`, `StructToRegMap`, `StructByIDToRegMap` | `GenerateLLIRFromIR`, `ConvertToMachineInstr` | emitted instructions read what those of the IR read |
| MachineFunction | parameters, `NextVReg`, the stack frame | `GetNextAvailableVReg`, `InsertStackSlot` | a new number is that of nothing else |
| legalizer | the block it walks over and rewrites, new registers | `Run`, `Expand…` | no illegal instruction is left, it ends, the block keeps its meaning |
| instruction selection | the machine function | `InstrSelect`, `Select…` | instructions keep their meaning, with operands of sizes that the target has |
| register allocator | live ranges, pools, allocated registers | `RunRA` | overlapping live ranges have different registers, and no register is lost |
| prologue and epilog insertion | the frame, slots of saved registers | `Run` | the finished function keeps its locals and returns to its caller |
| AArch64 MOV fix, emitter | — | rewriting of one opcode, printing | — |

Interactions: the parser *pulls* tokens out of the lexer, code generation *calls
back* from node to node over one shared `IRFactory`, and the back end's passes
rewrite one `MachineFunction` in place. Three of the interactions are where the
hazards are: the increment of a `for` loop is parsed before its body and
generated after it; a value of the IR is identified by a number that the back
end also uses for registers and slots; the allocator lowers stack accesses to
offsets before prologue insertion adds to the frame.

`PROJECT.json` lists every component with its status, and the hazards at their
lines.

## 2. Modules

Each module opens with what it models. Names are those of the source where there
is one.

| module | models | state and actions |
|---|---|---|
| `RegisterAllocator` | `backend/RegisterAllocator.cpp` | one action per phase of `RunRA`: pre-allocation, pruning of the pool, the scan that computes live ranges, sorting, then per range `VisitAllocated` / `AllocateInterval` / `RunOutOfRegisters` and the rounds of the loop that frees (`FreeExpired`, `KeepLive`, `FreeingDone`, with the loop's own `index`), and the rewriting of operands |
| `IntervalColoring` | nothing: what a register allocator promises | colours ranges one at a time; `RegisterAllocator` implements it (`ColoringSpec`) |
| `StackFrame` | `backend/StackFrame.cpp`, `Support.cpp` | operators, in unsigned arithmetic; the bits that two words share and the walk over the map are recursive functions |
| `PrologueEpilogInsertion` | `backend/PrologueEpilogInsertion.cpp`, the lowering of stack accesses, and a machine with SP, x30 and byte-wise memory that executes the finished function | phases of the compilation, one action per slot and per insertion; then one action per machine instruction. `SlotsAssumption` and `BlocksAssumption` say what `IRtoLLIR` hands over |
| `IRFactory` | `middle_end/IR/IRFactory.hpp`: blocks, labels, target stacks | operators on the factory's record |
| `SyntaxTree` | the nodes of `frontend/ast/AST.hpp` | constructors |
| `ExpressionParser`, `StatementParser` | the precedence climbing and the recursive descent of `frontend/parser/Parser.cpp`, over the tokens in which C writes a tree down | recursive operators, one per function of the parser |
| `ConditionCodegen`, `StatementCodegen` | the expressions over variables of type `int`, with the blocks of `!`, `&&` and `?:`, and the statements of `frontend/ast/AST.cpp` | recursive operators, one per node |
| `StatementSemantics` | nothing: what C says statements and expressions do | a list of what is still to be executed |
| `ControlFlow` | composes them: parses a function from its tokens, compiles what was parsed, then runs the blocks beside the source | `Parse`, `Generate`, and one action per kind of machine step; what a variable holds when it is read is open, and both sides see the same value |
| `Lexer` | `frontend/lexer/Lexer.cpp` | `Lex`, `LookAhead`; the loops that eat characters are recursive functions over their steps |
| `PreProcessor` | `frontend/preprocessor/PreProcessor.cpp` | one action per step of the two loops |
| `Scopes` | `SymbolTable.hpp` and its users in `Parser.cpp`, the flat table of `IRFactory`, and the scopes of C | one action per construct that declares, opens, closes or uses |
| `VirtualRegisters` | `backend/IRtoLLIR.cpp`, `MachineFunction.cpp` | one action per kind of instruction of the IR, which lowers and executes it |
| `IRType` | the types of the IR with their sizes and the offsets of elements and members (`Type.hpp`, `IR/Type.cpp`) | operators on types, which are records |
| `ObjectStore` | nothing: what C says of the objects of a function and of one that it calls | one value per cell; one action per kind of statement: assignment, compound assignment, initialization, call, return |
| `MemoryAccess` | the frames and the data, and how code reaches objects in them: names, indices, members, pointers, initializers, copies of structs, arguments and results, from `AST.cpp` through `IRtoLLIR.cpp` | where each object is, the bytes of memory, the types of the globals (which code generation changes), the call that is executed; one action per kind of statement, which compiles it and executes what was compiled. It implements `ObjectStore` (`ImplementsObjectStore`): a cell's value is what its bytes hold |
| `MachineCode` | the operands and instructions of a block, generic ones and those of AArch64, and a machine that executes both | operators |
| `ExpressionCodegen` | the implicit casts of `Parser.cpp` (1027–1147), the expressions of `AST.cpp` with their lowering by `IRtoLLIR.cpp`, for an assignment or condition with at most one operation; and what C says that it does (`Meaning`) | operators |
| `AArch64TargetMachine` | `AArch64InstructionLegalizer::Check`, `AArch64TargetMachine.cpp`, the MOV fix | one operator per `Select…` |
| `TargetLowering` | composes the three with `MachineInstructionLegalizer.cpp` and the expansions | one action per expansion, `KeepLegal` for an instruction that is passed, `Select`, `Fix`, `NextPass` |
| `RegisterAllocatorProofs`, `PrologueEpilogInsertionProofs`, `ScopesProofs`, `LexerProofs`, `VirtualRegistersProofs`, `TargetLoweringProofs`, `SequenceLemmas` | — | theorems |
| `MC…` | — | the instances for TLC |

Abstractions that hold throughout: spelling, formatting and error messages are
left out; types are kinds but in `MemoryAccess`, and in `ControlFlow` there is
only `int`. A byte of `MemoryAccess` is a token that tells whose byte it is, so
that a misplaced, missing or foreign byte shows, and numbers are not computed
with. Actions that model two passes at once exist in `Scopes` only: the tables
of parser and code generation do not meet, and code generation walks the tree in
the order of the source, but for the increment of a `for` loop, which `LeaveFor`
therefore resolves. In `VirtualRegisters` and `MemoryAccess`, lowering and
executing are one step because the instructions of a block execute in the order
in which they are lowered; the instructions come in every order in which a walk
over an expression can use values. What is in registers is `VirtualRegisters`'
concern and what else is in the frame is `PrologueEpilogInsertion`'s;
`MemoryAccess` takes both as given. The machines and the semantics of C are
marked external in the map.

`Mutation:` comments mark deliberately wrong variants of a definition. They are
not used by any specification; substituting one for its original makes the
property named in `PROJECT.json` fail, which shows that the property can fail.

## 3. Runs

`tlc -config X.cfg MCX`, each in minutes.

| run | question and answer | bounds |
|---|---|---|
| `register_allocation` (`MCRegisterAllocator.cfg`) | Conservation of registers, no interference, recording of callee-saved registers, real pressure, values reach their uses, termination, refinement of `IntervalColoring`: hold | every function of up to 3 parameters and 4 instructions between the stores of the parameters and the return, and a family with six live values; 2 caller-saved and 2 callee-saved registers, two of them arguments. That is the least for pools to run dry, refill and run dry again |
| `call_arguments` (`…Calls.cfg`) | *violated*: a value in x0 is overwritten by the first argument's move before the second move reads it | all bodies of four instructions in front of a call with two arguments |
| `stack_frame` (`MCPrologueEpilogInsertion.cfg`) | Objects do not overlap, the frame covers them, offsets stay valid, locals keep their values, the function returns, calls find SP aligned: hold | up to 3 objects of 1, 4, 8 or 12 bytes in every order, one or two blocks, with and without calls; immediates up to 47 instead of 4095 so that the too large frame occurs; words of 10 bits |
| `caller_without_frame` (`…Empty.cfg`) | *violated*: a function that calls and has no objects loses x30 | up to one object |
| `statements` (`MCControlFlow.cfg`) | What is parsed is what was written, with its grouping; the blocks then read and write the variables as the statements say; jumps have targets; a comparison is not changed between its instruction and its branch; tables are left empty; the return is last; a function that runs for ever keeps executing statements: hold | all statements nested two deep and loops around them (three deep), with `break`, `continue`, `return` wherever C allows; in every place of an expression, logical operators, ternaries, relations and assignments in each other; for the parser alone, one operator of each level on both sides of each other, unary, postfix, index, member and call, and four operators in a row; the condition of a ternary is in parentheses when it is an operation. Three values of variables: zero and two that differ from it and each other. Three deep is where a target that was left behind is taken by a loop that is not its own |
| `lexer` (`MCLexer.cfg`) | All mixtures of `Lex` and `LookAhead(1..3)` deliver the tokens; the buffer is filled: hold | all texts of a line of up to three and one of up to two characters of `i f 1 . + /` and space that the lexer can read (`Readable`, the hypothesis of the theorems in `LexerProofs`); where there is a comment, the parser looks at the current token only |
| `preprocessor` (`MCPreProcessor.cfg`) | Finished lines are expanded; it ends: hold | files of up to 4 lines with up to 3 directives, two plain macros, a function macro, two included files that nest. A line calls the function macro at most once, with at most two arguments and no parentheses in them; the names of macros and parameters are in no other name; macros name later ones only. Strings and comments, in which the code replaces macros too, are not in the texts |
| `scopes` (`MCScopes.cfg`) | Both passes find the declaration C sees: holds | 3 objects, an enumerator, a function, 5 declarations, 4 open scopes |
| `value_lowering` (`MCVirtualRegisters.cfg`) | Instructions read what the IR reads; new numbers are fresh: hold | no parameter, a pointer, or a struct and a scalar; up to one local, a scalar or an aggregate; 4 numbers of the IR and 4 of registers beyond those of the parameters. The calls return a scalar or nothing: for a struct the code makes one slot for each register of the result (`IRtoLLIR.cpp:519`–`545`), which is left to `memory_access`. That is room for a call, its slot, a load of it and a value that is used after both |
| `result_numbers` (`…Results.cfg`) | *violated*: the number of the slot of a call's result is that of a later value | the same |
| `memory_access` (`MCMemoryAccess.cfg`) | Statements, calls and returns do to the bytes of memory what C says they do to the objects; whatever happened before, code that reads an expression loads the value of its cell; nothing else is written: hold | 15 programs: scalars of 1, 4 and 8 bytes side by side; arrays of one and two dimensions; an initialized array; two structs that are copied, assigned from a literal and updated; a struct in a struct; pointers to scalars, elements and structs; structs of 12, 16 and 24 bytes as arguments and as results, that is below, at and above the size that goes in registers; four globals, one with its address taken. Two computed values and the literals up to 3. Arrays have two or three elements and objects stand next to each other, so that an offset that is wrong by one element or member lands in a neighbour; words are of 12 bits, more than a frame needs |
| `target_lowering` (`MCTargetLowering.cfg`) | After each rewriting of an instruction the block does what C says that the statement does, for every value of its operands; what was passed is legal; the result has operands of sizes that AArch64 has; the passes end: hold | 766 statements: assignments and conditions over a variable of each of five types, two of type `int`, a global, the literals −2, 0 and 3, with the operators `+ - * / % <<`, minus, `++`, `--` and the relations. Two bits stand for a byte, three for a word, four for a double word: signs, wrapping and what a short store leaves behind show at these widths. 16 registers, of which none of the statements needs all |

Deadlock is checked but in `VirtualRegisters`, where a function ends or its
numbers run out (`EndID`, `EndVReg`), and in `TargetLowering`, where the last pass
ends; elsewhere a finished run stutters in an explicit `Terminated` step, its
last state has a step of its own, or there is always another statement
(`MemoryAccess`). The run `value_lowering` uses a `VIEW` that merges states which
differ in registers that nothing reads any more or in which operands of the last
instruction were right; that of `memory_access` leaves out which statement came
last and what follows from the name of the program.

### The domains of the passing runs, and what lies outside of them

Where the code disagrees with C for some programs, the passing run is restricted
to the others, and a configuration keeps the smallest program that shows the
disagreement. Three of these are the violated runs above, the rest stand beside
them and can be run in the same way:

| configuration | what it shows |
|---|---|
| `MCRegisterAllocatorOrder.cfg` (`VisitedByKillLine`) | ranges are visited in the order of their definitions; the comment at `RegisterAllocator.cpp:183` says their ends |
| `MCPrologueEpilogInsertion.cfg` with `Functions <- Spilling` (`CalleeSavedCanBeSpilled`) | the slot that the spill of a callee-saved register asks for was never inserted, or the register has the number of an object: the compiler stops at an assertion |
| … with `Sizes = {0, 4}` and two objects (`PositionsInPushOrder`) | an object of size 0 is put at position 0 |
| `MCControlFlowKinds.cfg` with `ContinueInWhile` (`FollowsTheSource`) | `continue` in a `while` inside of a `for` goes to the increment of the `for` |
| … with `TrailingEmptyCase` (`TargetsInserted`) | an empty last `case` has no block to fall into |
| … with `DefaultFirst` (`FollowsTheSource`) | the cases of a `switch` are put in front of its `default`, so that control falls through in another order |
| … with `EmptyStatement` (`FollowsTheSource`) | an empty statement as the body of a loop stops the compiler |
| … with `AssignedComparison` (`FollowsTheSource`, `BranchesFollowTheirCompare`), `NegatedComparison` (`BranchesFollowTheirCompare`) | the condition of an `if` is inverted in place, so that `if (x = a < b)` stores the inverted relation; a store stands between the comparison and the branch that needs its flags |
| … with `EqualityOfComparison`, `TwoCompoundAssignments` (`GroupsAsC`) | `<=` has the level of `==`; compound assignments group to the left |
| … with `ConditionalOperation` and `ConditionLevel = 3` (`GroupsAsC`) | without parentheses around the condition, `a < b ? c : x` is grouped as `a < (b ? c : x)`; the comments at `Parser.cpp:1018` and `1140` say that this is still to be done. The run `statements` writes every operation that is a condition in parentheses |
| `MCLexerKinds.cfg` with `CommentAhead` (`FillsTheBuffer`) | `LookAhead` over a comment takes a token out of the buffer |
| … with `BareComment` (`DeliversTheTokens`) | a `//` with nothing behind it is read as a division |
| `MCPreProcessorKinds.cfg` with `ThreeParameters`, `NestedParentheses` (`FinishedLinesAreExpanded`) | arguments are separated at the first comma, from the second one on at the first one again, and end at the first closing parenthesis |
| … with `CalledTwice` (`FinishedLinesAreExpanded`) | a function macro is replaced once in a line (`PreProcessor.cpp:119`, `145`) |
| … with `LongerName`, `ParameterInName` (`FinishedLinesAreExpanded`) | a macro or parameter is replaced inside of a longer name (`PreProcessor.cpp:113`, `69`) |
| … with `EarlierMacro` (`FinishedLinesAreExpanded`) | what a macro leaves behind for one earlier in the map stays |
| … with `SelfMention` (`Terminates`) | a macro that stands for itself is replaced for ever |
| `MCScopesKinds.cfg` with `Shadowing`, or with `TwoTypes` (`ResolvesAsC`) | a declaration that hides another replaces it; a name of two types keeps the last |
| `MCVirtualRegistersKinds.cfg` with `"addresses"` or `"globals"` (`OperandsHoldTheirValues`) | the address of a variable as an operand reads the variable; a global whose number is that of a slot loses its offset |
| … with `ScalarBeforeStruct` (`NumbersAreFresh`) | a struct parameter behind a scalar one gets its number |
| `MCTargetLowering.cfg` with `Admitted` of `"uncast"` (`MeaningKept`) | the operands of `%` and `<<` are not promoted, and the quotient of a `long` gets 32 bits |
| … of `"comparisons"` (`MeaningKept`) | comparisons of unsigned operands branch on signed conditions; bytes are compared without being extended |
| … of `"widening"` (`MeaningKept`) | a zero extension to 64 bits reads eight bytes of a smaller object, one of a `char` takes its sign off |
| … of `"postfix"` (`MeaningKept`) | behind the store of `u++` the extension of an `unsigned char` is no longer merged into its load and becomes a sign extension |
| … of `"negation"` (`MeaningKept`) | a minus computes in 32 bits, on a `char` that is not promoted |
| … of `"truncation"` (`OperandSizesAgree`) | a `long` is cut to a byte by an `and` of a W and an X register |
| `MCMemoryAccessKinds.cfg` with `ListOfBytes`, `UncastMember` (`ImplementsObjectStore`) | numbers in an initializer list or a struct literal are not cast: words are stored into bytes, and half of a `long` |
| … with `MembersInAnyOrder` (`ImplementsObjectStore`) | the names of the designators are parsed and ignored |
| … with `SmallByValue` (`ImplementsObjectStore`) | a struct of eight bytes is passed in one register and taken from two |
| … with `StructBehindScalar` (`ImplementsObjectStore`) | a struct parameter of 12 bytes is stored in two whole registers; at the end of the frame the caller's is overwritten |
| … with `WrittenByCallee` (`ImplementsObjectStore`) | a struct too big for registers is passed by address and not copied |
| … with `CopiedMember`, `CopiedGlobal`, `CopiedBytes` (`ImplementsObjectStore`) | a copy takes its source for a stack slot, and whole words of it only |
| … with `PointerMember`, `PointerArray` (`ImplementsObjectStore`) | a pointer in a struct or array counts four bytes |
| … with `AddressTakenTwice` (`ReadsFindTheirCell`) | taking the address of a global raises the pointer level of the variable itself |
| … with `ShortList`, `ShortGlobal` (`ImplementsObjectStore`) | what an initializer list leaves out is not zero; for a global it has no memory either |

The six values of `Admitted` are the kinds of statements (`Kinds` in
`TargetLowering`) that the run `target_lowering` leaves out. It also leaves out what the compiler stops at with an
assertion: postfix operators on globals, compound assignments of bytes,
constants below zero in subtractions and shifts, and operations on two literals.
A relation as a value (`x = a < b`) is not among the statements, since no
register is written for it. The run `memory_access` leaves out what the compiler
rejects: arrays of structs (an assertion at `Parser.cpp:934`), pointers among
the globals, and `*p` on the left of an assignment ("lvalue required").

### Fairness

The compiler is a sequential program whose loops go on until they leave, so that
weak fairness of its next step is what running it means. `RegisterAllocator` and
`PreProcessor` assume that of their loops (in `PreProcessor` in two parts, since
rewriting a line has to go on while one is to be rewritten), `TargetLowering` of
its passes, `ControlFlow` of the machine that executes the compiled function. No
fairness is assumed among alternatives, which are the values that variables
hold: `KeepsObserving` holds for every outcome of the tests. The other modules
state safety only.

## 4. Proofs

`tlapm` checks them for every value of the constants; TLC evaluates the
assumptions in the runs.

**`RegisterAllocatorProofs`**: for every ABI whose register sequences have no
duplicates, whose argument and return registers are caller-saved and whose
callee-saved registers are others (`ABIAssumption`), and every set of functions
shorter than the kill line `~0` (`FunctionAssumption`):

- `TypeCorrectness`, `RegisterConservation`, `InterferenceFreedom`,
  `CalleeSavedAreRecorded`, `PressureIsReal`, `OperandsAreAllocated`: the
  invariants of the run `register_allocation`;
- `OperandsReadWhatWasDefined`: the register that an operand reads was written by
  its definition and by nothing since. That needs the form in which the lowering
  hands functions over (`LoweringAssumption`: at most one register is returned,
  and the parameters' registers are read only before it is written);
- `ScanImplementsColoring`: the allocator implements `IntervalColoring`.

Neither conservation nor freedom of interference is inductive. That a register
taken from a pool belongs to no overlapping range rests on where each register
is (`Places`: in a pool, the backup pool, held by exactly one active range, or
pre-allocated and out of reach), and freeing is right only because ranges are
visited in the order of their definitions (`Visits`: a range that was freed ends
before every range still to come begins; the index of the loop that frees has
no expired range behind it, so that none is left when it ends). `BeforeScan` says what is still empty
before. `IInv` is the conjunction; there is one lemma per action.
`PressureIsReal` and `OperandsAreAllocated` add `PoolsExhausted` and `Covered`,
`OperandsReadWhatWasDefined` adds `Lines`: the line of every
mention is in the range of what is mentioned, so that what is written between a
definition and a use belongs to an overlapping range, and `NoInterference` gives it another register.
`SequenceLemmas` has the facts about erasing at an index and pushing that the
allocator's vectors need.

**`ScopesProofs`**: for all sets of entries and any bounds,

- `TypeCorrectness`: the parser's stack of tables is in step with the open
  scopes (`TypeInv`);
- `Resolution`: where no declaration hides another (`~Shadowing`) and a name
  stands for one entry, both passes resolve every use as C does. `ResolutionInv`
  says which declarations each table has: everything declared was entered
  (`EnteredIn`), under its name (`NamedAsDeclared`), scopes are disjoint
  (`Disjoint`), what is visible is what the flat table maps to (`LocalsBound`,
  `GlobalsBound`, `Apart`), also when the increment of a loop is resolved after
  its body (`IncrementsOK`).

**`LexerProofs`**: for texts of any number of lines of any length over any letters,
digits and keywords (`CharacterAssumption`) that the lexer can read (`Readable`),
and however far the parser looks ahead,

- `TokensAreDelivered`: what the parser is given and what is buffered for it are
  the tokens of the text, each once and in order, and then the end of the file;
- `LookAheadFillsTheBuffer`: the token that `LookAhead` returns is in the buffer.

`Readable` excludes what the lexer reads otherwise than C: a keyword with no
separator behind it (`if(`), a point behind a number and no digit behind that (`1.`),
a name or number at the end of a line with which the next line that is not empty
goes on, a bare `//` at the end of a line, and looking further ahead than the current
token where there are comments. The last two are the counterexamples of
`MCLexerKinds.cfg`. `Rest` is what is left of the text at a position, the
tokens behind it. Blanks, the ends of lines, empty lines and comments leave it as it
is (`BlankStep`, `LexAtReads`), and each of `LexKeyword`, `LexSymbol`, `LexNumber`
and `LexIdentifier` is tried until one takes its first token (`ReadsTheNext`), which
is where the look across the end of a line has to be harmless. The invariant `IInv`
says that `given` followed by `buffer` is a beginning of the tokens and that the
lexer stands in front of the `Rest`: it does not depend on the order of the calls.
The code's loops and the definition of the tokens are recursive functions; that these exist is
proved for each (`WalkExists`, `FillExists`, ...), by `Induction` from the least number
for which one would not.

**`VirtualRegistersProofs`**: `Freshness`, for all bounds and all signatures in
which struct parameters come first (`StructsFirst`; `ScalarBeforeStruct` shows
that they have to): the numbers that `GetNextAvailableVReg` deals out are those of
no register and no slot. It scans the parameters once, upwards from `NextVReg`,
and would end *at* a parameter if one were above; that none is rests on the
allocations of the variables, which come first and one of which has the number in
front of each parameter's. `IInv` therefore says in each phase where the
parameters are: below twice their count while they are lowered, not above
`NextVReg` from the first block on (`Ready`). `Goes` is what an operation of the
lowering keeps; there is one lemma per operation and per instruction. Loops are
functions over their steps; `Induction`, from the least element of a set of
numbers, stands in for the library's induction theorems.

`OperandsCorrect`: for these signatures, and without the three `Meetings` (each of
which breaks it), every emitted instruction reads what the instruction of the IR
reads. That a value is in the register or slot of its entry (`Carried`) is kept
only because nothing else gets that register or slot, which is `Freshness` and
more: the values' numbers have to stay behind those of registers (`Body`: `ID` is
at most the next number), so that the slot of a call's result never gets the
number of a value, which would turn a pointer into the address of a slot. The
variables' cells are kept apart from those of results by `SameVariables` and by
results never being `locals`. `Keeps` is what emitting operands leaves, `Asked` a
register taken for a result, `Before` the parameters on their way to the body.
`VInv` is the conjunction with `IInv`; TLC finds no violation of it in the states
of the run.

**`PrologueEpilogInsertionProofs`**: for every width of the words and all
functions, any number of objects of any sizes above zero (`NoEmptyObjects`;
`PositionsInPushOrder` shows what an empty one does) and any blocks that are left
at their ends, are left by a return at the end of the last one, and write a local
before they read it (`BlocksAssumption`):

- `ObjectsAreDisjoint`, `FrameIsLargeEnough`, `OffsetsStayValid`: the layout of
  the frame;
- `LocalsAreSafe`, `ReturnIsSafe`, `CallsAreAligned`: what the finished code
  does.

`Val & Mask` is the recursive function `And` over the bits; `AndBound` says that
rounding up moves a position by less than the alignment, which need not be a
power of two for that, and `AndFifteen` that rounding to 16 gives a multiple of
it. `Layout` is what pushing keeps: objects follow each other in the order of
their numbers, and the walk over the map ends where adding up sizes ended. It is
kept because the pushed object is the last of the map too (`PushKeepsLayout`),
and since a walk is a function over the numbers, positions below a new object
stay what they were (`PushKeepsPositions`).
The code is described while it is being made: `Code` says where each kind of
instruction may stand and that a read has its write in front of it, `Inserted`
how much of prologue and epilogue is in, at which end. From that follows what the
machine is at, so that the invariant of the execution can say in terms of the
place `at` what SP is (`StackInv`), that x30 is whole outside of the region
between the save and the reload and in its slot inside of it (`LinkInv`), and
which bytes hold the objects already written (`WrittenInv`). None of the
properties is inductive by itself; `IInv` is the conjunction, one lemma per
action. Functions that use callee-saved registers are in its domain, but never
get beyond the spill (`SpillingStep`), and the properties of the layout are about
the others (`SavesNoRegister`).

**`TargetLoweringProofs`**: for all variables of the five types and any sizes of
the machine's words, any set of statements of one operation (`StatementAssumption`;
its literals are any integers) without the kinds `uncast`, `widening`, `negation`
and `truncation`, and at least 16 registers (`LoweringAssumption`),

- `LoweringTypeCorrect`: registers of the block have been made and have sizes of
  registers;
- `PassedStaysLegal`: the legalizer leaves nothing illegal behind its index or to
  the selection;
- `SizesOfOperandsAgree`: the finished instructions have operands of sizes that
  AArch64 has. For each of the four kinds left out, TLC shows that they do not.

The last property says something of the last pass only, and none of the passes
before it establishes it by itself. `LoweringInv` therefore says of an
instruction in each pass what the rest of the passes makes of it: `Fits` before
the selection, `Selects` (it assembles once the MOV fix has seen it) before the
fix, `Assembles` behind it, with the index as the border inside of the block.
`Fits` is what the sizes of the operands of each generic opcode have to be for
the selected one to assemble; `Generated` shows it of what code generation emits
(one lemma per function that emits, where `Castable` is what the four kinds
violate), the `KeptBy…` lemmas of what each expansion makes, `Selection` that it
is enough. Legality of what was passed is kept because only an erased load could
change what stands before an instruction that was passed (`SplicedBlock`), and a
branch is selected right because its comparison is never separated from it
(`AfterCompare`). The theorems assume nothing of the values of operands.

**Only model-checked**: liveness (`Termination`, `KeepsObserving`, `Terminates`),
which is out of the prover's reach; `ControlFlow` with the parsers and code
generators it composes, `MemoryAccess` and `PreProcessor`, whose operators are
recursive over data; and `MeaningKept`, which computes modulo powers of two, on which
the prover has no facts.

## 5. What is not modelled

Functions without state, table by table: the assembly emitter, the mnemonics and
registers of both targets, the splitting of a directive into tokens (`PPLexer`).
Left out of modelled parts:

- floating point, and unsigned types of 64 bits, everywhere;
- the conversion of constants to their width (`Parser.cpp:606`) and the folding of
  operations on two of them;
- typedefs, qualifiers, the definition of structs and the parsing of initializers
  (`Scopes` has what they declare, `MemoryAccess` what they mean);
- `return;`, at which an assertion stops the compiler (`Parser.cpp:910`);
- the selection of shifts to the right, moves, jumps, calls and returns, and the
  asserted ranges of constants (`AArch64TargetMachine`).

Arguments and parameters beyond the registers are rejected by the code with
assertions and do not occur.

## 6. Plan

Done, in this order:

1. `RegisterAllocator` with `IntervalColoring`, and their proofs.
2. `StackFrame` and `PrologueEpilogInsertion`, with a machine.
3. `IRFactory`, `StatementCodegen`, `StatementSemantics`, `ControlFlow`.
4. `Lexer`.
5. `PreProcessor`.
6. `Scopes`, and its proofs.
7. `VirtualRegisters`.
8. `MachineCode`, `ExpressionCodegen`, `AArch64TargetMachine`, `TargetLowering`.
9. `ExpressionParser`, `StatementParser`, `ConditionCodegen`: what is compiled is
   what was parsed, and conditions and values of every expression over `int`.
10. `IRType`, `ObjectStore`, `MemoryAccess`: pointers, arrays and structs.
11. `VirtualRegistersProofs`.
12. `PrologueEpilogInsertionProofs`.
13. `TargetLoweringProofs`, `OperandsReadTheirDefinition`, `OperandsHoldTheirValues`.
14. `LexerProofs`.

What would come next:

15. The unsigned 64-bit types in `ExpressionCodegen`; numeric literals, at their
    widths.
16. Proofs: the expansion of macros in `PreProcessor`.
