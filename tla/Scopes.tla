-------------------------------- MODULE Scopes --------------------------------
(***************************************************************************)
(* What a name stands for.  The parser looks names up in a stack of symbol *)
(* tables (src/frontend/parser/SymbolTable.hpp), code generation in a flat *)
(* map of the function and in the globals (IRFactory.hpp), and C in nested *)
(* scopes.  Code generation walks the tree later, but in the order of the  *)
(* source, but for the increment of a for loop, which comes last; its      *)
(* table and those of the parser do not meet, so that one action is both   *)
(* passes over one construct.                                              *)
(***************************************************************************)
EXTENDS Naturals, Sequences

CONSTANTS
  Objects,          \* the entries [name, type, value] of variables,
  Enumerators,      \* of enumerators, which have a value,
  Functions,        \* and of functions
  Shadowing,        \* may a declaration hide another one?
  MaxDeclarations,
  MaxDepth

ASSUME EntriesAssumption ==
  /\ MaxDeclarations \in Nat /\ MaxDepth \in Nat /\ Shadowing \in BOOLEAN
  /\ Objects \cap (Enumerators \cup Functions) = {}

VARIABLES
  stack,     \* SymTabStack
  symbols,   \* IRFactory::SymbolTable: name |-> the declaration's number
  globals,   \* Module::GlobalVars, the first of each name
  scopes,    \* the constructs that are open, and what C has declared there
  declared,  \* the number of declarations
  use        \* the name that was used in the last step, if one was

vars == <<stack, symbols, globals, scopes, declared, use>>

\* The function f with the value v at k.
With(f, k, v) == [x \in DOMAIN f \cup {k} |-> IF x = k THEN v ELSE f[x]]

NoNames == [x \in {} |-> x]
NoName == "no name"
Nobody == 0

-----------------------------------------------------------------------------
(* The parser: a table is the set of its entries and the last of each name. *)

EmptyTable == [entries |-> {}, last |-> NoNames]

InsertInto(table, e) ==
  [entries |-> table.entries \cup {e}, last |-> With(table.last, e.name, e)]

\* Nothing is inserted if the current scope has the very entry.
InsertToSymTable(st, e, i) ==
  IF e \in st[Len(st)].entries THEN st
  ELSE [st EXCEPT ![i] = InsertInto(@, e)]

InsertEntry(st, e) == InsertToSymTable(st, e, Len(st))
InsertGlobalEntry(st, e) == InsertToSymTable(st, e, 1)

PushSymTable(st) == Append(st, EmptyTable)

\* Mutation: the table of the construct stays.
KeepSymTable(st) == st

PopSymTable(st) == SubSeq(st, 1, Len(st) - 1)

\* The innermost table that has the name is i.
FoundIn(st, n, i) ==
  /\ i \in DOMAIN st
  /\ n \in DOMAIN st[i].last
  /\ \A j \in (i + 1)..Len(st) : n \notin DOMAIN st[j].last

\* An entry, or none.
Contains(st, n) ==
  IF \E i \in DOMAIN st : FoundIn(st, n, i)
  THEN {st[CHOOSE i \in DOMAIN st : FoundIn(st, n, i)].last[n]}
  ELSE {}

-----------------------------------------------------------------------------
(* Code generation *)

\* Mutation: the locals of the function before are kept.
KeepSymbols(sym) == sym

\* CreateNewFunction
ClearSymbols(sym) == NoNames

\* The parameters are added.
WithAll(sym, names) ==
  [n \in DOMAIN sym \cup DOMAIN names |->
     IF n \in DOMAIN names THEN names[n].id ELSE sym[n]]

GetSymbolValue(sym, n) ==
  IF n \in DOMAIN sym THEN sym[n]
  ELSE IF n \in DOMAIN globals THEN globals[n] ELSE Nobody

-----------------------------------------------------------------------------
(* C: a scope has its declarations [entry, id], the table of the parser they  *)
(* are in and, if it is that of a for loop, what the parser found for the     *)
(* name in its increment.                                                     *)

Scope(kind, table, names, increment) ==
  [kind |-> kind, table |-> table, names |-> names, increment |-> increment]

Increment(entry, n) == [entry |-> entry, name |-> n]
NoIncrement == Increment({}, NoName)

Top == scopes[Len(scopes)]
Outer == SubSeq(scopes, 1, Len(scopes) - 1)
NewId == declared + 1

Declaration(e) == [entry |-> e, id |-> NewId]
DeclareIn(i, e) == [scopes EXCEPT ![i].names = With(@, e.name, Declaration(e))]

VisibleNames == UNION {DOMAIN scopes[i].names : i \in DOMAIN scopes}

\* The declaration of a name that C sees.
Seen(sc, n) ==
  LET innermost == CHOOSE i \in DOMAIN sc :
                     /\ n \in DOMAIN sc[i].names
                     /\ \A j \in (i + 1)..Len(sc) : n \notin DOMAIN sc[j].names
  IN sc[innermost].names[n]

\* A use: what the parser finds, what code generation finds, what C sees.
Used(entry, value, decl) == {[entry |-> entry, value |-> value, decl |-> decl]}

MayDeclare(e) ==
  /\ declared < MaxDeclarations
  /\ e.name \notin DOMAIN Top.names
  /\ Shadowing \/ e.name \notin VisibleNames

-----------------------------------------------------------------------------
(* File scope *)

Init ==
  /\ stack = <<EmptyTable>>
  /\ symbols = NoNames
  /\ globals = NoNames
  /\ scopes = <<Scope("file", 1, NoNames, NoIncrement)>>
  /\ declared = 0
  /\ use = {}

DeclareGlobal(e) ==
  /\ Top.kind = "file" /\ MayDeclare(e)
  /\ stack' = InsertEntry(stack, e)
  /\ globals' = IF e.name \in DOMAIN globals THEN globals
                ELSE With(globals, e.name, NewId)
  /\ scopes' = DeclareIn(1, e)
  /\ declared' = NewId
  /\ use' = {}
  /\ UNCHANGED symbols

DeclareEnumerator(e) ==
  /\ Top.kind = "file" /\ MayDeclare(e)
  /\ stack' = InsertEntry(stack, e)
  /\ scopes' = DeclareIn(1, e)
  /\ declared' = NewId
  /\ use' = {}
  /\ UNCHANGED <<symbols, globals>>

\* The table of the function is pushed in front of its parameters.
BeginFunction ==
  /\ Top.kind = "file" /\ Len(scopes) < MaxDepth
  /\ declared < MaxDeclarations
  /\ stack' = PushSymTable(stack)
  /\ symbols' = ClearSymbols(symbols)
  /\ scopes' = Append(scopes,
                      Scope("parameters", Len(stack) + 1, NoNames, NoIncrement))
  /\ use' = {}
  /\ UNCHANGED <<globals, declared>>

DeclareParameter(e) ==
  /\ Top.kind = "parameters" /\ MayDeclare(e)
  /\ NewId < MaxDeclarations
  /\ stack' = InsertEntry(stack, e)
  /\ scopes' = DeclareIn(Len(scopes), e)
  /\ declared' = NewId
  /\ use' = {}
  /\ UNCHANGED <<symbols, globals>>

\* The name of the function is new, or was declared so before.
MayDeclareFunction(f) ==
  /\ Top.kind = "parameters"
  /\ declared < MaxDeclarations
  /\ \/ f.name \notin VisibleNames
     \/ f.name \in DOMAIN scopes[1].names /\ scopes[1].names[f.name].entry = f
        /\ f.name \notin DOMAIN Top.names

\* Behind the parameters the function is entered into the first table.  Code
\* generation enters the parameters.
BeginBody(f) ==
  /\ MayDeclareFunction(f)
  /\ stack' = InsertGlobalEntry(stack, f)
  /\ symbols' = WithAll(symbols, Top.names)
  /\ scopes' = [DeclareIn(1, f) EXCEPT ![Len(scopes)].kind = "function"]
  /\ declared' = NewId
  /\ use' = {}
  /\ UNCHANGED globals

\* A function without a body.
Prototype(f) ==
  /\ MayDeclareFunction(f)
  /\ stack' = PopSymTable(InsertGlobalEntry(stack, f))
  /\ scopes' = SubSeq(DeclareIn(1, f), 1, Len(scopes) - 1)
  /\ declared' = NewId
  /\ use' = {}
  /\ UNCHANGED <<symbols, globals>>

EndFunction ==
  /\ Top.kind = "function"
  /\ stack' = PopSymTable(stack)
  /\ scopes' = Outer
  /\ use' = {}
  /\ UNCHANGED <<symbols, globals, declared>>

EndOfFile == Top.kind = "file" /\ UNCHANGED vars

-----------------------------------------------------------------------------
(* Inside of a function *)

InFunction == Top.kind \in {"function", "block", "for"}

\* The parser enters the variable before it reads the initialization, code
\* generation after it has evaluated that.
DeclareLocal(e, init) ==
  /\ Top.kind \in {"function", "block"} /\ MayDeclare(e)
  /\ init \in (VisibleNames \ {e.name}) \cup {NoName}
  /\ stack' = InsertEntry(stack, e)
  /\ symbols' = With(symbols, e.name, NewId)
  /\ scopes' = DeclareIn(Len(scopes), e)
  /\ declared' = NewId
  /\ use' = IF init = NoName THEN {}
            ELSE Used(Contains(stack', init), GetSymbolValue(symbols, init),
                      Seen(scopes, init))
  /\ UNCHANGED globals

\* A block has no table of its own.
EnterBlock ==
  /\ InFunction /\ Len(scopes) < MaxDepth
  /\ scopes' = Append(scopes, Scope("block", Top.table, NoNames, NoIncrement))
  /\ use' = {}
  /\ UNCHANGED <<stack, symbols, globals, declared>>

LeaveBlock ==
  /\ Top.kind = "block"
  /\ scopes' = Outer
  /\ use' = {}
  /\ UNCHANGED <<stack, symbols, globals, declared>>

\* for (;; increment)
EnterFor(n) ==
  /\ InFunction /\ Len(scopes) < MaxDepth
  /\ n \in VisibleNames
  /\ stack' = PushSymTable(stack)
  /\ scopes' = Append(scopes, Scope("for", Len(stack) + 1, NoNames,
                                    Increment(Contains(stack', n), n)))
  /\ use' = {}
  /\ UNCHANGED <<symbols, globals, declared>>

\* for (e;; increment): the body comes next.  Statements of the body that are
\* not in a block are those of a block without declarations.
EnterForDeclaring(e, n) ==
  /\ InFunction /\ Len(scopes) < MaxDepth
  /\ declared < MaxDeclarations
  /\ Shadowing \/ e.name \notin VisibleNames
  /\ n \in VisibleNames \cup {e.name}
  /\ stack' = InsertEntry(PushSymTable(stack), e)
  /\ symbols' = With(symbols, e.name, NewId)
  /\ scopes' = Append(scopes, Scope("for", Len(stack) + 1,
                                    With(NoNames, e.name, Declaration(e)),
                                    Increment(Contains(stack', n), n)))
  /\ declared' = NewId
  /\ use' = {}
  /\ UNCHANGED globals

\* Now code generation comes to the increment.
LeaveFor ==
  /\ Top.kind = "for"
  /\ stack' = PopSymTable(stack)
  /\ scopes' = Outer
  /\ use' = Used(Top.increment.entry, GetSymbolValue(symbols, Top.increment.name),
                 Seen(scopes, Top.increment.name))
  /\ UNCHANGED <<symbols, globals, declared>>

Use(n) ==
  /\ InFunction /\ n \in VisibleNames
  /\ use' = Used(Contains(stack, n), GetSymbolValue(symbols, n), Seen(scopes, n))
  /\ UNCHANGED <<stack, symbols, globals, scopes, declared>>

Next ==
  \/ \E e \in Objects : DeclareGlobal(e) \/ DeclareParameter(e)
  \/ \E e \in Enumerators : DeclareEnumerator(e)
  \/ \E f \in Functions : BeginBody(f) \/ Prototype(f)
  \/ \E e \in Objects, n \in VisibleNames \cup {NoName} : DeclareLocal(e, n)
  \/ \E e \in Objects : \E n \in VisibleNames \cup {e.name} : EnterForDeclaring(e, n)
  \/ \E n \in VisibleNames : EnterFor(n) \/ Use(n)
  \/ BeginFunction \/ EndFunction \/ EndOfFile \/ EnterBlock \/ LeaveBlock \/ LeaveFor

Spec == Init /\ [][Next]_vars

-----------------------------------------------------------------------------
(* Properties *)

Entries == Objects \cup Enumerators \cup Functions
Names == {e.name : e \in Entries}

Ids == 1..declared

Partial(f, D, S) == DOMAIN f \subseteq D /\ \A x \in DOMAIN f : f[x] \in S

\* The variables have their types, a table is in the order of its names, and the
\* innermost scope of the source has the last table of the parser.
TypeOK ==
  /\ declared \in 0..MaxDeclarations
  /\ Partial(symbols, Names, Ids) /\ Partial(globals, Names, Ids)
  /\ \A i \in DOMAIN stack :
       /\ stack[i].entries \subseteq Entries
       /\ DOMAIN stack[i].last = {e.name : e \in stack[i].entries}
       /\ \A n \in DOMAIN stack[i].last :
            stack[i].last[n] \in stack[i].entries /\ stack[i].last[n].name = n
  /\ \A i \in DOMAIN scopes :
       Partial(scopes[i].names, Names, [entry : Entries, id : Ids])
  /\ scopes # <<>> /\ Top.table = Len(stack)

\* Every use of a name in a function stands for the declaration C sees: the
\* parser finds its type and value, and code generation its object.  Locals of
\* another function, of a block or a loop that was left, and the later place of
\* the increment of a loop do not get in the way, as long as no declaration
\* hides another one and a name has the same type all over.
ResolvesAsC ==
  \A u \in use :
    /\ u.entry = {u.decl.entry}
    /\ u.decl.entry \in Objects => u.value = u.decl.id
=============================================================================
