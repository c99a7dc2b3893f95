----------------------------- MODULE ObjectStore ------------------------------
(***************************************************************************)
(* What C says of the objects of a function that calls another: each has a *)
(* value in every cell, an assignment changes the cells of its left side   *)
(* and no other, an expression means the cell it leads to, and a parameter *)
(* starts with the value of its argument.                                  *)
(***************************************************************************)
EXTENDS IRType, SyntaxTree, FiniteSets

CONSTANT
  Programs     \* a set of [name, type: object |-> type,
               \* parts: object |-> path |-> type of that part, caller, callee, globals: their
               \* objects, in order (the first ones of the callee are its
               \* `parameters`), initial: global |-> numbers,
               \* temporary: a local of the caller that C does not know,
               \* result: the struct that the callee returns, or "",
               \* statements: of "caller" and "callee",
               \* addresses: how often a global's address may be taken]

VARIABLES
  program,     \* one of them
  store,       \* cell |-> value
  call,        \* the call that is executed, or NoCall
  last         \* the statement that was executed last

vars == <<program, store, call, last>>

(* Values *)

Undefined == <<"undefined">>
Val(n) == <<"val", n>>      \* that of an expression
Lit(n) == <<"lit", n>>      \* that of a literal
To(o, path) == <<"to", o, path>>

Updated(v) == Val(IF v = Val(1) THEN 2 ELSE 1)

(* Objects and their cells *)

Objects == DOMAIN program.parts \ {program.temporary}
InCaller(o) == o \in {program.caller[i] : i \in DOMAIN program.caller}
InCallee(o) == o \in {program.callee[i] : i \in DOMAIN program.callee} \cup {program.result}

At(o, path) == [o |-> o, path |-> path]
Nowhere == At("", <<>>)

\* The smallest parts.
Cells ==
  UNION {{<<o, path>> : path \in {q \in DOMAIN program.parts[o] : Cell(program.parts[o][q])}} : o \in Objects}

Exists(place) == place.o \in Objects /\ place.path \in DOMAIN program.parts[place.o]
TypeOf(place) == program.parts[place.o][place.path]

(* Expressions that lead to a place *)

Holds(place) == Exists(place) /\ Cell(TypeOf(place)) /\ store[<<place.o, place.path>>] # Undefined

Target(place) ==
  IF Holds(place) /\ IsPTR(TypeOf(place)) /\ store[<<place.o, place.path>>] # Lit(0)
  THEN At(store[<<place.o, place.path>>][2], store[<<place.o, place.path>>][3])
  ELSE Nowhere

Within(place, n) == At(place.o, Append(place.path, n))

\* The n-th element behind the one at a place.
Beyond(place, n) ==
  IF n = 0 THEN place
  ELSE IF place.path = <<>> THEN Nowhere
  ELSE At(place.o, Append(Front(place.path), Last(place.path) + n))

Indexed(place, n) ==
  IF Exists(place) /\ Cell(TypeOf(place)) THEN Beyond(Target(place), n) ELSE Within(place, n)

RECURSIVE Place(_)
Place(e) ==
  CASE e.kind = "name" -> At(e.name, <<>>)
    [] e.kind = "index" -> Indexed(Place(e.l), e.r.val)
    [] e.kind = "member" ->
         Within(IF e.op = "." THEN Place(e.e) ELSE Target(Place(e.e)), e.member)
    [] e.kind = "unary" -> Target(Place(e.e))

\* A cell has to be initialized to be read, a struct may be copied in part.
Readable(e) ==
  IF e.kind \in {"literal", "computed", "structinit", "list"} THEN TRUE
  ELSE Exists(Place(e)) /\ (Cell(TypeOf(Place(e))) => Holds(Place(e)))

\* The value of a cell of an expression.  A member or an element that is not listed
\* is zero.
Listed(e, n) ==
  IF e.kind = "list"
  THEN IF n + 1 \in DOMAIN e.values THEN e.values[n + 1] ELSE Literal(0)
  ELSE IF Contains(e.members, n)
       THEN e.values[CHOOSE i \in DOMAIN e.members : e.members[i] = n]
  ELSE Literal(0)

RECURSIVE Meaning(_, _)
Meaning(e, path) ==
  CASE e.kind = "literal" -> Lit(e.val)
    [] e.kind = "computed" -> Val(e.val)
    [] e.kind \in {"structinit", "list"} -> Meaning(Listed(e, path[1]), Tail(path))
    [] OTHER -> store[<<Place(e).o, Place(e).path \o path>>]

-----------------------------------------------------------------------------
(* Statements are assignments, declarations of arrays with a list, calls,    *)
(* assignments of what a call returns, and the return.                       *)

NoCall == [kind |-> "none"]

IsCall(st) == st.kind = "call" \/ (st.kind = "binary" /\ st.r.kind = "call")
CallIn(st) == IF st.kind = "call" THEN st ELSE st.r

Statements == program.statements[IF call = NoCall THEN "caller" ELSE "callee"]

IsAddress(arg) == arg.kind = "unary" /\ arg.op = "&"

Argument(arg, path) ==
  IF IsAddress(arg) THEN To(arg.e.name, <<>>)
  ELSE IF IsArray(TypeOf(Place(arg))) THEN To(arg.name, <<0>>)
  ELSE Meaning(arg, path)

\* The cells of an object or of a part of one get the values f(path in it).
Filled(place, f(_)) ==
  [c \in Cells |->
     IF c[1] = place.o /\ IsPrefix(place.path, c[2])
     THEN f(SubSeq(c[2], Len(place.path) + 1, Len(c[2])))
     ELSE store[c]]

Entered(args) ==
  [c \in Cells |->
     IF ~InCallee(c[1]) THEN store[c]
     ELSE IF \E k \in DOMAIN args : program.callee[k] = c[1]
          THEN Argument(args[CHOOSE k \in DOMAIN args : program.callee[k] = c[1]], c[2])
     ELSE Undefined]

Left ==
  [c \in Cells |->
     IF InCallee(c[1]) THEN Undefined
     ELSE IF program.result # "" /\ call.kind = "binary"
          THEN Filled(Place(call.l), LAMBDA path : store[<<program.result, path>>])[c]
     ELSE store[c]]

Legal(st) ==
  CASE IsCall(st) ->
         \A k \in DOMAIN CallIn(st).args :
           IsAddress(CallIn(st).args[k]) \/ Readable(CallIn(st).args[k])
    [] st.kind = "binary" ->
         /\ Exists(Place(st.l)) /\ Readable(st.r)
         /\ st.op # "=" => Readable(st.l)
    [] OTHER -> TRUE

After(st) ==
  CASE IsCall(st) -> Entered(CallIn(st).args)
    [] st.kind = "return" -> Left
    [] st.kind = "decl" -> Filled(At(st.name, <<>>), LAMBDA path : Meaning(st.init, path))
    [] st.kind = "binary" /\ st.op = "=" ->
         Filled(Place(st.l), LAMBDA path : Meaning(st.r, path))
    [] OTHER -> Filled(Place(st.l), LAMBDA path : Updated(Meaning(st.l, path)))

-----------------------------------------------------------------------------

\* The list of an initializer goes through the cells in order, zeros follow.
Rank(o, path) ==
  Cardinality({c \in Cells : /\ c[1] = o
                             /\ Displacement(program.type[o], c[2]) < Displacement(program.type[o], path)}) + 1

Initial(c) ==
  IF c[1] \notin DOMAIN program.initial THEN Undefined
  ELSE IF Rank(c[1], c[2]) \in DOMAIN program.initial[c[1]]
       THEN Lit(program.initial[c[1]][Rank(c[1], c[2])])
  ELSE Lit(0)

Init ==
  /\ program \in Programs
  /\ store = [c \in Cells |-> Initial(c)]
  /\ call = NoCall
  /\ last = NoCall

Next ==
  \E st \in Statements :
    /\ last' = st
    /\ Legal(st)
    /\ store' = After(st)
    /\ call' = IF IsCall(st) THEN st ELSE IF st.kind = "return" THEN NoCall ELSE call
    /\ UNCHANGED program

Spec == Init /\ [][Next]_vars
=============================================================================
