---------------------------- MODULE MCMemoryAccess ----------------------------
(***************************************************************************)
(* Small programs: the objects of a function, of one that it calls, and    *)
(* global ones, with all assignments to their cells, through every         *)
(* expression that leads to one.                                           *)
(***************************************************************************)
EXTENDS MemoryAccess

View == <<program.name, memory, gtype, call>>

char == Scalar(8)
int == Scalar(32)
long == Scalar(64)
PointerTo(t) == Incremented(t)

-----------------------------------------------------------------------------
(* Expressions *)

Numbers(n) == {Literal(n), Computed(n)}
Star(e) == Unary("*", e)
AddressOf(o) == Unary("&", Name(o))

\* Those that lead from e, of the type t, to a cell.
RECURSIVE Cells(_, _)
Cells(e, t) ==
  IF IsArray(t)
  THEN UNION {Cells(Index(e, n), ReduceDimension(t)) :
                n \in UNION {Numbers(i) : i \in 0..(Head(t.dims) - 1)}}
  ELSE IF IsStruct(t)
  THEN UNION {Cells(Member(IF IsPTR(t) THEN "->" ELSE ".", e, i - 1), t.members[i]) :
                i \in DOMAIN t.members}
  ELSE IF IsPTR(t) THEN {Index(e, n) : n \in Numbers(0) \cup Numbers(1)}
  ELSE {e}

-----------------------------------------------------------------------------
(* Statements *)

Set(e, v) == Binary("=", e, v)
Assigns(targets) == {Set(e, Computed(1)) : e \in targets}
Clears(targets) == {Set(e, Literal(3)) : e \in targets}
Updates(targets) == {Binary("+=", e, Computed(1)) : e \in targets}
Everything(targets) == Assigns(targets) \cup Clears(targets) \cup Updates(targets)

Of(type, o) == Cells(Name(o), type[o])
All(type, objects) == UNION {Of(type, o) : o \in objects}

CallWith(args) == Call("f", args)

Program(type, caller, callee, parameters) ==
  [name |-> "", type |-> type,
   parts |-> [o \in DOMAIN type |-> [path \in PathsIn(type[o]) |-> TypeAt(type[o], path)]],
   caller |-> caller, callee |-> callee, parameters |-> parameters,
   globals |-> <<>>, initial |-> <<>>, temporary |-> "", result |-> "", addresses |-> 0,
   statements |-> [caller |-> {}, callee |-> {}], reads |-> [caller |-> {}, callee |-> {}]]

Function(type, locals, statements, reads) ==
  [Program(type, locals, <<>>, 0) EXCEPT !.statements.caller = statements,
                                         !.reads.caller = reads]
Calling(p, statements, reads) ==
  [p EXCEPT !.statements.callee = statements \cup {Return(Nothing)}, !.reads.callee = reads]

-----------------------------------------------------------------------------
(* Programs.  A comment gives the declarations of each. *)

\* int i; char c; long l; char d;
Scalars ==
  LET type == [i |-> int, c |-> char, l |-> long, d |-> char]
  IN Function(type, <<"i", "c", "l", "d">>,
              Assigns(All(type, DOMAIN type)) \cup Clears(All(type, {"c", "l"}))
                \cup Updates(All(type, {"i", "l"})) \cup {Set(Name("c"), Name("d"))},
              All(type, DOMAIN type))

\* int x; int a[2][2]; int y;
Arrays ==
  LET type == [x |-> int, a |-> Array(int, <<2, 2>>), y |-> int]
  IN Function(type, <<"x", "a", "y">>,
              Assigns(All(type, {"x", "y"})) \cup Everything(Of(type, "a")),
              All(type, DOMAIN type))

\* char x; char a[2][2]; long b[2];
BytesAndLongs ==
  LET type == [x |-> char, a |-> Array(char, <<2, 2>>), b |-> Array(long, <<2>>)]
  IN Function(type, <<"x", "a", "b">>,
              Assigns(All(type, DOMAIN type)) \cup Updates(Of(type, "b"))
                \cup {Set(Name("x"), Index(Index(Name("a"), Literal(1)), Computed(0)))},
              All(type, DOMAIN type))

\* int x; int a[3] = {1, 2, 3};
Declared ==
  LET type == [x |-> int, a |-> Array(int, <<3>>)]
  IN Function(type, <<"x", "a">>,
              {Decl("a", InitializerList(<<Literal(1), Literal(2), Literal(3)>>))}
                \cup Assigns(All(type, DOMAIN type)) \cup Updates(Of(type, "a")),
              All(type, DOMAIN type))

\* struct S { int x; int y; int z; } p, q;
TwoStructs ==
  LET type == [p |-> Struct(<<int, int, int>>), q |-> Struct(<<int, int, int>>),
               temp |-> Struct(<<int, int, int>>)]
  IN [Function(type, <<"p", "q", "temp">>,
               Assigns(Of(type, "p")) \cup Updates(Of(type, "p"))
                 \cup {Set(Name("p"), Name("q")), Set(Name("q"), Name("p")),
                        Set(Name("q"), StructInit(<<0, 1, 2>>, <<Literal(1), Computed(2), Computed(1)>>))},
               All(type, {"p", "q"})) EXCEPT !.temporary = "temp"]

Pair == Struct(<<int, int>>)
Three == Struct(<<int, int, int>>)
Four == Struct(<<long, int, int>>)
Big == Struct(<<long, int, long>>)

\* struct { int m; struct { int x; int y; } in; int a[2]; } s; struct ... p;
Nested ==
  LET type == [s |-> Struct(<<int, Pair, Array(int, <<2>>)>>), p |-> Pair]
  IN Function(type, <<"s", "p">>,
              Assigns(Of(type, "s")) \cup Assigns(Of(type, "p"))
                \cup {Set(Member(".", Name("s"), 1), Name("p"))},
              All(type, DOMAIN type))

\* void f(int *p, int *q) { int t; ... }, called with int x; int a[2];
Pointers ==
  LET type == [x |-> int, a |-> Array(int, <<2>>), p |-> PointerTo(int),
               q |-> PointerTo(int), t |-> int]
  IN Calling(
       [Function(type, <<"x", "a">>,
                 Clears({Name("x"), Index(Name("a"), Literal(1))})
                   \cup {CallWith(<<AddressOf("x"), Name("a")>>),
                         CallWith(<<Name("a"), AddressOf("x")>>)},
                 All(type, {"x", "a"})) EXCEPT !.callee = <<"p", "q", "t">>, !.parameters = 2],
       Assigns(Of(type, "p")) \cup Updates(Of(type, "q"))
         \cup {Set(Name("p"), Name("q")), Set(Name("t"), Star(Name("p"))),
               Set(Index(Name("p"), Literal(0)), Index(Name("q"), Computed(1)))},
       All(type, {"p", "q", "t"}) \cup {Star(Name("p")), Name("q")})

\* void f(struct S *p, int n), called with struct S { int x; int y; int z; } s; int x;
StructPointers ==
  LET type == [s |-> Three, x |-> int, p |-> PointerTo(Three), n |-> int]
  IN Calling(
       [Function(type, <<"s", "x">>,
                 Assigns({Member(".", Name("s"), 1), Name("x")})
                   \cup {CallWith(<<AddressOf("s"), Name("x")>>)},
                 All(type, {"s", "x"})) EXCEPT !.callee = <<"p", "n">>, !.parameters = 2],
       Everything(Of(type, "p")) \cup {Set(Name("n"), Member("->", Name("p"), 2))},
       All(type, {"p", "n"}))

\* void f(struct S p, char n), called with struct S s; char x;
ByValue(t) ==
  LET type == [s |-> t, x |-> char, p |-> t, n |-> char]
  IN Calling(
       [Function(type, <<"s", "x">>,
                 Assigns(Of(type, "s") \cup {Name("x")})
                   \cup {CallWith(<<Name("s"), Name("x")>>)},
                 All(type, {"s", "x"})) EXCEPT !.callee = <<"p", "n">>, !.parameters = 2],
       (IF TooBig(t) THEN {} ELSE Updates(Of(type, "p"))) \cup Assigns({Name("n")}),
       All(type, {"p", "n"}))

\* struct S f(int n) { struct S r; ... return r; }, called in s = f(x).
Returning(t) ==
  LET type == [s |-> t, x |-> int, temp |-> t, n |-> int, r |-> t]
  IN Calling(
       [Function(type, <<"s", "x", "temp">>,
                 Assigns(Of(type, "s") \cup {Name("x")})
                   \cup {Set(Name("s"), CallWith(<<Name("x")>>))},
                 All(type, {"s", "x"}))
          EXCEPT !.callee = IF TooBig(t) THEN <<"n">> ELSE <<"n", "r">>,
                 !.parameters = 1, !.temporary = "temp", !.result = "r"],
       Assigns(Of(type, "r")) \cup {Set(Member(".", Name("r"), 1), Name("n"))},
       All(type, {"r", "n"}))

\* int g; int ga[2] = {1, 2}; struct { int x; int y; } gs = {3, 4}; char gc; and
\* void f(int *p), called with &g and ga.
GlobalObjects ==
  LET type == [g |-> int, ga |-> Array(int, <<2>>), gs |-> Pair, gc |-> char,
               p |-> PointerTo(int)]
  IN Calling(
       [Function(type, <<>>,
                 Assigns(All(type, {"ga", "gs", "gc"})) \cup Updates({Name("g")})
                   \cup {CallWith(<<AddressOf("g")>>), CallWith(<<Name("ga")>>)},
                 All(type, {"g", "ga", "gs", "gc"}))
          EXCEPT !.callee = <<"p">>, !.parameters = 1, !.addresses = 1,
                 !.globals = <<"g", "ga", "gs", "gc">>,
                 !.initial = [g |-> <<>>, ga |-> <<1, 2>>, gs |-> <<3, 4>>, gc |-> <<>>]],
       Updates(Of(type, "p")), Of(type, "p"))

Named(name, p) == [p EXCEPT !.name = name]

PassingPrograms ==
  {Named("scalars", Scalars),
   Named("arrays", Arrays),
   Named("bytes", BytesAndLongs),
   Named("declared", Declared),
   Named("twoStructs", TwoStructs),
   Named("nested", Nested),
   Named("pointers", Pointers),
   Named("structPointers", StructPointers),
   Named("three", ByValue(Three)),
   Named("four", ByValue(Four)),
   Named("big", ByValue(Big)),
   Named("returnsThree", Returning(Three)),
   Named("returnsFour", Returning(Four)),
   Named("returnsBig", Returning(Big)),
   Named("globals", GlobalObjects)}

-----------------------------------------------------------------------------
(* Programs that do not do what C says of them.  MCMemoryAccessKinds.cfg     *)
(* takes one of them.                                                        *)

One(name, p) == {Named(name, p)}

\* char c[4] = {1, 2, 3, 4}; char d;
ListOfBytes ==
  LET type == [d |-> char, c |-> Array(char, <<4>>)]
  IN One("ListOfBytes",
         Function(type, <<"c", "d">>,
                  {Decl("c", InitializerList(<<Literal(1), Literal(2), Literal(3), Literal(4)>>))}
                    \cup Clears({Name("d")}), {}))

\* struct { long x; int y; } s; s = (struct S){ .x = 1, .y = 2 };
UncastMember ==
  LET type == [s |-> Struct(<<long, int>>), temp |-> Struct(<<long, int>>)]
  IN One("UncastMember",
         [Function(type, <<"s", "temp">>,
                   {Set(Name("s"), StructInit(<<0, 1>>, <<Literal(1), Literal(2)>>))}, {})
            EXCEPT !.temporary = "temp"])

\* s = (struct S){ .y = 1, .x = 2 };
MembersInAnyOrder ==
  LET type == [s |-> Pair, temp |-> Pair]
  IN One("MembersInAnyOrder",
         [Function(type, <<"s", "temp">>,
                   {Set(Name("s"), StructInit(<<1, 0>>, <<Literal(1), Literal(2)>>))}, {})
            EXCEPT !.temporary = "temp"])

\* A struct that fits into one register.
SmallByValue == One("SmallByValue", ByValue(Pair))

\* void f(int n, struct T p): p is stored in whole registers, at the end of the frame.
StructBehindScalar ==
  LET type == [s |-> Three, x |-> int, n |-> int, p |-> Three]
  IN One("StructBehindScalar",
         Calling([Function(type, <<"s", "x">>,
                           Assigns(Of(type, "s") \cup {Name("x")})
                             \cup {CallWith(<<Name("x"), Name("s")>>)}, {})
                    EXCEPT !.callee = <<"n", "p">>, !.parameters = 2], {}, {}))

\* f changes its parameter.
WrittenByCallee ==
  One("WrittenByCallee",
      [ByValue(Big) EXCEPT !.statements.callee = @ \cup Updates(Of([p |-> Big], "p"))])

\* p = s.in;
CopiedMember ==
  LET type == [s |-> Struct(<<int, Pair>>), p |-> Pair]
  IN One("CopiedMember",
         Function(type, <<"s", "p">>,
                  Assigns(Of(type, "s")) \cup {Set(Name("p"), Member(".", Name("s"), 1))}, {}))

\* s = gs;
CopiedGlobal ==
  LET type == [s |-> Pair, gs |-> Pair]
  IN One("CopiedGlobal",
         [Function(type, <<"s">>, {Set(Name("s"), Name("gs"))}, {})
            EXCEPT !.globals = <<"gs">>, !.initial = [gs |-> <<1, 2>>]])

\* struct { char a; char b; char c; } p, q; q = p;
CopiedBytes ==
  LET type == [p |-> Struct(<<char, char, char>>), q |-> Struct(<<char, char, char>>)]
  IN One("CopiedBytes",
         Function(type, <<"p", "q">>, Assigns(Of(type, "p")) \cup {Set(Name("q"), Name("p"))}, {}))

\* struct { int *m; int n; } s; and f(int *p), which returns.
PointerMember ==
  LET type == [x |-> int, s |-> Struct(<<PointerTo(int), int>>), p |-> PointerTo(int)]
  IN One("PointerMember",
         Calling([Function(type, <<"x">>, {CallWith(<<AddressOf("x")>>)}, {})
                    EXCEPT !.callee = <<"p", "s">>, !.parameters = 1],
                 Assigns({Member(".", Name("s"), 1)})
                   \cup {Set(Member(".", Name("s"), 0), Name("p"))}, {}))

\* int *a[2];
PointerArray ==
  LET type == [x |-> int, a |-> Incremented(Array(int, <<2>>)), p |-> PointerTo(int)]
  IN One("PointerArray",
         Calling([Function(type, <<"x">>, {CallWith(<<AddressOf("x")>>)}, {})
                    EXCEPT !.callee = <<"p", "a">>, !.parameters = 1],
                 {Set(Index(Name("a"), Literal(i)), Name("p")) : i \in 0..1}, {}))

\* Two calls with &g: its pointer level is that of an int **.
AddressTakenTwice ==
  LET type == [g |-> int, p |-> PointerTo(int)]
  IN One("AddressTakenTwice",
         Calling([Function(type, <<>>, Assigns({Name("g")}) \cup Updates({Name("g")})
                             \cup {CallWith(<<AddressOf("g")>>)}, {Name("g")})
                    EXCEPT !.callee = <<"p">>, !.parameters = 1, !.addresses = 2,
                           !.globals = <<"g">>, !.initial = [g |-> <<>>]],
                 {}, {Name("g")}))

\* int a[3] = {1};
ShortList ==
  LET type == [a |-> Array(int, <<3>>)]
  IN One("ShortList",
         Function(type, <<"a">>, {Decl("a", InitializerList(<<Literal(1)>>))}, {}))

\* int ga[3] = {1}; int h;
ShortGlobal ==
  LET type == [ga |-> Array(int, <<3>>), h |-> int, x |-> int]
  IN One("ShortGlobal",
         [Function(type, <<"x">>, Assigns(Of(type, "ga") \cup {Name("h")}), {Name("h")})
            EXCEPT !.globals = <<"ga", "h">>, !.initial = [ga |-> <<1>>, h |-> <<2>>]])
=============================================================================
