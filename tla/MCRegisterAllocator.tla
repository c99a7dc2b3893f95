------------------------ MODULE MCRegisterAllocator --------------------------
(***************************************************************************)
(* Small functions for the register allocator: straight-line code in the   *)
(* form the instruction selector produces, where the parameters are stored *)
(* first, every virtual register is defined once and before its uses, and  *)
(* the last instruction is the return.                                     *)
(***************************************************************************)
EXTENDS RegisterAllocator

CONSTANTS
  x0, x1, x9, x19, x20,  \* the registers
  MaxParams,   \* most parameters of a function
  MaxBody,     \* most instructions between the stores and the return
  MaxUses      \* most virtual registers an instruction reads

MCUnit == {x0, x1, x9, x19, x20}
MCArgumentRegisters == <<x0, x1>>
MCCallerSaved == <<x0, x1>>
MCCalleeSaved == <<x19, x20>>
MCThreeCallerSaved == <<x0, x1, x9>>
MCWidths == [u \in MCUnit |-> {32, 64}]

Virt(v) == [vreg |-> TRUE, val |-> v, size |-> 32]
Imm(n) == [vreg |-> FALSE, val |-> n, size |-> 32]

Plain(ops, writes) ==
  [ops |-> ops, writes |-> writes, ret |-> FALSE, fixed |-> {}]
Return(ops) == [ops |-> ops, writes |-> FALSE, ret |-> TRUE, fixed |-> {}]
Move(u, v) ==
  [ops |-> <<Virt(v)>>, writes |-> FALSE, ret |-> FALSE, fixed |-> {u}]
Call == [ops |-> <<>>, writes |-> FALSE, ret |-> FALSE,
         fixed |-> Range(CallerSaved)]

Params(p) == [i \in 1..p |-> [reg |-> i - 1, size |-> 32]]
Stores(p) == [i \in 1..p |-> Plain(<<Virt(i - 1)>>, FALSE)]

\* Operand lists reading at most MaxUses of the registers first..last.
Uses(first, last) ==
  {SetToSeq({Virt(v) : v \in S}) :
     S \in {T \in SUBSET (first..last) : Cardinality(T) <= MaxUses}}

\* Bodies of n instructions over registers named from p on: a body of length n
\* defines at most n of them, in order.
Bodies[n \in Nat] ==
  [p \in Nat |->
     IF n = 0 THEN {[code |-> <<>>, next |-> p]}
     ELSE UNION {UNION {
            { [code |-> Append(b.code, Plain(<<Virt(b.next)>> \o u, TRUE)),
               next |-> b.next + 1],
              [code |-> Append(b.code, Plain(u, FALSE)), next |-> b.next] }
            : u \in Uses(p, b.next - 1) } : b \in Bodies[n - 1][p]} ]

Endings(p, next) ==
  {Return(<<>>)} \cup {Return(<<Virt(v)>>) : v \in p..(next - 1)}
    \cup {Return(<<Imm(v)>>) : v \in p..(next - 1)}

\* A register of a width no register of the target has.
OddWidth ==
  {[params |-> <<>>, lastBB |-> 1,
    code |-> <<Plain(<<[vreg |-> TRUE, val |-> 0, size |-> 128]>>, TRUE),
               Return(<<>>)>>]}

Define(v) == Plain(<<Virt(v)>>, TRUE)
Use(vs) == Plain(SetToSeq({Virt(v) : v \in vs}), FALSE)

\* More values than registers: three are defined, some of them used for the
\* last time, three more defined, and some of all of them used.
WideFunctions ==
  {[params |-> Params(p), lastBB |-> 1,
    code |-> Stores(p)
               \o <<Define(p), Define(p + 1), Define(p + 2), Use(early),
                    Define(p + 3), Define(p + 4), Define(p + 5), Use(late),
                    Return(<<>>)>>]
     : p \in 0..1, early \in SUBSET {1, 2}, late \in SUBSET {1, 2, 4}}

LeafFunctions ==
  OddWidth \cup WideFunctions \cup UNION {UNION {UNION {
    {[params |-> Params(p), code |-> Stores(p) \o b.code \o <<e>>,
      lastBB |-> 1] : e \in Endings(p, b.next)}
      : b \in Bodies[n][p]} : n \in 0..(MaxBody - p)} : p \in 0..MaxParams}

\* A call with two arguments: they are computed from left to right, then each
\* is moved to its argument register.
CallFunctions ==
  UNION {{[params |-> <<>>, lastBB |-> 1,
           code |-> b.code \o <<Move(x0, pair[1]), Move(x1, pair[2]), Call,
                                Return(<<>>)>>]
            : pair \in {q \in (0..(b.next - 1)) \X (0..(b.next - 1)) : q[1] < q[2]}}
           : b \in Bodies[MaxBody][0]}
=============================================================================
