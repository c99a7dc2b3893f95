-------------------------------- MODULE IRType --------------------------------
(***************************************************************************)
(* Types, as records: those of the syntax tree and of the IR               *)
(* (src/middle_end/IR/Type.hpp) have the same shape.  A type may be a      *)
(* pointer to, or an array of, its base: dimensions and pointers do not    *)
(* nest.  Then the parts of an object of such a type, and the sizes and    *)
(* offsets that the compiler computes.                                     *)
(***************************************************************************)
EXTENDS Integers, Sequences, SequencesExt

\* ptr: the pointer level; dims: the dimensions of an array.
Scalar(bits) ==
  [kind |-> "int", bits |-> bits, ptr |-> 0, dims |-> <<>>, members |-> <<>>]
Struct(members) == [Scalar(32) EXCEPT !.kind = "struct", !.members = members]
Array(t, dims) == [t EXCEPT !.dims = dims]

\* Mutation: a pointer is an integer of 64 bits.
IncrementedToWord(t) == [t EXCEPT !.ptr = @ + 1, !.bits = 64]

Incremented(t) == [t EXCEPT !.ptr = @ + 1]
Decremented(t) == [t EXCEPT !.ptr = @ - 1]

IsStruct(t) == t.kind = "struct"
IsPTR(t) == t.ptr > 0
IsArray(t) == t.dims # <<>>

ReduceDimension(t) == IF IsArray(t) THEN [t EXCEPT !.dims = Tail(@)] ELSE t

-----------------------------------------------------------------------------
(* The parts of an object: an index or the number of a member leads to each. *)

Cell(t) == ~IsArray(t) /\ (IsPTR(t) \/ ~IsStruct(t))

Parts(t) ==
  IF Cell(t) THEN <<>>
  ELSE IF IsArray(t) THEN [i \in 1..Head(t.dims) |-> [t EXCEPT !.dims = Tail(@)]]
  ELSE t.members

RECURSIVE PathsIn(_)
PathsIn(t) ==
  {<<>>} \cup UNION {{<<i - 1>> \o path : path \in PathsIn(Parts(t)[i])} :
                       i \in DOMAIN Parts(t)}

TypeAt(t, path) == FoldLeft(LAMBDA u, i : Parts(u)[i + 1], t, path)

\* The bytes a part needs, with pointers of 8, and where it is when every part
\* lies behind the one before it.
RECURSIVE Width(_)
Width(t) ==
  IF IsPTR(t) /\ Cell(t) THEN 8
  ELSE IF Cell(t) THEN t.bits \div 8
  ELSE FoldLeft(LAMBDA n, u : n + Width(u), 0, Parts(t))

RECURSIVE Displacement(_, _)
Displacement(t, path) ==
  IF path = <<>> THEN 0
  ELSE FoldLeft(LAMBDA n, u : n + Width(u), 0, SubSeq(Parts(t), 1, Head(path)))
         + Displacement(Parts(t)[Head(path) + 1], Tail(path))

-----------------------------------------------------------------------------
(* What the compiler computes. *)

Elements(dims) == FoldLeft(LAMBDA n, d : n * d, 1, dims)

RECURSIVE GetByteSize(_)
GetByteSize(t) ==
  IF IsStruct(t) THEN FoldLeft(LAMBDA n, u : n + GetByteSize(u), 0, t.members)
  ELSE IF IsPTR(t) THEN 4 * Elements(t.dims)
  ELSE (t.bits * Elements(t.dims)) \div 8

\* The size of an element of the first dimension.
CalcElemSize(t) ==
  Elements(IF IsArray(t) THEN Tail(t.dims) ELSE <<>>) * (t.bits \div 8)

\* Mutation: members of the same size are assumed.
GetElemByteOffsetEven(t, n) == n * GetByteSize(t.members[n + 1])

GetElemByteOffset(t, n) ==
  FoldLeft(LAMBDA offset, u : offset + GetByteSize(u), 0, SubSeq(t.members, 1, n))
=============================================================================
