------------------------------ MODULE StackFrame -----------------------------
(***************************************************************************)
(* The stack frame of a machine function (src/backend/StackFrame.cpp): a   *)
(* map from object IDs to sizes, and the bytes the objects take up.  The   *)
(* size is accumulated in the order the objects are pushed, the positions  *)
(* are recomputed in the order of the map, that is of the IDs.             *)
(***************************************************************************)
EXTENDS Integers, Sequences

CONSTANT WordModulus   \* 2^w for the w bits of an unsigned

ASSUME WordAssumption == WordModulus \in Nat \ {0}

Words == 0..(WordModulus - 1)

\* The bits that two words have in common.
And[p \in Words \X Words] ==
  IF p[1] = 0 \/ p[2] = 0 THEN 0
  ELSE 2 * And[<<p[1] \div 2, p[2] \div 2>>]
         + (IF p[1] % 2 = 1 /\ p[2] % 2 = 1 THEN 1 ELSE 0)

\* Mutation: the low bits are not masked.
RoundUpUnmasked(val, alignment) == (val + alignment - 1) % WordModulus

\* (Val + Alignment - 1) & ~(Alignment - 1), in unsigned arithmetic.
GetNextAlignedValue(val, alignment) ==
  LET mask == (alignment - 1) % WordModulus
      sum == (val + mask) % WordModulus
  IN sum - And[<<sum, mask>>]

EmptyFrame == [size |-> 0, slots |-> <<>>]

IsStackSlot(frame, id) == id \in DOMAIN frame.slots

\* Mutation: the sizes are added up unaligned.
AddUpSizes(frame, id, size) ==
  [size |-> frame.size + size,
   slots |-> [i \in DOMAIN frame.slots \cup {id} |->
                IF i = id THEN size ELSE frame.slots[i]]]

\* The caller checks that there is no object with this ID yet.
InsertStackSlot(frame, id, size) ==
  [size |-> (GetNextAlignedValue(frame.size, size) + size) % WordModulus,
   slots |-> [i \in DOMAIN frame.slots \cup {id} |->
                IF i = id THEN size ELSE frame.slots[i]]]

\* Mutation: the walk forgets to align the objects in front.
PackedBehind(frame, position, id) == position + frame.slots[id]

\* Where the next object of the walk may start.
Behind(frame, position, id) ==
  (GetNextAlignedValue(position, frame.slots[id]) + frame.slots[id]) % WordModulus

\* Where an object may start that comes behind those with IDs below id.
PositionBelow(frame, id) ==
  LET position[i \in 0..WordModulus] ==   \* IDs are unsigned
        IF i = 0 THEN 0
        ELSE IF IsStackSlot(frame, i - 1)
        THEN Behind(frame, position[i - 1], i - 1)
        ELSE position[i - 1]
  IN position[id]

GetPosition(frame, id) ==
  GetNextAlignedValue(PositionBelow(frame, id), frame.slots[id])

\* The bytes of an object, counted from the stack pointer.
Bytes(frame, id) ==
  GetPosition(frame, id)..(GetPosition(frame, id) + frame.slots[id] - 1)
=============================================================================
