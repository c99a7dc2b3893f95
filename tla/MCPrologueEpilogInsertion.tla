---------------------- MODULE MCPrologueEpilogInsertion ----------------------
(***************************************************************************)
(* Small functions for the stack frame: up to MaxObjects objects of every  *)
(* combination of sizes, in one or two blocks, with and without a call.    *)
(***************************************************************************)
EXTENDS PrologueEpilogInsertion

CONSTANTS
  MaxObjects,   \* most objects of a frame
  Sizes         \* their sizes in bytes

Objects == UNION {[1..n -> Sizes] : n \in 0..MaxObjects}

\* The IDs of the IR values that own the objects grow, with gaps.
Slots(sizes) == [i \in DOMAIN sizes |-> [id |-> 3 * i, size |-> sizes[i]]]

Writes(sizes) == [i \in DOMAIN sizes |-> Instr("write", 3 * i)]
Reads(sizes) == [i \in DOMAIN sizes |-> Instr("read", 3 * i)]
Calls(caller) == IF caller THEN <<Instr("call", 0), Instr("call", 0)>> ELSE <<>>

Blocks(sizes, caller, split) ==
  IF split
  THEN <<Writes(sizes) \o <<Instr("jump", 0)>>,
         Calls(caller) \o Reads(sizes) \o <<Instr("ret", 0)>>>>
  ELSE <<Writes(sizes) \o Calls(caller) \o Reads(sizes) \o <<Instr("ret", 0)>>>>

Function(sizes, caller, split, used) ==
  [slots |-> Slots(sizes), caller |-> caller, used |-> used,
   blocks |-> Blocks(sizes, caller, split)]

\* Functions under register pressure; in the second, an object has the number of
\* the register that is saved.
Spilling ==
  {Function(<<4>>, TRUE, FALSE, <<51>>), Function([i \in 1..17 |-> 4], TRUE, FALSE, <<51>>)}

SmallFunctions ==
  {Function(sizes, caller, split, <<>>) :
     sizes \in Objects, caller \in BOOLEAN, split \in BOOLEAN}
    \cup Spilling
=============================================================================
