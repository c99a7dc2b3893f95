------------------------- MODULE MCVirtualRegisters -------------------------
(***************************************************************************)
(* Functions of a few values for TLC.                                      *)
(***************************************************************************)
EXTENDS VirtualRegisters

MCSignatures == {<<>>, <<"pointer">>, <<"struct", "scalar">>}

\* States that differ only in what nobody reads any more are explored once: in
\* registers of values that were used, and in the operands of the last instruction
\* when these are right.
Live == {GetIDFromValue(mf, v) : v \in DOMAIN values}
          \cup UNION {{mf.loaded[v][p] : p \in Parts} : v \in DOMAIN values \cap DOMAIN mf.loaded}

View ==
  <<pc, signature, locals, ID, values, memory, OperandsHoldTheirValues,
    IF pc \in {"body", "done"}
    THEN [next |-> mf.next, slots |-> mf.slots,
          map |-> [v \in (DOMAIN values \cup Globals) \cap DOMAIN mf.map |-> mf.map[v]],
          loaded |-> [v \in DOMAIN values \cap DOMAIN mf.loaded |-> mf.loaded[v]],
          regs |-> [n \in DOMAIN mf.regs |-> IF n \in Live THEN mf.regs[n] ELSE Undefined],
          frame |-> [c \in {d \in DOMAIN mf.frame : d[1] \in DOMAIN locals \cup Live} |->
                       mf.frame[c]]]
    ELSE mf>>

\* f(int a, struct S s)
ScalarBeforeStruct == {<<"scalar", "struct">>}
=============================================================================
