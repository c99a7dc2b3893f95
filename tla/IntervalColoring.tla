-------------------------- MODULE IntervalColoring ---------------------------
(***************************************************************************)
(* What a register allocator promises, whatever its algorithm: it colours  *)
(* live ranges one at a time, never changes a colour it has given, never   *)
(* gives a reserved colour, and gives overlapping ranges different ones.   *)
(***************************************************************************)
EXTENDS Naturals

CONSTANT Color

VARIABLES
  range,     \* live range of each value: [def, kill]
  color,     \* the colours given so far
  reserved   \* colours that are not to be given

vars == <<range, color, reserved>>

Overlap(r, s) == r.def <= s.kill /\ s.def <= r.kill

Init == color = <<>>

\* The ranges and the reservations are settled before any colour is given.
Prepare == color = <<>> /\ UNCHANGED color

Free(v, c) ==
  /\ c \notin reserved
  /\ \A w \in DOMAIN color : Overlap(range[v], range[w]) => color[w] # c

Give(v, c) ==
  /\ v \notin DOMAIN color
  /\ Free(v, c)
  /\ color' = [w \in DOMAIN color \cup {v} |-> IF w = v THEN c ELSE color[w]]
  /\ UNCHANGED <<range, reserved>>

Next == Prepare \/ \E v \in DOMAIN range, c \in Color : Give(v, c)

Spec == Init /\ [][Next]_vars
=============================================================================
