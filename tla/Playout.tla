------------------------------ MODULE Playout ------------------------------
(***************************************************************************)
(* What the receiving side of the audio path promises to the codec: frames *)
(* are handed over one at a time, each at most once, in the order of their *)
(* audio sequence numbers.  Frames may be missing; none is late or twice.  *)
(***************************************************************************)
EXTENDS Integers

CONSTANT Frames  \* the sequence numbers of the frames the sender numbers

VARIABLES
  last,   \* the last frame handed over, -1 before the first
  turn    \* flips with every frame handed over

vars == <<last, turn>>

Init == last = -1 /\ turn = 0

\* The next frame handed over lies after every earlier one.
Deliver == \E f \in Frames : f > last /\ last' = f /\ turn' = 1 - turn

Next == Deliver

Spec == Init /\ [][Next]_vars
=============================================================================
