------------------------------ MODULE MCProbe ------------------------------
(* Two cameras with a frame on the interval and one off it, two objects,   *)
(* and a queue that the broker thread empties at any speed.                *)
EXTENDS Probe

CONSTANTS o1, o2, b1, b2, b3

TwoPads == {0, 1}
TwoObjects == {o1, o2}
ThreeBlocks == {b1, b2, b3}
=============================================================================
