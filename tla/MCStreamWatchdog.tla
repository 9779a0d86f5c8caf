-------------------------- MODULE MCStreamWatchdog --------------------------
(***************************************************************************)
(* Instances of StreamWatchdog for TLC.                                    *)
(***************************************************************************)
EXTENDS StreamWatchdog

InOrder == [k \in 0..(N - 1) |-> k]
Swapped == [k \in 0..1 |-> 1 - k]
NoFaults == {}
AnyFault == {"create", "link", "delete", "play", "async", "bus"}
SlowStart == {"async", "play"}

=============================================================================
