--------------------------- MODULE DetectionFeed ---------------------------
(***************************************************************************)
(* What perception promises its MQTT broker, with no thread, lock, queue   *)
(* or network in it: detections are accepted for sending one at a time, in *)
(* the order in which they were made, each once and none before it was     *)
(* made.  ObjectQueue.tla is shown to implement this specification.        *)
(***************************************************************************)
EXTENDS Naturals, Sequences

VARIABLES
    made,           \* detections queued so far; a detection is its rank
    sent            \* detections accepted for sending, in order

vars == <<made, sent>>

Init == made = 0 /\ sent = <<>>

Make ==
    /\ made' = made + 1
    /\ UNCHANGED sent

Send ==
    /\ Len(sent) < made
    /\ sent' = Append(sent, Len(sent) + 1)
    /\ UNCHANGED made

Next == Make \/ Send

Spec == Init /\ [][Next]_vars

=============================================================================
