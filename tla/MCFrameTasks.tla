---------------------------- MODULE MCFrameTasks ----------------------------
(***************************************************************************)
(* Instances of FrameTasks for TLC.                                        *)
(***************************************************************************)
EXTENDS FrameTasks, TLC

CONSTANTS b1, b2, w1, w2    \* buffers and workers, interchangeable

TwoBuffers == {b1, b2}
TwoWorkers == {w1, w2}
OneBuffer == {b1}
OneWorker == {w1}
Interchangeable == Permutations(TwoBuffers) \union Permutations(TwoWorkers)

=============================================================================
