------------------------------ MODULE YoloBoxes ------------------------------
(***************************************************************************)
(* The parsers of the engine's outputs: NvDsInferParseYolo and             *)
(* NvDsInferParseYoloE on the CPU, NvDsInferParseYoloCuda and              *)
(* NvDsInferParseYoloECuda on the GPU.  The configuration names one.       *)
(*                                                                         *)
(* The outputs of an image are a sequence of records: box is four          *)
(* coordinates, score and class one number each.  Coordinates are in half  *)
(* pixels and the sizes of boxes are even, so that half a size is a        *)
(* number.                                                                 *)
(***************************************************************************)
EXTENDS Lists, FiniteSetsExt

CONSTANTS
    NetWidth, NetHeight,    \* of the network's input
    Threshold               \* perClassPreclusterThreshold, by class

\* A threshold for each class, numbered from 0; there is one class at least.
ASSUME BoxesAssumption ==
    /\ NetWidth \in Nat /\ NetHeight \in Nat
    /\ Cardinality(DOMAIN Threshold) \in Nat \ {0}
    /\ Threshold \in [0..(Cardinality(DOMAIN Threshold) - 1) -> Int]

Output == [box : Int \X Int \X Int \X Int, score : Int, class : Int]

Pixel == 2

clamp(val, minVal, maxVal) == Min({maxVal, Max({minVal, val})})

\* x1, y1, x2, y2: from the centre and the size, or as they are when the
\* network gives corners (the E functions).
Corners(box, corners) ==
    IF corners THEN box
    ELSE LET x1 == box[1] - box[3] \div 2
             y1 == box[2] - box[4] \div 2
         IN  <<x1, y1, x1 + box[3], y1 + box[4]>>

\* convertBBox, and the same lines of the kernels.
Box(o, corners) ==
    LET c == Corners(o.box, corners)
        x1 == clamp(c[1], 0, NetWidth)
        y1 == clamp(c[2], 0, NetHeight)
    IN  [left |-> x1, top |-> y1,
         width |-> clamp(clamp(c[3], 0, NetWidth) - x1, 0, NetWidth),
         height |-> clamp(clamp(c[4], 0, NetHeight) - y1, 0, NetHeight),
         detectionConfidence |-> o.score, classId |-> o.class]

Wide(o) == o.width >= Pixel /\ o.height >= Pixel

WideOnes(list) == Kept(list, {k \in DOMAIN list : Wide(list[k])})

\* decodeTensorYolo, decodeTensorYoloE and addBBoxProposal.  A class without
\* a threshold is looked up outside the vector, and wild are those outputs
\* whose score is not below what is found there.
DecodeTensor(outputs, corners, wild) ==
    LET all == [b \in DOMAIN outputs |-> Box(outputs[b], corners)]
        reached(b) == IF outputs[b].class \in DOMAIN Threshold
                      THEN outputs[b].score >= Threshold[outputs[b].class]
                      ELSE b \in wild
    IN  Kept(all, {b \in DOMAIN outputs : reached(b) /\ Wide(all[b])})

\* Mutant: the largest threshold.
MaxThreshold == Max({Threshold[c] : c \in DOMAIN Threshold})

\* minPreclusterThreshold: one for all classes.
MinThreshold == Min({Threshold[c] : c \in DOMAIN Threshold})

\* What the thrust vector holds before the kernel.
NoBox == [left |-> 0, top |-> 0, width |-> 0, height |-> 0,
          detectionConfidence |-> 0, classId |-> 0]

\* decodeTensorYoloCuda and decodeTensorYoloECuda, one thread.
Decoded(o, corners) == IF o.score < MinThreshold THEN NoBox ELSE Box(o, corners)

\* The CUDA parsers: one entry per output.
DecodeTensorCuda(outputs, corners) ==
    [b \in DOMAIN outputs |-> Decoded(outputs[b], corners)]

\* nvinfer, before it clusters: an unknown class (-1 is a large unsigned one)
\* and a score below the class' threshold are dropped.
Counted(o) ==
    o.classId \in DOMAIN Threshold /\ o.detectionConfidence >= Threshold[o.classId]

Preclustered(objects) == Kept(objects, {k \in DOMAIN objects : Counted(objects[k])})

=============================================================================
