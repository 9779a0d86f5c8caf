----------------------------- MODULE YoloPlugin -----------------------------
(***************************************************************************)
(* YoloLayer, the TensorRT plugin that turns the inputs of the detection   *)
(* heads into boxes, scores and classes: how it is written into an engine  *)
(* file and read back, and which words its kernels read and write.         *)
(*                                                                         *)
(* A plugin is a record of its members.  The file is a sequence of 4-byte  *)
(* words, one per number; m_OutputSize is a uint64_t and takes two.        *)
(***************************************************************************)
EXTENDS Lists, FiniteSetsExt

----------------------------------------------------------------------------
(* serialize and the constructor from a buffer                             *)

HeadWords(t) ==
    <<t.gridSizeX, t.gridSizeY, t.numBBoxes, t.scaleXY>>
      \o <<Len(t.anchors)>> \o t.anchors \o <<Len(t.mask)>> \o t.mask

\* YoloLayer::serialize.  Sizes of outputs are below 2^32 here.
SerializedWords(p) ==
    <<p.netWidth, p.netHeight, p.numClasses, p.newCoords, p.outputSize, 0>>
      \o <<Len(p.heads)>> \o Concatenated([k \in DOMAIN p.heads |-> HeadWords(p.heads[k])])

\* YoloLayer::getSerializationSize, in words.
SerializationSize(p) ==
    7 + Total([k \in DOMAIN p.heads |->
                 6 + Len(p.heads[k].anchors) + Len(p.heads[k].mask)])

\* The buffer TensorRT provides: what does not fit is not in the file.
Serialized(p) ==
    SubSeq(SerializedWords(p), 1, Min({SerializationSize(p), Len(SerializedWords(p))}))

\* Words beyond the end read as 0 here.
Word(words, k) == IF k \in DOMAIN words THEN words[k] ELSE 0
Slice(words, first, n) == [k \in 1..n |-> Word(words, first + k - 1)]

\* The head whose words begin at k.
HeadAt(words, k) ==
    LET anchors == Word(words, k + 4)
        mask == Word(words, k + 5 + anchors)
    IN  [gridSizeX |-> Word(words, k), gridSizeY |-> Word(words, k + 1),
         numBBoxes |-> Word(words, k + 2), scaleXY |-> Word(words, k + 3),
         anchors |-> Slice(words, k + 5, anchors),
         mask |-> Slice(words, k + 6 + anchors, mask)]

\* Where the read pointer is after k heads.
HeadStarts(words) ==
    LET at[k \in 0..Word(words, 7)] ==
          IF k = 0 THEN 8
          ELSE at[k - 1] + Len(HeadWords(HeadAt(words, at[k - 1])))
    IN  at

\* YoloLayer::YoloLayer(data, length).
Deserialized(words) ==
    [netWidth |-> Word(words, 1), netHeight |-> Word(words, 2),
     numClasses |-> Word(words, 3), newCoords |-> Word(words, 4),
     outputSize |-> Word(words, 5),
     heads |-> [k \in 1..Word(words, 7) |-> HeadAt(words, HeadStarts(words)[k - 1])]]

----------------------------------------------------------------------------
(* The kernels                                                             *)

\* Threads of a launch along an extent of n with blocks of the given size,
\* those beyond the extent returned at once.
Launched(n, perBlock) == 0..(perBlock * (n \div perBlock + 1) - 1) \intersect 0..(n - 1)

Threads(t) ==
    [x : Launched(t.gridSizeX, 16), y : Launched(t.gridSizeY, 16),
     z : Launched(t.numBBoxes, 4)]

Cells(t) == t.gridSizeX * t.gridSizeY

\* inputSize: the values of one image in the head's input.
InputSize(p, t) == t.numBBoxes * (4 + 1 + p.numClasses) * Cells(t)

\* The word of the head's input that a thread reads as value v of its box
\* (0..3 the box, 4 the objectness, then the classes).
InputIndex(p, t, batch, th, v) ==
    batch * InputSize(p, t)
      + th.y * t.gridSizeX + th.x + Cells(t) * (th.z * (5 + p.numClasses) + v)

\* The first of the two anchors it takes: by the mask in a [yolo] head, by
\* the box in a [region] head.
AnchorIndex(t, th) == IF t.mask # <<>> THEN 2 * t.mask[th.z + 1] ELSE 2 * th.z

\* Mutant: the boxes of a cell are not kept apart.
SlotWithoutBox(p, t, last, batch, th) ==
    batch * p.outputSize + th.y * t.gridSizeY + th.x + last

\* count: the slot of the outputs that a thread writes.  Rows are
\* gridSizeY slots apart.
Slot(p, t, last, batch, th) ==
    batch * p.outputSize
      + th.z * t.gridSizeX * t.gridSizeY + th.y * t.gridSizeY + th.x + last

=============================================================================
