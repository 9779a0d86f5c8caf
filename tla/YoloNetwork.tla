----------------------------- MODULE YoloNetwork -----------------------------
(***************************************************************************)
(* How Yolo builds a TensorRT network from a Darknet cfg file and a file   *)
(* of weights: parseConfigBlocks collects the detection heads,             *)
(* buildYoloNetwork adds one layer per block and reads its weights, and at *)
(* the end everything read must be everything in the file.                 *)
(*                                                                         *)
(* cfg is the sequence of the file's blocks; cfg[i + 1] is block i.  A     *)
(* network under construction is a record; what an assertion or TensorRT   *)
(* refuses has no successor.                                               *)
(***************************************************************************)
EXTENDS YoloLayers

HeadPlaces(cfg) == {k \in DOMAIN cfg : cfg[k].type \in YoloHead}

Heads(cfg) == Kept(cfg, HeadPlaces(cfg))

\* Mutant: the grid of a head is read from the tensor's dimensions in the
\* other order.
GridTransposed(d) == [x |-> d[3], y |-> d[4]]

\* gridSizeY = d[2] and gridSizeX = d[3] of the code's zero-based array.
Grid(d) == [x |-> d[4], y |-> d[3]]

----------------------------------------------------------------------------
(* parseConfigBlocks                                                       *)

\* The keys that parseConfigBlocks asserts.
ConfigIsComplete(cfg) ==
    \A k \in DOMAIN cfg :
      /\ cfg[k].type = "net" => {"height", "width", "channels"} \subseteq DOMAIN cfg[k]
      /\ cfg[k].type \in YoloHead => {"num", "classes", "anchors"} \subseteq DOMAIN cfg[k]

\* TensorInfo of a head; its grid is not known yet.
TensorInfo(b) ==
    LET mask == Value(b, "mask", <<>>)
    IN  [gridSizeX |-> 0, gridSizeY |-> 0,
         numBBoxes |-> IF mask # <<>> THEN Len(mask) ELSE b.num,
         scaleXY |-> Value(b, "scale_x_y", 1),
         anchors |-> b.anchors, mask |-> mask]

\* m_NumClasses and m_NewCoords: every head overwrites them.
NumClasses(cfg) == IF Heads(cfg) = <<>> THEN 0 ELSE Last(Heads(cfg)).classes

NewCoords(cfg) ==
    LET given == Kept(cfg, {k \in HeadPlaces(cfg) : Has(cfg[k], "new_coords")})
    IN  IF given = <<>> THEN 0 ELSE Last(given).new_coords

\* The network before its first block: uses holds, for a block that refers to
\* others, <<block, the reference as written, the layer whose output it got>>.
EmptyNetwork(cfg) ==
    [block |-> 0, tensors |-> <<>>, layers |-> <<>>, uses |-> {},
     weightPtr |-> 0, inputs |-> <<>>,
     heads |-> [k \in DOMAIN Heads(cfg) |-> TensorInfo(Heads(cfg)[k])]]

----------------------------------------------------------------------------
(* buildYoloNetwork                                                        *)

InputDims(cfg) == <<1, cfg[1].channels, cfg[1].height, cfg[1].width>>

Previous(cfg, net) == IF net.tensors = <<>> THEN InputDims(cfg) ELSE Last(net.tensors)

Written(b) == IF b.type \in FromLayer THEN <<b.from>>
              ELSE IF b.type = "route" THEN b.layers ELSE <<>>

\* The tensors the next block refers to.
ReferredTensors(cfg, net) ==
    LET refs == Refs(cfg[net.block + 1], net.block, Len(net.tensors))
    IN  [r \in DOMAIN refs |-> net.tensors[refs[r] + 1]]

NextSlices(cfg, net) ==
    Slices(cfg[net.block + 1], Previous(cfg, net), ReferredTensors(cfg, net))

\* One turn of the loop for a block that makes a tensor of dimensions d.
WithTensor(cfg, net, d) ==
    LET i == net.block
        b == cfg[i + 1]
        refs == Refs(b, i, Len(net.tensors))
        k == Len(net.inputs) + 1
        grown == [net EXCEPT
          !.block = i + 1,
          !.tensors = Append(@, d),
          !.layers = Append(@, i - 1),
          !.uses = @ \union
            {<<i, Written(b)[r], net.layers[refs[r] + 1]>> : r \in DOMAIN refs},
          !.weightPtr = @ + Weights(b, Previous(cfg, net)[2])]
    IN  IF b.type \notin YoloHead THEN grown
        ELSE [grown EXCEPT
          !.inputs = Append(@, d),
          !.heads[k].gridSizeX = Grid(d).x,
          !.heads[k].gridSizeY = Grid(d).y]

\* The networks the next block may lead to.
WithBlock(cfg, net) ==
    LET i == net.block
        b == cfg[i + 1]
    IN  IF ~Supported(b) \/ ~RefsInRange(b, i, Len(net.tensors)) THEN {}
        ELSE IF b.type \in NoTensor THEN {[net EXCEPT !.block = i + 1]}
        ELSE {WithTensor(cfg, net, d) :
                d \in LayerDims(b, Previous(cfg, net), ReferredTensors(cfg, net))}

\* The assertions of the reorg3d layer read a pointer that was never set:
\* they may fail.
MayAbort(cfg, net) == WithBlock(cfg, net) = {} \/ cfg[net.block + 1].type = "reorg3d"

\* After the last block: all weights are used, and there is a head for the
\* plugin to take.
Complete(cfg, net, weights) ==
    /\ net.block = Len(cfg)
    /\ net.weightPtr = weights
    /\ net.inputs # <<>>

\* The slots of the plugin's outputs.
OutputSize(heads) ==
    Total([k \in DOMAIN heads |->
             heads[k].numBBoxes * heads[k].gridSizeY * heads[k].gridSizeX])

----------------------------------------------------------------------------
(* What the file means                                                     *)

\* Darknet counts every section after [net], those without an output too.
MeantLayer(i, reference) == IF reference < 0 THEN i - 1 + reference ELSE reference

\* A route joins its tensors along the channels, axis 0 of the file, unless it
\* names another axis.
JoinsChannels(b) == Value(b, "axis", 0) \in {0, -4}

\* The channels of block k's output, given those of the blocks before it and
\* the references as Darknet reads them.
MeantOutput(cfg, channels, k) ==
    LET b == cfg[k + 1]
        input == channels[k - 1]
        of(r) == channels[MeantLayer(k, Written(b)[r]) + 1]
        joined == IF JoinsChannels(b) THEN Total([r \in DOMAIN b.layers |-> of(r)])
                                      ELSE of(1)
    IN  IF k = 0 THEN b.channels
        ELSE IF b.type \in {"convolutional", "deconvolutional"} \union Implicit
             THEN b.filters
        ELSE IF b.type \in Channels \union {"sam"} THEN Max({input, of(1)})
        ELSE IF b.type = "reorg" THEN input * Value(b, "stride", 1) * Value(b, "stride", 1)
        ELSE IF b.type = "route" THEN joined \div Value(b, "groups", 1)
        ELSE input

MeantChannels(cfg) ==
    LET channels[k \in 0..(Len(cfg) - 1)] == MeantOutput(cfg, channels, k)
    IN  channels

\* The weights the layers need when each gets the input that is meant.
MeantWeights(cfg) ==
    Total([k \in 1..(Len(cfg) - 1) |->
        Weights(cfg[k + 1], MeantChannels(cfg)[k - 1])])

\* A route counts the tensors made, so a dropout before it shifts what it
\* refers to.
RouteAfterDropout(cfg) ==
    \E j, k \in DOMAIN cfg : j < k /\ cfg[j].type = "dropout" /\ cfg[k].type = "route"

\* A head's input has a channel for each value of each of its boxes, the
\* heads agree on the classes and the batch, and each mask names pairs of
\* anchors.
HeadsFit(cfg, inputs) ==
    \A k \in DOMAIN Heads(cfg) :
      LET b == Heads(cfg)[k]
      IN  /\ inputs[k][1] = inputs[1][1]
          /\ inputs[k][2] = TensorInfo(b).numBBoxes * (5 + b.classes)
          /\ b.classes = NumClasses(cfg)
          /\ Len(b.anchors) = 2 * b.num
          /\ \A z \in DOMAIN TensorInfo(b).mask : b.mask[z] \in 0..(b.num - 1)

=============================================================================
