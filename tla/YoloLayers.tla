----------------------------- MODULE YoloLayers -----------------------------
(***************************************************************************)
(* One layer of a Darknet network as the functions under layers/ give it   *)
(* to TensorRT: which tensors a block of the cfg file refers to, how many  *)
(* weights it reads, and the dimensions of its output.                     *)
(*                                                                         *)
(* A block is a record whose fields are the keys the file gives it, as the *)
(* maps of parseConfigFile.  Dimensions are <<n, c, h, w>>, where n counts *)
(* batches of the input.  Values of weights and names of layers are left   *)
(* out.                                                                    *)
(***************************************************************************)
EXTENDS Lists, FiniteSetsExt, SequencesExt

Has(b, key) == key \in DOMAIN b
Value(b, key, default) == IF Has(b, key) THEN b[key] ELSE default

\* The values of keys as stoul, stoi and the loops over lists convert them.
IsBlock(b) ==
    /\ \A key \in {"channels", "height", "width", "num", "classes", "new_coords"}
                  \intersect DOMAIN b : b[key] \in Nat
    /\ \A key \in {"filters", "size", "stride", "pad", "groups", "group_id", "from",
                  "axis", "batch_normalize", "bias", "scale_x_y"}
                  \intersect DOMAIN b : b[key] \in Int
    /\ \A key \in {"layers", "anchors", "mask"} \intersect DOMAIN b : b[key] \in Seq(Int)

\* Types of blocks, as buildYoloNetwork tells them apart.
Convolution == {"conv", "convolutional"}
Implicit == {"implicit", "implicit_add", "implicit_mul"}
Channels == {"shift_channels", "control_channels"}
FromLayer == Channels \union {"shortcut", "sam"}
MaxPool == {"max", "maxpool"}
AvgPool == {"avg", "avgpool"}
Reorg == {"reorg", "reorg3d"}
YoloHead == {"yolo", "region"}
NoTensor == {"net", "dropout"}

Activation ==
    {"linear", "relu", "sigmoid", "logistic", "tanh", "leaky", "softplus",
     "mish", "silu", "swish", "hardsigmoid", "hardswish"}

\* The keys a layer asserts or looks up with at().
Required(b) ==
    CASE b.type \in Convolution -> {"filters", "pad", "size", "stride", "activation"}
      [] b.type = "deconvolutional" -> {"filters", "pad", "size", "stride"}
      [] b.type = "batchnorm" -> {"filters", "activation"}
      [] b.type \in Implicit -> {"filters"}
      [] b.type \in FromLayer -> {"from"}
      [] b.type = "route" -> {"layers"} \union
                             (IF Has(b, "groups") THEN {"group_id"} ELSE {})
      [] b.type = "upsample" -> {"stride"}
      [] b.type \in MaxPool -> {"size", "stride"}
      [] OTHER -> {}

\* A dimension is divided by a stride or a number of groups: 0 ends the
\* process, and TensorRT refuses what a negative one gives.
Divides(b) == \A key \in {"stride", "groups"} \intersect DOMAIN b : b[key] > 0

\* convolutionalLayer asserts a type that excludes the builder's "conv".
Supported(b) ==
    /\ b.type \in {"convolutional", "deconvolutional", "batchnorm", "route", "upsample"}
                    \union Implicit \union FromLayer \union MaxPool \union AvgPool
                    \union Reorg \union YoloHead \union NoTensor
    /\ Required(b) \subseteq DOMAIN b
    /\ Value(b, "activation", "linear") \in Activation
    /\ Divides(b)

----------------------------------------------------------------------------
(* The tensors a block refers to                                           *)

\* A "from" is the number of a layer, or relative to block i; block 0 is
\* [net], so layer k is block k + 1.
FromIndex(b, i) == IF b.from > 0 THEN b.from ELSE i + b.from - 1

\* Mutant: a relative reference counts the block itself.
RefsOffByOne(b, i, count) ==
    CASE b.type \in FromLayer -> <<FromIndex(b, i)>>
      [] b.type = "route" -> [r \in DOMAIN b.layers |->
            IF b.layers[r] < 0 THEN count + b.layers[r] - 1 ELSE b.layers[r]]
      [] OTHER -> <<>>

\* Indices into the tensors made so far.
Refs(b, i, count) ==
    CASE b.type \in FromLayer -> <<FromIndex(b, i)>>
      [] b.type = "route" -> [r \in DOMAIN b.layers |->
            IF b.layers[r] < 0 THEN count + b.layers[r] ELSE b.layers[r]]
      [] OTHER -> <<>>

\* The assertions on them.  Those on a "from" compare unsigned values: a
\* negative one is too large.
RefsInRange(b, i, count) ==
    CASE b.type \in FromLayer ->
            /\ i >= 2 /\ i - 2 < count
            /\ FromIndex(b, i) \in 0..(count - 1)
            /\ FromIndex(b, i) < i - 2
      [] b.type = "route" ->
            /\ b.layers # <<>>
            /\ \A r \in DOMAIN b.layers : Refs(b, i, count)[r] \in 0..(count - 1)
      [] OTHER -> TRUE

----------------------------------------------------------------------------
(* Weights                                                                 *)

\* A convolution has a bias unless it is normalised or says otherwise.
HasBias(b) ==
    Value(b, "bias", IF b.type \in Convolution /\ Has(b, "batch_normalize")
                     THEN 0 ELSE b.filters) # 0

Kernel(b, c) == (b.filters * c * b.size * b.size) \div Value(b, "groups", 1)

\* How far a layer with c input channels moves weightPtr.
Weights(b, c) ==
    CASE b.type \in Convolution \union {"deconvolutional"} ->
            (IF b.type \in Convolution /\ Value(b, "batch_normalize", 0) = 1
             THEN 4 * b.filters ELSE 0)
            + (IF HasBias(b) THEN b.filters ELSE 0)
            + Kernel(b, c)
      [] b.type = "batchnorm" -> 4 * b.filters
      [] b.type \in Implicit -> b.filters
      [] OTHER -> 0

----------------------------------------------------------------------------
(* Dimensions                                                              *)

\* Positions of a window along an extent padded by pad in all.
Window(extent, size, stride, pad) == (extent + pad - size) \div stride + 1

\* convolutions and max pooling by an odd window pad both sides alike.
SamePadding(b) == 2 * ((b.size - 1) \div 2)

MaxPoolPadding(b) == IF b.size = 2 /\ b.stride = 1 THEN 1 ELSE SamePadding(b)

\* One operator per layer: the set of the dimensions its output may have, with
\* no element when TensorRT refuses the layer.
ConvolutionalDims(b, d) ==
    {<<d[1], b.filters>> \o
       [k \in 1..2 |-> Window(d[k + 2], b.size, b.stride,
                              IF b.pad # 0 THEN SamePadding(b) ELSE 0)]}

DeconvolutionalDims(b, d) ==
    {<<d[1], b.filters>> \o
       [k \in 1..2 |-> (d[k + 2] - 1) * b.stride + b.size
                         - (IF b.pad # 0 THEN SamePadding(b) ELSE 0)]}

\* A scale per channel.
BatchnormDims(b, d) == {e \in {d} : b.filters = d[2]}

\* A constant, whatever the layer before it gives.
ImplicitDims(b) == {<<1, b.filters, 1, 1>>}

\* TensorRT broadcasts a dimension of 1 in an elementwise operation.
ElementWiseDims(d, e) ==
    IF \A k \in 1..4 : d[k] = e[k] \/ d[k] = 1 \/ e[k] = 1
    THEN {[k \in 1..4 |-> Max({d[k], e[k]})]} ELSE {}

\* sliceLayer: the part of the given size lies within the tensor.
SliceFits(d, start, size) == \A k \in 1..4 : start[k] >= 0 /\ start[k] + size[k] <= d[k]

\* The layers that call sliceLayer.
Slices(b, d, ds) ==
    \/ b.type = "shortcut" /\ SubSeq(d, 2, 4) # SubSeq(ds[1], 2, 4)
    \/ b.type = "route" /\ Has(b, "groups")
    \/ b.type = "reorg3d"

\* A tensor of another volume is cut down to the input's.
ShortcutDims(d, e) ==
    IF SubSeq(d, 2, 4) = SubSeq(e, 2, 4) THEN ElementWiseDims(d, e)
    ELSE {f \in {d} : SliceFits(e, <<0, 0, 0, 0>>, d)}

\* One tensor as it is, or several along an axis.
ConcatDims(b, ds) ==
    LET a == 1 + Value(b, "axis", 0)
        axis == (IF a < 0 THEN a + 4 ELSE a) + 1
    IN  IF Len(ds) = 1 THEN {ds[1]}
        ELSE IF \A r \in DOMAIN ds, k \in 1..4 \ {axis} : ds[r][k] = ds[1][k]
        THEN {[ds[1] EXCEPT ![axis] = Total([r \in DOMAIN ds |-> ds[r][axis]])]}
        ELSE {}

\* The part of a group among the channels.
GroupDims(b, d) ==
    LET channels == d[2] \div b.groups
        size == [d EXCEPT ![2] = channels]
    IN  {e \in {size} : SliceFits(d, <<0, channels * b.group_id, 0, 0>>, size)}

RouteDims(b, ds) ==
    UNION {IF Has(b, "groups") THEN GroupDims(b, d) ELSE {d} : d \in ConcatDims(b, ds)}

UpsampleDims(b, d) == {<<d[1], d[2], d[3] * b.stride, d[4] * b.stride>>}

\* The window of an average pooling is channels x height.
PoolingDims(b, d) ==
    IF b.type \in AvgPool
    THEN {<<d[1], d[2], Window(d[3], d[2], 1, 0), Window(d[4], d[3], 1, 0)>>}
    ELSE {<<d[1], d[2]>> \o
            [k \in 1..2 |-> Window(d[k + 2], b.size, b.stride, MaxPoolPadding(b))]}

\* reorg gives each channel's stride x stride phases as channels; reorg3d
\* gives four of them as batches (it joins them along axis 0).
ReorgDims(b, d) ==
    LET s == Value(b, "stride", 1)
    IN  IF b.type = "reorg3d"
        THEN {<<4 * d[1], d[2], d[3] \div s, d[4] \div s>>}
        ELSE {e \in {<<d[1], d[2] * s * s, d[3] \div s, d[4] \div s>>} :
                d[2] % (s * s) = 0 /\ d[3] % s = 0 /\ d[4] % s = 0}

\* What the layer of a block gives for input d and the tensors ds it refers to.
Results(b, d, ds) ==
    CASE b.type = "convolutional" -> ConvolutionalDims(b, d)
      [] b.type = "deconvolutional" -> DeconvolutionalDims(b, d)
      [] b.type = "batchnorm" -> BatchnormDims(b, d)
      [] b.type \in Implicit -> ImplicitDims(b)
      [] b.type \in Channels \union {"sam"} -> ElementWiseDims(d, ds[1])
      [] b.type = "shortcut" -> ShortcutDims(d, ds[1])
      [] b.type = "route" -> RouteDims(b, ds)
      [] b.type = "upsample" -> UpsampleDims(b, d)
      [] b.type \in MaxPool \union AvgPool -> PoolingDims(b, d)
      [] b.type \in Reorg -> ReorgDims(b, d)
      [] OTHER -> {d}

\* TensorRT refuses a tensor without elements.
LayerDims(b, d, ds) == {e \in Results(b, d, ds) : \A k \in 1..4 : e[k] > 0}

=============================================================================
