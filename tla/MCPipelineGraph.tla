-------------------------- MODULE MCPipelineGraph --------------------------
(***************************************************************************)
(* The instance of PerceptionStart for TLC: models that meet each layer,   *)
(* each assertion and each way out of the engine's construction.  What the *)
(* engine does and what GStreamer refuses are explored apart.              *)
(***************************************************************************)
EXTENDS PerceptionStart

Net(channels, height, width) ==
    [type |-> "net", channels |-> channels, height |-> height, width |-> width]

Conv(filters, size, stride) ==
    [type |-> "convolutional", filters |-> filters, size |-> size,
     stride |-> stride, pad |-> 1, activation |-> "leaky", batch_normalize |-> 1]

\* The convolution before a head.
Final(boxes, classes) ==
    [type |-> "convolutional", filters |-> boxes * (5 + classes), size |-> 1,
     stride |-> 1, pad |-> 1, activation |-> "linear"]

Deconv(filters) ==
    [type |-> "deconvolutional", filters |-> filters, size |-> 2, stride |-> 2,
     pad |-> 0, groups |-> 2]

From(type, from) == [type |-> type, from |-> from, activation |-> "linear"]
Route(layers) == [type |-> "route", layers |-> layers]
Group(layers, groups, id) ==
    [type |-> "route", layers |-> layers, groups |-> groups, group_id |-> id]
Pool(type, size, stride) == [type |-> type, size |-> size, stride |-> stride]
Dropout == [type |-> "dropout"]

Yolo(num, mask, classes) ==
    [type |-> "yolo", num |-> num, classes |-> classes, mask |-> mask,
     anchors |-> [k \in 1..(2 * num) |-> 10 + k]]

Region(num, classes) ==
    [type |-> "region", num |-> num, classes |-> classes,
     anchors |-> [k \in 1..(2 * num) |-> 10 + k]]

\* A network with one head of two boxes after some blocks.
Around(blocks, classes) ==
    <<Net(1, 4, 4)>> \o blocks \o <<Final(2, classes), Yolo(3, <<0, 2>>, classes)>>

\* Networks that are built.
Sound == {
    Around(<<Conv(2, 3, 2)>>, 1),
    Around(<<Conv(2, 3, 1), Conv(2, 1, 1), From("shortcut", -2), Conv(2, 3, 2)>>, 1),
    Around(<<Conv(2, 3, 1), Conv(2, 3, 2), From("shortcut", -2)>>, 1),
    Around(<<Conv(2, 3, 1), Conv(2, 3, 1), From("shift_channels", -2),
             From("control_channels", 1), From("sam", -3), Pool("maxpool", 2, 2)>>, 1),
    Around(<<Conv(2, 3, 2), [type |-> "implicit_add", filters |-> 2],
             From("shortcut", -2)>>, 1),
    Around(<<Conv(2, 3, 2), Dropout, Conv(2, 1, 1)>>, 1),
    Around(<<Conv(4, 3, 2), Dropout, Route(<<-1>>), Group(<<-1>>, 2, 1)>>, 1),
    Around(<<Conv(4, 3, 2), Group(<<-1>>, 2, 1), Route(<<-1, 0>>),
             Pool("maxpool", 2, 1), Deconv(2), Pool("max", 3, 2)>>, 1),
    Around(<<Conv(4, 3, 1), [type |-> "reorg", stride |-> 2], Conv(1, 1, 1),
             [type |-> "batchnorm", filters |-> 1, activation |-> "mish"]>>, 1),
    Around(<<Conv(1, 3, 1), [type |-> "avgpool"]>>, 1),
    Around(<<Conv(2, 3, 2), [type |-> "reorg"],
             [type |-> "route", layers |-> <<-1, -2>>, axis |-> 1]>>, 1),
    \* two heads, with the features of one used by the other
    <<Net(1, 4, 4), Conv(2, 3, 2), Conv(2, 3, 2), Final(1, 1), Yolo(2, <<1>>, 1),
      Route(<<-3>>), [type |-> "upsample", stride |-> 2], Route(<<-1, 0>>),
      Final(1, 1), Yolo(2, <<0>>, 1)>>,
    \* heads that disagree on the classes
    <<Net(1, 2, 2), Conv(2, 3, 1), Final(1, 1), Yolo(2, <<1>>, 1),
      Route(<<0>>), Final(1, 2), Yolo(2, <<0>>, 2)>>,
    \* a head of another layout, and an image that is not square
    <<Net(1, 2, 4), Final(2, 1), Region(2, 1)>>,
    \* a grid of more than one block of threads
    <<Net(1, 2, 17), Final(1, 0), Yolo(1, <<0>>, 0)>>,
    \* a head with too few channels
    <<Net(1, 2, 2), Final(1, 1), Yolo(3, <<0, 2>>, 1)>> }

\* Networks that reorg3d may build.
Batches == {
    <<Net(1, 4, 4), Conv(1, 1, 1), [type |-> "reorg3d", stride |-> 2], Final(1, 1),
      Yolo(1, <<0>>, 1)>> }

\* Networks that some assertion refuses.
Refusable == {
    <<[type |-> "net", width |-> 2, height |-> 2], Final(1, 1), Yolo(1, <<0>>, 1)>>,
    <<Net(1, 2, 2), Conv(2, 1, 1)>>,
    <<Net(1, 2, 2), [Conv(2, 1, 1) EXCEPT !.type = "conv"], Yolo(1, <<0>>, 1)>>,
    <<Net(1, 2, 2), [type |-> "lstm"], Yolo(1, <<0>>, 1)>>,
    Around(<<Conv(2, 3, 0)>>, 1),
    Around(<<Conv(2, 3, 1), Dropout, Conv(2, 3, 1), From("shortcut", -3)>>, 1),
    Around(<<Conv(2, 3, 1), From("shortcut", -1)>>, 1),
    Around(<<Conv(2, 3, 1), Dropout, Route(<<-2>>)>>, 1),
    Around(<<Conv(2, 3, 2), Conv(2, 3, 2), Route(<<-1, -2>>)>>, 1),
    Around(<<Conv(3, 3, 1), [type |-> "batchnorm", filters |-> 2,
                             activation |-> "relu"]>>, 1) }

DarknetModel(cfg, weights) ==
    [type |-> "darknet", present |-> TRUE, mode |-> "FP32", calibration |-> "none",
     cfg |-> cfg, weights |-> weights]

OnnxModel(present, mode, calibration) ==
    [type |-> "onnx", present |-> present, mode |-> mode,
     calibration |-> calibration, cfg |-> <<>>, weights |-> 0]

MCModels ==
    {DarknetModel(cfg, MeantWeights(cfg)) : cfg \in Sound \union Batches}
      \union {DarknetModel(cfg, 8) : cfg \in Refusable}
      \union {DarknetModel(Around(<<Conv(2, 3, 2)>>, 1),
                           MeantWeights(Around(<<Conv(2, 3, 2)>>, 1)) + n) : n \in {-1, 1}}
      \union {[DarknetModel(Around(<<Conv(2, 3, 2)>>, 1), 0) EXCEPT !.calibration = c,
                 !.mode = "INT8",
                 !.weights = MeantWeights(Around(<<Conv(2, 3, 2)>>, 1))] :
                c \in {"none", "missing"}}
      \union {DarknetModel(Around(<<>>, 1), 0)}
      \union {OnnxModel(TRUE, "FP16", "none"), OnnxModel(FALSE, "FP16", "none"),
              OnnxModel(TRUE, "INT8", "missing"), OnnxModel(TRUE, "INT8", "given")}

\* Models that are built, missing, without a calibrator and of Darknet.
FewModels ==
    {OnnxModel(TRUE, "FP16", "none"), OnnxModel(FALSE, "FP16", "none"),
     OnnxModel(TRUE, "INT8", "missing"),
     DarknetModel(Around(<<Conv(2, 3, 2)>>, 1), MeantWeights(Around(<<Conv(2, 3, 2)>>, 1)))}

\* Boxes inside, across an edge, outside, of exactly a pixel and thinner once
\* clipped; scores below, between and above the thresholds.
Boxes == {<<8, 8, 4, 6>>, <<0, 2, 8, 14>>, <<-10, 8, 4, 4>>, <<8, 8, 2, 2>>, <<-1, 8, 4, 4>>}

Out(box, score, class) == [box |-> box, score |-> score, class |-> class]

MCOutputs ==
    {<<Out(box, 60, 1)>> : box \in Boxes}
      \union {<<Out(<<8, 8, 4, 6>>, score, class)>> :
                score \in {20, 30, 45}, class \in 0..2}
      \union {<<Out(<<8, 8, 4, 6>>, 0, -1)>>, <<>>}
      \union {<<Out(<<8, 8, 4, 6>>, s, 1), Out(<<0, 2, 8, 14>>, t, 0)>> :
                s \in {45, 60}, t \in {20, 45}}

MCThreshold == [c \in 0..1 |-> IF c = 0 THEN 30 ELSE 60]

\* Every model and all outputs, with the sinks of config.yml and no refused
\* call of GStreamer.
Deployed == [s \in {"rtsp", "tcp", "udp"} |-> s = "udp"]
Unrefused ==
    /\ settings = Deployed /\ faults = MaxFaults
    /\ PerceptionNext
    /\ UNCHANGED faults

\* All choices of sinks and refused calls: few models, and images with nothing
\* in them.
Refusing ==
    /\ model \in FewModels
    /\ Starting \/ PlayWaits \/ Stop \/ (Infer /\ entries' = <<>>)

MCInit == PerceptionInit /\ (settings = Deployed \/ model \in FewModels)

MCSpec == MCInit /\ [][Unrefused \/ Refusing]_allVars /\ WF_allVars(Starting)

=============================================================================
