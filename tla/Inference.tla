------------------------------ MODULE Inference ------------------------------
(***************************************************************************)
(* What the inference element does with its engine for a batch of images:  *)
(* YoloLayer::enqueue launches one kernel per detection head, then the     *)
(* outputs of each image are parsed.                                       *)
(*                                                                         *)
(* The engine of an ONNX file has no YoloLayer.  Which values the network  *)
(* computes is left open: writes says which thread wrote which slot of the *)
(* plugin's outputs, and the parsers meet any outputs of a small set.      *)
(***************************************************************************)
EXTENDS EngineBuild, YoloBoxes

CONSTANTS
    BatchSize,  \* batch-size of the inference element
    Outputs     \* what an engine may give for an image

ASSUME BatchAssumption == BatchSize \in Nat /\ Outputs \subseteq Seq(Output)

VARIABLES
    images,     \* images of the batch not yet parsed, 0 between batches
    head,       \* heads launched; one more when enqueue has returned
    last,       \* lastInputSize
    writes,     \* writes of the kernels to the plugin's outputs
    objects,    \* objectList of the CPU parser for the last image
    entries     \* objectList of the CUDA parser for the same

inferVars == <<images, head, last, writes, objects, entries>>

PluginHeads == IF plugin = Nothing THEN <<>> ELSE plugin.heads

InferInit ==
    /\ images = 0 /\ head = 0 /\ last = 0 /\ writes = {}
    /\ objects = <<>> /\ entries = <<>>

\* batchSize = inputDesc[0].dims.d[0]: a reorg3d block has multiplied it.
BeginEnqueue ==
    /\ images = 0
    /\ \E n \in 1..BatchSize :
         images' = n * (IF plugin = Nothing THEN 1 ELSE inputs[1][1])
    /\ head' = 0 /\ last' = 0 /\ writes' = {}
    /\ objects' = <<>> /\ entries' = <<>>

\* One turn of enqueue's loop: a kernel for each image of the batch.
LaunchHead ==
    /\ images > 0 /\ head < Len(PluginHeads)
    /\ LET t == plugin.heads[head + 1]
       IN  /\ writes' = writes \union
                {[slot |-> Slot(plugin, t, last, batch, th),
                  head |-> head + 1, batch |-> batch, thread |-> th] :
                   batch \in 0..(images - 1), th \in Threads(t)}
           /\ last' = last + t.numBBoxes * t.gridSizeY * t.gridSizeX
    /\ head' = head + 1
    /\ UNCHANGED <<images, objects, entries>>

EndEnqueue ==
    /\ images > 0 /\ head = Len(PluginHeads)
    /\ head' = head + 1 /\ last' = 0 /\ writes' = {}
    /\ UNCHANGED <<images, objects, entries>>

\* The parser is called for one image.  Only the plugin gives class -1.
ParseImage ==
    /\ images > 0 /\ head > Len(PluginHeads)
    /\ \E outputs \in Outputs, corners \in BOOLEAN :
         /\ plugin = Nothing => \A b \in DOMAIN outputs : outputs[b].class >= 0
         /\ \E wild \in SUBSET {b \in DOMAIN outputs : outputs[b].class \notin DOMAIN Threshold} :
              objects' = DecodeTensor(outputs, corners, wild)
         /\ entries' = DecodeTensorCuda(outputs, corners)
    /\ images' = images - 1
    /\ UNCHANGED <<head, last, writes>>

InferStep == BeginEnqueue \/ LaunchHead \/ EndEnqueue \/ ParseImage

InferReset ==
    /\ images' = 0 /\ head' = 0 /\ last' = 0 /\ writes' = {}
    /\ objects' = <<>> /\ entries' = <<>>

----------------------------------------------------------------------------
(* Properties                                                              *)

\* The first slots of the outputs of every image.
FirstSlots(count) ==
    {b * plugin.outputSize + k : b \in 0..(images - 1), k \in 0..(count - 1)}

\* While the heads' grids are square, the boxes of all heads and images fill
\* the outputs from the front without a gap, none overwrites another, and the
\* last head ends where the outputs do (yoloForward.cu:50,
\* yoloPlugins.cpp:213-267, yolo.cpp:461-469).
SlotsWrittenOnce ==
    (head \in 1..Len(PluginHeads)
       /\ \A k \in 1..Len(PluginHeads) : plugin.heads[k].gridSizeX = plugin.heads[k].gridSizeY)
    =>  /\ {w.slot : w \in writes} = FirstSlots(last)
        /\ \A v, w \in writes : v.slot = w.slot => v = w
        /\ head = Len(PluginHeads) => last = plugin.outputSize

\* The pair of anchors that the cfg file gives box z of a head.
MeantAnchors(b, z) ==
    LET pair == IF Value(b, "mask", <<>>) = <<>> THEN z ELSE b.mask[z + 1]
    IN  SubSeq(b.anchors, 2 * pair + 1, 2 * pair + 2)

\* A kernel reads of each image every cell of every box once, within the
\* image and at the channel that the file gives the value, and takes the
\* anchors of the file, whether the plugin was just built or read from an
\* engine file - provided the heads fit the layers before them, which nothing
\* checks (yolo.cpp:435-443, yoloForward.cu:21-45, yoloPlugins.cpp:56-92,
\* :137-166).
HeadsReadWhole ==
    (head \in 1..Len(PluginHeads) /\ HeadsFit(model.cfg, inputs)) =>
        LET t == plugin.heads[head]
            b == Heads(model.cfg)[head]
            c == inputs[head][2]  h == inputs[head][3]  w == inputs[head][4]
            values == 5 + b.classes
        IN  /\ Threads(t) = [x : 0..(w - 1), y : 0..(h - 1), z : 0..(c \div values - 1)]
            /\ \A th \in Threads(t) :
                 /\ \A batch \in 0..(images - 1), v \in 0..(values - 1) :
                      InputIndex(plugin, t, batch, th, v)
                        = ((batch * c + th.z * values + v) * h + th.y) * w + th.x
                 /\ SubSeq(t.anchors, AnchorIndex(t, th) + 1, AnchorIndex(t, th) + 2)
                      = MeantAnchors(b, th.z)

\* Whichever parser is configured, the clustering gets the same objects in
\* the same order, but for those thinner than a pixel, which only the CPU
\* drops; and a CPU parser's boxes lie in the image (nvdsparsebbox_Yolo.cpp:38-104,
\* nvdsparsebbox_Yolo_cuda.cu:40-78, :132).
ParsersAgree ==
    /\ Preclustered(objects) = WideOnes(Preclustered(entries))
    /\ \A k \in DOMAIN objects :
         /\ objects[k].left \in 0..NetWidth /\ objects[k].left + objects[k].width <= NetWidth
         /\ objects[k].top \in 0..NetHeight /\ objects[k].top + objects[k].height <= NetHeight

=============================================================================
