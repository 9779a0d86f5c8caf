----------------------------- MODULE EngineBuild -----------------------------
(***************************************************************************)
(* How the nvinfer element gets its TensorRT engine: from the engine file  *)
(* of an earlier start, or from NvDsInferYoloCudaEngineGet, which has Yolo *)
(* build one from an ONNX file or from a Darknet cfg and weights.          *)
(*                                                                         *)
(* The build is that of TensorRT 8 without OPENCV.  nvinfer and TensorRT   *)
(* are what the code relies on: each may refuse a call, an engine keeps    *)
(* the words its plugin serialised, and nvinfer writes a new engine to a   *)
(* file that the next start finds or not.  A failed assertion ends the     *)
(* process.                                                                *)
(***************************************************************************)
EXTENDS YoloNetwork, YoloPlugin

CONSTANTS
    Models,         \* configurations of the inference element
    Nothing,        \* no network, plugin or file
    MaxRefusals     \* bound: refusals by TensorRT and the platform

ASSUME RefusalsAssumption == MaxRefusals \in Nat

\* A cfg file is a sequence of blocks; the first and no other is [net].
ASSUME ModelsAssumption ==
    \A m \in Models :
      /\ m.cfg \in Seq({m.cfg[k] : k \in DOMAIN m.cfg})
      /\ \A k \in DOMAIN m.cfg : IsBlock(m.cfg[k])
      /\ m.type = "darknet" =>
           m.cfg # <<>> /\ \A k \in DOMAIN m.cfg : m.cfg[k].type = "net" <=> k = 1

VARIABLES
    model,      \* the configuration, the same at every start
    phase,      \* where the element is
    live,       \* what createEngine, Yolo and the layers have allocated
    network,    \* the Darknet network under construction
    plugin,     \* the plugin of the engine
    inputs,     \* the dimensions of the plugin's inputs
    file,       \* the engine file: the plugin's words and inputs
    refusals    \* refusals left

engineVars == <<model, phase, live, network, plugin, inputs, file, refusals>>

Phase == {"off", "create", "onnx", "cfg", "blocks", "configure", "build",
          "built", "null", "returned", "loaded", "failed", "aborted"}

Stopped == {"failed", "aborted"}
Darknet == model.type = "darknet"

EngineInit ==
    /\ model \in Models
    /\ phase = "off" /\ live = {}
    /\ network = Nothing /\ plugin = Nothing /\ inputs = <<>> /\ file = Nothing
    /\ refusals = MaxRefusals

Goto(next) == phase' = next /\ UNCHANGED <<model, file>>
KeepEngine == UNCHANGED <<plugin, inputs>>

----------------------------------------------------------------------------
(* nvinfer                                                                 *)

\* The engine file is read back.
LoadFile ==
    /\ phase = "off" /\ file # Nothing
    /\ Goto("loaded")
    /\ plugin' = IF file.words = <<>> THEN Nothing ELSE Deserialized(file.words)
    /\ inputs' = file.inputs
    /\ UNCHANGED <<live, network>>

\* Without it, NvDsInferYoloCudaEngineGet looks for the model's files.
GetEngine ==
    /\ phase = "off"
    /\ Goto(IF model.present THEN "create" ELSE "failed")
    /\ UNCHANGED <<live, network>> /\ KeepEngine

\* The new engine is used, and written to a file.
KeepFile ==
    /\ phase = "returned"
    /\ phase' = "loaded"
    /\ file' = [words |-> IF plugin = Nothing THEN <<>> ELSE Serialized(plugin),
                inputs |-> inputs]
    /\ UNCHANGED <<model, live, network>> /\ KeepEngine

----------------------------------------------------------------------------
(* Yolo::createEngine                                                      *)

CreateNetwork ==
    /\ phase = "create"
    /\ Goto(IF Darknet THEN "cfg" ELSE "onnx")
    /\ live' = IF Darknet THEN {"network"} ELSE {"network", "parser"}
    /\ UNCHANGED network /\ KeepEngine

\* Every path out of createEngine deletes what it made.
Deleted == live \ (IF Darknet THEN {"network"} ELSE {"network", "parser"})

ReturnNull ==
    /\ Goto("null")
    /\ live' = Deleted
    /\ network' = Nothing /\ plugin' = Nothing /\ inputs' = <<>>

ParseOnnx ==
    /\ phase = "onnx"
    /\ Goto("configure")
    /\ UNCHANGED <<live, network>> /\ KeepEngine

OnnxRefused == phase = "onnx" /\ ReturnNull

\* loadWeights asserts that it can read a first weight.
WeightsReadable == model.weights > 0

\* parseConfigFile, parseConfigBlocks and loadWeights.
ParseCfg ==
    /\ phase = "cfg"
    /\ ConfigIsComplete(model.cfg) /\ WeightsReadable
    /\ Goto("blocks")
    /\ network' = EmptyNetwork(model.cfg)
    /\ UNCHANGED live /\ KeepEngine

\* One turn of buildYoloNetwork's loop.  The layer's weights go to the Yolo
\* object's m_TrtWeights.  The sizes that sliceLayer allocates when the batch
\* of its input is dynamic go nowhere: nothing but the slice has a pointer to
\* them.  Whether the batch is dynamic is left open: not with
\* force-implicit-batch-dim, nor for an implicit layer's constant.
AddBlock ==
    /\ phase = "blocks" /\ network.block < Len(model.cfg)
    /\ network' \in WithBlock(model.cfg, network)
    /\ \E sizes \in SUBSET {s \in {"sizes"} : NextSlices(model.cfg, network)} :
         live' = live \union sizes
                   \union (IF network'.weightPtr > 0 THEN {"weights"} ELSE {})
    /\ Goto("blocks") /\ KeepEngine

\* new YoloLayer and the end of buildYoloNetwork.  addPluginV2 takes a clone;
\* nothing destroys the object itself.
AddPlugin ==
    /\ phase = "blocks" /\ Complete(model.cfg, network, model.weights)
    /\ plugin' = [netWidth |-> model.cfg[1].width, netHeight |-> model.cfg[1].height,
                  numClasses |-> NumClasses(model.cfg),
                  newCoords |-> NewCoords(model.cfg),
                  outputSize |-> OutputSize(network.heads), heads |-> network.heads]
    /\ inputs' = network.inputs
    /\ live' = live \union {"plugin"}
    /\ Goto("configure")
    /\ UNCHANGED network

\* An assertion of parseConfigBlocks, loadWeights, a layer or the end of
\* buildYoloNetwork; a layer that read weights past their end may end the
\* process too.
Abort ==
    /\ \/ phase = "cfg" /\ ~(ConfigIsComplete(model.cfg) /\ WeightsReadable)
       \/ /\ phase = "blocks" /\ network.block < Len(model.cfg)
          /\ MayAbort(model.cfg, network) \/ network.weightPtr > model.weights
       \/ /\ phase = "blocks" /\ network.block = Len(model.cfg)
          /\ ~Complete(model.cfg, network, model.weights)
    /\ Goto("aborted")
    /\ UNCHANGED <<live, network>> /\ KeepEngine

\* INT8 with a calibration file that does not exist needs the calibrator.
Uncalibrated == model.mode = "INT8" /\ model.calibration = "missing"

\* Mutant: the return for want of a calibrator deletes nothing.
ConfigureLeaking ==
    /\ phase = "configure"
    /\ IF Uncalibrated
       THEN Goto("null") /\ UNCHANGED <<live, network>> /\ KeepEngine
       ELSE Goto("build") /\ UNCHANGED <<live, network>> /\ KeepEngine

\* The optimisation profile, the notes and the flags.
Configure ==
    /\ phase = "configure"
    /\ IF Uncalibrated THEN ReturnNull
       ELSE Goto("build") /\ UNCHANGED <<live, network>> /\ KeepEngine

\* assert(builder->platformHasFastFp16()), ...Int8()
PlatformRefused ==
    /\ phase = "configure" /\ model.mode # "FP32"
    /\ Goto("aborted")
    /\ UNCHANGED <<live, network>> /\ KeepEngine

\* buildEngineWithConfig, and the deletions at the end.
BuildEngine ==
    /\ phase = "build"
    /\ Goto("built")
    /\ live' = Deleted
    /\ network' = Nothing
    /\ KeepEngine

BuildRefused == phase = "build" /\ ReturnNull

\* destroyNetworkUtils.
Released == live \ {"weights"}

\* The end of NvDsInferYoloCudaEngineGet destroys its Yolo object.
Return ==
    /\ phase \in {"built", "null"}
    /\ Goto(IF phase = "built" THEN "returned" ELSE "failed")
    /\ live' = Released
    /\ UNCHANGED network /\ KeepEngine

----------------------------------------------------------------------------
\* What the code does by itself, and what TensorRT and the platform may do.
EngineStep ==
    /\ \/ LoadFile \/ GetEngine \/ KeepFile
       \/ CreateNetwork \/ ParseOnnx \/ ParseCfg \/ AddBlock \/ AddPlugin \/ Abort
       \/ Configure \/ BuildEngine \/ Return
    /\ UNCHANGED refusals

EngineRefusal ==
    /\ OnnxRefused \/ PlatformRefused \/ BuildRefused
    /\ refusals > 0 /\ refusals' = refusals - 1

\* The process starts again: the file is what remains.
EngineReset ==
    /\ phase' = "off" /\ live' = {}
    /\ network' = Nothing /\ plugin' = Nothing /\ inputs' = <<>>
    /\ UNCHANGED <<model, file, refusals>>

----------------------------------------------------------------------------
(* Properties                                                              *)

\* A Darknet network is only handed to TensorRT's optimiser when every
\* reference of its file got the layer that is meant and the weights file has
\* exactly the weights of the layers that are meant - unless a route follows a
\* dropout, whose output buildYoloNetwork does not count (yolo.cpp:331-398,
\* :447-459, route_layer.cpp:33-38).
NetworkIsMeant ==
    (phase = "build" /\ Darknet /\ ~RouteAfterDropout(model.cfg)) =>
        /\ \A u \in network.uses : u[3] = MeantLayer(u[1], u[2])
        /\ model.weights = MeantWeights(model.cfg)

\* Allocated for a Darknet network and owned by nobody: the plugin and the
\* sizes of slices.
Unowned == IF Darknet THEN {"plugin", "sizes"} ELSE {}

\* Whichever way createEngine returns, the parser, the network and the
\* weights are released when NvDsInferYoloCudaEngineGet does, and none of them
\* before the engine is built.  What stays is what the code has no pointer to
\* any more: nothing for an ONNX file; for a Darknet network its plugin, each
\* time, and sizes only if the file has a layer that slices (yolo.cpp:85-97,
\* :182-197, :235-248, :468, :620-627, slice_layer.cpp:25-45).
OnlyUnownedStays ==
    /\ phase \in {"returned", "loaded", "failed"} => live \subseteq Unowned
    /\ phase = "returned" => live \ {"sizes"} = Unowned \ {"sizes"}
    /\ phase = "build" =>
         live \ Unowned = {"network"} \union (IF Darknet THEN {"weights"} ELSE {"parser"})
    /\ "sizes" \in live =>
         \E k \in DOMAIN model.cfg : model.cfg[k].type \in {"shortcut", "route", "reorg3d"}

=============================================================================
