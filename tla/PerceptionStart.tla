-------------------------- MODULE PerceptionStart --------------------------
(***************************************************************************)
(* PipelineGraph with its inference element: when the pipeline is started, *)
(* pgie_ gets its engine (EngineBuild) before the state change can         *)
(* succeed, and a running pipeline infers (Inference).  An engine that     *)
(* cannot be had, or an assertion that fails, ends the process, which      *)
(* docker starts again; what is left of the earlier start is the engine    *)
(* file.                                                                   *)
(***************************************************************************)
EXTENDS PipelineGraph, Inference

allVars == <<vars, engineVars, inferVars>>

PerceptionInit == Init /\ EngineInit /\ InferInit

OthersWait == UNCHANGED <<engineVars, inferVars>>

Assemble == (Construct \/ AddProbe) /\ OthersWait

LoadEngine ==
    /\ step = "play"
    /\ EngineStep \/ EngineRefusal
    /\ UNCHANGED <<vars, inferVars>>

PlayLoaded == phase = "loaded" /\ Play /\ OthersWait

PlayFails == phase \in Stopped /\ PlayWithoutEngine /\ OthersWait

\* The call returns, or the change fails after all.
PlayEnds == StateReached /\ OthersWait
PlayWaits == (CamerasAnswer \/ StateFails) /\ OthersWait

\* Buffers reach pgie_ before the first of them reaches the sinks.
Infer ==
    /\ step \in {"flowing", "running"}
    /\ InferStep
    /\ UNCHANGED <<vars, engineVars>>

Stop == Quit /\ OthersWait

StartAgain == Restart /\ EngineReset /\ InferReset

Starting == Assemble \/ LoadEngine \/ PlayLoaded \/ PlayFails \/ PlayEnds \/ StartAgain

PerceptionNext == Starting \/ PlayWaits \/ Infer \/ Stop

PerceptionSpec == PerceptionInit /\ [][PerceptionNext]_allVars

\* main() goes on, TensorRT returns, buffers get to the sinks they are linked to
\* and docker restarts.  The cameras need not answer.
FairSpec == PerceptionSpec /\ WF_allVars(Starting)

----------------------------------------------------------------------------
(* Properties                                                              *)

\* An ONNX file that is there needs no calibration but in INT8.
Buildable == model.type = "onnx" /\ model.present /\ ~Uncalibrated

\* Each wait for the cameras ends: they answer, or the state change fails.
CamerasAreThere == []<>(step # "waiting")

\* With a model like the deployed one, any choice of sinks but both network
\* sinks, and when refusals end, the program always gets to run again, if only
\* the cameras are there: beyond the cameras nothing keeps Pipeline::run in
\* its wait without a timeout for ever (Pipeline.cpp:558-567,
\* src/docker-compose.yml:74, cfg/yolov8_pgie.yml:9-24).
RunsAgain ==
    CamerasAreThere =>
        ((Buildable /\ ~(Enabled("tcp") /\ Enabled("udp"))) ~> step = "running")

=============================================================================
