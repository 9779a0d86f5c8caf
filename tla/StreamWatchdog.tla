--------------------------- MODULE StreamWatchdog ---------------------------
(***************************************************************************)
(* The life of the camera streams in perception: main() adds one source    *)
(* bin per camera (Pipeline::add_source), the pad probe counts the frames  *)
(* of every muxer pad, and check_performance, a one-second timer of the    *)
(* main loop, deletes the bin of a stream that has been silent for too     *)
(* long, waits, and adds a new one (Pipeline::delete_source, add_source).  *)
(*                                                                         *)
(* frameCount is a plain int written by the probe's thread and by the main *)
(* loop; only whether it is zero matters.  Entries of streams_ are indexed *)
(* by muxer pad; names of bins by num_sources_ at startup and by pad when  *)
(* a bin is added again.                                                   *)
(*                                                                         *)
(* GStreamer's side (the children of the pipeline by name, the request     *)
(* pads of nvstreammux, the state of a bin) and the cameras are external.  *)
(* A bin that gst_bin_add refuses has no other owner and is freed at once; *)
(* the code goes on with the pointer.  What using it does is undefined:    *)
(* the process may crash, GStreamer's type check may turn the call down,   *)
(* or the address may by now be that of another bin.                       *)
(***************************************************************************)
EXTENDS Integers, FiniteSets

CONSTANTS
    N,                  \* cameras in sources.yml
    PadOf,              \* pad_index of the k-th entry of sources.yml
    NO_FRAME_LIMIT,     \* 20 ticks without frames
    READD_LIMIT,        \* 30 ticks before the bin is added again
    Faults              \* what may go wrong, a subset of AllFaults

AllFaults ==
    {"create",          \* create_source_bin returns NULL
     "link",            \* gst_pad_link fails between bin and muxer
     "delete",          \* set_state(NULL) is FAILURE or NO_PREROLL
     "play",            \* set_state(PLAYING) is FAILURE
     "async",           \* set_state(PLAYING) is ASYNC
     "bus"}             \* an element posts an ERROR message

Pad == 0..(N - 1)

ASSUME WatchdogAssumption ==
    /\ N \in Nat \ {0}
    /\ PadOf \in [Pad -> Pad]
    /\ \A k, l \in Pad : PadOf[k] = PadOf[l] => k = l
    /\ NO_FRAME_LIMIT \in Nat /\ READD_LIMIT \in Nat
    /\ NO_FRAME_LIMIT + 1 < READD_LIMIT
    /\ Faults \subseteq AllFaults

Nobody == -1            \* no bin has this name

VARIABLES
    \* streams_[i]
    source_bin,     \* "null", "child" of the pipeline, or "freed"
    frameCount,     \* 0, or 1 for any positive count
    noFrameCount,
    reset,          \* "NONE", "WAITING", "ADD_STREAM"
    num_sources_,
    \* main thread
    phase,          \* "add" (startup), "run", "blocked" in get_state, "quit"
    cursor,         \* startup: next entry to add; run: stream of this tick
    examined,       \* the tick has examined stream cursor, not yet zeroed it
    ticking,        \* check_performance is running
    \* GStreamer and cameras
    binName,        \* binName[i]: name given to the bin of pad i
    child,          \* child[n]: pad whose bin has name n in the pipeline
    muxPad,         \* muxPad[i]: "absent", "unlinked", "linked"
    flowing,        \* flowing[i]: the linked bin of pad i produces frames
    inFlight,       \* inFlight[i]: a frame is between the muxer and the probe
    camera,         \* camera[i]: the camera of pad i delivers video
    memory,         \* "sound", "corrupt" once a freed bin was used, "crashed"
    \* history
    silent          \* silent[i]: examinations since the last frame probed

streamVars == <<source_bin, noFrameCount, reset, num_sources_>>
gstVars == <<binName, child, muxPad, flowing>>
mainVars == <<phase, cursor, examined, ticking>>
vars == <<streamVars, frameCount, gstVars, mainVars, inFlight, camera, memory,
          silent>>

Init ==
    /\ source_bin = [i \in Pad |-> "null"]
    /\ frameCount = [i \in Pad |-> 0]
    /\ noFrameCount = [i \in Pad |-> 0]
    /\ reset = [i \in Pad |-> "NONE"]
    /\ num_sources_ = 0
    /\ phase = "add" /\ cursor = 0 /\ examined = FALSE /\ ticking = FALSE
    /\ binName = [i \in Pad |-> 0]
    /\ child = [n \in Pad |-> Nobody]
    /\ muxPad = [i \in Pad |-> "absent"]
    /\ flowing = [i \in Pad |-> FALSE]
    /\ inFlight = [i \in Pad |-> FALSE]
    /\ camera \in [Pad -> BOOLEAN]
    /\ memory = "sound"
    /\ silent = [i \in Pad |-> 0]

----------------------------------------------------------------------------
(* Pipeline::add_source                                                    *)

\* create_source_bin failed: add_source returns before touching streams_[i].
CreateFails(i) ==
    /\ "create" \in Faults
    /\ UNCHANGED <<frameCount, reset, binName, child, muxPad, memory>>

\* A freed bin is handed to GStreamer.
UseFreed == memory' \in {"corrupt", "crashed"}

\* connect_muxer_src_pads requests pad sink_i, which fails when it exists;
\* otherwise it looks for the src pad of the bin and links the two.
ConnectMuxer(i, isChild) ==
    \/ /\ muxPad[i] # "absent"
       /\ UNCHANGED <<muxPad, memory>>
    \/ /\ muxPad[i] = "absent" /\ isChild
       /\ muxPad' = [muxPad EXCEPT ![i] = "linked"]
       /\ UNCHANGED memory
    \/ /\ muxPad[i] = "absent" /\ isChild /\ "link" \in Faults
       /\ muxPad' = [muxPad EXCEPT ![i] = "unlinked"]
       /\ UNCHANGED memory
    \/ /\ muxPad[i] = "absent" /\ ~isChild
       /\ muxPad' = [muxPad EXCEPT ![i] = "unlinked"]
       /\ UseFreed

\* gst_bin_add puts the bin in the pipeline unless its name is taken, when
\* the bin is freed; the result is not looked at.
AddToPipeline(i, name) ==
    IF child[name] = Nobody
    THEN /\ source_bin' = [source_bin EXCEPT ![i] = "child"]
         /\ child' = [child EXCEPT ![name] = i]
    ELSE /\ source_bin' = [source_bin EXCEPT ![i] = "freed"]
         /\ UNCHANGED child

\* Mutant: the reset state survives the new bin.
CreateBinKeepsReset(i, name) ==
    /\ frameCount' = [frameCount EXCEPT ![i] = 0]
    /\ noFrameCount' = [noFrameCount EXCEPT ![i] = 0]
    /\ UNCHANGED reset
    /\ binName' = [binName EXCEPT ![i] = name]
    /\ AddToPipeline(i, name)
    /\ ConnectMuxer(i, child[name] = Nobody)

\* The bin exists: streams_[i] is filled in before anything else can fail.
CreateBin(i, name) ==
    /\ frameCount' = [frameCount EXCEPT ![i] = 0]
    /\ noFrameCount' = [noFrameCount EXCEPT ![i] = 0]
    /\ reset' = [reset EXCEPT ![i] = "NONE"]
    /\ binName' = [binName EXCEPT ![i] = name]
    /\ AddToPipeline(i, name)
    /\ ConnectMuxer(i, child[name] = Nobody)

Connected(i) == muxPad[i] = "absent" /\ muxPad'[i] = "linked"

\* main(): the entries of sources.yml, in order.  A source that could not be
\* connected is not counted, so the next one is given the same name.
AddAtStartup ==
    /\ phase = "add" /\ cursor < N
    /\ CreateBin(PadOf[cursor], num_sources_)
    /\ num_sources_' = IF Connected(PadOf[cursor]) THEN num_sources_ + 1
                                                  ELSE num_sources_
    /\ cursor' = cursor + 1
    /\ UNCHANGED <<flowing, phase, examined, ticking, inFlight, camera, silent>>

\* pipeline->run() and g_main_loop_run.
Run ==
    /\ phase = "add" /\ cursor = N
    /\ phase' = "run" /\ cursor' = 0
    /\ flowing' = [i \in Pad |-> muxPad[i] = "linked"]
    /\ UNCHANGED <<streamVars, frameCount, binName, child, muxPad, examined,
                   ticking, inFlight, camera, memory, silent>>

----------------------------------------------------------------------------
(* Cameras, frames and the probe                                           *)

CameraChanges(i) ==
    /\ camera' = [camera EXCEPT ![i] = ~@]
    /\ UNCHANGED <<streamVars, frameCount, gstVars, mainVars, inFlight, memory,
                   silent>>

\* The reconnections of the bin itself are exhausted: it stays silent even if
\* its camera comes back.
BinDies(i) ==
    /\ memory # "crashed"
    /\ flowing[i] /\ ~camera[i]
    /\ flowing' = [flowing EXCEPT ![i] = FALSE]
    /\ UNCHANGED <<streamVars, frameCount, binName, child, muxPad, mainVars,
                   inFlight, camera, memory, silent>>

Produce(i) ==
    /\ memory # "crashed"
    /\ flowing[i] /\ camera[i] /\ ~inFlight[i]
    /\ inFlight' = [inFlight EXCEPT ![i] = TRUE]
    /\ UNCHANGED <<streamVars, frameCount, gstVars, mainVars, camera, memory,
                   silent>>

\* streams_[pad_index].frameCount++, also for a frame whose bin is gone.
ProbeCounts(i) ==
    /\ memory # "crashed"
    /\ inFlight[i]
    /\ inFlight' = [inFlight EXCEPT ![i] = FALSE]
    /\ frameCount' = [frameCount EXCEPT ![i] = 1]
    /\ silent' = [silent EXCEPT ![i] = 0]
    /\ UNCHANGED <<streamVars, gstVars, mainVars, camera, memory>>

----------------------------------------------------------------------------
(* check_performance                                                       *)

TimerFires ==
    /\ phase = "run" /\ ~ticking /\ num_sources_ > 0
    /\ ticking' = TRUE /\ cursor' = 0 /\ examined' = FALSE
    /\ UNCHANGED <<streamVars, frameCount, gstVars, phase, inFlight, camera,
                   memory, silent>>

\* The loop is at stream i and looks at it.
Examining(i) ==
    /\ phase = "run" /\ ticking /\ ~examined
    /\ cursor = i
    /\ silent' = [silent EXCEPT ![i] = IF @ > NO_FRAME_LIMIT THEN @ ELSE @ + 1]

Watched(i) == source_bin[i] # "null"
NoFrames(i) == Watched(i) /\ frameCount[i] = 0
Late(i) == NoFrames(i) /\ noFrameCount[i] + 1 > NO_FRAME_LIMIT
OneMore(i) == noFrameCount' = [noFrameCount EXCEPT ![i] = @ + 1]

\* Not watched: nothing but the reset of the counter follows.
ExamineUnwatched(i) ==
    /\ Examining(i) /\ ~Watched(i)
    /\ examined' = TRUE
    /\ UNCHANGED <<streamVars, frameCount, gstVars, phase, cursor, ticking,
                   inFlight, camera, memory>>

ExamineAlive(i) ==
    /\ Examining(i) /\ Watched(i) /\ frameCount[i] # 0
    /\ noFrameCount' = [noFrameCount EXCEPT ![i] = 0]
    /\ examined' = TRUE
    /\ UNCHANGED <<source_bin, reset, num_sources_, frameCount, gstVars, phase,
                   cursor, ticking, inFlight, camera, memory>>

ExamineSilent(i) ==
    /\ Examining(i) /\ NoFrames(i) /\ ~Late(i)
    /\ OneMore(i)
    /\ examined' = TRUE
    /\ UNCHANGED <<source_bin, reset, num_sources_, frameCount, gstVars, phase,
                   cursor, ticking, inFlight, camera, memory>>

\* Mutants: the bin is taken out of the pipeline while it still runs; it is
\* not taken out; the pad released is the last one, not that of the stream.
DeleteRunning(i) ==
    /\ muxPad' = [muxPad EXCEPT ![i] = "absent"]
    /\ child' = [child EXCEPT ![binName[i]] = Nobody]
    /\ source_bin' = [source_bin EXCEPT ![i] = "freed"]
    /\ UNCHANGED <<flowing, memory>>

DeleteNotRemoved(i) ==
    /\ muxPad' = [muxPad EXCEPT ![i] = "absent"]
    /\ flowing' = [flowing EXCEPT ![i] = FALSE]
    /\ UNCHANGED <<source_bin, child, memory>>

DeleteLast(i) ==
    LET last == num_sources_ - 1
    IN  /\ muxPad' = [muxPad EXCEPT ![last] = "absent"]
        /\ flowing' = [flowing EXCEPT ![last] = FALSE]
        /\ child' = [child EXCEPT ![binName[last]] = Nobody]
        /\ source_bin' = [source_bin EXCEPT ![last] = "freed"]
        /\ UNCHANGED memory

\* The bin goes to NULL, its muxer pad is released and it is removed from the
\* pipeline, which frees it; source_bin keeps the pointer.  A state change
\* that fails changes nothing.
DeleteChild(i) ==
    /\ source_bin[i] = "child"
    /\ UNCHANGED memory
    /\ \/ /\ muxPad' = [muxPad EXCEPT ![i] = "absent"]
          /\ flowing' = [flowing EXCEPT ![i] = FALSE]
          /\ child' = [child EXCEPT ![binName[i]] = Nobody]
          /\ source_bin' = [source_bin EXCEPT ![i] = "freed"]
       \/ /\ "delete" \in Faults
          /\ UNCHANGED <<muxPad, flowing, child, source_bin>>

\* The bin had been refused and freed.  The call crashes or is turned down;
\* or it finds a bin made since at the same address, which is deleted in the
\* place of the one meant, with the muxer pad of stream i.
DeleteFreed(i) ==
    /\ source_bin[i] = "freed"
    /\ \/ /\ UseFreed
          /\ UNCHANGED <<muxPad, flowing, child, source_bin>>
       \/ \E j \in Pad :
            /\ source_bin[j] = "child"
            /\ memory' = "corrupt"
            /\ muxPad' = [muxPad EXCEPT ![i] = "absent"]
            /\ flowing' = [flowing EXCEPT ![i] = FALSE, ![j] = FALSE]
            /\ child' = [child EXCEPT ![binName[j]] = Nobody]
            /\ source_bin' = [source_bin EXCEPT ![j] = "freed"]

DeleteSource(i) == DeleteChild(i) \/ DeleteFreed(i)

ExamineDelete(i) ==
    /\ Examining(i) /\ Late(i) /\ reset[i] = "NONE"
    /\ OneMore(i)
    /\ DeleteSource(i)
    /\ reset' = [reset EXCEPT ![i] = "WAITING"]
    /\ examined' = TRUE
    /\ UNCHANGED <<num_sources_, frameCount, binName, phase, cursor, ticking,
                   inFlight, camera>>

\* Mutant: one tick too many before the stream is added again.
ExamineWaitingLonger(i) ==
    /\ Examining(i) /\ Late(i) /\ reset[i] = "WAITING"
    /\ OneMore(i)
    /\ IF noFrameCount[i] + 1 > READD_LIMIT
       THEN reset' = [reset EXCEPT ![i] = "ADD_STREAM"]
       ELSE UNCHANGED reset
    /\ examined' = TRUE
    /\ UNCHANGED <<source_bin, num_sources_, frameCount, gstVars, phase, cursor,
                   ticking, inFlight, camera, memory>>

ExamineWaiting(i) ==
    /\ Examining(i) /\ Late(i) /\ reset[i] = "WAITING"
    /\ OneMore(i)
    /\ IF noFrameCount[i] + 1 >= READD_LIMIT
       THEN reset' = [reset EXCEPT ![i] = "ADD_STREAM"]
       ELSE UNCHANGED reset
    /\ examined' = TRUE
    /\ UNCHANGED <<source_bin, num_sources_, frameCount, gstVars, phase, cursor,
                   ticking, inFlight, camera, memory>>

\* set_state(PLAYING) on the new bin.  ASYNC makes gst_element_get_state wait
\* without a timeout, in the main loop.
Play(i) ==
    \/ /\ flowing' = [flowing EXCEPT ![i] = TRUE]
       /\ phase' = "run"
    \/ /\ "play" \in Faults
       /\ UNCHANGED <<flowing, phase>>
    \/ /\ "async" \in Faults
       /\ phase' = "blocked"
       /\ UNCHANGED flowing

\* source_bin = nullptr, then add_source(..., true, true), which names the
\* bin after its pad.
ExamineAdd(i) ==
    /\ Examining(i) /\ Late(i) /\ reset[i] = "ADD_STREAM"
    /\ \/ /\ CreateFails(i)
          /\ OneMore(i)
          /\ source_bin' = [source_bin EXCEPT ![i] = "null"]
          /\ UNCHANGED <<flowing, phase>>
       \/ /\ CreateBin(i, i)
          /\ IF Connected(i) THEN Play(i) ELSE UNCHANGED <<flowing, phase>>
    /\ examined' = TRUE
    /\ UNCHANGED <<num_sources_, cursor, ticking, inFlight, camera>>

\* The state change completes once the camera answers.
Unblocked ==
    /\ phase = "blocked" /\ camera[cursor]
    /\ phase' = "run"
    /\ flowing' = [flowing EXCEPT ![cursor] = TRUE]
    /\ UNCHANGED <<streamVars, frameCount, binName, child, muxPad, cursor,
                   examined, ticking, inFlight, camera, memory, silent>>

\* frameCount = 0, in a later step: a frame counted in between is forgotten.
ZeroCount ==
    /\ phase = "run" /\ ticking /\ examined
    /\ frameCount' = [frameCount EXCEPT ![cursor] = 0]
    /\ examined' = FALSE
    /\ IF cursor + 1 < num_sources_
       THEN cursor' = cursor + 1 /\ UNCHANGED ticking
       ELSE ticking' = FALSE /\ cursor' = 0
    /\ UNCHANGED <<streamVars, gstVars, phase, inFlight, camera, memory, silent>>

\* bus_call: any ERROR message quits the main loop.
BusError ==
    /\ "bus" \in Faults /\ memory # "crashed"
    /\ phase = "run" /\ ~ticking
    /\ phase' = "quit"
    /\ UNCHANGED <<streamVars, frameCount, gstVars, cursor, examined, ticking,
                   inFlight, camera, memory, silent>>

----------------------------------------------------------------------------
Examine(i) ==
    \/ ExamineUnwatched(i) \/ ExamineAlive(i) \/ ExamineSilent(i)
    \/ ExamineDelete(i) \/ ExamineWaiting(i) \/ ExamineAdd(i)

MainLoop ==
    /\ memory # "crashed"
    /\ \/ AddAtStartup \/ Run
       \/ TimerFires \/ ZeroCount \/ Unblocked
       \/ \E i \in Pad : Examine(i)

Next ==
    \/ MainLoop
    \/ BusError
    \/ \E i \in Pad : CameraChanges(i) \/ BinDies(i) \/ Produce(i) \/ ProbeCounts(i)

Spec == Init /\ [][Next]_vars

\* The main loop dispatches its timer, a bin that flows with its camera up
\* produces frames and the streaming thread takes them to the probe.
FairSpec ==
    /\ Spec
    /\ WF_vars(MainLoop)
    /\ \A i \in Pad : WF_vars(ProbeCounts(i)) /\ SF_vars(Produce(i))

----------------------------------------------------------------------------
(* Properties                                                              *)

TypeOK ==
    /\ source_bin \in [Pad -> {"null", "child", "freed"}]
    /\ frameCount \in [Pad -> {0, 1}]
    /\ noFrameCount \in [Pad -> 0..(READD_LIMIT + 1)]
    /\ reset \in [Pad -> {"NONE", "WAITING", "ADD_STREAM"}]
    /\ num_sources_ \in 0..N
    /\ phase \in {"add", "run", "blocked", "quit"}
    /\ cursor \in 0..N
    /\ examined \in BOOLEAN /\ ticking \in BOOLEAN
    /\ binName \in [Pad -> Pad]
    /\ child \in [Pad -> Pad \union {Nobody}]
    /\ muxPad \in [Pad -> {"absent", "unlinked", "linked"}]
    /\ flowing \in [Pad -> BOOLEAN]
    /\ inFlight \in [Pad -> BOOLEAN]
    /\ camera \in [Pad -> BOOLEAN]
    /\ memory \in {"sound", "corrupt", "crashed"}
    /\ silent \in [Pad -> 0..(NO_FRAME_LIMIT + 1)]

\* The pads are numbered in the order of sources.yml, so that both numberings
\* give a stream the same name, and GStreamer links and deletes what it is
\* asked to.
NamesArePads ==
    /\ \A k \in Pad : PadOf[k] = k
    /\ Faults \intersect {"link", "delete"} = {}

\* Then no freed bin is ever handed to GStreamer, through any sequence of
\* resets: what delete_source leaves dangling in streams_, since it takes its
\* argument by value, is replaced before it is used, and the name of a new bin
\* is free (perception.cpp:105-135, Pipeline.cpp:983-1006, :1047).
FreedIsUnused == NamesArePads => memory = "sound"

\* Frames only enter the muxer through a linked pad whose bin is the one the
\* pipeline owns under that bin's name; reset cycles never leave a pad linked
\* to a bin that was removed (Pipeline.cpp:1003-1010, :1050-1060).
FlowingIsLinked ==
    \A i \in Pad :
        flowing[i] => muxPad[i] = "linked" /\ \E n \in Pad : child[n] = i

\* As long as no freed bin was used, resetting one stream never stops another,
\* whatever the order of the pads and the faults: only its own deletion or the
\* loss of its camera ends a flow (perception.cpp:105-121, Pipeline.cpp:1041).
NoCollateral ==
    [][\A i \in Pad : (memory' = "sound" /\ flowing[i] /\ ~flowing'[i])
          => ~camera[i] \/ (ticking /\ cursor = i /\ Late(i))]_vars

\* add_source connected a new bin, and GStreamer refused to play it.
PlayRefused(i) ==
    ExamineAdd(i) /\ Connected(i) /\ ~flowing'[i] /\ phase' = "run"

\* The main loop waits in get_state for the bin of another camera.
HeldUpByAnother(i) == phase = "blocked" /\ cursor # i

\* A camera that is back for good gets its stream back, however often it
\* failed before and whatever was in flight during the reset, if GStreamer
\* does not refuse for ever.  One thing alone can prevent it: from some time
\* on the main loop waits without a timeout for another camera, which never
\* answers (perception.cpp:92-148, Pipeline.cpp:1027).
StreamRecovers ==
    \A i \in Pad :
        (<>[]camera[i] /\ <>[][~PlayRefused(i)]_vars)
            => []<>inFlight[i] \/ <>[]HeldUpByAnother(i)

\* perception.cpp:97, "No frames for 20 seconds": a stream is deleted only if
\* no frame reached the probe during that many examinations.
DeletedWasSilent ==
    [][\A i \in Pad : (reset[i] = "NONE" /\ reset'[i] = "WAITING")
          => silent'[i] > NO_FRAME_LIMIT]_vars

=============================================================================
