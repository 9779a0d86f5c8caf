----------------------- MODULE StreamWatchdog_proofs -----------------------
(***************************************************************************)
(* Proofs about StreamWatchdog, for every number of cameras, every order   *)
(* of pads, every pair of limits and every set of faults: types, links     *)
(* between bins and pads, the isolation of the streams, and, where the two *)
(* numberings of bins agree, that no freed bin is used.                    *)
(***************************************************************************)
EXTENDS StreamWatchdog, TLAPS

\* While sources are added, no more are counted than were tried.
Startup == phase = "add" => num_sources_ <= cursor

\* How far the counter of a stream may have come in each state of its reset.
Counters ==
    \A i \in Pad :
        /\ reset[i] = "NONE" => noFrameCount[i] <= NO_FRAME_LIMIT
        /\ reset[i] = "WAITING" => noFrameCount[i] < READD_LIMIT
        /\ source_bin[i] # "null" => noFrameCount[i] <= READD_LIMIT

\* A bin in the pipeline is the one registered under its name.
Registered ==
    \A i \in Pad : source_bin[i] = "child" => child[binName[i]] = i

InPipeline(i) == \E n \in Pad : child[n] = i

\* Until the pipeline runs, a linked pad has a bin in it.  Later a freed bin
\* that turns out to be another stream's may leave that one's pad linked.
LinkedAtStartup ==
    phase = "add" => \A i \in Pad : muxPad[i] = "linked" => InPipeline(i)

\* The main loop only blocks on a stream it has just connected.
Blocked ==
    phase = "blocked" =>
        cursor \in Pad /\ muxPad[cursor] = "linked" /\ InPipeline(cursor)

IInv ==
    /\ TypeOK
    /\ Startup
    /\ Counters
    /\ Registered
    /\ LinkedAtStartup
    /\ FlowingIsLinked
    /\ Blocked

----------------------------------------------------------------------------
LEMMA PadFacts ==
    /\ \A i \in Pad : i \in Int /\ i >= 0 /\ i < N
    /\ \A k \in 0..N : k < N => k \in Pad
    /\ Nobody \notin Pad
    /\ 0 \in Pad
    /\ \A k \in Pad : PadOf[k] \in Pad
BY WatchdogAssumption DEF Pad, Nobody

LEMMA InvInit == Init => IInv
<1> SUFFICES ASSUME Init PROVE IInv
  OBVIOUS
<1>1. /\ examined \in BOOLEAN /\ ticking \in BOOLEAN
      /\ flowing \in [Pad -> BOOLEAN] /\ inFlight \in [Pad -> BOOLEAN]
      /\ camera \in [Pad -> BOOLEAN]
  BY Zenon DEF Init
<1>2. 0 \in 0..(READD_LIMIT + 1) /\ 0 \in 0..N /\ 0 \in 0..(NO_FRAME_LIMIT + 1)
  BY WatchdogAssumption
<1>3. TypeOK
  BY <1>1, <1>2, PadFacts DEF Init, TypeOK
<1>4. Counters
  BY WatchdogAssumption DEF Init, Counters
<1>5. FlowingIsLinked
  BY Zenon DEF Init, FlowingIsLinked
<1> QED
  BY <1>3, <1>4, <1>5 DEF Init, IInv, Startup, Registered, LinkedAtStartup, Blocked

----------------------------------------------------------------------------
(* Creation and deletion of bins                                           *)

\* What creating and deleting bins may change keeps its type.
BinTypes ==
    /\ source_bin \in [Pad -> {"null", "child", "freed"}]
    /\ child \in [Pad -> Pad \union {Nobody}]
    /\ muxPad \in [Pad -> {"absent", "unlinked", "linked"}]
    /\ memory \in {"sound", "corrupt", "crashed"}

StreamTypes ==
    /\ frameCount \in [Pad -> {0, 1}]
    /\ noFrameCount \in [Pad -> 0..(READD_LIMIT + 1)]
    /\ reset \in [Pad -> {"NONE", "WAITING", "ADD_STREAM"}]
    /\ binName \in [Pad -> Pad]

\* A new bin takes no name and no pad from another stream.
LEMMA CreateBinStep ==
    ASSUME TypeOK, Registered, Counters,
           NEW i \in Pad, NEW name \in Pad, CreateBin(i, name)
    PROVE  /\ BinTypes' /\ StreamTypes'
           /\ Registered' /\ Counters'
           /\ \A j \in Pad : muxPad[j] = "linked" => muxPad'[j] = "linked"
           /\ \A j \in Pad : InPipeline(j) => InPipeline(j)'
           /\ \A j \in Pad : muxPad[j] # "linked" /\ muxPad'[j] = "linked"
                => j = i /\ InPipeline(j)'
<1> USE PadFacts, WatchdogAssumption
<1>1. /\ source_bin' \in [Pad -> {"null", "child", "freed"}]
      /\ child' \in [Pad -> Pad \union {Nobody}]
  <2>1. CASE child[name] = Nobody
    <3>1. /\ source_bin' = [source_bin EXCEPT ![i] = "child"]
          /\ child' = [child EXCEPT ![name] = i]
      BY <2>1, Zenon DEF CreateBin, AddToPipeline
    <3> QED BY <3>1 DEF TypeOK
  <2>2. CASE child[name] # Nobody
    <3>1. source_bin' = [source_bin EXCEPT ![i] = "freed"] /\ child' = child
      BY <2>2, Zenon DEF CreateBin, AddToPipeline
    <3> QED BY <3>1 DEF TypeOK
  <2> QED BY <2>1, <2>2
<1>2. StreamTypes'
  BY DEF CreateBin, TypeOK, StreamTypes
<1>3. \/ muxPad' = muxPad
      \/ /\ muxPad[i] = "absent" /\ muxPad' = [muxPad EXCEPT ![i] = "linked"]
         /\ child[name] = Nobody
      \/ muxPad[i] = "absent" /\ muxPad' = [muxPad EXCEPT ![i] = "unlinked"]
  BY Zenon DEF CreateBin, ConnectMuxer
<1>4. /\ muxPad' \in [Pad -> {"absent", "unlinked", "linked"}]
      /\ \A j \in Pad : muxPad[j] = "linked" => muxPad'[j] = "linked"
      /\ \A j \in Pad : muxPad[j] # "linked" /\ muxPad'[j] = "linked"
            => j = i /\ child[name] = Nobody
  <2>1. CASE muxPad' = muxPad
    BY <2>1 DEF TypeOK
  <2>2. CASE /\ muxPad[i] = "absent" /\ muxPad' = [muxPad EXCEPT ![i] = "linked"]
             /\ child[name] = Nobody
    BY <2>2 DEF TypeOK
  <2>3. CASE muxPad[i] = "absent" /\ muxPad' = [muxPad EXCEPT ![i] = "unlinked"]
    BY <2>3 DEF TypeOK
  <2> QED BY <1>3, <2>1, <2>2, <2>3
<1>5. memory' \in {"sound", "corrupt", "crashed"}
  BY Zenon DEF CreateBin, ConnectMuxer, UseFreed, TypeOK
<1>6. \A n \in Pad : child[n] # Nobody => child'[n] = child[n]
  BY DEF CreateBin, AddToPipeline, TypeOK
<1>7. Registered'
  <2> SUFFICES ASSUME NEW j \in Pad, source_bin'[j] = "child"
               PROVE  child'[binName'[j]] = j
    BY DEF Registered
  <2>1. CASE j = i
    BY <2>1 DEF CreateBin, AddToPipeline, TypeOK
  <2>2. CASE j # i
    <3>1. source_bin[j] = "child" /\ binName'[j] = binName[j] /\ binName[j] \in Pad
      BY <2>2 DEF CreateBin, AddToPipeline, TypeOK
    <3> QED BY <1>6, <3>1 DEF Registered
  <2> QED BY <2>1, <2>2
<1>8. \A j \in Pad : InPipeline(j) => InPipeline(j)'
  BY <1>6 DEF InPipeline
<1>9. child[name] = Nobody => InPipeline(i)'
  <2> SUFFICES ASSUME child[name] = Nobody PROVE InPipeline(i)'
    OBVIOUS
  <2>1. child' = [child EXCEPT ![name] = i] /\ child \in [Pad -> Pad \union {Nobody}]
    BY Zenon DEF CreateBin, AddToPipeline, TypeOK
  <2>2. child'[name] = i
    BY <2>1
  <2> QED BY <2>2, Zenon DEF InPipeline
<1>10. Counters'
  <2>1. \A j \in Pad : j # i => source_bin'[j] = source_bin[j]
    BY DEF CreateBin, AddToPipeline, TypeOK
  <2> QED BY <2>1 DEF CreateBin, TypeOK, Counters
<1>11. BinTypes'
  BY <1>1, <1>4, <1>5 DEF BinTypes
<1> QED
  BY <1>2, <1>4, <1>7, <1>8, <1>9, <1>10, <1>11

\* Bin i goes with its name and its pad, or bin j of the same address with its
\* name and the pad of i.
Removed(i, j) ==
    /\ source_bin[j] = "child"
    /\ muxPad' = [muxPad EXCEPT ![i] = "absent"]
    /\ flowing' = [flowing EXCEPT ![i] = FALSE, ![j] = FALSE]
    /\ child' = [child EXCEPT ![binName[j]] = Nobody]
    /\ source_bin' = [source_bin EXCEPT ![j] = "freed"]

\* Deleting a bin keeps the links of every flowing stream.
LEMMA RemovedStep ==
    ASSUME TypeOK, Registered, FlowingIsLinked, UNCHANGED binName,
           NEW i \in Pad, NEW j \in Pad, Removed(i, j)
    PROVE  /\ source_bin' \in [Pad -> {"null", "child", "freed"}]
           /\ child' \in [Pad -> Pad \union {Nobody}]
           /\ muxPad' \in [Pad -> {"absent", "unlinked", "linked"}]
           /\ flowing' \in [Pad -> BOOLEAN]
           /\ Registered' /\ FlowingIsLinked'
           /\ \A k \in Pad : source_bin[k] # "null" <=> source_bin'[k] # "null"
<1> USE PadFacts
<1>1. /\ source_bin' \in [Pad -> {"null", "child", "freed"}]
      /\ child' \in [Pad -> Pad \union {Nobody}]
      /\ muxPad' \in [Pad -> {"absent", "unlinked", "linked"}]
      /\ \A k \in Pad : source_bin[k] # "null" <=> source_bin'[k] # "null"
  BY DEF Removed, TypeOK
<1>2. /\ flowing' \in [Pad -> BOOLEAN]
      /\ ~flowing'[i] /\ ~flowing'[j]
      /\ \A k \in Pad : flowing'[k] => flowing[k]
  BY Zenon DEF Removed, TypeOK
<1>3. \A n \in Pad : child[n] # j => child'[n] = child[n]
  BY DEF Removed, TypeOK, Registered
<1>4. Registered'
  <2> SUFFICES ASSUME NEW k \in Pad, source_bin'[k] = "child"
               PROVE  child'[binName'[k]] = k
    BY DEF Registered
  <2>1. k # j /\ source_bin[k] = "child" /\ binName[k] \in Pad
    BY DEF Removed, TypeOK
  <2> QED BY <1>3, <2>1 DEF Registered
<1>5. FlowingIsLinked'
  <2> SUFFICES ASSUME NEW k \in Pad, flowing'[k]
               PROVE  muxPad'[k] = "linked" /\ \E n \in Pad : child'[n] = k
    BY DEF FlowingIsLinked
  <2>1. k # i /\ k # j /\ flowing[k]
    BY <1>2
  <2>2. muxPad'[k] = muxPad[k]
    BY <2>1 DEF Removed, TypeOK
  <2>3. muxPad[k] = "linked" /\ \E n \in Pad : child[n] = k
    BY <2>1, Zenon DEF FlowingIsLinked
  <2> QED BY <1>3, <2>1, <2>2, <2>3
<1> QED
  BY <1>1, <1>2, <1>4, <1>5

\* Whatever delete_source does, bins, names and pads stay consistent.
LEMMA DeleteSourceStep ==
    ASSUME TypeOK, Registered, FlowingIsLinked,
           NEW i \in Pad, DeleteSource(i), UNCHANGED binName
    PROVE  /\ BinTypes' /\ flowing' \in [Pad -> BOOLEAN]
           /\ Registered' /\ FlowingIsLinked'
           /\ \A k \in Pad : source_bin[k] # "null" <=> source_bin'[k] # "null"
<1>1. memory' \in {"sound", "corrupt", "crashed"}
  BY Zenon DEF DeleteSource, DeleteChild, DeleteFreed, UseFreed, TypeOK
<1>2. CASE UNCHANGED <<muxPad, flowing, child, source_bin>>
  BY <1>1, <1>2 DEF TypeOK, BinTypes, Registered, FlowingIsLinked
<1>3. ASSUME NEW j \in Pad, Removed(i, j)
      PROVE  /\ BinTypes' /\ flowing' \in [Pad -> BOOLEAN]
             /\ Registered' /\ FlowingIsLinked'
             /\ \A k \in Pad : source_bin[k] # "null" <=> source_bin'[k] # "null"
  BY <1>1, <1>3, RemovedStep DEF BinTypes
<1>4. CASE /\ source_bin[i] = "child"
           /\ muxPad' = [muxPad EXCEPT ![i] = "absent"]
           /\ flowing' = [flowing EXCEPT ![i] = FALSE]
           /\ child' = [child EXCEPT ![binName[i]] = Nobody]
           /\ source_bin' = [source_bin EXCEPT ![i] = "freed"]
  <2>1. [flowing EXCEPT ![i] = FALSE, ![i] = FALSE] = [flowing EXCEPT ![i] = FALSE]
    BY DEF TypeOK
  <2>2. Removed(i, i)
    BY <1>4, <2>1, Zenon DEF Removed
  <2> QED BY <1>3, <2>2
<1>5. CASE \E j \in Pad : Removed(i, j)
  BY <1>3, <1>5
<1> QED
  BY <1>2, <1>4, <1>5, Zenon DEF DeleteSource, DeleteChild, DeleteFreed, Removed

\* A deletion that uses no freed bin stops no other stream.
LEMMA DeleteIsLocal ==
    ASSUME TypeOK, NEW i \in Pad, DeleteSource(i), memory' = "sound"
    PROVE  \A j \in Pad : j # i => flowing'[j] = flowing[j]
<1>1. DeleteChild(i)
  BY DEF DeleteSource, DeleteFreed, UseFreed
<1>2. flowing' = flowing \/ flowing' = [flowing EXCEPT ![i] = FALSE]
  BY <1>1, Zenon DEF DeleteChild
<1> QED
  BY <1>2, Zenon DEF TypeOK

----------------------------------------------------------------------------
(* Startup                                                                 *)

LEMMA AddStep == IInv /\ AddAtStartup => IInv'
<1> SUFFICES ASSUME IInv, AddAtStartup PROVE IInv'
  OBVIOUS
<1> DEFINE i == PadOf[cursor]
<1>1. cursor \in Pad /\ i \in Pad /\ num_sources_ \in Pad
  BY PadFacts, WatchdogAssumption DEF IInv, TypeOK, Startup, AddAtStartup, Pad
<1>2. CreateBin(i, num_sources_)
  BY DEF AddAtStartup
<1> HIDE DEF i
<1>3. /\ BinTypes' /\ StreamTypes' /\ Registered' /\ Counters'
      /\ \A j \in Pad : muxPad[j] = "linked" => muxPad'[j] = "linked"
      /\ \A j \in Pad : InPipeline(j) => InPipeline(j)'
      /\ \A j \in Pad : muxPad[j] # "linked" /\ muxPad'[j] = "linked"
            => j = i /\ InPipeline(j)'
  BY <1>1, <1>2, CreateBinStep DEF IInv
<1>4. /\ num_sources_' \in 0..N /\ cursor' \in 0..N
      /\ num_sources_' <= cursor' /\ phase = "add" /\ phase' = "add"
  BY <1>1, PadFacts, WatchdogAssumption DEF AddAtStartup, IInv, TypeOK, Startup
<1>5. UNCHANGED <<flowing, phase, examined, ticking, inFlight, camera, silent>>
  BY DEF AddAtStartup
<1>6. TypeOK'
  BY <1>3, <1>4, <1>5 DEF IInv, TypeOK, BinTypes, StreamTypes
<1>7. FlowingIsLinked'
  BY <1>3, <1>5 DEF IInv, FlowingIsLinked, InPipeline
<1>8. LinkedAtStartup'
  BY <1>3, <1>4, Zenon DEF IInv, LinkedAtStartup
<1> QED
  BY <1>3, <1>4, <1>6, <1>7, <1>8 DEF IInv, Startup, Blocked

LEMMA RunStep == IInv /\ Run => IInv'
<1> SUFFICES ASSUME IInv, Run PROVE IInv'
  OBVIOUS
<1>1. flowing' = [i \in Pad |-> muxPad[i] = "linked"] /\ phase = "add"
  BY DEF Run
<1>2. UNCHANGED <<streamVars, frameCount, binName, child, muxPad, examined,
                  ticking, inFlight, camera, memory, silent>>
  BY DEF Run
<1>3. phase' = "run" /\ cursor' = 0 /\ cursor' \in 0..N
  BY WatchdogAssumption DEF Run
<1>4. flowing' \in [Pad -> BOOLEAN]
  BY <1>1, Zenon
<1>5. TypeOK'
  BY <1>2, <1>3, <1>4 DEF IInv, TypeOK, streamVars
<1>6. FlowingIsLinked'
  <2> SUFFICES ASSUME NEW i \in Pad, flowing'[i]
               PROVE  muxPad'[i] = "linked" /\ \E n \in Pad : child'[n] = i
    BY DEF FlowingIsLinked
  <2>1. muxPad[i] = "linked"
    BY <1>1, Zenon
  <2>2. \E n \in Pad : child[n] = i
    BY <1>1, <2>1, Zenon DEF IInv, LinkedAtStartup, InPipeline
  <2> QED BY <1>2, <2>1, <2>2
<1> QED
  BY <1>2, <1>3, <1>5, <1>6 DEF IInv, streamVars, Startup, Counters, Registered,
     LinkedAtStartup, Blocked

----------------------------------------------------------------------------
(* Steps that only touch frames, cameras or the main loop's position       *)

\* What the reset cycle is about does not change.
SameStreams ==
    UNCHANGED <<source_bin, noFrameCount, reset, num_sources_, binName, child,
                muxPad, memory>>

LEMMA SameStreamsStep ==
    ASSUME IInv, SameStreams, TypeOK', Startup', FlowingIsLinked', Blocked',
           phase' = "add" => phase = "add"
    PROVE  IInv'
<1>1. Counters' /\ Registered'
  BY DEF IInv, SameStreams, Counters, Registered
<1>2. LinkedAtStartup'
  BY DEF IInv, SameStreams, LinkedAtStartup, InPipeline
<1> QED
  BY <1>1, <1>2 DEF IInv

LEMMA CameraStep ==
    ASSUME IInv, NEW i \in Pad,
           CameraChanges(i) \/ BinDies(i) \/ Produce(i) \/ ProbeCounts(i)
    PROVE  IInv'
<1> USE DEF streamVars, gstVars, mainVars
<1>1. SameStreams
  BY DEF SameStreams, CameraChanges, BinDies, Produce, ProbeCounts
<1>2. UNCHANGED mainVars
  BY DEF CameraChanges, BinDies, Produce, ProbeCounts
<1>3. /\ camera' \in [Pad -> BOOLEAN]
      /\ flowing' \in [Pad -> BOOLEAN]
      /\ inFlight' \in [Pad -> BOOLEAN]
  BY ZenonT(40) DEF IInv, TypeOK, CameraChanges, BinDies, Produce, ProbeCounts
<1>4. frameCount' \in [Pad -> {0, 1}] /\ silent' \in [Pad -> 0..(NO_FRAME_LIMIT + 1)]
  <2>1. CASE UNCHANGED <<frameCount, silent>>
    BY <2>1 DEF IInv, TypeOK
  <2>2. CASE ProbeCounts(i)
    BY <2>2, WatchdogAssumption DEF IInv, TypeOK, ProbeCounts
  <2> QED
    BY <2>1, <2>2 DEF CameraChanges, BinDies, Produce
<1>5. TypeOK'
  BY <1>1, <1>2, <1>3, <1>4 DEF IInv, TypeOK, SameStreams
<1>6. \A j \in Pad : flowing'[j] => flowing[j]
  BY Zenon DEF IInv, TypeOK, CameraChanges, BinDies, Produce, ProbeCounts
<1> QED
  BY <1>1, <1>2, <1>5, <1>6, SameStreamsStep
     DEF IInv, SameStreams, Startup, Blocked, FlowingIsLinked, InPipeline

LEMMA TimerStep == IInv /\ (TimerFires \/ ZeroCount) => IInv'
<1> SUFFICES ASSUME IInv, TimerFires \/ ZeroCount PROVE IInv'
  OBVIOUS
<1> USE DEF streamVars, gstVars, mainVars
<1>1. SameStreams /\ UNCHANGED <<flowing, phase, inFlight, camera, silent>>
  BY DEF SameStreams, TimerFires, ZeroCount
<1>2. frameCount' \in [Pad -> {0, 1}]
  BY DEF IInv, TypeOK, TimerFires, ZeroCount
<1>3. examined' \in BOOLEAN /\ ticking' \in BOOLEAN
  BY Zenon DEF IInv, TypeOK, TimerFires, ZeroCount
<1>4. cursor' \in 0..N /\ phase = "run"
  BY WatchdogAssumption DEF IInv, TypeOK, TimerFires, ZeroCount
<1>5. TypeOK'
  BY <1>1, <1>2, <1>3, <1>4 DEF IInv, TypeOK, SameStreams
<1> QED
  BY <1>1, <1>4, <1>5, SameStreamsStep
     DEF IInv, SameStreams, Startup, Blocked, FlowingIsLinked

LEMMA UnblockedStep == IInv /\ Unblocked => IInv'
<1> SUFFICES ASSUME IInv, Unblocked PROVE IInv'
  OBVIOUS
<1> USE DEF streamVars, gstVars, mainVars
<1>1. /\ SameStreams
      /\ UNCHANGED <<frameCount, cursor, examined, ticking, inFlight, camera, silent>>
  BY DEF SameStreams, Unblocked
<1>2. cursor \in Pad /\ muxPad[cursor] = "linked" /\ InPipeline(cursor)
  BY DEF IInv, Blocked, Unblocked
<1>3. /\ flowing' \in [Pad -> BOOLEAN]
      /\ \A j \in Pad : j # cursor => flowing'[j] = flowing[j]
  BY <1>2, Zenon DEF IInv, TypeOK, Unblocked
<1>4. phase' = "run"
  BY DEF Unblocked
<1>5. FlowingIsLinked'
  BY <1>1, <1>2, <1>3 DEF IInv, FlowingIsLinked, InPipeline, SameStreams
<1>6. TypeOK'
  BY <1>1, <1>3, <1>4 DEF IInv, TypeOK, SameStreams
<1> QED
  BY <1>1, <1>4, <1>5, <1>6, SameStreamsStep DEF Startup, Blocked

LEMMA BusStep == IInv /\ BusError => IInv'
<1> SUFFICES ASSUME IInv, BusError PROVE IInv'
  OBVIOUS
<1> USE DEF streamVars, gstVars, mainVars
<1>1. /\ SameStreams /\ phase' = "quit"
      /\ UNCHANGED <<frameCount, flowing, cursor, examined, ticking, inFlight,
                     camera, silent>>
  BY DEF SameStreams, BusError
<1>2. TypeOK'
  BY <1>1 DEF IInv, TypeOK, SameStreams
<1>3. FlowingIsLinked'
  BY <1>1 DEF IInv, FlowingIsLinked, SameStreams
<1> QED
  BY <1>1, <1>2, <1>3, SameStreamsStep DEF Startup, Blocked

----------------------------------------------------------------------------
(* check_performance                                                       *)

LEMMA ExaminingFacts ==
    ASSUME TypeOK, NEW i \in Pad, Examining(i)
    PROVE  /\ phase = "run" /\ ticking /\ cursor = i
           /\ silent' \in [Pad -> 0..(NO_FRAME_LIMIT + 1)]
BY WatchdogAssumption DEF TypeOK, Examining

\* The actions that leave the bins alone.
LEMMA ExamineCounterStep ==
    ASSUME IInv, NEW i \in Pad,
           \/ ExamineUnwatched(i) \/ ExamineAlive(i) \/ ExamineSilent(i)
           \/ ExamineWaiting(i)
    PROVE  IInv'
<1> USE WatchdogAssumption DEF streamVars, gstVars
<1>1. Examining(i)
  BY DEF ExamineUnwatched, ExamineAlive, ExamineSilent, ExamineWaiting
<1>2. /\ phase = "run" /\ cursor = i
      /\ silent' \in [Pad -> 0..(NO_FRAME_LIMIT + 1)]
  BY <1>1, ExaminingFacts DEF IInv
<1>3. UNCHANGED <<source_bin, num_sources_, frameCount, gstVars, phase, cursor,
                  ticking, inFlight, camera, memory>>
  BY DEF ExamineUnwatched, ExamineAlive, ExamineSilent, ExamineWaiting
<1>4. examined' \in BOOLEAN
  BY Zenon DEF ExamineUnwatched, ExamineAlive, ExamineSilent, ExamineWaiting
<1>5. /\ noFrameCount' \in [Pad -> 0..(READD_LIMIT + 1)]
      /\ reset' \in [Pad -> {"NONE", "WAITING", "ADD_STREAM"}]
      /\ Counters'
  <2>1. CASE ExamineUnwatched(i)
    BY <2>1, <1>3 DEF ExamineUnwatched, IInv, TypeOK, Counters
  <2>2. CASE ExamineAlive(i)
    BY <2>2, <1>3 DEF ExamineAlive, IInv, TypeOK, Counters
  <2>3. CASE ExamineSilent(i)
    BY <2>3, <1>3 DEF ExamineSilent, OneMore, NoFrames, Late, IInv, TypeOK, Counters
  <2>4. CASE ExamineWaiting(i)
    <3>1. noFrameCount' = [noFrameCount EXCEPT ![i] = @ + 1] /\ reset[i] = "WAITING"
      BY <2>4 DEF ExamineWaiting, OneMore
    <3>2. noFrameCount[i] < READD_LIMIT
      BY <3>1 DEF IInv, Counters
    <3>3. CASE noFrameCount[i] + 1 >= READD_LIMIT
      <4>1. reset' = [reset EXCEPT ![i] = "ADD_STREAM"]
        BY <2>4, <3>3 DEF ExamineWaiting
      <4> QED BY <1>3, <3>1, <3>2, <4>1 DEF IInv, TypeOK, Counters
    <3>4. CASE ~(noFrameCount[i] + 1 >= READD_LIMIT)
      <4>1. reset' = reset
        BY <2>4, <3>4 DEF ExamineWaiting
      <4> QED BY <1>3, <3>1, <3>2, <3>4, <4>1 DEF IInv, TypeOK, Counters
    <3> QED BY <3>3, <3>4
  <2> QED BY <2>1, <2>2, <2>3, <2>4
<1>6. TypeOK'
  BY <1>2, <1>3, <1>4, <1>5 DEF IInv, TypeOK
<1>7. Registered' /\ FlowingIsLinked'
  BY <1>3 DEF IInv, Registered, FlowingIsLinked
<1> QED
  BY <1>2, <1>3, <1>5, <1>6, <1>7 DEF IInv, Startup, LinkedAtStartup, Blocked

LEMMA ExamineDeleteStep ==
    ASSUME IInv, NEW i \in Pad, ExamineDelete(i)
    PROVE  IInv'
<1> USE WatchdogAssumption
<1>1. /\ phase = "run" /\ cursor = i
      /\ silent' \in [Pad -> 0..(NO_FRAME_LIMIT + 1)]
  BY ExaminingFacts DEF IInv, ExamineDelete
<1>2. /\ UNCHANGED <<num_sources_, frameCount, binName, phase, cursor, ticking,
                     inFlight, camera>>
      /\ DeleteSource(i)
      /\ reset[i] = "NONE" /\ reset' = [reset EXCEPT ![i] = "WAITING"]
      /\ noFrameCount' = [noFrameCount EXCEPT ![i] = @ + 1]
      /\ source_bin[i] # "null"
  BY DEF ExamineDelete, OneMore, Late, NoFrames, Watched
<1>3. /\ BinTypes' /\ flowing' \in [Pad -> BOOLEAN]
      /\ Registered' /\ FlowingIsLinked'
      /\ \A k \in Pad : source_bin[k] # "null" <=> source_bin'[k] # "null"
  BY <1>2, DeleteSourceStep DEF IInv
<1>4. examined' \in BOOLEAN
  BY Zenon DEF ExamineDelete
<1>5. noFrameCount[i] <= NO_FRAME_LIMIT
  BY <1>2 DEF IInv, Counters
<1>6. /\ noFrameCount' \in [Pad -> 0..(READD_LIMIT + 1)]
      /\ reset' \in [Pad -> {"NONE", "WAITING", "ADD_STREAM"}]
  BY <1>2, <1>5 DEF IInv, TypeOK
<1>7. Counters'
  BY <1>2, <1>3, <1>5 DEF IInv, TypeOK, Counters
<1>8. TypeOK'
  BY <1>1, <1>2, <1>3, <1>4, <1>6 DEF IInv, TypeOK, BinTypes
<1> QED
  BY <1>1, <1>2, <1>3, <1>7, <1>8 DEF IInv, Startup, LinkedAtStartup, Blocked

LEMMA ExamineAddStep ==
    ASSUME IInv, NEW i \in Pad, ExamineAdd(i)
    PROVE  IInv'
<1> USE WatchdogAssumption
<1>1. /\ phase = "run" /\ cursor = i
      /\ silent' \in [Pad -> 0..(NO_FRAME_LIMIT + 1)]
  BY ExaminingFacts DEF IInv, ExamineAdd
<1>2. /\ UNCHANGED <<num_sources_, cursor, ticking, inFlight, camera>>
      /\ reset[i] = "ADD_STREAM" /\ source_bin[i] # "null"
  BY DEF ExamineAdd, Late, NoFrames, Watched
<1>3. examined' \in BOOLEAN
  BY Zenon DEF ExamineAdd
<1>4. CASE /\ CreateFails(i)
           /\ OneMore(i)
           /\ source_bin' = [source_bin EXCEPT ![i] = "null"]
           /\ UNCHANGED <<flowing, phase>>
  <2>1. noFrameCount[i] <= READD_LIMIT
    BY <1>2 DEF IInv, Counters
  <2>2. /\ noFrameCount' = [noFrameCount EXCEPT ![i] = @ + 1]
        /\ UNCHANGED <<frameCount, reset, binName, child, muxPad, memory>>
    BY <1>4 DEF OneMore, CreateFails
  <2>3. TypeOK'
    BY <1>1, <1>2, <1>3, <1>4, <2>1, <2>2 DEF IInv, TypeOK
  <2>4. Counters'
    BY <1>2, <1>4, <2>2 DEF IInv, TypeOK, Counters
  <2>5. Registered' /\ FlowingIsLinked'
    BY <1>4, <2>2 DEF IInv, TypeOK, Registered, FlowingIsLinked
  <2> QED
    BY <1>1, <1>4, <2>3, <2>4, <2>5 DEF IInv, Startup, LinkedAtStartup, Blocked
<1>5. CASE CreateBin(i, i) /\ (IF Connected(i) THEN Play(i) ELSE UNCHANGED <<flowing, phase>>)
  <2>1. /\ BinTypes' /\ StreamTypes' /\ Registered' /\ Counters'
        /\ \A j \in Pad : muxPad[j] = "linked" => muxPad'[j] = "linked"
        /\ \A j \in Pad : InPipeline(j) => InPipeline(j)'
        /\ \A j \in Pad : muxPad[j] # "linked" /\ muxPad'[j] = "linked"
              => j = i /\ InPipeline(j)'
    BY <1>5, CreateBinStep DEF IInv
  <2>2. Connected(i) => muxPad'[i] = "linked" /\ InPipeline(i)'
    BY <2>1 DEF Connected
  <2>3. \/ flowing' = flowing
        \/ flowing' = [flowing EXCEPT ![i] = TRUE] /\ Connected(i)
    BY <1>5 DEF Play
  <2>4. flowing' \in [Pad -> BOOLEAN] /\ \A j \in Pad : j # i => flowing'[j] = flowing[j]
    BY <2>3, Zenon DEF IInv, TypeOK
  <2>5. FlowingIsLinked'
    <3> SUFFICES ASSUME NEW j \in Pad, flowing'[j]
                 PROVE  muxPad'[j] = "linked" /\ InPipeline(j)'
      BY DEF FlowingIsLinked, InPipeline
    <3>1. CASE flowing[j]
      <4>1. muxPad[j] = "linked" /\ InPipeline(j)
        BY <3>1, Zenon DEF IInv, FlowingIsLinked, InPipeline
      <4> QED BY <2>1, <4>1, Zenon
    <3>2. CASE ~flowing[j]
      <4>1. j = i /\ Connected(i)
        BY <2>3, <2>4, <3>2, Zenon
      <4> QED BY <2>2, <4>1, Zenon
    <3> QED BY <3>1, <3>2
  <2>6. phase' \in {"run", "blocked"} /\ (phase' = "blocked" => Connected(i))
    BY <1>1, <1>5 DEF Play
  <2>7. TypeOK'
    BY <1>1, <1>2, <1>3, <2>1, <2>4, <2>6 DEF IInv, TypeOK, BinTypes, StreamTypes
  <2>8. Blocked'
    <3>1. cursor' = i
      BY <1>1, <1>2
    <3> QED BY <2>2, <2>6, <3>1 DEF Blocked, InPipeline
  <2> QED
    BY <1>1, <1>2, <2>1, <2>5, <2>6, <2>7, <2>8
       DEF IInv, Startup, LinkedAtStartup
<1> QED
  BY <1>4, <1>5 DEF ExamineAdd

----------------------------------------------------------------------------
LEMMA InvStep == IInv /\ [Next]_vars => IInv'
<1> SUFFICES ASSUME IInv, [Next]_vars PROVE IInv'
  OBVIOUS
<1>1. CASE UNCHANGED vars
  BY <1>1 DEF vars, streamVars, gstVars, mainVars, IInv, TypeOK, Startup, Counters,
     Registered, LinkedAtStartup, FlowingIsLinked, InPipeline, Blocked
<1>2. CASE MainLoop
  <2>1. ASSUME NEW i \in Pad, Examine(i) PROVE IInv'
    BY <2>1, ExamineCounterStep, ExamineDeleteStep, ExamineAddStep DEF Examine
  <2> QED
    BY <1>2, <2>1, AddStep, RunStep, TimerStep, UnblockedStep DEF MainLoop
<1> QED
  BY <1>1, <1>2, BusStep, CameraStep DEF Next

\* Every reachable state satisfies the inductive invariant.
THEOREM Invariant == Spec => []IInv
BY InvInit, InvStep, PTL DEF Spec

\* The variables keep their types; in particular the counters of silent ticks
\* and the loop over streams_ are bounded (perception.cpp:85-152).
THEOREM TypeCorrect == Spec => []TypeOK
BY Invariant, PTL DEF IInv

----------------------------------------------------------------------------
(* No freed bin is used when the numberings agree                          *)

\* The sources still to be added have neither pad nor bin.
ToAdd ==
    phase = "add" =>
        /\ num_sources_ = cursor
        /\ \A k \in Pad : k >= cursor => muxPad[k] = "absent" /\ child[k] = Nobody

\* A bin is in the pipeline under its own pad's name, if at all, and only
\* while its stream waits for the new one does streams_ hold a freed one.
Own ==
    \A n \in Pad :
        /\ child[n] \in {Nobody, n}
        /\ child[n] = n <=> source_bin[n] = "child"
        /\ source_bin[n] = "freed" => reset[n] # "NONE"
        /\ reset[n] # "NONE" => source_bin[n] # "child"

Sound == NamesArePads => memory = "sound" /\ ToAdd /\ Own

LEMMA SoundInit == Init => Sound
<1> SUFFICES ASSUME Init PROVE memory = "sound" /\ ToAdd /\ Own
  BY DEF Sound
<1> QED
  BY PadFacts DEF Init, ToAdd, Own

\* A bin made under its pad's free name is linked, if its pad is not yet.
LEMMA CreateOwnBin ==
    ASSUME TypeOK, Own, memory = "sound", "link" \notin Faults,
           NEW i \in Pad, CreateBin(i, i), child[i] = Nobody
    PROVE  /\ memory' = "sound" /\ Own'
           /\ muxPad[i] = "absent" => Connected(i)
           /\ \A k \in Pad : k # i => muxPad'[k] = muxPad[k] /\ child'[k] = child[k]
<1>1. /\ source_bin' = [source_bin EXCEPT ![i] = "child"]
      /\ child' = [child EXCEPT ![i] = i]
      /\ reset' = [reset EXCEPT ![i] = "NONE"]
  BY Zenon DEF CreateBin, AddToPipeline
<1>2. /\ memory' = memory
      /\ \/ muxPad[i] # "absent" /\ muxPad' = muxPad
         \/ muxPad[i] = "absent" /\ muxPad' = [muxPad EXCEPT ![i] = "linked"]
  BY Zenon DEF CreateBin, ConnectMuxer
<1>3. Own'
  BY <1>1, PadFacts DEF Own, TypeOK
<1> QED
  BY <1>1, <1>2, <1>3 DEF TypeOK, Connected

LEMMA SoundAdd ==
    ASSUME IInv, NamesArePads, Sound, AddAtStartup
    PROVE  memory' = "sound" /\ ToAdd' /\ Own'
<1>1. /\ memory = "sound" /\ ToAdd /\ Own /\ phase = "add" /\ num_sources_ = cursor
      /\ cursor \in 0..N /\ cursor < N /\ cursor' = cursor + 1 /\ N \in Nat
  BY WatchdogAssumption DEF Sound, ToAdd, AddAtStartup, IInv, TypeOK
<1>2. cursor \in Pad /\ PadOf[cursor] = cursor /\ "link" \notin Faults
  BY <1>1 DEF Pad, NamesArePads
<1>3. CreateBin(cursor, cursor)
  BY <1>1, <1>2 DEF AddAtStartup
<1>4. child[cursor] = Nobody /\ muxPad[cursor] = "absent"
  BY <1>1, <1>2 DEF ToAdd
<1>5. /\ memory' = "sound" /\ Own' /\ Connected(cursor)
      /\ \A k \in Pad : k # cursor => muxPad'[k] = muxPad[k] /\ child'[k] = child[k]
  BY <1>1, <1>2, <1>3, <1>4, CreateOwnBin DEF IInv
<1>6. num_sources_' = cursor + 1
  BY <1>1, <1>2, <1>5 DEF AddAtStartup
<1>7. ToAdd'
  <2> SUFFICES ASSUME NEW k \in Pad, k >= cursor'
               PROVE  muxPad'[k] = "absent" /\ child'[k] = Nobody
    BY <1>1, <1>6 DEF ToAdd
  <2>1. k # cursor /\ k >= cursor
    BY <1>1, PadFacts
  <2> QED
    BY <1>1, <1>5, <2>1 DEF ToAdd
<1> QED
  BY <1>5, <1>7

LEMMA SoundDelete ==
    ASSUME IInv, NamesArePads, Sound, NEW i \in Pad, ExamineDelete(i)
    PROVE  memory' = "sound" /\ ToAdd' /\ Own'
<1>1. /\ memory = "sound" /\ Own /\ phase' = "run"
      /\ reset[i] = "NONE" /\ reset' = [reset EXCEPT ![i] = "WAITING"]
      /\ source_bin[i] # "null" /\ DeleteSource(i) /\ "delete" \notin Faults
  BY DEF Sound, ExamineDelete, Examining, Late, NoFrames, Watched, NamesArePads
<1>2. source_bin[i] = "child"
  BY <1>1 DEF Own, IInv, TypeOK
<1>3. /\ memory' = memory
      /\ child' = [child EXCEPT ![binName[i]] = Nobody]
      /\ source_bin' = [source_bin EXCEPT ![i] = "freed"]
  BY <1>1, <1>2 DEF DeleteSource, DeleteChild, DeleteFreed
<1>4. binName[i] = i
  <2>1. binName[i] \in Pad /\ child[binName[i]] = i
    BY <1>2 DEF IInv, TypeOK, Registered
  <2> QED BY <1>1, <2>1, PadFacts DEF Own
<1>5. Own'
  BY <1>1, <1>3, <1>4, PadFacts DEF Own, IInv, TypeOK
<1> QED
  BY <1>1, <1>3, <1>5 DEF ToAdd

LEMMA SoundExamineAdd ==
    ASSUME IInv, NamesArePads, Sound, NEW i \in Pad, ExamineAdd(i)
    PROVE  memory' = "sound" /\ ToAdd' /\ Own'
<1>1. /\ memory = "sound" /\ Own /\ phase = "run" /\ reset[i] = "ADD_STREAM"
      /\ "link" \notin Faults
  BY DEF Sound, ExamineAdd, Examining, NamesArePads
<1>2. child[i] = Nobody /\ source_bin[i] # "child"
  BY <1>1 DEF Own
<1>3. phase' # "add"
  BY <1>1 DEF ExamineAdd, Play
<1>4. CASE CreateFails(i) /\ source_bin' = [source_bin EXCEPT ![i] = "null"]
  <2>1. UNCHANGED <<reset, child, memory>>
    BY <1>4 DEF CreateFails
  <2>2. Own'
    BY <1>1, <1>2, <1>4, <2>1, PadFacts DEF Own, IInv, TypeOK
  <2> QED
    BY <1>1, <1>3, <2>1, <2>2 DEF ToAdd
<1>5. CASE CreateBin(i, i)
  BY <1>1, <1>2, <1>3, <1>5, CreateOwnBin DEF IInv, ToAdd
<1> QED
  BY <1>4, <1>5 DEF ExamineAdd

\* The other steps leave bins, names and pads alone.
LEMMA SoundOther ==
    ASSUME IInv, Sound, NamesArePads,
           UNCHANGED <<source_bin, child, muxPad, memory>>,
           \/ phase' # "add"
           \/ UNCHANGED <<phase, num_sources_, cursor>>,
           \/ UNCHANGED reset
           \/ \E i \in Pad : ExamineWaiting(i)
    PROVE  memory' = "sound" /\ ToAdd' /\ Own'
<1>1. memory' = "sound" /\ ToAdd'
  BY DEF Sound, ToAdd
<1>2. CASE UNCHANGED reset
  BY <1>1, <1>2 DEF Sound, Own
<1>3. CASE \E i \in Pad : ExamineWaiting(i)
  <2>1. PICK i \in Pad : ExamineWaiting(i)
    BY <1>3
  <2>2. /\ reset[i] = "WAITING"
        /\ \/ reset' = reset
           \/ reset' = [reset EXCEPT ![i] = "ADD_STREAM"]
    BY <2>1, Zenon DEF ExamineWaiting
  <2>3. \A n \in Pad : reset[n] # "NONE" <=> reset'[n] # "NONE"
    BY <2>2 DEF IInv, TypeOK
  <2> QED BY <1>1, <2>3 DEF Sound, Own
<1> QED
  BY <1>2, <1>3

LEMMA SoundStep == IInv /\ Sound /\ [Next]_vars => Sound'
<1> SUFFICES ASSUME IInv, Sound, [Next]_vars, NamesArePads
             PROVE  memory' = "sound" /\ ToAdd' /\ Own'
  BY DEF Sound, NamesArePads
<1>1. CASE UNCHANGED vars
  BY <1>1, SoundOther DEF vars, streamVars, gstVars, mainVars
<1>2. CASE AddAtStartup
  BY <1>2, SoundAdd
<1>3. CASE Run \/ TimerFires \/ ZeroCount \/ Unblocked \/ BusError
  BY <1>3, SoundOther DEF Run, TimerFires, ZeroCount, Unblocked, BusError, streamVars,
     gstVars
<1>4. ASSUME NEW i \in Pad, Examine(i)
      PROVE  memory' = "sound" /\ ToAdd' /\ Own'
  <2>1. CASE ExamineDelete(i)
    BY <2>1, SoundDelete
  <2>2. CASE ExamineAdd(i)
    BY <2>2, SoundExamineAdd
  <2>3. CASE ExamineUnwatched(i) \/ ExamineAlive(i) \/ ExamineSilent(i)
    BY <2>3, SoundOther DEF ExamineUnwatched, ExamineAlive, ExamineSilent, Examining,
       streamVars, gstVars
  <2>4. CASE ExamineWaiting(i)
    <3>1. /\ UNCHANGED <<source_bin, child, muxPad, memory>> /\ phase' # "add"
      BY <2>4 DEF ExamineWaiting, Examining, gstVars
    <3> QED BY <2>4, <3>1, SoundOther
  <2> QED BY <1>4, <2>1, <2>2, <2>3, <2>4 DEF Examine
<1>5. ASSUME NEW i \in Pad,
             CameraChanges(i) \/ BinDies(i) \/ Produce(i) \/ ProbeCounts(i)
      PROVE  memory' = "sound" /\ ToAdd' /\ Own'
  BY <1>5, SoundOther DEF CameraChanges, BinDies, Produce, ProbeCounts, streamVars,
     gstVars, mainVars
<1> QED
  BY <1>1, <1>2, <1>3, <1>4, <1>5 DEF Next, MainLoop

\* With the pads in the order of sources.yml and a GStreamer that links and
\* deletes what it is asked to, no freed bin is handed to it, whatever else
\* fails: create, play and bus errors included (perception.cpp:105-135,
\* Pipeline.cpp:983-1006, :1047).
THEOREM FreedIsUnusedHolds == Spec => []FreedIsUnused
<1>1. Sound => FreedIsUnused
  BY DEF Sound, FreedIsUnused
<1> QED
  BY <1>1, SoundInit, SoundStep, Invariant, PTL DEF Spec

----------------------------------------------------------------------------
\* Frames only come through a linked pad whose bin is in the pipeline, after
\* any history of resets and faults (Pipeline.cpp:1003-1010, :1050-1060).
THEOREM FlowingIsLinkedHolds == Spec => []FlowingIsLinked
BY Invariant, PTL DEF IInv

\* Resetting one stream stops no other, as long as no freed bin was used
\* (perception.cpp:105-121, Pipeline.cpp:1041-1084).
THEOREM NoCollateralHolds == Spec => NoCollateral
<1> DEFINE Stops(i) == memory' = "sound" /\ flowing[i] /\ ~flowing'[i]
           Excused(i) == ~camera[i] \/ (ticking /\ cursor = i /\ Late(i))
<1>1. ASSUME IInv, [Next]_vars, NEW i \in Pad, Stops(i) PROVE Excused(i)
  <2>1. flowing' # flowing
    BY <1>1
  <2>2. CASE Run
    <3>1. flowing'[i] = (muxPad[i] = "linked")
      BY <2>2, Zenon DEF Run
    <3> QED BY <1>1, <3>1 DEF IInv, FlowingIsLinked
  <2>3. CASE Unblocked
    <3>1. flowing' = [flowing EXCEPT ![cursor] = TRUE] /\ flowing \in [Pad -> BOOLEAN]
      BY <1>1, <2>3 DEF Unblocked, IInv, TypeOK
    <3> QED BY <1>1, <3>1, Zenon
  <2>4. ASSUME NEW j \in Pad, ExamineDelete(j) PROVE Excused(i)
    <3>1. ticking /\ cursor = j /\ Late(j)
      BY <1>1, <2>4, ExaminingFacts DEF ExamineDelete, IInv
    <3>2. \A k \in Pad : k # j => flowing'[k] = flowing[k]
      BY <1>1, <2>4, DeleteIsLocal DEF ExamineDelete, IInv
    <3>3. i = j
      BY <1>1, <3>2, Zenon
    <3> QED BY <3>1, <3>3
  <2>5. ASSUME NEW j \in Pad, ExamineAdd(j) PROVE Excused(i)
    <3>1. flowing' = [flowing EXCEPT ![j] = TRUE] /\ flowing \in [Pad -> BOOLEAN]
      BY <1>1, <2>1, <2>5 DEF ExamineAdd, Play, IInv, TypeOK
    <3> QED BY <1>1, <3>1, Zenon
  <2>6. ASSUME NEW j \in Pad, BinDies(j) PROVE Excused(i)
    <3>1. flowing' = [flowing EXCEPT ![j] = FALSE] /\ flowing \in [Pad -> BOOLEAN]
          /\ ~camera[j]
      BY <1>1, <2>6 DEF BinDies, IInv, TypeOK
    <3>2. i = j
      BY <1>1, <3>1, Zenon
    <3> QED BY <3>1, <3>2
  <2> QED
    BY <1>1, <2>1, <2>2, <2>3, <2>4, <2>5, <2>6 DEF Next, MainLoop, Examine, vars,
       gstVars, AddAtStartup, TimerFires, ZeroCount, ExamineUnwatched, ExamineAlive,
       ExamineSilent, ExamineWaiting, BusError, CameraChanges, Produce, ProbeCounts
<1>2. IInv /\ [Next]_vars => [\A i \in Pad : Stops(i) => Excused(i)]_vars
  BY <1>1
<1> QED
  BY <1>2, Invariant, PTL DEF Spec, NoCollateral

=============================================================================
