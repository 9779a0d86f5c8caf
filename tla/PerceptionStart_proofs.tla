------------------------ MODULE PerceptionStart_proofs ------------------------
(***************************************************************************)
(* Theorems about the composition, for pipelines, models, files and batches*)
(* of any size.  It implements PipelineGraph, so what is proved there holds*)
(* here, and createEngine releases what it made.  Of the engine: the two   *)
(* parsers of a plugin agree, a plugin survives its serialization, and the *)
(* plugin that runs is that of its own file, its heads those of the        *)
(* detection blocks in order; its references and its number of weights are *)
(* those that the file means.  Of an inference: the kernels read the whole *)
(* of every head and write every slot of the outputs once.                 *)
(***************************************************************************)
EXTENDS PerceptionStart, PipelineGraph_proofs

\* The inference element and the engine's construction take no step of the
\* pipeline's own, and the other actions are the pipeline's
\* (Pipeline.cpp:558-567).
THEOREM Implementation == PerceptionSpec => Spec
<1>1. PerceptionInit => Init
  BY DEF PerceptionInit
<1>2. [PerceptionNext]_allVars => [Next]_vars
  <2> SUFFICES ASSUME [PerceptionNext]_allVars PROVE [Next]_vars
    OBVIOUS
  <2>1. CASE Assemble
    BY <2>1 DEF Assemble, Next, Start
  <2>2. CASE LoadEngine
    BY <2>2 DEF LoadEngine
  <2>3. CASE PlayLoaded
    BY <2>3 DEF PlayLoaded, Next, Start
  <2>4. CASE PlayFails
    BY <2>4 DEF PlayFails, Next, Start
  <2>5. CASE StartAgain
    BY <2>5 DEF StartAgain, Next, Start
  <2>6. CASE Infer
    BY <2>6 DEF Infer
  <2>7. CASE Stop
    BY <2>7 DEF Stop, Next
  <2>8. CASE UNCHANGED allVars
    BY <2>8 DEF allVars
  <2>9. CASE PlayEnds \/ PlayWaits
    BY <2>9 DEF PlayEnds, PlayWaits, Next, Start
  <2> QED
    BY <2>1, <2>2, <2>3, <2>4, <2>5, <2>6, <2>7, <2>8, <2>9 DEF PerceptionNext, Starting
<1> QED
  BY <1>1, <1>2, PTL DEF PerceptionSpec, Spec

\* The bin of a perception that waits for its engine, infers and starts again
\* is as PipelineGraph has it (Pipeline.cpp:823-890).
THEOREM ComposedTypeCorrect == PerceptionSpec => []TypeOK
BY Implementation, TypeCorrect, PTL

\* A pipeline with both network sinks does not run, whatever its engine
\* (Pipeline.cpp:645-684).
THEOREM ComposedOneNetworkSink == PerceptionSpec => []OneNetworkSink
BY Implementation, OneNetworkSinkHolds, PTL

\* What a running perception shows and streams has passed the probe, whatever
\* its engine and however often it was started (Pipeline.cpp:841-890).
THEOREM ComposedSinksSeeProbedFrames == PerceptionSpec => []SinksSeeProbedFrames
BY Implementation, SinksSeeProbedFramesHolds, PTL

\* It holds no element without buffers (Pipeline.cpp:563).
THEOREM ComposedNoStrayElement == PerceptionSpec => []NoStrayElement
BY Implementation, NoStrayElementHolds, PTL

----------------------------------------------------------------------------
(* createEngine                                                            *)

\* What is allocated in each phase, by kind of model.
Owned ==
    /\ phase \in {"off", "create"} => live = {}
    /\ phase = "onnx" => ~Darknet /\ live = {"network", "parser"}
    /\ phase = "cfg" => Darknet /\ live = {"network"}
    /\ phase = "blocks" =>
         /\ Darknet /\ WeightsReadable
         /\ live \ {"sizes"} \in {{"network"}, {"network", "weights"}}
         /\ network.weightPtr > 0 => "weights" \in live
    /\ phase \in {"configure", "build"} =>
         live \ Unowned = {"network"} \union (IF Darknet THEN {"weights"} ELSE {"parser"})
    /\ phase \in {"built", "null"} => live \subseteq {"weights"} \union Unowned
    /\ phase \in {"returned", "loaded", "failed"} => live \subseteq Unowned
    /\ phase \in {"configure", "build", "built", "returned"} /\ Darknet => "plugin" \in live

\* A return of createEngine leaves at most the weights and what nobody owns,
\* from any phase in which it owns the network and its parser
\* (yolo.cpp:85-97, :182-197).
LEMMA ReturnNullKeepsOwned ==
    ASSUME Owned, phase \in {"onnx", "configure", "build"}, ReturnNull
    PROVE  Owned'
BY DEF Owned, ReturnNull, Goto, Deleted, Darknet, Unowned

\* One turn of the loop over the blocks (yolo.cpp:287-454).
LEMMA AddBlockKeepsOwned ==
    ASSUME Owned, AddBlock
    PROVE  Owned'
<1>1. phase = "blocks" /\ phase' = "blocks" /\ model' = model
  BY DEF AddBlock, Goto
<1>2. PICK sizes \in SUBSET {"sizes"} :
        live' = live \union sizes \union (IF network'.weightPtr > 0 THEN {"weights"} ELSE {})
  BY DEF AddBlock
<1>3. live \ {"sizes"} \in {{"network"}, {"network", "weights"}} /\ Darknet /\ WeightsReadable
  BY <1>1 DEF Owned
<1>4. live' \ {"sizes"} \in {{"network"}, {"network", "weights"}}
  BY <1>2, <1>3
<1>5. network'.weightPtr > 0 => "weights" \in live'
  BY <1>2
<1>6. Darknet' /\ WeightsReadable'
  BY <1>1, <1>3 DEF Darknet, WeightsReadable
<1> QED
  BY <1>1, <1>4, <1>5, <1>6 DEF Owned

\* The plugin is added only when all weights were used, and there are some
\* (yolo.cpp:456).
LEMMA AddPluginKeepsOwned ==
    ASSUME Owned, AddPlugin
    PROVE  Owned'
<1>1. phase = "blocks" /\ phase' = "configure" /\ model' = model
      /\ live' = live \union {"plugin"}
  BY DEF AddPlugin, Goto
<1>2. network.weightPtr = model.weights
  BY DEF AddPlugin, Complete
<1>3. live \ {"sizes"} = {"network", "weights"} /\ Darknet
  BY <1>1, <1>2 DEF Owned, WeightsReadable
<1>4. Darknet' /\ Unowned' = {"plugin", "sizes"}
  BY <1>1, <1>3 DEF Darknet, Unowned
<1>5. live' \ {"plugin", "sizes"} = {"network", "weights"} /\ "plugin" \in live'
  BY <1>1, <1>3
<1> QED
  BY <1>1, <1>4, <1>5 DEF Owned

LEMMA EngineKeepsOwned ==
    ASSUME Owned, EngineStep \/ EngineRefusal
    PROVE  Owned'
<1>1. CASE LoadFile
  BY <1>1 DEF LoadFile, Owned, Goto
<1>2. CASE GetEngine
  BY <1>2 DEF GetEngine, Owned, Goto
<1>3. CASE KeepFile
  BY <1>3 DEF KeepFile, Owned, Unowned, Darknet
<1>4. CASE CreateNetwork
  BY <1>4 DEF CreateNetwork, Owned, Goto, Darknet
<1>5. CASE ParseOnnx
  BY <1>5 DEF ParseOnnx, Owned, Goto, Darknet, Unowned
<1>6. CASE ParseCfg
  <2>1. phase = "cfg" /\ phase' = "blocks" /\ model' = model /\ live' = live
    BY <1>6 DEF ParseCfg, Goto
  <2>2. network'.weightPtr = 0
    BY <1>6 DEF ParseCfg, EmptyNetwork
  <2>3. Darknet' /\ WeightsReadable' /\ live' = {"network"}
    BY <1>6, <2>1 DEF ParseCfg, Owned, Darknet, WeightsReadable
  <2> QED
    BY <2>1, <2>2, <2>3 DEF Owned
<1>7. CASE AddBlock
  BY <1>7, AddBlockKeepsOwned
<1>8. CASE AddPlugin
  BY <1>8, AddPluginKeepsOwned
<1>9. CASE Abort
  BY <1>9 DEF Abort, Owned, Goto
<1>10. CASE Configure
  <2>1. CASE Uncalibrated
    BY <1>10, <2>1, ReturnNullKeepsOwned DEF Configure
  <2>2. CASE ~Uncalibrated
    BY <1>10, <2>2 DEF Configure, Owned, Goto, Darknet, Unowned
  <2> QED
    BY <2>1, <2>2
<1>11. CASE BuildEngine
  BY <1>11 DEF BuildEngine, Owned, Goto, Deleted, Darknet, Unowned
<1>12. CASE Return
  BY <1>12 DEF Return, Owned, Goto, Released, Darknet, Unowned
<1>13. CASE OnnxRefused
  BY <1>13, ReturnNullKeepsOwned DEF OnnxRefused
<1>14. CASE PlatformRefused
  BY <1>14 DEF PlatformRefused, Owned, Goto
<1>15. CASE BuildRefused
  BY <1>15, ReturnNullKeepsOwned DEF BuildRefused
<1> QED
  BY <1>1, <1>2, <1>3, <1>4, <1>5, <1>6, <1>7, <1>8, <1>9, <1>10, <1>11,
     <1>12, <1>13, <1>14, <1>15 DEF EngineStep, EngineRefusal

LEMMA OwnedAlways == PerceptionSpec => []Owned
<1>1. PerceptionInit => Owned
  BY DEF PerceptionInit, EngineInit, Owned
<1>2. Owned /\ [PerceptionNext]_allVars => Owned'
  <2> SUFFICES ASSUME Owned, [PerceptionNext]_allVars PROVE Owned'
    OBVIOUS
  <2>1. CASE UNCHANGED engineVars
    BY <2>1 DEF engineVars, Owned, Darknet, Unowned, WeightsReadable
  <2>2. CASE LoadEngine
    BY <2>2, EngineKeepsOwned DEF LoadEngine
  <2>3. CASE StartAgain
    BY <2>3 DEF StartAgain, EngineReset, Owned
  <2>4. CASE UNCHANGED engineVars \/ LoadEngine \/ StartAgain
    BY <2>1, <2>2, <2>3, <2>4
  <2>5. UNCHANGED engineVars \/ LoadEngine \/ StartAgain
    BY DEF PerceptionNext, Starting, Assemble, PlayLoaded, PlayFails, PlayEnds, PlayWaits, Infer, Stop,
           OthersWait, allVars
  <2> QED
    BY <2>4, <2>5
<1> QED
  BY <1>1, <1>2, PTL DEF PerceptionSpec

----------------------------------------------------------------------------
(* The kernels                                                             *)

\* A head as the plugin has it.
IsHead(t) ==
    /\ t.gridSizeX \in Nat /\ t.gridSizeY \in Nat /\ t.numBBoxes \in Nat

\* The rounded-up launches miss no cell and no box, and the test of the
\* kernel leaves no thread beyond them (yoloForward.cu:18, :70-72).
THEOREM ThreadsAreBoxes ==
    ASSUME NEW t, IsHead(t)
    PROVE  Threads(t) = [x : 0..(t.gridSizeX - 1), y : 0..(t.gridSizeY - 1),
                         z : 0..(t.numBBoxes - 1)]
<1>1. ASSUME NEW n \in Nat
      PROVE  Launched(n, 16) = 0..(n - 1) /\ Launched(n, 4) = 0..(n - 1)
  <2>1. n \div 16 \in Nat /\ n < 16 * (n \div 16 + 1)
    OBVIOUS
  <2>2. n \div 4 \in Nat /\ n < 4 * (n \div 4 + 1)
    OBVIOUS
  <2> QED
    BY <2>1, <2>2 DEF Launched
<1> QED
  BY <1>1 DEF Threads, IsHead

\* For a head that fits its input (numBBoxes boxes of 5 + numClasses values),
\* a kernel reads a value of a box at the row, column and channel where the
\* convolution before it put it (yoloForward.cu:21-45, yoloPlugins.cpp:237).
THEOREM InputIsImage ==
    ASSUME NEW p, NEW t, IsHead(t), p.numClasses \in Nat,
           NEW th \in Threads(t), NEW batch \in Nat, NEW v \in 0..(4 + p.numClasses)
    PROVE  LET values == 5 + p.numClasses
           IN  InputIndex(p, t, batch, th, v)
                 = ((batch * (t.numBBoxes * values) + th.z * values + v) * t.gridSizeY
                      + th.y) * t.gridSizeX + th.x
<1>1. th.x \in Int /\ th.y \in Int /\ th.z \in Int
  <2>1. Threads(t) = [x : 0..(t.gridSizeX - 1), y : 0..(t.gridSizeY - 1),
                      z : 0..(t.numBBoxes - 1)]
    BY ThreadsAreBoxes
  <2> QED
    BY <2>1
<1> DEFINE X == t.gridSizeX  Y == t.gridSizeY  C == p.numClasses  B == t.numBBoxes
<1>2. X \in Int /\ Y \in Int /\ C \in Int /\ B \in Int /\ v \in Int /\ batch \in Int
  BY DEF IsHead
<1>3. InputIndex(p, t, batch, th, v)
        = batch * (B * (4 + 1 + C) * (X * Y)) + th.y * X + th.x + X * Y * (th.z * (5 + C) + v)
  BY DEF InputIndex, InputSize, Cells
<1>4. ASSUME NEW x \in Int, NEW y \in Int, NEW z \in Int, NEW w \in Int,
             NEW h \in Int, NEW c \in Int, NEW b \in Int, NEW k \in Int, NEW n \in Int
      PROVE  n * (b * (4 + 1 + c) * (w * h)) + y * w + x + w * h * (z * (5 + c) + k)
               = ((n * (b * (5 + c)) + z * (5 + c) + k) * h + y) * w + x
  OBVIOUS
<1> HIDE DEF X, Y, C, B
<1>5. InputIndex(p, t, batch, th, v)
        = ((batch * (B * (5 + C)) + th.z * (5 + C) + v) * Y + th.y) * X + th.x
  BY <1>1, <1>2, <1>3, <1>4
<1> QED
  BY <1>5 DEF X, Y, C, B

LEMMA TimesMonotone ==
    ASSUME NEW a \in Nat, NEW b \in Nat, NEW c \in Nat, a < b
    PROVE  a * c + c <= b * c /\ a * c \in Nat
<1>1. PICK d \in Nat : b = a + 1 + d
  <2>1. b - a - 1 \in Nat /\ b = a + 1 + (b - a - 1)
    OBVIOUS
  <2> QED
    BY <2>1
<1>2. b * c = a * c + c + d * c
  BY <1>1
<1>3. d * c \in Nat /\ a * c \in Nat
  OBVIOUS
<1> QED
  BY <1>2, <1>3

\* A number has one quotient and one remainder by c.
LEMMA DigitsUnique ==
    ASSUME NEW c \in Nat, NEW a \in Nat, NEW b \in Nat,
           NEW r \in Nat, NEW s \in Nat, r < c, s < c, a * c + r = b * c + s
    PROVE  a = b /\ r = s
<1>1. a * c \in Nat /\ b * c \in Nat
  OBVIOUS
<1>2. CASE a < b
  BY <1>1, <1>2, TimesMonotone
<1>3. CASE b < a
  BY <1>1, <1>3, TimesMonotone
<1>4. CASE a = b
  BY <1>1, <1>4
<1> QED
  BY <1>2, <1>3, <1>4

\* On a square grid the boxes of a head get slots of their own, all between
\* those of the head before it and those of the next
\* (yoloForward.cu:50, yoloPlugins.cpp:267).
THEOREM SlotsApart ==
    ASSUME NEW p, NEW t, IsHead(t), t.gridSizeX = t.gridSizeY,
           p.outputSize \in Nat, NEW first \in Nat, NEW batch \in Nat,
           NEW th \in Threads(t)
    PROVE  /\ Slot(p, t, first, batch, th) >= batch * p.outputSize + first
           /\ Slot(p, t, first, batch, th)
                < batch * p.outputSize + first + t.numBBoxes * t.gridSizeY * t.gridSizeX
           /\ \A other \in Threads(t) :
                Slot(p, t, first, batch, other) = Slot(p, t, first, batch, th) => other = th
<1> DEFINE g == t.gridSizeX  n == t.numBBoxes  base == batch * p.outputSize + first
           At(x, y, z) == base + (z * g * g + y * g + x)
<1>1. g \in Nat /\ n \in Nat /\ base \in Int
  BY DEF IsHead
<1>2. \A o \in Threads(t) :
        /\ o.x \in 0..(g - 1) /\ o.y \in 0..(g - 1) /\ o.z \in 0..(n - 1)
        /\ o = [x |-> o.x, y |-> o.y, z |-> o.z]
        /\ Slot(p, t, first, batch, o) = At(o.x, o.y, o.z)
  <2>1. Threads(t) = [x : 0..(g - 1), y : 0..(g - 1), z : 0..(n - 1)]
    BY ThreadsAreBoxes
  <2>2. ASSUME NEW o \in Threads(t)
        PROVE  /\ o.x \in 0..(g - 1) /\ o.y \in 0..(g - 1) /\ o.z \in 0..(n - 1)
               /\ o = [x |-> o.x, y |-> o.y, z |-> o.z]
    BY <2>1, <2>2
  <2>3. ASSUME NEW o \in Threads(t)
        PROVE  Slot(p, t, first, batch, o) = At(o.x, o.y, o.z)
    <3>1. o.x \in Int /\ o.y \in Int /\ o.z \in Int
      BY <2>2
    <3>2. Slot(p, t, first, batch, o)
            = batch * p.outputSize + o.z * g * g + o.y * g + o.x + first
      BY DEF Slot
    <3>3. o.z * g * g \in Int /\ o.y * g \in Int /\ batch * p.outputSize \in Int
      BY <1>1, <3>1
    <3> QED
      BY <3>1, <3>2, <3>3
  <2> QED
    BY <2>2, <2>3
<1> HIDE DEF g, n, base
\* A box within its plane, and a row within it.
<1>3. ASSUME NEW x \in 0..(g - 1), NEW y \in 0..(g - 1)
      PROVE  y * g + x \in 0..(g * g - 1)
  <2>1. y * g \in Nat /\ y * g <= (g - 1) * g
    BY <1>1
  <2>2. (g - 1) * g = g * g - g
    BY <1>1
  <2> QED
    BY <1>1, <2>1, <2>2
<1>4. g * g \in Nat
  BY <1>1
<1>6. At(th.x, th.y, th.z) >= base /\ At(th.x, th.y, th.z) < base + n * g * g
  <2>1. th.y * g + th.x \in 0..(g * g - 1)
    BY <1>2, <1>3
  <2>2. th.z \in Nat /\ th.z < n
    BY <1>1, <1>2
  <2>3. th.z * (g * g) + g * g <= n * (g * g) /\ th.z * (g * g) \in Nat
    BY <1>1, <1>4, <2>2, TimesMonotone
  <2>4. th.z * (g * g) = th.z * g * g /\ n * (g * g) = n * g * g
    BY <1>1, <2>2
  <2>5. At(th.x, th.y, th.z) = base + (th.z * (g * g) + (th.y * g + th.x))
    BY <1>1, <1>2, <2>3, <2>4
  <2> DEFINE row == th.y * g + th.x  plane == th.z * (g * g)  area == g * g  all == n * area
  <2> HIDE DEF row, plane, area, all
  <2>6. /\ row \in 0..(area - 1) /\ plane + area <= all /\ plane \in Nat
        /\ area \in Nat /\ all \in Int
    BY <1>1, <1>4, <2>1, <2>3 DEF row, plane, area, all
  <2>7. base + (plane + row) >= base /\ base + (plane + row) < base + all
    BY <1>1, <2>6
  <2> QED
    BY <2>4, <2>5, <2>7 DEF row, plane, area, all
<1>7. ASSUME NEW other \in Threads(t),
             At(other.x, other.y, other.z) = At(th.x, th.y, th.z)
      PROVE  other = th
  <2>1. /\ other.y * g + other.x \in 0..(g * g - 1)
        /\ th.y * g + th.x \in 0..(g * g - 1)
    BY <1>2, <1>3
  <2>2. \A o \in Threads(t) : o.x \in Nat /\ o.y \in Nat /\ o.z \in Nat /\ o.x < g
    BY <1>1, <1>2
  <2>3. \A z \in Nat : z * g * g = z * (g * g)
    BY <1>1
  <2>4. other.z * (g * g) + (other.y * g + other.x) = th.z * (g * g) + (th.y * g + th.x)
    <3> DEFINE a == other.z * (g * g)  b == other.y * g
               c == th.z * (g * g)  d == th.y * g
    <3>1. base + (a + b + other.x) = base + (c + d + th.x)
      BY <1>7, <2>2, <2>3
    <3>2. a \in Nat /\ b \in Nat /\ c \in Nat /\ d \in Nat
      BY <1>1, <1>4, <2>2
    <3> HIDE DEF a, b, c, d
    <3>3. a + (b + other.x) = c + (d + th.x)
      BY <1>1, <2>2, <3>1, <3>2
    <3> QED
      BY <3>3 DEF a, b, c, d
  <2>5. other.z = th.z /\ other.y * g + other.x = th.y * g + th.x
    <3> DEFINE q == g * g  k == other.z  l == th.z
               r == other.y * g + other.x  s == th.y * g + th.x
    <3>1. k * q + r = l * q + s
      BY <2>4
    <3>2. q \in Nat /\ k \in Nat /\ l \in Nat /\ r \in 0..(q - 1) /\ s \in 0..(q - 1)
      BY <1>4, <2>1, <2>2
    <3> HIDE DEF q, k, l, r, s
    <3>3. r \in Nat /\ s \in Nat /\ r < q /\ s < q
      BY <3>2
    <3>4. k = l /\ r = s
      BY <3>1, <3>2, <3>3, DigitsUnique
    <3> QED
      BY <3>4 DEF k, l, r, s
  <2>6. other.y = th.y /\ other.x = th.x
    <3> DEFINE k == other.y  l == th.y  r == other.x  s == th.x
    <3>1. k * g + r = l * g + s
      BY <2>5
    <3>2. k \in Nat /\ l \in Nat /\ r \in Nat /\ s \in Nat /\ r < g /\ s < g
      BY <2>2
    <3> HIDE DEF k, l, r, s
    <3>3. k = l /\ r = s
      BY <1>1, <3>1, <3>2, DigitsUnique
    <3> QED
      BY <3>3 DEF k, l, r, s
  <2> QED
    BY <1>2, <2>5, <2>6
<1>8. /\ Slot(p, t, first, batch, th) >= base
      /\ Slot(p, t, first, batch, th) < base + n * g * g
      /\ \A other \in Threads(t) :
           Slot(p, t, first, batch, other) = Slot(p, t, first, batch, th) => other = th
  BY <1>2, <1>6, <1>7
<1> QED
  BY <1>8 DEF g, n, base

----------------------------------------------------------------------------
(* The two parsers                                                         *)

\* The boxes within the image.
InImage == {o \in [left : Int, top : Int, width : Int, height : Int,
                   detectionConfidence : Int, classId : Int] :
              /\ o.left \in 0..NetWidth /\ o.left + o.width <= NetWidth
              /\ o.top \in 0..NetHeight /\ o.top + o.height <= NetHeight}

LEMMA ClampBounds ==
    ASSUME NEW val \in Int, NEW maxVal \in Nat
    PROVE  /\ clamp(val, 0, maxVal) \in 0..maxVal
           /\ val \in 0..maxVal => clamp(val, 0, maxVal) = val
           /\ val <= 0 => clamp(val, 0, maxVal) = 0
<1> DEFINE low == Max({0, val})
<1>1. low = IF val <= 0 THEN 0 ELSE val
  BY DEF Max
<1>2. low \in Nat
  BY <1>1
<1> HIDE DEF low
<1>3. Min({maxVal, low}) = IF low <= maxVal THEN low ELSE maxVal
  BY <1>2 DEF Min
<1>4. clamp(val, 0, maxVal) = Min({maxVal, low})
  BY DEF clamp, low
<1> QED
  BY <1>1, <1>2, <1>3, <1>4

\* An interval on an axis whose ends are clamped.
LEMMA ClampedSpan ==
    ASSUME NEW from \in Int, NEW to \in Int, NEW size \in Nat
    PROVE  /\ clamp(from, 0, size) \in 0..size
           /\ clamp(clamp(to, 0, size) - clamp(from, 0, size), 0, size) \in Int
           /\ clamp(from, 0, size)
               + clamp(clamp(to, 0, size) - clamp(from, 0, size), 0, size) <= size
<1> DEFINE a == clamp(from, 0, size)
           b == clamp(to, 0, size)
           d == b - a
<1>1. a \in 0..size /\ b \in 0..size
  BY ClampBounds
<1> HIDE DEF a, b
<1>2. d \in Int
  BY <1>1
<1>3. /\ clamp(d, 0, size) \in 0..size
      /\ d \in 0..size => clamp(d, 0, size) = d
      /\ d <= 0 => clamp(d, 0, size) = 0
  <2> HIDE DEF d
  <2> QED
    BY <1>2, ClampBounds
<1>4. clamp(d, 0, size) \in Int /\ a + clamp(d, 0, size) <= size
  <2>1. CASE b >= a
    BY <1>1, <1>3, <2>1
  <2>2. CASE b < a
    BY <1>1, <1>3, <2>2
  <2> QED
    BY <1>1, <2>1, <2>2
<1> QED
  BY <1>1, <1>4 DEF a, b

LEMMA BoxInImage ==
    ASSUME NEW o \in Output, NEW corners \in BOOLEAN
    PROVE  /\ Box(o, corners) \in InImage
           /\ Box(o, corners).classId = o.class
           /\ Box(o, corners).detectionConfidence = o.score
<1> DEFINE c == Corners(o.box, corners)
<1>1. o.box \in Int \X Int \X Int \X Int /\ o.score \in Int /\ o.class \in Int
  BY DEF Output
<1>2. c[1] \in Int /\ c[2] \in Int /\ c[3] \in Int /\ c[4] \in Int
  <2>1. CASE corners
    BY <1>1, <2>1 DEF Corners
  <2>2. CASE ~corners
    BY <1>1, <2>2 DEF Corners
  <2> QED
    BY <2>1, <2>2
<1> HIDE DEF c
<1> DEFINE x1 == clamp(c[1], 0, NetWidth)
           y1 == clamp(c[2], 0, NetHeight)
           w == clamp(clamp(c[3], 0, NetWidth) - x1, 0, NetWidth)
           h == clamp(clamp(c[4], 0, NetHeight) - y1, 0, NetHeight)
<1>3. NetWidth \in Nat /\ NetHeight \in Nat
  BY BoxesAssumption
<1>4. x1 \in 0..NetWidth /\ w \in Int /\ x1 + w <= NetWidth
  BY <1>2, <1>3, ClampedSpan
<1>5. y1 \in 0..NetHeight /\ h \in Int /\ y1 + h <= NetHeight
  BY <1>2, <1>3, ClampedSpan
<1>6. Box(o, corners) = [left |-> x1, top |-> y1, width |-> w, height |-> h,
                         detectionConfidence |-> o.score, classId |-> o.class]
  BY DEF Box, c
<1> HIDE DEF x1, y1, w, h
<1> QED
  BY <1>1, <1>3, <1>4, <1>5, <1>6 DEF InImage

LEMMA NoBoxInImage == NoBox \in InImage /\ ~Wide(NoBox)
  BY BoxesAssumption DEF NoBox, InImage, Wide, Pixel

\* The one threshold of the kernels is a lower bound of the classes'.
LEMMA MinThresholdBounds ==
    MinThreshold \in Int /\ \A c \in DOMAIN Threshold : MinThreshold <= Threshold[c]
<1> DEFINE m == Cardinality(DOMAIN Threshold) - 1
           Has1(n) == \E x \in 0..n : \A y \in 0..n : Threshold[x] <= Threshold[y]
           T == {n \in Nat : n <= m => Has1(n)}
<1>1. m \in Nat /\ Threshold \in [0..m -> Int]
  BY BoxesAssumption
<1> HIDE DEF m
<1>2. 0 \in T
  BY <1>1
<1>3. ASSUME NEW n \in Nat, n \in T
      PROVE  n + 1 \in T
  <2> SUFFICES ASSUME n + 1 <= m
               PROVE  Has1(n + 1)
    OBVIOUS
  <2>1. PICK x \in 0..n : \A y \in 0..n : Threshold[x] <= Threshold[y]
    BY <1>1, <1>3
  <2>2. /\ Threshold[n + 1] \in Int /\ \A y \in 0..(n + 1) : y \in 0..n \/ y = n + 1
        /\ \A y \in 0..n : Threshold[y] \in Int
    BY <1>1
  <2>3. CASE Threshold[x] <= Threshold[n + 1]
    BY <2>1, <2>2, <2>3
  <2>4. CASE Threshold[n + 1] < Threshold[x]
    <3>1. \A y \in 0..(n + 1) : Threshold[n + 1] <= Threshold[y]
      BY <2>1, <2>2, <2>4
    <3> QED
      BY <3>1
  <2> QED
    BY <2>1, <2>2, <2>3, <2>4
<1>4. \A n \in Nat : n \in T
  <2> HIDE DEF T
  <2> QED
    BY <1>2, <1>3, SetInduction
<1>5. Has1(m)
  <2> HIDE DEF Has1
  <2> QED
    BY <1>1, <1>4
<1> DEFINE V == {Threshold[c] : c \in DOMAIN Threshold}
<1>6. DOMAIN Threshold = 0..m /\ V \subseteq Int
  BY <1>1
<1>7. \E v \in V : \A u \in V : v <= u
  BY <1>5, <1>6
<1>8. MinThreshold = CHOOSE v \in V : \A u \in V : v <= u
  BY DEF MinThreshold, Min
<1> HIDE DEF V
<1>9. MinThreshold \in V /\ \A u \in V : MinThreshold <= u
  BY <1>7, <1>8
<1> QED
  BY <1>6, <1>9 DEF V


Good == {o \in InImage : Counted(o)}
Broad == {o \in InImage : Wide(o)}

\* One output: an object that the CPU parser keeps and the clustering counts
\* is one that the CUDA parser gives and that is wide.
LEMMA OneOutput ==
    ASSUME NEW o \in Output, NEW corners \in BOOLEAN
    PROVE  /\ Decoded(o, corners) \in InImage
           /\ Box(o, corners) \in Good =>
                /\ o.class \in DOMAIN Threshold /\ o.score >= Threshold[o.class]
                /\ Decoded(o, corners) = Box(o, corners)
           /\ Decoded(o, corners) \in Good \intersect Broad
                <=> Box(o, corners) \in Good /\ Wide(Box(o, corners))
<1> DEFINE a == Box(o, corners)
           e == Decoded(o, corners)
<1>1. a \in InImage /\ a.classId = o.class /\ a.detectionConfidence = o.score
  BY BoxInImage
<1>2. e = IF o.score < MinThreshold THEN NoBox ELSE a
  BY DEF Decoded
<1> HIDE DEF a, e
<1>3. e \in InImage
  BY <1>1, <1>2, NoBoxInImage
<1>4. ASSUME a \in Good
      PROVE  o.class \in DOMAIN Threshold /\ o.score >= Threshold[o.class] /\ e = a
  <2>1. o.class \in DOMAIN Threshold /\ o.score >= Threshold[o.class]
    BY <1>1, <1>4 DEF Good, Counted
  <2>2. Threshold[o.class] \in Int /\ o.score \in Int
    BY <2>1, BoxesAssumption DEF Output
  <2>3. MinThreshold \in Int /\ MinThreshold <= Threshold[o.class]
    BY <2>1, MinThresholdBounds
  <2>4. ~(o.score < MinThreshold)
    BY <2>1, <2>2, <2>3
  <2> QED
    BY <1>2, <2>1, <2>4
<1>5. e \in Good \intersect Broad => a \in Good /\ Wide(a)
  BY <1>2, NoBoxInImage DEF Good, Broad
<1>6. a \in Good /\ Wide(a) => e \in Good \intersect Broad
  BY <1>4 DEF Good, Broad
<1> QED
  BY <1>3, <1>4, <1>5, <1>6 DEF a, e

\* Filters of lists of boxes.
LEMMA FiltersOfBoxes ==
    ASSUME NEW list \in Seq(InImage)
    PROVE  /\ Preclustered(list) = Kept(list, Places(list, Good))
           /\ WideOnes(list) = Kept(list, Places(list, Broad))
<1>1. \A k \in DOMAIN list : list[k] \in InImage
  OBVIOUS
<1>2. {k \in DOMAIN list : Counted(list[k])} = Places(list, Good)
  BY <1>1 DEF Places, Good
<1>3. {k \in DOMAIN list : Wide(list[k])} = Places(list, Broad)
  BY <1>1 DEF Places, Broad
<1> QED
  BY <1>2, <1>3, Zenon DEF Preclustered, WideOnes

LEMMA ParsersGiveTheSame ==
    ASSUME NEW outputs \in Seq(Output), NEW corners \in BOOLEAN, NEW wild
    PROVE  /\ DecodeTensor(outputs, corners, wild) \in Seq(InImage)
           /\ Preclustered(DecodeTensor(outputs, corners, wild))
                = WideOnes(Preclustered(DecodeTensorCuda(outputs, corners)))
<1> DEFINE m == Len(outputs)
           all == [b \in DOMAIN outputs |-> Box(outputs[b], corners)]
           given == [b \in DOMAIN outputs |-> Decoded(outputs[b], corners)]
           reached(b) == IF outputs[b].class \in DOMAIN Threshold
                         THEN outputs[b].score >= Threshold[outputs[b].class]
                         ELSE b \in wild
           pushed == {b \in DOMAIN outputs : reached(b) /\ Wide(all[b])}
           counted == Places(given, Good)
           O == KeptAfter(all, pushed)
           E == KeptAfter(given, counted)
           F(list) == Kept(list, Places(list, Good))
           G(list) == Kept(list, Places(list, Broad))
<1>1. m \in Nat /\ DOMAIN outputs = 1..m /\ \A b \in 1..m : outputs[b] \in Output
  OBVIOUS
<1>2. \A b \in 1..m : all[b] = Box(outputs[b], corners) /\ given[b] = Decoded(outputs[b], corners)
  BY <1>1
<1>3. all \in Seq(InImage) /\ Len(all) = m /\ given \in Seq(InImage) /\ Len(given) = m
  <2>1. \A b \in 1..m : Box(outputs[b], corners) \in InImage /\ Decoded(outputs[b], corners) \in InImage
    BY <1>1, BoxInImage, OneOutput
  <2>2. all \in [1..m -> InImage] /\ given \in [1..m -> InImage]
    BY <1>1, <2>1
  <2> HIDE DEF all, given
  <2> QED
    BY <1>1, <2>2
<1>4. /\ DecodeTensor(outputs, corners, wild) = Kept(all, pushed)
      /\ DecodeTensorCuda(outputs, corners) = given
  BY DEF DecodeTensor, DecodeTensorCuda
<1>5. \A b \in 1..m : (b \in pushed <=> reached(b) /\ Wide(all[b]))
  BY <1>1
<1> HIDE DEF m, all, given, pushed
<1>6. \A b \in 1..m : b \in counted <=> given[b] \in Good
  BY <1>3 DEF Places
<1>7. pushed \subseteq 1..m /\ counted \subseteq 1..m
  BY <1>1, <1>3 DEF Places, pushed
<1> HIDE DEF counted
<1>8. Unfolds(InImage, all, pushed) /\ Unfolds(InImage, given, counted)
  <2>1. Loop(InImage, all, pushed) /\ Loop(InImage, given, counted)
    BY <1>3, <1>7 DEF Loop
  <2> QED
    BY <2>1, KeptUnfolds
<1>9. /\ O[0] = <<>> /\ E[0] = <<>>
      /\ \A n \in Nat : O[n] \in Seq(InImage) /\ E[n] \in Seq(InImage)
      /\ \A n \in Nat : O[n + 1] = IF n + 1 \in pushed THEN Append(O[n], all[n + 1]) ELSE O[n]
      /\ \A n \in Nat : E[n + 1] = IF n + 1 \in counted THEN Append(E[n], given[n + 1]) ELSE E[n]
  BY <1>8, Zenon DEF Unfolds
<1> DEFINE T == {n \in Nat : F(O[n]) = G(E[n])}
<1>10. 0 \in T
  BY <1>9, KeptOfNone
<1>11. \A list \in Seq(InImage), v \in InImage :
         /\ F(Append(list, v)) = IF v \in Good THEN Append(F(list), v) ELSE F(list)
         /\ G(Append(list, v)) = IF v \in Broad THEN Append(G(list), v) ELSE G(list)
  BY KeptOfAppend
<1> HIDE DEF O, E, F, G
<1>12. ASSUME NEW n \in 0..(m - 1), n \in T
       PROVE  n + 1 \in T
  <2>1. n \in Nat /\ n + 1 \in Nat /\ n + 1 \in 1..m /\ F(O[n]) = G(E[n])
    BY <1>1, <1>12
  <2> DEFINE b == n + 1
             a == all[n + 1]
             e == given[n + 1]
  <2>2. /\ O[n] \in Seq(InImage) /\ E[n] \in Seq(InImage)
        /\ O[b] = IF b \in pushed THEN Append(O[n], a) ELSE O[n]
        /\ E[b] = IF b \in counted THEN Append(E[n], e) ELSE E[n]
    BY <1>9, <2>1, Zenon
  <2>3. a \in InImage /\ e \in InImage
    BY <1>3, <2>1
  <2>4. b \in 1..m /\ outputs[b] \in Output
    BY <1>1, <2>1
  <2>5. a = Box(outputs[b], corners) /\ e = Decoded(outputs[b], corners)
    BY <1>2, <2>4, Zenon
  <2>6. /\ a \in Good => /\ outputs[b].class \in DOMAIN Threshold
                         /\ outputs[b].score >= Threshold[outputs[b].class]
                         /\ e = a
        /\ e \in Good \intersect Broad <=> a \in Good /\ Wide(a)
    BY <2>4, <2>5, OneOutput
  <2>7. /\ b \in pushed <=> reached(b) /\ Wide(a)
        /\ b \in counted <=> e \in Good
    BY <1>5, <1>6, <2>4, Zenon
  <2>8. b \in Nat
    BY <2>1
  <2>9. F(Append(O[n], a)) = IF a \in Good THEN Append(F(O[n]), a) ELSE F(O[n])
    BY <1>11, <2>2, <2>3, Zenon
  <2>10. G(Append(E[n], e)) = IF e \in Broad THEN Append(G(E[n]), e) ELSE G(E[n])
    BY <1>11, <2>2, <2>3, Zenon
  <2>11. a \in Good => reached(b)
    BY <2>6
  <2> HIDE DEF b, a, e, reached
  <2>12. F(O[b]) = G(E[b])
    <3>1. CASE a \in Good /\ Wide(a)
      <4>1. b \in pushed /\ e = a /\ e \in Good /\ e \in Broad
        BY <2>6, <2>7, <2>11, <3>1
      <4>2. O[b] = Append(O[n], a) /\ E[b] = Append(E[n], e)
        BY <2>2, <2>7, <4>1
      <4> QED
        BY <2>1, <2>9, <2>10, <3>1, <4>1, <4>2, Zenon
    <3>2. CASE ~(a \in Good /\ Wide(a))
      <4>1. F(O[b]) = F(O[n])
        BY <2>2, <2>7, <2>9, <3>2, Zenon
      <4>2. G(E[b]) = G(E[n])
        BY <2>2, <2>6, <2>7, <2>10, <3>2, Zenon
      <4> QED
        BY <2>1, <4>1, <4>2, Zenon
    <3> QED
      BY <3>1, <3>2
  <2> QED
    BY <2>8, <2>12 DEF b
<1>13. F(O[m]) = G(E[m])
  <2>1. \A n \in 0..m : n \in T
    <3> HIDE DEF T
    <3> QED
      BY <1>1, <1>10, <1>12, BoundedInduction
  <2> QED
    BY <1>1, <2>1
<1>14. Kept(all, pushed) = O[m] /\ Kept(given, counted) = E[m]
  BY <1>3 DEF Kept, O, E
<1>15. O[m] \in Seq(InImage) /\ E[m] \in Seq(InImage)
  BY <1>1, <1>9
<1>16. Preclustered(O[m]) = F(O[m]) /\ WideOnes(E[m]) = G(E[m])
  BY <1>15, FiltersOfBoxes DEF F, G
<1>17. Preclustered(given) = E[m]
  BY <1>3, <1>14, FiltersOfBoxes DEF counted
<1> QED
  BY <1>4, <1>13, <1>14, <1>15, <1>16, <1>17, Zenon


\* What the two parsers leave, or nothing.
Parsed == objects \in Seq(InImage) /\ Preclustered(objects) = WideOnes(Preclustered(entries))

LEMMA NothingParsed ==
    ASSUME NEW list, list = <<>>
    PROVE  list \in Seq(InImage) /\ Preclustered(list) = list /\ WideOnes(list) = list
<1>1. list \in Seq(InImage)
  OBVIOUS
<1>2. Preclustered(list) = Kept(list, Places(list, Good)) /\ WideOnes(list) = Kept(list, Places(list, Broad))
  BY <1>1, FiltersOfBoxes
<1> QED
  BY <1>1, <1>2, KeptOfNone

LEMMA ParsedKept == Parsed /\ [PerceptionNext]_allVars => Parsed'
<1> SUFFICES ASSUME Parsed, [PerceptionNext]_allVars PROVE Parsed'
  OBVIOUS
<1>1. CASE UNCHANGED <<objects, entries>>
  BY <1>1 DEF Parsed
<1>2. CASE objects' = <<>> /\ entries' = <<>>
  <2>1. /\ objects' \in Seq(InImage) /\ Preclustered(objects') = objects'
        /\ Preclustered(entries') = entries' /\ WideOnes(entries') = entries'
    BY <1>2, NothingParsed
  <2> QED
    BY <1>2, <2>1 DEF Parsed
<1>3. CASE ParseImage
  <2>1. PICK outputs \in Outputs, corners \in BOOLEAN :
          /\ \E wild : objects' = DecodeTensor(outputs, corners, wild)
          /\ entries' = DecodeTensorCuda(outputs, corners)
    BY <1>3, Zenon DEF ParseImage
  <2>2. PICK wild : objects' = DecodeTensor(outputs, corners, wild)
    BY <2>1
  <2>3. outputs \in Seq(Output)
    BY BatchAssumption
  <2> QED
    BY <2>1, <2>2, <2>3, ParsersGiveTheSame, Zenon DEF Parsed
<1>4. CASE InferStep
  <2>1. CASE BeginEnqueue
    BY <1>2, <2>1 DEF BeginEnqueue
  <2>2. CASE LaunchHead
    BY <1>1, <2>2 DEF LaunchHead
  <2>3. CASE EndEnqueue
    BY <1>1, <2>3 DEF EndEnqueue
  <2> QED
    BY <1>3, <1>4, <2>1, <2>2, <2>3 DEF InferStep
<1>5. InferStep \/ UNCHANGED <<objects, entries>> \/ (objects' = <<>> /\ entries' = <<>>)
  BY DEF PerceptionNext, Starting, Assemble, LoadEngine, PlayLoaded, PlayFails, PlayEnds, PlayWaits, Infer, Stop,
         StartAgain, InferReset, OthersWait, allVars, inferVars
<1> QED
  BY <1>1, <1>2, <1>4, <1>5

\* For every list of outputs, any thresholds and either layout of the boxes,
\* the clustering gets the same objects from the CPU and the CUDA parser but
\* for thin ones, and the CPU parser's boxes lie in the image
\* (nvdsparsebbox_Yolo.cpp:38-104, nvdsparsebbox_Yolo_cuda.cu:40-78, :132).
THEOREM ParsersAgreeHolds == PerceptionSpec => []ParsersAgree
<1>1. PerceptionInit => Parsed
  <2> SUFFICES ASSUME PerceptionInit PROVE Parsed
    OBVIOUS
  <2>1. objects = <<>> /\ entries = <<>>
    BY DEF PerceptionInit, InferInit
  <2> QED
    BY <2>1, NothingParsed DEF Parsed
<1>2. PerceptionSpec => []Parsed
  BY <1>1, ParsedKept, PTL DEF PerceptionSpec
<1>3. Parsed => ParsersAgree
  <2> SUFFICES ASSUME Parsed PROVE ParsersAgree
    OBVIOUS
  <2>1. \A k \in DOMAIN objects : objects[k] \in InImage
    BY DEF Parsed
  <2> QED
    BY <2>1 DEF Parsed, ParsersAgree, InImage
<1> QED
  BY <1>2, <1>3, PTL

----------------------------------------------------------------------------
(* The plugin in an engine file                                            *)

HeadInfo == [gridSizeX : Nat, gridSizeY : Nat, numBBoxes : Nat, scaleXY : Int,
             anchors : Seq(Int), mask : Seq(Int)]

PluginInfo == [netWidth : Int, netHeight : Int, numClasses : Nat, newCoords : Int,
               outputSize : Int, heads : Seq(HeadInfo)]

\* A list after another.
Follow(a, b, c) ==
    /\ c \in Seq(Int) /\ Len(c) = Len(a) + Len(b)
    /\ \A k \in 1..Len(a) : c[k] = a[k]
    /\ \A k \in 1..Len(b) : c[Len(a) + k] = b[k]

LEMMA Follows ==
    ASSUME NEW a \in Seq(Int), NEW b \in Seq(Int)
    PROVE  Follow(a, b, a \o b)
BY DEF Follow

LEMMA ListIsFunction == \A q \in Seq(Int) : q = [k \in 1..Len(q) |-> q[k]]
OBVIOUS

\* The words of a head, one by one.
LEMMA WordsOfHead ==
    ASSUME NEW t \in HeadInfo
    PROVE  LET w == HeadWords(t)  a == Len(t.anchors)  m == Len(t.mask)
           IN  /\ a \in Nat /\ m \in Nat
               /\ w \in Seq(Int) /\ Len(w) = 6 + a + m
               /\ w[1] = t.gridSizeX /\ w[2] = t.gridSizeY
               /\ w[3] = t.numBBoxes /\ w[4] = t.scaleXY
               /\ w[5] = a /\ w[6 + a] = m
               /\ \A k \in 1..a : w[5 + k] = t.anchors[k]
               /\ \A k \in 1..m : w[6 + a + k] = t.mask[k]
<1> DEFINE first == <<t.gridSizeX, t.gridSizeY, t.numBBoxes, t.scaleXY>>
           anchors == t.anchors
           mask == t.mask
           a == Len(anchors)
           m == Len(mask)
           one == <<a>>
           two == <<m>>
           s == first \o one
           u == s \o anchors
           v == u \o two
           w == v \o mask
<1>1. /\ anchors \in Seq(Int) /\ mask \in Seq(Int) /\ a \in Nat /\ m \in Nat
      /\ t.gridSizeX \in Int /\ t.gridSizeY \in Int /\ t.numBBoxes \in Int /\ t.scaleXY \in Int
  BY DEF HeadInfo
<1>2. /\ first \in Seq(Int) /\ Len(first) = 4
      /\ first[1] = t.gridSizeX /\ first[2] = t.gridSizeY
      /\ first[3] = t.numBBoxes /\ first[4] = t.scaleXY
  BY <1>1
<1>3. one \in Seq(Int) /\ Len(one) = 1 /\ one[1] = a
  BY <1>1
<1>4. two \in Seq(Int) /\ Len(two) = 1 /\ two[1] = m
  BY <1>1
<1>5. HeadWords(t) = w
  BY DEF HeadWords
<1> HIDE DEF first, one, two, anchors, mask
<1>6. Follow(first, one, s)
  BY <1>2, <1>3, Follows
<1> HIDE DEF s
<1>7. Follow(s, anchors, u)
  BY <1>1, <1>6, Follows DEF Follow
<1> HIDE DEF u
<1>8. Follow(u, two, v)
  BY <1>4, <1>7, Follows DEF Follow
<1> HIDE DEF v
<1>9. Follow(v, mask, w)
  BY <1>1, <1>8, Follows DEF Follow
<1> HIDE DEF w
<1>10. Len(s) = 5 /\ Len(u) = 5 + a /\ Len(v) = 6 + a /\ Len(w) = 6 + a + m
  BY <1>1, <1>2, <1>3, <1>4, <1>6, <1>7, <1>8, <1>9 DEF Follow
<1> HIDE DEF a, m
<1>11. /\ \A k \in 1..(6 + a) : w[k] = v[k]
       /\ \A k \in 1..m : w[6 + a + k] = mask[k]
       /\ w \in Seq(Int)
  BY <1>1, <1>9, <1>10 DEF Follow, m
<1>12. /\ \A k \in 1..(5 + a) : v[k] = u[k]
       /\ v[6 + a] = m
  <2>1. (\A k \in 1..(5 + a) : v[k] = u[k]) /\ v[5 + a + 1] = two[1]
    BY <1>1, <1>4, <1>8, <1>10 DEF Follow
  <2>2. 5 + a + 1 = 6 + a
    BY <1>1
  <2> QED
    BY <1>4, <2>1, <2>2
<1>13. /\ \A k \in 1..5 : u[k] = s[k]
       /\ \A k \in 1..a : u[5 + k] = anchors[k]
  BY <1>1, <1>7, <1>10 DEF Follow, a
<1>14. (\A k \in 1..4 : s[k] = first[k]) /\ s[5] = a
  <2>1. (\A k \in 1..4 : s[k] = first[k]) /\ s[4 + 1] = one[1]
    BY <1>2, <1>3, <1>6 DEF Follow
  <2> QED
    BY <1>3, <2>1
<1>15. w[1] = first[1] /\ w[2] = first[2] /\ w[3] = first[3] /\ w[4] = first[4] /\ w[5] = a
  <2>1. \A k \in 1..5 : k \in 1..(6 + a) /\ k \in 1..(5 + a)
    BY <1>1
  <2>2. \A k \in 1..5 : w[k] = s[k]
    BY <1>11, <1>12, <1>13, <2>1, Zenon
  <2> QED
    BY <1>14, <2>2
<1>16. ASSUME NEW k \in 1..a
       PROVE  w[5 + k] = anchors[k]
  <2>1. 5 + k \in 1..(6 + a) /\ 5 + k \in 1..(5 + a)
    BY <1>1
  <2> QED
    BY <1>11, <1>12, <1>13, <2>1, Zenon
<1>17. w[6 + a] = m
  <2>1. 6 + a \in 1..(6 + a)
    BY <1>1
  <2> QED
    BY <1>11, <1>12, <2>1, Zenon
<1>18. /\ a \in Nat /\ m \in Nat
       /\ w \in Seq(Int) /\ Len(w) = 6 + a + m
       /\ w[1] = t.gridSizeX /\ w[2] = t.gridSizeY
       /\ w[3] = t.numBBoxes /\ w[4] = t.scaleXY
       /\ w[5] = a /\ w[6 + a] = m
       /\ \A k \in 1..a : w[5 + k] = anchors[k]
       /\ \A k \in 1..m : w[6 + a + k] = mask[k]
  BY <1>1, <1>2, <1>10, <1>11, <1>15, <1>16, <1>17
<1>19. HeadWords(t) = w /\ a = Len(t.anchors) /\ m = Len(t.mask) /\ anchors = t.anchors /\ mask = t.mask
  BY <1>5 DEF a, m, anchors, mask
<1> QED
  BY <1>18, <1>19, Zenon

\* A head is read back where it was written.
LEMMA HeadIsRead ==
    ASSUME NEW words \in Seq(Int), NEW t \in HeadInfo, NEW first \in Nat \ {0},
           first - 1 + Len(HeadWords(t)) <= Len(words),
           \A k \in 1..Len(HeadWords(t)) : words[first - 1 + k] = HeadWords(t)[k]
    PROVE  HeadAt(words, first) = t
<1> DEFINE w == HeadWords(t)
           a == Len(t.anchors)
           m == Len(t.mask)
<1>1. /\ a \in Nat /\ m \in Nat
      /\ w \in Seq(Int) /\ Len(w) = 6 + a + m
      /\ w[1] = t.gridSizeX /\ w[2] = t.gridSizeY
      /\ w[3] = t.numBBoxes /\ w[4] = t.scaleXY
      /\ w[5] = a /\ w[6 + a] = m
      /\ \A k \in 1..a : w[5 + k] = t.anchors[k]
      /\ \A k \in 1..m : w[6 + a + k] = t.mask[k]
  BY WordsOfHead, Zenon
<1>2. \A k \in 1..Len(w) : Word(words, first - 1 + k) = w[k]
  <2> DEFINE n == Len(w)
  <2>1. n \in Nat /\ Len(words) \in Nat /\ DOMAIN words = 1..Len(words)
    <3> HIDE DEF w, a, m
    <3>1. n \in Nat
      BY <1>1
    <3>2. Len(words) \in Nat /\ DOMAIN words = 1..Len(words)
      OBVIOUS
    <3> QED
      BY <3>1, <3>2
  <2>2. first - 1 + n <= Len(words)
    OBVIOUS
  <2> HIDE DEF n, w
  <2>3. \A k \in 1..n : first - 1 + k \in DOMAIN words
    BY <2>1, <2>2
  <2> QED
    BY <2>3 DEF Word, w, n
<1> HIDE DEF w, a, m
<1>0. a \in Nat /\ m \in Nat
  BY <1>1
<1>3. \A k \in 1..(6 + a + m) : Word(words, first - 1 + k) = w[k]
  BY <1>1, <1>2
<1>4. /\ Word(words, first) = w[1] /\ Word(words, first + 1) = w[2]
      /\ Word(words, first + 2) = w[3] /\ Word(words, first + 3) = w[4]
      /\ Word(words, first + 4) = w[5] /\ Word(words, first + 5 + a) = w[6 + a]
  <2>1. /\ first - 1 + 1 = first /\ first - 1 + 2 = first + 1 /\ first - 1 + 3 = first + 2
        /\ first - 1 + 4 = first + 3 /\ first - 1 + 5 = first + 4
        /\ first - 1 + (6 + a) = first + 5 + a
    BY <1>1
  <2>2. 1 \in 1..(6 + a + m) /\ 2 \in 1..(6 + a + m) /\ 3 \in 1..(6 + a + m)
        /\ 4 \in 1..(6 + a + m) /\ 5 \in 1..(6 + a + m) /\ 6 + a \in 1..(6 + a + m)
    BY <1>1
  <2> QED
    BY <1>3, <2>1, <2>2
<1>5. Slice(words, first + 5, a) = t.anchors
  <2>1. ASSUME NEW k \in 1..a
        PROVE  Word(words, first + 5 + k - 1) = t.anchors[k]
    <3>1. 5 + k \in 1..(6 + a + m) /\ first - 1 + (5 + k) = first + 5 + k - 1
      BY <1>0
    <3> QED
      BY <1>1, <1>3, <3>1
  <2>2. t.anchors = [k \in 1..a |-> t.anchors[k]]
    BY ListIsFunction DEF HeadInfo, a
  <2> QED
    BY <2>1, <2>2, Zenon DEF Slice
<1>6. Slice(words, first + 6 + a, m) = t.mask
  <2>1. ASSUME NEW k \in 1..m
        PROVE  Word(words, first + 6 + a + k - 1) = t.mask[k]
    <3>1. 6 + a + k \in 1..(6 + a + m) /\ first - 1 + (6 + a + k) = first + 6 + a + k - 1
      BY <1>0
    <3> QED
      BY <1>1, <1>3, <3>1
  <2>2. t.mask = [k \in 1..m |-> t.mask[k]]
    BY ListIsFunction DEF HeadInfo, m
  <2> QED
    BY <2>1, <2>2, Zenon DEF Slice
<1>7. Word(words, first + 4) = a /\ Word(words, first + 5 + a) = m
  BY <1>1, <1>4
<1>8. HeadAt(words, first)
        = [gridSizeX |-> w[1], gridSizeY |-> w[2], numBBoxes |-> w[3], scaleXY |-> w[4],
           anchors |-> Slice(words, first + 5, a), mask |-> Slice(words, first + 6 + a, m)]
  BY <1>4, <1>7 DEF HeadAt
<1>9. t = [gridSizeX |-> t.gridSizeX, gridSizeY |-> t.gridSizeY, numBBoxes |-> t.numBBoxes,
           scaleXY |-> t.scaleXY, anchors |-> t.anchors, mask |-> t.mask]
  BY DEF HeadInfo
<1> QED
  BY <1>1, <1>5, <1>6, <1>8, <1>9, Zenon


LEMMA WholeSlice == \A q \in Seq(Int) : SubSeq(q, 1, Len(q)) = q
OBVIOUS

\* The heads one after another, as serialize writes them.
WordsOf(p) == [k \in DOMAIN p.heads |-> HeadWords(p.heads[k])]

LEMMA HeadsAreWritten ==
    ASSUME NEW p \in PluginInfo
    PROVE  /\ Len(p.heads) \in Nat /\ \A k \in 1..Len(p.heads) : p.heads[k] \in HeadInfo
           /\ WordsOf(p) \in Seq(Seq(Int)) /\ Len(WordsOf(p)) = Len(p.heads)
           /\ \A k \in 1..Len(p.heads) : WordsOf(p)[k] = HeadWords(p.heads[k])
           /\ IsConcatenation(Int, ConcatenatedAfter(WordsOf(p)), WordsOf(p))
<1> DEFINE n == Len(p.heads)  D == Seq(Int)
<1>1. /\ p.heads \in Seq(HeadInfo) /\ n \in Nat /\ DOMAIN p.heads = 1..n
      /\ \A k \in 1..n : p.heads[k] \in HeadInfo
  BY DEF PluginInfo
<1> HIDE DEF n
<1>2. \A k \in 1..n : HeadWords(p.heads[k]) \in D
  BY <1>1, WordsOfHead
<1>3. WordsOf(p) = [k \in 1..n |-> HeadWords(p.heads[k])]
  BY <1>1 DEF WordsOf
<1>4. WordsOf(p) \in Seq(D) /\ Len(WordsOf(p)) = n
      /\ \A k \in 1..n : WordsOf(p)[k] = HeadWords(p.heads[k])
  <2> HIDE DEF D
  <2> QED
    BY <1>1, <1>2, <1>3
<1>5. IsConcatenation(Int, ConcatenatedAfter(WordsOf(p)), WordsOf(p))
  BY <1>4, ConcatenationUnfolds, Zenon
<1> QED
  BY <1>1, <1>4, <1>5, Zenon DEF n

\* The size is that of what is written: nothing is cut off.
LEMMA SizeIsRight ==
    ASSUME NEW p \in PluginInfo
    PROVE  SerializationSize(p) = 7 + Len(Concatenated(WordsOf(p)))
<1> DEFINE n == Len(p.heads)
           J == ConcatenatedAfter(WordsOf(p))
           numbers == [k \in DOMAIN p.heads |->
                         6 + Len(p.heads[k].anchors) + Len(p.heads[k].mask)]
<1>1. /\ n \in Nat /\ DOMAIN p.heads = 1..n
      /\ \A k \in 1..n : p.heads[k] \in HeadInfo
  BY HeadsAreWritten DEF PluginInfo
<1>2. /\ Len(WordsOf(p)) = n
      /\ \A k \in 1..n : WordsOf(p)[k] = HeadWords(p.heads[k])
      /\ IsConcatenation(Int, J, WordsOf(p))
  BY HeadsAreWritten, Zenon
<1> HIDE DEF n
<1>3. \A k \in 1..n : /\ 6 + Len(p.heads[k].anchors) + Len(p.heads[k].mask) \in Int
                      /\ Len(WordsOf(p)[k]) = 6 + Len(p.heads[k].anchors) + Len(p.heads[k].mask)
                      /\ WordsOf(p)[k] \in Seq(Int)
  <2>1. ASSUME NEW t \in HeadInfo
        PROVE  /\ 6 + Len(t.anchors) + Len(t.mask) \in Int
               /\ Len(HeadWords(t)) = 6 + Len(t.anchors) + Len(t.mask)
               /\ HeadWords(t) \in Seq(Int)
    <3>1. Len(t.anchors) \in Nat /\ Len(t.mask) \in Nat
          /\ Len(HeadWords(t)) = 6 + Len(t.anchors) + Len(t.mask)
          /\ HeadWords(t) \in Seq(Int)
      BY WordsOfHead, Zenon
    <3> QED
      BY <3>1
  <2> QED
    BY <1>1, <1>2, <2>1, Zenon
<1>4. /\ numbers \in Seq(Int) /\ Len(numbers) = n
      /\ \A k \in 1..n : numbers[k] = Len(WordsOf(p)[k])
  <2> DEFINE N(k) == 6 + Len(p.heads[k].anchors) + Len(p.heads[k].mask)
  <2>1. numbers = [k \in 1..n |-> N(k)]
    BY <1>1
  <2>2. \A k \in 1..n : N(k) \in Int /\ N(k) = Len(WordsOf(p)[k])
    BY <1>3, Zenon
  <2> HIDE DEF N, numbers
  <2>3. numbers \in Seq(Int) /\ Len(numbers) = n /\ \A k \in 1..n : numbers[k] = N(k)
    BY <1>1, <2>1, <2>2
  <2> QED
    BY <2>2, <2>3
<1> HIDE DEF numbers
<1>5. IsSum(SumAfter(numbers), numbers)
  BY <1>4, SumUnfolds
<1> DEFINE sum == SumAfter(numbers)
<1> HIDE DEF sum, J
<1>6. sum[0] = 0 /\ \A k \in 0..(n - 1) : sum[k + 1] = sum[k] + numbers[k + 1]
  BY <1>4, <1>5 DEF IsSum, sum
<1>7. J[0] = <<>> /\ \A k \in 0..(n - 1) : J[k + 1] = J[k] \o WordsOf(p)[k + 1]
  BY <1>2 DEF IsConcatenation
<1>8. \A k \in 0..n : J[k] \in Seq(Int)
  BY <1>2 DEF IsConcatenation
<1> DEFINE U == {k \in 0..n : sum[k] = Len(J[k])}
<1>9. 0 \in U
  BY <1>1, <1>6, <1>7
<1>10. ASSUME NEW k \in 0..(n - 1), k \in U
       PROVE  k + 1 \in U
  <2>1. k + 1 \in 0..n /\ k + 1 \in 1..n /\ k \in 0..n /\ sum[k] = Len(J[k])
    BY <1>1, <1>10
  <2>2. J[k] \in Seq(Int) /\ WordsOf(p)[k + 1] \in Seq(Int)
    BY <1>3, <1>8, <2>1
  <2>3. Len(J[k] \o WordsOf(p)[k + 1]) = Len(J[k]) + Len(WordsOf(p)[k + 1])
    BY <2>2, Follows, Zenon DEF Follow
  <2>4. sum[k + 1] = Len(J[k + 1])
    BY <1>4, <1>6, <1>7, <2>1, <2>3, Zenon
  <2> QED
    BY <2>1, <2>4
<1>11. sum[n] = Len(J[n])
  <2>1. \A k \in 0..n : k \in U
    <3> HIDE DEF U
    <3> QED
      BY <1>1, <1>9, <1>10, BoundedInduction
  <2> QED
    BY <1>1, <2>1
<1>12. SerializationSize(p) = 7 + Total(numbers)
  BY DEF SerializationSize, numbers
<1> QED
  BY <1>2, <1>4, <1>11, <1>12, Zenon DEF Total, Concatenated, sum, J


\* Where the words of each head begin.
LEMMA WordsInFile ==
    ASSUME NEW p \in PluginInfo
    PROVE  LET w == SerializedWords(p)  J == ConcatenatedAfter(WordsOf(p))
           IN  /\ Serialized(p) = w /\ w \in Seq(Int)
               /\ w[1] = p.netWidth /\ w[2] = p.netHeight /\ w[3] = p.numClasses
               /\ w[4] = p.newCoords /\ w[5] = p.outputSize /\ w[7] = Len(p.heads)
               /\ Len(w) = 7 + Len(J[Len(p.heads)])
               /\ \A k \in 1..Len(J[Len(p.heads)]) : w[7 + k] = J[Len(p.heads)][k]
<1> DEFINE n == Len(p.heads)
           J == ConcatenatedAfter(WordsOf(p))
           all == J[n]
           six == <<p.netWidth, p.netHeight, p.numClasses, p.newCoords, p.outputSize, 0>>
           one == <<n>>
           u == six \o one
           w == u \o all
<1>1. n \in Nat /\ Len(WordsOf(p)) = n /\ IsConcatenation(Int, J, WordsOf(p))
  BY HeadsAreWritten, Zenon
<1>2. all \in Seq(Int)
  <2> HIDE DEF J, n
  <2>1. J \in [0..n -> Seq(Int)]
    BY <1>1 DEF IsConcatenation
  <2> QED
    BY <1>1, <2>1
<1>3. Concatenated(WordsOf(p)) = all
  BY <1>1, Zenon DEF Concatenated
<1>4. SerializedWords(p) = w
  BY <1>3 DEF SerializedWords, WordsOf
<1>5. SerializationSize(p) = 7 + Len(all)
  BY <1>3, SizeIsRight, Zenon
<1>6. /\ six \in Seq(Int) /\ Len(six) = 6
      /\ six[1] = p.netWidth /\ six[2] = p.netHeight /\ six[3] = p.numClasses
      /\ six[4] = p.newCoords /\ six[5] = p.outputSize
  BY DEF PluginInfo
<1>7. one \in Seq(Int) /\ Len(one) = 1 /\ one[1] = n
  BY <1>1
<1> HIDE DEF all, six, one
<1>8. Follow(six, one, u)
  BY <1>6, <1>7, Follows
<1> HIDE DEF u
<1>9. Follow(u, all, w)
  BY <1>2, <1>8, Follows DEF Follow
<1> HIDE DEF w
<1>10. /\ Len(u) = 7 /\ u[7] = n /\ \A k \in 1..6 : u[k] = six[k]
  <2>1. Len(u) = 7 /\ u[6 + 1] = one[1] /\ \A k \in 1..6 : u[k] = six[k]
    BY <1>6, <1>7, <1>8 DEF Follow
  <2> QED
    BY <1>7, <2>1
<1>11. /\ w \in Seq(Int) /\ Len(w) = 7 + Len(all)
       /\ \A k \in 1..7 : w[k] = u[k]
       /\ \A k \in 1..Len(all) : w[7 + k] = all[k]
  BY <1>9, <1>10 DEF Follow
<1>12. w[1] = six[1] /\ w[2] = six[2] /\ w[3] = six[3] /\ w[4] = six[4] /\ w[5] = six[5] /\ w[7] = n
  <2>1. (\A k \in 1..6 : k \in 1..7) /\ 7 \in 1..7
    OBVIOUS
  <2>2. (\A k \in 1..6 : w[k] = six[k]) /\ w[7] = n
    BY <1>10, <1>11, <2>1, Zenon
  <2> QED
    BY <2>2
<1>13. Serialized(p) = w
  <2>1. Len(w) \in Nat /\ SerializationSize(p) = Len(w)
    BY <1>5, <1>11
  <2> DEFINE l == Len(w)
  <2> HIDE DEF l
  <2>2. Min({l, l}) = l
    <3>1. l \in Int
      BY <2>1 DEF l
    <3> QED
      BY <3>1 DEF Min
  <2>3. Serialized(p) = SubSeq(w, 1, Min({l, l}))
    BY <1>4, <2>1 DEF Serialized, l
  <2> QED
    BY <1>11, <2>2, <2>3, WholeSlice DEF l
<1> QED
  BY <1>4, <1>6, <1>11, <1>12, <1>13 DEF all, n

\* Whatever its heads, anchors and masks, a plugin that is read from an engine
\* file is the one that was written: the size announced is that of the words,
\* and the constructor finds each head where serialize put it
\* (yoloPlugins.cpp:56-92, :110-166).
THEOREM PluginIsReadBack ==
    ASSUME NEW p \in PluginInfo
    PROVE  Deserialized(Serialized(p)) = p
<1> DEFINE n == Len(p.heads)
           J == ConcatenatedAfter(WordsOf(p))
           w == SerializedWords(p)
           from == [k \in 0..n |-> 8 + Len(J[k])]
           IsAt(f) == f = [k \in 0..n |-> IF k = 0 THEN 8
                            ELSE f[k - 1] + Len(HeadWords(HeadAt(w, f[k - 1])))]
<1>1. /\ n \in Nat /\ \A k \in 1..n : p.heads[k] \in HeadInfo
      /\ WordsOf(p) \in Seq(Seq(Int)) /\ Len(WordsOf(p)) = n
      /\ \A k \in 1..n : WordsOf(p)[k] = HeadWords(p.heads[k])
      /\ IsConcatenation(Int, J, WordsOf(p))
  BY HeadsAreWritten, Zenon
<1>2. /\ Serialized(p) = w /\ w \in Seq(Int)
      /\ w[1] = p.netWidth /\ w[2] = p.netHeight /\ w[3] = p.numClasses
      /\ w[4] = p.newCoords /\ w[5] = p.outputSize /\ w[7] = n
      /\ Len(w) = 7 + Len(J[n])
      /\ \A k \in 1..Len(J[n]) : w[7 + k] = J[n][k]
  BY WordsInFile, Zenon
<1>3. p.heads \in Seq(HeadInfo)
  BY DEF PluginInfo
<1> HIDE DEF n, J, w
<1>4. /\ J[0] = <<>> /\ \A k \in 0..n : J[k] \in Seq(Int) /\ Len(J[k]) \in Nat
      /\ \A k \in 0..(n - 1) : J[k + 1] = J[k] \o WordsOf(p)[k + 1]
  <2>1. J \in [0..n -> Seq(Int)] /\ J[0] = <<>>
    BY <1>1 DEF IsConcatenation
  <2>2. \A k \in 0..(n - 1) : J[k + 1] = J[k] \o WordsOf(p)[k + 1]
    BY <1>1, Zenon DEF IsConcatenation
  <2>3. \A k \in 0..n : J[k] \in Seq(Int)
    BY <2>1
  <2>4. \A q \in Seq(Int) : Len(q) \in Nat
    OBVIOUS
  <2> QED
    BY <2>1, <2>2, <2>3, <2>4, Zenon
<1>5. ASSUME NEW k \in 1..n
      PROVE  /\ HeadAt(w, 8 + Len(J[k - 1])) = p.heads[k]
             /\ Len(J[k]) = Len(J[k - 1]) + Len(HeadWords(p.heads[k]))
  <2> DEFINE i == k - 1
             t == p.heads[k]
             words == HeadWords(t)
             first == 8 + Len(J[i])
  <2>1. i \in 0..(n - 1) /\ i \in 0..n /\ i + 1 = k /\ k \in 0..n /\ n \in k..n /\ n \in 0..n
    BY <1>1
  <2>2. t \in HeadInfo /\ WordsOf(p)[k] = words
    BY <1>1
  <2>3. words \in Seq(Int)
    BY <2>2, WordsOfHead, Zenon
  <2> HIDE DEF i, t, words
  <2>4. J[k] = J[i] \o words
    BY <1>4, <2>1, <2>2, Zenon
  <2>5. Follow(J[i], words, J[k])
    <3>1. J[i] \in Seq(Int)
      BY <1>4, <2>1, Zenon
    <3> QED
      BY <2>3, <2>4, <3>1, Follows, Zenon
  <2>6. /\ Len(J[k]) <= Len(J[n])
        /\ \A j \in 1..Len(J[k]) : J[n][j] = J[k][j]
    <3>1. \A b \in k..Len(WordsOf(p)) :
             /\ Len(J[k]) <= Len(J[b])
             /\ \A j \in 1..Len(J[k]) : J[b][j] = J[k][j]
      <4>1. k \in 0..Len(WordsOf(p))
        BY <1>1, <2>1
      <4>2. WordsOf(p) \in Seq(Seq(Int)) /\ IsConcatenation(Int, J, WordsOf(p))
        BY <1>1
      <4> QED
        BY <4>1, <4>2, ConcatenationHolds
    <3> QED
      BY <1>1, <2>1, <3>1, Zenon
  <2>7. Len(J[i]) \in Nat /\ Len(J[k]) \in Nat /\ Len(J[n]) \in Nat /\ Len(words) \in Nat
    BY <1>4, <2>1, <2>3
  <2>8. Len(J[k]) = Len(J[i]) + Len(words)
    BY <2>5 DEF Follow
  <2>9. first \in Nat \ {0} /\ first - 1 + Len(words) <= Len(w)
    <3> DEFINE a == Len(J[i])  b == Len(J[k])  c == Len(J[n])  d == Len(words)  e == Len(w)
    <3>1. /\ a \in Nat /\ b \in Nat /\ c \in Nat /\ d \in Nat
          /\ b <= c /\ b = a + d /\ e = 7 + c
      BY <1>2, <2>6, <2>7, <2>8, Zenon
    <3> HIDE DEF a, b, c, d, e
    <3>2. 8 + a \in Nat \ {0} /\ (8 + a) - 1 + d <= e
      BY <3>1
    <3> QED
      BY <3>2 DEF a, d, e
  <2>10. ASSUME NEW j \in 1..Len(words)
         PROVE  w[first - 1 + j] = words[j]
    <3>1. /\ Len(J[i]) + j \in 1..Len(J[k]) /\ Len(J[i]) + j \in 1..Len(J[n])
          /\ first - 1 + j = 7 + (Len(J[i]) + j)
      BY <2>6, <2>7, <2>8
    <3>2. J[k][Len(J[i]) + j] = words[j]
      BY <2>5, Zenon DEF Follow
    <3> QED
      BY <1>2, <2>6, <3>1, <3>2, Zenon
  <2>11. HeadAt(w, first) = t
    <3> HIDE DEF first
    <3> QED
      BY <1>2, <2>2, <2>9, <2>10, HeadIsRead DEF words
  <2> QED
    BY <2>8, <2>11 DEF i, t, words
<1>6. IsAt(from)
  <2>1. ASSUME NEW k \in 0..n
        PROVE  from[k] = IF k = 0 THEN 8
                         ELSE from[k - 1] + Len(HeadWords(HeadAt(w, from[k - 1])))
    <3>1. CASE k = 0
      BY <1>4, <3>1
    <3>2. CASE k # 0
      <4>1. k \in 1..n /\ k - 1 \in 0..n
        BY <1>1, <3>2
      <4>2. from[k - 1] = 8 + Len(J[k - 1]) /\ from[k] = 8 + Len(J[k])
        BY <4>1
      <4>3. Len(J[k - 1]) \in Nat /\ Len(J[k]) \in Nat
        BY <1>4, <4>1
      <4>4. Len(HeadWords(p.heads[k])) \in Nat
        BY <1>1, <4>1, WordsOfHead
      <4>5. HeadAt(w, from[k - 1]) = p.heads[k]
        BY <1>5, <4>1, <4>2
      <4>6. from[k] = from[k - 1] + Len(HeadWords(p.heads[k]))
        <5> DEFINE a == Len(J[k - 1])  b == Len(J[k])  d == Len(HeadWords(p.heads[k]))
        <5>1. a \in Nat /\ b \in Nat /\ d \in Nat /\ b = a + d
          BY <1>5, <4>1, <4>3, <4>4, Zenon
        <5> HIDE DEF a, b, d
        <5>2. 8 + b = (8 + a) + d
          BY <5>1
        <5> QED
          BY <4>2, <5>2, Zenon DEF a, b, d
      <4> QED
        BY <3>2, <4>5, <4>6
    <3> QED
      BY <3>1, <3>2
  <2>2. from = [k \in 0..n |-> from[k]]
    OBVIOUS
  <2> HIDE DEF from
  <2> QED
    BY <2>1, <2>2, Zenon
<1>7. \A k \in {1, 2, 3, 4, 5, 7} : Word(w, k) = w[k]
  <2>1. Len(J[n]) \in Nat
    BY <1>1, <1>4
  <2>2. DOMAIN w = 1..(7 + Len(J[n]))
    BY <1>2
  <2> QED
    BY <2>1, <2>2 DEF Word
<1>8. IsAt(HeadStarts(w))
  <2>1. HeadStarts(w) = CHOOSE f : IsAt(f)
    BY <1>2, <1>7 DEF HeadStarts
  <2> HIDE DEF IsAt
  <2> QED
    BY <1>6, <2>1
<1> DEFINE at == HeadStarts(w)
<1> HIDE DEF at
<1>9. \A k \in 0..n : at[k] = from[k]
  <2> DEFINE T == {k \in 0..n : at[k] = from[k]}
  <2>1. at = [k \in 0..n |-> IF k = 0 THEN 8
                ELSE at[k - 1] + Len(HeadWords(HeadAt(w, at[k - 1])))]
    BY <1>8 DEF at
  <2>2. from = [k \in 0..n |-> IF k = 0 THEN 8
                ELSE from[k - 1] + Len(HeadWords(HeadAt(w, from[k - 1])))]
    BY <1>6
  <2> HIDE DEF from
  <2>3. 0 \in T
    BY <1>1, <2>1, <2>2
  <2>4. ASSUME NEW k \in 0..(n - 1), k \in T
        PROVE  k + 1 \in T
    <3>1. k + 1 \in 0..n /\ k + 1 # 0 /\ (k + 1) - 1 = k /\ at[k] = from[k]
      BY <1>1, <2>4
    <3>2. at[k + 1] = at[(k + 1) - 1] + Len(HeadWords(HeadAt(w, at[(k + 1) - 1])))
      BY <2>1, <3>1
    <3>3. from[k + 1] = from[(k + 1) - 1] + Len(HeadWords(HeadAt(w, from[(k + 1) - 1])))
      BY <2>2, <3>1
    <3>4. at[k + 1] = from[k + 1]
      BY <3>1, <3>2, <3>3, Zenon
    <3> QED
      BY <3>1, <3>4
  <2>5. \A k \in 0..n : k \in T
    <3> HIDE DEF T
    <3> QED
      BY <1>1, <2>3, <2>4, BoundedInduction
  <2> QED
    BY <2>5
<1>10. \A k \in 1..n : HeadAt(w, at[k - 1]) = p.heads[k]
  <2>1. \A k \in 1..n : k - 1 \in 0..n
    BY <1>1
  <2>2. \A k \in 1..n : at[k - 1] = 8 + Len(J[k - 1])
    BY <1>9, <2>1
  <2> QED
    BY <1>5, <2>2
<1>11. [k \in 1..n |-> HeadAt(w, at[k - 1])] = p.heads
  <2>1. p.heads = [k \in 1..n |-> p.heads[k]]
    BY <1>3 DEF n
  <2> QED
    BY <1>10, <2>1, Zenon
<1>12. Deserialized(w) = [netWidth |-> w[1], netHeight |-> w[2], numClasses |-> w[3],
                          newCoords |-> w[4], outputSize |-> w[5],
                          heads |-> [k \in 1..n |-> HeadAt(w, at[k - 1])]]
  BY <1>2, <1>7 DEF Deserialized, at
<1>13. p = [netWidth |-> p.netWidth, netHeight |-> p.netHeight, numClasses |-> p.numClasses,
            newCoords |-> p.newCoords, outputSize |-> p.outputSize, heads |-> p.heads]
  BY DEF PluginInfo
<1> QED
  BY <1>2, <1>11, <1>12, <1>13, Zenon

----------------------------------------------------------------------------
(* Dimensions                                                              *)

Shape == [1..4 -> Int]
Tensor == [1..4 -> Nat \ {0}]

LEMMA ShapeOfFour ==
    ASSUME NEW a \in Int, NEW b \in Int, NEW c \in Int, NEW d \in Int
    PROVE  <<a, b, c, d>> \in Shape
BY DEF Shape

LEMMA PairIsList ==
    ASSUME NEW a \in Int, NEW b \in Int
    PROVE  <<a, b>> \in Seq(Int) /\ Len(<<a, b>>) = 2
OBVIOUS

LEMMA FunctionIsList ==
    ASSUME NEW n \in Nat, NEW f \in [1..n -> Int]
    PROVE  f \in Seq(Int) /\ Len(f) = n
OBVIOUS

LEMMA JoinedIsList ==
    ASSUME NEW p \in Seq(Int), NEW q \in Seq(Int)
    PROVE  p \o q \in Seq(Int) /\ Len(p \o q) = Len(p) + Len(q)
OBVIOUS

LEMMA EntriesOfList == \A q \in Seq(Int) : \A k \in 1..Len(q) : q[k] \in Int
OBVIOUS

LEMMA ListIsShape ==
    ASSUME NEW q \in Seq(Int), Len(q) = 4
    PROVE  q \in Shape
<1> DEFINE n == Len(q)
<1>1. q = [k \in 1..n |-> q[k]]
  BY ListIsFunction
<1>2. \A k \in 1..n : q[k] \in Int
  BY EntriesOfList
<1>3. n = 4
  OBVIOUS
<1> HIDE DEF n
<1> QED
  BY <1>1, <1>2, <1>3 DEF Shape

LEMMA ShapeOfTwo ==
    ASSUME NEW a \in Int, NEW b \in Int, NEW f \in [1..2 -> Int]
    PROVE  <<a, b>> \o f \in Shape
<1> DEFINE p == <<a, b>>
           two == 2
<1>1. p \in Seq(Int) /\ Len(p) = two
  BY PairIsList
<1>2. two \in Nat /\ f \in [1..two -> Int] /\ two + two = 4
  OBVIOUS
<1> HIDE DEF p, two
<1>3. f \in Seq(Int) /\ Len(f) = two
  BY <1>2, FunctionIsList
<1>4. p \o f \in Seq(Int) /\ Len(p \o f) = 4
  BY <1>1, <1>2, <1>3, JoinedIsList
<1>5. p \o f \in Shape
  BY <1>4, ListIsShape, Zenon
<1> QED
  BY <1>5 DEF p

\* A block that a layer takes.
LEMMA BlockValues ==
    ASSUME NEW b, IsBlock(b), Divides(b)
    PROVE  /\ \A key \in {"filters", "size", "stride", "pad", "groups", "group_id",
                          "from", "axis"} \intersect DOMAIN b : b[key] \in Int
           /\ \A key \in {"stride", "groups"} \intersect DOMAIN b :
                b[key] \in Int /\ b[key] > 0
           /\ "layers" \in DOMAIN b => b.layers \in Seq(Int)
<1>1. \A key \in {"filters", "size", "stride", "pad", "groups", "group_id",
                  "from", "axis"} \intersect DOMAIN b : b[key] \in Int
  BY DEF IsBlock
<1>2. \A key \in {"stride", "groups"} \intersect DOMAIN b : b[key] \in Int /\ b[key] > 0
  BY <1>1 DEF Divides
<1>3. "layers" \in DOMAIN b => b.layers \in Seq(Int)
  BY DEF IsBlock
<1> QED
  BY <1>1, <1>2, <1>3

LEMMA QuotientIsInt == \A a, b \in Int : b > 0 => a \div b \in Int
OBVIOUS

LEMMA WindowIsInt ==
    ASSUME NEW extent \in Int, NEW size \in Int, NEW stride \in Int, stride > 0,
           NEW pad \in Int
    PROVE  Window(extent, size, stride, pad) \in Int
BY DEF Window

LEMMA MaxOfTwo ==
    ASSUME NEW a \in Int, NEW b \in Int
    PROVE  Max({a, b}) \in Int
<1>1. Max({a, b}) = IF a >= b THEN a ELSE b
  BY DEF Max
<1> QED
  BY <1>1

LEMMA ElementWiseIsShape ==
    ASSUME NEW d \in Shape, NEW e \in Shape, NEW f \in ElementWiseDims(d, e)
    PROVE  f \in Shape
<1>1. f = [k \in 1..4 |-> Max({d[k], e[k]})]
  BY DEF ElementWiseDims
<1>2. \A k \in 1..4 : Max({d[k], e[k]}) \in Int
  BY MaxOfTwo DEF Shape
<1> QED
  BY <1>1, <1>2 DEF Shape

LEMMA WindowsAreShape ==
    ASSUME NEW d \in Shape, NEW c \in Int, NEW size \in Int, NEW stride \in Int,
           stride > 0, NEW pad \in Int
    PROVE  <<d[1], c>> \o [k \in 1..2 |-> Window(d[k + 2], size, stride, pad)] \in Shape
<1> DEFINE f == [k \in 1..2 |-> Window(d[k + 2], size, stride, pad)]
<1>1. d[1] \in Int /\ \A k \in 1..2 : d[k + 2] \in Int
  BY DEF Shape
<1>2. f \in [1..2 -> Int]
  <2>1. \A k \in 1..2 : Window(d[k + 2], size, stride, pad) \in Int
    BY <1>1, WindowIsInt
  <2> QED
    BY <2>1
<1> DEFINE a == d[1]
<1>3. a \in Int
  BY <1>1
<1> HIDE DEF f, a
<1>4. <<a, c>> \o f \in Shape
  BY <1>2, <1>3, ShapeOfTwo
<1> QED
  BY <1>4 DEF a, f

LEMMA ConvolutionIsShape ==
    ASSUME NEW b, IsBlock(b), Divides(b),
           {"filters", "pad", "size", "stride"} \subseteq DOMAIN b,
           NEW d \in Shape, NEW e \in ConvolutionalDims(b, d)
    PROVE  e \in Shape
<1>1. b.filters \in Int /\ b.size \in Int /\ b.pad \in Int /\ b.stride \in Int /\ b.stride > 0
  BY BlockValues
<1> DEFINE pad == IF b.pad # 0 THEN SamePadding(b) ELSE 0
<1>2. pad \in Int
  BY <1>1 DEF SamePadding
<1>3. e = <<d[1], b.filters>> \o [k \in 1..2 |-> Window(d[k + 2], b.size, b.stride, pad)]
  BY DEF ConvolutionalDims
<1> HIDE DEF pad
<1> QED
  BY <1>1, <1>2, <1>3, WindowsAreShape

LEMMA DeconvolutionIsShape ==
    ASSUME NEW b, IsBlock(b), Divides(b),
           {"filters", "pad", "size", "stride"} \subseteq DOMAIN b,
           NEW d \in Shape, NEW e \in DeconvolutionalDims(b, d)
    PROVE  e \in Shape
<1>1. b.filters \in Int /\ b.size \in Int /\ b.pad \in Int /\ b.stride \in Int
  BY BlockValues
<1> DEFINE pad == IF b.pad # 0 THEN SamePadding(b) ELSE 0
           f == [k \in 1..2 |-> (d[k + 2] - 1) * b.stride + b.size - pad]
<1>2. pad \in Int
  BY <1>1 DEF SamePadding
<1> HIDE DEF pad
<1>3. d[1] \in Int /\ \A k \in 1..2 : d[k + 2] \in Int
  BY DEF Shape
<1>4. f \in [1..2 -> Int]
  BY <1>1, <1>2, <1>3
<1>5. e = <<d[1], b.filters>> \o f
  BY DEF DeconvolutionalDims, pad
<1> HIDE DEF f
<1> QED
  BY <1>1, <1>3, <1>4, <1>5, ShapeOfTwo

LEMMA PoolingIsShape ==
    ASSUME NEW b, IsBlock(b), Divides(b),
           b.type \notin AvgPool => {"size", "stride"} \subseteq DOMAIN b,
           NEW d \in Shape, NEW e \in PoolingDims(b, d)
    PROVE  e \in Shape
<1>0. d[1] \in Int /\ d[2] \in Int /\ d[3] \in Int /\ d[4] \in Int
  BY DEF Shape
<1>1. CASE b.type \in AvgPool
  <2>1. e = <<d[1], d[2], Window(d[3], d[2], 1, 0), Window(d[4], d[3], 1, 0)>>
    BY <1>1 DEF PoolingDims
  <2>2. \A m, n \in Int : Window(m, n, 1, 0) \in Int
    BY WindowIsInt
  <2>3. Window(d[3], d[2], 1, 0) \in Int /\ Window(d[4], d[3], 1, 0) \in Int
    BY <1>0, <2>2
  <2> QED
    BY <1>0, <2>1, <2>3, ShapeOfFour
<1>2. CASE b.type \notin AvgPool
  <2>1. b.size \in Int /\ b.stride \in Int /\ b.stride > 0
    BY <1>2, BlockValues
  <2>2. MaxPoolPadding(b) \in Int
    BY <2>1 DEF MaxPoolPadding, SamePadding
  <2>3. e = <<d[1], d[2]>> \o [k \in 1..2 |-> Window(d[k + 2], b.size, b.stride, MaxPoolPadding(b))]
    BY <1>2 DEF PoolingDims
  <2> QED
    BY <1>0, <2>1, <2>2, <2>3, WindowsAreShape
<1> QED
  BY <1>1, <1>2

LEMMA ReorgIsShape ==
    ASSUME NEW b, IsBlock(b), Divides(b), NEW d \in Shape, NEW e \in ReorgDims(b, d)
    PROVE  e \in Shape
<1>0. d[1] \in Int /\ d[2] \in Int /\ d[3] \in Int /\ d[4] \in Int
  BY DEF Shape
<1> DEFINE s == Value(b, "stride", 1)
<1>1. s \in Int /\ s > 0
  BY BlockValues DEF Value, Has
<1>2. e = <<4 * d[1], d[2], d[3] \div s, d[4] \div s>>
      \/ e = <<d[1], d[2] * s * s, d[3] \div s, d[4] \div s>>
  BY DEF ReorgDims
<1> HIDE DEF s
<1>3. d[3] \div s \in Int /\ d[4] \div s \in Int /\ d[2] * s * s \in Int /\ 4 * d[1] \in Int
  BY <1>0, <1>1
<1> QED
  BY <1>0, <1>2, <1>3, ShapeOfFour

LEMMA ConcatIsShape ==
    ASSUME NEW b, IsBlock(b), Divides(b), NEW ds \in Seq(Shape), ds # <<>>,
           NEW e \in ConcatDims(b, ds)
    PROVE  e \in Shape
<1>1. Len(ds) \in Nat /\ Len(ds) > 0 /\ DOMAIN ds = 1..Len(ds) /\ \A r \in 1..Len(ds) : ds[r] \in Shape
  OBVIOUS
<1> DEFINE a == 1 + Value(b, "axis", 0)
           axis == (IF a < 0 THEN a + 4 ELSE a) + 1
           numbers == [r \in DOMAIN ds |-> ds[r][axis]]
<1>2. e = ds[1] \/ e = [ds[1] EXCEPT ![axis] = Total(numbers)]
  BY DEF ConcatDims
<1>3. CASE e = ds[1]
  BY <1>1, <1>3
<1>4. CASE e = [ds[1] EXCEPT ![axis] = Total(numbers)] /\ axis \in 1..4
  <2> HIDE DEF axis
  <2>1. numbers \in Seq(Int)
    <3>1. \A r \in 1..Len(ds) : ds[r][axis] \in Int
      BY <1>1, <1>4 DEF Shape
    <3>2. numbers \in [1..Len(ds) -> Int]
      BY <1>1, <3>1
    <3> HIDE DEF numbers
    <3> QED
      BY <1>1, <3>2
  <2> HIDE DEF numbers
  <2>2. Total(numbers) \in Int
    <3>1. IsSum(SumAfter(numbers), numbers) /\ Len(numbers) \in 0..Len(numbers)
      BY <2>1, SumUnfolds
    <3> QED
      BY <3>1 DEF IsSum, Total
  <2> QED
    BY <1>1, <1>4, <2>2 DEF Shape
<1>5. CASE e = [ds[1] EXCEPT ![axis] = Total(numbers)] /\ axis \notin 1..4
  <2> HIDE DEF axis, numbers
  <2>1. ds[1] \in Shape
    BY <1>1
  <2> QED
    BY <1>5, <2>1 DEF Shape
<1> QED
  BY <1>2, <1>3, <1>4, <1>5

LEMMA RouteIsShape ==
    ASSUME NEW b, IsBlock(b), Divides(b), NEW ds \in Seq(Shape), ds # <<>>,
           NEW e \in RouteDims(b, ds)
    PROVE  e \in Shape
<1>1. PICK d \in ConcatDims(b, ds) : e \in IF Has(b, "groups") THEN GroupDims(b, d) ELSE {d}
  BY DEF RouteDims
<1>2. d \in Shape
  BY ConcatIsShape
<1>3. CASE Has(b, "groups")
  <2>1. b.groups \in Int /\ b.groups > 0 /\ d[2] \in Int
    BY <1>2, <1>3, BlockValues DEF Has, Shape
  <2>2. d[2] \div b.groups \in Int
    BY <2>1, QuotientIsInt
  <2>3. e = [d EXCEPT ![2] = d[2] \div b.groups]
    BY <1>1, <1>3 DEF GroupDims
  <2> QED
    BY <1>2, <2>2, <2>3 DEF Shape
<1>4. CASE ~Has(b, "groups")
  BY <1>1, <1>2, <1>4
<1> QED
  BY <1>3, <1>4

\* What a layer makes has dimensions, all positive (TensorRT refuses others).
LEMMA LayerIsTensor ==
    ASSUME NEW b, IsBlock(b), Supported(b), b.type \notin NoTensor,
           NEW d \in Shape, NEW ds,
           b.type \in FromLayer \union {"route"} => ds \in Seq(Tensor) /\ ds # <<>>,
           NEW e \in LayerDims(b, d, ds)
    PROVE  e \in Tensor
<1>1. Divides(b) /\ Required(b) \subseteq DOMAIN b
  BY DEF Supported
<1>2. b.type \in FromLayer \union {"route"} => ds \in Seq(Shape) /\ ds # <<>> /\ ds[1] \in Shape
  <2>1. \A s \in Tensor : s \in Shape
    BY DEF Tensor, Shape
  <2> HIDE DEF Tensor, Shape
  <2> QED
    BY <2>1
<1>3. (\A k \in 1..4 : e[k] > 0) /\ e \in Results(b, d, ds)
  BY DEF LayerDims
<1>4. e \in Shape
  <2>1. CASE b.type = "convolutional"
    <3>1. e \in ConvolutionalDims(b, d) /\ {"filters", "pad", "size", "stride"} \subseteq DOMAIN b
      BY <1>3, <1>1, <2>1 DEF Results, Required, Convolution, Implicit, Channels, MaxPool, AvgPool, Reorg, FromLayer
    <3> QED
      BY <1>1, <1>2, <3>1, ConvolutionIsShape
  <2>2. CASE b.type = "deconvolutional"
    <3>1. e \in DeconvolutionalDims(b, d) /\ {"filters", "pad", "size", "stride"} \subseteq DOMAIN b
      BY <1>3, <1>1, <2>2 DEF Results, Required, Convolution, Implicit, Channels, MaxPool, AvgPool, Reorg, FromLayer
    <3> QED
      BY <1>1, <1>2, <3>1, DeconvolutionIsShape
  <2>3. CASE b.type = "batchnorm"
    BY <1>3, <1>2, <2>3 DEF Results, BatchnormDims, Implicit, Channels, MaxPool, AvgPool, Reorg
  <2>4. CASE b.type \in Implicit
    <3>1. e = <<1, b.filters, 1, 1>> /\ "filters" \in DOMAIN b
      BY <1>3, <1>1, <2>4 DEF Results, Required, Convolution, Implicit, ImplicitDims, Channels, MaxPool, AvgPool, Reorg, FromLayer
    <3> QED
      BY <1>1, <3>1, BlockValues, ShapeOfFour
  <2>5. CASE b.type \in Channels \union {"sam"}
    <3>1. e \in ElementWiseDims(d, ds[1])
      BY <1>3, <2>5 DEF Results, Implicit, Channels, MaxPool, AvgPool, Reorg
    <3>2. ds[1] \in Shape
      BY <1>2, <2>5 DEF FromLayer
    <3> QED
      BY <1>2, <3>1, <3>2, ElementWiseIsShape
  <2>6. CASE b.type = "shortcut"
    <3>1. e \in ShortcutDims(d, ds[1])
      BY <1>3, <2>6 DEF Results, Implicit, Channels, MaxPool, AvgPool, Reorg
    <3>2. ds[1] \in Shape
      BY <1>2, <2>6 DEF FromLayer
    <3>3. e \in ElementWiseDims(d, ds[1]) \/ e = d
      BY <3>1 DEF ShortcutDims
    <3> QED
      BY <1>2, <3>2, <3>3, ElementWiseIsShape
  <2>7. CASE b.type = "route"
    <3>1. e \in RouteDims(b, ds)
      BY <1>3, <2>7 DEF Results, Implicit, Channels, MaxPool, AvgPool, Reorg
    <3> QED
      BY <1>1, <1>2, <2>7, <3>1, RouteIsShape
  <2>8. CASE b.type = "upsample"
    <3>1. e = <<d[1], d[2], d[3] * b.stride, d[4] * b.stride>> /\ "stride" \in DOMAIN b
      BY <1>3, <1>1, <2>8 DEF Results, Required, Convolution, Implicit, Channels, FromLayer, UpsampleDims, MaxPool, AvgPool, Reorg
    <3>2. b.stride \in Int
      BY <1>1, <3>1, BlockValues
    <3>3. d[1] \in Int /\ d[2] \in Int /\ d[3] \in Int /\ d[4] \in Int
      BY <1>2 DEF Shape
    <3>4. d[3] * b.stride \in Int /\ d[4] * b.stride \in Int
      BY <3>2, <3>3
    <3> QED
      BY <3>1, <3>3, <3>4, ShapeOfFour
  <2>9. CASE b.type \in MaxPool \union AvgPool
    <3>1. e \in PoolingDims(b, d)
      BY <1>3, <2>9 DEF Results, Implicit, Channels, MaxPool, AvgPool, Reorg
    <3>2. b.type \notin AvgPool => {"size", "stride"} \subseteq DOMAIN b
      BY <1>1, <2>9 DEF Required, Convolution, Implicit, FromLayer, Channels, MaxPool, AvgPool
    <3> QED
      BY <1>1, <1>2, <3>1, <3>2, PoolingIsShape
  <2>10. CASE b.type \in Reorg
    <3>1. e \in ReorgDims(b, d)
      BY <1>3, <2>10 DEF Results, Implicit, Channels, MaxPool, AvgPool, Reorg
    <3> QED
      BY <1>1, <1>2, <3>1, ReorgIsShape
  <2>11. CASE b.type \in YoloHead
    BY <1>3, <1>2, <2>11 DEF Results, Implicit, Channels, MaxPool, AvgPool, Reorg, YoloHead
  <2>12. \/ b.type \in {"convolutional", "deconvolutional", "batchnorm", "route", "upsample"}
         \/ b.type \in Implicit \/ b.type \in Channels \union {"shortcut", "sam"}
         \/ b.type \in MaxPool \union AvgPool \/ b.type \in Reorg \/ b.type \in YoloHead
    BY DEF Supported, FromLayer
  <2> QED
    BY <2>1, <2>2, <2>3, <2>4, <2>5, <2>6, <2>7, <2>8, <2>9, <2>10, <2>11, <2>12
<1> QED
  BY <1>3, <1>4 DEF Shape, Tensor

----------------------------------------------------------------------------
(* The network under construction                                          *)

\* The blocks of a cfg file.
IsFile(cfg) ==
    /\ Len(cfg) \in Nat \ {0} /\ DOMAIN cfg = 1..Len(cfg)
    /\ \A k \in 1..Len(cfg) : IsBlock(cfg[k])
    /\ \A k \in 1..Len(cfg) : cfg[k].type = "net" <=> k = 1

HeadBlocks(cfg) == {cfg[k] : k \in HeadPlaces(cfg)}

\* What parseConfigBlocks collects are the blocks of the heads, one after
\* another (yolo.cpp:546-617).
LEMMA HeadsOfFile ==
    ASSUME NEW cfg, IsFile(cfg)
    PROVE  /\ Unfolds(HeadBlocks(cfg), cfg, HeadPlaces(cfg))
           /\ Heads(cfg) = KeptAfter(cfg, HeadPlaces(cfg))[Len(cfg)]
           /\ Heads(cfg) \in Seq(HeadBlocks(cfg))
<1>1. Loop(HeadBlocks(cfg), cfg, HeadPlaces(cfg))
  BY DEF Loop, HeadBlocks, HeadPlaces, IsFile
<1>2. Unfolds(HeadBlocks(cfg), cfg, HeadPlaces(cfg))
  BY <1>1, KeptUnfolds
<1>3. Heads(cfg) = KeptAfter(cfg, HeadPlaces(cfg))[Len(cfg)] /\ Len(cfg) \in Nat
  BY DEF Heads, Kept, IsFile
<1> QED
  BY <1>2, <1>3, Zenon DEF Unfolds

\* A head of a complete file (yolo.cpp:556-615).
LEMMA HeadIsComplete ==
    ASSUME NEW cfg, IsFile(cfg), ConfigIsComplete(cfg), NEW b \in HeadBlocks(cfg)
    PROVE  /\ TensorInfo(b) \in HeadInfo
           /\ b.classes \in Nat /\ b.num \in Nat /\ b.anchors \in Seq(Int)
<1>1. PICK k \in HeadPlaces(cfg) : b = cfg[k]
  BY DEF HeadBlocks
<1>2. IsBlock(b) /\ {"num", "classes", "anchors"} \subseteq DOMAIN b
  BY <1>1 DEF IsFile, ConfigIsComplete, HeadPlaces
<1>3. b.num \in Nat /\ b.classes \in Nat /\ b.anchors \in Seq(Int)
  BY <1>2 DEF IsBlock
<1> DEFINE mask == Value(b, "mask", <<>>)
           scale == Value(b, "scale_x_y", 1)
           boxes == IF mask # <<>> THEN Len(mask) ELSE b.num
<1>4. mask \in Seq(Int)
  BY <1>2 DEF IsBlock, Value, Has
<1>5. scale \in Int
  BY <1>2 DEF IsBlock, Value, Has
<1>6. boxes \in Nat
  BY <1>3, <1>4
<1>7. TensorInfo(b) = [gridSizeX |-> 0, gridSizeY |-> 0, numBBoxes |-> boxes,
                       scaleXY |-> scale, anchors |-> b.anchors, mask |-> mask]
  BY DEF TensorInfo
<1> HIDE DEF mask, scale, boxes
<1> QED
  BY <1>3, <1>4, <1>5, <1>6, <1>7 DEF HeadInfo

\* The numbers that all heads share.
LEMMA SharedNumbers ==
    ASSUME NEW cfg, IsFile(cfg), ConfigIsComplete(cfg)
    PROVE  NumClasses(cfg) \in Nat /\ NewCoords(cfg) \in Int
<1>1. NumClasses(cfg) \in Nat
  <2>1. CASE Heads(cfg) = <<>>
    BY <2>1 DEF NumClasses
  <2>2. CASE Heads(cfg) # <<>>
    <3>1. Last(Heads(cfg)) \in HeadBlocks(cfg)
      BY <2>2, HeadsOfFile DEF Last
    <3> QED
      BY <2>2, <3>1, HeadIsComplete DEF NumClasses
  <2> QED
    BY <2>1, <2>2
<1>2. NewCoords(cfg) \in Int
  <2> DEFINE places == {k \in HeadPlaces(cfg) : Has(cfg[k], "new_coords")}
             S == {cfg[k] : k \in places}
             given == Kept(cfg, places)
  <2>1. Loop(S, cfg, places)
    BY DEF Loop, HeadPlaces, IsFile
  <2>2. \A b \in S : b.new_coords \in Int
    BY DEF IsFile, IsBlock, HeadPlaces, Has
  <2>3. NewCoords(cfg) = IF given = <<>> THEN 0 ELSE Last(given).new_coords
    BY DEF NewCoords
  <2> HIDE DEF S, places
  <2>4. given \in Seq(S)
    <3>1. Unfolds(S, cfg, places)
      BY <2>1, KeptUnfolds
    <3>2. Len(cfg) \in Nat
      BY DEF IsFile
    <3> QED
      BY <3>1, <3>2, Zenon DEF Unfolds, Kept
  <2> HIDE DEF given
  <2>5. given # <<>> => Last(given) \in S
    BY <2>4 DEF Last
  <2> QED
    BY <2>2, <2>3, <2>5
<1> QED
  BY <1>1, <1>2

\* The heads of a plugin, the first ones with the grid of their input.
HeadsFollow(cfg, heads, ins) ==
    /\ heads \in Seq(HeadInfo) /\ Len(heads) = Len(Heads(cfg))
    /\ ins \in Seq(Tensor) /\ Len(ins) <= Len(heads)
    /\ \A k \in 1..Len(heads) :
         /\ heads[k].numBBoxes = TensorInfo(Heads(cfg)[k]).numBBoxes
         /\ heads[k].anchors = Heads(cfg)[k].anchors
         /\ heads[k].mask = Value(Heads(cfg)[k], "mask", <<>>)
    /\ \A k \in 1..Len(ins) :
         heads[k].gridSizeX = ins[k][4] /\ heads[k].gridSizeY = ins[k][3]

NetworkField == {"block", "tensors", "layers", "uses", "weightPtr", "inputs", "heads"}

\* A network after some blocks of its file.
NetworkFits(cfg, net) ==
    /\ ConfigIsComplete(cfg)
    /\ DOMAIN net = NetworkField
    /\ net.block \in 0..Len(cfg)
    /\ net.tensors \in Seq(Tensor)
    /\ Len(net.inputs) = Len(KeptAfter(cfg, HeadPlaces(cfg))[net.block])
    /\ HeadsFollow(cfg, net.heads, net.inputs)

LEMMA NoNetwork ==
    ASSUME NEW cfg, IsFile(cfg), ConfigIsComplete(cfg)
    PROVE  NetworkFits(cfg, EmptyNetwork(cfg))
<1> DEFINE net == EmptyNetwork(cfg)
           n == Len(Heads(cfg))
           none == <<>>
           heads == [k \in 1..n |-> TensorInfo(Heads(cfg)[k])]
<1>1. Heads(cfg) \in Seq(HeadBlocks(cfg)) /\ n \in Nat /\ DOMAIN Heads(cfg) = 1..n
      /\ \A k \in 1..n : Heads(cfg)[k] \in HeadBlocks(cfg)
  BY HeadsOfFile
<1>2. /\ DOMAIN net = NetworkField /\ net.block = 0 /\ net.tensors = none
      /\ net.inputs = none /\ net.heads = heads
  BY <1>1 DEF EmptyNetwork, NetworkField
<1>3. KeptAfter(cfg, HeadPlaces(cfg))[0] = none
  BY HeadsOfFile, Zenon DEF Unfolds
<1>4. none \in Seq(Tensor) /\ Len(none) = 0
  OBVIOUS
<1>5. \A k \in 1..n : TensorInfo(Heads(cfg)[k]) \in HeadInfo
  BY <1>1, HeadIsComplete
<1> HIDE DEF n, none, net
<1>6. heads \in Seq(HeadInfo) /\ Len(heads) = n
  BY <1>1, <1>5
<1>7. \A k \in 1..n : /\ heads[k].numBBoxes = TensorInfo(Heads(cfg)[k]).numBBoxes
                      /\ heads[k].anchors = Heads(cfg)[k].anchors
                      /\ heads[k].mask = Value(Heads(cfg)[k], "mask", <<>>)
  BY DEF TensorInfo
<1> HIDE DEF heads
<1>8. HeadsFollow(cfg, heads, none)
  BY <1>1, <1>4, <1>6, <1>7 DEF HeadsFollow, n
<1>9. 0 \in 0..Len(cfg)
  BY DEF IsFile
<1> QED
  BY <1>2, <1>3, <1>4, <1>8, <1>9 DEF NetworkFits, net

\* A head with the grid of its input.
WithGrid(heads, k, d) ==
    [heads EXCEPT ![k] = [@ EXCEPT !.gridSizeX = d[4], !.gridSizeY = d[3]]]

\* w is the network with one more tensor.
Grown(cfg, net, d, w) ==
    /\ DOMAIN w = NetworkField
    /\ w.block = net.block + 1
    /\ w.tensors = Append(net.tensors, d)
    /\ cfg[net.block + 1].type \notin YoloHead =>
         w.inputs = net.inputs /\ w.heads = net.heads
    /\ cfg[net.block + 1].type \in YoloHead =>
         /\ w.inputs = Append(net.inputs, d)
         /\ w.heads = WithGrid(net.heads, Len(net.inputs) + 1, d)

LEMMA TensorAdded ==
    ASSUME NEW cfg, NEW net, DOMAIN net = NetworkField, NEW d
    PROVE  Grown(cfg, net, d, WithTensor(cfg, net, d))
BY ZenonT(60) DEF Grown, WithTensor, NetworkField, Grid, WithGrid

LEMMA HeadFollows ==
    ASSUME NEW cfg, NEW heads, NEW ins, HeadsFollow(cfg, heads, ins),
           Len(ins) < Len(heads), NEW d \in Tensor
    PROVE  HeadsFollow(cfg, WithGrid(heads, Len(ins) + 1, d), Append(ins, d))
<1> DEFINE k == Len(ins) + 1
           t == heads[k]
           u == [t EXCEPT !.gridSizeX = d[4], !.gridSizeY = d[3]]
           w == [heads EXCEPT ![k] = u]
           more == Append(ins, d)
<1>1. heads \in Seq(HeadInfo) /\ ins \in Seq(Tensor) /\ Len(heads) = Len(Heads(cfg))
  BY DEF HeadsFollow
<1>2. /\ more \in Seq(Tensor) /\ Len(more) = Len(ins) + 1 /\ more[Len(ins) + 1] = d
      /\ \A j \in 1..Len(ins) : more[j] = ins[j]
  <2> HIDE DEF Tensor
  <2> QED
    BY <1>1
<1>3. Len(ins) \in Nat /\ Len(heads) \in Nat /\ k \in 1..Len(heads)
  BY <1>1
<1>4. t \in HeadInfo
  BY <1>1, <1>3
<1>5. d[4] \in Nat /\ d[3] \in Nat
  BY DEF Tensor
<1>6. /\ u \in HeadInfo /\ u.gridSizeX = d[4] /\ u.gridSizeY = d[3]
      /\ u.numBBoxes = t.numBBoxes /\ u.anchors = t.anchors /\ u.mask = t.mask
  BY <1>4, <1>5 DEF HeadInfo
<1> HIDE DEF k, t, u, more
<1>7. /\ w \in Seq(HeadInfo) /\ Len(w) = Len(heads) /\ w[k] = u
      /\ \A j \in 1..Len(heads) : j # k => w[j] = heads[j]
  <2> HIDE DEF HeadInfo
  <2> QED
    BY <1>1, <1>3, <1>6
<1> HIDE DEF w
<1>8. ASSUME NEW j \in 1..Len(w)
      PROVE  /\ w[j].numBBoxes = TensorInfo(Heads(cfg)[j]).numBBoxes
             /\ w[j].anchors = Heads(cfg)[j].anchors
             /\ w[j].mask = Value(Heads(cfg)[j], "mask", <<>>)
  <2>1. /\ heads[j].numBBoxes = TensorInfo(Heads(cfg)[j]).numBBoxes
        /\ heads[j].anchors = Heads(cfg)[j].anchors
        /\ heads[j].mask = Value(Heads(cfg)[j], "mask", <<>>)
    BY <1>7 DEF HeadsFollow
  <2>2. /\ w[j].numBBoxes = heads[j].numBBoxes
        /\ w[j].anchors = heads[j].anchors /\ w[j].mask = heads[j].mask
    BY <1>6, <1>7 DEF t
  <2> QED
    BY <2>1, <2>2, Zenon
<1>9. ASSUME NEW j \in 1..Len(more)
      PROVE  w[j].gridSizeX = more[j][4] /\ w[j].gridSizeY = more[j][3]
  <2>1. CASE j = k
    BY <1>2, <1>6, <1>7, <2>1 DEF k
  <2>2. CASE j # k
    <3>1. j \in 1..Len(ins) /\ j \in 1..Len(heads)
      BY <1>2, <1>3, <2>2 DEF k
    <3>2. heads[j].gridSizeX = ins[j][4] /\ heads[j].gridSizeY = ins[j][3]
      BY <3>1, Zenon DEF HeadsFollow
    <3> QED
      BY <1>2, <1>7, <2>2, <3>1, <3>2, Zenon
  <2> QED
    BY <2>1, <2>2
<1>10. Len(more) <= Len(w)
  BY <1>2, <1>3, <1>7 DEF k
<1>11. HeadsFollow(cfg, w, more)
  BY <1>1, <1>2, <1>7, <1>8, <1>9, <1>10 DEF HeadsFollow
<1> QED
  BY <1>11 DEF w, more, u, t, k, WithGrid

\* The references of a block whose assertions hold reach tensors that were made
\* (route_layer.cpp:30-45, yolo.cpp:331-398).
LEMMA ReferencesAreTensors ==
    ASSUME NEW b, IsBlock(b), Supported(b), NEW i \in Nat, NEW tensors \in Seq(Tensor),
           RefsInRange(b, i, Len(tensors)), b.type \in FromLayer \union {"route"}
    PROVE  LET refs == Refs(b, i, Len(tensors))
               ds == [r \in DOMAIN refs |-> tensors[refs[r] + 1]]
           IN  ds \in Seq(Tensor) /\ ds # <<>>
<1> DEFINE count == Len(tensors)
           refs == Refs(b, i, count)
           ds == [r \in DOMAIN refs |-> tensors[refs[r] + 1]]
<1>1. count \in Nat /\ \A k \in 0..(count - 1) : tensors[k + 1] \in Tensor
  <2> HIDE DEF Tensor
  <2> QED
    OBVIOUS
<1>2. PICK n \in Nat \ {0} : DOMAIN refs = 1..n /\ \A r \in 1..n : refs[r] \in 0..(count - 1)
  <2>1. CASE b.type \in FromLayer
    <3>1. refs = <<FromIndex(b, i)>> /\ FromIndex(b, i) \in 0..(count - 1)
      BY <2>1 DEF Refs, RefsInRange, FromLayer, Channels
    <3>2. DOMAIN refs = 1..1 /\ refs[1] = FromIndex(b, i) /\ 1 \in Nat \ {0}
      BY <3>1
    <3> QED
      BY <3>1, <3>2
  <2>2. CASE b.type = "route"
    <3>1. b.layers \in Seq(Int)
      <4>1. "layers" \in DOMAIN b
        BY <2>2 DEF Supported, Required, Convolution, Implicit, FromLayer, Channels, MaxPool
      <4> QED
        BY <4>1 DEF IsBlock
    <3>2. /\ b.layers # <<>>
          /\ \A r \in DOMAIN b.layers : refs[r] \in 0..(count - 1)
      BY <2>2 DEF RefsInRange, FromLayer, Channels
    <3>3. DOMAIN refs = DOMAIN b.layers
      BY <2>2 DEF Refs, FromLayer, Channels
    <3> HIDE DEF refs
    <3>4. Len(b.layers) \in Nat \ {0} /\ DOMAIN b.layers = 1..Len(b.layers)
      BY <3>1, <3>2
    <3> QED
      BY <3>2, <3>3, <3>4
  <2> QED
    BY <2>1, <2>2
<1> HIDE DEF count, refs
<1>3. \A r \in 1..n : tensors[refs[r] + 1] \in Tensor
  BY <1>1, <1>2
<1>4. ds = [r \in 1..n |-> tensors[refs[r] + 1]]
  BY <1>2
<1> HIDE DEF ds, Tensor
<1>5. ds \in Seq(Tensor) /\ Len(ds) = n
  BY <1>2, <1>3, <1>4
<1>6. ds \in Seq(Tensor) /\ ds # <<>>
  BY <1>2, <1>5
<1> QED
  BY <1>6 DEF ds, refs, count

LEMMA PreviousIsShape ==
    ASSUME NEW cfg, IsFile(cfg), NEW net, NetworkFits(cfg, net)
    PROVE  Previous(cfg, net) \in Shape
<1>1. CASE net.tensors = <<>>
  <2>1. cfg[1].channels \in Nat /\ cfg[1].height \in Nat /\ cfg[1].width \in Nat
    BY DEF IsFile, NetworkFits, ConfigIsComplete, IsBlock
  <2>2. Previous(cfg, net) = <<1, cfg[1].channels, cfg[1].height, cfg[1].width>>
    BY <1>1 DEF Previous, InputDims
  <2> QED
    BY <2>1, <2>2, ShapeOfFour
<1>2. CASE net.tensors # <<>>
  <2>1. net.tensors \in Seq(Tensor) /\ Previous(cfg, net) = net.tensors[Len(net.tensors)]
    BY <1>2 DEF NetworkFits, Previous, Last
  <2>2. Previous(cfg, net) \in Tensor
    <3> HIDE DEF Tensor
    <3> QED
      BY <1>2, <2>1
  <2> QED
    BY <2>2 DEF Tensor, Shape
<1> QED
  BY <1>1, <1>2

\* One turn of buildYoloNetwork's loop (yolo.cpp:287-454).
LEMMA BlockAdded ==
    ASSUME NEW cfg, IsFile(cfg), NEW net, NetworkFits(cfg, net), net.block < Len(cfg),
           NEW w \in WithBlock(cfg, net)
    PROVE  NetworkFits(cfg, w)
<1> DEFINE i == net.block
           n == Len(cfg)
           b == cfg[i + 1]
           K == KeptAfter(cfg, HeadPlaces(cfg))
           refs == Refs(b, i, Len(net.tensors))
           ds == [r \in DOMAIN refs |-> net.tensors[refs[r] + 1]]
<1>1. /\ n \in Nat /\ i \in Nat /\ i < n /\ i + 1 \in 1..n /\ i + 1 \in 0..n
      /\ IsBlock(b) /\ net.tensors \in Seq(Tensor)
  BY DEF IsFile, NetworkFits
<1>2. /\ Supported(b) /\ RefsInRange(b, i, Len(net.tensors))
      /\ b.type \in NoTensor => w = [net EXCEPT !.block = i + 1]
      /\ b.type \notin NoTensor =>
           \E d \in LayerDims(b, Previous(cfg, net), ds) : w = WithTensor(cfg, net, d)
  BY DEF WithBlock, ReferredTensors
<1>3. /\ \A m \in Nat : K[m] \in Seq(HeadBlocks(cfg))
      /\ \A m \in Nat : K[m + 1] = IF m + 1 \in HeadPlaces(cfg) THEN Append(K[m], cfg[m + 1])
                                                              ELSE K[m]
      /\ \A m, k \in Nat : Len(K[m]) <= Len(K[m + k])
      /\ K[n] = Heads(cfg)
  <2>1. Unfolds(HeadBlocks(cfg), cfg, HeadPlaces(cfg)) /\ K[n] = Heads(cfg)
    BY HeadsOfFile, Zenon
  <2>2. \A m, k \in Nat : Len(K[m]) <= Len(K[m + k])
    BY <2>1, KeptGrows, Zenon
  <2> QED
    BY <2>1, <2>2, Zenon DEF Unfolds
<1>4. i + 1 \in HeadPlaces(cfg) <=> b.type \in YoloHead
  BY <1>1 DEF HeadPlaces, IsFile
<1>5. Len(K[i + 1]) = IF b.type \in YoloHead THEN Len(K[i]) + 1 ELSE Len(K[i])
  <2>1. K[i] \in Seq(HeadBlocks(cfg))
        /\ K[i + 1] = IF b.type \in YoloHead THEN Append(K[i], b) ELSE K[i]
    BY <1>1, <1>3, <1>4, Zenon
  <2> HIDE DEF K, b, i
  <2> QED
    BY <2>1
<1>6. Len(K[i + 1]) <= Len(Heads(cfg))
  <2> HIDE DEF n, i, b, K
  <2>1. n - (i + 1) \in Nat /\ (i + 1) + (n - (i + 1)) = n /\ i + 1 \in Nat
    BY <1>1
  <2> QED
    BY <1>3, <2>1
<1>7. /\ ConfigIsComplete(cfg) /\ DOMAIN net = NetworkField
      /\ Len(net.inputs) = Len(K[i]) /\ HeadsFollow(cfg, net.heads, net.inputs)
  BY DEF NetworkFits
<1>8. CASE b.type \in NoTensor
  <2>1. /\ DOMAIN w = NetworkField /\ w.block = i + 1 /\ w.tensors = net.tensors
        /\ w.inputs = net.inputs /\ w.heads = net.heads
    BY <1>2, <1>7, <1>8 DEF NetworkField
  <2>2. b.type \notin YoloHead
    BY <1>8 DEF NoTensor, YoloHead
  <2>3. Len(w.inputs) = Len(K[i + 1])
    BY <1>5, <1>7, <2>1, <2>2
  <2> QED
    BY <1>1, <1>7, <2>1, <2>3 DEF NetworkFits
<1>9. CASE b.type \notin NoTensor
  <2>1. PICK d \in LayerDims(b, Previous(cfg, net), ds) : w = WithTensor(cfg, net, d)
    BY <1>2, <1>9
  <2>2. d \in Tensor
    <3>1. b.type \in FromLayer \union {"route"} => ds \in Seq(Tensor) /\ ds # <<>>
      <4> HIDE DEF b, i
      <4> QED
        BY <1>1, <1>2, ReferencesAreTensors
    <3>2. Previous(cfg, net) \in Shape
      BY PreviousIsShape, Zenon
    <3> HIDE DEF ds, b
    <3> QED
      BY <1>1, <1>2, <1>9, <2>1, <3>1, <3>2, LayerIsTensor
  <2>3. /\ DOMAIN w = NetworkField /\ w.block = i + 1 /\ w.tensors = Append(net.tensors, d)
        /\ b.type \notin YoloHead => w.inputs = net.inputs /\ w.heads = net.heads
        /\ b.type \in YoloHead =>
             /\ w.inputs = Append(net.inputs, d)
             /\ w.heads = WithGrid(net.heads, Len(net.inputs) + 1, d)
    <3>1. Grown(cfg, net, d, w)
      BY <1>7, <2>1, TensorAdded, Zenon
    <3> QED
      BY <3>1, Zenon DEF Grown
  <2>4. w.tensors \in Seq(Tensor)
    <3> HIDE DEF Tensor
    <3> QED
      BY <1>1, <2>2, <2>3
  <2>5. Len(w.inputs) = Len(K[i + 1]) /\ HeadsFollow(cfg, w.heads, w.inputs)
    <3>1. CASE b.type \in YoloHead
      <4>1. Len(net.inputs) < Len(net.heads)
        <5>1. Len(net.inputs) \in Nat /\ Len(net.heads) = Len(Heads(cfg))
          BY <1>7 DEF HeadsFollow
        <5> QED
          BY <1>5, <1>6, <1>7, <3>1, <5>1
      <4>2. HeadsFollow(cfg, w.heads, w.inputs)
        BY <1>7, <2>2, <2>3, <3>1, <4>1, HeadFollows, Zenon
      <4>3. Len(w.inputs) = Len(net.inputs) + 1
        BY <1>7, <2>2, <2>3, <3>1 DEF HeadsFollow
      <4> QED
        BY <1>5, <1>7, <3>1, <4>2, <4>3
    <3>2. CASE b.type \notin YoloHead
      BY <1>5, <1>7, <2>3, <3>2
    <3> QED
      BY <3>1, <3>2
  <2> QED
    BY <1>1, <1>7, <2>3, <2>4, <2>5 DEF NetworkFits
<1> QED
  BY <1>8, <1>9

----------------------------------------------------------------------------
(* The engine's plugin                                                     *)

\* The plugin and its inputs are those of the file.
PluginFits(cfg, p, ins) ==
    /\ p \in PluginInfo
    /\ HeadsFollow(cfg, p.heads, ins) /\ Len(ins) = Len(p.heads) /\ ins # <<>>
    /\ p.numClasses = NumClasses(cfg)
    /\ p.outputSize = OutputSize(p.heads)

\* Whichever start made it.
EngineFits ==
    /\ model \in Models
    /\ phase = "blocks" => NetworkFits(model.cfg, network)
    /\ plugin # Nothing => PluginFits(model.cfg, plugin, inputs)
    /\ file # Nothing =>
         \/ file.words = <<>>
         \/ \E p : PluginFits(model.cfg, p, file.inputs) /\ file.words = Serialized(p)

LEMMA DarknetHasFile == ASSUME model \in Models, Darknet PROVE IsFile(model.cfg)
<1> DEFINE cfg == model.cfg  S == {cfg[k] : k \in DOMAIN cfg}
<1>1. /\ cfg \in Seq(S) /\ \A k \in DOMAIN cfg : IsBlock(cfg[k])
      /\ cfg # <<>> /\ \A k \in DOMAIN cfg : cfg[k].type = "net" <=> k = 1
  BY ModelsAssumption DEF Darknet
<1>2. Len(cfg) \in Nat \ {0} /\ DOMAIN cfg = 1..Len(cfg)
  <2> HIDE DEF S, cfg
  <2> QED
    BY <1>1
<1>3. 1 \in DOMAIN cfg
  BY <1>2
<1> QED
  BY <1>1, <1>2, <1>3 DEF IsFile

\* The numbers of slots of heads add up.
LEMMA OutputSizeIsSum ==
    ASSUME NEW heads \in Seq(HeadInfo)
    PROVE  LET sizes == [k \in 1..Len(heads) |->
                           heads[k].numBBoxes * heads[k].gridSizeY * heads[k].gridSizeX]
           IN  /\ sizes \in Seq(Nat) /\ Len(sizes) = Len(heads)
               /\ IsSum(SumAfter(sizes), sizes)
               /\ OutputSize(heads) = SumAfter(sizes)[Len(heads)]
               /\ OutputSize(heads) \in Nat
<1> DEFINE n == Len(heads)
           sizes == [k \in 1..n |->
                       heads[k].numBBoxes * heads[k].gridSizeY * heads[k].gridSizeX]
<1>1. n \in Nat /\ DOMAIN heads = 1..n /\ \A k \in 1..n : heads[k] \in HeadInfo
  OBVIOUS
<1>2. OutputSize(heads) = Total(sizes)
  BY <1>1 DEF OutputSize
<1> HIDE DEF n
<1>3. \A k \in 1..n : heads[k].numBBoxes * heads[k].gridSizeY * heads[k].gridSizeX \in Nat
  <2>1. \A a, b, c \in Nat : a * b * c \in Nat
    OBVIOUS
  <2>2. \A k \in 1..n : /\ heads[k].numBBoxes \in Nat /\ heads[k].gridSizeY \in Nat
                        /\ heads[k].gridSizeX \in Nat
    BY <1>1 DEF HeadInfo
  <2> QED
    BY <2>1, <2>2, Zenon
<1>4. sizes \in Seq(Nat) /\ Len(sizes) = n
  BY <1>1, <1>3
<1> HIDE DEF sizes
<1>5. IsSum(SumAfter(sizes), sizes)
  <2>1. sizes \in Seq(Int)
    BY <1>4
  <2> QED
    BY <2>1, SumUnfolds
<1>6. OutputSize(heads) = SumAfter(sizes)[n] /\ SumAfter(sizes)[n] \in Nat
  <2>1. n \in 0..Len(sizes)
    BY <1>1, <1>4
  <2>2. SumAfter(sizes)[n] \in Nat
    BY <1>4, <1>5, <2>1, SumGrows
  <2> QED
    BY <1>2, <1>4, <2>2, Zenon DEF Total
<1>7. /\ sizes \in Seq(Nat) /\ Len(sizes) = n
      /\ IsSum(SumAfter(sizes), sizes)
      /\ OutputSize(heads) = SumAfter(sizes)[n]
      /\ OutputSize(heads) \in Nat
  BY <1>4, <1>5, <1>6
<1> QED
  BY <1>7 DEF n, sizes

\* new YoloLayer at the end of buildYoloNetwork (yolo.cpp:461-469).
LEMMA NewPluginFits ==
    ASSUME NEW cfg, IsFile(cfg), NEW net, NetworkFits(cfg, net), NEW weights,
           Complete(cfg, net, weights)
    PROVE  PluginFits(cfg, [netWidth |-> cfg[1].width, netHeight |-> cfg[1].height,
                            numClasses |-> NumClasses(cfg), newCoords |-> NewCoords(cfg),
                            outputSize |-> OutputSize(net.heads), heads |-> net.heads],
                      net.inputs)
<1> DEFINE p == [netWidth |-> cfg[1].width, netHeight |-> cfg[1].height,
                 numClasses |-> NumClasses(cfg), newCoords |-> NewCoords(cfg),
                 outputSize |-> OutputSize(net.heads), heads |-> net.heads]
<1>1. /\ ConfigIsComplete(cfg) /\ HeadsFollow(cfg, net.heads, net.inputs)
      /\ net.block = Len(cfg) /\ net.inputs # <<>>
      /\ Len(net.inputs) = Len(KeptAfter(cfg, HeadPlaces(cfg))[Len(cfg)])
  BY DEF NetworkFits, Complete
<1>2. net.heads \in Seq(HeadInfo) /\ Len(net.heads) = Len(Heads(cfg))
      /\ Len(net.inputs) = Len(net.heads)
  BY <1>1, HeadsOfFile DEF HeadsFollow
<1>3. cfg[1].width \in Nat /\ cfg[1].height \in Nat
  BY <1>1 DEF IsFile, ConfigIsComplete, IsBlock
<1>4. NumClasses(cfg) \in Nat /\ NewCoords(cfg) \in Int /\ OutputSize(net.heads) \in Nat
  BY <1>1, <1>2, SharedNumbers, OutputSizeIsSum
<1>5. p \in PluginInfo
  BY <1>2, <1>3, <1>4 DEF PluginInfo
<1>6. p.heads = net.heads /\ p.numClasses = NumClasses(cfg) /\ p.outputSize = OutputSize(net.heads)
  OBVIOUS
<1> HIDE DEF p
<1>7. PluginFits(cfg, p, net.inputs)
  BY <1>1, <1>2, <1>5, <1>6 DEF PluginFits
<1> QED
  BY <1>7 DEF p

LEMMA EngineKeepsFits ==
    ASSUME Owned, EngineFits, EngineStep \/ EngineRefusal
    PROVE  EngineFits'
<1> USE DEF EngineFits
<1>1. CASE LoadFile
  <2>1. /\ phase' = "loaded" /\ UNCHANGED <<model, file>> /\ file # Nothing /\ inputs' = file.inputs
        /\ plugin' = IF file.words = <<>> THEN Nothing ELSE Deserialized(file.words)
    BY <1>1 DEF LoadFile, Goto
  <2>2. CASE file.words = <<>>
    BY <2>1, <2>2
  <2>3. CASE file.words # <<>>
    <3>1. PICK p : PluginFits(model.cfg, p, file.inputs) /\ file.words = Serialized(p)
      BY <2>1, <2>3
    <3>2. Deserialized(file.words) = p
      BY <3>1, PluginIsReadBack DEF PluginFits
    <3>3. PluginFits(model.cfg, plugin, inputs)'
      BY <2>1, <2>3, <3>1, <3>2
    <3> QED
      BY <2>1, <3>3
  <2> QED
    BY <2>2, <2>3
<1>2. CASE GetEngine
  BY <1>2 DEF GetEngine, Goto, KeepEngine
<1>3. CASE KeepFile
  BY <1>3 DEF KeepFile, KeepEngine
<1>4. CASE CreateNetwork
  BY <1>4 DEF CreateNetwork, Goto, KeepEngine
<1>5. CASE ParseOnnx
  BY <1>5 DEF ParseOnnx, Goto, KeepEngine
<1>6. CASE ParseCfg
  <2>1. Darknet /\ ConfigIsComplete(model.cfg) /\ network' = EmptyNetwork(model.cfg)
        /\ UNCHANGED <<model, file, plugin, inputs>>
    BY <1>6 DEF ParseCfg, Owned, Goto, KeepEngine
  <2>2. NetworkFits(model.cfg, network')
    BY <2>1, DarknetHasFile, NoNetwork
  <2> QED
    BY <2>1, <2>2
<1>7. CASE AddBlock
  <2>1. /\ Darknet /\ network.block < Len(model.cfg) /\ network' \in WithBlock(model.cfg, network)
        /\ NetworkFits(model.cfg, network)
        /\ UNCHANGED <<model, file, plugin, inputs>>
    BY <1>7 DEF AddBlock, Owned, Goto, KeepEngine
  <2>2. NetworkFits(model.cfg, network')
    BY <2>1, DarknetHasFile, BlockAdded
  <2> QED
    BY <2>1, <2>2
<1>8. CASE AddPlugin
  <2>1. /\ Darknet /\ Complete(model.cfg, network, model.weights)
        /\ NetworkFits(model.cfg, network)
        /\ phase' = "configure" /\ UNCHANGED <<model, file>>
    BY <1>8 DEF AddPlugin, Owned, Goto
  <2>2. PluginFits(model.cfg, plugin', inputs')
    BY <1>8, <2>1, DarknetHasFile, NewPluginFits DEF AddPlugin
  <2> QED
    BY <2>1, <2>2
<1>9. CASE Abort
  BY <1>9 DEF Abort, Goto, KeepEngine
<1>0. ASSUME ReturnNull PROVE EngineFits'
  BY <1>0 DEF ReturnNull, Goto
<1>10. CASE Configure
  BY <1>10, <1>0 DEF Configure, Goto, KeepEngine
<1>11. CASE BuildEngine
  BY <1>11 DEF BuildEngine, Goto, KeepEngine
<1>12. CASE Return
  BY <1>12 DEF Return, Goto, KeepEngine
<1>13. CASE OnnxRefused
  BY <1>13, <1>0 DEF OnnxRefused
<1>14. CASE PlatformRefused
  BY <1>14 DEF PlatformRefused, Goto, KeepEngine
<1>15. CASE BuildRefused
  BY <1>15, <1>0 DEF BuildRefused
<1> QED
  BY <1>1, <1>2, <1>3, <1>4, <1>5, <1>6, <1>7, <1>8, <1>9, <1>10, <1>11,
     <1>12, <1>13, <1>14, <1>15 DEF EngineStep, EngineRefusal

\* At every start, the plugin that TensorRT has - just built, or read from the
\* engine file - is the one that the cfg file describes: as many heads and
\* inputs as the file has, with the file's boxes, masks, anchors and classes
\* and the grids of the inputs, and as many slots as these add up to
\* (yolo.cpp:447-469, :546-617, yoloPlugins.cpp:56-92, :137-166).
THEOREM PluginIsOfItsFile == PerceptionSpec => []EngineFits
<1>1. PerceptionInit => EngineFits
  BY DEF PerceptionInit, EngineInit, EngineFits
<1>2. Owned /\ EngineFits /\ [PerceptionNext]_allVars => EngineFits'
  <2> SUFFICES ASSUME Owned, EngineFits, [PerceptionNext]_allVars PROVE EngineFits'
    OBVIOUS
  <2>1. CASE UNCHANGED engineVars
    BY <2>1 DEF engineVars, EngineFits
  <2>2. CASE LoadEngine
    BY <2>2, EngineKeepsFits DEF LoadEngine
  <2>3. CASE StartAgain
    BY <2>3 DEF StartAgain, EngineReset, EngineFits
  <2>5. UNCHANGED engineVars \/ LoadEngine \/ StartAgain
    BY DEF PerceptionNext, Starting, Assemble, PlayLoaded, PlayFails, PlayEnds, PlayWaits, Infer, Stop,
           OthersWait, allVars
  <2> QED
    BY <2>1, <2>2, <2>3, <2>5
<1> QED
  BY <1>1, <1>2, OwnedAlways, PTL DEF PerceptionSpec

\* sliceLayer allocates for a block of three types only.
CutTypes == {"shortcut", "route", "reorg3d"}

SizesOfSlices ==
    "sizes" \in live => \E k \in DOMAIN model.cfg : model.cfg[k].type \in CutTypes

LEMMA EngineKeepsSizes ==
    ASSUME Owned, EngineFits, SizesOfSlices, EngineStep \/ EngineRefusal
    PROVE  SizesOfSlices'
<1>1. CASE AddBlock
  <2>1. /\ Darknet /\ network.block < Len(model.cfg) /\ model' = model
        /\ NetworkFits(model.cfg, network)
    BY <1>1 DEF AddBlock, Owned, EngineFits, Goto
  <2>2. network.block + 1 \in DOMAIN model.cfg
    BY <2>1, DarknetHasFile DEF EngineFits, IsFile, NetworkFits
  <2>3. PICK sizes \in SUBSET {t \in {"sizes"} : NextSlices(model.cfg, network)} :
          live' = live \union sizes \union (IF network'.weightPtr > 0 THEN {"weights"} ELSE {})
    BY <1>1 DEF AddBlock
  <2>4. NextSlices(model.cfg, network) => model.cfg[network.block + 1].type \in CutTypes
    BY DEF NextSlices, Slices, CutTypes
  <2> QED
    BY <2>1, <2>2, <2>3, <2>4 DEF SizesOfSlices
<1>2. CASE ~AddBlock
  <2>1. model' = model
    BY DEF EngineStep, EngineRefusal, LoadFile, GetEngine, KeepFile, CreateNetwork, ParseOnnx,
           ParseCfg, AddBlock, AddPlugin, Abort, Configure, BuildEngine, Return, OnnxRefused,
           PlatformRefused, BuildRefused, ReturnNull, Goto
  <2>2. "sizes" \in live' => "sizes" \in live
    BY <1>2 DEF EngineStep, EngineRefusal, LoadFile, GetEngine, KeepFile, CreateNetwork,
           ParseOnnx, ParseCfg, AddPlugin, Abort, Configure, BuildEngine, Return, OnnxRefused,
           PlatformRefused, BuildRefused, ReturnNull, Deleted, Released
  <2> QED
    BY <2>1, <2>2 DEF SizesOfSlices
<1> QED
  BY <1>1, <1>2

LEMMA SizesAlways == PerceptionSpec => []SizesOfSlices
<1>1. PerceptionInit => SizesOfSlices
  BY DEF PerceptionInit, EngineInit, SizesOfSlices
<1>2. Owned /\ EngineFits /\ SizesOfSlices /\ [PerceptionNext]_allVars => SizesOfSlices'
  <2> SUFFICES ASSUME Owned, EngineFits, SizesOfSlices, [PerceptionNext]_allVars
               PROVE  SizesOfSlices'
    OBVIOUS
  <2>1. CASE UNCHANGED engineVars
    BY <2>1 DEF engineVars, SizesOfSlices
  <2>2. CASE LoadEngine
    BY <2>2, EngineKeepsSizes DEF LoadEngine
  <2>3. CASE StartAgain
    BY <2>3 DEF StartAgain, EngineReset, SizesOfSlices
  <2>4. UNCHANGED engineVars \/ LoadEngine \/ StartAgain
    BY DEF PerceptionNext, Starting, Assemble, PlayLoaded, PlayFails, PlayEnds, PlayWaits, Infer, Stop,
           OthersWait, allVars
  <2> QED
    BY <2>1, <2>2, <2>3, <2>4
<1> QED
  BY <1>1, <1>2, OwnedAlways, PluginIsOfItsFile, PTL DEF PerceptionSpec

\* Whichever way createEngine returns, and for every model, the parser, the
\* network and the weights are released, and kept while TensorRT needs them;
\* the plugin that was cloned and the sizes of slices are what stays, and
\* neither for an ONNX file (yolo.cpp:85-97, :182-197, :235-248, :468,
\* :620-627, slice_layer.cpp:25-45).
THEOREM OnlyUnownedStaysHolds == PerceptionSpec => []OnlyUnownedStays
<1>1. Owned /\ SizesOfSlices => OnlyUnownedStays
  BY DEF Owned, SizesOfSlices, CutTypes, OnlyUnownedStays, Unowned
<1> QED
  BY <1>1, OwnedAlways, SizesAlways, PTL

----------------------------------------------------------------------------
(* The reads of the kernels                                                *)

\* Before the first buffers nothing is inferred.
Inferring == {"flowing", "running", "terminated"}
Idle == images = 0 /\ head = 0 /\ last = 0 /\ writes = {}

InferTyped ==
    /\ step \notin Inferring => Idle
    /\ images \in Nat /\ head \in Nat

\* A plugin's heads, none without a plugin.
LEMMA PluginHeadsFit ==
    ASSUME EngineFits
    PROVE  /\ PluginHeads \in Seq(HeadInfo) /\ Len(PluginHeads) \in Nat
           /\ PluginHeads # <<>> => plugin # Nothing
           /\ plugin # Nothing => PluginHeads = plugin.heads /\ plugin \in PluginInfo
<1>1. CASE plugin = Nothing
  BY <1>1 DEF PluginHeads
<1>2. CASE plugin # Nothing
  <2>1. plugin \in PluginInfo /\ PluginHeads = plugin.heads
    BY <1>2 DEF EngineFits, PluginFits, PluginHeads
  <2>2. plugin.heads \in Seq(HeadInfo)
    BY <2>1 DEF PluginInfo
  <2> QED
    BY <1>2, <2>1, <2>2
<1> QED
  BY <1>1, <1>2

LEMMA BatchIsCounted ==
    ASSUME EngineFits, BeginEnqueue
    PROVE  images' \in Nat
<1>1. PICK n \in 1..BatchSize : images' = n * (IF plugin = Nothing THEN 1 ELSE inputs[1][1])
  BY DEF BeginEnqueue
<1>2. n \in Nat
  BY <1>1, BatchAssumption
<1>3. plugin # Nothing => inputs[1][1] \in Nat
  <2> SUFFICES ASSUME plugin # Nothing PROVE inputs[1][1] \in Nat
    OBVIOUS
  <2>1. inputs \in Seq(Tensor) /\ inputs # <<>>
    BY DEF EngineFits, PluginFits, HeadsFollow
  <2>2. inputs[1] \in Tensor
    <3> HIDE DEF Tensor
    <3> QED
      BY <2>1
  <2> QED
    BY <2>2 DEF Tensor
<1>4. \A m \in Nat : n * m \in Nat
  BY <1>2
<1> QED
  BY <1>1, <1>3, <1>4

LEMMA InferKeepsTyped ==
    ASSUME EngineFits, InferTyped, [PerceptionNext]_allVars
    PROVE  InferTyped'
<1>1. CASE Infer
  <2>1. step \in Inferring /\ step' \in Inferring
    BY <1>1 DEF Infer, vars, Inferring
  <2>2. CASE BeginEnqueue
    BY <2>1, <2>2, BatchIsCounted DEF InferTyped, BeginEnqueue
  <2>3. CASE LaunchHead
    BY <2>1, <2>3 DEF InferTyped, LaunchHead
  <2>4. CASE EndEnqueue
    BY <2>1, <2>4 DEF InferTyped, EndEnqueue
  <2>5. CASE ParseImage
    BY <2>1, <2>5 DEF InferTyped, ParseImage
  <2> QED
    BY <1>1, <2>2, <2>3, <2>4, <2>5 DEF Infer, InferStep
<1>2. CASE StartAgain
  BY <1>2 DEF StartAgain, InferReset, InferTyped, Idle
<1>3. CASE UNCHANGED inferVars /\ (step' \in Inferring \/ step \notin Inferring)
  BY <1>3 DEF inferVars, InferTyped, Idle
<1>4. CASE Assemble \/ LoadEngine \/ PlayLoaded \/ PlayFails \/ PlayEnds \/ PlayWaits \/ Stop
            \/ UNCHANGED allVars
  <2>1. UNCHANGED inferVars
    BY <1>4 DEF Assemble, LoadEngine, PlayLoaded, PlayFails, PlayEnds, PlayWaits, Stop,
                OthersWait, allVars
  <2>2. CASE Assemble
    <3>1. step \notin Inferring
      BY <2>2 DEF Inferring, Assemble, Construct, AddProbe, ParseConfig, CreateServers, CreateObject,
         CreateElements, SetProperties, AddElements, LinkChain, LinkBranch, TeeBranch, Branch, TeeStep
    <3> QED
      BY <1>3, <2>1, <3>1
  <2>3. CASE LoadEngine \/ PlayLoaded \/ PlayFails
    <3>1. step = "play"
      BY <2>3 DEF LoadEngine, PlayLoaded, PlayFails, Play, PlayWithoutEngine
    <3> QED
      BY <1>3, <2>1, <3>1 DEF Inferring
  <2>4. CASE Stop
    <3>1. step' = "terminated"
      BY <2>4 DEF Stop, Quit, Accepted
    <3> QED
      BY <1>3, <2>1, <3>1 DEF Inferring
  <2>6. CASE PlayEnds \/ PlayWaits
    <3>1. step' \in Inferring
      BY <2>6 DEF PlayEnds, PlayWaits, StateReached, CamerasAnswer, StateFails, Accepted,
                  Refused, Inferring
    <3> QED
      BY <1>3, <2>1, <3>1
  <2>5. CASE UNCHANGED allVars
    <3>1. step' = step
      BY <2>5 DEF allVars, vars
    <3> QED
      BY <1>3, <2>1, <3>1
  <2> QED
    BY <1>4, <2>2, <2>3, <2>4, <2>5, <2>6
<1> QED
  BY <1>1, <1>2, <1>4 DEF PerceptionNext, Starting

LEMMA InferTypedAlways == PerceptionSpec => []InferTyped
<1>1. PerceptionInit => InferTyped
  BY DEF PerceptionInit, InferInit, InferTyped, Idle
<1> QED
  BY <1>1, InferKeepsTyped, PluginIsOfItsFile, PTL DEF PerceptionSpec

LEMMA TimesDivided == \A n \in Nat, v \in Nat \ {0} : (n * v) \div v = n
OBVIOUS

\* A mask or none.
LEMMA AnchorsAreMeant ==
    ASSUME NEW t, NEW b, NEW th, t.anchors = b.anchors, t.mask = Value(b, "mask", <<>>)
    PROVE  SubSeq(t.anchors, AnchorIndex(t, th) + 1, AnchorIndex(t, th) + 2)
             = MeantAnchors(b, th.z)
<1>1. CASE t.mask = <<>>
  BY <1>1 DEF AnchorIndex, MeantAnchors
<1>2. CASE t.mask # <<>>
  <2>1. t.mask = b.mask
    BY <1>2 DEF Value
  <2> QED
    BY <1>2, <2>1 DEF AnchorIndex, MeantAnchors
<1> QED
  BY <1>1, <1>2

\* Whatever the cfg file, the batch and the grids, the kernels read every value
\* of every box of the head's input once, and the box's own anchors, when the
\* heads fit the layers before them (yoloForward.cu:18-45, yolo.cpp:435-443).
THEOREM HeadsReadWholeHolds == PerceptionSpec => []HeadsReadWhole
<1>1. EngineFits /\ InferTyped => HeadsReadWhole
  <2> SUFFICES ASSUME EngineFits, InferTyped, head \in 1..Len(PluginHeads),
                      HeadsFit(model.cfg, inputs)
               PROVE  LET t == plugin.heads[head]
                          b == Heads(model.cfg)[head]
                          c == inputs[head][2]  h == inputs[head][3]  w == inputs[head][4]
                          values == 5 + b.classes
                      IN  /\ Threads(t) = [x : 0..(w - 1), y : 0..(h - 1),
                                           z : 0..(c \div values - 1)]
                          /\ \A th \in Threads(t) :
                               /\ \A batch \in 0..(images - 1), v \in 0..(values - 1) :
                                    InputIndex(plugin, t, batch, th, v)
                                      = ((batch * c + th.z * values + v) * h + th.y) * w + th.x
                               /\ SubSeq(t.anchors, AnchorIndex(t, th) + 1, AnchorIndex(t, th) + 2)
                                    = MeantAnchors(b, th.z)
    BY DEF HeadsReadWhole
  <2> DEFINE t == plugin.heads[head]
             b == Heads(model.cfg)[head]
             c == inputs[head][2]  h == inputs[head][3]  w == inputs[head][4]
             values == 5 + b.classes
  <2>1. plugin # Nothing /\ PluginHeads = plugin.heads /\ plugin \in PluginInfo
        /\ plugin.heads \in Seq(HeadInfo)
    BY PluginHeadsFit
  <2>2. PluginFits(model.cfg, plugin, inputs)
    BY <2>1 DEF EngineFits
  <2>3. /\ head \in 1..Len(plugin.heads) /\ head \in 1..Len(inputs)
        /\ head \in DOMAIN Heads(model.cfg) /\ t \in HeadInfo
    <3>1. head \in 1..Len(plugin.heads) /\ t \in HeadInfo /\ head \in 1..Len(inputs)
      BY <2>1, <2>2 DEF PluginFits
    <3>2. Len(Heads(model.cfg)) = Len(plugin.heads)
      BY <2>2 DEF PluginFits, HeadsFollow
    <3> QED
      BY <3>1, <3>2
  <2>4. /\ t.gridSizeX = w /\ t.gridSizeY = h
        /\ t.numBBoxes = TensorInfo(b).numBBoxes
        /\ t.anchors = b.anchors /\ t.mask = Value(b, "mask", <<>>)
    BY <2>2, <2>3 DEF PluginFits, HeadsFollow
  <2>5. c = t.numBBoxes * values /\ b.classes = plugin.numClasses
    BY <2>2, <2>3, <2>4 DEF HeadsFit, PluginFits
  <2>6. IsHead(t) /\ plugin.numClasses \in Nat /\ t.numBBoxes \in Nat
    BY <2>1, <2>3 DEF IsHead, HeadInfo, PluginInfo
  <2>7. values \in Nat \ {0} /\ values = 5 + plugin.numClasses
    BY <2>5, <2>6
  <2> HIDE DEF t, b, c, h, w, values
  <2>8. c \div values = t.numBBoxes
    BY <2>5, <2>6, <2>7, TimesDivided
  <2>9. Threads(t) = [x : 0..(w - 1), y : 0..(h - 1), z : 0..(c \div values - 1)]
    BY <2>4, <2>6, <2>8, ThreadsAreBoxes
  <2>10. ASSUME NEW th \in Threads(t), NEW batch \in 0..(images - 1), NEW v \in 0..(values - 1)
         PROVE  InputIndex(plugin, t, batch, th, v)
                  = ((batch * c + th.z * values + v) * h + th.y) * w + th.x
    <3>1. batch \in Nat /\ v \in 0..(4 + plugin.numClasses)
      BY <2>6, <2>7 DEF InferTyped
    <3>2. InputIndex(plugin, t, batch, th, v)
            = ((batch * (t.numBBoxes * (5 + plugin.numClasses))
                  + th.z * (5 + plugin.numClasses) + v) * t.gridSizeY + th.y) * t.gridSizeX + th.x
      BY <2>6, <3>1, InputIsImage
    <3> QED
      BY <2>4, <2>5, <2>7, <3>2, Zenon
  <2>11. ASSUME NEW th \in Threads(t)
         PROVE  SubSeq(t.anchors, AnchorIndex(t, th) + 1, AnchorIndex(t, th) + 2)
                  = MeantAnchors(b, th.z)
    BY <2>4, AnchorsAreMeant
  <2> QED
    BY <2>9, <2>10, <2>11, Zenon DEF t, b, c, h, w, values
<1> QED
  BY <1>1, PluginIsOfItsFile, InferTypedAlways, PTL

----------------------------------------------------------------------------
(* The writes of the kernels                                               *)

HasDigits(r, c, n) == \E q \in 0..(n - 1), s \in 0..(c - 1) : r = q * c + s

\* A number below n * c has a quotient below n and a remainder below c.
LEMMA DigitsExist ==
    ASSUME NEW c \in Nat, NEW n \in Nat, NEW r \in Nat, r < n * c
    PROVE  HasDigits(r, c, n)
<1>1. c > 0
  OBVIOUS
<1> DEFINE q == r \div c
           s == r % c
<1>2. q \in Nat /\ s \in 0..(c - 1) /\ r = q * c + s
  BY <1>1
<1> HIDE DEF q, s
<1>3. q < n
  <2> SUFFICES ASSUME n <= q PROVE FALSE
    BY <1>2
  <2>1. n * c <= q * c
    <3>1. CASE n < q
      BY <1>2, <3>1, TimesMonotone
    <3>2. CASE n = q
      BY <1>2, <3>2
    <3> QED
      BY <1>2, <3>1, <3>2
  <2>2. q * c \in Nat /\ n * c \in Nat
    BY <1>2
  <2> QED
    BY <1>2, <2>1, <2>2
<1>4. q \in 0..(n - 1)
  BY <1>2, <1>3
<1> QED
  BY <1>2, <1>4 DEF HasDigits

\* On a square grid the slots of a head leave no gap.
LEMMA SlotsFill ==
    ASSUME NEW p, NEW t, IsHead(t), t.gridSizeX = t.gridSizeY,
           p.outputSize \in Nat, NEW first \in Nat, NEW batch \in Nat,
           NEW k \in Nat, first <= k,
           k < first + t.numBBoxes * t.gridSizeY * t.gridSizeX
    PROVE  \E th \in Threads(t) : Slot(p, t, first, batch, th) = batch * p.outputSize + k
<1> DEFINE g == t.gridSizeX  n == t.numBBoxes  base == batch * p.outputSize
           area == g * g
<1>1. g \in Nat /\ n \in Nat /\ base \in Nat /\ area \in Nat
  BY DEF IsHead
<1>2. n * t.gridSizeY * t.gridSizeX = n * area
  BY <1>1
<1>3. k - first \in Nat /\ k - first < n * area
  <2>1. n * area \in Nat
    BY <1>1
  <2> HIDE DEF area, n, g
  <2> QED
    BY <1>2, <2>1 DEF n
<1>4. PICK z \in 0..(n - 1), s \in 0..(area - 1) : k - first = z * area + s
  <2> DEFINE r == k - first
  <2>1. r \in Nat /\ r < n * area
    BY <1>3
  <2> HIDE DEF n, area, r
  <2>2. HasDigits(r, area, n)
    BY <1>1, <2>1, DigitsExist
  <2> QED
    BY <2>2 DEF r, HasDigits
<1>5. PICK y \in 0..(g - 1), x \in 0..(g - 1) : s = y * g + x
  <2>1. s \in Nat /\ s < g * g
    BY <1>1, <1>4
  <2> HIDE DEF g
  <2>2. HasDigits(s, g, g)
    BY <1>1, <2>1, DigitsExist
  <2> QED
    BY <2>2 DEF HasDigits
<1> DEFINE th == [x |-> x, y |-> y, z |-> z]
<1>6. th \in Threads(t)
  <2>1. Threads(t) = [x : 0..(g - 1), y : 0..(g - 1), z : 0..(n - 1)]
    BY ThreadsAreBoxes
  <2> HIDE DEF g, n
  <2> QED
    BY <2>1
<1>7. Slot(p, t, first, batch, th) = base + z * g * g + y * g + x + first
  BY DEF Slot
<1>8. base + z * g * g + y * g + x + first = base + k
  <2>1. z * g * g = z * area /\ z * area \in Int /\ y * g \in Int /\ x \in Int /\ z \in Int /\ y \in Int
    BY <1>1
  <2> DEFINE a == z * area  b == y * g
  <2>2. k - first = a + (b + x)
    BY <1>4, <1>5
  <2>3. a \in Int /\ b \in Int /\ z * g * g = a
    BY <2>1
  <2> HIDE DEF a, b, base, g, area
  <2>4. base + a + b + x + first = base + k
    BY <1>1, <2>1, <2>2, <2>3
  <2> QED
    BY <2>3, <2>4, Zenon DEF b
<1> QED
  BY <1>6, <1>7, <1>8 DEF base

\* The writes of one head for a batch.
HeadWrites(p, t, first, n, h) ==
    {[slot |-> Slot(p, t, first, batch, th), head |-> h, batch |-> batch, thread |-> th] :
       batch \in 0..(n - 1), th \in Threads(t)}

\* The slots from first on, one for each of count boxes of n images.
Slots(size, first, count, n) ==
    {b * size + k : b \in 0..(n - 1), k \in first..(first + count - 1)}

Apart(ws) == \A v, w \in ws : v.slot = w.slot => v = w

LEMMA SlotWithinImage ==
    ASSUME NEW p, NEW t, IsHead(t), t.gridSizeX = t.gridSizeY,
           p.outputSize \in Nat, NEW first \in Nat, NEW batch \in Nat, NEW th \in Threads(t)
    PROVE  \E k \in Nat : /\ Slot(p, t, first, batch, th) = batch * p.outputSize + k
                          /\ first <= k
                          /\ k < first + t.numBBoxes * t.gridSizeY * t.gridSizeX
<1> DEFINE s == Slot(p, t, first, batch, th)
           base == batch * p.outputSize
           size == t.numBBoxes * t.gridSizeY * t.gridSizeX
<1>1. s >= base + first /\ s < base + first + size
  BY SlotsApart
<1>2. base \in Nat /\ size \in Nat /\ s \in Int
  <2>1. /\ t.numBBoxes \in Nat /\ t.gridSizeY \in Nat /\ t.gridSizeX \in Nat
    BY DEF IsHead
  <2>2. th.x \in Int /\ th.y \in Int /\ th.z \in Int
    <3>1. Threads(t) = [x : 0..(t.gridSizeX - 1), y : 0..(t.gridSizeY - 1),
                        z : 0..(t.numBBoxes - 1)]
      BY ThreadsAreBoxes
    <3> QED
      BY <3>1
  <2>3. base \in Nat /\ size \in Nat
    BY <2>1
  <2>4. s = base + th.z * t.gridSizeX * t.gridSizeY + th.y * t.gridSizeY + th.x + first
    BY DEF Slot
  <2>5. th.z * t.gridSizeX * t.gridSizeY \in Int /\ th.y * t.gridSizeY \in Int
    BY <2>1, <2>2
  <2> HIDE DEF base, size, s
  <2> QED
    BY <2>2, <2>3, <2>4, <2>5
<1> HIDE DEF base, size, s
<1>3. s - base \in Nat /\ s = base + (s - base) /\ first <= s - base /\ s - base < first + size
  BY <1>1, <1>2
<1> QED
  BY <1>3 DEF s, base, size

\* One head: its slots are a stretch of each image's, each written once.
LEMMA HeadFills ==
    ASSUME NEW p, NEW t, IsHead(t), t.gridSizeX = t.gridSizeY, p.outputSize \in Nat,
           NEW first \in Nat, NEW n \in Nat, NEW h,
           first + t.numBBoxes * t.gridSizeY * t.gridSizeX <= p.outputSize
    PROVE  /\ {w.slot : w \in HeadWrites(p, t, first, n, h)}
                = Slots(p.outputSize, first, t.numBBoxes * t.gridSizeY * t.gridSizeX, n)
           /\ Apart(HeadWrites(p, t, first, n, h))
<1> DEFINE O == p.outputSize
           size == t.numBBoxes * t.gridSizeY * t.gridSizeX
           W == HeadWrites(p, t, first, n, h)
           S(b, th) == Slot(p, t, first, b, th)
<1>1. O \in Nat /\ size \in Nat /\ first + size <= O
  BY DEF IsHead
<1>2. ASSUME NEW b \in 0..(n - 1), NEW th \in Threads(t)
      PROVE  \E k \in first..(first + size - 1) : S(b, th) = b * O + k /\ k < O
  <2>1. b \in Nat
    OBVIOUS
  <2>2. PICK k \in Nat : S(b, th) = b * O + k /\ first <= k /\ k < first + size
    BY <2>1, SlotWithinImage
  <2> HIDE DEF size, O
  <2> QED
    BY <1>1, <2>2
<1>3. ASSUME NEW b \in 0..(n - 1), NEW k \in first..(first + size - 1)
      PROVE  \E th \in Threads(t) : S(b, th) = b * O + k
  <2>1. b \in Nat /\ k \in Nat /\ first <= k /\ k < first + size
    <3> HIDE DEF size
    <3> QED
      BY <1>1
  <2> QED
    BY <2>1, SlotsFill
<1>4. ASSUME NEW b \in 0..(n - 1), NEW th \in Threads(t),
             NEW c \in 0..(n - 1), NEW other \in Threads(t), S(b, th) = S(c, other)
      PROVE  b = c /\ th = other
  <2>1. PICK k \in first..(first + size - 1) : S(b, th) = b * O + k /\ k < O
    BY <1>2
  <2>2. PICK l \in first..(first + size - 1) : S(c, other) = c * O + l /\ l < O
    BY <1>2
  <2>3. b * O + k = c * O + l
    BY <1>4, <2>1, <2>2
  <2>4. b \in Nat /\ c \in Nat /\ k \in Nat /\ l \in Nat
    BY <1>1
  <2> HIDE DEF S, O, size
  <2>5. b = c
    BY <1>1, <2>1, <2>2, <2>3, <2>4, DigitsUnique
  <2>6. th = other
    BY <1>4, <2>4, <2>5, SlotsApart DEF S, O
  <2> QED
    BY <2>5, <2>6
<1>5. W = {[slot |-> S(b, th), head |-> h, batch |-> b, thread |-> th] :
             b \in 0..(n - 1), th \in Threads(t)}
  BY DEF HeadWrites
<1> HIDE DEF S, O, size, W
<1>6. {w.slot : w \in W} = {S(b, th) : b \in 0..(n - 1), th \in Threads(t)}
  <2>1. ASSUME NEW w \in W
        PROVE  w.slot \in {S(b, th) : b \in 0..(n - 1), th \in Threads(t)}
    <3>1. PICK b \in 0..(n - 1), th \in Threads(t) :
            w = [slot |-> S(b, th), head |-> h, batch |-> b, thread |-> th]
      BY <1>5
    <3>2. w.slot = S(b, th)
      BY <3>1
    <3> QED
      BY <3>2 DEF S
  <2>2. ASSUME NEW b \in 0..(n - 1), NEW th \in Threads(t)
        PROVE  S(b, th) \in {w.slot : w \in W}
    <3> DEFINE w == [slot |-> S(b, th), head |-> h, batch |-> b, thread |-> th]
    <3>1. w \in W
      BY <1>5
    <3>2. w.slot = S(b, th)
      OBVIOUS
    <3> HIDE DEF w
    <3> QED
      BY <3>1, <3>2
  <2> QED
    BY <2>1, <2>2
<1>7. {S(b, th) : b \in 0..(n - 1), th \in Threads(t)} = Slots(O, first, size, n)
  <2>1. ASSUME NEW b \in 0..(n - 1), NEW th \in Threads(t)
        PROVE  S(b, th) \in Slots(O, first, size, n)
    <3>1. PICK k \in first..(first + size - 1) : S(b, th) = b * O + k
      BY <1>2
    <3> QED
      BY <3>1 DEF Slots
  <2>2. ASSUME NEW b \in 0..(n - 1), NEW k \in first..(first + size - 1)
        PROVE  b * O + k \in {S(c, th) : c \in 0..(n - 1), th \in Threads(t)}
    BY <1>3
  <2>3. ASSUME NEW s \in Slots(O, first, size, n)
        PROVE  s \in {S(c, th) : c \in 0..(n - 1), th \in Threads(t)}
    BY <2>2, <2>3 DEF Slots
  <2> QED
    BY <2>1, <2>3
<1>8. Apart(W)
  <2> SUFFICES ASSUME NEW v \in W, NEW w \in W, v.slot = w.slot PROVE v = w
    BY DEF Apart
  <2>1. PICK b \in 0..(n - 1), th \in Threads(t) :
          v = [slot |-> S(b, th), head |-> h, batch |-> b, thread |-> th]
    BY <1>5
  <2>2. PICK c \in 0..(n - 1), other \in Threads(t) :
          w = [slot |-> S(c, other), head |-> h, batch |-> c, thread |-> other]
    BY <1>5
  <2>3. S(b, th) = S(c, other)
    BY <2>1, <2>2
  <2> QED
    BY <1>4, <2>1, <2>2, <2>3
<1> QED
  BY <1>6, <1>7, <1>8 DEF W, O, size

\* A stretch after another.
LEMMA SlotsFollow ==
    ASSUME NEW O \in Nat, NEW first \in Nat, NEW size \in Nat, NEW n \in Nat,
           first + size <= O
    PROVE  /\ Slots(O, 0, first, n) \union Slots(O, first, size, n) = Slots(O, 0, first + size, n)
           /\ Slots(O, 0, first, n) \intersect Slots(O, first, size, n) = {}
<1>1. 0..(first + size - 1) = 0..(0 + first - 1) \union first..(first + size - 1)
      /\ 0 + first = first /\ 0 + (first + size) = first + size
  OBVIOUS
<1>2. Slots(O, 0, first, n) \union Slots(O, first, size, n) = Slots(O, 0, first + size, n)
  <2> DEFINE E == Slots(O, 0, first, n)
             F == Slots(O, first, size, n)
             G == Slots(O, 0, first + size, n)
  <2>1. ASSUME NEW s \in G
        PROVE  s \in E \union F
    <3>1. PICK b \in 0..(n - 1), k \in 0..(first + size - 1) : s = b * O + k
      BY <1>1, <2>1 DEF Slots
    <3>2. k \in 0..(0 + first - 1) \/ k \in first..(first + size - 1)
      BY <1>1
    <3> QED
      BY <3>1, <3>2 DEF Slots
  <2>2. ASSUME NEW s \in E \union F
        PROVE  s \in G
    <3>1. PICK b \in 0..(n - 1), k \in 0..(0 + (first + size) - 1) : s = b * O + k
      <4>1. CASE s \in E
        <5>1. PICK b \in 0..(n - 1), k \in 0..(0 + first - 1) : s = b * O + k
          BY <4>1 DEF Slots
        <5>2. k \in 0..(0 + (first + size) - 1)
          OBVIOUS
        <5> QED
          BY <5>1, <5>2
      <4>2. CASE s \in F
        <5>1. PICK b \in 0..(n - 1), k \in first..(first + size - 1) : s = b * O + k
          BY <4>2 DEF Slots
        <5>2. k \in 0..(0 + (first + size) - 1)
          OBVIOUS
        <5> QED
          BY <5>1, <5>2
      <4> QED
        BY <2>2, <4>1, <4>2
    <3> QED
      BY <3>1 DEF Slots
  <2> HIDE DEF E, F, G
  <2>3. E \union F = G
    BY <2>1, <2>2
  <2> QED
    BY <2>3 DEF E, F, G
<1>3. ASSUME NEW b \in 0..(n - 1), NEW k \in 0..(0 + first - 1),
             NEW c \in 0..(n - 1), NEW l \in first..(first + size - 1), b * O + k = c * O + l
      PROVE  FALSE
  <2>1. b \in Nat /\ c \in Nat /\ k \in Nat /\ l \in Nat /\ k < O /\ l < O /\ k < l
    OBVIOUS
  <2> QED
    BY <1>3, <2>1, DigitsUnique
<1> QED
  BY <1>2, <1>3 DEF Slots

\* The slots of each head of a plugin.
Sizes(heads) ==
    [k \in 1..Len(heads) |->
       heads[k].numBBoxes * heads[k].gridSizeY * heads[k].gridSizeX]

Square(heads) == \A k \in 1..Len(heads) : heads[k].gridSizeX = heads[k].gridSizeY

\* While heads are launched, the outputs are filled up to lastInputSize.
Filled ==
    /\ head = 0 => last = 0 /\ writes = {}
    /\ head \in 1..Len(PluginHeads) =>
        /\ last = SumAfter(Sizes(PluginHeads))[head]
        /\ Square(PluginHeads) =>
             /\ {w.slot : w \in writes} = Slots(plugin.outputSize, 0, last, images)
             /\ Apart(writes)

\* How the slots of the heads add up.
LEMMA SizesAddUp ==
    ASSUME EngineFits
    PROVE  LET heads == PluginHeads
               n == Len(heads)
               sum == SumAfter(Sizes(heads))
           IN  /\ n \in Nat /\ sum[0] = 0 /\ \A k \in 0..n : sum[k] \in Nat
               /\ \A k \in 0..(n - 1) : sum[k + 1] = sum[k] + Sizes(heads)[k + 1]
               /\ plugin # Nothing =>
                    plugin.outputSize = sum[n] /\ \A k \in 0..n : sum[k] <= plugin.outputSize
<1> DEFINE heads == PluginHeads
           n == Len(heads)
           sizes == Sizes(heads)
           sum == SumAfter(sizes)
<1>1. heads \in Seq(HeadInfo) /\ n \in Nat /\ (plugin # Nothing => heads = plugin.heads)
  BY PluginHeadsFit
<1>2. /\ sizes \in Seq(Nat) /\ Len(sizes) = n /\ IsSum(sum, sizes)
      /\ OutputSize(heads) = sum[n]
  BY <1>1, OutputSizeIsSum DEF Sizes
<1>3. plugin # Nothing => plugin.outputSize = OutputSize(heads)
  BY <1>1 DEF EngineFits, PluginFits
<1> HIDE DEF heads, n, sizes, sum
<1>4. \A k \in 0..n : sum[k] \in Nat /\ \A j \in 0..k : sum[j] <= sum[k]
  BY <1>2, SumGrows
<1>5. sum[0] = 0 /\ \A k \in 0..(n - 1) : sum[k + 1] = sum[k] + sizes[k + 1]
  BY <1>2 DEF IsSum
<1>6. \A k \in 0..n : sum[k] <= sum[n]
  BY <1>1, <1>4
<1> QED
  BY <1>1, <1>2, <1>3, <1>4, <1>5, <1>6 DEF sum, sizes, n, heads

LEMMA FilledSoFar ==
    ASSUME EngineFits, Filled, head \in 0..Len(PluginHeads)
    PROVE  /\ last = SumAfter(Sizes(PluginHeads))[head]
           /\ Square(PluginHeads) =>
                /\ {w.slot : w \in writes} = Slots(plugin.outputSize, 0, last, images)
                /\ Apart(writes)
<1>1. CASE head = 0
  <2>1. last = 0 /\ writes = {}
    BY <1>1 DEF Filled
  <2>2. last = SumAfter(Sizes(PluginHeads))[head]
    BY <1>1, <2>1, SizesAddUp
  <2>3. Slots(plugin.outputSize, 0, last, images) = {}
    BY <2>1 DEF Slots
  <2> QED
    BY <2>1, <2>2, <2>3 DEF Apart
<1>2. CASE head # 0
  <2>1. head \in 1..Len(PluginHeads)
    BY <1>2, PluginHeadsFit
  <2> QED
    BY <2>1 DEF Filled
<1> QED
  BY <1>1, <1>2

LEMMA LaunchHeadFills ==
    ASSUME EngineFits, InferTyped, Filled, LaunchHead
    PROVE  head + 1 \in 0..Len(PluginHeads) =>
             /\ last' = SumAfter(Sizes(PluginHeads))[head + 1]
             /\ Square(PluginHeads) =>
                  /\ {w.slot : w \in writes'} = Slots(plugin.outputSize, 0, last', images)
                  /\ Apart(writes')
<1> DEFINE heads == PluginHeads
           n == Len(heads)
           sum == SumAfter(Sizes(heads))
           t == plugin.heads[head + 1]
           size == t.numBBoxes * t.gridSizeY * t.gridSizeX
           O == plugin.outputSize
           new == HeadWrites(plugin, t, last, images, head + 1)
<1>1. /\ heads \in Seq(HeadInfo) /\ n \in Nat /\ head \in Nat /\ head < n /\ images \in Nat
      /\ plugin # Nothing /\ heads = plugin.heads
  <2>1. heads \in Seq(HeadInfo) /\ n \in Nat /\ head \in Nat /\ head < n /\ images \in Nat
    BY PluginHeadsFit DEF LaunchHead, InferTyped
  <2>2. heads # <<>>
    BY <2>1
  <2> QED
    BY <2>1, <2>2, PluginHeadsFit
<1>2. head \in 0..n /\ head \in 0..(n - 1) /\ head + 1 \in 1..n /\ head + 1 \in 0..n
  BY <1>1
<1>3. t \in HeadInfo /\ IsHead(t) /\ size \in Nat
  <2>1. t \in HeadInfo
    BY <1>1, <1>2
  <2>2. IsHead(t)
    BY <2>1 DEF HeadInfo, IsHead
  <2>3. \A a, b, c \in Nat : a * b * c \in Nat
    OBVIOUS
  <2> QED
    BY <2>1, <2>2, <2>3 DEF IsHead
<1>4. Sizes(heads)[head + 1] = size
  BY <1>1, <1>2 DEF Sizes
<1>5. /\ sum[head + 1] = sum[head] + size /\ sum[head] \in Nat
      /\ sum[head + 1] <= O /\ O \in Nat
  <2>1. O = sum[n] /\ sum[n] \in Nat
    BY <1>1, SizesAddUp
  <2> QED
    BY <1>1, <1>2, <1>4, <2>1, SizesAddUp
<1>6. last = sum[head] /\ last' = last + size
  BY <1>2, FilledSoFar DEF LaunchHead
<1>7. writes' = writes \union new
  BY DEF LaunchHead, HeadWrites
<1>8. last \in Nat /\ last + size <= O /\ last' = sum[head + 1]
  BY <1>5, <1>6
<1>9. ASSUME Square(heads)
      PROVE  {w.slot : w \in writes'} = Slots(O, 0, last', images) /\ Apart(writes')
  <2>1. t.gridSizeX = t.gridSizeY
    BY <1>1, <1>2, <1>9 DEF Square
  <2>2. {w.slot : w \in writes} = Slots(O, 0, last, images) /\ Apart(writes)
    BY <1>2, <1>9, FilledSoFar
  <2>3. {w.slot : w \in new} = Slots(O, last, size, images) /\ Apart(new)
    BY <1>1, <1>3, <1>5, <1>8, <2>1, HeadFills
  <2>4. /\ Slots(O, 0, last, images) \union Slots(O, last, size, images)
             = Slots(O, 0, last + size, images)
        /\ Slots(O, 0, last, images) \intersect Slots(O, last, size, images) = {}
    BY <1>1, <1>3, <1>5, <1>8, SlotsFollow
  <2> DEFINE E == Slots(O, 0, last, images)
             F == Slots(O, last, size, images)
             G == Slots(O, 0, last + size, images)
  <2> HIDE DEF E, F, G, new
  <2>5. {w.slot : w \in writes'} = {w.slot : w \in writes} \union {w.slot : w \in new}
    BY <1>7
  <2>6. ASSUME NEW v \in writes, NEW w \in new
        PROVE  v.slot # w.slot
    <3>1. v.slot \in E /\ w.slot \in F
      BY <2>2, <2>3 DEF E, F
    <3> QED
      BY <2>4, <3>1 DEF E, F
  <2>7. Apart(writes')
    BY <1>7, <2>2, <2>3, <2>6 DEF Apart
  <2>8. {w.slot : w \in writes'} = G
    BY <2>2, <2>3, <2>4, <2>5 DEF E, F, G
  <2> QED
    BY <1>6, <2>7, <2>8 DEF G
<1> QED
  BY <1>8, <1>9

LEMMA InferKeepsFilled ==
    ASSUME EngineFits, InferTyped, Filled, [PerceptionNext]_allVars
    PROVE  Filled'
<1>1. CASE Infer
  <2>1. PluginHeads' = PluginHeads /\ plugin' = plugin
    BY <1>1 DEF Infer, engineVars, PluginHeads
  <2>2. Len(PluginHeads) \in Nat /\ head \in Nat
    BY PluginHeadsFit DEF InferTyped
  <2>3. CASE BeginEnqueue
    BY <2>3 DEF BeginEnqueue, Filled
  <2>4. CASE LaunchHead
    <3>1. head' = head + 1 /\ images' = images
      BY <2>4 DEF LaunchHead
    <3>2. head' # 0
      BY <2>2, <3>1
    <3>3. head' \in 1..Len(PluginHeads) => head + 1 \in 0..Len(PluginHeads)
      BY <2>2, <3>1
    <3>4. head' \in 1..Len(PluginHeads) =>
            /\ last' = SumAfter(Sizes(PluginHeads))[head']
            /\ Square(PluginHeads) =>
                 /\ {w.slot : w \in writes'} = Slots(plugin.outputSize, 0, last', images)
                 /\ Apart(writes')
      BY <2>4, <3>1, <3>3, LaunchHeadFills
    <3> QED
      BY <2>1, <3>1, <3>2, <3>4 DEF Filled, Apart
  <2>5. CASE EndEnqueue
    <3>1. head' = Len(PluginHeads) + 1
      BY <2>5 DEF EndEnqueue
    <3>2. head' # 0 /\ head' \notin 1..Len(PluginHeads')
      BY <2>1, <2>2, <3>1
    <3> QED
      BY <3>2 DEF Filled
  <2>6. CASE ParseImage
    <3>1. head' = head /\ head > Len(PluginHeads)
      BY <2>6 DEF ParseImage
    <3>2. head' # 0 /\ head' \notin 1..Len(PluginHeads')
      BY <2>1, <2>2, <3>1
    <3> QED
      BY <3>2 DEF Filled
  <2> QED
    BY <1>1, <2>3, <2>4, <2>5, <2>6 DEF Infer, InferStep
<1>2. CASE StartAgain
  BY <1>2 DEF StartAgain, InferReset, Filled
<1>3. CASE LoadEngine
  <2>1. Idle /\ UNCHANGED inferVars
    BY <1>3 DEF LoadEngine, InferTyped, Inferring
  <2> QED
    BY <2>1 DEF Idle, inferVars, Filled
<1>4. CASE UNCHANGED <<engineVars, inferVars>>
  <2>1. PluginHeads' = PluginHeads /\ plugin' = plugin
    BY <1>4 DEF engineVars, PluginHeads
  <2> QED
    BY <1>4, <2>1 DEF inferVars, Filled, Apart
<1>5. Infer \/ StartAgain \/ LoadEngine \/ UNCHANGED <<engineVars, inferVars>>
  BY DEF PerceptionNext, Starting, Assemble, PlayLoaded, PlayFails, PlayEnds, PlayWaits, Stop,
     OthersWait, allVars
<1> QED
  BY <1>1, <1>2, <1>3, <1>4, <1>5

\* Whatever the number of heads, images, boxes and cells: on square grids the
\* kernels fill the outputs of every image without a gap and without writing a
\* slot twice, and the last head ends where the outputs do
\* (yoloForward.cu:50, yoloPlugins.cpp:213-267, yolo.cpp:461-469).
THEOREM SlotsWrittenOnceHolds == PerceptionSpec => []SlotsWrittenOnce
<1>1. PerceptionInit => Filled
  BY DEF PerceptionInit, InferInit, Filled
<1>2. ASSUME EngineFits, Filled
      PROVE  SlotsWrittenOnce
  <2>1. ASSUME head \in 1..Len(PluginHeads),
               \A k \in 1..Len(PluginHeads) :
                 plugin.heads[k].gridSizeX = plugin.heads[k].gridSizeY
        PROVE  /\ {w.slot : w \in writes} = FirstSlots(last)
               /\ \A v, w \in writes : v.slot = w.slot => v = w
               /\ head = Len(PluginHeads) => last = plugin.outputSize
    <3>1. /\ plugin # Nothing /\ PluginHeads = plugin.heads
          /\ Len(PluginHeads) \in Nat /\ head \in 0..Len(PluginHeads)
      <4>1. PluginHeads \in Seq(HeadInfo) /\ Len(PluginHeads) \in Nat
        BY <1>2, PluginHeadsFit
      <4>2. PluginHeads # <<>> /\ head \in 0..Len(PluginHeads)
        BY <2>1, <4>1
      <4> QED
        BY <1>2, <4>1, <4>2, PluginHeadsFit
    <3>2. Square(PluginHeads)
      BY <2>1, <3>1 DEF Square
    <3>3. /\ last = SumAfter(Sizes(PluginHeads))[head]
          /\ {w.slot : w \in writes} = Slots(plugin.outputSize, 0, last, images)
          /\ Apart(writes)
      BY <1>2, <2>1, <3>2 DEF Filled
    <3>4. last \in Nat /\ (head = Len(PluginHeads) => last = plugin.outputSize)
      BY <1>2, <3>1, <3>3, SizesAddUp
    <3>5. Slots(plugin.outputSize, 0, last, images) = FirstSlots(last)
      <4>1. 0..(0 + last - 1) = 0..(last - 1)
        BY <3>4
      <4>2. \A x : x \in Slots(plugin.outputSize, 0, last, images)
                      <=> \E b \in 0..(images - 1), k \in 0..(0 + last - 1) :
                            x = b * plugin.outputSize + k
        BY DEF Slots
      <4>3. \A x : x \in FirstSlots(last) <=> \E b \in 0..(images - 1), k \in 0..(last - 1) :
                                    x = b * plugin.outputSize + k
        BY DEF FirstSlots
      <4> QED
        BY <4>1, <4>2, <4>3
    <3> QED
      BY <3>3, <3>4, <3>5 DEF Apart
  <2> QED
    BY <2>1 DEF SlotsWrittenOnce
<1> QED
  BY <1>1, <1>2, InferKeepsFilled, PluginIsOfItsFile, InferTypedAlways, PTL DEF PerceptionSpec

----------------------------------------------------------------------------
(* The channels and weights that are meant                                 *)

\* The references of block k, as Darknet reads them, are to outputs before it.
RefersBack(cfg, k) ==
    LET b == cfg[k + 1]
    IN  /\ b.type \in FromLayer \union {"route"} => 1 \in DOMAIN Written(b)
        /\ \A r \in DOMAIN Written(b) : MeantLayer(k, Written(b)[r]) + 1 \in 0..(k - 1)

\* So the channels meant for a block depend on those before it only.
LEMMA OutputIsLocal ==
    ASSUME NEW cfg, NEW k \in Nat, k > 0 => RefersBack(cfg, k),
           NEW f, NEW g, \A j \in 0..(k - 1) : f[j] = g[j]
    PROVE  MeantOutput(cfg, f, k) = MeantOutput(cfg, g, k)
<1> DEFINE b == cfg[k + 1]
           of(h, r) == h[MeantLayer(k, Written(b)[r]) + 1]
<1>1. CASE k = 0
  BY <1>1 DEF MeantOutput
<1>2. CASE k > 0
  <2>1. f[k - 1] = g[k - 1]
    BY <1>2
  <2>2. \A r \in DOMAIN Written(b) : of(f, r) = of(g, r)
    BY <1>2 DEF RefersBack
  <2>3. b.type \in FromLayer \union {"route"} => of(f, 1) = of(g, 1)
    BY <1>2, <2>2 DEF RefersBack
  <2>4. b.type = "route" => Written(b) = b.layers
    BY DEF Written, FromLayer, Channels
  <2>5. b.type = "route" =>
          [r \in DOMAIN b.layers |-> of(f, r)] = [r \in DOMAIN b.layers |-> of(g, r)]
    BY <2>2, <2>4
  <2>6. Channels \union {"sam"} \subseteq FromLayer
    BY DEF FromLayer
  <2> HIDE DEF b
  <2> DEFINE input(h) == h[k - 1]
             all(h) == [r \in DOMAIN b.layers |-> of(h, r)]
             joined(h) == IF JoinsChannels(b) THEN Total(all(h)) ELSE of(h, 1)
             out(h) ==
               IF k = 0 THEN b.channels
               ELSE IF b.type \in {"convolutional", "deconvolutional"} \union Implicit
                    THEN b.filters
               ELSE IF b.type \in Channels \union {"sam"} THEN Max({input(h), of(h, 1)})
               ELSE IF b.type = "reorg"
                    THEN input(h) * Value(b, "stride", 1) * Value(b, "stride", 1)
               ELSE IF b.type = "route" THEN joined(h) \div Value(b, "groups", 1)
               ELSE input(h)
  <2>7. MeantOutput(cfg, f, k) = out(f) /\ MeantOutput(cfg, g, k) = out(g)
    BY DEF MeantOutput, b
  <2>8. input(f) = input(g)
    BY <2>1
  <2>9. b.type = "route" => joined(f) = joined(g)
    <3>1. b.type = "route" => all(f) = all(g) /\ of(f, 1) = of(g, 1)
      BY <2>3, <2>5
    <3> HIDE DEF all, of
    <3> QED
      BY <3>1
  <2>10. b.type \in Channels \union {"sam"} => of(f, 1) = of(g, 1)
    BY <2>3, <2>6
  <2> HIDE DEF input, joined, of
  <2>11. out(f) = out(g)
    BY <2>8, <2>9, <2>10, Zenon
  <2> HIDE DEF out
  <2> QED
    BY <2>7, <2>11
<1> QED
  BY <1>1, <1>2

LEMMA ChannelsOfMax ==
    ASSUME NEW d \in Shape, NEW e \in Shape, NEW f \in ElementWiseDims(d, e)
    PROVE  f[2] = Max({d[2], e[2]})
BY DEF ElementWiseDims

\* Only the shape that a shortcut starts from has a say in its channels.
LEMMA ChannelsOfShortcut ==
    ASSUME NEW d \in Shape, NEW e \in Shape, NEW f \in ShortcutDims(d, e)
    PROVE  f[2] = d[2]
<1>1. CASE SubSeq(d, 2, 4) = SubSeq(e, 2, 4)
  <2>1. f[2] = Max({d[2], e[2]})
    BY <1>1, ChannelsOfMax DEF ShortcutDims
  <2>2. SubSeq(d, 2, 4)[1] = d[2] /\ SubSeq(e, 2, 4)[1] = e[2] /\ d[2] \in Int
    <3>1. ASSUME NEW q \in Shape
          PROVE  q \in Seq(Int) /\ Len(q) = 4 /\ q[2] \in Int
      <4> DEFINE n == 4
      <4>1. n \in Nat /\ q \in [1..n -> Int]
        BY DEF Shape
      <4>2. q \in Seq(Int) /\ Len(q) = n
        <5> HIDE DEF n
        <5> QED
          BY <4>1, FunctionIsList
      <4> QED
        BY <4>1, <4>2
    <3>2. \A q \in Seq(Int) : Len(q) = 4 => SubSeq(q, 2, 4)[1] = q[2]
      OBVIOUS
    <3> QED
      BY <3>1, <3>2
  <2>3. e[2] = d[2]
    BY <1>1, <2>2
  <2>4. Max({d[2], d[2]}) = d[2]
    BY <2>2 DEF Max
  <2> QED
    BY <2>1, <2>3, <2>4
<1>2. CASE SubSeq(d, 2, 4) # SubSeq(e, 2, 4)
  BY <1>2 DEF ShortcutDims
<1> QED
  BY <1>1, <1>2

\* A route adds the channels up when it joins along them.
LEMMA ChannelsOfRoute ==
    ASSUME NEW b, IsBlock(b), Divides(b), NEW ds \in Seq(Shape), ds # <<>>,
           NEW e \in RouteDims(b, ds)
    PROVE  LET joined == IF JoinsChannels(b) THEN Total([r \in DOMAIN ds |-> ds[r][2]])
                                             ELSE ds[1][2]
           IN  e[2] = joined \div Value(b, "groups", 1)
<1> DEFINE a == 1 + Value(b, "axis", 0)
           axis == (IF a < 0 THEN a + 4 ELSE a) + 1
           numbers(k) == [r \in DOMAIN ds |-> ds[r][k]]
           joined == IF JoinsChannels(b) THEN Total(numbers(2)) ELSE ds[1][2]
<1>1. /\ Len(ds) \in Nat /\ Len(ds) > 0 /\ DOMAIN ds = 1..Len(ds)
      /\ \A r \in 1..Len(ds) : ds[r] \in Shape
  OBVIOUS
<1>2. axis = 2 <=> JoinsChannels(b)
  <2>1. Value(b, "axis", 0) \in Int
    BY DEF IsBlock, Value, Has
  <2> QED
    BY <2>1 DEF JoinsChannels
<1>3. PICK d \in ConcatDims(b, ds) : e \in IF Has(b, "groups") THEN GroupDims(b, d) ELSE {d}
  BY DEF RouteDims
<1>4. \/ Len(ds) = 1 /\ d = ds[1]
      \/ d = [ds[1] EXCEPT ![axis] = Total(numbers(axis))]
  BY <1>3 DEF ConcatDims
<1> HIDE DEF axis
<1>5. d[2] = joined
  <2>1. CASE Len(ds) = 1 /\ d = ds[1]
    <3>1. numbers(2) = <<ds[1][2]>>
      BY <1>1, <2>1
    <3>2. ds[1][2] \in Int
      BY <1>1 DEF Shape
    <3>3. \A n \in Int : Total(<<n>>) = n
      <4> SUFFICES ASSUME NEW n \in Int PROVE Total(<<n>>) = n
        OBVIOUS
      <4>1. <<n>> \in Seq(Int) /\ Len(<<n>>) = 1 /\ <<n>>[1] = n
        OBVIOUS
      <4>2. IsSum(SumAfter(<<n>>), <<n>>)
        BY <4>1, SumUnfolds
      <4>3. SumAfter(<<n>>)[0] = 0
            /\ \A k \in 0..0 : SumAfter(<<n>>)[k + 1] = SumAfter(<<n>>)[k] + <<n>>[k + 1]
        BY <4>1, <4>2 DEF IsSum
      <4>4. SumAfter(<<n>>)[1] = n
        BY <4>1, <4>3
      <4> QED
        BY <4>1, <4>4 DEF Total
    <3> QED
      BY <2>1, <3>1, <3>2, <3>3
  <2>2. CASE d = [ds[1] EXCEPT ![axis] = Total(numbers(axis))]
    <3>1. ds[1] \in Shape
      BY <1>1
    <3>2. CASE axis = 2
      BY <1>2, <2>2, <3>1, <3>2 DEF Shape
    <3>3. CASE axis # 2
      BY <1>2, <2>2, <3>1, <3>3 DEF Shape
    <3> QED
      BY <3>2, <3>3
  <2> QED
    BY <1>4, <2>1, <2>2
<1>6. d \in Shape /\ d[2] \in Int
  BY <1>3, ConcatIsShape DEF Shape
<1>7. e[2] = d[2] \div Value(b, "groups", 1)
  <2>1. CASE Has(b, "groups")
    <3>1. e = [d EXCEPT ![2] = d[2] \div b.groups]
      BY <1>3, <2>1 DEF GroupDims
    <3> QED
      BY <1>6, <2>1, <3>1 DEF Value, Shape
  <2>2. CASE ~Has(b, "groups")
    BY <1>3, <1>6, <2>2 DEF Value
  <2> QED
    BY <2>1, <2>2
<1> QED
  BY <1>5, <1>7

\* The outputs that block k refers to have the channels that are meant.
RefersTo(cfg, channels, k, ds) ==
    LET b == cfg[k + 1]
    IN  b.type \in FromLayer \union {"route"} =>
          /\ ds \in Seq(Tensor) /\ ds # <<>> /\ DOMAIN ds = DOMAIN Written(b)
          /\ \A r \in DOMAIN ds : channels[MeantLayer(k, Written(b)[r]) + 1] = ds[r][2]

\* Block k made e from d and ds, which have the channels that are meant.
MakesFrom(cfg, channels, k, d, ds, e) ==
    LET b == cfg[k + 1]
    IN  /\ k \in Nat \ {0} /\ IsBlock(b) /\ Supported(b) /\ b.type \notin NoTensor
        /\ d \in Shape /\ channels[k - 1] = d[2] /\ RefersTo(cfg, channels, k, ds)
        /\ e \in LayerDims(b, d, ds)

\* A layer has the channels that are meant when its input and the outputs it
\* refers to have (yolo.cpp:290-446 and the functions it calls).
LEMMA LayerIsMeant ==
    ASSUME NEW cfg, NEW channels, NEW k, NEW d, NEW ds, NEW e,
           MakesFrom(cfg, channels, k, d, ds, e)
    PROVE  e[2] = MeantOutput(cfg, channels, k)
<1> SUFFICES ASSUME NEW b, b = cfg[k + 1], k \in Nat \ {0},
                    IsBlock(b), Supported(b), b.type \notin NoTensor,
                    d \in Shape, channels[k - 1] = d[2],
                    RefersTo(cfg, channels, k, ds), e \in LayerDims(b, d, ds)
             PROVE  e[2] = MeantOutput(cfg, channels, k)
  BY Zenon DEF MakesFrom
<1> DEFINE of(r) == channels[MeantLayer(k, Written(b)[r]) + 1]
           stride == Value(b, "stride", 1)
           joined == IF JoinsChannels(b) THEN Total([r \in DOMAIN b.layers |-> of(r)])
                                         ELSE of(1)
<1>1. Divides(b) /\ Required(b) \subseteq DOMAIN b
  BY DEF Supported
<1>2. b.type \in FromLayer \union {"route"} =>
        /\ ds \in Seq(Shape) /\ ds # <<>> /\ ds[1] \in Shape
        /\ DOMAIN ds = DOMAIN Written(b) /\ 1 \in DOMAIN ds
        /\ \A r \in DOMAIN ds : of(r) = ds[r][2]
  <2>1. \A s \in Tensor : s \in Shape
    BY DEF Tensor, Shape
  <2> HIDE DEF Tensor, Shape
  <2> QED
    BY <2>1 DEF RefersTo
<1>3. (\A i \in 1..4 : e[i] > 0) /\ e \in Results(b, d, ds)
  BY DEF LayerDims
<1>4. d[2] \in Int /\ channels[k - 1] = d[2]
  BY DEF Shape
<1>5. MeantOutput(cfg, channels, k) =
        IF b.type \in {"convolutional", "deconvolutional"} \union Implicit THEN b.filters
        ELSE IF b.type \in Channels \union {"sam"} THEN Max({d[2], of(1)})
        ELSE IF b.type = "reorg" THEN d[2] * stride * stride
        ELSE IF b.type = "route" THEN joined \div Value(b, "groups", 1)
        ELSE d[2]
  BY <1>4 DEF MeantOutput
<1> HIDE DEF of, stride, joined
<1>6. CASE b.type = "convolutional"
  <2>1. e \in ConvolutionalDims(b, d) /\ {"filters", "pad", "size", "stride"} \subseteq DOMAIN b
    BY <1>3, <1>1, <1>6 DEF Results, Required, Convolution, Implicit, Channels, MaxPool, AvgPool,
       Reorg, FromLayer
  <2>2. e[2] = b.filters
    BY <2>1 DEF ConvolutionalDims
  <2> QED
    BY <1>5, <1>6, <2>2
<1>7. CASE b.type = "deconvolutional"
  <2>1. e \in DeconvolutionalDims(b, d)
    BY <1>3, <1>7 DEF Results, Convolution, Implicit, Channels, MaxPool, AvgPool, Reorg, FromLayer
  <2>2. e[2] = b.filters
    BY <2>1 DEF DeconvolutionalDims
  <2> QED
    BY <1>5, <1>7, <2>2
<1>8. CASE b.type = "batchnorm"
  <2>1. e = d
    BY <1>3, <1>8 DEF Results, BatchnormDims, Implicit, Channels, MaxPool, AvgPool, Reorg
  <2> QED
    BY <1>5, <1>8, <2>1 DEF Implicit, Channels
<1>9. CASE b.type \in Implicit
  <2>1. e = <<1, b.filters, 1, 1>>
    BY <1>3, <1>9 DEF Results, Implicit, ImplicitDims, Channels, MaxPool, AvgPool, Reorg, FromLayer
  <2> QED
    BY <1>5, <1>9, <2>1
<1>10. CASE b.type \in Channels \union {"sam"}
  <2>1. e \in ElementWiseDims(d, ds[1])
    BY <1>3, <1>10 DEF Results, Implicit, Channels, MaxPool, AvgPool, Reorg
  <2>2. ds[1] \in Shape /\ of(1) = ds[1][2]
    BY <1>2, <1>10 DEF FromLayer
  <2>3. e[2] = Max({d[2], ds[1][2]})
    BY <2>1, <2>2, ChannelsOfMax
  <2>4. b.type \notin {"convolutional", "deconvolutional"} \union Implicit
    BY <1>10 DEF Channels, Implicit
  <2> QED
    BY <1>5, <1>10, <2>2, <2>3, <2>4
<1>11. CASE b.type = "shortcut"
  <2>1. e \in ShortcutDims(d, ds[1])
    BY <1>3, <1>11 DEF Results, Implicit, Channels, MaxPool, AvgPool, Reorg
  <2>2. e[2] = d[2]
    BY <1>2, <1>11, <2>1, ChannelsOfShortcut DEF FromLayer
  <2> QED
    BY <1>5, <1>11, <2>2 DEF Implicit, Channels
<1>12. CASE b.type = "route"
  <2>1. e \in RouteDims(b, ds)
    BY <1>3, <1>12 DEF Results, Implicit, Channels, MaxPool, AvgPool, Reorg
  <2>2. Written(b) = b.layers
    BY <1>12 DEF Written, FromLayer, Channels
  <2>3. [r \in DOMAIN b.layers |-> of(r)] = [r \in DOMAIN ds |-> ds[r][2]] /\ of(1) = ds[1][2]
    BY <1>2, <1>12, <2>2
  <2>4. joined = IF JoinsChannels(b) THEN Total([r \in DOMAIN ds |-> ds[r][2]]) ELSE ds[1][2]
    BY <2>3 DEF joined
  <2>5. e[2] = joined \div Value(b, "groups", 1)
    <3>1. ds \in Seq(Shape) /\ ds # <<>>
      BY <1>2, <1>12
    <3> QED
      BY <1>1, <2>1, <2>4, <3>1, ChannelsOfRoute, Zenon
  <2> QED
    BY <1>5, <1>12, <2>5 DEF Implicit, Channels
<1>13. CASE b.type = "upsample"
  <2>1. e = <<d[1], d[2], d[3] * b.stride, d[4] * b.stride>>
    BY <1>3, <1>13 DEF Results, Implicit, Channels, UpsampleDims, MaxPool, AvgPool, Reorg
  <2> QED
    BY <1>5, <1>13, <2>1 DEF Implicit, Channels
<1>14. CASE b.type \in MaxPool \union AvgPool
  <2>1. e \in PoolingDims(b, d)
    BY <1>3, <1>14 DEF Results, Implicit, Channels, MaxPool, AvgPool, Reorg
  <2>2. e[2] = d[2]
    BY <2>1 DEF PoolingDims
  <2> QED
    BY <1>5, <1>14, <2>2 DEF Implicit, Channels, MaxPool, AvgPool
<1>15. CASE b.type \in Reorg
  <2>1. e \in ReorgDims(b, d)
    BY <1>3, <1>15 DEF Results, Implicit, Channels, MaxPool, AvgPool, Reorg
  <2>2. e[2] = IF b.type = "reorg3d" THEN d[2] ELSE d[2] * stride * stride
    BY <2>1 DEF ReorgDims, stride
  <2> QED
    BY <1>5, <1>15, <2>2 DEF Implicit, Channels, Reorg
<1>16. CASE b.type \in YoloHead
  <2>1. e = d
    BY <1>3, <1>16 DEF Results, Implicit, Channels, MaxPool, AvgPool, Reorg, YoloHead
  <2> QED
    BY <1>5, <1>16, <2>1 DEF Implicit, Channels, YoloHead
<1>17. \/ b.type \in {"convolutional", "deconvolutional", "batchnorm", "route", "upsample"}
       \/ b.type \in Implicit \/ b.type \in Channels \union {"shortcut", "sam"}
       \/ b.type \in MaxPool \union AvgPool \/ b.type \in Reorg \/ b.type \in YoloHead
  BY DEF Supported, FromLayer
<1> QED
  BY <1>6, <1>7, <1>8, <1>9, <1>10, <1>11, <1>12, <1>13, <1>14, <1>15, <1>16, <1>17

LEMMA WeightsAreCounted ==
    ASSUME NEW b, IsBlock(b), Supported(b), NEW c \in Int
    PROVE  Weights(b, c) \in Int
<1>1. Divides(b) /\ Required(b) \subseteq DOMAIN b
  BY DEF Supported
<1>2. CASE b.type \in Convolution \union {"deconvolutional"}
  <2>1. {"filters", "size"} \subseteq DOMAIN b
    BY <1>1, <1>2 DEF Required, Convolution, Implicit, FromLayer, Channels, MaxPool
  <2>2. b.filters \in Int /\ b.size \in Int
    BY <2>1 DEF IsBlock
  <2> DEFINE groups == Value(b, "groups", 1)
             read == b.filters * c * b.size * b.size
             scales == IF b.type \in Convolution /\ Value(b, "batch_normalize", 0) = 1
                       THEN 4 * b.filters ELSE 0
             biases == IF HasBias(b) THEN b.filters ELSE 0
  <2>3. groups \in Int /\ groups > 0
    BY <1>1 DEF IsBlock, Value, Has, Divides
  <2>4. read \in Int
    <3>1. \A x, y, z \in Int : x * y * z * z \in Int
      OBVIOUS
    <3> QED
      BY <2>2, <3>1
  <2>5. scales \in Int /\ biases \in Int
    BY <2>2
  <2>6. Weights(b, c) = scales + biases + (read \div groups)
    BY <1>2 DEF Weights, Kernel, Convolution, Implicit
  <2> HIDE DEF groups, read, scales, biases
  <2>7. read \div groups \in Int
    BY <2>3, <2>4, QuotientIsInt
  <2> QED
    BY <2>5, <2>6, <2>7
<1>3. CASE b.type = "batchnorm" \/ b.type \in Implicit
  <2>1. "filters" \in DOMAIN b
    BY <1>1, <1>3 DEF Required, Convolution, Implicit, FromLayer, Channels, MaxPool
  <2>2. b.filters \in Int
    BY <2>1 DEF IsBlock
  <2>3. Weights(b, c) = 4 * b.filters \/ Weights(b, c) = b.filters
    BY <1>3 DEF Weights, Convolution, Implicit
  <2> QED
    BY <2>2, <2>3
<1>4. CASE b.type \notin Convolution \union {"deconvolutional", "batchnorm"} \union Implicit
  BY <1>4 DEF Weights
<1> QED
  BY <1>2, <1>3, <1>4

\* The channels and the sums of weights that are meant for the first m blocks.
Meant(cfg, m, g, s) ==
    /\ g \in [0..(m - 1) -> Int] /\ s \in [0..(m - 1) -> Int]
    /\ \A k \in 0..(m - 1) : g[k] = MeantOutput(cfg, g, k)
    /\ s[0] = 0
    /\ \A k \in 1..(m - 1) :
         /\ RefersBack(cfg, k) /\ Weights(cfg[k + 1], g[k - 1]) \in Int
         /\ s[k] = s[k - 1] + Weights(cfg[k + 1], g[k - 1])

\* With one value more.
Longer(f, m, v) == [k \in 0..m |-> IF k = m THEN v ELSE f[k]]

Prolongs(h, f, m, v) ==
    /\ f \in [0..(m - 1) -> Int] /\ h \in [0..m -> Int]
    /\ h[m] = v /\ \A k \in 0..(m - 1) : h[k] = f[k]

LEMMA LongerProlongs ==
    ASSUME NEW m \in Nat \ {0}, NEW f \in [0..(m - 1) -> Int], NEW v \in Int
    PROVE  Prolongs(Longer(f, m, v), f, m, v)
BY DEF Longer, Prolongs

LEMMA OneMoreMeant ==
    ASSUME NEW cfg, NEW m \in Nat \ {0}, NEW g, NEW s, Meant(cfg, m, g, s),
           NEW c \in Int, c = MeantOutput(cfg, Longer(g, m, c), m), RefersBack(cfg, m),
           NEW v \in Int, v = s[m - 1] + Weights(cfg[m + 1], g[m - 1]),
           Weights(cfg[m + 1], g[m - 1]) \in Int
    PROVE  Meant(cfg, m + 1, Longer(g, m, c), Longer(s, m, v))
<1> DEFINE h == Longer(g, m, c)
           t == Longer(s, m, v)
<1>1. g \in [0..(m - 1) -> Int] /\ s \in [0..(m - 1) -> Int]
  BY DEF Meant
<1>2. Prolongs(h, g, m, c) /\ Prolongs(t, s, m, v)
  BY <1>1, LongerProlongs, Zenon
<1>3. c = MeantOutput(cfg, h, m)
  OBVIOUS
<1> HIDE DEF h, t
<1>4. ASSUME NEW k \in 0..m
      PROVE  h[k] = MeantOutput(cfg, h, k)
  <2>1. CASE k = m
    BY <1>2, <1>3, <2>1 DEF Prolongs
  <2>2. CASE k # m
    <3>1. k \in 0..(m - 1) /\ k \in Nat
      BY <2>2
    <3>2. g[k] = MeantOutput(cfg, g, k) /\ (k > 0 => RefersBack(cfg, k))
      BY <3>1 DEF Meant
    <3>3. \A j \in 0..(k - 1) : g[j] = h[j]
      BY <1>2, <3>1 DEF Prolongs
    <3>4. MeantOutput(cfg, g, k) = MeantOutput(cfg, h, k)
      BY <3>1, <3>2, <3>3, OutputIsLocal
    <3> QED
      BY <1>2, <3>1, <3>2, <3>4 DEF Prolongs
  <2> QED
    BY <2>1, <2>2
<1>5. ASSUME NEW k \in 1..m
      PROVE  /\ RefersBack(cfg, k) /\ Weights(cfg[k + 1], h[k - 1]) \in Int
             /\ t[k] = t[k - 1] + Weights(cfg[k + 1], h[k - 1])
  <2>0. k - 1 \in 0..(m - 1)
    OBVIOUS
  <2>1. h[k - 1] = g[k - 1] /\ t[k - 1] = s[k - 1]
    BY <1>2, <2>0 DEF Prolongs
  <2>2. CASE k = m
    BY <1>2, <2>1, <2>2 DEF Prolongs
  <2>3. CASE k # m
    <3>1. k \in 1..(m - 1) /\ k \in 0..(m - 1)
      BY <2>3
    <3>2. /\ RefersBack(cfg, k) /\ Weights(cfg[k + 1], g[k - 1]) \in Int
          /\ s[k] = s[k - 1] + Weights(cfg[k + 1], g[k - 1])
      BY <3>1 DEF Meant
    <3>3. t[k] = s[k]
      BY <1>2, <3>1 DEF Prolongs
    <3> QED
      BY <2>1, <3>2, <3>3
  <2> QED
    BY <2>2, <2>3
<1>6. t[0] = 0
  BY <1>2 DEF Meant, Prolongs
<1>7. (m + 1) - 1 = m
  OBVIOUS
<1>8. Meant(cfg, m + 1, h, t)
  BY <1>2, <1>4, <1>5, <1>6, <1>7 DEF Meant, Prolongs
<1> QED
  BY <1>8 DEF h, t

\* What is meant for all blocks is what NetworkIsMeant says.
LEMMA MeantInAll ==
    ASSUME NEW cfg, Len(cfg) \in Nat \ {0}, NEW g, NEW s, Meant(cfg, Len(cfg), g, s)
    PROVE  MeantWeights(cfg) = s[Len(cfg) - 1]
<1> DEFINE n == Len(cfg)
           f == MeantChannels(cfg)
           Fix(h) == h = [k \in 0..(n - 1) |-> MeantOutput(cfg, h, k)]
           numbers == [k \in 1..(n - 1) |-> Weights(cfg[k + 1], f[k - 1])]
           sum == SumAfter(numbers)
<1>0. n \in Nat \ {0} /\ n - 1 \in Nat
  OBVIOUS
<1>1. g \in [0..(n - 1) -> Int] /\ \A k \in 0..(n - 1) : g[k] = MeantOutput(cfg, g, k)
  BY DEF Meant
<1>2. Fix(g)
  <2>1. g = [k \in 0..(n - 1) |-> g[k]]
    BY <1>1
  <2> HIDE DEF n
  <2> QED
    BY <1>1, <2>1, Zenon
<1>3. Fix(f)
  <2>1. f = CHOOSE h : Fix(h)
    BY DEF MeantChannels
  <2> HIDE DEF Fix, f
  <2> QED
    BY <1>2, <2>1
<1>4. \A k \in 0..(n - 1) : f[k] = MeantOutput(cfg, f, k)
  BY <1>3
<1> HIDE DEF n, f
<1>5. \A k \in 0..(n - 1) : f[k] = g[k]
  <2> DEFINE S == {k \in Nat : k <= n - 1 => \A j \in 0..k : f[j] = g[j]}
  <2>1. ASSUME NEW k \in Nat, k <= n - 1, \A j \in 0..(k - 1) : f[j] = g[j]
        PROVE  f[k] = g[k]
    <3>1. k > 0 => RefersBack(cfg, k)
      BY <1>0, <2>1 DEF Meant, n
    <3>2. MeantOutput(cfg, f, k) = MeantOutput(cfg, g, k)
      BY <2>1, <3>1, OutputIsLocal
    <3>3. k \in 0..(n - 1)
      BY <1>0, <2>1
    <3> QED
      BY <1>1, <1>4, <3>2, <3>3
  <2>2. 0 \in S
    <3>1. \A j \in 0..(0 - 1) : f[j] = g[j]
      OBVIOUS
    <3>2. f[0] = g[0]
      BY <1>0, <2>1, <3>1
    <3> QED
      BY <3>2
  <2>3. ASSUME NEW k \in Nat, k \in S
        PROVE  k + 1 \in S
    <3> SUFFICES ASSUME k + 1 <= n - 1
                 PROVE  \A j \in 0..(k + 1) : f[j] = g[j]
      OBVIOUS
    <3>1. \A j \in 0..k : f[j] = g[j]
      BY <1>0, <2>3
    <3>2. f[k + 1] = g[k + 1]
      BY <2>1, <3>1
    <3> QED
      BY <3>1, <3>2
  <2>4. \A k \in Nat : k \in S
    <3> HIDE DEF S
    <3> QED
      BY <2>2, <2>3, SetInduction
  <2> QED
    BY <1>0, <2>4
<1>6. \A k \in 1..(n - 1) : /\ numbers[k] = Weights(cfg[k + 1], g[k - 1]) /\ numbers[k] \in Int
                           /\ s[k] = s[k - 1] + numbers[k]
  <2> SUFFICES ASSUME NEW k \in 1..(n - 1)
               PROVE  /\ numbers[k] = Weights(cfg[k + 1], g[k - 1]) /\ numbers[k] \in Int
                      /\ s[k] = s[k - 1] + numbers[k]
    OBVIOUS
  <2>1. k - 1 \in 0..(n - 1)
    BY <1>0
  <2>2. f[k - 1] = g[k - 1]
    BY <1>5, <2>1
  <2>3. /\ Weights(cfg[k + 1], g[k - 1]) \in Int
        /\ s[k] = s[k - 1] + Weights(cfg[k + 1], g[k - 1])
    BY DEF Meant, n
  <2> QED
    BY <2>2, <2>3
<1>7. MeantWeights(cfg) = Total(numbers)
  BY DEF MeantWeights, n, f
<1> DEFINE end == n - 1
<1>8. numbers \in Seq(Int) /\ Len(numbers) = end
  <2>1. numbers \in [1..end -> Int] /\ end \in Nat
    BY <1>0, <1>6
  <2> HIDE DEF numbers, end
  <2> QED
    BY <2>1, FunctionIsList
<1> HIDE DEF numbers
<1>9. sum[0] = 0 /\ \A k \in 0..(end - 1) : sum[k + 1] = sum[k] + numbers[k + 1]
  <2>1. IsSum(sum, numbers)
    BY <1>8, SumUnfolds
  <2> QED
    BY <1>8, <2>1 DEF IsSum
<1>10. end \in Nat /\ \A k \in 0..(end - 1) : s[k + 1] = s[k] + numbers[k + 1]
  <2>1. \A k \in 0..(end - 1) : k + 1 \in 1..(n - 1) /\ (k + 1) - 1 = k
    BY <1>0
  <2> QED
    BY <1>0, <1>6, <2>1
<1> HIDE DEF sum, end
<1>11. sum[end] = s[end]
  <2> DEFINE S == {k \in Nat : sum[k] = s[k]}
  <2>1. 0 \in S
    BY <1>9 DEF Meant
  <2>2. \A k \in 0..(end - 1) : k \in S => k + 1 \in S
    BY <1>9, <1>10
  <2>3. \A k \in 0..end : k \in S
    <3> HIDE DEF S
    <3> QED
      BY <1>10, <2>1, <2>2, BoundedInduction
  <2> QED
    BY <1>10, <2>3
<1>12. Total(numbers) = sum[end]
  BY <1>8 DEF Total, sum
<1> QED
  BY <1>7, <1>11, <1>12 DEF end, n

Undropped(cfg, i) == \A j \in 1..i : cfg[j].type # "dropout"

\* Where the tensors come from: without a dropout so far, tensor q is layer q.
Layered(cfg, net) ==
    LET i == net.block  count == Len(net.tensors)
    IN  /\ net.layers \in Seq(Int) /\ Len(net.layers) = count
        /\ i = 0 => net.tensors = <<>>
        /\ i > 0 => count <= i - 1
        /\ i > 0 => (count = i - 1 <=> Undropped(cfg, i))
        /\ \A q \in 1..count : net.layers[q] \in 0..(i - 2)
        /\ Undropped(cfg, i) => \A q \in 1..count : net.layers[q] = q - 1

\* The references of the block to add get the layers that are meant.
RefersToMeant(cfg, net) ==
    LET i == net.block  b == cfg[i + 1]  count == Len(net.tensors)
    IN  /\ i > 0 /\ 1 \in DOMAIN Written(b)
        /\ DOMAIN Refs(b, i, count) = DOMAIN Written(b)
        /\ \A r \in DOMAIN Written(b) :
             /\ Refs(b, i, count)[r] \in 0..(count - 1)
             /\ net.layers[Refs(b, i, count)[r] + 1] = MeantLayer(i, Written(b)[r])
             /\ MeantLayer(i, Written(b)[r]) + 1 \in 0..(i - 1)

\* The assertions on a block that refers to others hold.
Refers(cfg, net) ==
    LET i == net.block  b == cfg[i + 1]  count == Len(net.tensors)
    IN  /\ IsFile(cfg) /\ ~RouteAfterDropout(cfg) /\ Layered(cfg, net)
        /\ i \in Nat /\ i < Len(cfg) /\ Supported(b) /\ IsBlock(b) /\ count \in Nat
        /\ b.type \in FromLayer \union {"route"} /\ RefsInRange(b, i, count)

\* Hence each reference gets the layer that is meant: those of a route when
\* there is no dropout before it, and the others always, since their assertions
\* fail otherwise (yolo.cpp:331-398, route_layer.cpp:30-45).
LEMMA ReferencesAreMeant ==
    ASSUME NEW cfg, NEW net, Refers(cfg, net)
    PROVE  RefersToMeant(cfg, net)
<1> SUFFICES ASSUME NEW i, i = net.block, NEW b, b = cfg[i + 1],
                    NEW count, count = Len(net.tensors),
                    IsFile(cfg), ~RouteAfterDropout(cfg), Layered(cfg, net),
                    i \in Nat, i < Len(cfg), Supported(b), IsBlock(b), count \in Nat,
                    b.type \in FromLayer \union {"route"}, RefsInRange(b, i, count)
             PROVE  /\ i > 0 /\ 1 \in DOMAIN Written(b)
                    /\ DOMAIN Refs(b, i, count) = DOMAIN Written(b)
                    /\ \A r \in DOMAIN Written(b) :
                         /\ Refs(b, i, count)[r] \in 0..(count - 1)
                         /\ net.layers[Refs(b, i, count)[r] + 1] = MeantLayer(i, Written(b)[r])
                         /\ MeantLayer(i, Written(b)[r]) + 1 \in 0..(i - 1)
  BY Zenon DEF Refers, RefersToMeant
<1> DEFINE refs == Refs(b, i, count)
<1>1. Required(b) \subseteq DOMAIN b
  BY DEF Supported
<1>2. i > 0
  <2>1. i + 1 \in 1..Len(cfg) /\ b.type # "net"
    BY DEF IsFile, FromLayer, Channels
  <2> QED
    BY <2>1 DEF IsFile
<1>3. /\ net.layers \in Seq(Int) /\ Len(net.layers) = count /\ count <= i - 1
      /\ (count = i - 1 <=> Undropped(cfg, i))
      /\ (Undropped(cfg, i) => \A q \in 1..count : net.layers[q] = q - 1)
  BY <1>2 DEF Layered
<1>4. ASSUME count = i - 1, NEW q \in 0..(count - 1)
      PROVE  net.layers[q + 1] = q
  <2>1. q + 1 \in 1..count /\ (q + 1) - 1 = q
    OBVIOUS
  <2> QED
    BY <1>3, <1>4, <2>1
<1>5. CASE b.type \in FromLayer
  <2>1. b.from \in Int /\ Written(b) = <<b.from>> /\ refs = <<FromIndex(b, i)>>
    <3>1. "from" \in DOMAIN b
      BY <1>1, <1>5 DEF Required, Convolution, Implicit, FromLayer, Channels, MaxPool
    <3>2. b.from \in Int
      BY <3>1 DEF IsBlock
    <3> QED
      BY <1>5, <3>2 DEF Written, Refs, FromLayer, Channels
  <2>2. i - 2 < count /\ FromIndex(b, i) \in 0..(count - 1) /\ FromIndex(b, i) < i - 2
    <3>1. b.type # "route"
      BY <1>5 DEF FromLayer, Channels
    <3>2. /\ i >= 2 /\ i - 2 < count
          /\ FromIndex(b, i) \in 0..(count - 1) /\ FromIndex(b, i) < i - 2
      BY <1>5, <3>1, Zenon DEF RefsInRange
    <3> QED
      BY <3>2
  <2>3. count = i - 1
    <3>1. count <= i - 1 /\ i - 2 < count
      BY <1>3, <2>2, Zenon
    <3> HIDE DEF refs
    <3>2. \A m, n \in Nat : m <= n - 1 /\ n - 2 < m => m = n - 1
      OBVIOUS
    <3> QED
      BY <3>1, <3>2, Zenon
  <2>4. FromIndex(b, i) = MeantLayer(i, b.from)
    <3>1. b.from \in Int
      BY <2>1
    <3> QED
      BY <2>2, <3>1 DEF FromIndex, MeantLayer
  <2>5. DOMAIN Written(b) = {1} /\ Written(b)[1] = b.from /\ DOMAIN refs = {1}
        /\ refs[1] = FromIndex(b, i)
    BY <2>1
  <2>6. net.layers[FromIndex(b, i) + 1] = FromIndex(b, i)
    BY <1>4, <2>2, <2>3
  <2>7. FromIndex(b, i) + 1 \in 0..(i - 1)
    BY <2>2
  <2> HIDE DEF refs
  <2> QED
    BY <1>2, <2>2, <2>4, <2>5, <2>6, <2>7 DEF refs
<1>6. CASE b.type = "route"
  <2>1. b.layers \in Seq(Int) /\ Written(b) = b.layers
    <3>1. "layers" \in DOMAIN b
      BY <1>1, <1>6 DEF Required, Convolution, Implicit, FromLayer, Channels, MaxPool
    <3>2. b.layers \in Seq(Int)
      BY <3>1 DEF IsBlock
    <3> QED
      BY <1>6, <3>2 DEF Written, FromLayer, Channels
  <2>2. b.layers # <<>> /\ \A r \in DOMAIN b.layers : refs[r] \in 0..(count - 1)
    BY <1>6 DEF RefsInRange, FromLayer, Channels
  <2>3. refs = [r \in DOMAIN b.layers |->
                  IF b.layers[r] < 0 THEN count + b.layers[r] ELSE b.layers[r]]
    BY <1>6 DEF Refs, FromLayer, Channels
  <2> HIDE DEF refs
  <2>4. count = i - 1
    <3>1. ASSUME NEW j \in 1..i
          PROVE  cfg[j].type # "dropout"
      <4>1. j \in DOMAIN cfg /\ i + 1 \in DOMAIN cfg /\ j < i + 1
        BY DEF IsFile
      <4> QED
        BY <1>6, <4>1 DEF RouteAfterDropout
    <3> QED
      BY <1>3, <3>1 DEF Undropped
  <2>5. ASSUME NEW r \in DOMAIN b.layers
        PROVE  /\ refs[r] \in 0..(count - 1)
               /\ net.layers[refs[r] + 1] = MeantLayer(i, b.layers[r])
               /\ MeantLayer(i, b.layers[r]) + 1 \in 0..(i - 1)
    <3>1. b.layers[r] \in Int
      BY <2>1
    <3>2. refs[r] = MeantLayer(i, b.layers[r])
      <4> DEFINE x == b.layers[r]
      <4>1. refs[r] = IF x < 0 THEN count + x ELSE x
        BY <2>3
      <4>2. x \in Int
        BY <3>1
      <4> HIDE DEF x
      <4>3. refs[r] = MeantLayer(i, x)
        BY <2>4, <4>1, <4>2 DEF MeantLayer
      <4> QED
        BY <4>3 DEF x
    <3>3. refs[r] \in 0..(count - 1)
      BY <2>2
    <3>4. net.layers[refs[r] + 1] = refs[r] /\ refs[r] + 1 \in 0..(i - 1)
      BY <1>4, <2>4, <3>3
    <3> QED
      BY <3>2, <3>3, <3>4
  <2>6. 1 \in DOMAIN b.layers /\ DOMAIN refs = DOMAIN b.layers
    BY <2>1, <2>2, <2>3
  <2> QED
    BY <1>2, <2>1, <2>5, <2>6 DEF refs
<1> QED
  BY <1>5, <1>6

\* The network has the channels and has read the weights that are meant.
Carries(cfg, net, g, s) ==
    /\ Meant(cfg, net.block, g, s)
    /\ \A q \in 1..Len(net.tensors) : net.tensors[q][2] = g[net.layers[q] + 1]
    /\ Previous(cfg, net)[2] = g[net.block - 1]
    /\ net.weightPtr = s[net.block - 1]

\* A network after some blocks of a file without a route after a dropout.
NetworkMeans(cfg, net) ==
    /\ Layered(cfg, net)
    /\ \A u \in net.uses : u[3] = MeantLayer(u[1], u[2])
    /\ net.block = 0 => net.weightPtr = 0
    /\ net.block > 0 => \E g, s : Carries(cfg, net, g, s)

LEMMA NoNetworkMeans ==
    ASSUME NEW cfg
    PROVE  NetworkMeans(cfg, EmptyNetwork(cfg))
BY DEF NetworkMeans, Layered, EmptyNetwork

\* The first block is [net]: the channels of the image.
LEMMA NetBlockMeans ==
    ASSUME NEW cfg, IsFile(cfg), NEW net, NetworkFits(cfg, net), NetworkMeans(cfg, net),
           net.block = 0, NEW w \in WithBlock(cfg, net)
    PROVE  NetworkMeans(cfg, w)
<1> DEFINE c == cfg[1].channels
           g == [k \in 0..0 |-> c]
           s == [k \in 0..0 |-> 0]
<1>1. cfg[1].type = "net" /\ cfg[1].type \in NoTensor /\ c \in Nat
  BY DEF IsFile, NetworkFits, ConfigIsComplete, IsBlock, NoTensor
<1>2. /\ net.tensors = <<>> /\ net.layers \in Seq(Int) /\ Len(net.layers) = Len(net.tensors)
      /\ net.weightPtr = 0 /\ \A u \in net.uses : u[3] = MeantLayer(u[1], u[2])
  BY DEF NetworkMeans, Layered
<1>3. /\ w.block = 1 /\ w.tensors = net.tensors /\ w.layers = net.layers /\ w.uses = net.uses
      /\ w.weightPtr = net.weightPtr
  <2>1. w = [net EXCEPT !.block = 1]
    BY <1>1 DEF WithBlock
  <2> QED
    BY <2>1 DEF NetworkFits, NetworkField
<1>4. Layered(cfg, w)
  <2>1. Undropped(cfg, 1)
    BY <1>1 DEF Undropped
  <2>2. Len(w.tensors) = 0
    BY <1>2, <1>3
  <2> QED
    BY <1>2, <1>3, <2>1, <2>2 DEF Layered
<1>5. Meant(cfg, 1, g, s)
  <2>1. g[0] = MeantOutput(cfg, g, 0)
    BY DEF MeantOutput
  <2>2. g \in [0..0 -> Int] /\ s \in [0..0 -> Int] /\ s[0] = 0
    BY <1>1
  <2> HIDE DEF g, s
  <2>3. 1 - 1 = 0 /\ \A k \in 0..0 : k = 0
    OBVIOUS
  <2>4. \A k \in 1..0 : FALSE
    OBVIOUS
  <2> QED
    BY <2>1, <2>2, <2>3, <2>4 DEF Meant
<1>6. Carries(cfg, w, g, s)
  <2>1. Previous(cfg, w)[2] = c
    BY <1>2, <1>3 DEF Previous, InputDims
  <2>2. Len(w.tensors) = 0 /\ g[0] = c /\ s[0] = 0
    BY <1>2, <1>3
  <2> HIDE DEF g, s, c
  <2> QED
    BY <1>2, <1>3, <1>5, <2>1, <2>2 DEF Carries
<1> QED
  BY <1>2, <1>3, <1>4, <1>6 DEF NetworkMeans

\* A dropout hands its input on.
LEMMA DropoutMeans ==
    ASSUME NEW cfg, IsFile(cfg), NEW net, NetworkFits(cfg, net), NetworkMeans(cfg, net),
           NEW i \in Nat \ {0}, i = net.block, i < Len(cfg),
           NEW b, b = cfg[i + 1], b.type \in NoTensor, NEW w \in WithBlock(cfg, net)
    PROVE  NetworkMeans(cfg, w)
<1>1. b.type = "dropout"
  <2>1. i + 1 \in 1..Len(cfg) /\ i + 1 # 1
    BY DEF IsFile
  <2> QED
    BY <2>1 DEF IsFile, NoTensor
<1>2. /\ w.block = i + 1 /\ w.tensors = net.tensors /\ w.layers = net.layers
      /\ w.uses = net.uses /\ w.weightPtr = net.weightPtr
  <2>1. w = [net EXCEPT !.block = i + 1]
    BY DEF WithBlock
  <2> QED
    BY <2>1 DEF NetworkFits, NetworkField
<1>3. Layered(cfg, w)
  <2> DEFINE count == Len(net.tensors)
  <2>1. /\ net.layers \in Seq(Int) /\ Len(net.layers) = count /\ count <= i - 1
        /\ \A q \in 1..count : net.layers[q] \in 0..(i - 2)
    BY DEF NetworkMeans, Layered
  <2>2. ~Undropped(cfg, i + 1)
    BY <1>1 DEF Undropped
  <2>3. count \in Nat
    BY <2>1
  <2>4. (i + 1) - 1 = i /\ (i + 1) - 2 = i - 1
    OBVIOUS
  <2> HIDE DEF count
  <2>5. count <= i /\ count # i /\ \A q \in 1..count : net.layers[q] \in 0..(i - 1)
    BY <2>1, <2>3
  <2> QED
    BY <1>2, <2>1, <2>2, <2>4, <2>5 DEF Layered, count
<1>4. PICK g, s : Carries(cfg, net, g, s)
  BY DEF NetworkMeans
<1> DEFINE c == g[i - 1]
           h == Longer(g, i, c)
           v == s[i - 1]
           t == Longer(s, i, v)
<1>5. /\ Meant(cfg, i, g, s) /\ c \in Int /\ v \in Int /\ i - 1 \in 0..(i - 1)
      /\ g \in [0..(i - 1) -> Int] /\ s \in [0..(i - 1) -> Int]
  <2>1. i - 1 \in 0..(i - 1)
    OBVIOUS
  <2> QED
    BY <1>4, <2>1 DEF Carries, Meant
<1> HIDE DEF c, v
<1>6. Prolongs(h, g, i, c) /\ Prolongs(t, s, i, v)
  BY <1>5, LongerProlongs, Zenon
<1>7. c = MeantOutput(cfg, h, i)
  <2>1. h[i - 1] = c
    BY <1>5, <1>6 DEF Prolongs, c
  <2> HIDE DEF h
  <2> QED
    BY <1>1, <2>1 DEF MeantOutput, Implicit, Channels
<1>8. RefersBack(cfg, i)
  BY <1>1 DEF RefersBack, Written, FromLayer, Channels
<1>9. Weights(b, g[i - 1]) = 0
  BY <1>1 DEF Weights, Convolution, Implicit
<1>10. Meant(cfg, i + 1, h, t)
  <2>1. v = s[i - 1] + Weights(cfg[i + 1], g[i - 1]) /\ Weights(cfg[i + 1], g[i - 1]) \in Int
    BY <1>5, <1>9 DEF v
  <2> QED
    BY <1>5, <1>7, <1>8, <2>1, OneMoreMeant
<1> HIDE DEF h, t
<1>11. Carries(cfg, w, h, t)
  <2>1. ASSUME NEW q \in 1..Len(w.tensors)
        PROVE  w.tensors[q][2] = h[w.layers[q] + 1]
    <3>1. net.tensors[q][2] = g[net.layers[q] + 1]
      BY <1>2, <1>4 DEF Carries
    <3>2. net.layers[q] + 1 \in 0..(i - 1)
      <4>1. net.layers[q] \in 0..(i - 2)
        BY <1>2 DEF NetworkMeans, Layered
      <4> QED
        BY <4>1
    <3> QED
      BY <1>2, <1>6, <3>1, <3>2 DEF Prolongs
  <2>2. Previous(cfg, w) = Previous(cfg, net)
    BY <1>2 DEF Previous
  <2>3. Previous(cfg, net)[2] = c /\ net.weightPtr = v
    BY <1>4 DEF Carries, c, v
  <2>4. h[i] = c /\ t[i] = v /\ (i + 1) - 1 = i
    BY <1>6 DEF Prolongs
  <2> QED
    BY <1>2, <1>10, <2>1, <2>2, <2>3, <2>4 DEF Carries
<1> QED
  BY <1>2, <1>3, <1>11 DEF NetworkMeans

\* What a block refers to, and the layer whose output it got.
Referred(b, net, r) ==
    <<net.block, Written(b)[r], net.layers[Refs(b, net.block, Len(net.tensors))[r] + 1]>>

\* w is the network with one more layer, its references and its weights.
LayerAdded(cfg, net, d, w) ==
    LET b == cfg[net.block + 1]
    IN  /\ w.block = net.block + 1
        /\ w.tensors = Append(net.tensors, d)
        /\ w.layers = Append(net.layers, net.block - 1)
        /\ w.uses = net.uses \union
             {Referred(b, net, r) : r \in DOMAIN Refs(b, net.block, Len(net.tensors))}
        /\ w.weightPtr = net.weightPtr + Weights(b, Previous(cfg, net)[2])

LEMMA LayerIsAdded ==
    ASSUME NEW cfg, NEW net, DOMAIN net = NetworkField, NEW d
    PROVE  LayerAdded(cfg, net, d, WithTensor(cfg, net, d))
BY ZenonT(60) DEF LayerAdded, Referred, WithTensor, NetworkField

\* A layer whose block has references to what is meant has the channels and
\* reads the weights that are meant (yolo.cpp:290-446).
LEMMA TensorMeans ==
    ASSUME NEW cfg, IsFile(cfg), ~RouteAfterDropout(cfg),
           NEW net, NetworkFits(cfg, net), NetworkMeans(cfg, net),
           NEW i \in Nat \ {0}, i = net.block, i < Len(cfg),
           NEW b, b = cfg[i + 1], b.type \notin NoTensor, NEW w \in WithBlock(cfg, net)
    PROVE  NetworkMeans(cfg, w)
<1> DEFINE count == Len(net.tensors)
           refs == Refs(b, i, count)
           ds == [r \in DOMAIN refs |-> net.tensors[refs[r] + 1]]
           input == Previous(cfg, net)
<1>1. /\ Supported(b) /\ RefsInRange(b, i, count) /\ IsBlock(b)
      /\ \E d \in LayerDims(b, input, ds) : w = WithTensor(cfg, net, d)
  <2>1. i + 1 \in 1..Len(cfg)
    BY DEF IsFile
  <2> QED
    BY <2>1 DEF WithBlock, ReferredTensors, IsFile
<1>2. PICK d \in LayerDims(b, input, ds) : w = WithTensor(cfg, net, d)
  BY <1>1
<1>3. net.tensors \in Seq(Tensor) /\ DOMAIN net = NetworkField /\ input \in Shape
  BY PreviousIsShape DEF NetworkFits
<1>4. count \in Nat
  <2> HIDE DEF Tensor
  <2> QED
    BY <1>3
<1>5. b.type \in FromLayer \union {"route"} => ds \in Seq(Tensor) /\ ds # <<>>
  <2> SUFFICES ASSUME b.type \in FromLayer \union {"route"}
               PROVE  ds \in Seq(Tensor) /\ ds # <<>>
    BY Zenon
  <2>1. Supported(b) /\ RefsInRange(b, i, count) /\ IsBlock(b)
    BY <1>1, Zenon
  <2> QED
    BY <2>1, <1>3, ReferencesAreTensors, SMTT(60)
<1>6. d \in Tensor
  <2> HIDE DEF ds, input
  <2> QED
    BY <1>1, <1>2, <1>3, <1>5, LayerIsTensor
<1>7. LayerAdded(cfg, net, d, w)
  BY <1>2, <1>3, LayerIsAdded, Zenon
<1>8. b.type \in FromLayer \union {"route"} =>
        /\ 1 \in DOMAIN Written(b) /\ DOMAIN refs = DOMAIN Written(b)
        /\ \A r \in DOMAIN Written(b) :
             /\ refs[r] \in 0..(count - 1)
             /\ net.layers[refs[r] + 1] = MeantLayer(i, Written(b)[r])
             /\ MeantLayer(i, Written(b)[r]) + 1 \in 0..(i - 1)
  <2> SUFFICES ASSUME b.type \in FromLayer \union {"route"}
               PROVE  /\ 1 \in DOMAIN Written(b) /\ DOMAIN refs = DOMAIN Written(b)
                      /\ \A r \in DOMAIN Written(b) :
                           /\ refs[r] \in 0..(count - 1)
                           /\ net.layers[refs[r] + 1] = MeantLayer(i, Written(b)[r])
                           /\ MeantLayer(i, Written(b)[r]) + 1 \in 0..(i - 1)
    BY Zenon
  <2>1. Layered(cfg, net) /\ i \in Nat
    BY DEF NetworkMeans
  <2>2. Refers(cfg, net)
    BY <1>1, <1>4, <2>1, Zenon DEF Refers
  <2>3. RefersToMeant(cfg, net)
    BY <2>2, ReferencesAreMeant, Zenon
  <2> QED
    BY <2>3, Zenon DEF RefersToMeant
<1>9. b.type \notin FromLayer \union {"route"} => DOMAIN refs = {} /\ DOMAIN Written(b) = {}
  <2> SUFFICES ASSUME b.type \notin FromLayer, b.type # "route"
               PROVE  DOMAIN refs = {} /\ DOMAIN Written(b) = {}
    OBVIOUS
  <2>1. refs = <<>>
    BY Zenon DEF Refs
  <2>2. Written(b) = <<>>
    BY Zenon DEF Written
  <2> HIDE DEF refs
  <2> QED
    BY <2>1, <2>2
<1>10. PICK g, s : Carries(cfg, net, g, s)
  BY DEF NetworkMeans
<1> HIDE DEF count, refs, input
<1>11. RefersBack(cfg, i)
  BY <1>8, <1>9 DEF RefersBack
<1> DEFINE c == d[2]
           v == s[i - 1] + Weights(b, input[2])
           h == Longer(g, i, c)
           t == Longer(s, i, v)
<1>12. /\ Meant(cfg, i, g, s) /\ i - 1 \in 0..(i - 1)
       /\ g \in [0..(i - 1) -> Int] /\ s \in [0..(i - 1) -> Int]
       /\ input[2] = g[i - 1] /\ net.weightPtr = s[i - 1]
       /\ \A q \in 1..count : net.tensors[q][2] = g[net.layers[q] + 1]
  <2>1. i - 1 \in 0..(i - 1)
    OBVIOUS
  <2> QED
    BY <1>10, <2>1 DEF Carries, Meant, input, count
<1>13. c \in Int /\ d \in Shape
  BY <1>6 DEF Tensor, Shape
<1>14. Weights(b, g[i - 1]) \in Int /\ v \in Int /\ v = s[i - 1] + Weights(b, g[i - 1])
  <2>1. g[i - 1] \in Int /\ s[i - 1] \in Int
    BY <1>12
  <2>2. Weights(b, g[i - 1]) \in Int
    BY <1>1, <2>1, WeightsAreCounted
  <2> QED
    BY <1>12, <2>1, <2>2
<1> HIDE DEF c, v
<1>15. Prolongs(h, g, i, c) /\ Prolongs(t, s, i, v)
  BY <1>12, <1>13, <1>14, LongerProlongs, Zenon
<1>16. c = MeantOutput(cfg, h, i)
  <2>1. h[i - 1] = input[2]
    BY <1>12, <1>15 DEF Prolongs
  <2>2. RefersTo(cfg, h, i, ds)
    <3> SUFFICES ASSUME b.type \in FromLayer \union {"route"}
                 PROVE  /\ ds \in Seq(Tensor) /\ ds # <<>> /\ DOMAIN ds = DOMAIN Written(b)
                        /\ \A r \in DOMAIN ds : h[MeantLayer(i, Written(b)[r]) + 1] = ds[r][2]
      BY Zenon DEF RefersTo
    <3>1. DOMAIN ds = DOMAIN Written(b)
      BY <1>8
    <3>2. ASSUME NEW r \in DOMAIN Written(b)
          PROVE  h[MeantLayer(i, Written(b)[r]) + 1] = ds[r][2]
      <4>1. /\ r \in DOMAIN refs /\ refs[r] \in 0..(count - 1)
            /\ net.layers[refs[r] + 1] = MeantLayer(i, Written(b)[r])
            /\ MeantLayer(i, Written(b)[r]) + 1 \in 0..(i - 1)
        BY <1>8
      <4>2. refs[r] + 1 \in 1..count
        BY <1>4, <4>1
      <4>3. ds[r] = net.tensors[refs[r] + 1]
        BY <4>1
      <4> HIDE DEF h, ds
      <4>4. h[MeantLayer(i, Written(b)[r]) + 1] = g[MeantLayer(i, Written(b)[r]) + 1]
        BY <1>15, <4>1, Zenon DEF Prolongs
      <4> QED
        BY <1>12, <4>1, <4>2, <4>3, <4>4, Zenon
    <3> HIDE DEF ds, h, Tensor
    <3> QED
      BY <1>5, <3>1, <3>2, Zenon
  <2>3. input \in Shape
    BY <1>3
  <2> HIDE DEF h, ds
  <2> QED
    <3>1. MakesFrom(cfg, h, i, input, ds, d)
      <4>1. Supported(b) /\ IsBlock(b) /\ d \in LayerDims(b, input, ds)
        BY <1>1, Zenon
      <4> QED
        BY <2>1, <2>2, <2>3, <4>1, SMTT(30) DEF MakesFrom
    <3>2. d[2] = MeantOutput(cfg, h, i)
      BY <3>1, LayerIsMeant
    <3> QED
      BY <3>2 DEF c
<1>17. Meant(cfg, i + 1, h, t)
  <2> HIDE DEF h, t
  <2> QED
    BY <1>11, <1>12, <1>13, <1>14, <1>16, OneMoreMeant, Zenon DEF h, t
<1> HIDE DEF h, t, ds
<1>18. /\ net.layers \in Seq(Int) /\ Len(net.layers) = count /\ count <= i - 1
       /\ (count = i - 1 <=> Undropped(cfg, i))
       /\ (\A q \in 1..count : net.layers[q] \in 0..(i - 2))
       /\ (Undropped(cfg, i) => \A q \in 1..count : net.layers[q] = q - 1)
  BY DEF NetworkMeans, Layered, count
<1>19. /\ w.block = i + 1 /\ Len(w.tensors) = count + 1 /\ w.tensors[count + 1] = d
       /\ (\A q \in 1..count : w.tensors[q] = net.tensors[q])
       /\ w.tensors # <<>> /\ Last(w.tensors) = d
  <2>1. w.block = i + 1 /\ w.tensors = Append(net.tensors, d)
    BY <1>7, Zenon DEF LayerAdded
  <2> HIDE DEF Tensor
  <2> QED
    BY <1>3, <1>6, <2>1 DEF Last, count
<1>20. /\ w.layers \in Seq(Int) /\ Len(w.layers) = count + 1 /\ w.layers[count + 1] = i - 1
       /\ \A q \in 1..count : w.layers[q] = net.layers[q]
  <2>1. w.layers = Append(net.layers, i - 1)
    BY <1>7, Zenon DEF LayerAdded
  <2> QED
    BY <1>4, <1>18, <2>1
<1>21. Layered(cfg, w)
  <2>1. Undropped(cfg, i + 1) <=> Undropped(cfg, i)
    <3>1. b.type # "dropout" /\ 1..(i + 1) = 1..i \union {i + 1}
      BY DEF NoTensor
    <3> QED
      BY <3>1 DEF Undropped
  <2>2. ASSUME NEW q \in 1..(count + 1)
        PROVE  w.layers[q] \in 0..(i - 1) /\ (Undropped(cfg, i + 1) => w.layers[q] = q - 1)
    <3>1. CASE q = count + 1
      <4>1. w.layers[q] = i - 1 /\ (Undropped(cfg, i + 1) => count = i - 1)
        BY <1>18, <1>20, <2>1, <3>1, Zenon
      <4> QED
        BY <1>4, <3>1, <4>1
    <3>2. CASE q # count + 1
      <4>1. q \in 1..count
        BY <1>4, <3>2
      <4>2. /\ w.layers[q] \in 0..(i - 2)
            /\ Undropped(cfg, i + 1) => w.layers[q] = q - 1
        BY <1>18, <1>20, <2>1, <4>1, Zenon
      <4> QED
        BY <4>2
    <3> QED
      BY <3>1, <3>2
  <2>4. count + 1 <= i /\ (count + 1 = i <=> Undropped(cfg, i + 1))
    <3>1. count <= i - 1 /\ (count = i - 1 <=> Undropped(cfg, i + 1))
      BY <1>18, <2>1, Zenon
    <3>2. count <= i - 1 => count + 1 <= i
      BY <1>4
    <3>3. count = i - 1 <=> count + 1 = i
      BY <1>4
    <3> QED
      BY <3>1, <3>2, <3>3, Zenon
  <2>5. (i + 1) - 1 = i /\ (i + 1) - 2 = i - 1 /\ i + 1 > 0 /\ i + 1 # 0
    OBVIOUS
  <2> QED
    BY <1>19, <1>20, <2>2, <2>4, <2>5 DEF Layered
<1>22. \A u \in w.uses : u[3] = MeantLayer(u[1], u[2])
  <2>1. ASSUME NEW r \in DOMAIN refs
        PROVE  Referred(b, net, r)[3] = MeantLayer(Referred(b, net, r)[1], Referred(b, net, r)[2])
    <3>1. net.layers[refs[r] + 1] = MeantLayer(i, Written(b)[r])
      BY <1>8, <1>9
    <3> QED
      BY <3>1 DEF Referred, refs, count
  <2>2. w.uses = net.uses \union {Referred(b, net, r) : r \in DOMAIN refs}
    BY <1>7, Zenon DEF LayerAdded, refs, count
  <2>3. \A u \in net.uses : u[3] = MeantLayer(u[1], u[2])
    BY DEF NetworkMeans
  <2> QED
    BY <2>1, <2>2, <2>3
<1>23. Carries(cfg, w, h, t)
  <2>1. ASSUME NEW q \in 1..(count + 1)
        PROVE  w.tensors[q][2] = h[w.layers[q] + 1]
    <3>1. CASE q = count + 1
      <4>1. h[i] = c
        BY <1>15, Zenon DEF Prolongs
      <4>2. (i - 1) + 1 = i
        OBVIOUS
      <4> QED
        BY <1>19, <1>20, <3>1, <4>1, <4>2 DEF c
    <3>2. CASE q # count + 1
      <4>1. q \in 1..count
        BY <1>4, <3>2
      <4>2. net.layers[q] + 1 \in 0..(i - 1)
        <5>1. net.layers[q] \in 0..(i - 2)
          BY <1>18, <4>1, Zenon
        <5> QED
          BY <5>1
      <4>3. h[net.layers[q] + 1] = g[net.layers[q] + 1]
        BY <1>15, <4>2, Zenon DEF Prolongs
      <4> QED
        BY <1>12, <1>19, <1>20, <4>1, <4>3, Zenon
    <3> QED
      BY <3>1, <3>2
  <2>2. Previous(cfg, w)[2] = c
    BY <1>19 DEF Previous, c
  <2>3. w.weightPtr = v
    <3>1. w.weightPtr = net.weightPtr + Weights(b, input[2])
      BY <1>7, Zenon DEF LayerAdded, input
    <3> QED
      BY <1>12, <3>1 DEF v
  <2>4. h[i] = c /\ t[i] = v
    BY <1>15, Zenon DEF Prolongs
  <2>5. (i + 1) - 1 = i
    OBVIOUS
  <2> QED
    BY <1>17, <1>19, <2>1, <2>2, <2>3, <2>4, <2>5 DEF Carries
<1>24. w.block > 0 /\ w.block # 0
  BY <1>19
<1> QED
  BY <1>21, <1>22, <1>23, <1>24, Zenon DEF NetworkMeans

\* One turn of buildYoloNetwork's loop (yolo.cpp:287-454).
LEMMA BlockMeans ==
    ASSUME NEW cfg, IsFile(cfg), ~RouteAfterDropout(cfg),
           NEW net, NetworkFits(cfg, net), NetworkMeans(cfg, net), net.block < Len(cfg),
           NEW w \in WithBlock(cfg, net)
    PROVE  NetworkMeans(cfg, w)
<1>1. net.block \in Nat
  BY DEF NetworkFits
<1>2. CASE net.block = 0
  BY <1>2, NetBlockMeans
<1>3. CASE net.block # 0 /\ cfg[net.block + 1].type \in NoTensor
  BY <1>1, <1>3, DropoutMeans
<1>4. CASE net.block # 0 /\ cfg[net.block + 1].type \notin NoTensor
  BY <1>1, <1>4, TensorMeans
<1> QED
  BY <1>2, <1>3, <1>4

\* The Darknet network from its first block to the optimiser.
EngineMeans ==
    phase \in {"blocks", "configure", "build"} /\ Darknet /\ ~RouteAfterDropout(model.cfg) =>
      /\ NetworkMeans(model.cfg, network)
      /\ phase # "blocks" => Complete(model.cfg, network, model.weights)

LEMMA EngineKeepsMeaning ==
    ASSUME Owned, EngineFits, EngineMeans, EngineStep \/ EngineRefusal
    PROVE  EngineMeans'
<1> USE DEF EngineMeans
<1>1. CASE LoadFile
  BY <1>1 DEF LoadFile, Goto
<1>2. CASE GetEngine
  BY <1>2 DEF GetEngine, Goto
<1>3. CASE KeepFile
  BY <1>3 DEF KeepFile
<1>4. CASE CreateNetwork
  BY <1>4 DEF CreateNetwork, Goto
<1>5. CASE ParseOnnx
  BY <1>5 DEF ParseOnnx, Owned, Goto, Darknet
<1>6. CASE ParseCfg
  <2>1. phase' = "blocks" /\ model' = model /\ network' = EmptyNetwork(model.cfg)
    BY <1>6 DEF ParseCfg, Goto
  <2> QED
    BY <2>1, NoNetworkMeans
<1>7. CASE AddBlock
  <2>1. /\ Darknet /\ network.block < Len(model.cfg) /\ network' \in WithBlock(model.cfg, network)
        /\ NetworkFits(model.cfg, network) /\ IsFile(model.cfg)
        /\ phase = "blocks" /\ phase' = "blocks" /\ model' = model
    BY <1>7, DarknetHasFile DEF AddBlock, Owned, EngineFits, Goto
  <2>2. ~RouteAfterDropout(model.cfg) => NetworkMeans(model.cfg, network')
    BY <2>1, BlockMeans
  <2> QED
    BY <2>1, <2>2
<1>8. CASE AddPlugin
  BY <1>8 DEF AddPlugin, Goto, Darknet
<1>9. CASE Abort
  BY <1>9 DEF Abort, Goto
<1>0. ASSUME ReturnNull PROVE EngineMeans'
  BY <1>0 DEF ReturnNull, Goto
<1>10. CASE Configure
  BY <1>10, <1>0 DEF Configure, Goto, Darknet
<1>11. CASE BuildEngine
  BY <1>11 DEF BuildEngine, Goto
<1>12. CASE Return
  BY <1>12 DEF Return, Goto
<1>13. CASE OnnxRefused
  BY <1>13, <1>0 DEF OnnxRefused
<1>14. CASE PlatformRefused
  BY <1>14 DEF PlatformRefused, Goto
<1>15. CASE BuildRefused
  BY <1>15, <1>0 DEF BuildRefused
<1> QED
  BY <1>1, <1>2, <1>3, <1>4, <1>5, <1>6, <1>7, <1>8, <1>9, <1>10, <1>11,
     <1>12, <1>13, <1>14, <1>15 DEF EngineStep, EngineRefusal

LEMMA EngineMeansAlways == PerceptionSpec => []EngineMeans
<1>1. PerceptionInit => EngineMeans
  BY DEF PerceptionInit, EngineInit, EngineMeans
<1>2. Owned /\ EngineFits /\ EngineMeans /\ [PerceptionNext]_allVars => EngineMeans'
  <2> SUFFICES ASSUME Owned, EngineFits, EngineMeans, [PerceptionNext]_allVars
               PROVE  EngineMeans'
    OBVIOUS
  <2>1. CASE UNCHANGED engineVars
    BY <2>1 DEF engineVars, EngineMeans, Darknet
  <2>2. CASE LoadEngine
    BY <2>2, EngineKeepsMeaning DEF LoadEngine
  <2>3. CASE StartAgain
    BY <2>3 DEF StartAgain, EngineReset, EngineMeans
  <2>4. UNCHANGED engineVars \/ LoadEngine \/ StartAgain
    BY DEF PerceptionNext, Starting, Assemble, PlayLoaded, PlayFails, PlayEnds, PlayWaits, Infer, Stop,
           OthersWait, allVars
  <2> QED
    BY <2>1, <2>2, <2>3, <2>4
<1> QED
  BY <1>1, <1>2, OwnedAlways, PluginIsOfItsFile, PTL DEF PerceptionSpec

\* Without a route after a dropout, every cfg file whose network reaches
\* TensorRT's optimiser has had each of its references resolved to the layer
\* that Darknet means, and every weights file that was accepted for it has
\* exactly the weights of the layers that are meant (yolo.cpp:287-459,
\* route_layer.cpp:30-45).
THEOREM NetworkIsMeantHolds == PerceptionSpec => []NetworkIsMeant
<1>1. EngineFits /\ EngineMeans => NetworkIsMeant
  <2> SUFFICES ASSUME EngineFits, EngineMeans, phase = "build", Darknet,
                      ~RouteAfterDropout(model.cfg)
               PROVE  /\ \A u \in network.uses : u[3] = MeantLayer(u[1], u[2])
                      /\ model.weights = MeantWeights(model.cfg)
    BY DEF NetworkIsMeant
  <2>1. /\ NetworkMeans(model.cfg, network) /\ network.block = Len(model.cfg)
        /\ network.weightPtr = model.weights
    BY DEF EngineMeans, Complete
  <2>2. Len(model.cfg) \in Nat \ {0}
    BY DarknetHasFile DEF EngineFits, IsFile
  <2>3. PICK g, s : Carries(model.cfg, network, g, s)
    BY <2>1, <2>2 DEF NetworkMeans
  <2>4. Meant(model.cfg, Len(model.cfg), g, s) /\ model.weights = s[Len(model.cfg) - 1]
    BY <2>1, <2>3 DEF Carries
  <2>5. model.weights = MeantWeights(model.cfg)
    BY <2>2, <2>4, MeantInAll
  <2> QED
    BY <2>1, <2>5 DEF NetworkMeans
<1> QED
  BY <1>1, EngineMeansAlways, PluginIsOfItsFile, PTL

===============================================================================
