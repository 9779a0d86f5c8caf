------------------------- MODULE PipelineGraph_proofs -------------------------
(***************************************************************************)
(* Theorems about PipelineGraph, for every choice of sinks and any number  *)
(* of refusals.  The invariant says what link_pipeline_elements has linked *)
(* when it gets to each call; which elements buffers then reach is a       *)
(* matter of paths, and of sets that no link leaves.                       *)
(***************************************************************************)
EXTENDS PipelineGraph, Recursion, FiniteSetTheorems

EarlySteps == {"parse", "servers", "object", "elements", "properties", "add"}
BuildSteps ==
    {"properties", "add", "chain", "display", "teeDisplay", "tcp", "teeTcp",
     "udp", "teeUdp", "probe", "play", "waiting", "flowing", "running"}

\* Where the chain is linked, a branch is, and the tee feeds it.
ChainedAt == BuildSteps \ {"properties", "add", "chain"}
LinkedAt(b) ==
    IF b = "display" THEN ChainedAt \ {"display"}
    ELSE IF b = "tcp"
         THEN {"teeTcp", "udp", "teeUdp", "probe", "play", "waiting", "flowing", "running"}
    ELSE {"teeUdp", "probe", "play", "waiting", "flowing", "running"}
TeedAt(b) == LinkedAt(b) \ {TeeStep[b]}

LinksOf(list) == Joined(list, Len(list))
Teed(b) == <<Tee, Branch[b][1]>>
BranchLinks(b) == LinksOf(Branch[b]) \union {Teed(b)}

\* The bin is empty until elements are added; from the test of the elements
\* on, all that was asked for exists.
Built ==
    /\ TypeOK
    /\ step \in EarlySteps => children = {} /\ links = {}
    /\ step \in BuildSteps => made = Wanted

\* What link_pipeline_elements has linked by now, of the chain and of each
\* branch there is.
Linked ==
    /\ step \in ChainedAt => LinksOf(Chain) \subseteq links
    /\ \A b \in Branches : step \in LinkedAt(b) => LinksOf(Branch[b]) \subseteq links
    /\ \A b \in Branches : step \in TeedAt(b) => Teed(b) \in links

\* Nothing else is in the pipeline or linked.
AskedLinks == LinksOf(Chain) \union UNION {BranchLinks(b) : b \in Branches}
AskedElements ==
    Unlinked \union Range(Chain) \union UNION {Range(Branch[b]) : b \in Branches}

Asked ==
    /\ links \subseteq AskedLinks
    /\ children \subseteq AskedElements
    /\ \A b \in DOMAIN Branch : step \in {b, TeeStep[b]} => b \in Branches

\* The probe comes before the start.
Watched == step \in {"play", "waiting", "flowing", "running"} => probed

\* The inductive invariant.
IInv == Built /\ Linked /\ Asked /\ Watched

----------------------------------------------------------------------------
\* A list whose elements all exist reaches GStreamer whole
\* (Pipeline.cpp:824-841).
LEMMA WholeList ==
    ASSUME NEW list, Range(list) \subseteq made
    PROVE  Listed(list) = list
BY DEF Listed, Range

\* What gst_bin_add_many adds comes from the list or was there, and keeps
\* names unique when the list has no name twice.
NamesApart(S) == \A e, f \in S : GstName(e) = GstName(f) => e = f

LEMMA AddedKeepsNames ==
    ASSUME NEW list, NEW bin, Range(list) \subseteq made,
           NamesApart(bin), NamesApart(Range(list))
    PROVE  /\ Added(list, bin) \subseteq bin \union Range(list)
           /\ NamesApart(Added(list, bin))
<1>1. Listed(list) = list
  BY WholeList
<1> QED
  BY <1>1 DEF Added, NamesApart

\* The ranges of the lists, element by element.
LEMMA Lists ==
    /\ Range(Branch["display"]) = {"queue6_", "sink_"}
    /\ Range(Branch["tcp"]) = {"queue8_", "tcp_nvvidconv_postosd_", "tcp_caps_",
                               "tcp_encoder_", "tcp_rtppay_", "tcp_server_sink_"}
    /\ Range(Branch["udp"]) = {"queue7_", "nvvidconv_postosd_", "udp_caps_",
                               "encoder_", "rtppay_", "udp_sink_"}
    /\ Range(Chain) = {"streammux_", "queue0_", "nvvidconv_", "capsfilter0_",
                       "pgie_", "queue1_", "tracker_", "queue2_", "nvanalytics_",
                       "queue3_", "tiler_", "queue4_", "nvosd_", "queue5_",
                       "sinktee_"}
BY DEF Branch, Chain, Range

\* They are sequences.
IsList(list) == Len(list) \in Nat /\ DOMAIN list = 1..Len(list)

LEMMA ListsAreLists ==
    /\ IsList(Chain)
    /\ \A b \in DOMAIN Branch : IsList(Branch[b])
    /\ DOMAIN Branch = {"display", "tcp", "udp"}
<1>1. IsList(Chain)
  BY DEF Chain, IsList
<1>2. DOMAIN Branch = {"display", "tcp", "udp"}
  BY DEF Branch
<1>3. IsList(Branch["display"]) /\ IsList(Branch["tcp"]) /\ IsList(Branch["udp"])
  BY DEF Branch, IsList
<1> QED
  BY <1>1, <1>2, <1>3

\* The elements every pipeline has, and their three lists.
Common == Unlinked \union Range(Chain) \union Range(Branch["display"])

LEMMA CallsAreCommon == \A list \in Calls : Range(list) \subseteq Common
<1>1. \A i : i \in 1..7 <=> i \in {1, 2, 3, 4, 5, 6, 7}
  OBVIOUS
<1> QED
  BY Lists DEF Calls, Common, Unlinked, Range

\* Outside the network branches a name is the element's own, and no list has
\* a name twice.
LEMMA NamesDiffer ==
    /\ NamesApart(Common)
    /\ NamesApart(Range(Branch["tcp"]))
    /\ NamesApart(Range(Branch["udp"]))
<1>1. \A e \in Common : GstName(e) = e
  BY Lists DEF Common, Unlinked, GstName
<1>2. \A e, f \in Range(Branch["tcp"]) : GstName(e) = GstName(f) => e = f
  BY Lists DEF GstName
<1>3. \A e, f \in Range(Branch["udp"]) : GstName(e) = GstName(f) => e = f
  BY Lists DEF GstName
<1> QED
  BY <1>1, <1>2, <1>3 DEF NamesApart

LEMMA CommonIsWanted ==
    /\ Common \subseteq Wanted
    /\ \A b \in DOMAIN Branch : Enabled(b) => Range(Branch[b]) \subseteq Wanted
<1>1. "display" \in Branches
  BY DEF Branches, Enabled, Branch
<1> QED
  BY <1>1 DEF Wanted, Common, Branches

\* link_many links only elements of the pipeline and only along the list, all
\* of it when it goes on.
LEMMA LinkManyEffect ==
    ASSUME NEW list, NEW next, LinkMany(list, next), TypeOK,
           next # "terminated", Range(list) \subseteq made, Len(list) \in Nat
    PROVE  /\ links \subseteq links'
           /\ links' \subseteq children \X children
           /\ links' \subseteq links \union LinksOf(list)
           /\ step' \in {next, "terminated"} /\ faults' \in 0..MaxFaults
           /\ step' = next => LinksOf(list) \subseteq links'
<1>1. Listed(list) = list
  BY WholeList
<1>2. \A n : (\A p \in Joined(list, n) : Linkable(p[1], p[2]))
              => Joined(list, n) \subseteq children \X children
  BY DEF Joined, Linkable
<1>3. \A n \in 1..Len(list) : Joined(list, n) \subseteq LinksOf(list)
  <2> SUFFICES ASSUME NEW n \in 1..Len(list), NEW i \in 1..(n - 1)
               PROVE  i \in 1..(Len(list) - 1)
    BY DEF Joined, LinksOf
  <2> QED
    OBVIOUS
<1>4. Joined(list, 1) = {}
  BY DEF Joined
<1>5. CASE /\ \A p \in LinksOf(list) : Linkable(p[1], p[2])
           /\ links' = links \union LinksOf(list)
           /\ Accepted(next)
  BY <1>2, <1>5 DEF TypeOK, Accepted, LinksOf
<1>6. ASSUME NEW n \in {1} \union 1..(Len(list) - 1),
             \A p \in Joined(list, n) : Linkable(p[1], p[2]),
             links' = links \union Joined(list, n),
             Refused \/ Accepted("terminated")
      PROVE  /\ links \subseteq links'
             /\ links' \subseteq children \X children
             /\ links' \subseteq links \union LinksOf(list)
             /\ step' = "terminated" /\ faults' \in 0..MaxFaults
  <2>1. Joined(list, n) \subseteq LinksOf(list)
    <3>1. n = 1 \/ n \in 1..Len(list)
      BY <1>6
    <3> QED
      BY <1>3, <1>4, <3>1
  <2>2. step' = "terminated" /\ faults' \in 0..MaxFaults
    BY <1>6, FaultsAssumption DEF TypeOK, Accepted, Refused
  <2>3. Joined(list, n) \subseteq children \X children
    BY <1>2, <1>6
  <2> QED
    BY <1>6, <2>1, <2>2, <2>3 DEF TypeOK
<1> QED
  <2>1. \/ /\ \A p \in LinksOf(list) : Linkable(p[1], p[2])
           /\ links' = links \union LinksOf(list)
           /\ Accepted(next)
        \/ \E n \in {1} \union 1..(Len(list) - 1) :
             /\ \A p \in Joined(list, n) : Linkable(p[1], p[2])
             /\ links' = links \union Joined(list, n)
             /\ Refused \/ Accepted("terminated")
    BY <1>1 DEF LinkMany, LinksOf
  <2> QED
    BY <1>5, <1>6, <2>1

----------------------------------------------------------------------------
(* The steps                                                               *)

\* What is enabled and wanted depends on the settings alone.
LEMMA SettingsDecide ==
    UNCHANGED settings => Wanted' = Wanted /\ Branches' = Branches
BY DEF Wanted, Branches, Enabled

LEMMA InitEstablishes == Init => IInv
<1> SUFFICES ASSUME Init PROVE IInv
  OBVIOUS
<1>1. TypeOK
  <2>1. faults \in 0..MaxFaults /\ step \in Step
    BY FaultsAssumption DEF Init, Step
  <2> QED
    BY <2>1 DEF Init, TypeOK
<1>2. step = "parse" /\ children = {} /\ links = {}
  BY DEF Init
<1>3. Built
  BY <1>1, <1>2 DEF Built, BuildSteps
<1>4. Linked
  BY <1>2 DEF Linked, TeedAt, LinkedAt, ChainedAt, BuildSteps
<1>5. Asked
  BY <1>2 DEF Asked, Branch, TeeStep
<1> QED
  BY <1>2, <1>3, <1>4, <1>5 DEF IInv, Watched

\* What AddElements puts in the bin exists, was asked for and has a name of
\* its own.
LEMMA AddedIsAsked ==
    ASSUME Built, AddElements
    PROVE  children' \subseteq made /\ NamesApart(children') /\ children' \subseteq AskedElements
<1> DEFINE base == UNION {Range(Listed(list)) : list \in Calls}
           withTcp == IF Enabled("tcp") THEN Added(Branch["tcp"], base) ELSE base
           all == IF Enabled("udp") THEN Added(Branch["udp"], withTcp) ELSE withTcp
<1>1. made = Wanted /\ children' = all
  BY DEF AddElements, Built, BuildSteps
<1>2. Common \subseteq made /\ Common \subseteq AskedElements
  <2>1. "display" \in Branches
    BY DEF Branches, Enabled, Branch
  <2> QED
    BY <1>1, <2>1, CommonIsWanted DEF Common, AskedElements
<1>3. ASSUME NEW b \in {"tcp", "udp"}, Enabled(b)
      PROVE  Range(Branch[b]) \subseteq made /\ Range(Branch[b]) \subseteq AskedElements
  <2>1. b \in Branches
    BY <1>3 DEF Branches, Branch
  <2> QED
    BY <1>1, <2>1, CommonIsWanted DEF AskedElements, Branches
<1>4. base \subseteq Common
  <2>1. \A list \in Calls : Listed(list) = list
    BY <1>2, CallsAreCommon, WholeList
  <2> QED
    BY <2>1, CallsAreCommon
<1>5. base \subseteq made /\ base \subseteq AskedElements /\ NamesApart(base)
  BY <1>2, <1>4, NamesDiffer DEF NamesApart
<1> HIDE DEF base
<1>6. withTcp \subseteq made /\ withTcp \subseteq AskedElements /\ NamesApart(withTcp)
  <2>1. CASE Enabled("tcp")
    <3>1. Range(Branch["tcp"]) \subseteq made /\ Range(Branch["tcp"]) \subseteq AskedElements
      BY <1>3, <2>1
    <3>2. /\ Added(Branch["tcp"], base) \subseteq base \union Range(Branch["tcp"])
          /\ NamesApart(Added(Branch["tcp"], base))
      BY <1>5, <3>1, AddedKeepsNames, NamesDiffer
    <3> QED
      BY <1>5, <2>1, <3>1, <3>2
  <2> QED
    BY <1>5, <2>1
<1> HIDE DEF withTcp
<1>7. all \subseteq made /\ all \subseteq AskedElements /\ NamesApart(all)
  <2>1. CASE Enabled("udp")
    <3>1. Range(Branch["udp"]) \subseteq made /\ Range(Branch["udp"]) \subseteq AskedElements
      BY <1>3, <2>1
    <3>2. /\ Added(Branch["udp"], withTcp) \subseteq withTcp \union Range(Branch["udp"])
          /\ NamesApart(Added(Branch["udp"], withTcp))
      BY <1>6, <3>1, AddedKeepsNames, NamesDiffer
    <3> QED
      BY <1>6, <2>1, <3>1, <3>2
  <2> QED
    BY <1>6, <2>1
<1> HIDE DEF all
<1> QED
  BY <1>1, <1>7

\* The two uses of link_many.
LEMMA LinkChainEffect ==
    ASSUME Built, LinkChain
    PROVE  /\ links \subseteq links'
           /\ links' \subseteq children \X children
           /\ links' \subseteq links \union LinksOf(Chain)
           /\ step' \in {"display", "terminated"} /\ faults' \in 0..MaxFaults
           /\ step' = "display" => LinksOf(Chain) \subseteq links'
<1>1. TypeOK /\ made = Wanted /\ LinkMany(Chain, "display")
  BY DEF Built, BuildSteps, LinkChain
<1>2. Range(Chain) \subseteq made
  BY <1>1, CommonIsWanted DEF Common
<1>3. Len(Chain) \in Nat
  BY ListsAreLists DEF IsList
<1> QED
  BY <1>1, <1>2, <1>3, LinkManyEffect

LEMMA LinkBranchEffect ==
    ASSUME Built, Asked, NEW b \in DOMAIN Branch, LinkBranch(b)
    PROVE  /\ links \subseteq links'
           /\ links' \subseteq children \X children
           /\ links' \subseteq links \union LinksOf(Branch[b])
           /\ step' \in {TeeStep[b], "terminated"} /\ faults' \in 0..MaxFaults
           /\ step' = TeeStep[b] => LinksOf(Branch[b]) \subseteq links'
<1>1. b \in {"display", "tcp", "udp"} /\ TeeStep[b] # "terminated"
  BY ListsAreLists DEF TeeStep
<1>2. TypeOK /\ made = Wanted /\ LinkMany(Branch[b], TeeStep[b]) /\ b \in Branches
  BY <1>1 DEF Built, BuildSteps, LinkBranch, Asked
<1>3. Range(Branch[b]) \subseteq made
  BY <1>2, CommonIsWanted DEF Branches
<1>4. Len(Branch[b]) \in Nat
  BY ListsAreLists DEF IsList
<1> QED
  BY <1>1, <1>2, <1>3, <1>4, LinkManyEffect

\* Only CreateElements reaches the steps that need all elements.
LEMMA BuiltStep == Built /\ Asked /\ [Next]_vars => Built'
<1> SUFFICES ASSUME Built, Asked, [Next]_vars PROVE Built'
  OBVIOUS
<1> USE FaultsAssumption DEF EarlySteps, BuildSteps
<1>0. TypeOK
  BY DEF Built
<1>1. CASE ParseConfig
  BY <1>1, <1>0, SettingsDecide
     DEF ParseConfig, Built, TypeOK, Step, graph, Accepted, Refused
<1>2. CASE CreateServers
  BY <1>2, <1>0, SettingsDecide
     DEF CreateServers, Built, TypeOK, Step, graph
<1>3. CASE CreateObject
  BY <1>3, <1>0, SettingsDecide
     DEF CreateObject, Built, TypeOK, Step, graph, Accepted, Refused
<1>4. CASE CreateElements
  BY <1>4, <1>0, SettingsDecide
     DEF CreateElements, Built, TypeOK, Step, Checked
<1>5. CASE SetProperties
  BY <1>5, <1>0, SettingsDecide
     DEF SetProperties, Built, TypeOK, Step, graph, Accepted, Refused
<1>6. CASE AddElements
  <2>1. made = Wanted /\ links = {} /\ UNCHANGED <<settings, made, links, servers, probed>>
    BY <1>6 DEF AddElements, Built
  <2>2. step' = "chain" /\ UNCHANGED faults
    BY <1>6 DEF AddElements, Accepted
  <2>3. children' \subseteq made /\ NamesApart(children')
    BY <1>6, <2>1, AddedIsAsked
  <2>4. TypeOK'
    BY <2>1, <2>2, <2>3, <1>0, SettingsDecide DEF TypeOK, Step, NamesApart
  <2> QED
    BY <2>1, <2>2, <2>4, SettingsDecide DEF Built
<1>7. CASE LinkChain
  <2>1. /\ links' \subseteq children \X children
        /\ faults' \in 0..MaxFaults
        /\ step' \in {"display", "terminated"}
    BY <1>7, LinkChainEffect
  <2> QED
    BY <1>7, <2>1, <1>0, SettingsDecide DEF LinkChain, Built, TypeOK, Step
<1>8. ASSUME NEW b \in DOMAIN Branch, LinkBranch(b)
      PROVE  Built'
  <2>1. b \in {"display", "tcp", "udp"} /\ TeeStep[b] \in BuildSteps \intersect Step
    BY ListsAreLists DEF TeeStep, Step
  <2>2. /\ links' \subseteq children \X children
        /\ faults' \in 0..MaxFaults
        /\ step' \in {TeeStep[b], "terminated"}
    BY <1>8, LinkBranchEffect
  <2>3. step = b /\ UNCHANGED <<settings, made, children, servers, probed>>
    BY <1>8 DEF LinkBranch
  <2>4. step' \in Step /\ step' \notin EarlySteps \ {"properties", "add"}
    BY <2>1, <2>2 DEF Step, TeeStep
  <2>5. TypeOK'
    BY <2>2, <2>3, <2>4, <1>0, SettingsDecide DEF TypeOK
  <2> QED
    BY <2>1, <2>2, <2>3, <2>5, SettingsDecide DEF Built, TeeStep
<1>9. ASSUME NEW b \in DOMAIN Branch, TeeBranch(b)
      PROVE  Built'
  <2>1. b \in {"display", "tcp", "udp"}
    BY DEF Branch
  <2>2. /\ step = TeeStep[b] /\ UNCHANGED <<settings, made, children, servers, probed>>
        /\ step' \in {Following(b), "terminated"}
    BY <1>9 DEF TeeBranch, Accepted, Refused
  <2>3. links' \subseteq children \X children /\ faults' \in 0..MaxFaults
    BY <1>9, <1>0 DEF TeeBranch, Accepted, Refused, Linkable, TypeOK
  <2>4. TypeOK'
    BY <2>1, <2>2, <2>3, <1>0, SettingsDecide DEF TypeOK, Step, Following
  <2> QED
    BY <2>1, <2>2, <2>4, SettingsDecide DEF Built, Following, TeeStep
<1>10. CASE AddProbe
  BY <1>10, <1>0, SettingsDecide
     DEF AddProbe, Built, TypeOK, Step, graph, Accepted
<1>11. CASE Play
  BY <1>11, <1>0, SettingsDecide
     DEF Play, Built, TypeOK, Step, graph, Accepted, Refused
<1>16. CASE CamerasAnswer \/ StateReached
  BY <1>16, <1>0, SettingsDecide
     DEF CamerasAnswer, StateReached, Built, TypeOK, Step, graph, Accepted
<1>17. CASE StateFails
  BY <1>17, <1>0, SettingsDecide
     DEF StateFails, Built, TypeOK, Step, graph, Refused
<1>12. CASE Quit
  BY <1>12, <1>0, SettingsDecide DEF Quit, Built, TypeOK, Step, graph, Accepted
<1>13. CASE Restart
  BY <1>13, <1>0, SettingsDecide DEF Restart, Built, TypeOK, Step, Accepted
<1>14. CASE PlayWithoutEngine
  BY <1>14, <1>0, SettingsDecide
     DEF PlayWithoutEngine, Built, TypeOK, Step, graph, Accepted
<1>15. CASE UNCHANGED vars
  BY <1>15, <1>0, SettingsDecide DEF vars, graph, Built, TypeOK
<1> QED
  BY <1>1, <1>2, <1>3, <1>4, <1>5, <1>6, <1>7, <1>8, <1>9, <1>10, <1>11,
     <1>12, <1>13, <1>14, <1>15, <1>16, <1>17 DEF Next, Start, Construct

\* The steps that leave the bin alone: none goes back to linking.
Quiet ==
    /\ UNCHANGED <<settings, children, links>>
    /\ \/ step' \in EarlySteps \union {"terminated"}
       \/ UNCHANGED step
       \/ step = "probe" /\ step' = "play"
       \/ step = "play" /\ step' = "waiting"
       \/ step = "waiting" /\ step' = "flowing"
       \/ step = "flowing" /\ step' = "running"

Bin ==
    \/ AddElements \/ LinkChain
    \/ \E b \in DOMAIN Branch : LinkBranch(b) \/ TeeBranch(b)
    \/ Restart

LEMMA QuietOrBin == [Next]_vars => Quiet \/ Bin
<1> SUFFICES ASSUME [Next]_vars, ~Bin PROVE Quiet
  OBVIOUS
<1> USE DEF Quiet, EarlySteps, graph
<1>1. CASE ParseConfig
  BY <1>1 DEF ParseConfig, Accepted, Refused
<1>2. CASE CreateServers
  BY <1>2 DEF CreateServers
<1>3. CASE CreateObject
  BY <1>3 DEF CreateObject, Accepted, Refused
<1>4. CASE CreateElements
  BY <1>4 DEF CreateElements
<1>5. CASE SetProperties
  BY <1>5 DEF SetProperties, Accepted, Refused
<1>6. CASE AddProbe
  BY <1>6 DEF AddProbe, Accepted
<1>7. CASE Play
  BY <1>7 DEF Play, Accepted, Refused
<1>8. CASE PlayWithoutEngine
  BY <1>8 DEF PlayWithoutEngine, Accepted
<1>9. CASE Quit
  BY <1>9 DEF Quit, Accepted
<1>10. CASE UNCHANGED vars
  BY <1>10 DEF vars
<1>11. CASE CamerasAnswer \/ StateReached \/ StateFails
  BY <1>11 DEF CamerasAnswer, StateReached, StateFails, Accepted, Refused
<1> QED
  BY <1>1, <1>2, <1>3, <1>4, <1>5, <1>6, <1>7, <1>8, <1>9, <1>10, <1>11
     DEF Next, Start, Construct, Bin

\* What TeeBranch links.
LEMMA TeeBranchEffect ==
    ASSUME NEW b \in DOMAIN Branch, TeeBranch(b)
    PROVE  /\ links \subseteq links' /\ links' \subseteq links \union {Teed(b)}
           /\ step' \in {Following(b), "terminated"}
           /\ Following(b) \in {"tcp", "udp", "probe"}
           /\ step' = Following(b) => Teed(b) \in links'
<1>1. Following(b) \in {"tcp", "udp", "probe"}
  BY DEF Following
<1> QED
  BY <1>1 DEF TeeBranch, Accepted, Refused, Teed

\* Nothing is linked that was not asked for, and only branches there are get
\* their turn.
LEMMA AskedStep == Built /\ Asked /\ [Next]_vars => Asked'
<1> SUFFICES ASSUME Built, Asked, [Next]_vars PROVE Asked'
  OBVIOUS
<1> DEFINE Turns == \A b \in DOMAIN Branch : step \in {b, TeeStep[b]} => b \in Branches
<1>0. ASSUME UNCHANGED settings, links' \subseteq AskedLinks,
             children' \subseteq AskedElements,
             \A b \in DOMAIN Branch : step' \in {b, TeeStep[b]} => b \in Branches
      PROVE  Asked'
  <2>1. AskedLinks' = AskedLinks /\ AskedElements' = AskedElements /\ Branches' = Branches
    BY <1>0, SettingsDecide DEF AskedLinks, AskedElements
  <2> QED
    BY <1>0, <2>1 DEF Asked
<1>1. \A b \in DOMAIN Branch : b \in {"display", "tcp", "udp"}
  BY ListsAreLists
<1>2. "display" \in Branches
  BY ListsAreLists DEF Branches, Enabled
<1>3. \A b \in Branches : BranchLinks(b) \subseteq AskedLinks
  BY DEF AskedLinks
<1>4. CASE Quiet
  <2>1. \A b \in DOMAIN Branch : step' \in {b, TeeStep[b]} => step' = step
    BY <1>1, <1>4 DEF Quiet, EarlySteps, TeeStep
  <2> QED
    BY <1>0, <1>4, <2>1 DEF Quiet, Asked
<1>5. CASE AddElements
  <2>1. step' = "chain" /\ UNCHANGED <<settings, links>>
    BY <1>5 DEF AddElements, Accepted
  <2>2. \A b \in DOMAIN Branch : ~(step' \in {b, TeeStep[b]})
    BY <1>1, <2>1 DEF TeeStep
  <2> QED
    BY <1>0, <1>5, <2>1, <2>2, AddedIsAsked DEF Asked
<1>6. CASE LinkChain
  <2>1. UNCHANGED <<settings, children>>
    BY <1>6 DEF LinkChain
  <2>2. links' \subseteq AskedLinks /\ step' \in {"display", "terminated"}
    BY <1>6, LinkChainEffect DEF Asked, AskedLinks
  <2>3. \A b \in DOMAIN Branch : step' \in {b, TeeStep[b]} => b \in Branches
    BY <1>1, <1>2, <2>2 DEF TeeStep
  <2> QED
    BY <1>0, <2>1, <2>2, <2>3 DEF Asked
<1>7. ASSUME NEW b \in DOMAIN Branch, LinkBranch(b)
      PROVE  Asked'
  <2>1. step = b /\ UNCHANGED <<settings, children>>
    BY <1>7 DEF LinkBranch
  <2>2. b \in Branches
    BY <2>1 DEF Asked
  <2>3. /\ links' \subseteq links \union LinksOf(Branch[b])
        /\ step' \in {TeeStep[b], "terminated"}
    BY <1>7, LinkBranchEffect
  <2>4. \A c \in DOMAIN Branch : step' \in {c, TeeStep[c]} => c \in Branches
    BY <1>1, <2>2, <2>3 DEF TeeStep
  <2> QED
    BY <1>0, <1>3, <2>1, <2>2, <2>3, <2>4 DEF Asked, BranchLinks
<1>8. ASSUME NEW b \in DOMAIN Branch, TeeBranch(b)
      PROVE  Asked'
  <2>1. step = TeeStep[b] /\ UNCHANGED <<settings, children>>
    BY <1>8 DEF TeeBranch
  <2>2. b \in Branches
    BY <2>1 DEF Asked
  <2>3. /\ links' \subseteq links \union {Teed(b)}
        /\ step' \in {Following(b), "terminated"}
    BY <1>8, TeeBranchEffect
  <2>4. \A c \in DOMAIN Branch : step' \in {c, TeeStep[c]} => c \in Branches
    BY <1>1, <2>3, ListsAreLists DEF TeeStep, Following, Branches
  <2> QED
    BY <1>0, <1>3, <2>1, <2>2, <2>3, <2>4 DEF Asked, BranchLinks
<1>9. CASE Restart
  <2>1. UNCHANGED settings /\ links' = {} /\ children' = {} /\ step' = "parse"
    BY <1>9 DEF Restart, Accepted
  <2>2. \A b \in DOMAIN Branch : ~(step' \in {b, TeeStep[b]})
    BY <1>1, <2>1 DEF TeeStep
  <2> QED
    BY <1>0, <2>1, <2>2
<1> QED
  BY <1>4, <1>5, <1>6, <1>7, <1>8, <1>9, QuietOrBin DEF Bin

\* Where a branch is linked or fed, it was so one step earlier, unless that
\* step is the one that does it.
LEMMA LinkingOrder ==
    /\ \A b, c \in DOMAIN Branch : b # c =>
         /\ TeeStep[b] \in LinkedAt(c) => b \in LinkedAt(c)
         /\ TeeStep[b] \in TeedAt(c) => b \in TeedAt(c)
         /\ c \in Branches /\ Following(b) \in LinkedAt(c) => TeeStep[b] \in LinkedAt(c)
         /\ c \in Branches /\ Following(b) \in TeedAt(c) => TeeStep[b] \in TeedAt(c)
    /\ \A b \in DOMAIN Branch :
         /\ b \in ChainedAt /\ TeeStep[b] \in ChainedAt
         /\ TeeStep[b] \in LinkedAt(b) /\ TeeStep[b] \notin TeedAt(b)
    /\ \A b \in DOMAIN Branch :
         LinkedAt(b) \subseteq ChainedAt \ {"display"} /\ TeedAt(b) \subseteq LinkedAt(b)
<1>1. \A b \in DOMAIN Branch : b \in {"display", "tcp", "udp"}
  BY ListsAreLists
<1> USE DEF TeeStep, LinkedAt, TeedAt, ChainedAt, BuildSteps
<1>2. ASSUME NEW b \in {"display", "tcp", "udp"}, NEW c \in {"display", "tcp", "udp"}, b # c
      PROVE  /\ TeeStep[b] \in LinkedAt(c) => b \in LinkedAt(c)
             /\ TeeStep[b] \in TeedAt(c) => b \in TeedAt(c)
  BY <1>2
<1>3. ASSUME NEW b \in {"display", "tcp", "udp"}, NEW c \in {"display", "tcp", "udp"}, b # c,
             Enabled(c)
      PROVE  /\ Following(b) \in LinkedAt(c) => TeeStep[b] \in LinkedAt(c)
             /\ Following(b) \in TeedAt(c) => TeeStep[b] \in TeedAt(c)
  BY <1>3 DEF Following
<1>4. \A b \in {"display", "tcp", "udp"} :
         /\ b \in ChainedAt /\ TeeStep[b] \in ChainedAt
         /\ TeeStep[b] \in LinkedAt(b) /\ TeeStep[b] \notin TeedAt(b)
         /\ LinkedAt(b) \subseteq ChainedAt \ {"display"} /\ TeedAt(b) \subseteq LinkedAt(b)
  OBVIOUS
<1> HIDE DEF TeeStep, LinkedAt, TeedAt, ChainedAt, BuildSteps
<1> QED
  BY <1>1, <1>2, <1>3, <1>4 DEF Branches

LEMMA LinkedStep == Built /\ Asked /\ Linked /\ [Next]_vars => Linked'
<1> SUFFICES ASSUME Built, Asked, Linked, [Next]_vars PROVE Linked'
  OBVIOUS
\* With the settings and no link lost, what is linked at a step that was so
\* before need not be looked at again.
<1>0. ASSUME UNCHANGED settings, links \subseteq links',
             step' \in ChainedAt /\ step \notin ChainedAt => LinksOf(Chain) \subseteq links',
             \A b \in Branches :
               /\ step' \in LinkedAt(b) /\ step \notin LinkedAt(b)
                    => LinksOf(Branch[b]) \subseteq links'
               /\ step' \in TeedAt(b) /\ step \notin TeedAt(b) => Teed(b) \in links'
      PROVE  Linked'
  <2>1. Branches' = Branches
    BY <1>0, SettingsDecide
  <2>2. step' \in ChainedAt => LinksOf(Chain) \subseteq links'
    BY <1>0 DEF Linked
  <2>3. \A b \in Branches : step' \in LinkedAt(b) => LinksOf(Branch[b]) \subseteq links'
    BY <1>0 DEF Linked
  <2>4. \A b \in Branches : step' \in TeedAt(b) => Teed(b) \in links'
    BY <1>0 DEF Linked
  <2> QED
    BY <2>1, <2>2, <2>3, <2>4 DEF Linked
<1>1. Branches \subseteq DOMAIN Branch
  BY DEF Branches
<1>2. ASSUME UNCHANGED settings, step' \notin ChainedAt
      PROVE  Linked'
  <2>1. Branches' = Branches
    BY <1>2, SettingsDecide
  <2>2. \A b \in Branches : step' \notin LinkedAt(b) /\ step' \notin TeedAt(b)
    BY <1>1, <1>2, LinkingOrder
  <2> QED
    BY <1>2, <2>1, <2>2 DEF Linked
<1>3. CASE Quiet
  <2>1. CASE step' \in EarlySteps \union {"terminated"}
    <3>1. step' \notin ChainedAt /\ UNCHANGED settings
      BY <1>3, <2>1 DEF Quiet, EarlySteps, ChainedAt, BuildSteps
    <3> QED
      BY <1>2, <3>1
  <2>2. CASE UNCHANGED step
    BY <1>0, <1>3, <2>2 DEF Quiet
  <2>3. CASE \/ step = "probe" /\ step' = "play"
             \/ step = "play" /\ step' = "waiting"
             \/ step = "waiting" /\ step' = "flowing"
             \/ step = "flowing" /\ step' = "running"
    <3>1. /\ step \in ChainedAt
          /\ \A b \in DOMAIN Branch : step \in LinkedAt(b) /\ step \in TeedAt(b)
      BY <2>3, ListsAreLists DEF ChainedAt, BuildSteps, LinkedAt, TeedAt, TeeStep
    <3> QED
      BY <1>0, <1>1, <1>3, <3>1 DEF Quiet
  <2> QED
    BY <1>3, <2>1, <2>2, <2>3 DEF Quiet
<1>4. CASE AddElements
  <2>1. step' \notin ChainedAt /\ UNCHANGED settings
    BY <1>4 DEF AddElements, Accepted, ChainedAt, BuildSteps
  <2> QED
    BY <1>2, <2>1
<1>5. CASE LinkChain
  <2>1. UNCHANGED settings
    BY <1>5 DEF LinkChain
  <2>2. /\ links \subseteq links' /\ step' \in {"display", "terminated"}
        /\ step' = "display" => LinksOf(Chain) \subseteq links'
    BY <1>5, LinkChainEffect
  <2>3. CASE step' = "display"
    <3>1. \A b \in Branches : step' \notin LinkedAt(b) /\ step' \notin TeedAt(b)
      BY <1>1, <2>3, LinkingOrder
    <3> QED
      BY <1>0, <2>1, <2>2, <2>3, <3>1
  <2>4. CASE step' = "terminated"
    BY <1>2, <2>1, <2>4 DEF ChainedAt, BuildSteps
  <2> QED
    BY <2>2, <2>3, <2>4
<1>6. ASSUME NEW b \in DOMAIN Branch, LinkBranch(b)
      PROVE  Linked'
  <2>1. step = b /\ UNCHANGED settings
    BY <1>6 DEF LinkBranch
  <2>2. /\ links \subseteq links' /\ step' \in {TeeStep[b], "terminated"}
        /\ step' = TeeStep[b] => LinksOf(Branch[b]) \subseteq links'
    BY <1>6, LinkBranchEffect
  <2>3. CASE step' = TeeStep[b]
    <3>1. step \in ChainedAt
      BY <2>1, LinkingOrder
    <3>2. step' \notin TeedAt(b)
      BY <2>3, LinkingOrder
    <3>3. \A c \in Branches : c # b =>
            /\ step' \in LinkedAt(c) => step \in LinkedAt(c)
            /\ step' \in TeedAt(c) => step \in TeedAt(c)
      BY <1>1, <2>1, <2>3, LinkingOrder
    <3> QED
      BY <1>0, <2>1, <2>2, <2>3, <3>1, <3>2, <3>3
  <2>4. CASE step' = "terminated"
    BY <1>2, <2>1, <2>4 DEF ChainedAt, BuildSteps
  <2> QED
    BY <2>2, <2>3, <2>4
<1>7. ASSUME NEW b \in DOMAIN Branch, TeeBranch(b)
      PROVE  Linked'
  <2>1. step = TeeStep[b] /\ UNCHANGED settings
    BY <1>7 DEF TeeBranch
  <2>2. /\ links \subseteq links' /\ step' \in {Following(b), "terminated"}
        /\ step' = Following(b) => Teed(b) \in links'
    BY <1>7, TeeBranchEffect
  <2>3. CASE step' = Following(b)
    <3>1. step \in ChainedAt /\ step \in LinkedAt(b)
      BY <2>1, LinkingOrder
    <3>2. \A c \in Branches : c # b =>
            /\ step' \in LinkedAt(c) => step \in LinkedAt(c)
            /\ step' \in TeedAt(c) => step \in TeedAt(c)
      BY <1>1, <2>1, <2>3, LinkingOrder
    <3> QED
      BY <1>0, <2>1, <2>2, <2>3, <3>1, <3>2
  <2>4. CASE step' = "terminated"
    BY <1>2, <2>1, <2>4 DEF ChainedAt, BuildSteps
  <2> QED
    BY <2>2, <2>3, <2>4
<1>8. CASE Restart
  <2>1. step' \notin ChainedAt /\ UNCHANGED settings
    BY <1>8 DEF Restart, Accepted, ChainedAt, BuildSteps
  <2> QED
    BY <1>2, <2>1
<1> QED
  BY <1>3, <1>4, <1>5, <1>6, <1>7, <1>8, QuietOrBin DEF Bin

\* nvanalytics_ exists when the probe is put on it.
LEMMA WatchedStep == Built /\ Watched /\ [Next]_vars => Watched'
<1> SUFFICES ASSUME Built, Watched, [Next]_vars PROVE Watched'
  OBVIOUS
<1> USE DEF Watched
<1>1. CASE AddProbe
  <2>1. "nvanalytics_" \in Wanted
    BY Lists DEF Wanted
  <2> QED
    BY <1>1, <2>1 DEF AddProbe, Built, BuildSteps
<1>2. CASE Play \/ CamerasAnswer \/ StateReached
  BY <1>2 DEF Play, CamerasAnswer, StateReached
<1>9. CASE StateFails
  BY <1>9 DEF StateFails, Refused
<1>3. CASE ParseConfig \/ CreateServers \/ CreateObject \/ CreateElements \/ SetProperties
  BY <1>3 DEF ParseConfig, CreateServers, CreateObject, CreateElements, SetProperties,
              Accepted, Refused
<1>4. CASE AddElements \/ Quit \/ PlayWithoutEngine \/ Restart
  BY <1>4 DEF AddElements, Quit, PlayWithoutEngine, Restart, Accepted
<1>5. CASE LinkChain
  BY <1>5, LinkChainEffect
<1>6. ASSUME NEW b \in DOMAIN Branch, LinkBranch(b)
      PROVE  Watched'
  <2>1. b \in {"display", "tcp", "udp"}
    BY ListsAreLists
  <2>2. step' \in {TeeStep[b], "terminated"}
    BY <1>6 DEF LinkBranch, LinkMany, Accepted, Refused
  <2> QED
    BY <2>1, <2>2 DEF TeeStep
<1>7. ASSUME NEW b \in DOMAIN Branch, TeeBranch(b)
      PROVE  Watched'
  BY <1>7, TeeBranchEffect
<1>8. CASE UNCHANGED vars
  BY <1>8 DEF vars
<1> QED
  BY <1>1, <1>2, <1>3, <1>4, <1>5, <1>6, <1>7, <1>8, <1>9
     DEF Next, Start, Construct

LEMMA Inductive == Spec => []IInv
<1>1. IInv /\ [Next]_vars => IInv'
  BY BuiltStep, AskedStep, LinkedStep, WatchedStep DEF IInv
<1> QED
  BY <1>1, InitEstablishes, PTL DEF Spec

----------------------------------------------------------------------------
(* What some links feed                                                    *)

LEMMA OnwardAdds ==
    ASSUME NEW some, NEW elements
    PROVE  Onward(some, elements)
             = elements \union {p[2] : p \in {q \in some : q[1] \in elements}}
BY DEF Onward

\* One more link at a time.
LEMMA ReachedUnfolds ==
    ASSUME NEW some
    PROVE  /\ Reached(some)[0] = {"streammux_"}
           /\ \A k \in Nat : Reached(some)[k + 1] = Onward(some, Reached(some)[k])
<1> DEFINE first == {"streammux_"}
           D == SUBSET (first \union {p[2] : p \in some})
           onward == [a \in Nat \X D |-> Onward(some, a[2])]
           IsReach(f) ==
             f = [k \in Nat |-> IF k = 0 THEN {"streammux_"} ELSE Onward(some, f[k - 1])]
<1>0. first \in D /\ \A a \in D : Onward(some, a) \in D
  <2> HIDE DEF first
  <2> QED
    BY OnwardAdds
<1>1. onward \in [Nat \X D -> D]
  <2>1. ASSUME NEW a \in Nat \X D
        PROVE  Onward(some, a[2]) \in D
    <3> HIDE DEF D
    <3>1. a[2] \in D
      OBVIOUS
    <3> QED
      BY <1>0, <3>1, Zenon
  <2> HIDE DEF D
  <2> QED
    BY <2>1
<1>2. \A k \in Nat, a \in D : onward[<<k, a>>] = Onward(some, a)
  OBVIOUS
<1>3. \E f : IsReach(f)
  <2> HIDE DEF first, onward, D
  <2>1. PICK f : Recurs(f, D, first, onward)
    BY <1>0, <1>1, RecursionDefines
  <2>2. ASSUME NEW k \in Nat
        PROVE  f[k] = IF k = 0 THEN first ELSE Onward(some, f[k - 1])
    <3>1. f[k] = IF k = 0 THEN first ELSE onward[<<k - 1, f[k - 1]>>]
      BY <2>1 DEF Recurs
    <3>2. CASE k = 0
      BY <3>1, <3>2
    <3>3. CASE k # 0
      <4>1. k - 1 \in Nat /\ f[k - 1] \in D
        BY <2>1, <3>3 DEF Recurs
      <4>2. onward[<<k - 1, f[k - 1]>>] = Onward(some, f[k - 1])
        BY <1>2, <4>1
      <4> QED
        BY <3>1, <3>3, <4>2
    <3> QED
      BY <3>2, <3>3
  <2>3. f = [k \in Nat |-> IF k = 0 THEN first ELSE Onward(some, f[k - 1])]
    BY <2>1, <2>2 DEF Recurs
  <2> QED
    BY <2>3 DEF first
<1>4. IsReach(Reached(some))
  <2>1. Reached(some) = CHOOSE f : IsReach(f)
    BY DEF Reached
  <2> HIDE DEF IsReach
  <2> QED
    BY <1>3, <2>1
<1>5. Reached(some)[0] = {"streammux_"}
  BY <1>4
<1>6. ASSUME NEW k \in Nat
      PROVE  Reached(some)[k + 1] = Onward(some, Reached(some)[k])
  <2> DEFINE R == Reached(some)
  <2>1. R = [m \in Nat |-> IF m = 0 THEN {"streammux_"} ELSE Onward(some, R[m - 1])]
    BY <1>4
  <2> HIDE DEF R
  <2>2. k + 1 \in Nat /\ k + 1 # 0 /\ (k + 1) - 1 = k
    OBVIOUS
  <2>3. R[k + 1] = Onward(some, R[(k + 1) - 1])
    BY <2>1, <2>2
  <2> QED
    BY <2>2, <2>3 DEF R
<1> QED
  BY <1>5, <1>6

\* What a list holds is finite.
LEMMA RangeIsFinite ==
    ASSUME NEW list, NEW n \in Nat, DOMAIN list = 1..n
    PROVE  IsFiniteSet(Range(list))
<1>1. IsFiniteSet(DOMAIN list)
  BY FS_Interval
<1> DEFINE f == [i \in DOMAIN list |-> list[i]]
<1>2. f \in Surjection(DOMAIN list, Range(list))
  BY DEF Surjection, Range
<1> QED
  BY <1>1, <1>2, FS_Surjection

LEMMA ElementIsFinite == IsFiniteSet(Element)
<1>1. IsFiniteSet(Range(Chain))
  <2>1. DOMAIN Chain = 1..15
    BY DEF Chain
  <2> QED
    BY <2>1, RangeIsFinite
<1>2. /\ IsFiniteSet(Range(Branch["display"]))
      /\ IsFiniteSet(Range(Branch["tcp"]))
      /\ IsFiniteSet(Range(Branch["udp"]))
  <2>1. /\ DOMAIN Branch["display"] = 1..2
        /\ DOMAIN Branch["tcp"] = 1..6 /\ DOMAIN Branch["udp"] = 1..6
    BY DEF Branch
  <2> QED
    BY <2>1, RangeIsFinite
<1>3. Element = Unlinked \union Range(Chain) \union Range(Branch["display"])
                  \union Range(Branch["tcp"]) \union Range(Branch["udp"])
  BY DEF Element, Branch
<1>4. IsFiniteSet(Unlinked)
  BY FS_Singleton DEF Unlinked
<1> QED
  BY <1>1, <1>2, <1>3, <1>4, FS_Union

\* No path from the muxer is longer than the number of elements allows.
LEMMA EnoughElements == Cardinality(Element) \in Nat /\ Cardinality(Element) >= 20
<1> DEFINE f == [i \in 1..21 |-> IF i <= 15 THEN Chain[i] ELSE Branch["tcp"][i - 15]]
<1>1. f \in [1..21 -> Element]
  <2>1. \A i \in 1..15 : Chain[i] \in Element
    BY DEF Element, Range, Chain
  <2>2. \A i \in 1..6 : Branch["tcp"][i] \in Element
    <3>1. Range(Branch["tcp"]) \subseteq Element
      <4>1. "tcp" \in DOMAIN Branch
        BY DEF Branch
      <4> QED
        BY <4>1 DEF Element
    <3>2. \A i \in 1..6 : Branch["tcp"][i] \in Range(Branch["tcp"])
      BY DEF Range, Branch
    <3> QED
      BY <3>1, <3>2
  <2>3. \A i \in 1..21 : IF i <= 15 THEN i \in 1..15 ELSE i - 15 \in 1..6
    OBVIOUS
  <2> QED
    BY <2>1, <2>2, <2>3
<1>2. /\ f[1] = "streammux_" /\ f[2] = "queue0_" /\ f[3] = "nvvidconv_"
      /\ f[4] = "capsfilter0_" /\ f[5] = "pgie_" /\ f[6] = "queue1_"
      /\ f[7] = "tracker_" /\ f[8] = "queue2_" /\ f[9] = "nvanalytics_"
      /\ f[10] = "queue3_" /\ f[11] = "tiler_" /\ f[12] = "queue4_"
      /\ f[13] = "nvosd_" /\ f[14] = "queue5_" /\ f[15] = "sinktee_"
      /\ f[16] = "queue8_" /\ f[17] = "tcp_nvvidconv_postosd_"
      /\ f[18] = "tcp_caps_" /\ f[19] = "tcp_encoder_"
      /\ f[20] = "tcp_rtppay_" /\ f[21] = "tcp_server_sink_"
  BY DEF Chain, Branch
<1> HIDE DEF f
\* The place of an element on the path.
<1> DEFINE place ==
      [streammux_ |-> 1, queue0_ |-> 2, nvvidconv_ |-> 3, capsfilter0_ |-> 4,
       pgie_ |-> 5, queue1_ |-> 6, tracker_ |-> 7, queue2_ |-> 8,
       nvanalytics_ |-> 9, queue3_ |-> 10, tiler_ |-> 11, queue4_ |-> 12,
       nvosd_ |-> 13, queue5_ |-> 14, sinktee_ |-> 15, queue8_ |-> 16,
       tcp_nvvidconv_postosd_ |-> 17, tcp_caps_ |-> 18, tcp_encoder_ |-> 19,
       tcp_rtppay_ |-> 20, tcp_server_sink_ |-> 21]
<1>3. \A i, j \in 1..21 : f[i] = f[j] => i = j
  <2>1. /\ place[f[1]] = 1 /\ place[f[2]] = 2 /\ place[f[3]] = 3
        /\ place[f[4]] = 4 /\ place[f[5]] = 5 /\ place[f[6]] = 6
        /\ place[f[7]] = 7 /\ place[f[8]] = 8 /\ place[f[9]] = 9
        /\ place[f[10]] = 10 /\ place[f[11]] = 11 /\ place[f[12]] = 12
        /\ place[f[13]] = 13 /\ place[f[14]] = 14 /\ place[f[15]] = 15
        /\ place[f[16]] = 16 /\ place[f[17]] = 17 /\ place[f[18]] = 18
        /\ place[f[19]] = 19 /\ place[f[20]] = 20 /\ place[f[21]] = 21
    BY <1>2
  <2> HIDE DEF place
  <2>2. ASSUME NEW i \in 1..21
        PROVE  place[f[i]] = i
    BY <2>1
  <2> QED
    BY <2>2, Zenon
<1>4. f \in Injection(1..21, Element)
  <2>1. DOMAIN f = 1..21
    BY <1>1
  <2>2. IsInjective(f)
    BY <1>3, <2>1, Zenon DEF IsInjective
  <2> QED
    BY <1>1, <2>2, Zenon DEF Injection
<1>5. Cardinality(1..21) = 21
  <2>1. \A a, b \in Int : Cardinality(a..b) = IF a > b THEN 0 ELSE b - a + 1
    BY FS_Interval, Zenon
  <2>2. 1 \in Int /\ 21 \in Int
    OBVIOUS
  <2>3. Cardinality(1..21) = IF 1 > 21 THEN 0 ELSE 21 - 1 + 1
    BY <2>1, <2>2, Zenon
  <2> QED
    BY <2>3
<1>6. Cardinality(1..21) <= Cardinality(Element)
  BY <1>4, ElementIsFinite, FS_Injection, Zenon
<1>7. Cardinality(Element) \in Nat
  BY ElementIsFinite, FS_CardinalityType, Zenon
<1> QED
  BY <1>5, <1>6, <1>7

\* What is fed more than k links away is fed k links away.
LEMMA ReachedGrows ==
    ASSUME NEW some, NEW k \in Nat, NEW m \in Nat, k <= m
    PROVE  Reached(some)[k] \subseteq Reached(some)[m]
<1> DEFINE R == Reached(some)
           S == {n \in Nat : R[k] \subseteq R[k + n]}
<1>1. 0 \in S
  OBVIOUS
<1>2. ASSUME NEW n \in Nat, n \in S
      PROVE  n + 1 \in S
  <2>1. R[(k + n) + 1] = Onward(some, R[k + n]) /\ k + n \in Nat
    BY ReachedUnfolds
  <2>2. (k + n) + 1 = k + (n + 1)
    OBVIOUS
  <2>3. R[k + n] \subseteq R[k + (n + 1)]
    BY <2>1, <2>2, OnwardAdds
  <2> QED
    BY <1>2, <2>3
<1> HIDE DEF R
<1>3. \A n \in Nat : n \in S
  <2> HIDE DEF S
  <2> QED
    BY <1>1, <1>2, SetInduction
<1>4. m - k \in Nat /\ k + (m - k) = m
  OBVIOUS
<1>5. R[k] \subseteq R[k + (m - k)]
  BY <1>3, <1>4
<1> QED
  BY <1>4, <1>5 DEF R

\* A set that holds the muxer and that no link leaves holds all that is fed.
LEMMA FedStays ==
    ASSUME NEW some, NEW S, "streammux_" \in S,
           \A p \in some : p[1] \in S => p[2] \in S
    PROVE  Fed(some) \subseteq S
<1> DEFINE R == Reached(some)
           T == {n \in Nat : R[n] \subseteq S}
<1>1. 0 \in T
  BY ReachedUnfolds
<1>2. ASSUME NEW n \in Nat, n \in T
      PROVE  n + 1 \in T
  <2>1. R[n + 1] = Onward(some, R[n])
    BY ReachedUnfolds
  <2> QED
    BY <1>2, <2>1, OnwardAdds
<1> HIDE DEF R
<1>3. \A n \in Nat : n \in T
  <2> HIDE DEF T
  <2> QED
    BY <1>1, <1>2, SetInduction
<1> QED
  BY <1>3, EnoughElements DEF Fed, R

\* A path of links from the muxer feeds what is on it.
LEMMA PathIsFed ==
    ASSUME NEW some, NEW path, NEW length \in 1..21, path[1] = "streammux_",
           \A i \in 1..(length - 1) : <<path[i], path[i + 1]>> \in some
    PROVE  \A i \in 1..length : path[i] \in Fed(some)
<1> DEFINE R == Reached(some)
           T == {n \in Nat : path[n + 1] \in R[n]}
<1>1. 0 \in T
  BY ReachedUnfolds
<1>2. ASSUME NEW n \in 0..((length - 1) - 1), n \in T
      PROVE  n + 1 \in T
  <2>1. R[n + 1] = Onward(some, R[n])
    BY ReachedUnfolds
  <2>2. <<path[n + 1], path[(n + 1) + 1]>> \in some
    OBVIOUS
  <2>3. path[(n + 1) + 1] \in Onward(some, R[n])
    BY <1>2, <2>2, OnwardAdds
  <2> QED
    BY <2>1, <2>3
<1> HIDE DEF R
<1>3. \A n \in 0..(length - 1) : n \in T
  <2>1. length - 1 \in Nat
    OBVIOUS
  <2> HIDE DEF T
  <2> QED
    BY <1>1, <1>2, <2>1, BoundedInduction
<1>4. ASSUME NEW i \in 1..length
      PROVE  path[i] \in Fed(some)
  <2>1. i - 1 \in 0..(length - 1) /\ (i - 1) + 1 = i
    OBVIOUS
  <2>2. path[i] \in R[i - 1]
    BY <1>3, <2>1
  <2>3. i - 1 \in Nat /\ i - 1 <= Cardinality(Element)
    BY EnoughElements
  <2>4. R[i - 1] \subseteq Fed(some)
    BY <2>3, EnoughElements, ReachedGrows DEF Fed, R
  <2> QED
    BY <2>2, <2>4
<1> QED
  BY <1>4

----------------------------------------------------------------------------
(* A running pipeline                                                      *)

\* An element of a list is on a link of it, when there are two.
LEMMA ListIsLinked ==
    ASSUME NEW list, IsList(list), Len(list) > 1, LinksOf(list) \subseteq children \X children
    PROVE  Range(list) \subseteq children
<1> DEFINE size == Len(list)
<1>0. size \in Nat /\ size > 1 /\ DOMAIN list = 1..size
  BY DEF IsList
<1>1. ASSUME NEW i \in 1..size
      PROVE  list[i] \in children
  <2> HIDE DEF size
  <2>1. CASE i < size
    <3>1. i \in 1..(size - 1)
      BY <1>0, <2>1
    <3>2. <<list[i], list[i + 1]>> \in LinksOf(list)
      BY <3>1 DEF LinksOf, Joined, size
    <3> QED
      BY <3>2
  <2>2. CASE i = size
    <3>1. i - 1 \in 1..(size - 1) /\ (i - 1) + 1 = i
      BY <1>0, <2>2
    <3>2. <<list[i - 1], list[(i - 1) + 1]>> \in LinksOf(list)
      BY <3>1 DEF LinksOf, Joined, size
    <3> QED
      BY <3>1, <3>2
  <2> QED
    BY <1>0, <2>1, <2>2
<1> QED
  BY <1>0, <1>1 DEF Range

\* Buffers reach every element of the chain and of a branch that the tee feeds.
LEMMA BranchIsFed ==
    ASSUME NEW some, NEW b \in DOMAIN Branch,
           LinksOf(Chain) \subseteq some, BranchLinks(b) \subseteq some
    PROVE  Range(Chain) \subseteq Fed(some) /\ Range(Branch[b]) \subseteq Fed(some)
<1> DEFINE size == Len(Branch[b])
           path == [i \in 1..(15 + size) |-> IF i <= 15 THEN Chain[i] ELSE Branch[b][i - 15]]
<1>1. Len(Chain) = 15 /\ size \in 1..6 /\ DOMAIN Chain = 1..15 /\ DOMAIN Branch[b] = 1..size
  BY ListsAreLists DEF Chain, Branch
<1> HIDE DEF size
<1>0. 15 + size \in 1..21 /\ 15 + size - 1 \in Nat
  BY <1>1
<1>2. path[1] = "streammux_"
  BY <1>1 DEF Chain
<1>3. ASSUME NEW i \in 1..(15 + size - 1)
      PROVE  <<path[i], path[i + 1]>> \in some
  <2>1. CASE i < 15
    <3>1. <<Chain[i], Chain[i + 1]>> \in LinksOf(Chain)
      BY <1>1, <2>1 DEF LinksOf, Joined
    <3>2. path[i] = Chain[i] /\ path[i + 1] = Chain[i + 1]
      BY <1>1, <2>1
    <3> QED
      BY <3>1, <3>2
  <2>2. CASE i = 15
    <3>1. Chain[15] = Tee
      BY DEF Chain, Tee
    <3>2. path[i] = Chain[15] /\ path[i + 1] = Branch[b][1]
      BY <1>1, <2>2
    <3> QED
      BY <3>1, <3>2 DEF BranchLinks, Teed
  <2>3. CASE i > 15
    <3> DEFINE j == i - 15
    <3>1. j \in 1..(size - 1) /\ (i + 1) - 15 = j + 1
      BY <1>1, <2>3
    <3>2. <<Branch[b][j], Branch[b][j + 1]>> \in BranchLinks(b)
      BY <3>1 DEF BranchLinks, LinksOf, Joined, size
    <3>3. path[i] = Branch[b][j] /\ path[i + 1] = Branch[b][(i + 1) - 15]
      BY <1>1, <2>3
    <3> QED
      BY <3>1, <3>2, <3>3
  <2>4. i < 15 \/ i = 15 \/ i > 15
    BY <1>1
  <2> HIDE DEF path
  <2> QED
    BY <2>1, <2>2, <2>3, <2>4
<1>4. \A i \in 1..(15 + size) : path[i] \in Fed(some)
  <2> DEFINE length == 15 + size
  <2> HIDE DEF path
  <2>1. \A i \in 1..(15 + size - 1) : <<path[i], path[i + 1]>> \in some
    BY <1>3
  <2>2. 15 + size - 1 = length - 1 /\ length \in 1..21
    BY <1>1
  <2>3. \A i \in 1..(length - 1) : <<path[i], path[i + 1]>> \in some
    BY <2>1, <2>2, Zenon
  <2> HIDE DEF length
  <2>4. \A i \in 1..length : path[i] \in Fed(some)
    BY <1>2, <2>2, <2>3, PathIsFed
  <2> QED
    BY <2>4 DEF length
<1>5. ASSUME NEW i \in 1..15
      PROVE  Chain[i] \in Fed(some)
  <2>1. path[i] = Chain[i] /\ i \in 1..(15 + size)
    BY <1>1
  <2> QED
    BY <1>4, <2>1
<1>6. ASSUME NEW j \in 1..size
      PROVE  Branch[b][j] \in Fed(some)
  <2>1. path[j + 15] = Branch[b][(j + 15) - 15] /\ j + 15 \in 1..(15 + size)
    BY <1>1
  <2>2. (j + 15) - 15 = j
    BY <1>1
  <2> QED
    BY <1>4, <2>1, <2>2
<1> QED
  BY <1>1, <1>5, <1>6 DEF Range

\* What a started pipeline is made of and linked with.
LEMMA RunningIsWhole ==
    ASSUME IInv, Started
    PROVE  /\ LinksOf(Chain) \subseteq links
           /\ \A b \in Branches : BranchLinks(b) \subseteq links
           /\ children \ Unlinked
                = Range(Chain) \union UNION {Range(Branch[b]) : b \in Branches}
           /\ \A b \in Branches :
                Range(Chain) \subseteq Fed(links) /\ Range(Branch[b]) \subseteq Fed(links)
<1>1. step \in ChainedAt /\ \A b \in DOMAIN Branch : step \in LinkedAt(b) /\ step \in TeedAt(b)
  BY ListsAreLists DEF Started, ChainedAt, BuildSteps, LinkedAt, TeedAt, TeeStep
<1>2. Branches \subseteq DOMAIN Branch
  BY DEF Branches
<1>3. LinksOf(Chain) \subseteq links /\ \A b \in Branches : BranchLinks(b) \subseteq links
  BY <1>1, <1>2 DEF IInv, Linked, BranchLinks
<1>4. \A b \in Branches :
        Range(Chain) \subseteq Fed(links) /\ Range(Branch[b]) \subseteq Fed(links)
  BY <1>2, <1>3, BranchIsFed
<1>5. Range(Chain) \subseteq children /\ \A b \in Branches : Range(Branch[b]) \subseteq children
  <2>1. links \subseteq children \X children
    BY DEF IInv, Built, TypeOK
  <2>2. Len(Chain) > 1 /\ \A b \in DOMAIN Branch : Len(Branch[b]) > 1
    BY ListsAreLists DEF Chain, Branch
  <2> QED
    BY <1>2, <1>3, <2>1, <2>2, ListIsLinked, ListsAreLists DEF BranchLinks
<1>6. "preprocess_" \notin Range(Chain) /\ \A b \in Branches : "preprocess_" \notin Range(Branch[b])
  BY <1>2, Lists, ListsAreLists
<1>7. children \subseteq AskedElements
  BY DEF IInv, Asked
<1> QED
  BY <1>3, <1>4, <1>5, <1>6, <1>7 DEF AskedElements, Unlinked

\* The ends of the links.
LEMMA LinksStay ==
    ASSUME NEW b \in DOMAIN Branch
    PROVE  /\ \A p \in LinksOf(Chain) : p[2] \in Range(Chain)
           /\ \A p \in BranchLinks(b) : p[2] \in Range(Branch[b])
           /\ \A p \in BranchLinks(b) : p[1] \in Range(Branch[b]) \union {Tee}
<1>1. Len(Chain) = 15 /\ DOMAIN Chain = 1..15
  BY DEF Chain
<1>2. Len(Branch[b]) \in 1..6 /\ DOMAIN Branch[b] = 1..Len(Branch[b])
  BY ListsAreLists DEF Branch
<1> DEFINE size == Len(Branch[b])
<1>3. ASSUME NEW i \in 1..(15 - 1)
      PROVE  Chain[i + 1] \in Range(Chain)
  BY <1>1 DEF Range
<1>4. \A p \in LinksOf(Chain) : p[2] \in Range(Chain)
  BY <1>1, <1>3 DEF LinksOf, Joined
<1>5. ASSUME NEW i \in 1..(size - 1)
      PROVE  Branch[b][i] \in Range(Branch[b]) /\ Branch[b][i + 1] \in Range(Branch[b])
  BY <1>2 DEF Range
<1>6. Branch[b][1] \in Range(Branch[b])
  BY <1>2 DEF Range
<1> QED
  BY <1>4, <1>5, <1>6 DEF BranchLinks, LinksOf, Joined, Teed

\* Up to nvanalytics_ there is one way, and it is the chain.
LEMMA BeforeProbe ==
    ASSUME NEW p \in LinksOf(Chain),
           p[1] \in {"streammux_", "queue0_", "nvvidconv_", "capsfilter0_", "pgie_",
                     "queue1_", "tracker_", "queue2_"}
    PROVE  p[2] \in {"streammux_", "queue0_", "nvvidconv_", "capsfilter0_", "pgie_",
                     "queue1_", "tracker_", "queue2_", "nvanalytics_"}
<1>1. PICK i \in 1..14 : p = <<Chain[i], Chain[i + 1]>>
  BY DEF LinksOf, Joined, Chain
<1>2. i \in 1..8
  <2>1. \A j \in 9..14 : Chain[j] \in {"nvanalytics_", "queue3_", "tiler_", "queue4_",
                                         "nvosd_", "queue5_"}
    BY DEF Chain
  <2> QED
    BY <1>1, <2>1
<1>3. \A j \in 1..8 :
        Chain[j + 1] \in {"queue0_", "nvvidconv_", "capsfilter0_", "pgie_",
                          "queue1_", "tracker_", "queue2_", "nvanalytics_"}
  BY DEF Chain
<1> QED
  BY <1>1, <1>2, <1>3

LEMMA SinksOfBranches ==
    \A b \in DOMAIN Branch :
        /\ SinkOf(b) \in Range(Branch[b])
        /\ SinkOf(b) \notin Range(Chain)
<1>1. SinkOf("display") = "sink_" /\ SinkOf("tcp") = "tcp_server_sink_"
      /\ SinkOf("udp") = "udp_sink_"
  BY DEF SinkOf, Branch
<1> QED
  BY <1>1, Lists, ListsAreLists

----------------------------------------------------------------------------
\* The bin holds only elements that exist, under different names, and links
\* only elements of the bin, whichever sinks are enabled and whatever is
\* refused (Pipeline.cpp:823-890).
THEOREM TypeCorrect == Spec => []TypeOK
<1>1. IInv => TypeOK
  BY DEF IInv, Built
<1> QED
  BY <1>1, Inductive, PTL

\* Whichever sinks are enabled and whatever was refused on earlier starts, the
\* sinks of a started pipeline are fed, and every path from the muxer to one of
\* them leads through the probed pad (Pipeline.cpp:841-890,
\* perception.cpp:405-418).
THEOREM SinksSeeProbedFramesHolds == Spec => []SinksSeeProbedFrames
<1>1. IInv => SinksSeeProbedFrames
  <2> SUFFICES ASSUME IInv, Started
               PROVE  /\ probed
                      /\ \A b \in Branches :
                           SinkOf(b) \in Fed(links) /\ SinkOf(b) \notin Fed(AfterProbe)
    BY DEF SinksSeeProbedFrames
  <2>1. probed
    BY DEF IInv, Watched, Started
  <2> DEFINE before == {"streammux_", "queue0_", "nvvidconv_", "capsfilter0_", "pgie_",
                        "queue1_", "tracker_", "queue2_", "nvanalytics_"}
  <2>2. ASSUME NEW p \in AfterProbe, p[1] \in before
        PROVE  p[2] \in before
    <3>1. p \in AskedLinks /\ p[1] # "nvanalytics_"
      BY DEF AfterProbe, IInv, Asked
    <3>2. CASE p \in LinksOf(Chain)
      BY <2>2, <3>1, <3>2, BeforeProbe
    <3>3. CASE \E b \in Branches : p \in BranchLinks(b)
      <4>1. PICK b \in DOMAIN Branch : p[1] \in Range(Branch[b]) \union {Tee}
        BY <3>3, LinksStay DEF Branches
      <4> QED
        BY <2>2, <4>1, Lists, ListsAreLists DEF Tee
    <3> QED
      BY <3>1, <3>2, <3>3 DEF AskedLinks
  <2>3. Fed(AfterProbe) \subseteq before
    <3>1. "streammux_" \in before
      OBVIOUS
    <3> HIDE DEF before
    <3> QED
      BY <2>2, <3>1, FedStays
  <2>4. before \subseteq Range(Chain)
    BY Lists
  <2> QED
    BY <2>1, <2>3, <2>4, RunningIsWhole, SinksOfBranches DEF Branches
<1> QED
  BY <1>1, Inductive, PTL

\* A started pipeline holds, but for preprocess_, exactly the elements that
\* buffers reach: no sink waits for a first buffer in vain, and nothing is
\* linked to what is not in the bin (Pipeline.cpp:563).
THEOREM NoStrayElementHolds == Spec => []NoStrayElement
<1>1. IInv => NoStrayElement
  <2> SUFFICES ASSUME IInv, Started
               PROVE  children \ Unlinked = Fed(links)
    BY DEF NoStrayElement
  <2> DEFINE whole == Range(Chain) \union UNION {Range(Branch[b]) : b \in Branches}
  <2>1. children \ Unlinked = whole
    BY RunningIsWhole
  <2>2. whole \subseteq Fed(links)
    <3>1. "display" \in Branches
      BY ListsAreLists DEF Branches, Enabled
    <3> QED
      BY <3>1, RunningIsWhole
  <2>3. \A p \in links : p[2] \in whole
    <3>1. ASSUME NEW p \in links
          PROVE  p[2] \in whole
      <4>1. p \in AskedLinks
        BY DEF IInv, Asked
      <4>2. CASE p \in LinksOf(Chain)
        BY <4>2, LinksStay, ListsAreLists
      <4>3. CASE \E b \in Branches : p \in BranchLinks(b)
        BY <4>3, LinksStay DEF Branches
      <4> QED
        BY <4>1, <4>2, <4>3 DEF AskedLinks
    <3> QED
      BY <3>1
  <2>4. "streammux_" \in whole
    BY Lists
  <2> HIDE DEF whole
  <2>5. Fed(links) \subseteq whole
    BY <2>3, <2>4, FedStays
  <2> QED
    BY <2>1, <2>2, <2>5
<1> QED
  BY <1>1, Inductive, PTL

\* With both network sinks enabled the pipeline is never started: the caps filter of
\* one of them is missing from the bin, so its branch cannot have been linked
\* (Pipeline.cpp:645-684, :879).
THEOREM OneNetworkSinkHolds == Spec => []OneNetworkSink
<1>1. IInv => OneNetworkSink
  <2> SUFFICES ASSUME IInv, Started, Enabled("tcp"), Enabled("udp")
               PROVE  FALSE
    BY DEF OneNetworkSink
  <2>1. "tcp" \in Branches /\ "udp" \in Branches
    BY ListsAreLists DEF Branches
  <2>2. "tcp_caps_" \in children /\ "udp_caps_" \in children
    BY <2>1, RunningIsWhole, Lists
  <2>3. GstName("tcp_caps_") = GstName("udp_caps_")
    BY DEF GstName
  <2> QED
    BY <2>2, <2>3 DEF IInv, Built, TypeOK
<1> QED
  BY <1>1, Inductive, PTL

=============================================================================
