---------------------------- MODULE PipelineGraph ----------------------------
(***************************************************************************)
(* How perception builds its GStreamer pipeline and starts it: the         *)
(* constructor of Pipeline makes the elements, puts them in a bin and      *)
(* links them, main() puts the probe on nvanalytics and plays.  Anything   *)
(* that fails throws (or aborts) out of main(), and docker starts the      *)
(* process again with the same configuration file.                         *)
(*                                                                         *)
(* An element is named by the member of Pipeline that points to it.  The   *)
(* settings that decide which elements exist are chosen once; everything   *)
(* else of the configuration is whether GStreamer and the parsers accept   *)
(* it, and each refusal uses up one of a bounded number of faults.         *)
(***************************************************************************)
EXTENDS Naturals, Sequences, FiniteSets, Functions

CONSTANT MaxFaults      \* bound: refusals by GStreamer, parsers and elements

ASSUME FaultsAssumption == MaxFaults \in Nat

Chain ==
    <<"streammux_", "queue0_", "nvvidconv_", "capsfilter0_", "pgie_",
      "queue1_", "tracker_", "queue2_", "nvanalytics_", "queue3_", "tiler_",
      "queue4_", "nvosd_", "queue5_", "sinktee_">>

\* What follows the tee: the window (or fakesink), and the two network sinks.
Branch ==
    [display |-> <<"queue6_", "sink_">>,
     tcp |-> <<"queue8_", "tcp_nvvidconv_postosd_", "tcp_caps_",
               "tcp_encoder_", "tcp_rtppay_", "tcp_server_sink_">>,
     udp |-> <<"queue7_", "nvvidconv_postosd_", "udp_caps_", "encoder_",
               "rtppay_", "udp_sink_">>]

Network == {"tcp", "udp"}
Tee == "sinktee_"

\* preprocess_ is made and added, and linked to nothing.
Unlinked == {"preprocess_"}

Element == Unlinked \union Range(Chain)
             \union UNION {Range(Branch[b]) : b \in DOMAIN Branch}

\* Mutant: every element with a name of its own.
OwnName(e) == e

\* The name given to gst_element_factory_make: the two network branches use
\* the same one for their caps filter, their encoder and their payloader.
GstName(e) ==
    IF e \in {"tcp_caps_", "udp_caps_"} THEN "filter"
    ELSE IF e \in {"tcp_encoder_", "encoder_"} THEN "encoder"
    ELSE IF e \in {"tcp_rtppay_", "rtppay_"} THEN "rtppay"
    ELSE e

VARIABLES
    settings,   \* rtsp-sink.enable, tcp-sink.enable, udp-sink.enable
    step,       \* where the start of the program is
    made,       \* elements gst_element_factory_make returned
    children,   \* elements in the pipeline
    links,      \* <<e, f>>: a pad of e is linked to a pad of f
    servers,    \* network sinks whose RTSP server is attached
    probed,     \* the probe is on nvanalytics' src pad
    faults      \* refusals left

graph == <<made, children, links>>
vars == <<settings, step, graph, servers, probed, faults>>

\* A branch exists: the display always, a network sink when it and rtsp-sink
\* are enabled.
Enabled(b) == b = "display" \/ (settings.rtsp /\ settings[b])
Branches == {b \in DOMAIN Branch : Enabled(b)}

Step ==
    {"parse", "servers", "object", "elements", "properties", "add", "chain",
     "display", "teeDisplay", "tcp", "teeTcp", "udp", "teeUdp",
     "probe", "play", "waiting", "flowing", "running", "terminated"}

Init ==
    /\ settings \in [{"rtsp", "tcp", "udp"} -> BOOLEAN]
    /\ step = "parse"
    /\ made = {} /\ children = {} /\ links = {}
    /\ servers = {} /\ probed = FALSE
    /\ faults = MaxFaults

Accepted(next) == step' = next /\ UNCHANGED faults
Refused == faults > 0 /\ faults' = faults - 1 /\ step' = "terminated"

----------------------------------------------------------------------------
(* Pipeline::Pipeline                                                      *)

\* nvds_parse_gie_type and YAML::LoadFile.
ParseConfig ==
    /\ step = "parse"
    /\ Accepted("servers") \/ Refused
    /\ UNCHANGED <<settings, graph, servers, probed>>

\* create_rtsp_server, once per enabled network sink.  The result of
\* gst_rtsp_server_attach is not looked at: a taken port leaves no server.
CreateServers ==
    /\ step = "servers"
    /\ \/ /\ servers' = Network \intersect Branches
          /\ UNCHANGED faults
       \/ \E b \in Network \intersect Branches :
            /\ servers' = (Network \intersect Branches) \ {b}
            /\ faults > 0 /\ faults' = faults - 1
    /\ step' = "object"
    /\ UNCHANGED <<settings, graph, probed>>

CreateObject ==
    /\ step = "object"
    /\ Accepted("elements") \/ Refused
    /\ UNCHANGED <<settings, graph, servers, probed>>

\* The elements the settings ask for; the queues of both network branches
\* are made in any case.
Wanted ==
    Unlinked \union Range(Chain) \union {"queue7_", "queue8_"}
      \union UNION {Range(Branch[b]) : b \in Branches}

\* Mutant: the members of a disabled branch are tested too.
CheckedAll == Element

\* The elements tested for NULL: all of them.
Checked == Wanted

\* Mutant: the UDP branch is made without a look at rtsp-sink.enable.
CreateElementsUnasked ==
    /\ step = "elements"
    /\ made' = IF settings.udp THEN Wanted \union Range(Branch["udp"]) ELSE Wanted
    /\ Accepted("properties")
    /\ UNCHANGED <<settings, children, links, servers, probed>>

CreateElements ==
    /\ step = "elements"
    /\ \/ made' = Wanted /\ UNCHANGED faults
       \/ /\ \E e \in Wanted : made' = Wanted \ {e}
          /\ faults > 0 /\ faults' = faults - 1
    /\ step' = IF Checked \subseteq made' THEN "properties" ELSE "terminated"
    /\ UNCHANGED <<settings, children, links, servers, probed>>

\* The DeepStream parsers and the conversions of YAML nodes.
SetProperties ==
    /\ step = "properties"
    /\ Accepted("add") \/ Refused
    /\ UNCHANGED <<settings, graph, servers, probed>>

----------------------------------------------------------------------------
(* link_pipeline_elements                                                  *)

\* A NULL in the arguments of gst_bin_add_many or gst_element_link_many ends
\* the list: what follows is left out without an error.
Listed(list) ==
    LET missing == {i \in DOMAIN list : list[i] \notin made}
    IN  IF missing = {} THEN list
        ELSE SubSeq(list, 1, (CHOOSE i \in missing : \A j \in missing : i <= j) - 1)

\* gst_bin_add refuses, and frees, an element whose name is taken; the result
\* is not looked at.
Added(list, bin) ==
    bin \union {e \in Range(Listed(list)) : \A f \in bin : GstName(e) # GstName(f)}

\* The three calls that add what every pipeline has.
Calls ==
    {<<"queue0_", "queue1_", "queue2_", "queue3_", "queue4_", "queue5_", "queue6_">>,
     <<"streammux_", "preprocess_", "pgie_", "tracker_", "nvanalytics_">>,
     <<"tiler_", "nvvidconv_", "capsfilter0_", "nvosd_", "sinktee_", "sink_">>}

AddElements ==
    LET base == UNION {Range(Listed(list)) : list \in Calls}
        withTcp == IF Enabled("tcp") THEN Added(Branch["tcp"], base) ELSE base
    IN  /\ step = "add"
        /\ children' = IF Enabled("udp") THEN Added(Branch["udp"], withTcp)
                                         ELSE withTcp
        /\ Accepted("chain")
        /\ UNCHANGED <<settings, made, links, servers, probed>>

\* The links among the first n elements of a list.
Joined(list, n) == {<<list[i], list[i + 1]>> : i \in 1..(n - 1)}

\* Two elements can be linked when both are in the pipeline.
Linkable(e, f) == e \in children /\ f \in children

\* Mutant: the result of gst_element_link_many is not tested.
LinkManyUntested(list, next) ==
    LET l == Listed(list)
    IN  \E n \in 1..Len(l) :
          /\ \A p \in Joined(l, n) : Linkable(p[1], p[2])
          /\ links' = links \union Joined(l, n)
          /\ step' = next
          /\ IF n < Len(l) /\ Linkable(l[n], l[n + 1])
             THEN faults > 0 /\ faults' = faults - 1
             ELSE UNCHANGED faults

\* gst_element_link_many: all links, or the first n - 1 of them and an error
\* at the next, which throws.
LinkMany(list, next) ==
    LET l == Listed(list)
    IN  \/ /\ Len(l) > 1
           /\ \A p \in Joined(l, Len(l)) : Linkable(p[1], p[2])
           /\ links' = links \union Joined(l, Len(l))
           /\ Accepted(next)
        \/ \E n \in {1} \union 1..(Len(l) - 1) :
             /\ \A p \in Joined(l, n) : Linkable(p[1], p[2])
             /\ links' = links \union Joined(l, n)
             /\ IF n < Len(l) /\ Linkable(l[n], l[n + 1])
                THEN Refused
                ELSE Accepted("terminated")

LinkChain ==
    /\ step = "chain"
    /\ LinkMany(Chain, "display")
    /\ UNCHANGED <<settings, made, children, servers, probed>>

TeeStep == [display |-> "teeDisplay", tcp |-> "teeTcp", udp |-> "teeUdp"]

LinkBranch(b) ==
    /\ step = b
    /\ LinkMany(Branch[b], TeeStep[b])
    /\ UNCHANGED <<settings, made, children, servers, probed>>

\* Mutant: UDP is linked only when TCP is not enabled.
FollowingElse(b) ==
    IF b = "display" /\ Enabled("tcp") THEN "tcp"
    ELSE IF b = "display" /\ Enabled("udp") THEN "udp"
    ELSE "probe"

\* The display is linked first, then TCP, then UDP.
Following(b) ==
    IF b = "display" /\ Enabled("tcp") THEN "tcp"
    ELSE IF b # "udp" /\ Enabled("udp") THEN "udp"
    ELSE "probe"

\* connect_src_sink_pads(sinktee_, the branch's queue).
TeeBranch(b) ==
    LET queue == Branch[b][1]
    IN  /\ step = TeeStep[b]
        /\ \/ /\ Linkable(Tee, queue)
              /\ links' = links \union {<<Tee, queue>>}
              /\ Accepted(Following(b))
           \/ /\ Refused
              /\ UNCHANGED links
        /\ UNCHANGED <<settings, made, children, servers, probed>>

----------------------------------------------------------------------------
(* main() and docker                                                       *)

\* The sources are added next to this (StreamWatchdog).  Without a pad,
\* main() says so and goes on.
AddProbe ==
    /\ step = "probe"
    /\ probed' = ("nvanalytics_" \in made)
    /\ Accepted("play")
    /\ UNCHANGED <<settings, graph, servers>>

\* Pipeline::run asks for the state change, and waits in get_state without a
\* timeout ("waiting", "flowing").
Play ==
    /\ step = "play"
    /\ Accepted("waiting") \/ Refused
    /\ UNCHANGED <<settings, graph, servers, probed>>

\* A state change that fails, at once or later: g_error.
StateFails ==
    /\ step \in {"waiting", "flowing"}
    /\ Refused
    /\ UNCHANGED <<settings, graph, servers, probed>>

\* The cameras answer and the muxer gives its first buffers.  Until then
\* the call does not return, and nothing says that they ever will.
CamerasAnswer ==
    /\ step = "waiting"
    /\ Accepted("flowing")
    /\ UNCHANGED <<settings, graph, servers, probed>>

\* The elements that buffers in some elements reach through one of some links
\* (the bound variable has them evaluated once).
Onward(some, elements) ==
    UNION {these \union {p[2] : p \in {q \in some : q[1] \in these}} : these \in {elements}}

\* What buffers from the muxer reach through at most k of some links.
Reached(some) ==
    LET reach[k \in Nat] ==
          IF k = 0 THEN {"streammux_"} ELSE Onward(some, reach[k - 1])
    IN  reach

Fed(some) == Reached(some)[Cardinality(Element)]

SinkOf(b) == Branch[b][Len(Branch[b])]
Sinks == {SinkOf(b) : b \in DOMAIN Branch}

\* get_state returns when every sink of the pipeline has got a buffer.
StateReached ==
    /\ step = "flowing"
    /\ children \intersect Sinks \subseteq Fed(links)
    /\ Accepted("running")
    /\ UNCHANGED <<settings, graph, servers, probed>>

\* The same, when the inference element has no engine (EngineBuild).
PlayWithoutEngine ==
    /\ step = "play"
    /\ Accepted("terminated")
    /\ UNCHANGED <<settings, graph, servers, probed>>

\* bus_call: an ERROR or EOS message ends the main loop.
Quit ==
    /\ step = "running"
    /\ Accepted("terminated")
    /\ UNCHANGED <<settings, graph, servers, probed>>

\* restart: always.
Restart ==
    /\ step = "terminated"
    /\ Accepted("parse")
    /\ made' = {} /\ children' = {} /\ links' = {}
    /\ servers' = {} /\ probed' = FALSE
    /\ UNCHANGED settings

Construct ==
    \/ ParseConfig \/ CreateServers \/ CreateObject
    \/ CreateElements \/ SetProperties
    \/ AddElements \/ LinkChain
    \/ \E b \in DOMAIN Branch : LinkBranch(b) \/ TeeBranch(b)

Start == Construct \/ AddProbe \/ Play \/ PlayWithoutEngine \/ StateReached \/ Restart

Next == Start \/ CamerasAnswer \/ StateFails \/ Quit

Spec == Init /\ [][Next]_vars

----------------------------------------------------------------------------
(* Properties                                                              *)

\* The type invariant: only made elements are in the pipeline, only elements
\* in the pipeline are linked, and no two of them have one name
\* (Pipeline.cpp:823-838).
TypeOK ==
    /\ settings \in [{"rtsp", "tcp", "udp"} -> BOOLEAN]
    /\ step \in Step
    /\ made \subseteq Wanted
    /\ children \subseteq made
    /\ links \subseteq children \X children
    /\ \A e, f \in children : GstName(e) = GstName(f) => e = f
    /\ servers \subseteq Network /\ probed \in BOOLEAN
    /\ faults \in 0..MaxFaults

\* The pipeline has been told to play and no element has refused.
Started == step \in {"waiting", "flowing", "running"}

AfterProbe == {p \in links : p[1] # "nvanalytics_"}

\* From the moment the pipeline is started every enabled sink is fed, and
\* only with buffers that the probe has seen: what is shown or streamed is what
\* was counted and published (Pipeline.cpp:841-890, perception.cpp:405-418).
SinksSeeProbedFrames ==
    Started =>
        /\ probed
        /\ \A b \in Branches :
             SinkOf(b) \in Fed(links) /\ SinkOf(b) \notin Fed(AfterProbe)

\* A pipeline that is started holds no element that will get no buffers, but
\* for preprocess_: a sink without buffers never completes the state change
\* that Pipeline::run waits for (Pipeline.cpp:563).
NoStrayElement ==
    Started => children \ Unlinked = Fed(links)

\* No pipeline with both network sinks is ever started: the second branch finds
\* its names taken and cannot be linked (Pipeline.cpp:645-684, :879).
OneNetworkSink ==
    Started => ~(Enabled("tcp") /\ Enabled("udp"))

=============================================================================
