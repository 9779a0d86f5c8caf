------------------------------- MODULE Probe -------------------------------
(***************************************************************************)
(* nvanalytics_src_pad_buffer_probe (perception.cpp): the walk over the    *)
(* metadata of a batch.  Frames, their objects and the user metadata of an *)
(* object are nested lists; one ObjInfo is made and queued per user        *)
(* metadata, with the regions and the embedding read so far.  ObjInfo owns *)
(* a copy of the embedding on the heap; the queue passes it on by move and *)
(* the broker thread destroys it with pop().  The queue is under mtx,      *)
(* which that thread holds while it tries to publish the front entry.      *)
(*                                                                         *)
(* The metadata (DeepStream: tracker and analytics) are external: they are *)
(* chosen as the walk reaches them, null entries being skipped.  A region  *)
(* or an embedding is represented by where it was read.                    *)
(***************************************************************************)
EXTENDS Integers, Sequences, FiniteSets

CONSTANTS
    Pad,                \* muxer pads
    Object,             \* identities the tracker gives
    Block,              \* addresses new[] may return
    Null,               \* nullptr
    Garbage,            \* what lies outside the rows of the tensor
    FRAME_INTERVAL,     \* settings["mqtt-broker"]["frame-interval"]
    MaxFrames,          \* bound: frames of a camera
    MaxMetas,           \* bound: user metadata of an object
    MaxQueue            \* bound: entries of obj_list

ASSUME ProbeAssumption ==
    /\ FRAME_INTERVAL \in Nat \ {0}
    /\ MaxFrames \in Nat /\ MaxMetas \in Nat /\ MaxQueue \in Nat
    /\ IsFiniteSet(Block) /\ Cardinality(Block) > MaxQueue
    /\ Null \notin Block

\* User metadata of an object: analytics in some region, a valid and an
\* invalid index of the tracker's tensor, and whatever the probe ignores.
MetaKind == {"roi", "reid", "noReid", "other"}

\* Where something was read: the camera, the frame and the object.
Place == [pad : Pad, frame : Nat, object : Object]
Region == [at : Place, meta : Nat]
Content == Place \union {Garbage}

ASSUME NullAssumption == Null \notin Block /\ Null \notin Content

ObjInfo == [at : Place, roi : SUBSET Region, embeddings : Block \union {Null}]

\* No local entry, or what the move constructor leaves of it.
NoInfo == [embeddings |-> Null]

VARIABLES
    pc,             \* "idle", "batch", "frame", "object", "push"
    pReidTensor,    \* "null", "empty" (numFilled = 0), "filled"
    pad, frame_num, \* frame_meta
    todo,           \* objects of the frame still to be walked over
    object,         \* obj_meta->object_id
    metas,          \* user metadata of the object read so far
    roi_list,
    embeddings_data,\* row of the tensor pointed to
    obj_info,       \* the local ObjInfo
    obj_list,       \* AppCtx->obj_list
    mtx,            \* AppCtx->mtx: "free", or "broker" while it publishes
    heap,           \* contents of the blocks that are allocated
    delivered,      \* frames of each camera that came to the probe
    last            \* history: what the last entry of the object said

walkVars == <<pc, pReidTensor, pad, frame_num, todo, object, metas, delivered>>
readVars == <<roi_list, embeddings_data>>
ownVars == <<obj_info, obj_list, heap, mtx>>
vars == <<walkVars, readVars, ownVars, last>>

Init ==
    /\ pc = "idle" /\ pReidTensor = "null"
    /\ pad \in Pad /\ frame_num = 0 /\ todo = {} /\ object \in Object
    /\ metas = <<>>
    /\ roi_list = {} /\ embeddings_data = Null
    /\ obj_info = NoInfo /\ obj_list = <<>> /\ mtx = "free"
    /\ heap = [b \in {} |-> Garbage]
    /\ delivered = [p \in Pad |-> 0]
    /\ last = [roi |-> {}, embedding |-> Null]

Here == [pad |-> pad, frame |-> frame_num, object |-> object]

----------------------------------------------------------------------------
(* The walk                                                                *)

\* The batch's user metadata are searched for the tracker's tensor.
BeginBatch ==
    /\ pc = "idle"
    /\ pc' = "batch"
    /\ pReidTensor' \in {"null", "empty", "filled"}
    /\ UNCHANGED <<pad, frame_num, todo, object, metas, delivered, readVars,
                   ownVars, last>>

\* Mutant: the number of the frame before.
BeginFrameOneLess(p) ==
    /\ pc = "batch" /\ delivered[p] < MaxFrames
    /\ pc' = "frame"
    /\ pad' = p /\ frame_num' = delivered[p] - 1
    /\ delivered' = [delivered EXCEPT ![p] = @ + 1]
    /\ IF delivered[p] % FRAME_INTERVAL = 0 THEN todo' \in SUBSET Object
                                            ELSE todo' = {}
    /\ UNCHANGED <<pReidTensor, object, metas, readVars, ownVars, last>>

\* Objects of a frame that is not on the interval are walked over without
\* effect.
BeginFrame(p) ==
    /\ pc = "batch" /\ delivered[p] < MaxFrames
    /\ pc' = "frame"
    /\ pad' = p /\ frame_num' = delivered[p]
    /\ delivered' = [delivered EXCEPT ![p] = @ + 1]
    /\ IF delivered[p] % FRAME_INTERVAL = 0 THEN todo' \in SUBSET Object
                                            ELSE todo' = {}
    /\ UNCHANGED <<pReidTensor, object, metas, readVars, ownVars, last>>

\* Mutant: the lists of the last object are not emptied.
BeginObjectKeepsLists(o) ==
    /\ pc = "frame" /\ o \in todo
    /\ pc' = "object"
    /\ todo' = todo \ {o} /\ object' = o /\ metas' = <<>>
    /\ last' = [roi |-> {}, embedding |-> Null]
    /\ UNCHANGED <<pReidTensor, pad, frame_num, delivered, readVars, ownVars>>

BeginObject(o) ==
    /\ pc = "frame" /\ o \in todo
    /\ pc' = "object"
    /\ todo' = todo \ {o} /\ object' = o /\ metas' = <<>>
    /\ roi_list' = {} /\ embeddings_data' = Null
    /\ last' = [roi |-> {}, embedding |-> Null]
    /\ UNCHANGED <<pReidTensor, pad, frame_num, delivered, ownVars>>

\* Mutant: the index -1 of an object without features is used.
ReadUnchecked(kind) ==
    /\ roi_list' = IF kind = "roi"
                   THEN roi_list \union {[at |-> Here, meta |-> Len(metas) + 1]}
                   ELSE roi_list
    /\ embeddings_data' =
         IF pReidTensor = "filled" /\ kind \in {"reid", "noReid"}
         THEN IF kind = "reid" THEN Here ELSE Garbage
         ELSE embeddings_data

\* Mutant: only the regions of the last metadata are kept.
ReadLastOnly(kind) ==
    /\ roi_list' = IF kind = "roi" THEN {[at |-> Here, meta |-> Len(metas) + 1]} ELSE {}
    /\ embeddings_data' = IF pReidTensor = "filled" /\ kind = "reid"
                          THEN Here ELSE embeddings_data

\* What one user metadata adds to the lists.
Read(kind) ==
    /\ roi_list' = IF kind = "roi"
                   THEN roi_list \union {[at |-> Here, meta |-> Len(metas) + 1]}
                   ELSE roi_list
    /\ embeddings_data' = IF pReidTensor = "filled" /\ kind = "reid"
                          THEN Here ELSE embeddings_data

\* ObjInfo(...): the row is copied to a new block.
Construct(row, rois) ==
    IF row = Null
    THEN /\ obj_info' = [at |-> Here, roi |-> rois, embeddings |-> Null]
         /\ UNCHANGED heap
    ELSE \E b \in Block \ DOMAIN heap :
           /\ obj_info' = [at |-> Here, roi |-> rois, embeddings |-> b]
           /\ heap' = [a \in DOMAIN heap \union {b} |-> IF a = b THEN row ELSE heap[a]]

ReadMeta(kind) ==
    /\ pc = "object"
    /\ Len(metas) < MaxMetas /\ Len(obj_list) < MaxQueue
    /\ pc' = "push"
    /\ metas' = Append(metas, kind)
    /\ Read(kind)
    /\ Construct(embeddings_data', roi_list')
    /\ UNCHANGED <<pReidTensor, pad, frame_num, todo, object, delivered, obj_list,
                   mtx, last>>

\* Mutant: the moved-from object keeps its pointer and frees it.
Drop(b) == heap' = [a \in DOMAIN heap \ {b} |-> heap[a]]

PushFreesMoved ==
    /\ pc = "push" /\ mtx = "free"
    /\ pc' = "object"
    /\ obj_list' = Append(obj_list, obj_info)
    /\ obj_info' = NoInfo
    /\ Drop(obj_info.embeddings)
    /\ last' = [roi |-> obj_info.roi,
                embedding |-> IF obj_info.embeddings = Null
                              THEN Null ELSE heap[obj_info.embeddings]]
    /\ UNCHANGED <<pReidTensor, pad, frame_num, todo, object, metas, delivered,
                   readVars, mtx>>

\* The probe waits for mtx, takes it and lets it go: one step with respect to
\* the broker thread.  The move constructor passes the block to the queue, and
\* the local object, which holds none any more, is destroyed.
Push ==
    /\ pc = "push" /\ mtx = "free"
    /\ pc' = "object"
    /\ obj_list' = Append(obj_list, obj_info)
    /\ obj_info' = NoInfo
    /\ last' = [roi |-> obj_info.roi,
                embedding |-> IF obj_info.embeddings = Null
                              THEN Null ELSE heap[obj_info.embeddings]]
    /\ UNCHANGED <<pReidTensor, pad, frame_num, todo, object, metas, delivered,
                   readVars, heap, mtx>>

EndObject ==
    /\ pc = "object"
    /\ pc' = "frame"
    /\ UNCHANGED <<pReidTensor, pad, frame_num, todo, object, metas, delivered,
                   readVars, ownVars, last>>

EndFrame ==
    /\ pc = "frame" /\ todo = {}
    /\ pc' = "batch"
    /\ UNCHANGED <<pReidTensor, pad, frame_num, todo, object, metas, delivered,
                   readVars, ownVars, last>>

EndBatch ==
    /\ pc = "batch"
    /\ pc' = "idle" /\ pReidTensor' = "null"
    /\ UNCHANGED <<pad, frame_num, todo, object, metas, delivered, readVars,
                   ownVars, last>>

----------------------------------------------------------------------------
(* The broker thread                                                       *)

\* The front entry is taken to be published, under mtx.
Take ==
    /\ mtx = "free" /\ obj_list # <<>>
    /\ mtx' = "broker"
    /\ UNCHANGED <<walkVars, readVars, obj_info, obj_list, heap, last>>

\* It has been published: pop() destroys it.
Pop ==
    /\ mtx = "broker"
    /\ mtx' = "free"
    /\ obj_list' = Tail(obj_list)
    /\ heap' = [a \in DOMAIN heap \ {Head(obj_list).embeddings} |-> heap[a]]
    /\ UNCHANGED <<walkVars, readVars, obj_info, last>>

\* Every attempt failed: it stays at the front.
GiveUp ==
    /\ mtx = "broker"
    /\ mtx' = "free"
    /\ UNCHANGED <<walkVars, readVars, obj_info, obj_list, heap, last>>

----------------------------------------------------------------------------
Walk ==
    \/ BeginBatch \/ EndBatch
    \/ \E p \in Pad : BeginFrame(p)
    \/ EndFrame
    \/ \E o \in Object : BeginObject(o)
    \/ EndObject
    \/ \E kind \in MetaKind : ReadMeta(kind)
    \/ Push

Broker == Take \/ Pop \/ GiveUp

Next == Walk \/ Broker

Spec == Init /\ [][Next]_vars

----------------------------------------------------------------------------
(* Properties                                                              *)

TypeOK ==
    /\ pc \in {"idle", "batch", "frame", "object", "push"}
    /\ pReidTensor \in {"null", "empty", "filled"}
    /\ pad \in Pad /\ frame_num \in Nat /\ object \in Object
    /\ todo \subseteq Object
    /\ metas \in Seq(MetaKind)
    /\ roi_list \subseteq Region
    /\ embeddings_data \in Content \union {Null}
    /\ obj_info \in ObjInfo \union {NoInfo}
    /\ obj_list \in Seq(ObjInfo)
    /\ mtx \in {"free", "broker"}
    /\ DOMAIN heap \subseteq Block
    /\ \A b \in DOMAIN heap : heap[b] \in Content
    /\ delivered \in [Pad -> Nat]
    /\ last \in [roi : SUBSET Region, embedding : Content \union {Null}]

\* What the lists say of the object so far.
RegionsRead ==
    {[at |-> Here, meta |-> i] : i \in {j \in 1..Len(metas) : metas[j] = "roi"}}

EmbeddingRead ==
    IF pReidTensor = "filled" /\ \E i \in 1..Len(metas) : metas[i] = "reid"
    THEN Here ELSE Null

\* The last entry of an object says all that was read of it: every region,
\* and its embedding when the tracker has one.  Earlier entries of the same
\* frame may lack what comes later in the list (perception.cpp:709-819).
LastEntryComplete ==
    pc = "object" /\ metas # <<>> =>
        last.roi = RegionsRead /\ last.embedding = EmbeddingRead

OfOneObject(e) ==
    /\ \A r \in e.roi : r.at = e.at
    /\ e.embeddings # Null =>
         e.embeddings \in DOMAIN heap /\ heap[e.embeddings] = e.at

\* No entry in the queue carries a region or an embedding of another object,
\* frame or camera, whatever the lists contain and however far the broker
\* thread is behind (perception.cpp:702-706, :750-755, :806-819).
NothingForeign == \A i \in 1..Len(obj_list) : OfOneObject(obj_list[i])

\* Entries of the queue that hold a block.
Owners == {i \in 1..Len(obj_list) : obj_list[i].embeddings # Null}

\* Every block on the heap has exactly one owner, the local entry or one in
\* the queue: nothing is freed twice, used after it was freed or lost
\* (ObjInfo.hpp:58-122).
EmbeddingOwned ==
    /\ \A i, j \in Owners :
         i # j => obj_list[i].embeddings # obj_list[j].embeddings
    /\ \A i \in Owners : obj_list[i].embeddings # obj_info.embeddings
    /\ DOMAIN heap = ({obj_list[i].embeddings : i \in Owners}
                         \union {obj_info.embeddings}) \ {Null}

=============================================================================
