---------------------------- MODULE Probe_proofs ----------------------------
(***************************************************************************)
(* Proofs about Probe, for every set of cameras, objects and addresses and *)
(* every length of the lists: types, what an entry says, where it comes    *)
(* from, and who owns its embedding.                                       *)
(***************************************************************************)
EXTENDS Probe, SequenceTheorems, TLAPS

\* The local entry exists between its construction and its push.
Local ==
    IF pc = "push" THEN obj_info \in ObjInfo /\ obj_info.at = Here
                        /\ metas # <<>>
                   ELSE obj_info = NoInfo

\* The lists hold what was read of the current object.
Lists ==
    pc \in {"object", "push"} =>
        roi_list = RegionsRead /\ embeddings_data = EmbeddingRead

\* What the block of an entry holds.
EmbeddingOf(e) == IF e.embeddings = Null THEN Null ELSE heap[e.embeddings]

\* The local entry says what the lists say.
LocalComplete ==
    pc = "push" => /\ obj_info.roi = roi_list
                   /\ EmbeddingOf(obj_info) = embeddings_data
                   /\ obj_info.embeddings # Null => obj_info.embeddings \in DOMAIN heap

\* What is being published is still at the front.
FrontIsThere == mtx = "broker" => obj_list # <<>>

IInv ==
    /\ TypeOK
    /\ FrontIsThere
    /\ Local
    /\ Lists
    /\ LocalComplete
    /\ LastEntryComplete
    /\ NothingForeign
    /\ EmbeddingOwned

----------------------------------------------------------------------------
LEMMA HereFacts == TypeOK => Here \in Place /\ Here \in Content /\ Here # Null
BY NullAssumption DEF TypeOK, Here, Place, Content

\* An entry made from the lists of the current object is of that object only.
LEMMA LocalOfOneObject ==
    ASSUME TypeOK, Local, Lists, LocalComplete, pc = "push"
    PROVE  OfOneObject(obj_info)
<1>1. obj_info.at = Here /\ obj_info.roi = RegionsRead
  BY DEF Local, Lists, LocalComplete
<1>2. \A r \in obj_info.roi : r.at = obj_info.at
  BY <1>1 DEF RegionsRead
<1>3. obj_info.embeddings # Null =>
        /\ obj_info.embeddings \in DOMAIN heap
        /\ heap[obj_info.embeddings] = obj_info.at
  <2> SUFFICES ASSUME obj_info.embeddings # Null
               PROVE  /\ obj_info.embeddings \in DOMAIN heap
                      /\ heap[obj_info.embeddings] = obj_info.at
    OBVIOUS
  <2>1. /\ obj_info.embeddings \in DOMAIN heap
        /\ heap[obj_info.embeddings] = EmbeddingRead
    BY DEF LocalComplete, EmbeddingOf, Lists
  <2>2. heap[obj_info.embeddings] # Null
    BY <2>1, NullAssumption DEF TypeOK
  <2> QED
    BY <1>1, <2>1, <2>2 DEF EmbeddingRead
<1> QED
  BY <1>2, <1>3 DEF OfOneObject

----------------------------------------------------------------------------
LEMMA InvInit == Init => IInv
<1> SUFFICES ASSUME Init PROVE IInv
  OBVIOUS
<1>1. /\ metas = <<>> /\ metas \in Seq(MetaKind)
      /\ obj_list = <<>> /\ obj_list \in Seq(ObjInfo) /\ Len(obj_list) = 0
      /\ DOMAIN heap = {}
  BY DEF Init
<1>2. TypeOK
  BY <1>1 DEF Init, TypeOK
<1>3. EmbeddingOwned
  BY <1>1 DEF Init, EmbeddingOwned, Owners, NoInfo
<1> QED
  BY <1>1, <1>2, <1>3 DEF Init, IInv, FrontIsThere, Local, Lists, LocalComplete,
     LastEntryComplete, NothingForeign

\* Steps outside the list of an object's metadata.
LEMMA OutsideStep ==
    ASSUME IInv, TypeOK', pc # "push", pc' \notin {"object", "push"},
           UNCHANGED <<obj_info, obj_list, heap, mtx>>
    PROVE  IInv'
<1>1. FrontIsThere' /\ Local' /\ Lists' /\ LocalComplete' /\ LastEntryComplete'
  BY DEF IInv, FrontIsThere, Local, Lists, LocalComplete, LastEntryComplete
<1>2. NothingForeign'
  BY DEF IInv, NothingForeign, OfOneObject
<1>3. EmbeddingOwned'
  BY DEF IInv, EmbeddingOwned, Owners
<1> QED
  BY <1>1, <1>2, <1>3 DEF IInv

LEMMA FrameStep ==
    ASSUME IInv,
           \/ BeginBatch \/ EndBatch \/ EndFrame \/ EndObject
           \/ \E p \in Pad : BeginFrame(p)
    PROVE  IInv'
<1> USE DEF readVars, ownVars
<1>1. /\ pc # "push" /\ pc' \in {"idle", "batch", "frame"}
      /\ UNCHANGED <<obj_info, obj_list, heap, mtx, roi_list, embeddings_data, last,
                     metas, object>>
  BY DEF BeginBatch, EndBatch, EndFrame, EndObject, BeginFrame
<1>2. pReidTensor' \in {"null", "empty", "filled"}
  BY DEF IInv, TypeOK, BeginBatch, EndBatch, EndFrame, EndObject, BeginFrame
<1>3. /\ pad' \in Pad /\ frame_num' \in Nat /\ todo' \subseteq Object
      /\ delivered' \in [Pad -> Nat]
  BY DEF IInv, TypeOK, BeginBatch, EndBatch, EndFrame, EndObject, BeginFrame
<1>4. TypeOK'
  BY <1>1, <1>2, <1>3 DEF IInv, TypeOK
<1> QED
  BY <1>1, <1>4, OutsideStep

LEMMA ObjectStep ==
    ASSUME IInv, NEW o \in Object, BeginObject(o)
    PROVE  IInv'
<1> USE DEF readVars, ownVars
<1>1. /\ pc = "frame" /\ pc' = "object" /\ metas' = <<>>
      /\ roi_list' = {} /\ embeddings_data' = Null
      /\ last' = [roi |-> {}, embedding |-> Null]
      /\ todo' \subseteq Object /\ object' \in Object
      /\ UNCHANGED <<pReidTensor, pad, frame_num, delivered, obj_info, obj_list, heap,
                     mtx>>
  BY DEF BeginObject, IInv, TypeOK
<1>2. metas' \in Seq(MetaKind) /\ Len(metas') = 0
  BY <1>1
<1>3. TypeOK'
  BY <1>1, <1>2 DEF IInv, TypeOK
<1>4. Lists'
  BY <1>1, <1>2 DEF Lists, RegionsRead, EmbeddingRead
<1>5. FrontIsThere' /\ Local' /\ LocalComplete' /\ LastEntryComplete'
  BY <1>1 DEF IInv, FrontIsThere, Local, LocalComplete, LastEntryComplete
<1>6. NothingForeign' /\ EmbeddingOwned'
  BY <1>1 DEF IInv, NothingForeign, OfOneObject, EmbeddingOwned, Owners
<1> QED
  BY <1>3, <1>4, <1>5, <1>6 DEF IInv

----------------------------------------------------------------------------
(* Reading a metadata and making an entry                                  *)

\* One more metadata changes what was read as Read changes the lists.
LEMMA ReadLists ==
    ASSUME IInv, NEW kind \in MetaKind, ReadMeta(kind)
    PROVE  /\ metas' \in Seq(MetaKind) /\ metas' # <<>>
           /\ roi_list' = RegionsRead' /\ roi_list' \subseteq Region
           /\ embeddings_data' = EmbeddingRead' /\ embeddings_data' \in {Here, Null}
<1>1. /\ metas \in Seq(MetaKind) /\ metas' = Append(metas, kind)
      /\ pc = "object" /\ Read(kind)
      /\ UNCHANGED <<pReidTensor, pad, frame_num, object>>
  BY DEF ReadMeta, IInv, TypeOK
<1>2. /\ Len(metas) \in Nat /\ Len(metas') = Len(metas) + 1
      /\ metas' \in Seq(MetaKind)
      /\ \A j \in 1..Len(metas) : metas'[j] = metas[j]
      /\ metas'[Len(metas) + 1] = kind
  BY <1>1, AppendProperties, LenProperties
<1>3. metas' # <<>>
  BY <1>1, <1>2, EmptySeq
<1>4. Here' = Here
  BY <1>1 DEF Here
<1>5. roi_list = RegionsRead /\ embeddings_data = EmbeddingRead
  BY <1>1 DEF IInv, Lists
<1> DEFINE J == {j \in 1..Len(metas) : metas[j] = "roi"}
           J1 == {j \in 1..Len(metas') : metas'[j] = "roi"}
           new == Len(metas) + 1
<1>6. J1 = IF kind = "roi" THEN J \union {new} ELSE J
  BY <1>2
<1>7. RegionsRead = {[at |-> Here, meta |-> i] : i \in J}
      /\ RegionsRead' = {[at |-> Here, meta |-> i] : i \in J1}
  BY <1>4 DEF RegionsRead
<1>8. roi_list' = IF kind = "roi" THEN roi_list \union {[at |-> Here, meta |-> new]}
                                  ELSE roi_list
  BY <1>1 DEF Read
<1> HIDE DEF J, J1, new
<1>9. roi_list' = RegionsRead'
  <2>1. CASE kind = "roi"
    BY <2>1, <1>5, <1>6, <1>7, <1>8
  <2>2. CASE kind # "roi"
    BY <2>2, <1>5, <1>6, <1>7, <1>8
  <2> QED BY <2>1, <2>2
<1>10. roi_list' \subseteq Region
  BY <1>2, <1>8, HereFacts DEF IInv, TypeOK, Region, new
<1>11. embeddings_data' = EmbeddingRead'
  <2>1. CASE pReidTensor = "filled" /\ kind = "reid"
    <3>1. \E i \in 1..Len(metas') : metas'[i] = "reid"
      BY <1>2, <2>1
    <3> QED BY <1>1, <1>4, <2>1, <3>1 DEF EmbeddingRead, Read
  <2>2. CASE pReidTensor = "filled" /\ kind # "reid"
    <3>1. (\E i \in 1..Len(metas') : metas'[i] = "reid")
            <=> (\E i \in 1..Len(metas) : metas[i] = "reid")
      BY <1>2, <2>2
    <3> QED BY <1>1, <1>4, <1>5, <2>2, <3>1 DEF EmbeddingRead, Read
  <2>3. CASE pReidTensor # "filled"
    BY <1>1, <1>5, <2>3 DEF EmbeddingRead, Read
  <2> QED BY <2>1, <2>2, <2>3
<1>12. embeddings_data' \in {Here, Null}
  BY <1>4, <1>11 DEF EmbeddingRead
<1> QED
  BY <1>2, <1>3, <1>9, <1>10, <1>11, <1>12

\* A new entry says what the lists say; its block was free.
LEMMA ConstructEntry ==
    ASSUME IInv, NEW kind \in MetaKind, ReadMeta(kind)
    PROVE  /\ obj_info' \in ObjInfo /\ obj_info'.at = Here
           /\ obj_info'.roi = roi_list'
           /\ DOMAIN heap \subseteq DOMAIN heap'
           /\ DOMAIN heap' = (DOMAIN heap \union {obj_info'.embeddings}) \ {Null}
           /\ \A a \in DOMAIN heap : heap'[a] = heap[a]
           /\ obj_info'.embeddings \notin DOMAIN heap
           /\ obj_info'.embeddings # Null => heap'[obj_info'.embeddings] = embeddings_data'
           /\ obj_info'.embeddings = Null => embeddings_data' = Null
           /\ DOMAIN heap' \subseteq Block
           /\ \A a \in DOMAIN heap' : heap'[a] \in Content
<1>1. Construct(embeddings_data', roi_list')
  BY DEF ReadMeta
<1>2. Here \in Place /\ Here \in Content /\ Here # Null
  BY HereFacts DEF IInv
<1>3. roi_list' \subseteq Region /\ embeddings_data' \in {Here, Null}
  BY ReadLists
<1>4. /\ DOMAIN heap \subseteq Block /\ Null \notin Block
      /\ \A a \in DOMAIN heap : heap[a] \in Content
  BY NullAssumption DEF IInv, TypeOK
<1>5. CASE embeddings_data' = Null
  <2>1. /\ obj_info' = [at |-> Here, roi |-> roi_list', embeddings |-> Null]
        /\ heap' = heap
    BY <1>1, <1>5 DEF Construct
  <2> QED BY <1>2, <1>3, <1>4, <1>5, <2>1 DEF ObjInfo
<1>6. CASE embeddings_data' # Null
  <2>1. PICK b \in Block \ DOMAIN heap :
          /\ obj_info' = [at |-> Here, roi |-> roi_list', embeddings |-> b]
          /\ heap' = [a \in DOMAIN heap \union {b} |->
                        IF a = b THEN embeddings_data' ELSE heap[a]]
    BY <1>1, <1>6 DEF Construct
  <2>2. DOMAIN heap' = DOMAIN heap \union {b} /\ heap'[b] = embeddings_data'
    BY <2>1
  <2>3. \A a \in DOMAIN heap : heap'[a] = heap[a]
    BY <2>1
  <2>4. obj_info' \in ObjInfo /\ obj_info'.embeddings = b
        /\ obj_info'.at = Here /\ obj_info'.roi = roi_list'
    BY <1>2, <1>3, <2>1 DEF ObjInfo
  <2> QED BY <1>2, <1>3, <1>4, <1>6, <2>1, <2>2, <2>3, <2>4
<1> QED
  BY <1>5, <1>6

LEMMA ReadStep ==
    ASSUME IInv, NEW kind \in MetaKind, ReadMeta(kind)
    PROVE  IInv'
<1>1. /\ pc = "object" /\ pc' = "push" /\ Here' = Here
      /\ UNCHANGED <<pReidTensor, pad, frame_num, todo, object, delivered, obj_list,
                     mtx, last>>
  BY DEF ReadMeta, Here
<1>2. obj_info = NoInfo /\ obj_info.embeddings = Null
  BY <1>1 DEF IInv, Local, NoInfo
<1>3. TypeOK'
  <2>1. embeddings_data' \in Content \union {Null}
    BY ReadLists, HereFacts DEF IInv
  <2> QED
    BY <1>1, <2>1, ReadLists, ConstructEntry DEF IInv, TypeOK
<1>4. FrontIsThere' /\ Local' /\ LocalComplete' /\ Lists' /\ LastEntryComplete'
  BY <1>1, ReadLists, ConstructEntry
     DEF IInv, FrontIsThere, Local, LocalComplete, EmbeddingOf, Lists, LastEntryComplete
<1>5. NothingForeign'
  BY <1>1, ConstructEntry DEF IInv, NothingForeign, OfOneObject
<1>6. EmbeddingOwned'
  <2>1. Owners' = Owners
    BY <1>1 DEF Owners
  <2>2. \A i \in Owners : obj_list[i].embeddings \in DOMAIN heap
    BY <1>2 DEF IInv, EmbeddingOwned, Owners
  <2>3. DOMAIN heap = {obj_list[i].embeddings : i \in Owners} \ {Null}
    BY <1>2 DEF IInv, EmbeddingOwned
  <2>4. DOMAIN heap' = (DOMAIN heap \union {obj_info'.embeddings}) \ {Null}
    BY ConstructEntry
  <2>5. obj_info'.embeddings \notin DOMAIN heap
    BY ConstructEntry
  <2>6. \A i, j \in Owners :
          i # j => obj_list[i].embeddings # obj_list[j].embeddings
    BY DEF IInv, EmbeddingOwned
  <2> QED
    BY <1>1, <2>1, <2>2, <2>3, <2>4, <2>5, <2>6 DEF EmbeddingOwned
<1> QED
  BY <1>3, <1>4, <1>5, <1>6 DEF IInv

----------------------------------------------------------------------------
(* The queue                                                               *)

LEMMA PushStep == IInv /\ Push => IInv'
<1> SUFFICES ASSUME IInv, Push PROVE IInv'
  OBVIOUS
<1>1. /\ pc = "push" /\ pc' = "object"
      /\ obj_list' = Append(obj_list, obj_info) /\ obj_info' = NoInfo
      /\ last' = [roi |-> obj_info.roi, embedding |-> EmbeddingOf(obj_info)]
      /\ UNCHANGED <<pReidTensor, pad, frame_num, todo, object, metas, delivered,
                     roi_list, embeddings_data, heap, mtx>>
      /\ mtx = "free" /\ Here' = Here
  BY DEF Push, EmbeddingOf, readVars, Here
<1>2. /\ obj_info \in ObjInfo /\ metas # <<>> /\ obj_list \in Seq(ObjInfo)
      /\ OfOneObject(obj_info)
  BY <1>1, LocalOfOneObject DEF IInv, Local, TypeOK
<1>3. /\ Len(obj_list) \in Nat /\ Len(obj_list') = Len(obj_list) + 1
      /\ obj_list' \in Seq(ObjInfo)
      /\ \A i \in 1..Len(obj_list) : obj_list'[i] = obj_list[i]
      /\ obj_list'[Len(obj_list) + 1] = obj_info
  BY <1>1, <1>2, AppendProperties, LenProperties
<1>4. /\ obj_info.roi = roi_list /\ EmbeddingOf(obj_info) = embeddings_data
      /\ roi_list = RegionsRead /\ embeddings_data = EmbeddingRead
  BY <1>1 DEF IInv, LocalComplete, Lists
<1>5. TypeOK'
  <2>1. last' \in [roi : SUBSET Region, embedding : Content \union {Null}]
    BY <1>1, <1>4 DEF IInv, TypeOK
  <2> QED
    BY <1>1, <1>3, <2>1 DEF IInv, TypeOK
<1>6. Lists' /\ LastEntryComplete'
  BY <1>1, <1>4 DEF Lists, LastEntryComplete, RegionsRead, EmbeddingRead
<1>7. FrontIsThere' /\ Local' /\ LocalComplete'
  BY <1>1 DEF FrontIsThere, Local, LocalComplete
<1>8. NothingForeign'
  <2> SUFFICES ASSUME NEW i \in 1..Len(obj_list') PROVE OfOneObject(obj_list[i])'
    BY DEF NothingForeign
  <2>1. OfOneObject(obj_list'[i])
    BY <1>2, <1>3 DEF IInv, NothingForeign
  <2> QED BY <1>1, <2>1 DEF OfOneObject
<1>9. EmbeddingOwned'
  <2> DEFINE n == Len(obj_list) + 1
  <2>1. Owners' = IF obj_info.embeddings = Null THEN Owners ELSE Owners \union {n}
    BY <1>3 DEF Owners
  <2>2. Owners \subseteq 1..Len(obj_list) /\ n \notin Owners
    BY <1>3 DEF Owners
  <2>3. \A i \in Owners : /\ obj_list'[i] = obj_list[i]
                          /\ obj_list[i].embeddings # obj_info.embeddings
    BY <1>3, <2>2 DEF IInv, EmbeddingOwned
  <2>4. obj_info'.embeddings = Null
    BY <1>1 DEF NoInfo
  <2>5. \A i, j \in Owners :
          i # j => obj_list[i].embeddings # obj_list[j].embeddings
    BY DEF IInv, EmbeddingOwned
  <2>6. \A i \in Owners' : obj_list'[i].embeddings # obj_info'.embeddings
    BY <2>4 DEF Owners
  <2>7. DOMAIN heap = ({obj_list[i].embeddings : i \in Owners}
                         \union {obj_info.embeddings}) \ {Null}
    BY DEF IInv, EmbeddingOwned
  <2>8. obj_list'[n].embeddings = obj_info.embeddings
    BY <1>3
  <2> HIDE DEF n
  <2>9. \A i, j \in Owners' :
          i # j => obj_list'[i].embeddings # obj_list'[j].embeddings
    BY <2>1, <2>2, <2>3, <2>5, <2>8
  <2>10. ({obj_list'[i].embeddings : i \in Owners'}
            \union {obj_info'.embeddings}) \ {Null}
         = ({obj_list[i].embeddings : i \in Owners}
              \union {obj_info.embeddings}) \ {Null}
    <3>1. CASE obj_info.embeddings = Null
      BY <2>1, <2>3, <2>4, <3>1
    <3>2. CASE obj_info.embeddings # Null
      BY <2>1, <2>3, <2>4, <2>8, <3>2
    <3> QED BY <3>1, <3>2
  <2> QED
    BY <1>1, <2>6, <2>7, <2>9, <2>10 DEF EmbeddingOwned
<1> QED
  BY <1>5, <1>6, <1>7, <1>8, <1>9 DEF IInv

LEMMA PopStep == IInv /\ Pop => IInv'
<1> SUFFICES ASSUME IInv, Pop PROVE IInv'
  OBVIOUS
<1> DEFINE gone == Head(obj_list).embeddings
<1>1. /\ obj_list # <<>> /\ obj_list' = Tail(obj_list) /\ mtx' = "free"
      /\ DOMAIN heap' = DOMAIN heap \ {gone}
      /\ \A a \in DOMAIN heap' : heap'[a] = heap[a]
      /\ obj_list \in Seq(ObjInfo)
  BY DEF Pop, IInv, FrontIsThere, TypeOK
<1>2. UNCHANGED <<pc, pReidTensor, pad, frame_num, todo, object, metas, delivered,
                  roi_list, embeddings_data, obj_info, last>> /\ Here' = Here
  BY DEF Pop, walkVars, readVars, Here
<1>3. /\ Len(obj_list) \in Nat /\ Len(obj_list) > 0
      /\ Head(obj_list) = obj_list[1]
      /\ obj_list' \in Seq(ObjInfo) /\ Len(obj_list') = Len(obj_list) - 1
      /\ \A i \in 1..Len(obj_list') : obj_list'[i] = obj_list[i + 1]
  BY <1>1, HeadTailProperties, LenProperties, EmptySeq
<1> HIDE DEF gone
<1>4. gone = obj_list[1].embeddings
  BY <1>3 DEF gone
<1>5. 1 \in Owners <=> gone # Null
  BY <1>3, <1>4 DEF Owners
<1>6. \A i \in 2..Len(obj_list) : i \in Owners => obj_list[i].embeddings # gone
  BY <1>3, <1>4, <1>5 DEF IInv, EmbeddingOwned, Owners
<1>7. obj_info.embeddings # Null => obj_info.embeddings # gone
  BY <1>4, <1>5 DEF IInv, EmbeddingOwned
<1>8. TypeOK'
  BY <1>1, <1>2, <1>3 DEF IInv, TypeOK
<1>9. FrontIsThere' /\ Local' /\ Lists' /\ LastEntryComplete'
  BY <1>1, <1>2 DEF IInv, FrontIsThere, Local, Lists, LastEntryComplete, RegionsRead, EmbeddingRead
<1>10. LocalComplete'
  BY <1>1, <1>2, <1>7 DEF IInv, LocalComplete, EmbeddingOf
<1>11. NothingForeign'
  <2> SUFFICES ASSUME NEW i \in 1..Len(obj_list') PROVE OfOneObject(obj_list[i])'
    BY DEF NothingForeign
  <2>1. i + 1 \in 2..Len(obj_list) /\ obj_list'[i] = obj_list[i + 1]
    BY <1>3
  <2>2. OfOneObject(obj_list[i + 1])
    BY <1>3, <2>1 DEF IInv, NothingForeign
  <2>3. obj_list[i + 1].embeddings # Null => obj_list[i + 1].embeddings # gone
    BY <1>3, <1>6, <2>1 DEF Owners
  <2> QED
    BY <1>1, <2>1, <2>2, <2>3 DEF OfOneObject
<1>12. EmbeddingOwned'
  <2>1. \A i \in Owners' : /\ i + 1 \in Owners /\ i + 1 \in 2..Len(obj_list)
                           /\ obj_list'[i] = obj_list[i + 1] /\ i \in Int
    BY <1>3 DEF Owners
  <2>2. \A i \in Owners \ {1} : /\ i - 1 \in Owners' /\ i \in Int
                                /\ obj_list'[i - 1] = obj_list[i]
    BY <1>3 DEF Owners
  <2>3. {obj_list'[i].embeddings : i \in Owners'}
          = {obj_list[i].embeddings : i \in Owners \ {1}}
    <3>1. \A i \in Owners' : \E j \in Owners \ {1} :
            obj_list'[i].embeddings = obj_list[j].embeddings
      <4> TAKE i \in Owners'
      <4>1. i + 1 \in Owners \ {1} /\ obj_list'[i] = obj_list[i + 1]
        BY <2>1
      <4> QED BY <4>1
    <3>2. \A j \in Owners \ {1} : \E i \in Owners' :
            obj_list[j].embeddings = obj_list'[i].embeddings
      BY <2>2
    <3> QED BY <3>1, <3>2
  <2>4. {obj_list[i].embeddings : i \in Owners \ {1}}
          = {obj_list[i].embeddings : i \in Owners} \ {gone}
    <3>1. \A i \in Owners \ {1} : obj_list[i].embeddings # gone
      BY <1>3, <1>6 DEF Owners
    <3>2. \A i \in Owners : obj_list[i].embeddings # gone => i # 1
      BY <1>4
    <3> QED BY <3>1, <3>2
  <2>5. DOMAIN heap = ({obj_list[i].embeddings : i \in Owners}
                         \union {obj_info.embeddings}) \ {Null}
    BY DEF IInv, EmbeddingOwned
  <2>6. DOMAIN heap' = ({obj_list'[i].embeddings : i \in Owners'}
                          \union {obj_info'.embeddings}) \ {Null}
    BY <1>1, <1>2, <1>7, <2>3, <2>4, <2>5
  <2>7. \A i, j \in Owners' :
          i # j => obj_list'[i].embeddings # obj_list'[j].embeddings
    <3> TAKE i, j \in Owners'
    <3>1. i # j => i + 1 # j + 1
      BY <2>1
    <3> QED BY <2>1, <3>1 DEF IInv, EmbeddingOwned
  <2>8. \A i \in Owners' : obj_list'[i].embeddings # obj_info'.embeddings
    BY <1>2, <2>1 DEF IInv, EmbeddingOwned
  <2> QED
    BY <2>6, <2>7, <2>8 DEF EmbeddingOwned
<1> QED
  BY <1>8, <1>9, <1>10, <1>11, <1>12 DEF IInv

\* Taking mtx, or giving it back without a pop, touches no entry.
LEMMA MutexStep ==
    ASSUME IInv,
           \/ UNCHANGED mtx
           \/ mtx' = "free"
           \/ mtx' = "broker" /\ obj_list # <<>>,
           UNCHANGED <<walkVars, readVars, obj_info, obj_list, heap, last>>
    PROVE  IInv'
<1>1. TypeOK'
  BY DEF walkVars, readVars, IInv, TypeOK
<1>2. /\ UNCHANGED <<pc, pReidTensor, metas, roi_list, embeddings_data, obj_info,
                     obj_list, heap, last>>
      /\ Here' = Here
  BY DEF walkVars, readVars, Here
<1>3. /\ FrontIsThere' /\ Local' /\ Lists' /\ LocalComplete'
      /\ LastEntryComplete'
  BY <1>2 DEF IInv, FrontIsThere, Local, Lists, LocalComplete, EmbeddingOf,
     LastEntryComplete, RegionsRead, EmbeddingRead
<1>4. NothingForeign'
  BY <1>2 DEF IInv, NothingForeign, OfOneObject
<1>5. EmbeddingOwned'
  BY <1>2 DEF IInv, EmbeddingOwned, Owners
<1> QED
  BY <1>1, <1>3, <1>4, <1>5 DEF IInv

----------------------------------------------------------------------------
\* Every reachable state satisfies the inductive invariant.
THEOREM Invariant == Spec => []IInv
<1>1. IInv /\ [Next]_vars => IInv'
  <2> SUFFICES ASSUME IInv, [Next]_vars PROVE IInv'
    OBVIOUS
  <2>1. CASE UNCHANGED vars
    BY <2>1, MutexStep DEF vars, ownVars
  <2>2. CASE Walk
    BY <2>2, FrameStep, ObjectStep, ReadStep, PushStep DEF Walk
  <2>3. CASE Broker
    BY <2>3, PopStep, MutexStep DEF Broker, Take, GiveUp
  <2> QED
    BY <2>1, <2>2, <2>3 DEF Next
<1> QED
  BY <1>1, InvInit, PTL DEF Spec

\* The variables keep their types (perception.cpp:544-822, ObjInfo.hpp:42-152).
THEOREM TypeCorrect == Spec => []TypeOK
BY Invariant, PTL DEF IInv

\* After every metadata the newest entry of an object says all that was read
\* of it, for lists of any length and order (perception.cpp:709-819).
THEOREM LastEntryCompleteHolds == Spec => []LastEntryComplete
BY Invariant, PTL DEF IInv

\* Entries never mix objects, frames or cameras (perception.cpp:702-706).
THEOREM NothingForeignHolds == Spec => []NothingForeign
BY Invariant, PTL DEF IInv

\* Every embedding on the heap has exactly one owner (ObjInfo.hpp:58-122).
THEOREM EmbeddingOwnedHolds == Spec => []EmbeddingOwned
BY Invariant, PTL DEF IInv

=============================================================================
