------------------------- MODULE FrameTasks_proofs -------------------------
(***************************************************************************)
(* Proofs about FrameTasks, for every pool of buffers, every number of     *)
(* workers and every frame interval: types, the age of stored images, the  *)
(* end of the tasks, and that the pool neither drops nor repeats a task.   *)
(***************************************************************************)
EXTENDS FrameTasks, SequenceTheorems, FiniteSetTheorems, FunctionTheorems, TLAPS

\* A buffer holds a frame that has been numbered, and a frame that waits for
\* the probe has a number.
Numbered ==
    /\ \A b \in Buffer : content[b] < next
    /\ \A b \in Buffer : stage[b] = "filled" => content[b] \in Nat

\* The buffer of a task holds its frame or a later one.
Behind(t) == t.buffer \in Buffer => t.num <= content[t.buffer]

PostedBehind == \A i \in 1..Len(posted) : Behind(posted[i])

WorkBehind ==
    \A w \in Worker : wPc[w] # "idle" => task[w] \in Task /\ Behind(task[w])

\* What a worker has copied so far is no older than its task.
CopyBehind ==
    \A w \in Worker : wPc[w] \in {"copying", "store"} =>
        /\ task[w].buffer \in Buffer
        /\ \A m \in image[w] : m >= task[w].num

\* The pool is stopped before it is joined.
Stopped == mainPc \in {"join", "exit"} => poolStopped

IInv ==
    /\ TypeOK
    /\ Numbered
    /\ PostedBehind
    /\ WorkBehind
    /\ CopyBehind
    /\ NeverOlder
    /\ Stopped
    /\ NoTaskAfterExit

----------------------------------------------------------------------------
(* The operators                                                           *)

\* What the probe posts for a frame is named after that frame.
LEMMA TasksForFrame ==
    ASSUME NEW b \in Buffer \union {NoBuffer}, NEW num \in Nat
    PROVE  /\ TasksFor(b, num) \in Seq(Task)
           /\ \A i \in 1..Len(TasksFor(b, num)) :
                /\ TasksFor(b, num)[i].num = num
                /\ TasksFor(b, num)[i].buffer = b
<1> DEFINE saveTask == [kind |-> "save", buffer |-> b, num |-> num]
           sendTask == [kind |-> "redis", buffer |-> b, num |-> num]
           save == IF SAVE_FRAMES /\ b # NoBuffer THEN <<saveTask>> ELSE <<>>
           send == IF num % FRAME_INTERVAL = 0 THEN <<sendTask>> ELSE <<>>
<1>1. saveTask \in Task /\ sendTask \in Task
  BY DEF Task
<1>2. /\ saveTask.num = num /\ saveTask.buffer = b
      /\ sendTask.num = num /\ sendTask.buffer = b
  OBVIOUS
<1>3. TasksFor(b, num) = save \o send
  BY DEF TasksFor
<1> HIDE DEF saveTask, sendTask
<1>4. \A t \in Task : <<t>> \in Seq(Task) /\ Len(<<t>>) = 1 /\ <<t>>[1] = t
  OBVIOUS
<1>5. CASE save = <<>> /\ send = <<>>
  <2>1. TasksFor(b, num) = <<>>
    BY <1>3, <1>5
  <2> QED BY <2>1
<1>6. CASE save = <<saveTask>> /\ send = <<>>
  <2>1. TasksFor(b, num) = <<saveTask>>
    BY <1>1, <1>3, <1>4, <1>6, ConcatEmptySeq
  <2> QED BY <1>1, <1>2, <1>4, <2>1
<1>7. CASE save = <<>> /\ send = <<sendTask>>
  <2>1. TasksFor(b, num) = <<sendTask>>
    BY <1>1, <1>3, <1>4, <1>7, ConcatEmptySeq
  <2> QED BY <1>1, <1>2, <1>4, <2>1
<1>8. CASE save = <<saveTask>> /\ send = <<sendTask>>
  <2>1. TasksFor(b, num) = <<saveTask>> \o <<sendTask>>
    BY <1>3, <1>8
  <2> QED BY <1>1, <1>2, <1>4, <2>1, ConcatProperties
<1> QED
  BY <1>5, <1>6, <1>7, <1>8

----------------------------------------------------------------------------
LEMMA InvInit == Init => IInv
<1> SUFFICES ASSUME Init PROVE IInv
  OBVIOUS
<1>1. posted = <<>> /\ posted \in Seq(Task) /\ Len(posted) = 0
  BY DEF Init
<1>2. DOMAIN redis_keys = {} /\ DOMAIN files = {}
  BY DEF Init
<1>3. redisAlive \in BOOLEAN /\ poolStopped \in BOOLEAN
  BY Zenon DEF Init
<1>4. TypeOK
  BY <1>1, <1>2, <1>3 DEF Init, TypeOK, Image
<1>5. NeverOlder
  BY <1>2 DEF NeverOlder
<1> QED
  BY <1>1, <1>4, <1>5 DEF Init, IInv, Numbered, PostedBehind, WorkBehind,
     CopyBehind, Stopped, NoTaskAfterExit

\* A finished task has left its worker idle and is a task.
LEMMA FinishType ==
    ASSUME TypeOK, WorkBehind, NEW w \in Worker, wPc[w] # "idle", Finish(w)
    PROVE  /\ finished' \subseteq Task
           /\ task' \in [Worker -> Task \union {NoTask}]
           /\ wPc' \in [Worker -> {"idle", "copy", "copying", "store"}]
           /\ image' \in [Worker -> Image]
<1>1. task[w] \in Task
  BY DEF WorkBehind
<1>2. finished' \subseteq Task
  BY <1>1 DEF Finish, TypeOK
<1>3. task' \in [Worker -> Task \union {NoTask}]
  BY Zenon DEF Finish, TypeOK
<1>4. wPc' \in [Worker -> {"idle", "copy", "copying", "store"}]
  BY DEF Finish, TypeOK
<1>5. image' \in [Worker -> Image]
  BY DEF Finish, TypeOK, Image
<1> QED
  BY <1>2, <1>3, <1>4, <1>5

LEMMA TypeStep ==
    TypeOK /\ Numbered /\ WorkBehind /\ CopyBehind /\ [Next]_vars => TypeOK'
<1> SUFFICES ASSUME TypeOK, Numbered, WorkBehind, CopyBehind, [Next]_vars
             PROVE  TypeOK'
  OBVIOUS
<1> USE DEF bufVars, workVars, storeVars, mainVars
<1>1. CASE UNCHANGED vars
  BY <1>1 DEF vars, TypeOK
<1>2. ASSUME NEW b \in Buffer, Fill(b) PROVE TypeOK'
  BY <1>2 DEF Fill, TypeOK
<1>3. ASSUME NEW b \in Buffer, Release(b) PROVE TypeOK'
  BY <1>3 DEF Release, TypeOK
<1>4. ASSUME NEW b \in Buffer, ProbeBuffer(b) PROVE TypeOK'
  <2>1. content[b] \in Nat
    BY <1>4 DEF ProbeBuffer, Numbered
  <2>2. PICK mapped \in {b, NoBuffer} :
          posted' = posted \o TasksFor(mapped, content[b])
    BY <1>4 DEF ProbeBuffer
  <2>3. TasksFor(mapped, content[b]) \in Seq(Task)
    BY <2>1, TasksForFrame
  <2>4. posted' \in Seq(Task)
    BY <2>2, <2>3, ConcatProperties DEF TypeOK
  <2> QED
    BY <1>4, <2>4 DEF ProbeBuffer, TypeOK
<1>5. ASSUME NEW w \in Worker, StartTask(w) PROVE TypeOK'
  <2>1. Head(posted) \in Task /\ posted' \in Seq(Task)
    BY <1>5, HeadTailProperties DEF StartTask, TypeOK
  <2>2. task' \in [Worker -> Task \union {NoTask}]
    BY <1>5, <2>1, Zenon DEF StartTask, TypeOK
  <2> QED
    BY <1>5, <2>1, <2>2 DEF StartTask, TypeOK
<1>6. ASSUME NEW w \in Worker, BeginCopy(w) PROVE TypeOK'
  <2>1. task[w].buffer \in Buffer
    BY <1>6 DEF BeginCopy, WorkBehind, Task
  <2>2. image' \in [Worker -> Image]
    BY <1>6, <2>1 DEF BeginCopy, TypeOK, Image
  <2> QED
    BY <1>6, <2>2 DEF BeginCopy, TypeOK
<1>7. ASSUME NEW w \in Worker, EmptyImage(w) PROVE TypeOK'
  BY <1>7, FinishType DEF EmptyImage, TypeOK
<1>8. ASSUME NEW w \in Worker, EndCopy(w) PROVE TypeOK'
  <2>1. task[w].buffer \in Buffer
    BY <1>8 DEF EndCopy, CopyBehind
  <2>2. image' \in [Worker -> Image]
    BY <1>8, <2>1 DEF EndCopy, TypeOK, Image
  <2> QED
    BY <1>8, <2>2 DEF EndCopy, TypeOK
<1>9. ASSUME NEW w \in Worker, StoreRedis(w) PROVE TypeOK'
  <2>1. task[w].num \in Nat /\ image[w] \in Image
    BY <1>9 DEF StoreRedis, WorkBehind, TypeOK, Task
  <2>2. \A n \in DOMAIN redis_keys' : n \in Nat /\ redis_keys'[n] \in Image
    <3>1. CASE UNCHANGED redis_keys
      BY <3>1 DEF TypeOK
    <3>2. CASE redis_keys' = Put(redis_keys, task[w].num, image[w])
      <4>1. DOMAIN redis_keys' = DOMAIN redis_keys \union {task[w].num}
        BY <3>2 DEF Put
      <4>2. redis_keys'[task[w].num] = image[w]
        BY <3>2 DEF Put
      <4>3. \A n \in DOMAIN redis_keys : n # task[w].num => redis_keys'[n] = redis_keys[n]
        BY <3>2 DEF Put
      <4> QED BY <2>1, <4>1, <4>2, <4>3 DEF TypeOK
    <3> QED BY <1>9, <3>1, <3>2 DEF StoreRedis
  <2> QED
    BY <1>9, <2>2, FinishType DEF StoreRedis, TypeOK
<1>10. ASSUME NEW w \in Worker, StoreFile(w) PROVE TypeOK'
  <2>1. task[w].num \in Nat /\ image[w] \in Image
    BY <1>10 DEF StoreFile, WorkBehind, TypeOK, Task
  <2>2. \A n \in DOMAIN files' : n \in Nat /\ files'[n] \in Image
    <3>1. CASE UNCHANGED files
      BY <3>1 DEF TypeOK
    <3>2. CASE files' = Put(files, task[w].num, image[w])
      <4>1. DOMAIN files' = DOMAIN files \union {task[w].num}
        BY <3>2 DEF Put
      <4>2. files'[task[w].num] = image[w]
        BY <3>2 DEF Put
      <4>3. \A n \in DOMAIN files : n # task[w].num => files'[n] = files[n]
        BY <3>2 DEF Put
      <4> QED BY <2>1, <4>1, <4>2, <4>3 DEF TypeOK
    <3> QED BY <1>10, <3>1, <3>2 DEF StoreFile
  <2> QED
    BY <1>10, <2>2, FinishType DEF StoreFile, TypeOK
<1>11. CASE Expire
  <2>1. \A n \in DOMAIN redis_keys' : n \in Nat /\ redis_keys'[n] \in Image
    BY <1>11 DEF Expire, TypeOK
  <2> QED
    BY <1>11, <2>1 DEF Expire, TypeOK
<1>12. CASE MainThread
  BY <1>12 DEF MainThread, StopPipeline, DestroyRedis, StopPool, JoinPool, TypeOK
<1> QED
  BY <1>1, <1>2, <1>3, <1>4, <1>5, <1>6, <1>7, <1>8, <1>9, <1>10, <1>11, <1>12
     DEF Next, Work

----------------------------------------------------------------------------
LEMMA NumberedStep == TypeOK /\ Numbered /\ [Next]_vars => Numbered'
<1> SUFFICES ASSUME TypeOK, Numbered, [Next]_vars PROVE Numbered'
  OBVIOUS
<1> USE DEF TypeOK, Numbered, bufVars, workVars, storeVars, mainVars
<1>1. CASE UNCHANGED vars
  BY <1>1 DEF vars
<1>2. ASSUME NEW b \in Buffer, Fill(b) PROVE Numbered'
  BY <1>2 DEF Fill
<1>3. ASSUME NEW b \in Buffer, Release(b) PROVE Numbered'
  BY <1>3 DEF Release
<1>4. ASSUME NEW b \in Buffer, ProbeBuffer(b) PROVE Numbered'
  BY <1>4 DEF ProbeBuffer
<1>5. ASSUME NEW w \in Worker, Work(w) PROVE Numbered'
  BY <1>5 DEF Work, StartTask, BeginCopy, EmptyImage, EndCopy, StoreRedis, StoreFile
<1>6. CASE Expire
  BY <1>6 DEF Expire
<1>7. CASE MainThread
  BY <1>7 DEF MainThread, StopPipeline, DestroyRedis, StopPool, JoinPool
<1> QED
  BY <1>1, <1>2, <1>3, <1>4, <1>5, <1>6, <1>7 DEF Next

\* A buffer never goes back to an older frame: the reason why aliasing is
\* bounded on one side.
LEMMA ContentGrows ==
    TypeOK /\ Numbered /\ [Next]_vars =>
        \A b \in Buffer : content'[b] \in Int /\ content[b] <= content'[b]
<1> SUFFICES ASSUME TypeOK, Numbered, [Next]_vars
             PROVE  \A b \in Buffer : content'[b] \in Int /\ content[b] <= content'[b]
  OBVIOUS
<1>1. CASE UNCHANGED content
  BY <1>1 DEF TypeOK
<1>2. ASSUME NEW b \in Buffer, Fill(b)
      PROVE  \A c \in Buffer : content'[c] \in Int /\ content[c] <= content'[c]
  BY <1>2 DEF Fill, TypeOK, Numbered
<1> QED
  BY <1>1, <1>2 DEF Next, vars, Work, MainThread, bufVars, Release, ProbeBuffer,
     StartTask, BeginCopy, EmptyImage, EndCopy, StoreRedis, StoreFile, Expire,
     StopPipeline, DestroyRedis, StopPool, JoinPool

LEMMA BehindStep ==
    ASSUME TypeOK, Numbered, [Next]_vars, NEW t \in Task, Behind(t)
    PROVE  t.buffer \in Buffer => t.num <= content'[t.buffer]
<1>1. t.num \in Nat
  BY DEF Task
<1>2. SUFFICES ASSUME t.buffer \in Buffer PROVE t.num <= content'[t.buffer]
  OBVIOUS
<1>3. t.num <= content[t.buffer] /\ content[t.buffer] \in Int
  BY <1>2 DEF Behind, TypeOK
<1>4. content[t.buffer] <= content'[t.buffer] /\ content'[t.buffer] \in Int
  BY <1>2, ContentGrows
<1> QED
  BY <1>1, <1>3, <1>4

LEMMA PostedStep ==
    TypeOK /\ Numbered /\ PostedBehind /\ [Next]_vars => PostedBehind'
<1> SUFFICES ASSUME TypeOK, Numbered, PostedBehind, [Next]_vars
             PROVE  PostedBehind'
  OBVIOUS
<1>0. posted \in Seq(Task)
  BY DEF TypeOK
<1>1. \A i \in 1..Len(posted) : posted[i] \in Task /\ Behind(posted[i])
  BY <1>0, ElementOfSeq DEF PostedBehind
<1>2. \A i \in 1..Len(posted) :
        posted[i].buffer \in Buffer => posted[i].num <= content'[posted[i].buffer]
  BY <1>1, BehindStep
<1>3. CASE UNCHANGED posted
  BY <1>2, <1>3 DEF PostedBehind, Behind
<1>4. ASSUME NEW b \in Buffer, ProbeBuffer(b) PROVE PostedBehind'
  <2>1. content[b] \in Nat /\ content' = content
    BY <1>4 DEF ProbeBuffer, Numbered, bufVars
  <2>2. PICK mapped \in {b, NoBuffer} :
          posted' = posted \o TasksFor(mapped, content[b])
    BY <1>4 DEF ProbeBuffer
  <2> DEFINE new == TasksFor(mapped, content[b])
  <2>3. /\ new \in Seq(Task)
        /\ \A i \in 1..Len(new) : new[i].num = content[b] /\ new[i].buffer = mapped
    BY <2>1, TasksForFrame
  <2>4. \A i \in 1..Len(new) :
          new[i].buffer \in Buffer => new[i].num <= content'[new[i].buffer]
    BY <2>1, <2>3, FrameAssumption
  <2> HIDE DEF new
  <2>5. /\ Len(posted') = Len(posted) + Len(new)
        /\ \A i \in 1..Len(posted') :
             posted'[i] = IF i <= Len(posted) THEN posted[i]
                                              ELSE new[i - Len(posted)]
    BY <1>0, <2>2, <2>3, ConcatProperties DEF new
  <2>6. Len(posted) \in Nat /\ Len(new) \in Nat
    BY <1>0, <2>3, LenProperties
  <2>7. ASSUME NEW i \in 1..Len(posted'), posted'[i].buffer \in Buffer
        PROVE  posted'[i].num <= content'[posted'[i].buffer]
    <3>1. CASE i <= Len(posted)
      BY <1>2, <2>5, <2>6, <2>7, <3>1
    <3>2. CASE i > Len(posted)
      <4>1. i - Len(posted) \in 1..Len(new) /\ posted'[i] = new[i - Len(posted)]
        BY <2>5, <2>6, <2>7, <3>2
      <4> QED BY <2>4, <2>7, <4>1
    <3> QED BY <2>6, <3>1, <3>2
  <2> QED
    BY <2>7 DEF PostedBehind, Behind
<1>5. ASSUME NEW w \in Worker, StartTask(w) PROVE PostedBehind'
  <2>1. posted # <<>> /\ posted' = Tail(posted) /\ content' = content
    BY <1>5 DEF StartTask, bufVars
  <2>2. /\ Len(posted) \in Nat /\ Len(posted') = Len(posted) - 1
        /\ \A i \in 1..Len(posted') : posted'[i] = posted[i + 1]
    BY <1>0, <2>1, HeadTailProperties, LenProperties
  <2>3. \A i \in 1..Len(posted') : i + 1 \in 1..Len(posted)
    BY <2>2
  <2> QED
    BY <1>2, <2>1, <2>2, <2>3 DEF PostedBehind, Behind
<1> QED
  BY <1>3, <1>4, <1>5 DEF Next, vars, Work, MainThread, Fill, Release,
     BeginCopy, EmptyImage, EndCopy, StoreRedis, StoreFile, Expire,
     StopPipeline, DestroyRedis, StopPool, JoinPool

----------------------------------------------------------------------------
(* The workers                                                             *)

\* Actions that leave a worker's task, position and copy alone.
LEMMA OtherStep ==
    ASSUME TypeOK, [Next]_vars, NEW w \in Worker, wPc'[w] # "idle", wPc[w] = wPc'[w]
    PROVE  wPc[w] # "idle" /\ task'[w] = task[w] /\ image'[w] = image[w]
<1> USE DEF TypeOK, bufVars, workVars, storeVars, mainVars
<1>1. CASE UNCHANGED workVars
  BY <1>1
<1>2. ASSUME NEW v \in Worker, Work(v)
      PROVE  task'[w] = task[w] /\ image'[w] = image[w]
  BY <1>2 DEF Work, StartTask, BeginCopy, EmptyImage, EndCopy, StoreRedis,
     StoreFile, Finish
<1> QED
  BY <1>1, <1>2 DEF Next, vars, MainThread, Fill, Release, ProbeBuffer, Expire,
     StopPipeline, DestroyRedis, StopPool, JoinPool

\* How a worker comes to another position.
LEMMA WorkerMoves ==
    ASSUME TypeOK, [Next]_vars, NEW w \in Worker, wPc'[w] # "idle", wPc[w] # wPc'[w]
    PROVE  StartTask(w) \/ BeginCopy(w) \/ EndCopy(w)
<1> USE DEF TypeOK, bufVars, workVars, storeVars, mainVars
<1>1. CASE UNCHANGED workVars
  BY <1>1
<1>2. ASSUME NEW v \in Worker, Work(v)
      PROVE  StartTask(w) \/ BeginCopy(w) \/ EndCopy(w)
  <2>1. wPc'[v] # wPc[v] => v = w
    BY <1>2 DEF Work, StartTask, BeginCopy, EmptyImage, EndCopy, StoreRedis,
       StoreFile, Finish
  <2>2. v = w
    BY <1>2, <2>1 DEF Work, StartTask, BeginCopy, EmptyImage, EndCopy, StoreRedis,
       StoreFile, Finish
  <2> QED
    BY <1>2, <2>2 DEF Work, EmptyImage, StoreRedis, StoreFile, Finish
<1> QED
  BY <1>1, <1>2 DEF Next, vars, MainThread, Fill, Release, ProbeBuffer, Expire,
     StopPipeline, DestroyRedis, StopPool, JoinPool

LEMMA WorkStep ==
    TypeOK /\ Numbered /\ PostedBehind /\ WorkBehind /\ [Next]_vars => WorkBehind'
<1> SUFFICES ASSUME TypeOK, Numbered, PostedBehind, WorkBehind, [Next]_vars,
                    NEW w \in Worker, wPc'[w] # "idle"
             PROVE  task'[w] \in Task /\ Behind(task[w])'
  BY DEF WorkBehind
<1>1. CASE wPc'[w] = wPc[w]
  <2>1. task'[w] = task[w] /\ task[w] \in Task /\ Behind(task[w])
    BY <1>1, OtherStep DEF WorkBehind
  <2> QED BY <2>1, BehindStep DEF Behind
<1>2. CASE StartTask(w)
  <2>1. posted \in Seq(Task) /\ posted # <<>> /\ content' = content
    BY <1>2 DEF StartTask, TypeOK, bufVars
  <2>2. 1 \in 1..Len(posted) /\ Head(posted) = posted[1] /\ Head(posted) \in Task
    BY <2>1, HeadTailProperties, LenProperties, EmptySeq
  <2>3. task'[w] = Head(posted)
    BY <1>2, Zenon DEF StartTask, TypeOK
  <2>4. Behind(Head(posted))
    BY <2>2 DEF PostedBehind
  <2> QED BY <2>1, <2>2, <2>3, <2>4 DEF Behind
<1>3. CASE BeginCopy(w) \/ EndCopy(w)
  <2>1. wPc[w] # "idle" /\ task' = task
    BY <1>3 DEF BeginCopy, EndCopy
  <2>2. task[w] \in Task /\ Behind(task[w])
    BY <2>1 DEF WorkBehind
  <2> QED BY <2>1, <2>2, BehindStep DEF Behind
<1> QED
  BY <1>1, <1>2, <1>3, WorkerMoves

LEMMA CopyStep ==
    TypeOK /\ WorkBehind /\ CopyBehind /\ [Next]_vars => CopyBehind'
<1> SUFFICES ASSUME TypeOK, WorkBehind, CopyBehind, [Next]_vars,
                    NEW w \in Worker, wPc'[w] \in {"copying", "store"}
             PROVE  /\ task'[w].buffer \in Buffer
                    /\ \A m \in image'[w] : m >= task'[w].num
  BY DEF CopyBehind
<1>1. CASE wPc'[w] = wPc[w]
  BY <1>1, OtherStep DEF CopyBehind
<1>2. CASE StartTask(w)
  BY <1>2 DEF StartTask, TypeOK
<1>3. CASE BeginCopy(w)
  <2>1. /\ task[w] \in Task /\ Behind(task[w]) /\ task' = task
        /\ task[w].buffer \in Buffer
    BY <1>3 DEF BeginCopy, WorkBehind, Task
  <2>2. image'[w] = {content[task[w].buffer]}
    BY <1>3 DEF BeginCopy, TypeOK
  <2>3. task[w].num \in Nat /\ content[task[w].buffer] \in Int
    BY <2>1 DEF Task, TypeOK
  <2> QED BY <2>1, <2>2, <2>3 DEF Behind
<1>4. CASE EndCopy(w)
  <2>1. /\ task[w] \in Task /\ Behind(task[w]) /\ task' = task
        /\ task[w].buffer \in Buffer
        /\ \A m \in image[w] : m >= task[w].num
    BY <1>4 DEF EndCopy, WorkBehind, CopyBehind
  <2>2. image'[w] = image[w] \union {content[task[w].buffer]}
    BY <1>4 DEF EndCopy, TypeOK
  <2>3. task[w].num \in Nat /\ content[task[w].buffer] \in Int
    BY <2>1 DEF Task, TypeOK
  <2> QED BY <2>1, <2>2, <2>3 DEF Behind
<1> QED
  BY <1>1, <1>2, <1>3, <1>4, WorkerMoves

LEMMA OlderStep ==
    TypeOK /\ WorkBehind /\ CopyBehind /\ NeverOlder /\ [Next]_vars => NeverOlder'
<1> SUFFICES ASSUME TypeOK, WorkBehind, CopyBehind, NeverOlder, [Next]_vars
             PROVE  NeverOlder'
  OBVIOUS
<1>1. CASE UNCHANGED <<redis_keys, files>>
  BY <1>1 DEF NeverOlder
<1>2. ASSUME NEW w \in Worker, StoreRedis(w) \/ StoreFile(w) PROVE NeverOlder'
  <2>1. \A m \in image[w] : m >= task[w].num
    BY <1>2 DEF StoreRedis, StoreFile, CopyBehind
  <2> DEFINE Named(f) == \A n \in DOMAIN f : \A m \in f[n] : m >= n
  <2>2. Named(redis_keys) /\ Named(files)
    BY DEF NeverOlder
  <2>3. Named(redis_keys') \/ redis_keys' = redis_keys
    BY <1>2, <2>1, <2>2 DEF StoreRedis, StoreFile, Put
  <2>4. Named(files') \/ files' = files
    BY <1>2, <2>1, <2>2 DEF StoreRedis, StoreFile, Put
  <2> QED
    BY <2>2, <2>3, <2>4 DEF NeverOlder
<1>3. CASE Expire
  BY <1>3 DEF Expire, NeverOlder
<1> QED
  BY <1>1, <1>2, <1>3 DEF Next, vars, storeVars, Work, MainThread, Fill, Release,
     ProbeBuffer, StartTask, BeginCopy, EmptyImage, EndCopy, StopPipeline,
     DestroyRedis, StopPool, JoinPool

LEMMA ExitStep ==
    TypeOK /\ Stopped /\ NoTaskAfterExit /\ [Next]_vars
        => Stopped' /\ NoTaskAfterExit'
<1> SUFFICES ASSUME TypeOK, Stopped, NoTaskAfterExit, [Next]_vars
             PROVE  Stopped' /\ NoTaskAfterExit'
  OBVIOUS
<1> USE DEF Stopped, NoTaskAfterExit, bufVars, workVars, storeVars, mainVars
<1>1. CASE UNCHANGED <<mainPc, poolStopped, wPc>>
  BY <1>1
<1>2. ASSUME NEW w \in Worker, Work(w) PROVE Stopped' /\ NoTaskAfterExit'
  <2>1. UNCHANGED <<mainPc, poolStopped>>
    BY <1>2 DEF Work, StartTask, BeginCopy, EmptyImage, EndCopy, StoreRedis, StoreFile
  <2>2. mainPc # "exit"
    BY <1>2 DEF Work, StartTask, BeginCopy, EmptyImage, EndCopy, StoreRedis, StoreFile
  <2> QED BY <2>1, <2>2
<1>3. CASE MainThread
  BY <1>3 DEF MainThread, StopPipeline, DestroyRedis, StopPool, JoinPool
<1> QED
  BY <1>1, <1>2, <1>3 DEF Next, vars, Fill, Release, ProbeBuffer, Expire

----------------------------------------------------------------------------
\* Every reachable state satisfies the inductive invariant.
THEOREM Invariant == Spec => []IInv
<1>1. Init => IInv
  BY InvInit
<1>2. IInv /\ [Next]_vars => IInv'
  <2> SUFFICES ASSUME IInv, [Next]_vars PROVE IInv'
    OBVIOUS
  <2>1. TypeOK' /\ Numbered'
    BY TypeStep, NumberedStep DEF IInv
  <2>2. PostedBehind' /\ WorkBehind' /\ CopyBehind'
    BY PostedStep, WorkStep, CopyStep DEF IInv
  <2>3. NeverOlder' /\ Stopped' /\ NoTaskAfterExit'
    BY OlderStep, ExitStep DEF IInv
  <2> QED
    BY <2>1, <2>2, <2>3 DEF IInv
<1> QED
  BY <1>1, <1>2, PTL DEF Spec

\* The variables keep their types: tasks, images and keys (perception.hpp:138-180).
THEOREM TypeCorrect == Spec => []TypeOK
BY Invariant, PTL DEF IInv

\* No pixel stored under a frame's key or file name is older than the frame,
\* with any number of buffers recycled in any order (perception.cpp:614, :1080).
THEOREM NeverOlderHolds == Spec => []NeverOlder
BY Invariant, PTL DEF IInv

\* main() never ends while a task runs, for any number of workers
\* (perception.cpp:303, :456).
THEOREM NoTaskAfterExitHolds == Spec => []NoTaskAfterExit
BY Invariant, PTL DEF IInv

\* The number of the frame in a buffer only grows: an image read from it late
\* is of a later frame of the same camera, never of an earlier one
\* (perception.cpp:614, :663).
THEOREM BuffersMoveForward ==
    Spec => [][\A b \in Buffer : content[b] <= content'[b]]_vars
<1>1. IInv /\ [Next]_vars => [\A b \in Buffer : content[b] <= content'[b]]_vars
  BY ContentGrows DEF IInv
<1> QED
  BY <1>1, Invariant, PTL DEF Spec

----------------------------------------------------------------------------
(* EachTaskOnce.  A task is told by its kind and its frame; the invariant  *)
(* says that no two are alike, that the frames yet to be probed are later  *)
(* than every task's, and that every frame of the interval is still to be  *)
(* probed or has its Redis task.                                           *)

Alike(t, u) == t.kind = u.kind /\ t.num = u.num
Busy == {w \in Worker : wPc[w] # "idle"}
Known == InPool \union InWork \union finished

NoneTwice ==
    /\ \A i, j \in 1..Len(posted) : Alike(posted[i], posted[j]) => i = j
    /\ \A v, w \in Busy : Alike(task[v], task[w]) => v = w
    /\ \A i \in 1..Len(posted), w \in Busy : ~Alike(posted[i], task[w])
    /\ \A t \in finished, i \in 1..Len(posted) : ~Alike(posted[i], t)
    /\ \A t \in finished, w \in Busy : ~Alike(task[w], t)
    /\ \A t, u \in finished : Alike(t, u) => t = u

\* Frames before the probe are apart, and later than every task.
Fresh ==
    /\ \A b, c \in Buffer :
         stage[b] = "filled" /\ stage[c] = "filled" /\ content[b] = content[c] => b = c
    /\ \A b \in Buffer : stage[b] = "filled" => \A t \in Known : t.num < content[b]
    /\ \A t \in Known : t.num < next

Covered ==
    mainPc = "loop" =>
        \A n \in 0..(next - 1) :
          n % FRAME_INTERVAL = 0 =>
            \/ \E b \in Buffer : stage[b] = "filled" /\ content[b] = n
            \/ \E t \in Known : t.kind = "redis" /\ t.num = n

OInv == NoneTwice /\ Fresh /\ Covered

----------------------------------------------------------------------------
(* Steps that move no task                                                 *)

LEMMA KnownIs ==
    \A t : t \in Known <=>
             \/ \E i \in 1..Len(posted) : t = posted[i]
             \/ \E w \in Busy : t = task[w]
             \/ t \in finished
BY DEF Known, InPool, InWork, Busy

LEMMA KnownTasks ==
    ASSUME TypeOK, WorkBehind
    PROVE  Known \subseteq Task
<1>1. \A i \in 1..Len(posted) : posted[i] \in Task
  BY ElementOfSeq DEF TypeOK
<1> QED
  BY <1>1 DEF Known, InPool, InWork, WorkBehind, TypeOK

\* The places of the tasks and the frames before the probe are as they were.
LEMMA QuietStep ==
    ASSUME OInv, UNCHANGED <<posted, task, finished, next, content>>, Busy' = Busy,
           \A b \in Buffer : stage'[b] = "filled" => stage[b] = "filled",
           mainPc' = "loop" =>
             mainPc = "loop" /\ \A b \in Buffer : stage[b] = "filled" => stage'[b] = "filled"
    PROVE  OInv'
<1>1. Known' = Known
  BY DEF Known, InPool, InWork, Busy
<1>2. NoneTwice'
  BY DEF OInv, NoneTwice
<1>3. Fresh'
  BY <1>1 DEF OInv, Fresh
<1>4. Covered'
  <2> SUFFICES ASSUME mainPc' = "loop" PROVE Covered'
    BY DEF Covered
  <2> QED BY <1>1 DEF OInv, Covered
<1> QED
  BY <1>2, <1>3, <1>4 DEF OInv

\* A new frame is later than every task.
LEMMA FillStep ==
    ASSUME TypeOK, Numbered, WorkBehind, OInv, NEW b \in Buffer, Fill(b)
    PROVE  OInv'
<1>1. UNCHANGED <<posted, task, finished, wPc, mainPc>>
  BY DEF Fill, workVars, storeVars, mainVars
<1>2. Known' = Known /\ Busy' = Busy
  BY <1>1 DEF Known, InPool, InWork, Busy
<1>3. NoneTwice'
  BY <1>1, <1>2 DEF OInv, NoneTwice
<1>4. next \in Nat /\ next' = next + 1 /\ mainPc = "loop"
  BY DEF Fill, TypeOK
<1>5. /\ content'[b] = next /\ stage'[b] = "filled" /\ stage[b] = "free"
      /\ \A c \in Buffer : c # b => content'[c] = content[c] /\ stage'[c] = stage[c]
  BY DEF Fill, TypeOK
<1>6. \A t \in Known : t.num \in Nat /\ t.num < next
  BY KnownTasks DEF OInv, Fresh, Task
<1>7. \A c \in Buffer : content[c] \in Int /\ content[c] < next
  BY DEF TypeOK, Numbered
<1>8. Fresh'
  <2>1. ASSUME NEW c \in Buffer, NEW d \in Buffer, stage'[c] = "filled",
               stage'[d] = "filled", content'[c] = content'[d]
        PROVE  c = d
    BY <1>4, <1>5, <1>7, <2>1 DEF OInv, Fresh
  <2>2. ASSUME NEW c \in Buffer, stage'[c] = "filled", NEW t \in Known
        PROVE  t.num < content'[c]
    BY <1>5, <1>6, <2>2 DEF OInv, Fresh
  <2>3. \A t \in Known : t.num < next'
    BY <1>4, <1>6
  <2> QED BY <1>2, <2>1, <2>2, <2>3 DEF Fresh
<1>9. Covered'
  <2> SUFFICES ASSUME NEW n \in 0..next, n % FRAME_INTERVAL = 0
               PROVE  \/ \E c \in Buffer : stage'[c] = "filled" /\ content'[c] = n
                      \/ \E t \in Known : t.kind = "redis" /\ t.num = n
    BY <1>2, <1>4 DEF Covered
  <2>1. CASE n = next
    BY <1>5, <2>1
  <2>2. CASE n \in 0..(next - 1)
    <3>1. \/ \E c \in Buffer : stage[c] = "filled" /\ content[c] = n
          \/ \E t \in Known : t.kind = "redis" /\ t.num = n
      BY <1>4, <2>2 DEF OInv, Covered
    <3> QED BY <1>5, <3>1
  <2> QED BY <1>4, <2>1, <2>2
<1> QED
  BY <1>3, <1>8, <1>9 DEF OInv

----------------------------------------------------------------------------
(* The probe                                                               *)

\* A frame gets at most one task of each kind, and its Redis task on the
\* interval.
LEMMA TasksApart ==
    ASSUME NEW b \in Buffer \union {NoBuffer}, NEW num \in Nat
    PROVE  /\ \A i, j \in 1..Len(TasksFor(b, num)) :
                Alike(TasksFor(b, num)[i], TasksFor(b, num)[j]) => i = j
           /\ num % FRAME_INTERVAL = 0 =>
                \E i \in 1..Len(TasksFor(b, num)) : TasksFor(b, num)[i].kind = "redis"
<1> DEFINE saveTask == [kind |-> "save", buffer |-> b, num |-> num]
           sendTask == [kind |-> "redis", buffer |-> b, num |-> num]
           save == IF SAVE_FRAMES /\ b # NoBuffer THEN <<saveTask>> ELSE <<>>
           send == IF num % FRAME_INTERVAL = 0 THEN <<sendTask>> ELSE <<>>
<1>1. saveTask \in Task /\ sendTask \in Task
  BY DEF Task
<1>2. saveTask.kind = "save" /\ sendTask.kind = "redis"
  OBVIOUS
<1>3. TasksFor(b, num) = save \o send
  BY DEF TasksFor
<1>4. num % FRAME_INTERVAL = 0 => send = <<sendTask>>
  OBVIOUS
<1>5. save \in {<<>>, <<saveTask>>} /\ send \in {<<>>, <<sendTask>>}
  OBVIOUS
<1> HIDE DEF saveTask, sendTask, save, send
<1>6. \A t \in Task : <<t>> \in Seq(Task) /\ Len(<<t>>) = 1 /\ <<t>>[1] = t
  OBVIOUS
<1>7. CASE save = <<>> /\ send = <<>>
  <2>1. TasksFor(b, num) = <<>>
    BY <1>3, <1>7
  <2>2. ~(num % FRAME_INTERVAL = 0)
    BY <1>4, <1>7
  <2> QED BY <2>1, <2>2
<1>8. CASE save = <<saveTask>> /\ send = <<>>
  <2>1. TasksFor(b, num) = <<saveTask>>
    BY <1>1, <1>3, <1>6, <1>8, ConcatEmptySeq
  <2>2. ~(num % FRAME_INTERVAL = 0)
    BY <1>4, <1>8
  <2> QED BY <1>1, <1>6, <2>1, <2>2
<1>9. CASE save = <<>> /\ send = <<sendTask>>
  <2>1. TasksFor(b, num) = <<sendTask>>
    BY <1>1, <1>3, <1>6, <1>9, ConcatEmptySeq
  <2> QED BY <1>1, <1>2, <1>6, <2>1
<1>10. CASE save = <<saveTask>> /\ send = <<sendTask>>
  <2>1. TasksFor(b, num) = <<saveTask>> \o <<sendTask>>
    BY <1>3, <1>10
  <2>2. /\ Len(TasksFor(b, num)) = 2
        /\ TasksFor(b, num)[1] = saveTask /\ TasksFor(b, num)[2] = sendTask
    BY <1>1, <1>6, <2>1, ConcatProperties
  <2> QED BY <1>2, <2>2 DEF Alike
<1> QED
  BY <1>5, <1>7, <1>8, <1>9, <1>10

LEMMA ProbeStep ==
    ASSUME TypeOK, Numbered, WorkBehind, OInv, NEW b \in Buffer, ProbeBuffer(b)
    PROVE  OInv'
<1> DEFINE num == content[b]
<1>1. num \in Nat /\ stage[b] = "filled"
  BY DEF ProbeBuffer, Numbered
<1>2. PICK mapped \in {b, NoBuffer} : posted' = posted \o TasksFor(mapped, num)
  BY DEF ProbeBuffer
<1> DEFINE new == TasksFor(mapped, num)
<1>3. /\ new \in Seq(Task)
      /\ \A i \in 1..Len(new) : new[i].num = num
      /\ \A i, j \in 1..Len(new) : Alike(new[i], new[j]) => i = j
      /\ num % FRAME_INTERVAL = 0 => \E i \in 1..Len(new) : new[i].kind = "redis"
  <2>1. mapped \in Buffer \union {NoBuffer}
    OBVIOUS
  <2> HIDE DEF num
  <2>2. /\ TasksFor(mapped, num) \in Seq(Task)
        /\ \A i \in 1..Len(TasksFor(mapped, num)) :
             /\ TasksFor(mapped, num)[i].num = num
             /\ TasksFor(mapped, num)[i].buffer = mapped
    BY <1>1, <2>1, TasksForFrame
  <2>3. /\ \A i, j \in 1..Len(new) : Alike(new[i], new[j]) => i = j
        /\ num % FRAME_INTERVAL = 0 => \E i \in 1..Len(new) : new[i].kind = "redis"
    BY <1>1, <2>1, TasksApart
  <2> QED BY <2>2, <2>3
<1> HIDE DEF new
<1>4. posted \in Seq(Task)
  BY DEF TypeOK
<1>5. /\ Len(posted) \in Nat /\ Len(new) \in Nat
      /\ Len(posted') = Len(posted) + Len(new)
      /\ \A i \in 1..Len(posted') :
           posted'[i] = IF i <= Len(posted) THEN posted[i] ELSE new[i - Len(posted)]
  BY <1>2, <1>3, <1>4, ConcatProperties, LenProperties DEF new
<1>6. UNCHANGED <<task, wPc, finished, next, content, mainPc>> /\ Busy' = Busy
  BY DEF ProbeBuffer, workVars, storeVars, mainVars, Busy
\* Where a task of the new queue comes from.
<1>7. \A i \in 1..Len(posted') :
        \/ i \in 1..Len(posted) /\ posted'[i] = posted[i]
        \/ /\ i - Len(posted) \in 1..Len(new) /\ i > Len(posted)
           /\ posted'[i] = new[i - Len(posted)]
  BY <1>5
<1>8. \A t \in Known : t.num \in Nat /\ t.num < num
  BY <1>1, KnownTasks DEF OInv, Fresh, Task
<1>9. \A t \in Known, i \in 1..Len(new) : ~Alike(new[i], t) /\ ~Alike(t, new[i])
  BY <1>1, <1>3, <1>8 DEF Alike
<1>10. /\ \A i \in 1..Len(posted) : posted[i] \in Known
       /\ \A w \in Busy : task[w] \in Known
       /\ finished \subseteq Known
  BY KnownIs
<1>11. NoneTwice'
  <2>1. ASSUME NEW i \in 1..Len(posted'), NEW j \in 1..Len(posted'),
               Alike(posted'[i], posted'[j])
        PROVE  i = j
    <3>1. CASE i \in 1..Len(posted) /\ j \in 1..Len(posted)
      BY <1>5, <2>1, <3>1 DEF OInv, NoneTwice
    <3>2. CASE i > Len(posted) /\ j > Len(posted)
      <4>1. /\ i - Len(posted) \in 1..Len(new) /\ posted'[i] = new[i - Len(posted)]
            /\ j - Len(posted) \in 1..Len(new) /\ posted'[j] = new[j - Len(posted)]
        BY <1>5, <3>2
      <4>2. i - Len(posted) = j - Len(posted)
        BY <1>3, <2>1, <4>1
      <4> QED BY <1>5, <4>2
    <3>3. CASE i > Len(posted) /\ j \in 1..Len(posted)
      BY <1>5, <1>7, <1>9, <1>10, <2>1, <3>3
    <3>4. CASE i \in 1..Len(posted) /\ j > Len(posted)
      BY <1>5, <1>7, <1>9, <1>10, <2>1, <3>4
    <3> QED BY <1>5, <3>1, <3>2, <3>3, <3>4
  <2>2. \A i \in 1..Len(posted'), w \in Busy : ~Alike(posted'[i], task[w])
    BY <1>7, <1>9, <1>10 DEF OInv, NoneTwice
  <2>3. \A t \in finished, i \in 1..Len(posted') : ~Alike(posted'[i], t)
    BY <1>7, <1>9, <1>10 DEF OInv, NoneTwice
  <2> QED
    BY <1>6, <2>1, <2>2, <2>3 DEF OInv, NoneTwice
<1>12. \A t \in Known' : t \in Known \/ \E i \in 1..Len(new) : t = new[i]
  <2>1. ASSUME NEW t \in Known', t \notin finished, ~\E w \in Busy : t = task[w]
        PROVE  \E i \in 1..Len(posted') : t = posted'[i]
    BY <1>6, <2>1 DEF Known, InPool, InWork, Busy
  <2> QED BY <1>7, <1>10, <2>1
<1>13. /\ Known \subseteq Known'
       /\ \A i \in 1..Len(new) : new[i] \in Known'
  <2>1. \A i \in 1..Len(posted) : i \in 1..Len(posted') /\ posted'[i] = posted[i]
    BY <1>5
  <2>2. \A i \in 1..Len(new) :
          Len(posted) + i \in 1..Len(posted') /\ posted'[Len(posted) + i] = new[i]
    BY <1>5
  <2> QED BY <1>6, <2>1, <2>2 DEF Known, InPool, InWork, Busy
<1>14. stage' = [stage EXCEPT ![b] = "passed"]
       /\ \A c \in Buffer : stage[c] = "filled" => content[b] <= content[c]
  BY DEF ProbeBuffer
<1>15. \A c \in Buffer : stage'[c] = "filled" => stage[c] = "filled" /\ c # b
  BY <1>14 DEF TypeOK
<1>16. Fresh'
  <2>1. \A c, d \in Buffer :
          stage'[c] = "filled" /\ stage'[d] = "filled" /\ content[c] = content[d] => c = d
    BY <1>15 DEF OInv, Fresh
  <2>2. ASSUME NEW c \in Buffer, stage'[c] = "filled", NEW t \in Known'
        PROVE  t.num < content[c]
    <3>1. stage[c] = "filled" /\ c # b /\ content[c] \in Int /\ content[b] <= content[c]
      BY <1>14, <1>15, <2>2 DEF TypeOK
    <3>2. content[b] < content[c]
      BY <1>1, <3>1 DEF OInv, Fresh
    <3> QED BY <1>1, <1>3, <1>8, <1>12, <3>1, <3>2
  <2>3. \A t \in Known' : t.num < next
    BY <1>1, <1>3, <1>12 DEF OInv, Fresh, Numbered
  <2> QED BY <1>6, <2>1, <2>2, <2>3 DEF Fresh
<1>17. Covered'
  <2> SUFFICES ASSUME mainPc = "loop", NEW n \in 0..(next - 1), n % FRAME_INTERVAL = 0
               PROVE  \/ \E c \in Buffer : stage'[c] = "filled" /\ content[c] = n
                      \/ \E t \in Known' : t.kind = "redis" /\ t.num = n
    BY <1>6 DEF Covered
  <2>1. \/ \E c \in Buffer : stage[c] = "filled" /\ content[c] = n
        \/ \E t \in Known : t.kind = "redis" /\ t.num = n
    BY DEF OInv, Covered
  <2>2. CASE \E t \in Known : t.kind = "redis" /\ t.num = n
    BY <1>13, <2>2
  <2>3. CASE n = num
    BY <1>3, <1>13, <2>3
  <2>4. ASSUME NEW c \in Buffer, stage[c] = "filled", content[c] = n, n # num
        PROVE  stage'[c] = "filled"
    BY <1>14, <2>4 DEF TypeOK
  <2> QED BY <2>1, <2>2, <2>3, <2>4
<1> QED
  BY <1>11, <1>16, <1>17 DEF OInv

----------------------------------------------------------------------------
(* The workers                                                             *)

\* The tasks are where they were but for one that changed its place; frames
\* and their numbers stay.
LEMMA MovedStep ==
    ASSUME OInv, NoneTwice', Known' = Known, UNCHANGED <<next, content, stage, mainPc>>
    PROVE  OInv'
<1>1. Fresh' /\ Covered'
  BY DEF OInv, Fresh, Covered
<1> QED
  BY <1>1 DEF OInv

LEMMA StartStep ==
    ASSUME TypeOK, WorkBehind, OInv, NEW w \in Worker, StartTask(w)
    PROVE  OInv'
<1>1. /\ posted \in Seq(Task) /\ posted # <<>> /\ posted' = Tail(posted)
      /\ wPc[w] = "idle" /\ UNCHANGED <<finished, next, content, stage, mainPc>>
  BY DEF StartTask, TypeOK, bufVars, storeVars, mainVars
<1>2. /\ Len(posted) \in Nat \ {0} /\ Len(posted') = Len(posted) - 1
      /\ \A i \in 1..Len(posted') : posted'[i] = posted[i + 1]
      /\ Head(posted) = posted[1]
  BY <1>1, HeadTailProperties, LenProperties, EmptySeq
<1>3. \A i \in 1..Len(posted') : i + 1 \in 1..Len(posted) /\ i + 1 # 1
  BY <1>2
<1>4. 1 \in 1..Len(posted)
  BY <1>2
<1>5. task'[w] = posted[1] /\ \A v \in Worker : v # w => task'[v] = task[v]
  BY <1>2, Zenon DEF StartTask, TypeOK
<1>6. wPc'[w] = "copy" /\ \A v \in Worker : v # w => wPc'[v] = wPc[v]
  BY Zenon DEF StartTask, TypeOK
<1>7. Busy' = Busy \union {w} /\ w \notin Busy
  BY <1>1, <1>6 DEF Busy
<1>8. \A v \in Busy : v \in Worker /\ v # w /\ task'[v] = task[v]
  BY <1>5, <1>7 DEF Busy
<1>9. NoneTwice'
  <2>1. \A i, j \in 1..Len(posted') : Alike(posted'[i], posted'[j]) => i = j
    <3>1. \A i, j \in 1..Len(posted') : Alike(posted'[i], posted'[j]) => i + 1 = j + 1
      BY <1>2, <1>3 DEF OInv, NoneTwice
    <3> QED BY <3>1
  <2>2. \A v, u \in Busy' : Alike(task'[v], task'[u]) => v = u
    <3>1. \A v, u \in Busy : Alike(task'[v], task'[u]) => v = u
      BY <1>8 DEF OInv, NoneTwice
    <3>2. \A v \in Busy : ~Alike(task'[v], task'[w]) /\ ~Alike(task'[w], task'[v])
      BY <1>4, <1>5, <1>8 DEF OInv, NoneTwice, Alike
    <3> QED BY <1>7, <3>1, <3>2
  <2>3. \A i \in 1..Len(posted'), v \in Busy' : ~Alike(posted'[i], task'[v])
    <3>1. \A i \in 1..Len(posted'), v \in Busy : ~Alike(posted'[i], task'[v])
      BY <1>2, <1>3, <1>8 DEF OInv, NoneTwice
    <3>2. \A i \in 1..Len(posted') : ~Alike(posted'[i], task'[w])
      BY <1>2, <1>3, <1>4, <1>5 DEF OInv, NoneTwice
    <3> QED BY <1>7, <3>1, <3>2
  <2>4. \A t \in finished, i \in 1..Len(posted') : ~Alike(posted'[i], t)
    BY <1>2, <1>3 DEF OInv, NoneTwice
  <2>5. \A t \in finished, v \in Busy' : ~Alike(task'[v], t)
    BY <1>4, <1>5, <1>7, <1>8 DEF OInv, NoneTwice
  <2> QED
    BY <1>1, <2>1, <2>2, <2>3, <2>4, <2>5 DEF OInv, NoneTwice
<1>10. Known' = Known
  <2>1. \A i \in 1..Len(posted) :
          i = 1 \/ (i - 1 \in 1..Len(posted') /\ posted[i] = posted'[i - 1])
    <3>1. \A i \in 1..Len(posted) : i # 1 => i - 1 \in 1..Len(posted') /\ (i - 1) + 1 = i
      BY <1>2
    <3> QED BY <1>2, <3>1
  <2>2. InPool = InPool' \union {posted[1]}
    BY <1>2, <1>3, <1>4, <2>1 DEF InPool
  <2>3. InWork' = InWork \union {posted[1]}
    BY <1>5, <1>7, <1>8 DEF InWork, Busy
  <2> QED
    BY <1>1, <2>2, <2>3 DEF Known
<1> QED
  BY <1>1, <1>9, <1>10, MovedStep

LEMMA FinishStep ==
    ASSUME TypeOK, WorkBehind, OInv, NEW w \in Worker, wPc[w] # "idle", Finish(w),
           UNCHANGED <<posted, next, content, stage, mainPc>>
    PROVE  OInv'
<1>1. finished' = finished \union {task[w]}
  BY DEF Finish
<1>2. \A v \in Worker : v # w => task'[v] = task[v] /\ wPc'[v] = wPc[v]
  BY Zenon DEF Finish, TypeOK
<1>3. wPc'[w] = "idle"
  BY Zenon DEF Finish, TypeOK
<1>4. Busy = Busy' \union {w} /\ w \notin Busy'
  BY <1>2, <1>3 DEF Busy
<1>5. \A v \in Busy' : v \in Busy /\ v # w /\ task'[v] = task[v]
  BY <1>2, <1>4 DEF Busy
<1>6. w \in Busy
  BY <1>4
<1>7. NoneTwice'
  <2>1. \A v, u \in Busy' : Alike(task'[v], task'[u]) => v = u
    BY <1>5 DEF OInv, NoneTwice
  <2>2. \A i \in 1..Len(posted), v \in Busy' : ~Alike(posted[i], task'[v])
    BY <1>5 DEF OInv, NoneTwice
  <2>3. \A t \in finished', i \in 1..Len(posted) : ~Alike(posted[i], t)
    BY <1>1, <1>6 DEF OInv, NoneTwice
  <2>4. \A t \in finished', v \in Busy' : ~Alike(task'[v], t)
    BY <1>1, <1>5, <1>6 DEF OInv, NoneTwice
  <2>5. \A t, u \in finished' : Alike(t, u) => t = u
    BY <1>1, <1>6 DEF OInv, NoneTwice, Alike
  <2> QED
    BY <2>1, <2>2, <2>3, <2>4, <2>5 DEF OInv, NoneTwice
<1>8. InWork = InWork' \union {task[w]}
  BY <1>4, <1>5, <1>6 DEF InWork, Busy
<1>9. Known' = Known
  BY <1>1, <1>8 DEF Known, InPool
<1> QED
  BY <1>7, <1>9, MovedStep

\* Copying moves no task.
LEMMA CopyingQuiet ==
    ASSUME TypeOK, OInv, NEW w \in Worker, BeginCopy(w) \/ EndCopy(w)
    PROVE  OInv'
<1>1. UNCHANGED <<posted, task, finished, next, content, stage, mainPc>>
  BY DEF BeginCopy, EndCopy, bufVars, storeVars, mainVars
<1>2. wPc[w] # "idle" /\ wPc'[w] # "idle" /\ \A v \in Worker : v # w => wPc'[v] = wPc[v]
  BY DEF BeginCopy, EndCopy, TypeOK
<1>3. Busy' = Busy
  BY <1>2 DEF Busy
<1> QED
  BY <1>1, <1>3, QuietStep

LEMMA OnceStep == IInv /\ OInv /\ [Next]_vars => OInv'
<1> SUFFICES ASSUME IInv, OInv, [Next]_vars PROVE OInv'
  OBVIOUS
<1>0. TypeOK /\ Numbered /\ WorkBehind
  BY DEF IInv
<1>1. CASE UNCHANGED vars
  BY <1>1, QuietStep DEF vars, bufVars, workVars, storeVars, mainVars, Busy
<1>2. ASSUME NEW b \in Buffer, Fill(b) PROVE OInv'
  BY <1>0, <1>2, FillStep
<1>3. ASSUME NEW b \in Buffer, ProbeBuffer(b) PROVE OInv'
  BY <1>0, <1>3, ProbeStep
<1>4. ASSUME NEW b \in Buffer, Release(b) PROVE OInv'
  <2>1. /\ UNCHANGED <<posted, task, finished, next, content, wPc, mainPc>>
        /\ stage[b] = "passed" /\ stage' = [stage EXCEPT ![b] = "free"]
    BY <1>4 DEF Release, workVars, storeVars, mainVars
  <2>2. Busy' = Busy /\ \A c \in Buffer : stage'[c] = "filled" <=> stage[c] = "filled"
    BY <1>0, <2>1 DEF Busy, TypeOK
  <2> QED BY <2>1, <2>2, QuietStep
<1>5. ASSUME NEW w \in Worker, Work(w) PROVE OInv'
  <2>1. CASE StartTask(w)
    BY <1>0, <2>1, StartStep
  <2>2. CASE BeginCopy(w) \/ EndCopy(w)
    BY <1>0, <2>2, CopyingQuiet
  <2>3. CASE EmptyImage(w) \/ StoreRedis(w) \/ StoreFile(w)
    <3>1. /\ wPc[w] # "idle" /\ Finish(w)
          /\ UNCHANGED <<posted, next, content, stage, mainPc>>
      BY <2>3 DEF EmptyImage, StoreRedis, StoreFile, bufVars, mainVars
    <3> QED BY <1>0, <3>1, FinishStep
  <2> QED BY <1>5, <2>1, <2>2, <2>3 DEF Work
<1>6. CASE Expire
  BY <1>6, QuietStep DEF Expire, bufVars, workVars, mainVars, Busy
<1>7. CASE MainThread
  <2>1. UNCHANGED <<posted, task, finished, next, content, wPc>> /\ mainPc' # "loop"
    BY <1>7 DEF MainThread, StopPipeline, DestroyRedis, StopPool, JoinPool,
       bufVars, workVars, storeVars
  <2>2. Busy' = Busy
    BY <2>1 DEF Busy
  <2>3. \A b \in Buffer : stage'[b] = "filled" => stage[b] = "filled"
    BY <1>7 DEF MainThread, StopPipeline, DestroyRedis, StopPool, JoinPool, bufVars
  <2> QED BY <2>1, <2>2, <2>3, QuietStep
<1> QED
  BY <1>1, <1>2, <1>3, <1>4, <1>5, <1>6, <1>7 DEF Next

----------------------------------------------------------------------------
(* From the invariant to the counts                                        *)

\* A set named one to one by a finite set has its size.
LEMMA OneToOne ==
    ASSUME NEW S, IsFiniteSet(S), NEW f, f = [s \in S |-> f[s]],
           \A s, r \in S : f[s] = f[r] => s = r
    PROVE  Cardinality({f[s] : s \in S}) = Cardinality(S)
<1> DEFINE T == {f[s] : s \in S}
<1>1. f \in [S -> T]
  OBVIOUS
<1>2. f \in Surjection(S, T)
  BY <1>1, Fun_IsSurj
<1>3. f \in Injection(S, T)
  BY <1>1, Fun_IsInj
<1> QED
  BY <1>2, <1>3, FS_Surjection

LEMMA CountsHold ==
    ASSUME IInv, OInv
    PROVE  EachTaskOnce
<1>1. posted \in Seq(Task) /\ task \in [Worker -> Task \union {NoTask}]
  BY DEF IInv, TypeOK
<1>2. Cardinality(InPool) = Len(posted)
  <2>1. Len(posted) \in Nat /\ posted = [i \in 1..Len(posted) |-> posted[i]]
    BY <1>1, LenProperties
  <2>2. IsFiniteSet(1..Len(posted)) /\ Cardinality(1..Len(posted)) = Len(posted)
    BY <2>1, FS_Interval
  <2>3. \A i, j \in 1..Len(posted) : posted[i] = posted[j] => i = j
    BY DEF OInv, NoneTwice, Alike
  <2> QED
    BY <2>1, <2>2, <2>3, OneToOne DEF InPool
<1>3. Cardinality(InWork) = Cardinality(Busy)
  <2> DEFINE f == [w \in Busy |-> task[w]]
  <2>1. IsFiniteSet(Busy)
    BY FrameAssumption, FS_Subset DEF Busy
  <2>2. \A v, w \in Busy : f[v] = f[w] => v = w
    BY DEF OInv, NoneTwice, Alike
  <2>3. f = [w \in Busy |-> f[w]] /\ InWork = {f[w] : w \in Busy}
    BY DEF InWork, Busy
  <2> HIDE DEF f
  <2> QED
    BY <2>1, <2>2, <2>3, OneToOne
<1>4. InPool \intersect InWork = {} /\ finished \intersect (InPool \union InWork) = {}
  BY DEF OInv, NoneTwice, Alike, InPool, InWork, Busy
<1>5. \A t, u \in Known : Alike(t, u) => t = u
  BY KnownIs DEF OInv, NoneTwice, Alike
<1>6. ASSUME NEW n, NEW t \in Known, t.kind = "redis", t.num = n
      PROVE  Cardinality({u \in Known : u.kind = "redis" /\ u.num = n}) = 1
  <2>1. {u \in Known : u.kind = "redis" /\ u.num = n} = {t}
    BY <1>5, <1>6 DEF Alike
  <2> QED
    BY <2>1, FS_Singleton
<1>7. mainPc = "loop" =>
        \A n \in 0..(next - 1) :
          n % FRAME_INTERVAL = 0 =>
            \/ \E b \in Buffer : stage[b] = "filled" /\ content[b] = n
            \/ Cardinality({u \in Known : u.kind = "redis" /\ u.num = n}) = 1
  BY <1>6 DEF OInv, Covered
<1> QED
  BY <1>2, <1>3, <1>4, <1>7 DEF EachTaskOnce, Known, Busy

----------------------------------------------------------------------------
\* The pool neither drops nor repeats a task, whatever the number of workers
\* and the order in which they take, fail and finish them
\* (perception.cpp:616-622, :680-683).
THEOREM EachTaskOnceHolds == Spec => []EachTaskOnce
<1>1. Init => OInv
  <2> SUFFICES ASSUME Init PROVE OInv
    OBVIOUS
  <2>1. Len(posted) = 0 /\ finished = {} /\ Busy = {} /\ next = 0
    BY DEF Init, Busy
  <2>2. 1..Len(posted) = {} /\ 0..(next - 1) = {}
    BY <2>1
  <2>3. Known = {}
    BY <2>1, <2>2, KnownIs
  <2>4. \A b \in Buffer : stage[b] # "filled"
    BY DEF Init
  <2> QED
    BY <2>1, <2>2, <2>3, <2>4 DEF OInv, NoneTwice, Fresh, Covered
<1>2. IInv /\ OInv /\ [Next]_vars => OInv'
  BY OnceStep
<1>3. IInv /\ OInv => EachTaskOnce
  BY CountsHold
<1> QED
  BY <1>1, <1>2, <1>3, Invariant, PTL DEF Spec

=============================================================================
