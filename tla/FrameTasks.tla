----------------------------- MODULE FrameTasks -----------------------------
(***************************************************************************)
(* perception.cpp: what happens to the image of a frame.  The pad probe    *)
(* wraps the mapped GStreamer buffer in a cv::Mat without copying it and   *)
(* posts saveFrameTask and send2redisTask to a thread pool; the tasks copy *)
(* the image later, while GStreamer may have given the buffer to another   *)
(* frame.  main() destroys the Redis client and the pool as it returns.    *)
(*                                                                         *)
(* An image is the set of frame numbers its pixels come from: a copy that  *)
(* overlaps the refill of its buffer holds both.  The buffer pool of the   *)
(* pipeline and the Redis server are external.                             *)
(***************************************************************************)
EXTENDS Integers, Sequences, FiniteSets

CONSTANTS
    Buffer,             \* buffers of the pipeline's pool
    Worker,             \* threads of boost::asio::thread_pool
    NoBuffer,           \* the data of an empty cv::Mat
    FRAME_INTERVAL,     \* settings["mqtt-broker"]["frame-interval"]
    SAVE_FRAMES,        \* AppCtx->save_frames
    MaxFrames           \* bound: frames of the single camera

ASSUME FrameAssumption ==
    /\ FRAME_INTERVAL \in Nat \ {0}
    /\ SAVE_FRAMES \in BOOLEAN
    /\ MaxFrames \in Nat
    /\ NoBuffer \notin Buffer
    /\ IsFiniteSet(Worker)

Task == [kind : {"redis", "save"}, buffer : Buffer \union {NoBuffer}, num : Nat]
NoTask == [kind |-> "none"]

VARIABLES
    next,           \* number of the next frame of the camera
    content,        \* content[b]: number of the frame in buffer b, or -1
    stage,          \* stage[b]: "free", "filled" (before the probe), "passed"
    posted,         \* tasks waiting in the pool, in order
    task,           \* task[w]: what worker w executes
    wPc,            \* wPc[w]: where it is in that task
    image,          \* image[w]: the frames its copy comes from
    redis_keys,     \* redis: frame number in the key -> image stored under it
    files,          \* frame number in the file name -> image saved
    finished,       \* history: tasks that ran to their end
    mainPc,         \* where main() is from pipeline->stop() on
    redisAlive,     \* the sw::redis::Redis object exists
    poolStopped     \* the destructor of the pool has called stop()

bufVars == <<next, content, stage>>
workVars == <<task, wPc, image>>
storeVars == <<redis_keys, files, finished>>
mainVars == <<mainPc, redisAlive, poolStopped>>
vars == <<bufVars, posted, workVars, storeVars, mainVars>>

Init ==
    /\ next = 0
    /\ content = [b \in Buffer |-> -1]
    /\ stage = [b \in Buffer |-> "free"]
    /\ posted = <<>>
    /\ task = [w \in Worker |-> NoTask]
    /\ wPc = [w \in Worker |-> "idle"]
    /\ image = [w \in Worker |-> {}]
    /\ redis_keys = [n \in {} |-> {}] /\ files = [n \in {} |-> {}]
    /\ finished = {}
    /\ mainPc = "loop" /\ redisAlive = TRUE /\ poolStopped = FALSE

----------------------------------------------------------------------------
(* The pipeline's buffers                                                  *)

\* Upstream of the probe: a free buffer receives the next frame.
Fill(b) ==
    /\ mainPc = "loop" /\ next < MaxFrames
    /\ stage[b] = "free"
    /\ content' = [content EXCEPT ![b] = next]
    /\ stage' = [stage EXCEPT ![b] = "filled"]
    /\ next' = next + 1
    /\ UNCHANGED <<posted, workVars, storeVars, mainVars>>

\* Downstream of the probe the buffer is released, whatever still points to
\* its memory: a cv::Mat is no reference to a GstBuffer.
Release(b) ==
    /\ stage[b] = "passed"
    /\ stage' = [stage EXCEPT ![b] = "free"]
    /\ UNCHANGED <<next, content, posted, workVars, storeVars, mainVars>>

\* Mutants: frames numbered one too low or one too high, and the interval
\* test inverted.
TasksFromPrevious(b, num) ==
    IF num % FRAME_INTERVAL = 0
    THEN <<[kind |-> "redis", buffer |-> b, num |-> num - 1]>> ELSE <<>>

TasksFromNext(b, num) ==
    IF num % FRAME_INTERVAL = 0
    THEN <<[kind |-> "redis", buffer |-> b, num |-> num + 1]>> ELSE <<>>

TasksOffInterval(b, num) ==
    IF num % FRAME_INTERVAL # 0
    THEN <<[kind |-> "redis", buffer |-> b, num |-> num]>> ELSE <<>>

\* The tasks the probe posts for a frame whose image is in buffer b, or
\* NoBuffer when gst_buffer_map failed: the file is skipped then, Redis is not.
TasksFor(b, num) ==
    LET save == IF SAVE_FRAMES /\ b # NoBuffer
                THEN <<[kind |-> "save", buffer |-> b, num |-> num]>> ELSE <<>>
        send == IF num % FRAME_INTERVAL = 0
                THEN <<[kind |-> "redis", buffer |-> b, num |-> num]>> ELSE <<>>
    IN  save \o send

\* The probe sees the buffers in the order of their frames.
ProbeBuffer(b) ==
    /\ stage[b] = "filled"
    /\ \A c \in Buffer : stage[c] = "filled" => content[b] <= content[c]
    /\ stage' = [stage EXCEPT ![b] = "passed"]
    /\ \E mapped \in {b, NoBuffer} :
         posted' = posted \o TasksFor(mapped, content[b])
    /\ UNCHANGED <<next, content, workVars, storeVars, mainVars>>

----------------------------------------------------------------------------
(* The tasks                                                               *)

StartTask(w) ==
    /\ wPc[w] = "idle" /\ posted # <<>> /\ ~poolStopped
    /\ task' = [task EXCEPT ![w] = Head(posted)]
    /\ posted' = Tail(posted)
    /\ wPc' = [wPc EXCEPT ![w] = "copy"]
    /\ UNCHANGED <<bufVars, image, storeVars, mainVars>>

\* A task ends, normally or through one of its catch clauses.
Finish(w) ==
    /\ finished' = finished \union {task[w]}
    /\ task' = [task EXCEPT ![w] = NoTask]
    /\ image' = [image EXCEPT ![w] = {}]
    /\ wPc' = [wPc EXCEPT ![w] = "idle"]

\* cv::cvtColor begins to read the image ...
BeginCopy(w) ==
    /\ wPc[w] = "copy" /\ task[w].buffer # NoBuffer
    /\ image' = [image EXCEPT ![w] = {content[task[w].buffer]}]
    /\ wPc' = [wPc EXCEPT ![w] = "copying"]
    /\ UNCHANGED <<bufVars, posted, task, storeVars, mainVars>>

\* Mutant: the exception of an empty image is not caught.
EmptyImageUncaught(w) ==
    /\ wPc[w] = "copy" /\ task[w].buffer = NoBuffer
    /\ wPc' = [wPc EXCEPT ![w] = "dead"]
    /\ UNCHANGED <<bufVars, posted, task, image, storeVars, mainVars>>

\* ... or throws on an empty one, which both tasks catch.
EmptyImage(w) ==
    /\ wPc[w] = "copy" /\ task[w].buffer = NoBuffer
    /\ Finish(w)
    /\ UNCHANGED <<bufVars, posted, redis_keys, files, mainVars>>

\* The copy is complete.
EndCopy(w) ==
    /\ wPc[w] = "copying"
    /\ image' = [image EXCEPT ![w] = @ \union {content[task[w].buffer]}]
    /\ wPc' = [wPc EXCEPT ![w] = "store"]
    /\ UNCHANGED <<bufVars, posted, task, storeVars, mainVars>>

Put(f, n, img) == [k \in DOMAIN f \union {n} |-> IF k = n THEN img ELSE f[k]]

\* imencode and setex; a Redis error is printed and the image dropped.
StoreRedis(w) ==
    /\ wPc[w] = "store" /\ task[w].kind = "redis"
    /\ \/ redis_keys' = Put(redis_keys, task[w].num, image[w])
       \/ UNCHANGED redis_keys
    /\ Finish(w)
    /\ UNCHANGED <<bufVars, posted, files, mainVars>>

\* Mutant: an exception of imwrite is not caught.
StoreFileUncaught(w) ==
    /\ wPc[w] = "store" /\ task[w].kind = "save"
    /\ wPc' = [wPc EXCEPT ![w] = "dead"]
    /\ UNCHANGED <<bufVars, posted, task, image, storeVars, mainVars>>

\* imwrite; its result is ignored and its exceptions are caught.
StoreFile(w) ==
    /\ wPc[w] = "store" /\ task[w].kind = "save"
    /\ \/ files' = Put(files, task[w].num, image[w])
       \/ UNCHANGED files
    /\ Finish(w)
    /\ UNCHANGED <<bufVars, posted, redis_keys, mainVars>>

\* ttl_sec after its setex a key expires.
Expire ==
    /\ \E n \in DOMAIN redis_keys :
         redis_keys' = [k \in DOMAIN redis_keys \ {n} |-> redis_keys[k]]
    /\ UNCHANGED <<bufVars, posted, workVars, files, finished, mainVars>>

----------------------------------------------------------------------------
(* End of main()                                                           *)

\* pipeline->stop(): no buffer reaches the probe any more.
StopPipeline ==
    /\ mainPc = "loop"
    /\ mainPc' = "return"
    /\ stage' = [b \in Buffer |-> "free"]
    /\ UNCHANGED <<next, content, posted, workVars, storeVars, redisAlive,
                   poolStopped>>

\* return 0: local variables are destroyed in the reverse order of their
\* declaration, redis before pool.
DestroyRedis ==
    /\ mainPc = "return"
    /\ redisAlive' = FALSE
    /\ mainPc' = "pool"
    /\ UNCHANGED <<bufVars, posted, workVars, storeVars, poolStopped>>

\* ~thread_pool() stops the pool: tasks that were not started never will ...
StopPool ==
    /\ mainPc = "pool"
    /\ poolStopped' = TRUE
    /\ mainPc' = "join"
    /\ UNCHANGED <<bufVars, posted, workVars, storeVars, redisAlive>>

\* ... and joins the workers.
JoinPool ==
    /\ mainPc = "join"
    /\ \A w \in Worker : wPc[w] = "idle"
    /\ mainPc' = "exit"
    /\ UNCHANGED <<bufVars, posted, workVars, storeVars, redisAlive, poolStopped>>

----------------------------------------------------------------------------
Work(w) ==
    \/ StartTask(w) \/ BeginCopy(w) \/ EmptyImage(w) \/ EndCopy(w)
    \/ StoreRedis(w) \/ StoreFile(w)

MainThread == StopPipeline \/ DestroyRedis \/ StopPool \/ JoinPool

Next ==
    \/ \E b \in Buffer : Fill(b) \/ ProbeBuffer(b) \/ Release(b)
    \/ \E w \in Worker : Work(w)
    \/ Expire
    \/ MainThread

Spec == Init /\ [][Next]_vars

\* Workers run, main() goes on once it has begun to return; nothing forces
\* frames to arrive or the program to stop.
FairSpec ==
    /\ Spec
    /\ \A w \in Worker : WF_vars(Work(w))
    /\ WF_vars(DestroyRedis) /\ WF_vars(StopPool) /\ WF_vars(JoinPool)

----------------------------------------------------------------------------
(* Properties                                                              *)

Image == SUBSET Int

TypeOK ==
    /\ next \in Nat
    /\ content \in [Buffer -> Int]
    /\ stage \in [Buffer -> {"free", "filled", "passed"}]
    /\ posted \in Seq(Task)
    /\ task \in [Worker -> Task \union {NoTask}]
    /\ wPc \in [Worker -> {"idle", "copy", "copying", "store"}]
    /\ image \in [Worker -> Image]
    /\ \A n \in DOMAIN redis_keys : n \in Nat /\ redis_keys[n] \in Image
    /\ \A n \in DOMAIN files : n \in Nat /\ files[n] \in Image
    /\ finished \subseteq Task
    /\ mainPc \in {"loop", "return", "pool", "join", "exit"}
    /\ redisAlive \in BOOLEAN /\ poolStopped \in BOOLEAN

\* An image under a key or file name is never older than the frame it is
\* named after, in any of its pixels: aliasing a recycled buffer can only
\* move it forward in time (perception.cpp:614, :663, :1080).
NeverOlder ==
    /\ \A n \in DOMAIN redis_keys : \A m \in redis_keys[n] : m >= n
    /\ \A n \in DOMAIN files : \A m \in files[n] : m >= n

\* Every frame of the interval has exactly one Redis task, and every task is
\* in exactly one place: waiting, with one worker, or finished.  Concurrent
\* workers neither drop nor repeat a task (perception.cpp:616-622, :680-683).
InPool == {posted[i] : i \in 1..Len(posted)}
InWork == {task[w] : w \in {v \in Worker : wPc[v] # "idle"}}

EachTaskOnce ==
    /\ Cardinality(InPool) = Len(posted)
    /\ Cardinality(InWork) = Cardinality({w \in Worker : wPc[w] # "idle"})
    /\ InPool \intersect InWork = {}
    /\ finished \intersect (InPool \union InWork) = {}
    /\ mainPc = "loop" =>
         \A n \in 0..(next - 1) :
           n % FRAME_INTERVAL = 0 =>
             \/ \E b \in Buffer : stage[b] = "filled" /\ content[b] = n
             \/ Cardinality({t \in InPool \union InWork \union finished :
                               t.kind = "redis" /\ t.num = n}) = 1

\* When main() has ended no task is running: the destructor of the pool
\* waits for the tasks that had been started (perception.cpp:303, :456).
NoTaskAfterExit ==
    mainPc = "exit" => \A w \in Worker : wPc[w] = "idle"

Queued(kind, n) == \E t \in InPool : t.kind = kind /\ t.num = n
Ended(kind, n) == \E t \in finished : t.kind = kind /\ t.num = n

\* Every posted task, for Redis or for a file, runs to its end, Redis errors,
\* failing disks and unmapped frames included, unless the pool stops before a
\* worker has taken it: no exception kills a worker (perception.cpp:1068-1071,
\* :1103-1114).
PostedIsFinished ==
    \A kind \in {"redis", "save"}, n \in 0..(MaxFrames - 1) :
        Queued(kind, n) ~> (Ended(kind, n) \/ (poolStopped /\ Queued(kind, n)))

\* perception.hpp:141, "Send the given frame to the given Redis instance":
\* what is stored under camera_id_frame_num is that frame.
FrameIsTheGivenOne ==
    \A n \in DOMAIN redis_keys : redis_keys[n] = {n}

\* perception.cpp:438, "clean up nicely": the Redis client outlives the tasks
\* that use it.
RedisOutlivesTasks ==
    \A w \in Worker :
        (wPc[w] = "store" /\ task[w].kind = "redis") => redisAlive

=============================================================================
