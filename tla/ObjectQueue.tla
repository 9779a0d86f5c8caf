---------------------------- MODULE ObjectQueue ----------------------------
(***************************************************************************)
(* perception.cpp: the queue obj_list between the pad probe, which pushes  *)
(* one ObjInfo per user metadata of a detected object, and the broker      *)
(* thread send2MQTTBrokerTask, which publishes them over MQTT; and the way *)
(* main() stops that thread.                                               *)
(*                                                                         *)
(* The broker thread holds mtx from the test of the queue to the pop, the  *)
(* five publish attempts and their reconnections included.                 *)
(* An entry of the queue is its rank in the order of the pushes.           *)
(*                                                                         *)
(* Three parts are not under the repository's control and are modelled     *)
(* from their use: the condition variable (spurious wake-ups included),    *)
(* libmosquitto's client and the streaming thread that calls the probe.    *)
(* Nothing in the repository runs mosquitto's network loop, so a           *)
(* connection that breaks is not closed by anyone in particular: publish   *)
(* may go on succeeding into the socket's buffer, or fail with CONN_LOST   *)
(* or ERRNO, and only a closed one answers NO_CONN.                        *)
(***************************************************************************)
EXTENDS Integers, Sequences

CONSTANTS
    MAX_TRIES,      \* "int tries = 5" in send_mqtt_message
    FinalErrors,    \* codes that end the attempts: INVAL, PAYLOAD_SIZE, ...
    RetryErrors,    \* codes that leave attempts: NOMEM, PROTOCOL, others
                    \* without a case (CONN_LOST, ERRNO)
    MaxPerFrame,    \* bound: entries the probe pushes for one frame
    MaxPushes       \* bound: entries pushed in a behaviour

ASSUME QueueAssumption ==
    /\ MAX_TRIES \in Nat \ {0}
    /\ MaxPerFrame \in Nat
    /\ MaxPushes \in Nat

VARIABLES
    \* shared state
    obj_list,       \* AppCtx->obj_list
    mtx,            \* the thread that owns AppCtx->mtx, or "none"
    app_is_running, \* AppCtx->app_is_running
    mosqAlive,      \* AppCtx->mosq has not been destroyed
    playing,        \* the pipeline is not stopped
    \* libmosquitto and the network (external)
    reachable,      \* the MQTT broker can be reached
    conn,           \* the client's connection: "up", "broken" (lost, but its
                    \* socket still open) or "closed"
    \* probe
    prTodo,         \* pushes left for the current frame
    prOwns,         \* entry being pushed under mtx, or 0
    \* broker thread
    brPc,           \* where send2MQTTBrokerTask is
    notified,       \* a notify_all reached the waiting thread
    tries,          \* attempts left
    \* main thread
    mainPc,         \* where main() is from g_main_loop_run on
    \* history
    pushed,         \* entries pushed so far
    published,      \* entries libmosquitto accepted, in order
    late,           \* publications since app_is_running was reset
    calls           \* library calls made since the publisher took mtx

prVars == <<prTodo, prOwns, pushed>>
sending == <<tries, published, late, calls>>
brVars == <<brPc, sending>>
netVars == <<reachable, conn>>
mainVars == <<mainPc, app_is_running, mosqAlive, playing>>
vars == <<obj_list, mtx, notified, prVars, brVars, netVars, mainVars>>

Init ==
    /\ obj_list = <<>> /\ mtx = "none"
    /\ app_is_running = TRUE /\ mosqAlive = TRUE /\ playing = TRUE
    /\ reachable \in BOOLEAN /\ conn = IF reachable THEN "up" ELSE "closed"
    /\ prTodo = 0 /\ prOwns = 0
    /\ brPc = "while" /\ notified = FALSE /\ tries = 0
    /\ mainPc = "loop"
    /\ pushed = 0 /\ published = <<>> /\ late = 0 /\ calls = 0

\* cv.notify_all(): nothing unless the broker thread is waiting.
NotifyAll == notified' = (notified \/ brPc = "wait")

----------------------------------------------------------------------------
(* Network and client library                                              *)

LinkChanges ==
    /\ reachable' = ~reachable
    /\ UNCHANGED <<obj_list, mtx, notified, prVars, brVars, conn, mainVars>>

\* The connection is lost; nobody reads the socket, so nobody notices.
ConnectionLost ==
    /\ conn = "up"
    /\ conn' = "broken"
    /\ UNCHANGED <<obj_list, mtx, notified, prVars, brVars, reachable, mainVars>>

\* The library may close a broken connection.  Nothing obliges it to.
ConnectionClosed ==
    /\ conn = "broken"
    /\ conn' = "closed"
    /\ UNCHANGED <<obj_list, mtx, notified, prVars, brVars, reachable, mainVars>>

----------------------------------------------------------------------------
(* Pad probe                                                               *)

\* A buffer reaches the probe.  It yields one push for every user metadata of
\* every object of the frame, none when the frame is not a multiple of
\* frame-interval or no object carries metadata.
ProbeFrame ==
    /\ playing
    /\ prTodo = 0 /\ prOwns = 0
    /\ \E n \in 1..MaxPerFrame :
         /\ pushed + n <= MaxPushes
         /\ prTodo' = n
    /\ UNCHANGED <<obj_list, mtx, notified, prOwns, pushed, brVars, netVars,
                   mainVars>>

ProbeLock ==
    /\ prTodo > 0 /\ prOwns = 0
    /\ mtx = "none"
    /\ mtx' = "probe"
    /\ pushed' = pushed + 1
    /\ prOwns' = pushed + 1
    /\ UNCHANGED <<obj_list, notified, prTodo, brVars, netVars, mainVars>>

\* Mutant: no notify_all after the push.
ProbePushSilently ==
    /\ prOwns > 0
    /\ obj_list' = Append(obj_list, prOwns)
    /\ mtx' = "none"
    /\ prOwns' = 0 /\ prTodo' = prTodo - 1
    /\ UNCHANGED <<pushed, notified, brVars, netVars, mainVars>>

\* push, notify_all, and the unique_lock goes out of scope.
ProbePush ==
    /\ prOwns > 0
    /\ obj_list' = Append(obj_list, prOwns)
    /\ NotifyAll
    /\ mtx' = "none"
    /\ prOwns' = 0 /\ prTodo' = prTodo - 1
    /\ UNCHANGED <<pushed, brVars, netVars, mainVars>>

----------------------------------------------------------------------------
(* Broker thread                                                           *)

\* Mutant: while (true).
BrokerWhileTrue ==
    /\ brPc = "while"
    /\ brPc' = "lock"
    /\ UNCHANGED <<obj_list, mtx, notified, prVars, sending, netVars, mainVars>>

\* while (AppCtx->app_is_running)
BrokerWhile ==
    /\ brPc = "while"
    /\ brPc' = IF app_is_running THEN "lock" ELSE "done"
    /\ UNCHANGED <<obj_list, mtx, notified, prVars, sending, netVars, mainVars>>

BrokerLock ==
    /\ brPc = "lock" /\ mtx = "none"
    /\ mtx' = "broker"
    /\ brPc' = "test"
    /\ UNCHANGED <<obj_list, notified, prVars, sending, netVars, mainVars>>

\* The queue is empty (frame_list always is: its only push is commented out):
\* cv.wait releases mtx.  The test does not look at app_is_running.
BrokerWait ==
    /\ brPc = "test" /\ obj_list = <<>>
    /\ mtx' = "none"
    /\ notified' = FALSE
    /\ brPc' = "wait"
    /\ UNCHANGED <<obj_list, prVars, sending, netVars, mainVars>>

Reacquire ==
    /\ brPc = "wait" /\ mtx = "none"
    /\ mtx' = "broker"
    /\ brPc' = "test"
    /\ UNCHANGED <<obj_list, notified, prVars, sending, netVars, mainVars>>

BrokerWake == notified /\ Reacquire
SpuriousWake == ~notified /\ Reacquire

\* Mutant: one attempt too many.
BrokerFrontOneMore ==
    /\ brPc = "test" /\ obj_list # <<>>
    /\ tries' = MAX_TRIES + 1
    /\ brPc' = "publish"
    /\ UNCHANGED <<obj_list, mtx, notified, prVars, published, late, calls,
                   netVars, mainVars>>

\* front(), set_mqtt_message and the call of send_mqtt_message.
BrokerFront ==
    /\ brPc = "test" /\ obj_list # <<>>
    /\ tries' = MAX_TRIES
    /\ brPc' = "publish"
    /\ UNCHANGED <<obj_list, mtx, notified, prVars, published, late, calls,
                   netVars, mainVars>>

\* The iteration ends and its unique_lock goes out of scope.
Unlock ==
    /\ brPc' = "while"
    /\ mtx' = "none"
    /\ calls' = 0

\* Mutant: tries is not decremented.
NextTryForEver ==
    /\ brPc' = "publish"
    /\ calls' = calls + 1
    /\ UNCHANGED <<tries, mtx>>

\* tries--, and the attempts go on while tries > 0; when they are used up
\* send_mqtt_message returns false and the entry stays at the front.
NextTry ==
    /\ tries' = tries - 1
    /\ IF tries > 1
       THEN brPc' = "publish" /\ calls' = calls + 1 /\ UNCHANGED mtx
       ELSE Unlock

\* The library accepts the front entry: it is connected, or its connection is
\* lost and the socket still takes the bytes.
Accepted ==
    /\ brPc = "publish" /\ conn # "closed"
    /\ published' = Append(published, Head(obj_list))
    /\ late' = IF app_is_running THEN late ELSE late + 1

\* Mutant: tries is not set to 0, and the attempts go on after a success.
PublishOkGoesOn ==
    /\ Accepted
    /\ NextTry
    /\ UNCHANGED <<obj_list, notified, prVars, netVars, mainVars>>

\* MOSQ_ERR_SUCCESS
PublishOk ==
    /\ Accepted
    /\ tries' = 0 /\ calls' = calls + 1
    /\ brPc' = "pop"
    /\ UNCHANGED <<obj_list, mtx, notified, prVars, netVars, mainVars>>

\* A code with tries = 0: the entry stays at the front all the same.
PublishFinalError ==
    /\ brPc = "publish"
    /\ FinalErrors # {}
    /\ tries' = 0
    /\ Unlock
    /\ UNCHANGED <<obj_list, notified, prVars, published, late, netVars, mainVars>>

\* A code that does nothing, or that has no case.
PublishRetryError ==
    /\ brPc = "publish"
    /\ RetryErrors # {}
    /\ NextTry
    /\ UNCHANGED <<obj_list, notified, prVars, published, late, netVars, mainVars>>

\* MOSQ_ERR_NO_CONN, the answer of a closed connection only.
PublishNoConn ==
    /\ brPc = "publish" /\ conn = "closed"
    /\ brPc' = "reconnect"
    /\ calls' = calls + 1
    /\ UNCHANGED <<obj_list, mtx, notified, prVars, tries, published, late,
                   netVars, mainVars>>

\* Mutant: the attempt is used up without mosquitto_reconnect.
ReconnectSkipped ==
    /\ brPc = "reconnect"
    /\ NextTry
    /\ UNCHANGED <<obj_list, notified, prVars, published, late, netVars, mainVars>>

\* mosquitto_reconnect, whatever it returns, uses a try.
Reconnect ==
    /\ brPc = "reconnect"
    /\ conn' = IF reachable THEN "up" ELSE "closed"
    /\ NextTry
    /\ UNCHANGED <<obj_list, notified, prVars, published, late, reachable,
                   mainVars>>

\* Mutant: the entry stays in the queue after a successful send.
BrokerPopForgotten ==
    /\ brPc = "pop"
    /\ Unlock
    /\ UNCHANGED <<obj_list, notified, prVars, tries, published, late, netVars,
                   mainVars>>

\* pop() after a successful send, and the end of the iteration.
BrokerPop ==
    /\ brPc = "pop"
    /\ obj_list' = Tail(obj_list)
    /\ Unlock
    /\ UNCHANGED <<notified, prVars, tries, published, late, netVars, mainVars>>

----------------------------------------------------------------------------
(* Main thread                                                             *)

\* bus_call quits the main loop on any ERROR message.
BusError ==
    /\ mainPc = "loop"
    /\ mainPc' = "flag"
    /\ UNCHANGED <<obj_list, mtx, notified, prVars, brVars, netVars,
                   app_is_running, mosqAlive, playing>>

StopRunning ==
    /\ mainPc = "flag"
    /\ app_is_running' = FALSE
    /\ mainPc' = "notify"
    /\ UNCHANGED <<obj_list, mtx, notified, prVars, brVars, netVars, mosqAlive,
                   playing>>

NotifyStop ==
    /\ mainPc = "notify"
    /\ NotifyAll
    /\ mainPc' = "join"
    /\ UNCHANGED <<obj_list, mtx, prVars, brVars, netVars, app_is_running,
                   mosqAlive, playing>>

\* Mutant: the thread is detached instead of joined.
DetachBroker ==
    /\ mainPc = "join"
    /\ mosqAlive' = FALSE
    /\ conn' = "closed"
    /\ mainPc' = "stop"
    /\ UNCHANGED <<obj_list, mtx, notified, prVars, brVars, reachable,
                   app_is_running, playing>>

\* broker_th.join(), then mosquitto_disconnect and mosquitto_destroy.
JoinBroker ==
    /\ mainPc = "join" /\ brPc = "done"
    /\ mosqAlive' = FALSE
    /\ conn' = "closed"
    /\ mainPc' = "stop"
    /\ UNCHANGED <<obj_list, mtx, notified, prVars, brVars, reachable,
                   app_is_running, playing>>

\* pipeline->stop() waits for the streaming thread to leave the probe.
StopPipeline ==
    /\ mainPc = "stop" /\ prTodo = 0
    /\ playing' = FALSE
    /\ mainPc' = "exit"
    /\ UNCHANGED <<obj_list, mtx, notified, prVars, brVars, netVars,
                   app_is_running, mosqAlive>>

----------------------------------------------------------------------------
Probe == ProbeFrame \/ ProbeLock \/ ProbePush

BrokerThread ==
    \/ BrokerWhile \/ BrokerLock \/ BrokerWait \/ BrokerWake \/ BrokerFront
    \/ PublishOk \/ PublishFinalError \/ PublishRetryError \/ PublishNoConn
    \/ Reconnect \/ BrokerPop

MainThread == BusError \/ StopRunning \/ NotifyStop \/ JoinBroker \/ StopPipeline

Next ==
    \/ Probe \/ BrokerThread \/ SpuriousWake \/ MainThread
    \/ LinkChanges \/ ConnectionLost \/ ConnectionClosed

Spec == Init /\ [][Next]_vars

\* A thread that can run does, and every library call returns.  Nothing is
\* assumed of what a call returns, of the link, of a lost connection, or of
\* the order in which std::mutex serves the threads that wait for it; nothing
\* makes a frame arrive or a bus error happen.
FairSpec ==
    /\ Spec
    /\ WF_vars(BrokerThread)
    /\ WF_vars(ProbeLock) /\ WF_vars(ProbePush)
    /\ WF_vars(StopRunning) /\ WF_vars(NotifyStop) /\ WF_vars(JoinBroker)
    /\ WF_vars(StopPipeline)

\* More than the code can count on, so that a thread which never ends under it
\* is not the victim of an unfair mutex.
FairMutexSpec == FairSpec /\ SF_vars(ProbeLock) /\ SF_vars(BrokerThread)

----------------------------------------------------------------------------
(* Properties                                                              *)

TypeOK ==
    /\ obj_list \in Seq(Nat)
    /\ mtx \in {"none", "probe", "broker"}
    /\ app_is_running \in BOOLEAN /\ mosqAlive \in BOOLEAN /\ playing \in BOOLEAN
    /\ reachable \in BOOLEAN /\ conn \in {"up", "broken", "closed"}
    /\ prTodo \in Nat /\ prOwns \in Nat
    /\ brPc \in {"while", "lock", "test", "wait", "publish", "reconnect", "pop",
                 "done"}
    /\ notified \in BOOLEAN
    /\ tries \in 0..MAX_TRIES
    /\ mainPc \in {"loop", "flag", "notify", "join", "stop", "exit"}
    /\ pushed \in Nat /\ published \in Seq(Nat)
    /\ late \in Nat /\ calls \in Nat

\* Entries in the queue, the one that is published but not popped left out.
Pending == IF brPc = "pop" THEN Tail(obj_list) ELSE obj_list

\* Entries whose push is complete.
Complete == IF prOwns > 0 THEN pushed - 1 ELSE pushed

\* Whatever errors and reconnections happen between front() and pop(), what
\* was published followed by what is pending is exactly what was pushed, in
\* order: nothing is lost, repeated or overtaken (perception.cpp:994-1010).
Fifo ==
    published \o Pending = [i \in 1..Complete |-> i]

\* The probe, the locks, the attempts and the shutdown together send each
\* detection once, in order, and only after it was queued
\* (perception.cpp:813-819, :994-1010).
Feed == INSTANCE DetectionFeed WITH made <- Complete, sent <- published
ImplementsFeed == Feed!Spec

\* Once app_is_running is reset the thread publishes at most the entry it had
\* in hand before it sees the flag (perception.cpp:994, :439).
AtMostOneLate == late <= 1

\* The MQTT client is destroyed only when no call on it can be in progress or
\* follow (perception.cpp:443-449).
ClientOutlivesSender ==
    ~mosqAlive => brPc = "done"

\* A wake-up is never lost: when the thread sleeps on an entry that is
\* already in the queue, a notification is on its way (perception.cpp:996
\* against :816-818).
NoLostWakeup ==
    (brPc = "wait" /\ obj_list # <<>>) => notified

\* However the library answers, the publisher makes fewer than 2 * MAX_TRIES
\* blocking calls, publications and reconnections, each time it has mtx: the
\* stall of the probe by one entry is bounded (perception.cpp:940-990, :1004).
HoldIsBounded == calls < 2 * MAX_TRIES

\* The environment lets MQTT work from some time on: the broker is reachable,
\* the connection is not a lost one that is still open, and no call fails
\* otherwise.  A closed connection is allowed: the code has to recover from it.
MqttWorks ==
    /\ <>[](reachable /\ conn # "broken")
    /\ <>[][~PublishFinalError /\ ~PublishRetryError]_vars

\* Then, while the program runs, the thread reconnects by itself and
\* everything pushed is published, although NO_CONN may have used up all the
\* attempts of any number of iterations before (perception.cpp:962-964,
\* :993-1026).
EverythingPublished ==
    MqttWorks /\ [](mainPc = "loop")
        => \A i \in 1..MaxPushes : (Complete >= i) ~> (Len(published) >= i)

\* And the probe, with the video behind it, gets through: the publisher takes
\* mtx again as soon as it has released it, but only until the queue is empty
\* (perception.cpp:993-1010 against :813-819).  No fairness of the mutex is
\* assumed; with a broker that stays away nothing of the kind holds.
ProbeReturns ==
    MqttWorks /\ <>[][~SpuriousWake]_vars
        => (prTodo > 0) ~> (prTodo = 0)

\* perception.cpp:438, "Out of the main loop, clean up nicely": once the main
\* loop has ended the program terminates.
CleansUp == (mainPc = "flag") ~> (mainPc = "exit")

=============================================================================
