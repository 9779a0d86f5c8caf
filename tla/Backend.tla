------------------------------ MODULE Backend ------------------------------
(***************************************************************************)
(* backend/main.py and backend/gestor_alertas.py: the process that turns   *)
(* MQTT detections into WhatsApp notifications.                            *)
(*                                                                         *)
(* Two threads share the dictionary person_state without a lock:           *)
(*   - the MQTT thread (loop_forever) runs on_message for each detection;  *)
(*   - a daemon thread runs check_no_change every CHECK_INTERVAL seconds.  *)
(* A Twilio call blocks the thread that makes it, so each thread stops     *)
(* between its test of inside_roi and its assignment to it.  An action is  *)
(* the code between two points where the other thread can be scheduled.    *)
(*                                                                         *)
(* enviar_wpp swallows every Twilio exception: a call that fails and one   *)
(* that succeeds return to the same place, so only the attempt is counted. *)
(***************************************************************************)
EXTENDS Integers, Sequences, FiniteSets

CONSTANTS
    Person,                 \* object_id values
    INACTIVITY_THRESHOLD,   \* seconds without update before a salida
    CHECK_INTERVAL,         \* seconds the checker sleeps
    NoMsg,                  \* mqMsg when no message is being handled
    NoPerson,               \* ckPid when no salida is being handled
    MaxTime,                \* bound: the clock stops here
    InboxCap,               \* bound: undelivered messages on the socket
    MaxCrashes              \* bound: process restarts

ASSUME ConstantsAssumption ==
    /\ INACTIVITY_THRESHOLD \in Nat
    /\ CHECK_INTERVAL \in Nat
    /\ MaxTime \in Nat
    /\ InboxCap \in Nat
    /\ MaxCrashes \in Nat
    /\ NoPerson \notin Person

\* A detection as on_message reads it.  The other fields of the payload, the
\* regions of interest ("roi") included, are never looked at.
Message == [object_id : Person]

ASSUME NoMsgAssumption == NoMsg \notin Message

VARIABLES
    now,            \* time.time(), in seconds
    up,             \* the process is running
    crashes,        \* restarts so far
    subscribed,     \* on_connect has run on the current connection
    inbox,          \* messages received and not yet given to on_message
    person_state,   \* person_state: object_id -> [last_update, inside_roi]
    mqPc,           \* where the MQTT thread is
    mqMsg,          \* the message on_message is handling
    ckPc,           \* where check_no_change is
    ckNow,          \* its local "now"
    ckTodo,         \* entries of its list(person_state.items()) still ahead
    ckPid,          \* its local "pid" while it handles a salida
    ckWake,         \* when its sleep ends
    entradas,       \* history: entrada notifications issued by this process
    salidas         \* history: salida notifications issued by this process

mqVars == <<mqPc, mqMsg>>
ckVars == <<ckPc, ckNow, ckTodo, ckPid, ckWake>>
envVars == <<up, crashes, subscribed>>
alertVars == <<entradas, salidas>>
vars == <<now, envVars, inbox, person_state, mqVars, ckVars, alertVars>>

Known == DOMAIN person_state
Inside(p) == p \in Known /\ person_state[p].inside_roi
Nobody == [p \in {} |-> 0]
NoAlerts == [p \in Person |-> 0]

----------------------------------------------------------------------------
(* A process that has just started: main() launches the checker and then   *)
(* connects.                                                               *)

Init ==
    /\ now = 0
    /\ up = TRUE /\ crashes = 0 /\ subscribed = FALSE
    /\ inbox = <<>>
    /\ person_state = Nobody
    /\ mqPc = "connect" /\ mqMsg = NoMsg
    /\ ckPc = "clock" /\ ckNow = 0 /\ ckTodo = {} /\ ckPid = NoPerson
    /\ ckWake = 0
    /\ entradas = NoAlerts /\ salidas = NoAlerts

----------------------------------------------------------------------------
(* Environment                                                             *)

Tick ==
    /\ now < MaxTime
    /\ now' = now + 1
    /\ UNCHANGED <<envVars, inbox, person_state, mqVars, ckVars, alertVars>>

\* The broker forwards a detection.  One sent while the backend is not
\* subscribed is lost (QoS 0, clean session), which is no step at all.
Deliver ==
    /\ up /\ subscribed
    /\ Len(inbox) < InboxCap
    /\ \E m \in Message : inbox' = Append(inbox, m)
    /\ UNCHANGED <<now, envVars, person_state, mqVars, ckVars, alertVars>>

\* The connection drops: what was not delivered is gone.  loop_forever
\* reconnects by itself and on_connect subscribes again.
LoseConnection ==
    /\ up /\ subscribed
    /\ subscribed' = FALSE
    /\ inbox' = <<>>
    /\ UNCHANGED <<now, up, crashes, person_state, mqVars, ckVars, alertVars>>

\* The process dies at any point of either thread: broker unreachable at
\* start, an exception in on_message, the container stopped.  Nothing is
\* persisted: person_state and both threads' locals are gone.
Crash ==
    /\ up /\ crashes < MaxCrashes
    /\ up' = FALSE /\ subscribed' = FALSE
    /\ crashes' = crashes + 1
    /\ inbox' = <<>>
    /\ person_state' = Nobody
    /\ mqPc' = "connect" /\ mqMsg' = NoMsg
    /\ ckPc' = "clock" /\ ckNow' = 0 /\ ckTodo' = {} /\ ckPid' = NoPerson
    /\ ckWake' = 0
    /\ entradas' = NoAlerts /\ salidas' = NoAlerts
    /\ UNCHANGED now

\* "restart: always" runs main() again.
Restart ==
    /\ ~up
    /\ up' = TRUE
    /\ UNCHANGED <<now, crashes, subscribed, inbox, person_state, mqVars, ckVars,
                   alertVars>>

----------------------------------------------------------------------------
(* MQTT thread                                                             *)

\* connect() returned and loop_forever runs.
Connect ==
    /\ up /\ mqPc = "connect"
    /\ mqPc' = "loop"
    /\ UNCHANGED <<now, envVars, inbox, person_state, mqMsg, ckVars, alertVars>>

\* The broker acknowledged the connection, the first one or a later one.
OnConnect ==
    /\ up /\ mqPc = "loop" /\ ~subscribed
    /\ subscribed' = TRUE
    /\ UNCHANGED <<now, up, crashes, inbox, person_state, mqVars, ckVars,
                   alertVars>>

\* Mutant: a new person is registered as already inside.
OnMessageRegistersInside ==
    /\ up /\ mqPc = "loop" /\ inbox # <<>>
    /\ mqMsg' = Head(inbox)
    /\ inbox' = Tail(inbox)
    /\ LET p == mqMsg'.object_id
       IN  person_state' =
             [q \in Known \union {p} |->
                IF q # p THEN person_state[q]
                ELSE [last_update |-> now, inside_roi |-> TRUE]]
    /\ mqPc' = "test"
    /\ UNCHANGED <<now, envVars, ckVars, alertVars>>

\* on_message up to the test: a new person is registered outside, a known
\* one only has last_update refreshed.
OnMessage ==
    /\ up /\ mqPc = "loop" /\ inbox # <<>>
    /\ mqMsg' = Head(inbox)
    /\ inbox' = Tail(inbox)
    /\ LET p == mqMsg'.object_id
       IN  person_state' =
             [q \in Known \union {p} |->
                IF q # p THEN person_state[q]
                ELSE [last_update |-> now, inside_roi |-> Inside(p)]]
    /\ mqPc' = "test"
    /\ UNCHANGED <<now, envVars, ckVars, alertVars>>

\* Mutants of the test: never taken, inverted, and taken with inside_roi set
\* before the notification instead of after it.
TestInsideIgnored ==
    /\ up /\ mqPc = "test"
    /\ mqPc' = "alert"
    /\ UNCHANGED <<now, envVars, inbox, person_state, mqMsg, ckVars, alertVars>>

TestInsideInverted ==
    /\ up /\ mqPc = "test"
    /\ IF ~Inside(mqMsg.object_id)
       THEN mqPc' = "loop" /\ mqMsg' = NoMsg
       ELSE mqPc' = "alert" /\ UNCHANGED mqMsg
    /\ UNCHANGED <<now, envVars, inbox, person_state, ckVars, alertVars>>

TestInsideMarksFirst ==
    /\ up /\ mqPc = "test"
    /\ IF Inside(mqMsg.object_id)
       THEN mqPc' = "loop" /\ mqMsg' = NoMsg /\ UNCHANGED person_state
       ELSE /\ mqPc' = "alert" /\ UNCHANGED mqMsg
            /\ person_state' =
                 [person_state EXCEPT ![mqMsg.object_id].inside_roi = TRUE]
    /\ UNCHANGED <<now, envVars, inbox, ckVars, alertVars>>

\* if not person_state[person_id]["inside_roi"]
TestInside ==
    /\ up /\ mqPc = "test"
    /\ IF Inside(mqMsg.object_id)
       THEN mqPc' = "loop" /\ mqMsg' = NoMsg
       ELSE mqPc' = "alert" /\ UNCHANGED mqMsg
    /\ UNCHANGED <<now, envVars, inbox, person_state, ckVars, alertVars>>

\* altertar_evento_entrada issues the WhatsApp request; the call returns at
\* any later time, when MarkInside is taken.
SendEntrada ==
    /\ up /\ mqPc = "alert"
    /\ entradas' = [entradas EXCEPT ![mqMsg.object_id] = @ + 1]
    /\ mqPc' = "mark"
    /\ UNCHANGED <<now, envVars, inbox, person_state, mqMsg, ckVars, salidas>>

MarkInside ==
    /\ up /\ mqPc = "mark"
    /\ person_state' = [person_state EXCEPT ![mqMsg.object_id].inside_roi = TRUE]
    /\ mqPc' = "loop" /\ mqMsg' = NoMsg
    /\ UNCHANGED <<now, envVars, inbox, ckVars, alertVars>>

----------------------------------------------------------------------------
(* Checker thread                                                          *)

\* Mutant: the pass keeps the cut-off instead of the time.
ReadClockAsCutOff ==
    /\ up /\ ckPc = "clock"
    /\ ckNow' = now - INACTIVITY_THRESHOLD
    /\ ckPc' = "list"
    /\ UNCHANGED <<now, envVars, inbox, person_state, mqVars, ckTodo, ckPid,
                   ckWake, alertVars>>

\* now = time.time(), read once for the whole pass.
ReadClock ==
    /\ up /\ ckPc = "clock"
    /\ ckNow' = now
    /\ ckPc' = "list"
    /\ UNCHANGED <<now, envVars, inbox, person_state, mqVars, ckTodo, ckPid,
                   ckWake, alertVars>>

\* list(person_state.items()): the people known at this instant, each with a
\* reference to its live entry.  They are visited in any order, a superset
\* of the insertion order the dictionary keeps.
ListPeople ==
    /\ up /\ ckPc = "list"
    /\ ckTodo' = Known
    /\ ckPc' = "scan"
    /\ UNCHANGED <<now, envVars, inbox, person_state, mqVars, ckNow, ckPid,
                   ckWake, alertVars>>

\* Mutants: an off-by-one at the threshold, and the operands swapped.
ExpiredAtThreshold(p) ==
    /\ Inside(p)
    /\ ckNow - person_state[p].last_update >= INACTIVITY_THRESHOLD

ExpiredSwapped(p) ==
    /\ Inside(p)
    /\ person_state[p].last_update - ckNow > INACTIVITY_THRESHOLD

Expired(p) ==
    /\ Inside(p)
    /\ ckNow - person_state[p].last_update > INACTIVITY_THRESHOLD

CheckPerson ==
    /\ up /\ ckPc = "scan"
    /\ \E p \in ckTodo :
         /\ ckTodo' = ckTodo \ {p}
         /\ IF Expired(p)
            THEN ckPc' = "alert" /\ ckPid' = p
            ELSE UNCHANGED <<ckPc, ckPid>>
    /\ UNCHANGED <<now, envVars, inbox, person_state, mqVars, ckNow, ckWake,
                   alertVars>>

SendSalida ==
    /\ up /\ ckPc = "alert"
    /\ salidas' = [salidas EXCEPT ![ckPid] = @ + 1]
    /\ ckPc' = "clear"
    /\ UNCHANGED <<now, envVars, inbox, person_state, mqVars, ckNow, ckTodo,
                   ckPid, ckWake, entradas>>

\* Mutant: inside_roi is not reset after the salida.
ClearInsideForgotten ==
    /\ up /\ ckPc = "clear"
    /\ ckPc' = "scan" /\ ckPid' = NoPerson
    /\ UNCHANGED <<now, envVars, inbox, person_state, mqVars, ckNow, ckTodo,
                   ckWake, alertVars>>

ClearInside ==
    /\ up /\ ckPc = "clear"
    /\ person_state' = [person_state EXCEPT ![ckPid].inside_roi = FALSE]
    /\ ckPc' = "scan" /\ ckPid' = NoPerson
    /\ UNCHANGED <<now, envVars, inbox, mqVars, ckNow, ckTodo, ckWake,
                   alertVars>>

\* A sleep that would outlast the clock ends when the clock stops.
Sleep ==
    /\ up /\ ckPc = "scan" /\ ckTodo = {}
    /\ ckWake' = IF now + CHECK_INTERVAL < MaxTime THEN now + CHECK_INTERVAL
                                                   ELSE MaxTime
    /\ ckPc' = "sleep"
    /\ UNCHANGED <<now, envVars, inbox, person_state, mqVars, ckNow, ckTodo,
                   ckPid, alertVars>>

Wake ==
    /\ up /\ ckPc = "sleep" /\ now >= ckWake
    /\ ckPc' = "clock"
    /\ UNCHANGED <<now, envVars, inbox, person_state, mqVars, ckNow, ckTodo,
                   ckPid, ckWake, alertVars>>

----------------------------------------------------------------------------
MqttThread ==
    Connect \/ OnConnect \/ OnMessage \/ TestInside \/ SendEntrada \/ MarkInside

CheckerThread ==
    \/ ReadClock \/ ListPeople \/ CheckPerson \/ SendSalida \/ ClearInside
    \/ Sleep \/ Wake

Environment == Tick \/ Deliver \/ LoseConnection \/ Crash \/ Restart

Next == MqttThread \/ CheckerThread \/ Environment

Spec == Init /\ [][Next]_vars

\* Both threads are runnable threads of one process, a Twilio request ends
\* with an answer or an exception, the clock advances and docker restarts
\* the container.  Nothing is assumed of the broker.
FairSpec ==
    /\ Spec
    /\ WF_vars(MqttThread)
    /\ WF_vars(CheckerThread)
    /\ WF_vars(Tick)
    /\ WF_vars(Restart)

----------------------------------------------------------------------------
(* Properties                                                              *)

TypeOK ==
    /\ now \in Nat
    /\ up \in BOOLEAN /\ crashes \in Nat /\ subscribed \in BOOLEAN
    /\ inbox \in Seq(Message)
    /\ Known \subseteq Person
    /\ person_state \in [Known -> [last_update : Nat, inside_roi : BOOLEAN]]
    /\ mqPc \in {"connect", "loop", "test", "alert", "mark"}
    /\ mqMsg \in Message \union {NoMsg}
    /\ ckPc \in {"clock", "list", "scan", "alert", "clear", "sleep"}
    /\ ckNow \in Nat /\ ckWake \in Nat
    /\ ckTodo \subseteq Known
    /\ ckPid \in Person \union {NoPerson}
    /\ entradas \in [Person -> Nat]
    /\ salidas \in [Person -> Nat]

\* The notifications about one person alternate, entrada first, whatever the
\* interleaving of on_message and check_no_change around the blocking Twilio
\* calls: inside_roi, written after the call, acts as a per-person lock.
AlertsAlternate ==
    \A p \in Person : entradas[p] - salidas[p] \in {0, 1}

\* The two threads never handle notifications about the same person at the
\* same time: main.py:52-54 runs only while inside_roi is false, :65-67 only
\* while it is true, and neither flips it before its call has returned.
OneAlertPerPerson ==
    (mqPc \in {"alert", "mark"} /\ ckPc \in {"alert", "clear"})
        => mqMsg.object_id # ckPid

\* A salida is handled for a person who was silent for more than
\* INACTIVITY_THRESHOLD when the pass read the clock, or who has been seen
\* again only after that reading (main.py:63-66).
SalidaJustified ==
    ckPc \in {"alert", "clear"} =>
        \/ ckNow - person_state[ckPid].last_update > INACTIVITY_THRESHOLD
        \/ person_state[ckPid].last_update >= ckNow

\* Nobody is registered without having been announced, apart from the person
\* whose on_message is still running: no interleaving with the checker makes
\* a first entrada disappear (main.py:46-54).
RegisteredIsAnnounced ==
    \A p \in Known :
        \/ entradas[p] > 0
        \/ mqPc \in {"test", "alert"} /\ mqMsg.object_id = p

\* The alternation as an implementation of the abstract alert protocol.
Protocol == INSTANCE AlertProtocol
ImplementsProtocol == Protocol!Spec

\* A person who stops being detected is eventually reported as gone: the
\* checker finds every expired entry (main.py:61-69).
SilentLeaves ==
    \A p \in Person :
        (Inside(p) /\ now - person_state[p].last_update > INACTIVITY_THRESHOLD)
        ~> (~Inside(p) \/ now - person_state[p].last_update
                            <= INACTIVITY_THRESHOLD)

\* A person who keeps being detected is not reported as outside for ever: a
\* detection that falls between a salida and the reset of inside_roi is
\* swallowed (main.py:52 against :66-67), but a later one announces the person.
SeenIsInside ==
    \A p \in Person :
        ([]<>(mqPc = "test" /\ mqMsg.object_id = p)) => []<>Inside(p)

\* main.py:31, "segundos sin actualizar antes de considerar salida": when the
\* salida is issued the person has not been updated for the threshold.
SilentWhenReported ==
    [][\A p \in Person :
         salidas'[p] > salidas[p]
           => now - person_state[p].last_update > INACTIVITY_THRESHOLD]_vars

=============================================================================
