--------------------------- MODULE Backend_proofs ---------------------------
(***************************************************************************)
(* Proofs about Backend: type correctness, the inductive invariant that    *)
(* relates inside_roi, the positions of the two threads and the number of  *)
(* notifications, and the implementation of AlertProtocol.  They hold for  *)
(* every set of people, every threshold and interval and every bound.      *)
(***************************************************************************)
EXTENDS Backend, TLAPS

Handling == mqPc \in {"test", "alert", "mark"}
Announcing == mqPc \in {"alert", "mark"}
Dismissing == ckPc \in {"alert", "clear"}

\* on_message only works on a person it has registered.
HandledIsKnown ==
    Handling => mqMsg \in Message /\ mqMsg.object_id \in Known

\* From the test to the assignment, nobody else can set or clear the flag.
AnnouncedIsOutside == Announcing => ~Inside(mqMsg.object_id)
DismissedIsInside == Dismissing => ckPid \in Known /\ Inside(ckPid)

\* How far the notifications are ahead of the flag.
Outstanding(p) ==
    IF Inside(p)
    THEN IF ckPc = "clear" /\ ckPid = p THEN 0 ELSE 1
    ELSE IF mqPc = "mark" /\ mqMsg.object_id = p THEN 1 ELSE 0

Balance == \A p \in Person : entradas[p] = salidas[p] + Outstanding(p)

InsideIsAnnounced == \A p \in Known : Inside(p) => entradas[p] > 0

IInv ==
    /\ TypeOK
    /\ HandledIsKnown
    /\ AnnouncedIsOutside
    /\ DismissedIsInside
    /\ Balance
    /\ InsideIsAnnounced
    /\ ckNow <= now
    /\ SalidaJustified
    /\ RegisteredIsAnnounced

----------------------------------------------------------------------------
(* Types                                                                   *)

LEMMA TypeInit == Init => TypeOK
<1> SUFFICES ASSUME Init PROVE TypeOK
  OBVIOUS
<1>1. Known = {} /\ person_state \in [{} -> [last_update : Nat, inside_roi : BOOLEAN]]
  BY DEF Init, Nobody, Known
<1>2. inbox \in Seq(Message)
  BY DEF Init
<1> QED
  BY <1>1, <1>2 DEF Init, TypeOK, NoAlerts

LEMMA TypeStep == TypeOK /\ [Next]_vars => TypeOK'
<1> SUFFICES ASSUME TypeOK, [Next]_vars PROVE TypeOK'
  OBVIOUS
<1> USE ConstantsAssumption DEF TypeOK, Known
<1>1. CASE UNCHANGED vars
  BY <1>1 DEF vars, envVars, mqVars, ckVars, alertVars
<1>2. CASE Environment
  <2>1. CASE Tick
    BY <2>1, SMTT(60) DEF Tick, envVars, mqVars, ckVars, alertVars
  <2>2. CASE Deliver
    BY <2>2, SMTT(60) DEF Deliver, envVars, mqVars, ckVars, alertVars
  <2>3. CASE LoseConnection
    <3>1. inbox' \in Seq(Message)
      BY <2>3 DEF LoseConnection
    <3> QED
      BY <2>3, <3>1 DEF LoseConnection, mqVars, ckVars, alertVars
  <2>4. CASE Crash
    <3>1. inbox' \in Seq(Message)
      BY <2>4 DEF Crash
    <3>2. Known' = {} /\ person_state' \in [{} -> [last_update : Nat, inside_roi : BOOLEAN]]
      BY <2>4 DEF Crash, Nobody
    <3>3. entradas' \in [Person -> Nat] /\ salidas' \in [Person -> Nat]
      BY <2>4 DEF Crash, NoAlerts
    <3>4. now' \in Nat /\ crashes' \in Nat
      BY <2>4 DEF Crash
    <3>5. /\ up' = FALSE /\ subscribed' = FALSE
          /\ mqPc' = "connect" /\ mqMsg' = NoMsg
          /\ ckPc' = "clock" /\ ckNow' = 0 /\ ckWake' = 0
          /\ ckTodo' = {} /\ ckPid' = NoPerson
      BY <2>4, Zenon DEF Crash
    <3> HIDE DEF Known
    <3> QED
      BY <3>1, <3>2, <3>3, <3>4, <3>5
  <2>5. CASE Restart
    BY <2>5 DEF Restart, mqVars, ckVars, alertVars
  <2> QED BY <1>2, <2>1, <2>2, <2>3, <2>4, <2>5 DEF Environment
<1>3. CASE MqttThread
  <2>1. CASE Connect
    BY <2>1 DEF Connect, envVars, ckVars, alertVars
  <2>2. CASE OnConnect
    BY <2>2 DEF OnConnect, mqVars, ckVars, alertVars
  <2>3. CASE OnMessage
    <3> DEFINE p == Head(inbox).object_id
    <3>1. Head(inbox) \in Message /\ Tail(inbox) \in Seq(Message)
      BY <2>3 DEF OnMessage
    <3>2. p \in Person /\ Inside(p) \in BOOLEAN
      BY <3>1 DEF Message, Inside
    <3>3. person_state' =
            [q \in Known \union {p} |->
               IF q # p THEN person_state[q]
               ELSE [last_update |-> now, inside_roi |-> Inside(p)]]
      BY <2>3 DEF OnMessage
    <3>4. person_state' \in [Known' -> [last_update : Nat, inside_roi : BOOLEAN]]
      BY <3>2, <3>3
    <3>5. Known \subseteq Known' /\ Known' \subseteq Person
      BY <3>2, <3>3
    <3> QED
      BY <2>3, <3>1, <3>4, <3>5 DEF OnMessage, envVars, ckVars, alertVars
  <2>4. CASE TestInside
    BY <2>4 DEF TestInside, envVars, ckVars, alertVars
  <2>5. CASE SendEntrada
    <3>1. entradas' \in [Person -> Nat]
      <4>1. entradas' = [entradas EXCEPT ![mqMsg.object_id] = @ + 1]
        BY <2>5 DEF SendEntrada
      <4>2. entradas \in [Person -> Nat]
        OBVIOUS
      <4> HIDE DEF TypeOK, Known
      <4>3. \A p \in Person : entradas'[p] \in Nat
        BY <4>1, <4>2
      <4> QED
        BY <4>1, <4>2, <4>3
    <3> QED
      BY <2>5, <3>1 DEF SendEntrada, envVars, ckVars
  <2>6. CASE MarkInside
    BY <2>6 DEF MarkInside, envVars, ckVars, alertVars
  <2> QED BY <1>3, <2>1, <2>2, <2>3, <2>4, <2>5, <2>6 DEF MqttThread
<1>4. CASE CheckerThread
  <2>1. CASE ReadClock
    BY <2>1 DEF ReadClock, envVars, mqVars, alertVars
  <2>2. CASE ListPeople
    BY <2>2 DEF ListPeople, envVars, mqVars, alertVars
  <2>3. CASE CheckPerson
    BY <2>3 DEF CheckPerson, envVars, mqVars, alertVars
  <2>4. CASE SendSalida
    <3>1. salidas' \in [Person -> Nat]
      <4>1. salidas' = [salidas EXCEPT ![ckPid] = @ + 1]
        BY <2>4 DEF SendSalida
      <4>2. salidas \in [Person -> Nat]
        OBVIOUS
      <4> HIDE DEF TypeOK, Known
      <4>3. \A p \in Person : salidas'[p] \in Nat
        BY <4>1, <4>2
      <4> QED
        BY <4>1, <4>2, <4>3
    <3> QED
      BY <2>4, <3>1 DEF SendSalida, envVars, mqVars
  <2>5. CASE ClearInside
    BY <2>5 DEF ClearInside, envVars, mqVars, alertVars
  <2>6. CASE Sleep
    BY <2>6, SMTT(60) DEF Sleep, envVars, mqVars, alertVars
  <2>7. CASE Wake
    BY <2>7 DEF Wake, envVars, mqVars, alertVars
  <2> QED BY <1>4, <2>1, <2>2, <2>3, <2>4, <2>5, <2>6, <2>7 DEF CheckerThread
<1> QED BY <1>1, <1>2, <1>3, <1>4 DEF Next

\* Every reachable state is well typed: in particular the checker only walks
\* over, and both threads only index person_state with, registered people.
THEOREM TypeCorrect == Spec => []TypeOK
<1>1. Init => TypeOK
  BY TypeInit
<1>2. TypeOK /\ [Next]_vars => TypeOK'
  BY TypeStep
<1> QED BY <1>1, <1>2, PTL DEF Spec

----------------------------------------------------------------------------
(* The inductive invariant                                                 *)

LEMMA InvInit == Init => IInv
<1> SUFFICES ASSUME Init PROVE IInv
  OBVIOUS
<1>1. TypeOK
  BY TypeInit
<1>2. Known = {}
  BY DEF Init, Known, Nobody
<1> QED
  BY <1>1, <1>2 DEF Init, IInv, HandledIsKnown, AnnouncedIsOutside,
     DismissedIsInside, Balance, Outstanding, Inside, SalidaJustified,
     RegisteredIsAnnounced, InsideIsAnnounced, Handling, Announcing, Dismissing,
     NoAlerts

LEMMA InvStep == IInv /\ [Next]_vars => IInv'
<1> SUFFICES ASSUME IInv, [Next]_vars PROVE IInv'
  OBVIOUS
<1>0. TypeOK /\ TypeOK'
  BY TypeStep DEF IInv
<1> USE <1>0 DEF TypeOK, IInv, HandledIsKnown, AnnouncedIsOutside, DismissedIsInside, Balance,
     Outstanding, Inside, Known, SalidaJustified, RegisteredIsAnnounced,
     InsideIsAnnounced, Handling, Announcing, Dismissing
<1>1. CASE UNCHANGED vars
  BY <1>1 DEF vars, envVars, mqVars, ckVars, alertVars
<1>2. CASE Environment
  <2>1. CASE Tick
    BY <2>1 DEF Tick, envVars, mqVars, ckVars, alertVars
  <2>2. CASE Deliver
    BY <2>2 DEF Deliver, envVars, mqVars, ckVars, alertVars
  <2>3. CASE LoseConnection
    BY <2>3 DEF LoseConnection, mqVars, ckVars, alertVars
  <2>4. CASE Crash
    BY <2>4 DEF Crash, Nobody, NoAlerts
  <2>5. CASE Restart
    BY <2>5 DEF Restart, mqVars, ckVars, alertVars
  <2> QED BY <1>2, <2>1, <2>2, <2>3, <2>4, <2>5 DEF Environment
<1>3. CASE MqttThread
  <2>1. CASE Connect
    BY <2>1 DEF Connect, envVars, ckVars, alertVars
  <2>2. CASE OnConnect
    BY <2>2 DEF OnConnect, mqVars, ckVars, alertVars
  <2>3. CASE OnMessage
    <3> DEFINE p == Head(inbox).object_id
    <3> HIDE DEF HandledIsKnown, AnnouncedIsOutside, DismissedIsInside, Balance,
          Outstanding, SalidaJustified, RegisteredIsAnnounced, InsideIsAnnounced
    <3>0. Head(inbox) \in Message
      BY <2>3 DEF OnMessage
    <3>1. Head(inbox) \in Message /\ p \in Person
      BY <3>0 DEF Message
    <3>2. /\ mqMsg' = Head(inbox) /\ mqPc' = "test" /\ mqPc = "loop"
          /\ ckPc' = ckPc /\ ckPid' = ckPid /\ ckNow' = ckNow /\ now' = now
          /\ entradas' = entradas /\ salidas' = salidas
      BY <2>3 DEF OnMessage, ckVars, alertVars
    <3>3. /\ Known' = Known \union {p}
          /\ \A q \in Known : q # p => person_state'[q] = person_state[q]
          /\ person_state'[p] = [last_update |-> now, inside_roi |-> Inside(p)]
      BY <2>3, <3>2 DEF OnMessage
    <3>4. \A q : Inside(q)' <=> Inside(q)
      <4> SUFFICES ASSUME NEW q PROVE Inside(q)' <=> Inside(q)
        OBVIOUS
      <4>1. CASE q = p
        <5>1. person_state'[p].inside_roi = Inside(p)
          BY <3>3
        <5>2. p \in Known'
          BY <3>3
        <5> QED BY <4>1, <5>1, <5>2, Zenon
      <4>2. CASE q # p
        BY <3>3, <4>2
      <4> QED BY <4>1, <4>2
    <3> HIDE DEF Known, Inside, TypeOK
    <3>5. HandledIsKnown' /\ AnnouncedIsOutside'
      BY <3>1, <3>2, <3>3 DEF HandledIsKnown, AnnouncedIsOutside
    <3>6. DismissedIsInside'
      BY <3>2, <3>3, <3>4 DEF DismissedIsInside
    <3>7. Balance'
      BY <3>2, <3>4 DEF Balance, Outstanding
    <3>8. SalidaJustified'
      BY <3>2, <3>3 DEF SalidaJustified, DismissedIsInside
    <3>9. RegisteredIsAnnounced'
      BY <3>2, <3>3 DEF RegisteredIsAnnounced
    <3>10. InsideIsAnnounced'
      BY <3>2, <3>3, <3>4 DEF InsideIsAnnounced, Inside
    <3> QED
      BY <1>0, <3>2, <3>5, <3>6, <3>7, <3>8, <3>9, <3>10
  <2>4. CASE TestInside
    <3>1. /\ person_state' = person_state /\ mqPc = "test"
          /\ ckPc' = ckPc /\ ckPid' = ckPid /\ ckNow' = ckNow /\ now' = now
          /\ entradas' = entradas /\ salidas' = salidas
      BY <2>4 DEF TestInside, ckVars, alertVars
    <3>2. CASE Inside(mqMsg.object_id)
      <4>1. mqPc' = "loop"
        BY <2>4, <3>2 DEF TestInside
      <4>2. entradas[mqMsg.object_id] > 0
        BY <3>1, <3>2
      <4> QED BY <3>1, <4>1, <4>2
    <3>3. CASE ~Inside(mqMsg.object_id)
      <4>1. mqPc' = "alert" /\ mqMsg' = mqMsg
        BY <2>4, <3>3 DEF TestInside
      <4> QED BY <3>1, <3>3, <4>1
    <3> QED BY <3>2, <3>3
  <2>5. CASE SendEntrada
    BY <2>5, SMTT(60) DEF SendEntrada, envVars, ckVars
  <2>6. CASE MarkInside
    BY <2>6, ZenonT(60) DEF MarkInside, envVars, ckVars, alertVars
  <2> QED BY <1>3, <2>1, <2>2, <2>3, <2>4, <2>5, <2>6 DEF MqttThread
<1>4. CASE CheckerThread
  <2>1. CASE ReadClock
    BY <2>1 DEF ReadClock, envVars, mqVars, alertVars
  <2>2. CASE ListPeople
    BY <2>2 DEF ListPeople, envVars, mqVars, alertVars
  <2>3. CASE CheckPerson
    <3>1. PICK p \in ckTodo :
            /\ ckPc = "scan"
            /\ IF Expired(p) THEN ckPc' = "alert" /\ ckPid' = p
                             ELSE UNCHANGED <<ckPc, ckPid>>
      BY <2>3 DEF CheckPerson
    <3>2. /\ person_state' = person_state /\ mqPc' = mqPc /\ mqMsg' = mqMsg
          /\ ckNow' = ckNow /\ now' = now
          /\ entradas' = entradas /\ salidas' = salidas
      BY <2>3 DEF CheckPerson, mqVars, alertVars
    <3>3. CASE Expired(p)
      BY <3>1, <3>2, <3>3 DEF Expired
    <3>4. CASE ~Expired(p)
      BY <3>1, <3>2, <3>4
    <3> QED BY <3>3, <3>4
  <2>4. CASE SendSalida
    BY <2>4, SMTT(60) DEF SendSalida, envVars, mqVars
  <2>5. CASE ClearInside
    BY <2>5, SMTT(60) DEF ClearInside, envVars, mqVars, alertVars
  <2>6. CASE Sleep
    BY <2>6 DEF Sleep, envVars, mqVars, alertVars
  <2>7. CASE Wake
    BY <2>7 DEF Wake, envVars, mqVars, alertVars
  <2> QED BY <1>4, <2>1, <2>2, <2>3, <2>4, <2>5, <2>6, <2>7 DEF CheckerThread
<1> QED BY <1>1, <1>2, <1>3, <1>4 DEF Next

THEOREM Inductive == Spec => []IInv
<1> QED BY InvInit, InvStep, PTL DEF Spec

\* Whatever the interleaving of on_message and check_no_change, of crashes and
\* of blocking Twilio calls, one process never issues two entradas for a
\* person without a salida between them, nor a salida without its entrada.
THEOREM AlertsAlternateHolds == Spec => []AlertsAlternate
<1>1. IInv => AlertsAlternate
  <2> SUFFICES ASSUME IInv, NEW p \in Person
               PROVE  entradas[p] - salidas[p] \in {0, 1}
    BY DEF AlertsAlternate
  <2>1. entradas[p] \in Nat /\ salidas[p] \in Nat
    BY DEF IInv, TypeOK
  <2>2. entradas[p] = salidas[p] + Outstanding(p)
    BY DEF IInv, Balance
  <2>3. Outstanding(p) \in {0, 1}
    BY DEF Outstanding
  <2> QED BY <2>1, <2>2, <2>3
<1> QED BY <1>1, Inductive, PTL

\* inside_roi works as a lock: on_message and the checker are never both
\* between the test and the assignment for the same person.
THEOREM OneAlertPerPersonHolds == Spec => []OneAlertPerPerson
<1>1. IInv => OneAlertPerPerson
  BY DEF IInv, OneAlertPerPerson, AnnouncedIsOutside, DismissedIsInside,
     Announcing, Dismissing
<1> QED BY <1>1, Inductive, PTL

\* Every salida in progress rests on a silence longer than the threshold that
\* was real when the pass read the clock.
THEOREM SalidaJustifiedHolds == Spec => []SalidaJustified
<1>1. IInv => SalidaJustified
  BY DEF IInv
<1> QED BY <1>1, Inductive, PTL

\* No first entrada is lost to a race with the checker.
THEOREM RegisteredIsAnnouncedHolds == Spec => []RegisteredIsAnnounced
<1>1. IInv => RegisteredIsAnnounced
  BY DEF IInv
<1> QED BY <1>1, Inductive, PTL

----------------------------------------------------------------------------
(* Implementation of the abstract protocol                                 *)

LEMMA ProtocolInit == Init => Protocol!Init
  BY DEF Init, NoAlerts, Protocol!Init

\* Sending is the only step the protocol sees, apart from losing the process.
LEMMA ProtocolStep == IInv /\ [Next]_vars => [Protocol!Next]_(Protocol!vars)
<1> SUFFICES ASSUME IInv, [Next]_vars PROVE [Protocol!Next]_(Protocol!vars)
  OBVIOUS
<1> USE DEF Protocol!vars
<1>1. CASE SendEntrada
  <2> DEFINE p == mqMsg.object_id
  <2>1. mqMsg \in Message /\ p \in Person
    BY <1>1 DEF SendEntrada, IInv, HandledIsKnown, Handling, TypeOK
  <2>2. ~Inside(p) /\ mqPc = "alert"
    BY <1>1 DEF SendEntrada, IInv, AnnouncedIsOutside, Announcing
  <2>3. entradas[p] = salidas[p]
    BY <2>1, <2>2 DEF IInv, Balance, Outstanding, TypeOK
  <2>4. Protocol!Entrada(p)
    BY <1>1, <2>3 DEF SendEntrada, Protocol!Entrada
  <2> QED BY <2>1, <2>4 DEF Protocol!Next
<1>2. CASE SendSalida
  <2>1. ckPid \in Person /\ Inside(ckPid) /\ ckPc = "alert"
    BY <1>2 DEF SendSalida, IInv, DismissedIsInside, Dismissing, TypeOK
  <2>2. entradas[ckPid] = salidas[ckPid] + 1
    BY <2>1 DEF IInv, Balance, Outstanding
  <2>3. Protocol!Salida(ckPid)
    BY <1>2, <2>2 DEF SendSalida, Protocol!Salida
  <2> QED BY <2>1, <2>3 DEF Protocol!Next
<1>3. CASE Crash
  BY <1>3 DEF Crash, NoAlerts, Protocol!Next, Protocol!Restart
<1>4. CASE UNCHANGED alertVars
  BY <1>4 DEF alertVars
<1> QED
  BY <1>1, <1>2, <1>3, <1>4 DEF Next, MqttThread, CheckerThread, Environment,
     Tick, Deliver, LoseConnection, Restart, Connect, OnConnect, OnMessage,
     TestInside, MarkInside, ReadClock, ListPeople, CheckPerson, ClearInside,
     Sleep, Wake, vars

\* The backend with its two threads implements the abstract alert protocol.
THEOREM Implementation == Spec => ImplementsProtocol
<1> QED
  BY ProtocolInit, ProtocolStep, Inductive, PTL
     DEF Spec, ImplementsProtocol, Protocol!Spec

=============================================================================
