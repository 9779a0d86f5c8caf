------------------------- MODULE ObjectQueue_proofs -------------------------
(***************************************************************************)
(* Proofs about ObjectQueue, for every number of attempts, every set of    *)
(* error codes and every bound: types, mutual exclusion, the FIFO between  *)
(* the probe and MQTT, wake-ups and the stop of the broker thread.         *)
(***************************************************************************)
EXTENDS ObjectQueue, SequenceTheorems, TLAPS

\* Who owns mtx, by the position of the two threads.
Owner ==
    /\ (mtx = "broker") <=> (brPc \in {"test", "publish", "reconnect", "pop"})
    /\ (mtx = "probe") <=> (prOwns > 0)

\* The probe is pushing the last entry it counted.
Pushing == prOwns > 0 => prOwns = pushed /\ prTodo > 0

\* The broker thread never loses the front entry it works on.
Working ==
    /\ brPc \in {"publish", "reconnect", "pop"} => obj_list # <<>>
    /\ brPc \in {"publish", "reconnect"} => tries > 0

\* Entries that have left the queue.
Popped == IF brPc = "pop" THEN Len(published) - 1 ELSE Len(published)

\* The queue and the history are consecutive intervals of ranks.
Ranks ==
    /\ Popped \in Nat
    /\ \A i \in 1..Len(published) : published[i] = i
    /\ \A i \in 1..Len(obj_list) : obj_list[i] = Popped + i
    /\ Popped + Len(obj_list) = Complete

\* What the broker thread may still publish once the flag is reset.
Stopping ==
    /\ late <= 1
    /\ late > 0 => ~app_is_running /\ brPc \in {"while", "pop", "done"}
    /\ brPc = "done" => ~app_is_running

\* main() has joined the thread before it destroys the client.
Joined ==
    /\ mainPc \in {"stop", "exit"} => brPc = "done"
    /\ ~mosqAlive => mainPc \in {"stop", "exit"}

\* Library calls of the current hold of mtx: two at most for each try used up.
Bounded ==
    calls <= CASE brPc = "publish" -> 2 * (MAX_TRIES - tries)
               [] brPc = "reconnect" -> 2 * (MAX_TRIES - tries) + 1
               [] brPc = "pop" -> 2 * MAX_TRIES - 1
               [] OTHER -> 0

IInv ==
    /\ TypeOK
    /\ Owner
    /\ Pushing
    /\ Working
    /\ Ranks
    /\ NoLostWakeup
    /\ Stopping
    /\ Joined
    /\ Bounded

----------------------------------------------------------------------------
LEMMA InvInit == Init => IInv
<1> SUFFICES ASSUME Init PROVE IInv
  OBVIOUS
<1>1. obj_list = <<>> /\ published = <<>>
  BY DEF Init
<1>2. obj_list \in Seq(Nat) /\ published \in Seq(Nat) /\ Len(obj_list) = 0
      /\ Len(published) = 0
  BY <1>1
<1>3. conn \in {"up", "closed"} /\ reachable \in BOOLEAN
  BY DEF Init
<1>4. TypeOK
  <2>1. /\ app_is_running \in BOOLEAN /\ mosqAlive \in BOOLEAN
        /\ playing \in BOOLEAN /\ notified \in BOOLEAN
    BY Zenon DEF Init
  <2>2. tries \in 0..MAX_TRIES
    BY QueueAssumption DEF Init
  <2>3. /\ prTodo = 0 /\ prOwns = 0 /\ pushed = 0 /\ late = 0 /\ calls = 0
        /\ mtx = "none" /\ brPc = "while" /\ mainPc = "loop"
    BY Zenon DEF Init
  <2> QED
    BY <1>2, <1>3, <2>1, <2>2, <2>3 DEF TypeOK
<1>5. Ranks
  BY <1>2 DEF Init, Ranks, Popped, Complete
<1> QED
  BY <1>1, <1>4, <1>5 DEF Init, IInv, Owner, Pushing, Working, NoLostWakeup,
     Stopping, Joined, Bounded

LEMMA TypeStep == TypeOK /\ Working /\ Pushing /\ [Next]_vars => TypeOK'
<1> SUFFICES ASSUME TypeOK, Working, Pushing, [Next]_vars PROVE TypeOK'
  OBVIOUS
<1> USE QueueAssumption DEF TypeOK, Working, Pushing
<1>1. CASE UNCHANGED vars
  BY <1>1 DEF vars, prVars, brVars, sending, netVars, mainVars
<1>2. CASE Probe
  <2>1. CASE ProbeFrame
    BY <2>1 DEF ProbeFrame, prVars, brVars, sending, netVars, mainVars
  <2>2. CASE ProbeLock
    BY <2>2 DEF ProbeLock, prVars, brVars, sending, netVars, mainVars
  <2>3. CASE ProbePush
    <3>1. obj_list' \in Seq(Nat) /\ prTodo' \in Nat /\ prOwns' \in Nat
      BY <2>3 DEF ProbePush
    <3>2. notified' \in BOOLEAN
      BY <2>3, Zenon DEF ProbePush, NotifyAll
    <3> QED
      BY <2>3, <3>1, <3>2 DEF ProbePush, brVars, sending, netVars, mainVars
  <2> QED BY <1>2, <2>1, <2>2, <2>3 DEF Probe
<1>3. CASE BrokerThread
  <2>1. CASE BrokerWhile
    BY <2>1 DEF BrokerWhile, prVars, brVars, sending, netVars, mainVars
  <2>2. CASE BrokerLock
    BY <2>2 DEF BrokerLock, prVars, brVars, sending, netVars, mainVars
  <2>3. CASE BrokerWait
    BY <2>3 DEF BrokerWait, prVars, brVars, sending, netVars, mainVars
  <2>4. CASE BrokerWake
    BY <2>4 DEF BrokerWake, Reacquire, prVars, brVars, sending, netVars, mainVars
  <2>5. CASE BrokerFront
    BY <2>5 DEF BrokerFront, prVars, brVars, sending, netVars, mainVars
  <2>6. CASE PublishOk
    BY <2>6 DEF PublishOk, Accepted, prVars, brVars, sending, netVars, mainVars
  <2>7. CASE PublishFinalError
    BY <2>7 DEF PublishFinalError, Unlock, prVars, brVars, sending, netVars, mainVars
  <2>8. CASE PublishRetryError
    BY <2>8 DEF PublishRetryError, NextTry, Unlock, prVars, brVars, sending, netVars, mainVars
  <2>9. CASE PublishNoConn
    BY <2>9 DEF PublishNoConn, prVars, brVars, sending, netVars, mainVars
  <2>10. CASE Reconnect
    BY <2>10 DEF Reconnect, NextTry, Unlock, prVars, brVars, sending, netVars, mainVars
  <2>11. CASE BrokerPop
    BY <2>11 DEF BrokerPop, Unlock, prVars, brVars, sending, netVars, mainVars
  <2> QED BY <1>3, <2>1, <2>2, <2>3, <2>4, <2>5, <2>6, <2>7, <2>8, <2>9, <2>10, <2>11 DEF BrokerThread
<1>4. CASE MainThread
  <2>1. CASE BusError
    BY <2>1 DEF BusError, prVars, brVars, sending, netVars, mainVars
  <2>2. CASE StopRunning
    BY <2>2, ZenonT(60) DEF StopRunning, prVars, brVars, sending, netVars, mainVars
  <2>3. CASE NotifyStop
    BY <2>3 DEF NotifyStop, NotifyAll, prVars, brVars, sending, netVars, mainVars
  <2>4. CASE JoinBroker
    BY <2>4 DEF JoinBroker, prVars, brVars, sending, netVars, mainVars
  <2>5. CASE StopPipeline
    BY <2>5, ZenonT(60) DEF StopPipeline, prVars, brVars, sending, netVars, mainVars
  <2> QED BY <1>4, <2>1, <2>2, <2>3, <2>4, <2>5 DEF MainThread
<1>5. CASE SpuriousWake
  BY <1>5 DEF SpuriousWake, Reacquire, prVars, brVars, sending, netVars, mainVars
<1>6. CASE LinkChanges
  BY <1>6 DEF LinkChanges, prVars, brVars, sending, netVars, mainVars
<1>7. CASE ConnectionLost
  BY <1>7, ZenonT(60) DEF ConnectionLost, prVars, brVars, sending, netVars, mainVars
<1>8. CASE ConnectionClosed
  BY <1>8, ZenonT(60) DEF ConnectionClosed, prVars, brVars, sending, netVars, mainVars
<1> QED BY <1>1, <1>2, <1>3, <1>4, <1>5, <1>6, <1>7, <1>8 DEF Next

LEMMA ControlStep ==
    IInv /\ [Next]_vars
      => Owner' /\ Pushing' /\ Working' /\ NoLostWakeup' /\ Stopping' /\ Joined'
<1> SUFFICES ASSUME IInv, [Next]_vars
             PROVE  Owner' /\ Pushing' /\ Working' /\ NoLostWakeup' /\ Stopping'
                    /\ Joined'
  OBVIOUS
<1> USE QueueAssumption DEF IInv, TypeOK, Owner, Pushing, Working, NoLostWakeup,
        Stopping, Joined
<1>1. CASE UNCHANGED vars
  BY <1>1 DEF vars, prVars, brVars, sending, netVars, mainVars
<1>2. CASE Probe
  <2>1. CASE ProbeFrame
    BY <2>1 DEF ProbeFrame, prVars, brVars, sending, netVars, mainVars
  <2>2. CASE ProbeLock
    BY <2>2 DEF ProbeLock, prVars, brVars, sending, netVars, mainVars
  <2>3. CASE ProbePush
    <3>1. brPc = "wait" => notified'
      BY <2>3, Zenon DEF ProbePush, NotifyAll
    <3> QED
      BY <2>3, <3>1 DEF ProbePush, brVars, sending, netVars, mainVars
  <2> QED BY <1>2, <2>1, <2>2, <2>3 DEF Probe
<1>3. CASE BrokerThread
  <2>1. CASE BrokerWhile
    BY <2>1 DEF BrokerWhile, prVars, brVars, sending, netVars, mainVars
  <2>2. CASE BrokerLock
    BY <2>2 DEF BrokerLock, prVars, brVars, sending, netVars, mainVars
  <2>3. CASE BrokerWait
    BY <2>3 DEF BrokerWait, prVars, brVars, sending, netVars, mainVars
  <2>4. CASE BrokerWake
    BY <2>4 DEF BrokerWake, Reacquire, prVars, brVars, sending, netVars, mainVars
  <2>5. CASE BrokerFront
    BY <2>5 DEF BrokerFront, prVars, brVars, sending, netVars, mainVars
  <2>6. CASE PublishOk
    BY <2>6 DEF PublishOk, Accepted, prVars, brVars, sending, netVars, mainVars
  <2>7. CASE PublishFinalError
    BY <2>7 DEF PublishFinalError, Unlock, prVars, brVars, sending, netVars, mainVars
  <2>8. CASE PublishRetryError
    BY <2>8 DEF PublishRetryError, NextTry, Unlock, prVars, brVars, sending, netVars, mainVars
  <2>9. CASE PublishNoConn
    BY <2>9 DEF PublishNoConn, prVars, brVars, sending, netVars, mainVars
  <2>10. CASE Reconnect
    BY <2>10 DEF Reconnect, NextTry, Unlock, prVars, brVars, sending, netVars, mainVars
  <2>11. CASE BrokerPop
    BY <2>11 DEF BrokerPop, Unlock, prVars, brVars, sending, netVars, mainVars
  <2> QED BY <1>3, <2>1, <2>2, <2>3, <2>4, <2>5, <2>6, <2>7, <2>8, <2>9, <2>10, <2>11 DEF BrokerThread
<1>4. CASE MainThread
  <2>1. CASE BusError
    BY <2>1 DEF BusError, prVars, brVars, sending, netVars, mainVars
  <2>2. CASE StopRunning
    BY <2>2 DEF StopRunning, prVars, brVars, sending, netVars, mainVars
  <2>3. CASE NotifyStop
    BY <2>3 DEF NotifyStop, NotifyAll, prVars, brVars, sending, netVars, mainVars
  <2>4. CASE JoinBroker
    BY <2>4 DEF JoinBroker, prVars, brVars, sending, netVars, mainVars
  <2>5. CASE StopPipeline
    BY <2>5 DEF StopPipeline, prVars, brVars, sending, netVars, mainVars
  <2> QED BY <1>4, <2>1, <2>2, <2>3, <2>4, <2>5 DEF MainThread
<1>5. CASE SpuriousWake
  BY <1>5 DEF SpuriousWake, Reacquire, prVars, brVars, sending, netVars, mainVars
<1>6. CASE LinkChanges
  BY <1>6 DEF LinkChanges, prVars, brVars, sending, netVars, mainVars
<1>7. CASE ConnectionLost
  BY <1>7 DEF ConnectionLost, prVars, brVars, sending, netVars, mainVars
<1>8. CASE ConnectionClosed
  BY <1>8 DEF ConnectionClosed, prVars, brVars, sending, netVars, mainVars
<1> QED BY <1>1, <1>2, <1>3, <1>4, <1>5, <1>6, <1>7, <1>8 DEF Next

LEMMA RanksStep == IInv /\ [Next]_vars => Ranks'
<1> SUFFICES ASSUME IInv, [Next]_vars PROVE Ranks'
  OBVIOUS
<1> USE DEF IInv, TypeOK, Owner, Pushing, Working, Ranks, Popped, Complete
<1>1. CASE UNCHANGED vars
  BY <1>1 DEF vars, prVars, brVars, sending, netVars, mainVars
<1>2. CASE Probe
  <2>1. CASE ProbeFrame
    BY <2>1 DEF ProbeFrame, prVars, brVars, sending, netVars, mainVars
  <2>2. CASE ProbeLock
    BY <2>2 DEF ProbeLock, prVars, brVars, sending, netVars, mainVars
  <2>3. CASE ProbePush
    <3>1. /\ obj_list' = Append(obj_list, pushed) /\ prOwns > 0 /\ prOwns' = 0
          /\ published' = published /\ brPc' = brPc /\ pushed' = pushed
      BY <2>3 DEF ProbePush, brVars, sending
    <3>2. Popped' = Popped /\ Complete' = Complete + 1 /\ Complete + 1 = pushed
      BY <3>1
    <3>3. /\ Popped \in Nat /\ Popped + Len(obj_list) = Complete
          /\ obj_list \in Seq(Nat) /\ pushed \in Nat
          /\ \A i \in 1..Len(obj_list) : obj_list[i] = Popped + i
          /\ \A i \in 1..Len(published) : published[i] = i
      OBVIOUS
    <3> HIDE DEF IInv, TypeOK, Owner, Pushing, Working, Ranks, Popped, Complete
    <3>4. Len(obj_list') = Len(obj_list) + 1
      BY <3>1, <3>3
    <3>5. \A i \in 1..Len(obj_list') : obj_list'[i] = Popped + i
      <4> SUFFICES ASSUME NEW i \in 1..Len(obj_list')
                   PROVE  obj_list'[i] = Popped + i
        OBVIOUS
      <4>1. CASE i = Len(obj_list')
        <5>1. obj_list'[i] = pushed
          BY <3>1, <3>3, <3>4, <4>1
        <5>2. pushed = Popped + Len(obj_list) + 1
          BY <3>2, <3>3
        <5> QED BY <3>3, <3>4, <4>1, <5>1, <5>2
      <4>2. CASE i # Len(obj_list')
        <5>1. i \in 1..Len(obj_list)
          BY <3>3, <3>4, <4>2
        <5>2. obj_list'[i] = obj_list[i]
          BY <3>1, <3>3, <5>1
        <5> QED BY <3>3, <5>1, <5>2
      <4> QED BY <4>1, <4>2
    <3> QED
      BY <3>1, <3>2, <3>3, <3>4, <3>5 DEF Ranks
  <2> QED BY <1>2, <2>1, <2>2, <2>3 DEF Probe
<1>3. CASE BrokerThread
  <2>1. CASE BrokerWhile
    BY <2>1 DEF BrokerWhile, prVars, brVars, sending, netVars, mainVars
  <2>2. CASE BrokerLock
    BY <2>2 DEF BrokerLock, prVars, brVars, sending, netVars, mainVars
  <2>3. CASE BrokerWait
    BY <2>3 DEF BrokerWait, prVars, brVars, sending, netVars, mainVars
  <2>4. CASE BrokerWake
    BY <2>4 DEF BrokerWake, Reacquire, prVars, brVars, sending, netVars, mainVars
  <2>5. CASE BrokerFront
    BY <2>5 DEF BrokerFront, prVars, brVars, sending, netVars, mainVars
  <2>6. CASE PublishOk
    <3>1. /\ published' = Append(published, Head(obj_list))
          /\ obj_list' = obj_list /\ prOwns' = prOwns /\ pushed' = pushed
          /\ brPc = "publish" /\ brPc' = "pop"
      BY <2>6 DEF PublishOk, Accepted, prVars
    <3>2. Head(obj_list) = Len(published) + 1
      BY <3>1
    <3>3. \A i \in 1..Len(published') : published'[i] = i
      BY <3>1, <3>2
    <3>4. Len(published') = Len(published) + 1
      BY <3>1
    <3>5. Popped' = Popped
      BY <3>1, <3>4
    <3> QED
      BY <3>1, <3>3, <3>5
  <2>7. CASE PublishFinalError
    BY <2>7 DEF PublishFinalError, Unlock, prVars, brVars, sending, netVars, mainVars
  <2>8. CASE PublishRetryError
    BY <2>8 DEF PublishRetryError, NextTry, Unlock, prVars, brVars, sending, netVars, mainVars
  <2>9. CASE PublishNoConn
    BY <2>9 DEF PublishNoConn, prVars, brVars, sending, netVars, mainVars
  <2>10. CASE Reconnect
    BY <2>10 DEF Reconnect, NextTry, Unlock, prVars, brVars, sending, netVars, mainVars
  <2>11. CASE BrokerPop
    BY <2>11 DEF BrokerPop, Unlock, prVars, brVars, sending, netVars, mainVars
  <2> QED BY <1>3, <2>1, <2>2, <2>3, <2>4, <2>5, <2>6, <2>7, <2>8, <2>9, <2>10, <2>11 DEF BrokerThread
<1>4. CASE MainThread
  <2>1. CASE BusError
    BY <2>1 DEF BusError, prVars, brVars, sending, netVars, mainVars
  <2>2. CASE StopRunning
    BY <2>2 DEF StopRunning, prVars, brVars, sending, netVars, mainVars
  <2>3. CASE NotifyStop
    BY <2>3 DEF NotifyStop, NotifyAll, prVars, brVars, sending, netVars, mainVars
  <2>4. CASE JoinBroker
    BY <2>4 DEF JoinBroker, prVars, brVars, sending, netVars, mainVars
  <2>5. CASE StopPipeline
    BY <2>5 DEF StopPipeline, prVars, brVars, sending, netVars, mainVars
  <2> QED BY <1>4, <2>1, <2>2, <2>3, <2>4, <2>5 DEF MainThread
<1>5. CASE SpuriousWake
  BY <1>5 DEF SpuriousWake, Reacquire, prVars, brVars, sending, netVars, mainVars
<1>6. CASE LinkChanges
  BY <1>6 DEF LinkChanges, prVars, brVars, sending, netVars, mainVars
<1>7. CASE ConnectionLost
  BY <1>7 DEF ConnectionLost, prVars, brVars, sending, netVars, mainVars
<1>8. CASE ConnectionClosed
  BY <1>8 DEF ConnectionClosed, prVars, brVars, sending, netVars, mainVars
<1> QED BY <1>1, <1>2, <1>3, <1>4, <1>5, <1>6, <1>7, <1>8 DEF Next

LEMMA BoundedStep == IInv /\ [Next]_vars => Bounded'
<1> SUFFICES ASSUME IInv, [Next]_vars PROVE Bounded'
  OBVIOUS
<1>1. /\ tries \in 0..MAX_TRIES /\ calls \in Nat /\ MAX_TRIES \in Nat \ {0}
      /\ brPc \in {"publish", "reconnect"} => tries > 0
      /\ Bounded
  BY QueueAssumption DEF IInv, TypeOK, Working
<1>2. CASE UNCHANGED <<brPc, tries, calls>>
  BY <1>1, <1>2 DEF Bounded
<1>3. CASE BrokerFront
  BY <1>1, <1>3 DEF BrokerFront, Bounded
<1>4. CASE PublishOk
  BY <1>1, <1>4 DEF PublishOk, Accepted, Bounded
<1>5. CASE PublishNoConn
  BY <1>1, <1>5 DEF PublishNoConn, Bounded
<1>6. CASE PublishFinalError \/ BrokerPop
  BY <1>1, <1>6 DEF PublishFinalError, BrokerPop, Unlock, Bounded
<1>7. CASE PublishRetryError
  BY <1>1, <1>7 DEF PublishRetryError, NextTry, Unlock, Bounded
<1>8. CASE Reconnect
  BY <1>1, <1>8 DEF Reconnect, NextTry, Unlock, Bounded
<1>9. CASE BrokerWhile \/ BrokerLock \/ BrokerWait \/ BrokerWake \/ SpuriousWake
  BY <1>1, <1>9 DEF BrokerWhile, BrokerLock, BrokerWait, BrokerWake, SpuriousWake,
     Reacquire, Bounded, sending
<1> QED
  BY <1>2, <1>3, <1>4, <1>5, <1>6, <1>7, <1>8, <1>9 DEF Next, Probe, BrokerThread,
     MainThread, ProbeFrame, ProbeLock, ProbePush, BusError, StopRunning, NotifyStop,
     JoinBroker, StopPipeline, LinkChanges, ConnectionLost, ConnectionClosed, vars,
     brVars, sending

----------------------------------------------------------------------------
THEOREM Inductive == Spec => []IInv
<1>1. IInv /\ [Next]_vars => IInv'
  BY TypeStep, ControlStep, RanksStep, BoundedStep DEF IInv
<1> QED BY InvInit, <1>1, PTL DEF Spec

\* Types; with them, the attempts left never exceed the five of the code.
THEOREM TypeCorrect == Spec => []TypeOK
<1>1. IInv => TypeOK
  BY DEF IInv
<1> QED BY <1>1, Inductive, PTL

\* The probe and the broker thread are never in their critical sections
\* together, although the broker's one spans network calls.
THEOREM MutualExclusion ==
    Spec => [](prOwns > 0 => brPc \notin {"test", "publish", "reconnect", "pop"})
<1>1. IInv => (prOwns > 0 => brPc \notin {"test", "publish", "reconnect", "pop"})
  BY DEF IInv, Owner
<1> QED BY <1>1, Inductive, PTL

\* What MQTT accepted followed by what is queued is exactly what the probe
\* pushed: no error path of send_mqtt_message loses, repeats or reorders.
THEOREM FifoHolds == Spec => []Fifo
<1>1. IInv => Fifo
  <2> SUFFICES ASSUME IInv PROVE Fifo
    OBVIOUS
  <2> USE DEF IInv, TypeOK, Ranks, Popped, Complete, Working, Pushing
  <2> DEFINE all == published \o Pending
  <2>1. /\ Pending \in Seq(Nat) /\ published \in Seq(Nat)
        /\ Len(published) + Len(Pending) = Complete
    BY DEF Pending
  <2>2. \A i \in 1..Len(Pending) : Pending[i] = Len(published) + i
    BY DEF Pending
  <2>3. Complete \in Nat
    OBVIOUS
  <2> HIDE DEF IInv, Ranks, Popped, Complete, Working, Pushing
  <2>4. all \in Seq(Nat) /\ Len(all) = Complete
    BY <2>1
  <2>5. \A i \in 1..Len(published) : published[i] = i
    BY DEF IInv, Ranks
  <2>6. \A i \in 1..Complete : all[i] = i
    BY <2>1, <2>2, <2>3, <2>5, SMTT(60)
  <2>7. all = [i \in 1..Complete |-> i]
    <3>1. all \in [1..Complete -> Nat]
      BY <2>4, LenProperties
    <3>2. all = [i \in 1..Complete |-> all[i]]
      BY <3>1
    <3> QED
      BY <2>6, <3>2, Zenon
  <2> QED BY <2>7 DEF Fifo
<1> QED BY <1>1, Inductive, PTL

\* After app_is_running is reset at most one more object is published.
THEOREM AtMostOneLateHolds == Spec => []AtMostOneLate
<1>1. IInv => AtMostOneLate
  BY DEF IInv, Stopping, AtMostOneLate
<1> QED BY <1>1, Inductive, PTL

\* main() never destroys the MQTT client under the thread that uses it.
THEOREM ClientOutlivesSenderHolds == Spec => []ClientOutlivesSender
<1>1. IInv => ClientOutlivesSender
  BY DEF IInv, Joined, ClientOutlivesSender
<1> QED BY <1>1, Inductive, PTL

\* The broker thread never sleeps on a queue that holds an entry without a
\* notification under way.
THEOREM NoLostWakeupHolds == Spec => []NoLostWakeup
<1>1. IInv => NoLostWakeup
  BY DEF IInv
<1> QED BY <1>1, Inductive, PTL

\* However the library answers, the publisher makes fewer than 2 * MAX_TRIES
\* blocking calls each time it has mtx (perception.cpp:940-990).
THEOREM HoldIsBoundedHolds == Spec => []HoldIsBounded
<1>1. IInv => HoldIsBounded
  BY QueueAssumption DEF IInv, TypeOK, Working, Bounded, HoldIsBounded
<1> QED BY <1>1, Inductive, PTL

----------------------------------------------------------------------------
(* Implementation of the abstract feed                                     *)

LEMMA FeedInit == Init => Feed!Init
  BY DEF Init, Complete, Feed!Init

\* A completed push makes a detection, an accepted publication sends the next
\* one, and the feed sees nothing else.
LEMMA FeedStep == IInv /\ [Next]_vars => [Feed!Next]_(Feed!vars)
<1> SUFFICES ASSUME IInv, [Next]_vars PROVE [Feed!Next]_(Feed!vars)
  OBVIOUS
<1> USE DEF Feed!vars
<1>1. CASE ProbePush
  <2>1. prOwns \in Nat /\ prOwns > 0 /\ pushed \in Nat /\ prOwns' = 0
        /\ UNCHANGED <<pushed, published>>
    BY <1>1 DEF ProbePush, IInv, TypeOK, brVars, sending
  <2>2. Complete' = Complete + 1
    BY <2>1 DEF Complete
  <2> QED BY <2>1, <2>2 DEF Feed!Next, Feed!Make
<1>2. CASE ProbeLock
  <2>1. pushed \in Nat /\ prOwns = 0 /\ pushed' = pushed + 1
        /\ prOwns' = pushed + 1 /\ UNCHANGED published
    BY <1>2 DEF ProbeLock, IInv, TypeOK, brVars, sending
  <2> QED BY <2>1 DEF Complete
<1>3. CASE PublishOk
  <2>1. /\ brPc = "publish" /\ obj_list \in Seq(Nat) /\ obj_list # <<>>
        /\ published \in Seq(Nat)
        /\ published' = Append(published, Head(obj_list))
        /\ UNCHANGED <<pushed, prOwns>>
    BY <1>3 DEF PublishOk, Accepted, IInv, TypeOK, Working, prVars
  <2>2. Popped = Len(published) /\ Len(obj_list) \in Nat \ {0}
    BY <2>1 DEF Popped
  <2>3. Head(obj_list) = Len(published) + 1 /\ Len(published) < Complete
    BY <2>1, <2>2 DEF IInv, Ranks
  <2>4. Complete' = Complete
    BY <2>1 DEF Complete
  <2> QED BY <2>1, <2>3, <2>4 DEF Feed!Next, Feed!Send
<1>4. CASE UNCHANGED <<pushed, prOwns, published>>
  BY <1>4 DEF Complete
<1> QED
  BY <1>1, <1>2, <1>3, <1>4 DEF Next, Probe, BrokerThread, MainThread, ProbeFrame,
     BrokerWhile, BrokerLock, BrokerWait, BrokerWake, SpuriousWake, Reacquire,
     BrokerFront, PublishFinalError, PublishRetryError, PublishNoConn, Reconnect,
     BrokerPop, BusError, StopRunning, NotifyStop, JoinBroker, StopPipeline,
     LinkChanges, ConnectionLost, ConnectionClosed, vars, prVars, brVars, sending

\* Probe, publisher, network and shutdown implement the abstract feed
\* (perception.cpp:813-819, :994-1010).
THEOREM Implementation == Spec => ImplementsFeed
<1> QED
  BY FeedInit, FeedStep, Inductive, PTL DEF Spec, ImplementsFeed, Feed!Spec

=============================================================================
