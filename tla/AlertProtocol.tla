--------------------------- MODULE AlertProtocol ---------------------------
(***************************************************************************)
(* What the alerting backend promises, with no thread, clock or dictionary *)
(* in it: for every person, the notifications issued by one backend        *)
(* process are entrada, salida, entrada, salida, ...  starting with an     *)
(* entrada.  A new process starts from nothing.  Backend.tla is shown to   *)
(* implement this specification.                                           *)
(***************************************************************************)
EXTENDS Naturals

CONSTANT Person         \* identifiers the tracker gives to people

VARIABLES
    entradas,           \* entradas[p]: "entro al area" notifications for p
    salidas             \* salidas[p]: "salio del area" notifications for p

vars == <<entradas, salidas>>

Init ==
    /\ entradas = [p \in Person |-> 0]
    /\ salidas = [p \in Person |-> 0]

\* p is announced when every earlier entrada was answered by a salida.
Entrada(p) ==
    /\ entradas[p] = salidas[p]
    /\ entradas' = [entradas EXCEPT ![p] = @ + 1]
    /\ UNCHANGED salidas

\* p leaves only after having been announced.
Salida(p) ==
    /\ entradas[p] = salidas[p] + 1
    /\ salidas' = [salidas EXCEPT ![p] = @ + 1]
    /\ UNCHANGED entradas

\* The process is restarted and remembers nobody.
Restart ==
    /\ entradas' = [p \in Person |-> 0]
    /\ salidas' = [p \in Person |-> 0]

Next ==
    \/ \E p \in Person : Entrada(p) \/ Salida(p)
    \/ Restart

Spec == Init /\ [][Next]_vars

=============================================================================
