--------------------------- MODULE VirtualNetwork ---------------------------
(***************************************************************************)
(* What the emulator promises to the programs it runs, without windows,    *)
(* queues, a TUN device or a real clock: every process has a virtual clock *)
(* of its own, and a message that a process transmits at its virtual time  *)
(* t reaches its destination in the order of t + latency, never before     *)
(* that instant of the destination's clock.                                *)
(*                                                                         *)
(* The clocks of two processes may differ, but never by more than allows a *)
(* message to be delivered late: this is the conservative rule of parallel *)
(* discrete-event simulation (see Advance).  Module Emulator implements    *)
(* this specification.                                                     *)
(***************************************************************************)
EXTENDS Integers, Sequences

CONSTANTS
    Procs,    \* the emulated processes
    Latency,  \* Latency[p][q]: virtual time a message takes from p to q
    Ids       \* identities that tell messages apart

VARIABLES
    clock,    \* clock[p]: virtual time of process p
    flight,   \* messages transmitted and not received yet
    received  \* received[p]: messages p received, oldest first

avars == <<clock, flight, received>>

\* Messages on their way to p.
InFlightTo(p) == {m \in flight : m.dst = p}

\* Identities of the messages that exist.
UsedIds ==
    {m.id : m \in flight}
        \cup UNION {{received[p][i].id : i \in DOMAIN received[p]} : p \in Procs}

Init ==
    /\ clock = [p \in Procs |-> 0]
    /\ flight = {}
    /\ received = [p \in Procs |-> <<>>]

\* Virtual time of p moves on, to no later than the first instant at which
\* something another process has not transmitted yet could arrive.
Advance(p) ==
    /\ clock'[p] \in Nat
    /\ clock[p] < clock'[p]
    /\ \A q \in Procs \ {p} : clock'[p] =< clock[q] + Latency[q][p]
    /\ clock' = [clock EXCEPT ![p] = clock'[p]]
    /\ UNCHANGED <<flight, received>>

\* p transmits a message to q.  Everything that was due to p before this
\* instant has been received: what p says can depend on it.
Transmit(p, q, n) ==
    /\ n \notin UsedIds
    /\ \A m \in InFlightTo(p) : clock[p] =< m.due
    /\ flight' = flight \cup
           {[id |-> n, from |-> p, dst |-> q, due |-> clock[p] + Latency[p][q]]}
    /\ UNCHANGED <<clock, received>>

\* p receives the message that is due first, not before it is due.
Receive(p, m) ==
    /\ m \in InFlightTo(p)
    /\ m.due =< clock[p]
    /\ \A n \in InFlightTo(p) : m.due =< n.due
    /\ flight' = flight \ {m}
    /\ received' = [received EXCEPT ![p] = Append(@, m)]
    /\ UNCHANGED clock

Next ==
    \E p \in Procs :
        \/ Advance(p)
        \/ \E q \in Procs, n \in Ids : Transmit(p, q, n)
        \/ \E m \in flight : Receive(p, m)

Spec == Init /\ [][Next]_avars
=============================================================================
