------------------------------ MODULE StartGate ------------------------------
(***************************************************************************)
(* What the start barrier promises: a gate that opens once there were as   *)
(* many arrivals as there are workers, and that a worker which has arrived *)
(* passes either because the gate opened or alone, when it stops waiting.  *)
(* A worker may come again: its new attempt is an arrival of its own, and  *)
(* to the gate as good as that of a worker that is missing.                *)
(***************************************************************************)
EXTENDS Naturals, FiniteSets

CONSTANTS Worker, Attempt

VARIABLES
    arrived,   \* the attempts of workers that have arrived
    open,      \* the start command was broadcast
    passed     \* how each worker got to its operations

gateVars == <<arrived, open, passed>>

GateInit ==
    /\ arrived = {}
    /\ open = FALSE
    /\ passed = [w \in Worker |-> "no"]

Arrive(w, a) ==
    /\ <<w, a>> \notin arrived
    /\ arrived' = arrived \cup {<<w, a>>}
    /\ UNCHANGED <<open, passed>>

Open ==
    /\ Cardinality(arrived) >= Cardinality(Worker)
    /\ ~open
    /\ open' = TRUE
    /\ UNCHANGED <<arrived, passed>>

Pass(w) ==
    /\ \E a \in Attempt : <<w, a>> \in arrived
    /\ passed[w] = "no"
    /\ \/ open /\ passed' = [passed EXCEPT ![w] = "signalled"]
       \/ passed' = [passed EXCEPT ![w] = "alone"]
    /\ UNCHANGED <<arrived, open>>

\* A worker that has passed begins again, outside the gate.
ComeBack(w) ==
    /\ passed[w] # "no"
    /\ passed' = [passed EXCEPT ![w] = "no"]
    /\ UNCHANGED <<arrived, open>>

GateNext ==
    \/ Open
    \/ \E w \in Worker : Pass(w) \/ ComeBack(w) \/ \E a \in Attempt : Arrive(w, a)

GateSpec == GateInit /\ [][GateNext]_gateVars
=============================================================================
