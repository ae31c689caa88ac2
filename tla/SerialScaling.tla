---------------------------- MODULE SerialScaling ----------------------------
(***************************************************************************)
(* What the scale jobs promise: scaling events are serial.  At most one    *)
(* event is under way, the peers of the network change only inside an      *)
(* event, and one event makes one change.                                  *)
(***************************************************************************)
CONSTANT Job

VARIABLES
    topology,   \* the peers of the network
    active,     \* the jobs with a scaling event under way
    changed     \* the event under way has made its change

serialVars == <<topology, active, changed>>

SerialInit ==
    /\ active = {}
    /\ changed = FALSE

Begin(j) ==
    /\ active = {}
    /\ active' = {j}
    /\ UNCHANGED <<topology, changed>>

Change(j) ==
    /\ active = {j}
    /\ ~changed
    /\ changed' = TRUE
    /\ UNCHANGED active

End(j) ==
    /\ active = {j}
    /\ active' = {}
    /\ changed' = FALSE
    /\ UNCHANGED topology

SerialNext == \E j \in Job : Begin(j) \/ Change(j) \/ End(j)

SerialSpec == SerialInit /\ [][SerialNext]_serialVars
=============================================================================
