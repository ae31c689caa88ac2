------------------------- MODULE MCExperimentLedger -------------------------
(* Instances of ExperimentLedger for TLC.                                  *)
EXTENDS ExperimentLedger

CONSTANTS w1, w2, p1, p2    \* model values

\* All pods of the Job read the same simi.yaml, and the chart's has no Id.
OneKey == [w \in Worker |-> ""]

\* Workers and peers are interchangeable: they differ in nothing but their
\* identity, and every property is a state invariant.
Symmetry == Permutations(Worker) \cup Permutations(Peer)
=============================================================================
