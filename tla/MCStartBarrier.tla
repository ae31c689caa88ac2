--------------------------- MODULE MCStartBarrier ---------------------------
(* Instances of StartBarrier for TLC.                                      *)
EXTENDS StartBarrier
=============================================================================
