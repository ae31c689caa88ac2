-------------------------- MODULE MCChaincodeServer --------------------------
(* Instances of ChaincodeServer for TLC.                                   *)
EXTENDS ChaincodeServer

CONSTANTS c1, c2, s1, s2    \* model values
=============================================================================
