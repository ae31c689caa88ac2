--------------------------- MODULE MCPeerScaling ---------------------------
(* Instances of PeerScaling for TLC; the jobs are named by strings.        *)
EXTENDS PeerScaling
=============================================================================
