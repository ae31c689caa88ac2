--------------------------- MODULE MCProfileFeed ---------------------------
(* Instances of ProfileFeed for TLC; the peers are named by strings.       *)
EXTENDS ProfileFeed
=============================================================================
