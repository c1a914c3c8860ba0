------------------------------ MODULE MCSwarm -------------------------------
(* Two machines, of which one may restart under a new node id, and two      *)
(* chunks whose hashes pick different candidates; batches of two, so that a *)
(* chunk can be in memory only.  One machine has a keepalive port, and the  *)
(* second chunk's hash picks its address.                                   *)
EXTENDS Swarm, TLC
CONSTANTS c1, c2, m1, m2
MCByte == (c1 :> 0) @@ (c2 :> 1)
MCAddrs == (m1 :> <<"data", "keepalive">>) @@ (m2 :> <<"data">>)
=============================================================================
