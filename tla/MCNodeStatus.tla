---------------------------- MODULE MCNodeStatus ----------------------------
(* Nodes 1 and 2 are two runs of one machine, which is probed; node 3 has no *)
(* keepalive address.  A heartbeat is due exactly when the timeout would     *)
(* strike, and a probe takes two failures.                                   *)
EXTENDS NodeStatus, TLC
CONSTANTS a
MCAddrOf == <<a, a, NoAddr>>
MCSlot == a :> 1
=============================================================================
