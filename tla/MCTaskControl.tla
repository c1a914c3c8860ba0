--------------------------- MODULE MCTaskControl ----------------------------
(* Two tasks for an agent with one permit that starts up to twice, over up  *)
(* to two streams whose buffer holds one event: a loop can block with an    *)
(* event in hand, two loops can compete for a queue, and a task that was    *)
(* handed over twice can wait for its own permit.                           *)
EXTENDS TaskControl
=============================================================================
