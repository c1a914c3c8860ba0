---------------------------- MODULE MCPackStore -----------------------------
(* Three chunks of lengths 1, 2 and 1 on a disk of six units: a batch can   *)
(* run out of space after its first chunk, and a failed batch's debris is   *)
(* longer than the append that overwrites it.                               *)
EXTENDS PackStore
MCLenOf == [h \in Hash |-> IF h = 2 THEN 2 ELSE 1]
=============================================================================
