------------------------------ MODULE ChunkMap ------------------------------
(***************************************************************************)
(* What a game's chunk store promises its callers, whatever file layout    *)
(* implements it: a map from chunk hash to chunk data that only ever holds *)
(* the data belonging to the hash.  A failed operation, a crash and a      *)
(* restart leave the map as it was.                                        *)
(***************************************************************************)
CONSTANTS
    Hash,           \* BLAKE3 chunk hashes
    Data(_)         \* the data a hash stands for

VARIABLE store      \* the map: a function from a subset of Hash to data

Init == store = [h \in {} |-> Data(h)]

(* append_chunk / append_chunks_batch: all of a batch, or nothing of it. *)
Put(S) ==
    store' = [h \in DOMAIN store \cup S |->
                IF h \in DOMAIN store THEN store[h] ELSE Data(h)]

(* compact: only the chunks of the live set stay. *)
Retain(live) ==
    store' = [h \in DOMAIN store \cap live |-> store[h]]

Next == \E S \in SUBSET Hash : Put(S) \/ Retain(S)

Spec == Init /\ [][Next]_store
=============================================================================
