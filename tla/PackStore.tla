----------------------------- MODULE PackStore ------------------------------
(***************************************************************************)
(* GameStore: the chunk store of one game on an origin or an IDC node.     *)
(* Chunk data is appended to one file, blocks.pack; a redb table maps each *)
(* chunk hash to its position.  Callers hold the store's mutex for a whole *)
(* operation, so operations do not interleave with each other, but a crash *)
(* or an I/O error may end one after any of its steps.                     *)
(*                                                                         *)
(* The file is a function from addresses to cells.  Cell <<h, k>> is the   *)
(* k-th unit of chunk h's data; Hole is an address never written.          *)
(***************************************************************************)
EXTENDS Integers, Sequences, Functions

CONSTANTS
    Hash,           \* chunk hashes, numbered in their byte order
    LenOf,          \* the length of the chunk that has the hash (FastCDC cuts
                    \* no empty chunk)
    OffsetSpace,    \* offsets an index value can hold: 2^32 in the code
    Capacity,       \* what the disk holds; a write beyond it fails
    Threshold,      \* garbage percentage that makes a compaction worthwhile
    Faults,         \* kinds of failure the environment produces: I/O errors,
                    \* crashes, and either of them between a compaction's
                    \* rename and its index transaction
    MaxBatch,       \* bound: chunks in one append
    MaxFaults       \* bound: failures in a behaviour

ASSUME HashAssumption == Hash \subseteq Nat
ASSUME LenAssumption == LenOf \in [Hash -> Nat \ {0}]
ASSUME OffsetSpaceAssumption == OffsetSpace \in Nat \ {0}
ASSUME CapacityAssumption == Capacity \in Nat
ASSUME ThresholdAssumption == Threshold \in Nat
ASSUME FaultsAssumption == Faults \subseteq {"io", "crash", "window"}
ASSUME BoundsAssumption == MaxBatch \in Nat /\ MaxFaults \in Nat

VARIABLES
    pack,           \* contents of blocks.pack
    flen,           \* its length
    size,           \* GameStore.size, the in-memory append position
    index,          \* redb table: hash -> stored offset
    pc,             \* step of the operation that holds the mutex
    batch,          \* append: the chunks asked for ...
    pos,            \*   ... and the next one to handle
    live,           \* compact: indexed chunks of the live set
    locs,           \* positions given so far to the operation's chunks
    cursor,         \* offset of the operation's next write
    tmp,            \* compact: contents of blocks.pack.compact
    faults          \* failures so far

jobVars == <<pc, batch, pos, live, locs, cursor, tmp>>
vars == <<pack, flen, size, index, pc, batch, pos, live, locs, cursor, tmp,
          faults>>

Hole == <<>>
Addr == 0 .. Capacity - 1
Cell == {Hole} \cup (Hash \X Nat)
Data(h) == [k \in 0 .. LenOf[h] - 1 |-> <<h, k>>]
EmptyFile == [a \in Addr |-> Hole]
NoLocs == [h \in {} |-> 0]

(* pack()/unpack(): the offset sits in the high 32 bits of a u64, so the   *)
(* shift drops what does not fit.                                          *)
StoredOffset(offset) == offset % OffsetSpace

(* write_exact_at(pack_file, data, offset), n units of it. *)
WriteAt(file, h, offset, n) ==
    [a \in Addr |-> IF a \in offset .. offset + n - 1
                    THEN <<h, a - offset>> ELSE file[a]]

(* copy_ranges, one range: n units of src at `from` to dst at `to`. *)
CopyRange(src, from, dst, to, n) ==
    [a \in Addr |-> IF a \in to .. to + n - 1
                    THEN src[from + (a - to)] ELSE dst[a]]

Longer(a, b) == IF a > b THEN a ELSE b
Bytes(S) == SumFunctionOnSet(LenOf, S)

(* read_chunk: None, an error (read past the end) or the units read. *)
Missing == <<"missing">>
ShortRead == <<"short">>
ReadAt(offset, h) ==
    IF offset + LenOf[h] <= flen
    THEN [k \in 0 .. LenOf[h] - 1 |-> pack[offset + k]]
    ELSE ShortRead
ReadChunk(h) == IF h \in DOMAIN index THEN ReadAt(index[h], h) ELSE Missing
-----------------------------------------------------------------------------
(* A fresh directory: GameStore::open creates an empty file and table. *)
Init ==
    /\ pack = EmptyFile /\ flen = 0 /\ size = 0
    /\ index = NoLocs
    /\ pc = "idle" /\ batch = <<>> /\ pos = 1 /\ live = {}
    /\ locs = NoLocs /\ cursor = 0 /\ tmp = EmptyFile
    /\ faults = 0

(* The operation returns (or the process dies): its locals are gone. *)
EndOp(next) ==
    /\ pc' = next
    /\ batch' = <<>> /\ pos' = 1 /\ live' = {} /\ locs' = NoLocs
    /\ cursor' = 0 /\ tmp' = EmptyFile

Fault(kind) ==
    /\ kind \in Faults
    /\ faults < MaxFaults
    /\ faults' = faults + 1

(***************************************************************************)
(* append_chunks_batch; append_chunk is the batch of one.                  *)
(***************************************************************************)
AppendStart(chunks) ==
    /\ pc = "idle"
    /\ pc' = "writing" /\ batch' = chunks /\ pos' = 1 /\ cursor' = size
    /\ UNCHANGED <<pack, flen, size, index, live, locs, tmp, faults>>

Current == batch[pos]
Writing == pc = "writing" /\ pos \in 1 .. Len(batch)
Duplicate_IndexOnly == Current \in DOMAIN index   \* mutant: not within the batch
Duplicate == Current \in DOMAIN index \cup DOMAIN locs

(* The hash is indexed, or occurred earlier in the batch. *)
AppendSkip ==
    /\ Writing /\ Duplicate
    /\ pos' = pos + 1
    /\ UNCHANGED <<pack, flen, size, index, pc, batch, live, locs, cursor, tmp,
                   faults>>

AppendWrite ==
    /\ Writing /\ ~Duplicate
    /\ cursor + LenOf[Current] <= Capacity
    /\ pack' = WriteAt(pack, Current, cursor, LenOf[Current])
    /\ flen' = Longer(flen, cursor + LenOf[Current])
    /\ locs' = [h \in DOMAIN locs \cup {Current} |->
                    IF h = Current THEN cursor ELSE locs[h]]
    /\ cursor' = cursor + LenOf[Current]
    /\ pos' = pos + 1
    /\ UNCHANGED <<size, index, pc, batch, live, tmp, faults>>

(* write_exact_at fails after n units, for want of space or otherwise; the *)
(* in-memory size stays behind what the file holds.                        *)
AppendWriteFail(n) ==
    /\ Writing /\ ~Duplicate
    /\ n < LenOf[Current] /\ cursor + n <= Capacity
    /\ \/ cursor + LenOf[Current] > Capacity /\ UNCHANGED faults
       \/ Fault("io")
    /\ pack' = WriteAt(pack, Current, cursor, n)
    /\ flen' = Longer(flen, cursor + n)
    /\ EndOp("idle")
    /\ UNCHANGED <<size, index>>

AppendDone == pc = "writing" /\ pos > Len(batch)

(* size = offset, then one redb transaction with all new positions. *)
AppendCommit ==
    /\ AppendDone
    /\ size' = cursor
    /\ index' = [h \in DOMAIN index \cup DOMAIN locs |->
                    IF h \in DOMAIN index THEN index[h]
                    ELSE StoredOffset(locs[h])]
    /\ EndOp("idle")
    /\ UNCHANGED <<pack, flen, faults>>

AppendCommitFail ==
    /\ AppendDone /\ DOMAIN locs # {} /\ Fault("io")
    /\ size' = cursor
    /\ EndOp("idle")
    /\ UNCHANGED <<pack, flen, index>>

(***************************************************************************)
(* compact(live, threshold, available_space).  A call that returns false,  *)
(* below the threshold or because the caller offers too little space,      *)
(* changes nothing; CompactStart is a call that goes on.                   *)
(***************************************************************************)
WorthCompacting(keep) ==
    /\ size > 0
    /\ (size - Bytes(keep)) * 100 >= Threshold * size

(* Mutant: live hashes are not looked up in the index. *)
CompactStart_Unfiltered(wanted) ==
    /\ pc = "idle"
    /\ WorthCompacting(wanted \cap DOMAIN index)
    /\ pc' = "copying" /\ live' = wanted
    /\ UNCHANGED <<pack, flen, size, index, batch, pos, locs, cursor, tmp,
                   faults>>

CompactStart(wanted) ==
    LET keep == wanted \cap DOMAIN index IN
    /\ pc = "idle"
    /\ WorthCompacting(keep)
    /\ pc' = "copying" /\ live' = keep
    /\ UNCHANGED <<pack, flen, size, index, batch, pos, locs, cursor, tmp,
                   faults>>

(* live_locations is sorted: the smallest hash not copied yet is next. *)
NextLive(h) ==
    /\ h \in live \ DOMAIN locs
    /\ \A g \in live \ DOMAIN locs : h <= g

CompactCopy(h) ==
    /\ pc = "copying" /\ NextLive(h)
    /\ index[h] + LenOf[h] <= flen /\ cursor + LenOf[h] <= Capacity
    /\ tmp' = CopyRange(pack, index[h], tmp, cursor, LenOf[h])
    /\ locs' = [g \in DOMAIN locs \cup {h} |-> IF g = h THEN cursor ELSE locs[g]]
    /\ cursor' = cursor + LenOf[h]
    /\ UNCHANGED <<pack, flen, size, index, pc, batch, pos, live, faults>>

(* ensure_copy_size, rename over blocks.pack, reopen, size = new_offset. *)
CompactRename ==
    /\ pc = "copying" /\ live \subseteq DOMAIN locs
    /\ cursor = Bytes(live)
    /\ pack' = tmp /\ flen' = cursor /\ size' = cursor
    /\ pc' = "renamed"
    /\ UNCHANGED <<index, batch, pos, live, locs, cursor, tmp, faults>>

(* Mutant: the entries of chunks that are not live stay. *)
CompactCommit_KeepDead ==
    /\ pc = "renamed"
    /\ index' = [h \in DOMAIN index \cup DOMAIN locs |->
                    IF h \in DOMAIN locs THEN StoredOffset(locs[h])
                    ELSE index[h]]
    /\ EndOp("idle")
    /\ UNCHANGED <<pack, flen, size, faults>>

(* One redb transaction: every entry removed, the new positions inserted. *)
CompactCommit ==
    /\ pc = "renamed"
    /\ index' = [h \in DOMAIN locs |-> StoredOffset(locs[h])]
    /\ EndOp("idle")
    /\ UNCHANGED <<pack, flen, size, faults>>

(* Any error ends the compaction.  Before the rename it leaves the         *)
(* temporary file behind, which the next compaction truncates; after the   *)
(* rename it is the index transaction that fails, and the new file stays   *)
(* in place.                                                               *)
CompactFail ==
    /\ pc \in {"copying", "renamed"}
    /\ Fault(IF pc = "renamed" THEN "window" ELSE "io")
    /\ EndOp("idle")
    /\ UNCHANGED <<pack, flen, size, index>>

(***************************************************************************)
(* The process dies; GameStore::open takes the size from the file.         *)
(***************************************************************************)
Crash ==
    /\ pc \in {"idle", "writing", "copying", "renamed"}
    /\ Fault(IF pc = "renamed" THEN "window" ELSE "crash")
    /\ size' = 0
    /\ EndOp("down")
    /\ UNCHANGED <<pack, flen, index>>

(* Mutant: the append position is computed from the index. *)
Open_SizeFromIndex ==
    /\ pc = "down"
    /\ size' = Bytes(DOMAIN index) /\ pc' = "idle"
    /\ UNCHANGED <<pack, flen, index, batch, pos, live, locs, cursor, tmp,
                   faults>>

Open ==
    /\ pc = "down"
    /\ size' = flen /\ pc' = "idle"
    /\ UNCHANGED <<pack, flen, index, batch, pos, live, locs, cursor, tmp,
                   faults>>
-----------------------------------------------------------------------------
Batches == UNION {[1 .. n -> Hash] : n \in 1 .. MaxBatch}

Next ==
    \/ \E chunks \in Batches : AppendStart(chunks)
    \/ AppendSkip
    \/ AppendWrite
    \/ \E n \in 0 .. Capacity : AppendWriteFail(n)
    \/ AppendCommit
    \/ AppendCommitFail
    \/ \E wanted \in SUBSET Hash : CompactStart(wanted)
    \/ \E h \in Hash : CompactCopy(h)
    \/ CompactFail
    \/ CompactRename
    \/ CompactCommit
    \/ Crash
    \/ Open

Spec == Init /\ [][Next]_vars
-----------------------------------------------------------------------------
(* Type invariant. *)
TypeOK ==
    /\ pack \in [Addr -> Cell] /\ tmp \in [Addr -> Cell]
    /\ flen \in 0 .. Capacity /\ size \in 0 .. Capacity
    /\ cursor \in 0 .. Capacity
    /\ index \in [DOMAIN index -> 0 .. OffsetSpace - 1]
    /\ DOMAIN index \subseteq Hash
    /\ locs \in [DOMAIN locs -> 0 .. Capacity] /\ DOMAIN locs \subseteq Hash
    /\ pc \in {"idle", "writing", "copying", "renamed", "down"}
    /\ batch \in Seq(Hash) /\ pos \in 1 .. Len(batch) + 1
    /\ live \subseteq DOMAIN index
    /\ faults \in 0 .. MaxFaults

(* Every chunk the index knows reads back as its own data, whenever a      *)
(* reader can get the mutex or the node restarts: after failed appends     *)
(* whose debris is overwritten, after crashes that leave an unindexed      *)
(* tail, after compactions.                                                *)
IndexedReadable ==
    pc \in {"idle", "down"} =>
        \A h \in DOMAIN index : ReadChunk(h) = Data(h)

(* The inductive strengthening.  A mutex holder's intermediate states      *)
(* matter: an append only writes at and above size, below which everything *)
(* indexed lies; a compaction only writes its own file.                    *)
Holds(file, offset, h) ==
    \A k \in 0 .. LenOf[h] - 1 : file[offset + k] = <<h, k>>
Placed(file, low) ==
    \A h \in DOMAIN locs : /\ low <= locs[h] /\ locs[h] + LenOf[h] <= cursor
                           /\ Holds(file, locs[h], h)
Appended == IF pc = "down" THEN flen ELSE size
IndexInv ==
    pc # "renamed" =>
        \A h \in DOMAIN index : /\ index[h] + LenOf[h] <= Appended
                                /\ Holds(pack, index[h], h)
JobInv ==
    /\ pc \in {"idle", "down"} => DOMAIN locs = {} /\ cursor = 0
    /\ pc = "writing" => size <= cursor /\ cursor <= flen /\ Placed(pack, size)
    /\ pc = "copying" => Placed(tmp, 0)
    /\ pc \in {"copying", "renamed"} => DOMAIN locs \subseteq live
    /\ pc = "renamed" => size = cursor /\ flen = cursor /\ Placed(pack, 0)
StoreInv == size <= flen /\ IndexInv /\ JobInv

(* Space accounting: the file never claims less than what is indexed, and  *)
(* as long as nothing has failed deduplication leaves no garbage before a  *)
(* compaction and compaction none after it.                                *)
SpaceAccounted ==
    pc = "idle" =>
        /\ size >= Bytes(DOMAIN index)
        /\ faults = 0 => size = Bytes(DOMAIN index)

(* The store implements the map.  A compaction takes effect at the rename, *)
(* from which the new positions describe the file.                         *)
Positions == IF pc = "renamed" THEN locs ELSE index
Contents == [h \in DOMAIN Positions |-> ReadAt(Positions[h], h)]
Map == INSTANCE ChunkMap WITH store <- Contents
ImplementsChunkMap == Map!Spec
=============================================================================
