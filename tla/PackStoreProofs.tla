-------------------------- MODULE PackStoreProofs ---------------------------
(***************************************************************************)
(* Proofs about PackStore for every set of hashes, chunk lengths, disk     *)
(* capacity, batch size and number of failures: type correctness, reads,   *)
(* the refinement of ChunkMap, and the accounting of space.                *)
(***************************************************************************)
EXTENDS PackStore, FiniteSetTheorems, WellFoundedInduction, TLAPS

(* The two conditions under which the index is right: every offset fits    *)
(* the 32 bits it is stored in, and no failure falls between a             *)
(* compaction's rename and its index transaction.                          *)
Fits == Capacity <= OffsetSpace
NoWindow == "window" \notin Faults

-----------------------------------------------------------------------------
(* What % yields, in the two forms StoredOffset needs. *)
LEMMA ModRange ==
    ASSUME NEW x \in Nat, NEW y \in Nat \ {0}
    PROVE  x % y \in 0 .. y - 1
OBVIOUS

LEMMA ModSmall ==
    ASSUME NEW x \in Nat, NEW y \in Nat \ {0}, x < y
    PROVE  x % y = x
OBVIOUS

(* A write of one chunk yields a file and touches only its own range. *)
LEMMA WriteAtType ==
    ASSUME NEW file \in [Addr -> Cell], NEW h \in Hash, NEW offset \in Nat,
           NEW n \in Nat
    PROVE  WriteAt(file, h, offset, n) \in [Addr -> Cell]
BY CapacityAssumption DEF WriteAt, Addr, Cell

LEMMA CopyRangeType ==
    ASSUME NEW src \in [Addr -> Cell], NEW dst \in [Addr -> Cell],
           NEW from \in Nat, NEW to \in Nat, NEW n \in Nat,
           from + n <= Capacity
    PROVE  CopyRange(src, from, dst, to, n) \in [Addr -> Cell]
BY CapacityAssumption DEF CopyRange, Addr

LEMMA EmptyFileType == EmptyFile \in [Addr -> Cell]
BY DEF EmptyFile, Cell
-----------------------------------------------------------------------------
(* TypeOK restated over the job's locals after EndOp. *)
LEMMA EndOpType ==
    ASSUME NEW next \in {"idle", "down"}, EndOp(next)
    PROVE  /\ tmp' \in [Addr -> Cell] /\ cursor' \in 0 .. Capacity
           /\ locs' \in [DOMAIN locs' -> 0 .. Capacity] /\ DOMAIN locs' \subseteq Hash
           /\ pc' \in {"idle", "writing", "copying", "renamed", "down"}
           /\ batch' \in Seq(Hash) /\ pos' \in 1 .. Len(batch') + 1
           /\ live' = {}
BY EmptyFileType, CapacityAssumption DEF EndOp, NoLocs

(* Every step keeps the types: in particular no write or copy leaves the   *)
(* disk's capacity and no stored offset leaves OffsetSpace.                *)
LEMMA TypeStep == TypeOK /\ [Next]_vars => TypeOK'
<1> SUFFICES ASSUME TypeOK, [Next]_vars PROVE TypeOK'
    OBVIOUS
<1> USE CapacityAssumption, LenAssumption, OffsetSpaceAssumption, BoundsAssumption
<1>1. ASSUME NEW chunks \in Batches, AppendStart(chunks) PROVE TypeOK'
    <2>1. chunks \in Seq(Hash) BY DEF Batches
    <2> QED BY SMTT(30), <1>1, <2>1 DEF AppendStart, TypeOK
<1>2. CASE AppendSkip
    <2>1. pos' \in 1 .. Len(batch) + 1
        BY SMTT(30), <1>2 DEF AppendSkip, Writing, TypeOK
    <2> QED BY <1>2, <2>1 DEF AppendSkip, TypeOK
<1>3. CASE AppendWrite
    <2>1. Current \in Hash BY <1>3 DEF AppendWrite, Writing, Current, TypeOK
    <2>2. pack' \in [Addr -> Cell]
        <3>1. cursor \in Nat /\ LenOf[Current] \in Nat BY <2>1 DEF TypeOK
        <3> QED BY <1>3, <2>1, <3>1, WriteAtType DEF AppendWrite, TypeOK
    <2>3. pos' \in 1 .. Len(batch) + 1
        BY SMTT(30), <1>3 DEF AppendWrite, Writing, TypeOK
    <2>4. LenOf[Current] \in Nat BY <2>1
    <2>5. flen' \in 0 .. Capacity /\ cursor' \in 0 .. Capacity
        BY SMTT(30), <1>3, <2>4 DEF AppendWrite, Longer, TypeOK
    <2>6. locs' \in [DOMAIN locs' -> 0 .. Capacity] /\ DOMAIN locs' \subseteq Hash
        BY <1>3, <2>1 DEF AppendWrite, TypeOK
    <2> QED BY <1>3, <2>2, <2>3, <2>5, <2>6 DEF AppendWrite, TypeOK
<1>4. ASSUME NEW n \in 0 .. Capacity, AppendWriteFail(n) PROVE TypeOK'
    <2>1. Current \in Hash BY <1>4 DEF AppendWriteFail, Writing, Current, TypeOK
    <2>2. pack' \in [Addr -> Cell]
        BY SMTT(30), <1>4, <2>1, WriteAtType DEF AppendWriteFail, TypeOK
    <2>3. faults' \in 0 .. MaxFaults /\ flen' \in 0 .. Capacity
        BY SMTT(30), <1>4, <2>1 DEF AppendWriteFail, Fault, Longer, TypeOK
    <2> QED BY <1>4, <2>2, <2>3, EndOpType DEF AppendWriteFail, TypeOK
<1>5. CASE AppendCommit
    <2>1. \A h \in DOMAIN locs : StoredOffset(locs[h]) \in 0 .. OffsetSpace - 1
        BY <1>5, ModRange DEF StoredOffset, TypeOK
    <2> QED BY <1>5, <2>1, EndOpType DEF AppendCommit, TypeOK
<1>6. CASE AppendCommitFail
    <2>1. faults' \in 0 .. MaxFaults BY <1>6 DEF AppendCommitFail, Fault, TypeOK
    <2> QED BY <1>6, <2>1, EndOpType DEF AppendCommitFail, TypeOK
<1>7. ASSUME NEW wanted \in SUBSET Hash, CompactStart(wanted) PROVE TypeOK'
    BY <1>7 DEF CompactStart, TypeOK
<1>8. ASSUME NEW h \in Hash, CompactCopy(h) PROVE TypeOK'
    <2>2. cursor' \in 0 .. Capacity BY SMTT(30), <1>8 DEF CompactCopy, TypeOK
    <2>3. locs' \in [DOMAIN locs' -> 0 .. Capacity] /\ DOMAIN locs' \subseteq Hash
        BY <1>8 DEF CompactCopy, TypeOK
    <2>4. tmp' \in [Addr -> Cell]
        <3>1. h \in DOMAIN index /\ cursor \in Nat /\ LenOf[h] \in Nat
            BY <1>8 DEF CompactCopy, NextLive, TypeOK
        <3>2. index[h] \in Nat /\ index[h] + LenOf[h] <= Capacity
            BY SMTT(30), <1>8, <3>1 DEF CompactCopy, TypeOK
        <3> QED BY <1>8, <3>1, <3>2, CopyRangeType DEF CompactCopy, TypeOK
    <2> QED BY <1>8, <2>2, <2>3, <2>4 DEF CompactCopy, TypeOK
<1>9. CASE CompactFail
    <2>1. faults' \in 0 .. MaxFaults BY <1>9 DEF CompactFail, Fault, TypeOK
    <2> QED BY <1>9, <2>1, EndOpType DEF CompactFail, TypeOK
<1>10. CASE CompactRename
    BY <1>10 DEF CompactRename, TypeOK
<1>11. CASE CompactCommit
    <2>1. \A h \in DOMAIN locs : StoredOffset(locs[h]) \in 0 .. OffsetSpace - 1
        BY <1>11, ModRange DEF StoredOffset, TypeOK
    <2> QED BY <1>11, <2>1, EndOpType DEF CompactCommit, TypeOK
<1>12. CASE Crash
    <2>1. faults' \in 0 .. MaxFaults BY <1>12 DEF Crash, Fault, TypeOK
    <2>2. EndOp("down") /\ size' \in 0 .. Capacity BY <1>12 DEF Crash
    <2> QED BY <1>12, <2>1, <2>2, EndOpType DEF Crash, TypeOK
<1>13. CASE Open
    BY <1>13 DEF Open, TypeOK
<1>14. CASE UNCHANGED vars
    BY <1>14 DEF vars, TypeOK
<1> QED
    BY <1>1, <1>2, <1>3, <1>4, <1>5, <1>6, <1>7, <1>8, <1>9, <1>10, <1>11,
       <1>12, <1>13, <1>14 DEF Next

(* Type correctness of GameStore's state. *)
THEOREM TypeCorrect == Spec => []TypeOK
<1>1. Init => TypeOK
    BY EmptyFileType, CapacityAssumption, OffsetSpaceAssumption, BoundsAssumption
    DEF Init, TypeOK, NoLocs
<1> QED BY <1>1, TypeStep, PTL DEF Spec
-----------------------------------------------------------------------------
(* A file that agrees with another below `limit` holds every chunk that    *)
(* the other holds there.                                                  *)
LEMMA HoldsKept ==
    ASSUME NEW f, NEW g, NEW h \in Hash, NEW offset \in Nat, NEW limit \in Nat,
           Holds(f, offset, h), offset + LenOf[h] <= limit,
           \A a \in 0 .. limit - 1 : g[a] = f[a]
    PROVE  Holds(g, offset, h)
BY LenAssumption DEF Holds

LEMMA WriteAtKeeps ==
    ASSUME NEW f, NEW h \in Hash, NEW offset \in 0 .. Capacity, NEW n \in Nat
    PROVE  \A a \in 0 .. offset - 1 : WriteAt(f, h, offset, n)[a] = f[a]
BY CapacityAssumption DEF WriteAt, Addr

LEMMA WriteAtHolds ==
    ASSUME NEW f, NEW h \in Hash, NEW offset \in Nat,
           offset + LenOf[h] <= Capacity
    PROVE  Holds(WriteAt(f, h, offset, LenOf[h]), offset, h)
BY CapacityAssumption, LenAssumption DEF WriteAt, Addr, Holds

LEMMA CopyRangeKeeps ==
    ASSUME NEW src, NEW dst, NEW from \in Nat, NEW to \in 0 .. Capacity,
           NEW n \in Nat
    PROVE  \A a \in 0 .. to - 1 : CopyRange(src, from, dst, to, n)[a] = dst[a]
BY CapacityAssumption DEF CopyRange, Addr

LEMMA CopyRangeHolds ==
    ASSUME NEW src, NEW dst, NEW h \in Hash, NEW from \in Nat, NEW to \in Nat,
           to + LenOf[h] <= Capacity, Holds(src, from, h)
    PROVE  Holds(CopyRange(src, from, dst, to, LenOf[h]), to, h)
<1> SUFFICES ASSUME NEW k \in 0 .. LenOf[h] - 1
             PROVE  CopyRange(src, from, dst, to, LenOf[h])[to + k] = <<h, k>>
    BY DEF Holds
<1>1. to + k \in Addr /\ to + k \in to .. to + LenOf[h] - 1
    BY CapacityAssumption, LenAssumption DEF Addr
<1>2. CopyRange(src, from, dst, to, LenOf[h])[to + k] = src[from + ((to + k) - to)]
    BY <1>1 DEF CopyRange
<1>3. (to + k) - to = k BY LenAssumption
<1> QED BY <1>2, <1>3 DEF Holds

(* An offset that fits is stored as it is. *)
LEMMA StoredOffsetFits ==
    ASSUME Fits, NEW offset \in Nat, offset < Capacity
    PROVE  StoredOffset(offset) = offset
BY ModSmall, CapacityAssumption, OffsetSpaceAssumption DEF StoredOffset, Fits
-----------------------------------------------------------------------------
(* An operation that ends leaves no job; only the index is left to check. *)
LEMMA EndOpJob ==
    ASSUME NEW next \in {"idle", "down"}, EndOp(next)
    PROVE  JobInv'
BY DEF EndOp, NoLocs, JobInv

(* The file keeps what is indexed when it is only written at and above     *)
(* the cursor of an append.                                                *)
LEMMA AppendKeepsIndexed ==
    ASSUME TypeOK, StoreInv, pc = "writing", NEW h \in Hash, NEW n \in Nat,
           pack' = WriteAt(pack, h, cursor, n),
           NEW g \in DOMAIN index
    PROVE  Holds(pack', index[g], g)
<1>1. g \in Hash /\ index[g] \in Nat /\ cursor \in 0 .. Capacity /\ size \in Nat
      /\ cursor \in Nat
    BY OffsetSpaceAssumption, CapacityAssumption DEF TypeOK
<1>2. Holds(pack, index[g], g) /\ index[g] + LenOf[g] <= size /\ size <= cursor
    BY DEF StoreInv, IndexInv, JobInv, Appended
<1>3. index[g] + LenOf[g] <= cursor
    BY <1>1, <1>2, LenAssumption
<1>4. \A a \in 0 .. cursor - 1 : pack'[a] = pack[a]
    BY <1>1, WriteAtKeeps
<1> QED BY <1>1, <1>2, <1>3, <1>4, HoldsKept

LEMMA StoreStep ==
    ASSUME Fits, NoWindow
    PROVE  TypeOK /\ StoreInv /\ [Next]_vars => StoreInv'
<1> SUFFICES ASSUME TypeOK, StoreInv, [Next]_vars PROVE StoreInv'
    OBVIOUS
<1> USE CapacityAssumption, LenAssumption, OffsetSpaceAssumption
<1>1. ASSUME NEW chunks \in Batches, AppendStart(chunks) PROVE StoreInv'
    BY <1>1 DEF AppendStart, TypeOK, StoreInv, IndexInv, JobInv, Appended, Placed
<1>2. CASE AppendSkip
    BY <1>2 DEF AppendSkip, Writing, StoreInv, IndexInv, JobInv, Appended, Placed
<1>3. CASE AppendWrite
    <2>1. /\ Current \in Hash /\ LenOf[Current] \in Nat \ {0}
          /\ pc = "writing" /\ pc' = "writing" /\ size' = size /\ index' = index
          /\ cursor \in 0 .. Capacity /\ cursor + LenOf[Current] <= Capacity
          /\ cursor' = cursor + LenOf[Current]
          /\ size \in Nat /\ flen \in Nat /\ cursor \in Nat /\ LenOf[Current] \in Nat
        BY <1>3 DEF AppendWrite, Writing, Current, TypeOK
    <2>2. size <= cursor /\ cursor <= flen /\ Placed(pack, size)
        BY <2>1 DEF StoreInv, JobInv
    <2>3. pack' = WriteAt(pack, Current, cursor, LenOf[Current])
          /\ flen' = Longer(flen, cursor + LenOf[Current])
          /\ locs' = [h \in DOMAIN locs \cup {Current} |->
                        IF h = Current THEN cursor ELSE locs[h]]
        BY <1>3 DEF AppendWrite
    <2>4. size' <= flen' /\ size' <= cursor' /\ cursor' <= flen'
        BY <2>1, <2>2, <2>3 DEF Longer
    <2>5. IndexInv'
        <3>1. \A g \in DOMAIN index : Holds(pack', index[g], g)
            BY <2>1, <2>3, AppendKeepsIndexed
        <3> QED BY <2>1, <3>1 DEF StoreInv, IndexInv, Appended, Holds
    <2>6. ASSUME NEW h \in DOMAIN locs'
          PROVE  /\ size' <= locs'[h] /\ locs'[h] + LenOf[h] <= cursor'
                 /\ Holds(pack', locs'[h], h)
        <3>1. CASE h = Current
            <4>1. locs'[h] = cursor BY <3>1, <2>3
            <4> QED BY <3>1, <4>1, <2>1, <2>2, <2>3, WriteAtHolds
        <3>2. CASE h # Current
            <4>1. h \in DOMAIN locs /\ locs'[h] = locs[h] BY <3>2, <2>3
            <4>2. h \in Hash /\ locs[h] \in Nat BY <4>1 DEF TypeOK
            <4>3. size <= locs[h] /\ locs[h] + LenOf[h] <= cursor /\ Holds(pack, locs[h], h)
                BY <4>1, <2>2 DEF Placed
            <4>4. \A a \in 0 .. cursor - 1 : pack'[a] = pack[a]
                <5>1. \A a \in 0 .. cursor - 1 :
                        WriteAt(pack, Current, cursor, LenOf[Current])[a] = pack[a]
                    BY <2>1, WriteAtKeeps
                <5>2. pack' = WriteAt(pack, Current, cursor, LenOf[Current]) BY <2>3
                <5> QED BY <5>1, <5>2
            <4>5. Holds(pack', locs[h], h)
                <5>1. cursor \in Nat BY <2>1
                <5> QED BY <4>2, <4>3, <4>4, <5>1, HoldsKept
            <4> QED BY <4>1, <4>2, <4>3, <4>5, <2>1
        <3> QED BY <3>1, <3>2
    <2>7. Placed(pack, size)'
        BY <2>6 DEF Placed, Holds
    <2> QED BY <2>1, <2>4, <2>5, <2>7 DEF StoreInv, JobInv
<1>4. ASSUME NEW n \in 0 .. Capacity, AppendWriteFail(n) PROVE StoreInv'
    <2>1. /\ Current \in Hash /\ pc = "writing" /\ pc' = "idle"
          /\ size' = size /\ index' = index
          /\ cursor \in Nat /\ size \in Nat /\ flen \in Nat
          /\ size <= flen
        BY <1>4 DEF AppendWriteFail, Writing, Current, EndOp, TypeOK, StoreInv
    <2>2. pack' = WriteAt(pack, Current, cursor, n) /\ flen' = Longer(flen, cursor + n)
          /\ EndOp("idle")
        BY <1>4 DEF AppendWriteFail
    <2>3. \A g \in DOMAIN index : Holds(pack', index[g], g)
        BY <2>1, <2>2, AppendKeepsIndexed
    <2>4. IndexInv'
        BY <2>1, <2>3 DEF StoreInv, IndexInv, Appended, Holds
    <2>5. size' <= flen' BY <2>1, <2>2 DEF Longer
    <2> QED BY <2>2, <2>4, <2>5, EndOpJob DEF StoreInv
<1>5. CASE AppendCommit
    <2>1. /\ pc = "writing" /\ pc' = "idle" /\ EndOp("idle")
          /\ size' = cursor /\ flen' = flen /\ pack' = pack
          /\ index' = [h \in DOMAIN index \cup DOMAIN locs |->
                    IF h \in DOMAIN index THEN index[h] ELSE StoredOffset(locs[h])]
        BY <1>5 DEF AppendCommit, AppendDone, EndOp
    <2>2. size <= cursor /\ cursor <= flen /\ Placed(pack, size)
        BY <2>1 DEF StoreInv, JobInv
    <2>3. ASSUME NEW h \in DOMAIN index'
          PROVE  index'[h] + LenOf[h] <= cursor /\ Holds(pack, index'[h], h)
        <3>1. CASE h \in DOMAIN index
            <4>1. index'[h] = index[h] /\ index[h] + LenOf[h] <= size
                  /\ Holds(pack, index[h], h)
                BY <3>1, <2>1 DEF StoreInv, IndexInv, Appended
            <4> QED BY <3>1, <4>1, <2>2 DEF TypeOK
        <3>2. CASE h \notin DOMAIN index
            <4>1. h \in DOMAIN locs /\ h \in Hash /\ locs[h] \in Nat
                BY <3>2, <2>1 DEF TypeOK
            <4>2. locs[h] + LenOf[h] <= cursor /\ Holds(pack, locs[h], h)
                BY <4>1, <2>2 DEF Placed
            <4>3. locs[h] < Capacity
                BY <4>1, <4>2 DEF TypeOK
            <4>4. index'[h] = locs[h]
                BY <3>2, <4>1, <4>3, <2>1, StoredOffsetFits
            <4> QED BY <4>2, <4>4
        <3> QED BY <3>1, <3>2
    <2>4. IndexInv'
        BY <2>1, <2>3 DEF IndexInv, Appended, Holds
    <2> QED BY <2>1, <2>2, <2>4, EndOpJob DEF StoreInv
<1>6. CASE AppendCommitFail
    <2>1. /\ pc = "writing" /\ pc' = "idle" /\ EndOp("idle") /\ size' = cursor
          /\ flen' = flen /\ pack' = pack /\ index' = index
        BY <1>6 DEF AppendCommitFail, AppendDone, EndOp
    <2>2. size <= cursor /\ cursor <= flen
        BY <2>1 DEF StoreInv, JobInv
    <2>3. \A h \in DOMAIN index : index[h] \in Nat /\ LenOf[h] \in Nat
        BY DEF TypeOK
    <2>4. IndexInv'
        BY SMTT(30), <2>1, <2>2, <2>3 DEF TypeOK, StoreInv, IndexInv, Appended, Holds
    <2> QED BY <2>1, <2>2, <2>4, EndOpJob DEF StoreInv
<1>7. ASSUME NEW wanted \in SUBSET Hash, CompactStart(wanted) PROVE StoreInv'
    BY <1>7 DEF CompactStart, StoreInv, IndexInv, JobInv, Appended, Placed
<1>8. ASSUME NEW h \in Hash, CompactCopy(h) PROVE StoreInv'
    <2>1. /\ pc = "copying" /\ pc' = "copying"
          /\ size' = size /\ flen' = flen /\ pack' = pack /\ index' = index
          /\ tmp' = CopyRange(pack, index[h], tmp, cursor, LenOf[h])
          /\ locs' = [g \in DOMAIN locs \cup {h} |-> IF g = h THEN cursor ELSE locs[g]]
          /\ cursor' = cursor + LenOf[h]
          /\ cursor + LenOf[h] <= Capacity
          /\ LenOf[h] \in Nat \ {0} /\ cursor \in 0 .. Capacity
          /\ LenOf[h] \in Nat /\ cursor \in Nat
        BY <1>8 DEF CompactCopy, TypeOK
    <2>2. h \in DOMAIN index /\ index[h] \in Nat
        BY <1>8 DEF CompactCopy, NextLive, TypeOK
    <2>3. Holds(pack, index[h], h) /\ Placed(tmp, 0)
        BY <2>1, <2>2 DEF StoreInv, IndexInv, JobInv
    <2>4. ASSUME NEW g \in DOMAIN locs'
          PROVE  /\ 0 <= locs'[g] /\ locs'[g] + LenOf[g] <= cursor'
                 /\ Holds(tmp', locs'[g], g)
        <3>1. CASE g = h
            BY <3>1, <2>1, <2>2, <2>3, CopyRangeHolds
        <3>2. CASE g # h
            <4>1. g \in DOMAIN locs /\ locs'[g] = locs[g] BY <3>2, <2>1
            <4>2. g \in Hash /\ locs[g] \in Nat BY <4>1 DEF TypeOK
            <4>3. locs[g] + LenOf[g] <= cursor /\ Holds(tmp, locs[g], g)
                BY <4>1, <2>3 DEF Placed
            <4>4. \A a \in 0 .. cursor - 1 : tmp'[a] = tmp[a]
                <5>1. \A a \in 0 .. cursor - 1 :
                        CopyRange(pack, index[h], tmp, cursor, LenOf[h])[a] = tmp[a]
                    BY <2>1, <2>2, CopyRangeKeeps
                <5>2. tmp' = CopyRange(pack, index[h], tmp, cursor, LenOf[h]) BY <2>1
                <5> QED BY <5>1, <5>2
            <4>5. Holds(tmp', locs[g], g)
                <5>1. cursor \in Nat BY <2>1
                <5> QED BY <4>2, <4>3, <4>4, <5>1, HoldsKept
            <4> QED BY <4>1, <4>2, <4>3, <4>5, <2>1
        <3> QED BY <3>1, <3>2
    <2>5. Placed(tmp, 0)' BY <2>4 DEF Placed, Holds
    <2>6. IndexInv' BY <2>1 DEF StoreInv, IndexInv, Appended, Holds
    <2>7. DOMAIN locs' \subseteq live'
        BY <1>8, <2>1 DEF CompactCopy, NextLive, StoreInv, JobInv
    <2> QED BY <2>1, <2>5, <2>6, <2>7 DEF StoreInv, JobInv
<1>9. CASE CompactFail
    <2>1. /\ pc = "copying" /\ pc' = "idle" /\ EndOp("idle")
          /\ size' = size /\ flen' = flen /\ pack' = pack /\ index' = index
        BY <1>9 DEF CompactFail, Fault, NoWindow, EndOp
    <2>2. IndexInv' BY <2>1 DEF StoreInv, IndexInv, Appended, Holds
    <2> QED BY <2>1, <2>2, EndOpJob DEF StoreInv
<1>10. CASE CompactRename
    <2>1. /\ pc = "copying" /\ pc' = "renamed" /\ locs' = locs
          /\ pack' = tmp /\ flen' = cursor /\ size' = cursor /\ cursor' = cursor
        BY <1>10 DEF CompactRename
    <2>2. Placed(tmp, 0) BY <2>1 DEF StoreInv, JobInv
    <2>3. Placed(pack, 0)' BY <2>1, <2>2 DEF Placed, Holds
    <2>4. DOMAIN locs' \subseteq live'
        BY <1>10, <2>1 DEF CompactRename, StoreInv, JobInv
    <2> QED BY <2>1, <2>3, <2>4 DEF StoreInv, IndexInv, JobInv, TypeOK
<1>11. CASE CompactCommit
    <2>1. /\ pc = "renamed" /\ pc' = "idle" /\ EndOp("idle")
          /\ size' = size /\ flen' = flen /\ pack' = pack
          /\ index' = [h \in DOMAIN locs |-> StoredOffset(locs[h])]
        BY <1>11 DEF CompactCommit, EndOp
    <2>2. size = cursor /\ flen = cursor /\ Placed(pack, 0)
        BY <2>1 DEF StoreInv, JobInv
    <2>3. ASSUME NEW h \in DOMAIN locs
          PROVE  index'[h] + LenOf[h] <= cursor /\ Holds(pack, index'[h], h)
        <3>1. h \in Hash /\ locs[h] \in Nat BY DEF TypeOK
        <3>2. locs[h] + LenOf[h] <= cursor /\ Holds(pack, locs[h], h)
            BY <2>2 DEF Placed
        <3>3. locs[h] < Capacity BY <3>1, <3>2 DEF TypeOK
        <3>4. index'[h] = locs[h] BY <2>1, <3>1, <3>3, StoredOffsetFits
        <3> QED BY <3>2, <3>4
    <2>4. IndexInv' BY <2>1, <2>2, <2>3 DEF IndexInv, Appended, Holds
    <2>5. size' <= flen' BY <2>1 DEF StoreInv
    <2> QED BY <2>1, <2>4, <2>5, EndOpJob DEF StoreInv
<1>12. CASE Crash
    <2>1. /\ pc # "renamed" /\ pc # "down" /\ pc' = "down" /\ EndOp("down")
          /\ size' = 0 /\ flen' = flen /\ pack' = pack /\ index' = index
        BY <1>12 DEF Crash, Fault, NoWindow, EndOp
    <2>2. size <= flen /\ size \in Nat /\ flen \in Nat BY DEF StoreInv, TypeOK
    <2>3. \A h \in DOMAIN index : index[h] \in Nat /\ LenOf[h] \in Nat
        BY DEF TypeOK
    <2>4. IndexInv'
        BY <2>1, <2>2, <2>3 DEF StoreInv, IndexInv, Appended, Holds
    <2> QED BY <2>1, <2>2, <2>4, EndOpJob DEF StoreInv
<1>13. CASE Open
    BY SMTT(30), <1>13 DEF Open, StoreInv, IndexInv, JobInv, Appended, Placed, Holds, TypeOK
<1>14. CASE UNCHANGED vars
    BY <1>14 DEF vars, StoreInv, IndexInv, JobInv, Appended, Placed, Holds
<1> QED
    BY <1>1, <1>2, <1>3, <1>4, <1>5, <1>6, <1>7, <1>8, <1>9, <1>10, <1>11,
       <1>12, <1>13, <1>14 DEF Next

(* The invariant says that reads return the right data. *)
LEMMA StoreInvReads == TypeOK /\ StoreInv => IndexedReadable
<1> SUFFICES ASSUME TypeOK, StoreInv, pc \in {"idle", "down"},
                    NEW h \in DOMAIN index
             PROVE  ReadChunk(h) = Data(h)
    BY DEF IndexedReadable
<1>1. index[h] + LenOf[h] <= flen
    <2>1. index[h] \in Nat /\ LenOf[h] \in Nat /\ size \in Nat /\ flen \in Nat
        BY LenAssumption, OffsetSpaceAssumption, CapacityAssumption DEF TypeOK
    <2> QED BY <2>1 DEF StoreInv, IndexInv, Appended
<1>2. Holds(pack, index[h], h) BY DEF StoreInv, IndexInv
<1> QED BY <1>1, <1>2 DEF ReadChunk, ReadAt, Data, Holds

(* Whatever appends fail, whenever the process dies and however often the  *)
(* file is compacted, every indexed chunk reads back as its data: for any  *)
(* chunks and any disk, as long as offsets fit the index's 32 bits and no  *)
(* failure falls into the compaction window.                               *)
THEOREM ReadsCorrect ==
    ASSUME Fits, NoWindow
    PROVE  Spec => []IndexedReadable
<1>1. Init => StoreInv
    BY CapacityAssumption DEF Init, StoreInv, IndexInv, JobInv, NoLocs
<1>2. TypeOK /\ StoreInv /\ [Next]_vars => StoreInv' BY StoreStep
<1> QED BY <1>1, <1>2, TypeCorrect, StoreInvReads, PTL DEF Spec
-----------------------------------------------------------------------------
(* In every reachable state, inside an operation too, the positions in     *)
(* force read as the data of their hashes.                                 *)
ContentsExact == Contents = [h \in DOMAIN Positions |-> Data(h)]

LEMMA ContentsRight == TypeOK /\ StoreInv => ContentsExact
<1> SUFFICES ASSUME TypeOK, StoreInv, NEW h \in DOMAIN Positions
             PROVE  ReadAt(Positions[h], h) = Data(h)
    BY DEF Contents, ContentsExact
<1>1. Positions[h] + LenOf[h] <= flen /\ Holds(pack, Positions[h], h)
    <2>1. CASE pc = "renamed"
        BY <2>1 DEF Positions, StoreInv, JobInv, Placed
    <2>2. CASE pc # "renamed"
        <3>1. h \in DOMAIN index /\ Positions[h] = index[h] BY <2>2 DEF Positions
        <3>2. index[h] \in Nat /\ LenOf[h] \in Nat /\ size \in Nat /\ flen \in Nat
            BY <3>1, LenAssumption, OffsetSpaceAssumption, CapacityAssumption DEF TypeOK
        <3> QED BY <2>2, <3>1, <3>2 DEF StoreInv, IndexInv, Appended
    <2> QED BY <2>1, <2>2
<1> QED BY <1>1 DEF ReadAt, Data, Holds

(* Which chunks are in force changes at an append's commit, which adds the *)
(* batch, and at a compaction's rename, which keeps the live set; every    *)
(* other step leaves them alone.                                           *)
LEMMA PositionsStep ==
    ASSUME TypeOK, StoreInv, NoWindow, [Next]_vars
    PROVE  \/ DOMAIN Positions' = DOMAIN Positions
           \/ \E S \in SUBSET Hash : DOMAIN Positions' = DOMAIN Positions \cup S
           \/ \E S \in SUBSET Hash : DOMAIN Positions' = DOMAIN Positions \cap S
<1>1. CASE AppendCommit
    <2>1. DOMAIN Positions' = DOMAIN Positions \cup DOMAIN locs
        BY <1>1 DEF AppendCommit, AppendDone, EndOp, Positions
    <2>2. DOMAIN locs \in SUBSET Hash BY DEF TypeOK
    <2> QED BY <2>1, <2>2
<1>2. CASE CompactRename
    <2>1. DOMAIN Positions' = DOMAIN locs /\ DOMAIN Positions = DOMAIN index
        BY <1>2 DEF CompactRename, Positions
    <2>2. DOMAIN locs = DOMAIN index \cap live /\ live \in SUBSET Hash
        BY <1>2 DEF CompactRename, StoreInv, JobInv, TypeOK
    <2> QED BY <2>1, <2>2
<1>3. CASE CompactCommit
    BY <1>3 DEF CompactCommit, EndOp, Positions
<1>4. ASSUME NEW chunks \in Batches, AppendStart(chunks)
      PROVE DOMAIN Positions' = DOMAIN Positions
    BY <1>4 DEF AppendStart, Positions
<1>5. CASE AppendSkip BY <1>5 DEF AppendSkip, Writing, Positions
<1>6. CASE AppendWrite BY <1>6 DEF AppendWrite, Writing, Positions
<1>7. ASSUME NEW n \in 0 .. Capacity, AppendWriteFail(n)
      PROVE DOMAIN Positions' = DOMAIN Positions
    BY <1>7 DEF AppendWriteFail, Writing, EndOp, Positions
<1>8. CASE AppendCommitFail
    BY <1>8 DEF AppendCommitFail, AppendDone, EndOp, Positions
<1>9. ASSUME NEW wanted \in SUBSET Hash, CompactStart(wanted)
      PROVE DOMAIN Positions' = DOMAIN Positions
    BY <1>9 DEF CompactStart, Positions
<1>10. ASSUME NEW h \in Hash, CompactCopy(h)
       PROVE DOMAIN Positions' = DOMAIN Positions
    BY <1>10 DEF CompactCopy, Positions
<1>11. CASE CompactFail
    BY <1>11 DEF CompactFail, Fault, NoWindow, EndOp, Positions
<1>12. CASE Crash BY <1>12 DEF Crash, Fault, NoWindow, EndOp, Positions
<1>13. CASE Open BY <1>13 DEF Open, Positions
<1>14. CASE UNCHANGED vars BY <1>14 DEF vars, Positions
<1> QED
    BY <1>1, <1>2, <1>3, <1>4, <1>5, <1>6, <1>7, <1>8, <1>9, <1>10, <1>11,
       <1>12, <1>13, <1>14 DEF Next

(* A step of the store is a step of the abstract map, or none. *)
LEMMA MapStep ==
    ASSUME NoWindow
    PROVE  /\ TypeOK /\ StoreInv /\ ContentsExact /\ ContentsExact'
           /\ [Next]_vars
           => [Map!Next]_Contents
<1> SUFFICES ASSUME TypeOK, StoreInv, ContentsExact, ContentsExact', [Next]_vars
             PROVE  [Map!Next]_Contents
    OBVIOUS
<1>1. Contents = [h \in DOMAIN Positions |-> Data(h)] BY DEF ContentsExact
<1>2. Contents' = [h \in DOMAIN Positions' |-> Data(h)] BY DEF ContentsExact
<1>3. CASE DOMAIN Positions' = DOMAIN Positions
    BY <1>1, <1>2, <1>3
<1>4. ASSUME NEW S \in SUBSET Hash, DOMAIN Positions' = DOMAIN Positions \cup S
      PROVE  Map!Put(S)
    BY <1>1, <1>2, <1>4 DEF Map!Put
<1>5. ASSUME NEW S \in SUBSET Hash, DOMAIN Positions' = DOMAIN Positions \cap S
      PROVE  Map!Retain(S)
    BY <1>1, <1>2, <1>5 DEF Map!Retain
<1> QED BY <1>3, <1>4, <1>5, PositionsStep DEF Map!Next

(* The file, the index and the in-memory size together behave as one map   *)
(* from hashes to their data: all of a batch appears at once, a compaction *)
(* removes exactly what is not live, and failures change nothing.          *)
THEOREM StoreImplementsMap ==
    ASSUME Fits, NoWindow
    PROVE  Spec => ImplementsChunkMap
<1>1. Init => StoreInv
    BY CapacityAssumption DEF Init, StoreInv, IndexInv, JobInv, NoLocs
<1>2. Init => Map!Init
    BY DEF Init, Map!Init, Contents, Positions, NoLocs
<1>3. TypeOK /\ StoreInv /\ [Next]_vars => StoreInv' BY StoreStep
<1>4. TypeOK /\ StoreInv /\ ContentsExact /\ ContentsExact' /\ [Next]_vars
        => [Map!Next]_Contents
    BY MapStep
<1> QED
    BY <1>1, <1>2, <1>3, <1>4, TypeCorrect, ContentsRight, PTL
    DEF Spec, ImplementsChunkMap, Map!Spec
-----------------------------------------------------------------------------
(* Every nonempty set of natural numbers has a least element. *)
LEMMA Smallest ==
    ASSUME NEW S \in SUBSET Nat, S # {}
    PROVE  \E n \in S : \A m \in S : n <= m
<1>1. PICK n \in S : \A m \in S : ~ (<<m, n>> \in OpToRel(<, Nat))
  BY WFMin, NatLessThanWellFounded, Zenon
<1>2. ASSUME NEW m \in S PROVE n <= m
  <2>1. ~ (m < n)
    BY <1>1 DEF OpToRel
  <2> QED BY <2>1
<1> QED BY <1>2

(* Induction on the subsets of a finite set: T is the set of those that    *)
(* have the property.                                                      *)
LEMMA SubsetInduction ==
    ASSUME NEW S, IsFiniteSet(S), NEW T,
           \A s \in SUBSET S : (\A x \in s : s \ {x} \in T) => s \in T
    PROVE  \A s \in SUBSET S : s \in T
<1> DEFINE Bad == {s \in SUBSET S : s \notin T}
           N == {n \in Nat : \E s \in Bad : n = Cardinality(s)}
<1>1. \A s \in SUBSET S : IsFiniteSet(s) /\ Cardinality(s) \in Nat
  BY FS_Subset, FS_CardinalityType
<1>2. ASSUME Bad # {} PROVE FALSE
  <2>1. PICK b \in Bad : TRUE
    BY <1>2
  <2>2. Cardinality(b) \in N
    BY <1>1, <2>1
  <2>3. N # {} /\ N \in SUBSET Nat
    BY <2>2
  <2> HIDE DEF N
  <2>4. PICK n \in N : \A m \in N : n <= m
    BY <2>3, Smallest
  <2> USE DEF N
  <2>5. PICK s \in Bad : n = Cardinality(s)
    BY <2>4
  <2>6. ASSUME NEW x \in s PROVE s \ {x} \in T
    <3>1. s \ {x} \in SUBSET S /\ IsFiniteSet(s) /\ Cardinality(s) \in Nat
      BY <1>1, <2>5
    <3>2. Cardinality(s \ {x}) = Cardinality(s) - 1
      BY <3>1, FS_RemoveElement
    <3>4. Cardinality(s \ {x}) \in Nat
      BY <1>1, <3>1
    <3>3. ASSUME Cardinality(s \ {x}) \in N PROVE FALSE
      <4>1. Cardinality(s) <= Cardinality(s \ {x})
        BY <2>4, <2>5, <3>3
      <4> QED BY <3>1, <3>2, <4>1
    <3> QED BY <3>1, <3>3, <3>4
  <2> QED BY <2>5, <2>6
<1> QED BY <1>2

(* SumFunctionOnSet picks an element, adds its value and goes on with the *)
(* rest: one round of that, and that it has one result.                   *)
Pick(s) == CHOOSE x \in s : TRUE
Body(F, s) == IF s = {} THEN 0 ELSE LenOf[Pick(s)] + F[s \ {Pick(s)}]

LEMMA BytesIs ==
    ASSUME NEW S, NEW F, F = [s \in SUBSET S |-> Body(F, s)],
           \A G : G = [s \in SUBSET S |-> Body(G, s)] => G[S] = F[S]
    PROVE  Bytes(S) = F[S]
BY DEF Bytes, SumFunctionOnSet, FoldFunctionOnSet, MapThenFoldSet, Body, Pick

LEMMA BodyUnique ==
    ASSUME NEW S, IsFiniteSet(S), NEW F, NEW G, F = [s \in SUBSET S |-> Body(F, s)],
           G = [s \in SUBSET S |-> Body(G, s)]
    PROVE  G[S] = F[S]
<1> DEFINE T == {s \in SUBSET S : G[s] = F[s]}
<1>1. ASSUME NEW s \in SUBSET S, \A x \in s : s \ {x} \in T PROVE s \in T
  <2>0. F[s] = Body(F, s) /\ G[s] = Body(G, s)
    OBVIOUS
  <2>1. CASE s = {}
    BY <2>0, <2>1 DEF Body
  <2>2. CASE s # {}
    <3>1. Pick(s) \in s
      BY <2>2 DEF Pick
    <3>2. G[s \ {Pick(s)}] = F[s \ {Pick(s)}]
      BY <1>1, <3>1
    <3> QED BY <2>0, <2>2, <3>2 DEF Body
  <2> QED BY <2>1, <2>2
<1> HIDE DEF T
<1>2. S \in T
  BY ZenonT(30), <1>1, SubsetInduction
<1> QED BY <1>2 DEF T

Unfolds(s) == Bytes(s) = IF s = {} THEN 0 ELSE LenOf[Pick(s)] + Bytes(s \ {Pick(s)})

(* Bytes is that recursion, on every finite set of hashes. *)
LEMMA BytesUnfold ==
    ASSUME NEW S, IsFiniteSet(S) PROVE Unfolds(S)
<1> DEFINE T == {s \in SUBSET S : \A u \in SUBSET s : Unfolds(u)}
<1>1. ASSUME NEW s \in SUBSET S, \A x \in s : s \ {x} \in T PROVE s \in T
  <2> DEFINE F == [u \in SUBSET s |-> IF u = {} THEN 0
                                      ELSE LenOf[Pick(u)] + Bytes(u \ {Pick(u)})]
  <2>1. ASSUME NEW u \in SUBSET s, u # s PROVE Unfolds(u)
    <3>1. PICK x \in s : x \notin u
      BY <2>1
    <3> QED BY <1>1, <3>1
  <2>2. ASSUME NEW u \in SUBSET s PROVE F[u] = Body(F, u)
    <3>1. CASE u = {}
      BY <3>1 DEF Body
    <3>2. CASE u # {}
      <4>1. Pick(u) \in u
        BY <3>2 DEF Pick
      <4> DEFINE r == u \ {Pick(u)}
      <4>2. r \in SUBSET s /\ r # s
        BY <4>1
      <4>3. F[r] = Bytes(r)
        BY <2>1, <4>2 DEF Unfolds
      <4>4. F[u] = LenOf[Pick(u)] + Bytes(r)
        BY <3>2
      <4> HIDE DEF F
      <4> QED BY <3>2, <4>3, <4>4 DEF Body
    <3> QED BY <3>1, <3>2
  <2>3. F[s] = IF s = {} THEN 0 ELSE LenOf[Pick(s)] + Bytes(s \ {Pick(s)})
    OBVIOUS
  <2>4. DOMAIN F = SUBSET s /\ F = [u \in SUBSET s |-> F[u]]
    OBVIOUS
  <2> HIDE DEF F
  <2>5. F = [u \in SUBSET s |-> Body(F, u)]
    BY <2>2, <2>4
  <2>6. IsFiniteSet(s)
    BY FS_Subset
  <2>7. Bytes(s) = F[s]
    BY <2>5, <2>6, BytesIs, BodyUnique
  <2>8. Unfolds(s)
    BY <2>3, <2>7 DEF Unfolds
  <2> QED BY <2>1, <2>8
<1>2. ASSUME S \in T PROVE Unfolds(S)
  BY <1>2
<1> HIDE DEF T
<1>3. S \in T
  BY ZenonT(30), <1>1, SubsetInduction
<1> QED BY <1>2, <1>3

(* The sum is a natural number ... *)
LEMMA BytesNat ==
    ASSUME NEW S \in SUBSET Hash, IsFiniteSet(S) PROVE Bytes(S) \in Nat
<1> DEFINE T == {s \in SUBSET S : Bytes(s) \in Nat}
<1>1. ASSUME NEW s \in SUBSET S, \A x \in s : s \ {x} \in T PROVE s \in T
  <2>1. Unfolds(s)
    BY FS_Subset, BytesUnfold
  <2>2. CASE s = {}
    BY <2>1, <2>2 DEF Unfolds
  <2>3. CASE s # {}
    <3>1. Pick(s) \in s
      BY <2>3 DEF Pick
    <3>2. LenOf[Pick(s)] \in Nat /\ Bytes(s \ {Pick(s)}) \in Nat
      BY <1>1, <3>1, LenAssumption
    <3> QED BY <2>1, <2>3, <3>2 DEF Unfolds
  <2> QED BY <2>2, <2>3
<1> HIDE DEF T
<1>2. S \in T
  BY <1>1, SubsetInduction
<1> QED BY <1>2 DEF T

(* ... and the order in which the elements are picked does not matter. *)
LEMMA BytesRemove ==
    ASSUME NEW S \in SUBSET Hash, IsFiniteSet(S)
    PROVE  \A h \in S : Bytes(S) = LenOf[h] + Bytes(S \ {h})
<1> DEFINE T == {s \in SUBSET S : \A g \in s : Bytes(s) = LenOf[g] + Bytes(s \ {g})}
<1>1. ASSUME NEW s \in SUBSET S, \A x \in s : s \ {x} \in T PROVE s \in T
  <2> SUFFICES ASSUME NEW g \in s PROVE Bytes(s) = LenOf[g] + Bytes(s \ {g})
    OBVIOUS
  <2> DEFINE c == Pick(s)
  <2>1. c \in s
    BY DEF Pick
  <2>2. Bytes(s) = LenOf[c] + Bytes(s \ {c})
    BY FS_Subset, BytesUnfold DEF Unfolds
  <2> HIDE DEF c
  <2>3. CASE g # c
    <3>1. Bytes(s \ {c}) = LenOf[g] + Bytes((s \ {c}) \ {g})
      BY <1>1, <2>1, <2>3
    <3>2. Bytes(s \ {g}) = LenOf[c] + Bytes((s \ {g}) \ {c})
      BY <1>1, <2>1, <2>3
    <3>3. (s \ {c}) \ {g} = (s \ {g}) \ {c}
      OBVIOUS
    <3>4. LenOf[g] \in Nat /\ LenOf[c] \in Nat
      BY <2>1, LenAssumption
    <3>5. Bytes((s \ {g}) \ {c}) \in Nat
      <4>1. (s \ {g}) \ {c} \in SUBSET S /\ (s \ {g}) \ {c} \in SUBSET Hash
        OBVIOUS
      <4> QED BY <4>1, BytesNat, FS_Subset
    <3>6. Bytes(s \ {c}) = LenOf[g] + Bytes((s \ {g}) \ {c})
      BY <3>1, <3>3
    <3> QED BY <2>2, <3>2, <3>4, <3>5, <3>6
  <2> QED BY <2>2, <2>3
<1>2. ASSUME S \in T PROVE \A h \in S : Bytes(S) = LenOf[h] + Bytes(S \ {h})
  BY <1>2
<1> HIDE DEF T
<1>3. S \in T
  BY <1>1, SubsetInduction
<1> QED BY <1>2, <1>3

(* What Bytes computes: nothing, and one chunk more. *)
LEMMA BytesFacts ==
    /\ Bytes({}) = 0
    /\ \A S \in SUBSET Hash : IsFiniteSet(S) =>
         /\ Bytes(S) \in Nat
         /\ \A h \in Hash \ S : Bytes(S \cup {h}) = Bytes(S) + LenOf[h]
<1>1. Bytes({}) = 0
  BY FS_EmptySet, BytesUnfold DEF Unfolds
<1>2. ASSUME NEW S \in SUBSET Hash, IsFiniteSet(S), NEW h \in Hash \ S
      PROVE  Bytes(S \cup {h}) = Bytes(S) + LenOf[h]
  <2>1. IsFiniteSet(S \cup {h}) /\ (S \cup {h}) \ {h} = S
    BY <1>2, FS_AddElement
  <2>2. Bytes(S \cup {h}) = LenOf[h] + Bytes(S)
    BY <2>1, BytesRemove
  <2>3. Bytes(S) \in Nat /\ LenOf[h] \in Nat
    BY <1>2, BytesNat, LenAssumption
  <2> QED BY <2>2, <2>3
<1> QED BY <1>1, <1>2, BytesNat
-----------------------------------------------------------------------------
(***************************************************************************)
(* The inductive invariant behind SpaceAccounted.  Balanced relates the    *)
(* append position to what the index stands for; an append keeps its       *)
(* cursor ahead of it by exactly the chunks it has written, which is why   *)
(* they must be new ones (Fresh); a compaction's cursor is what it copied. *)
(***************************************************************************)
Finite == IsFiniteSet(DOMAIN index) /\ IsFiniteSet(DOMAIN locs)
Lengths == size <= flen /\ (pc = "writing" => size <= cursor /\ cursor <= flen)
Balanced ==
    pc # "renamed" =>
        /\ Appended >= Bytes(DOMAIN index)
        /\ faults = 0 => size = Bytes(DOMAIN index)
Fresh ==
    pc = "writing" =>
        /\ DOMAIN locs \cap DOMAIN index = {}
        /\ cursor + Bytes(DOMAIN index) = size + Bytes(DOMAIN index \cup DOMAIN locs)
Copied ==
    /\ pc \in {"copying", "renamed"} => cursor = Bytes(DOMAIN locs)
    /\ pc \in {"idle", "down"} => DOMAIN locs = {} /\ cursor = 0
    /\ pc = "renamed" => size = cursor
    /\ pc = "down" => faults # 0
SpaceInv == Finite /\ Lengths /\ Balanced /\ Fresh /\ Copied
(* An operation that ends without an index change, by an error or by a     *)
(* crash, keeps the accounts as long as the position it leaves does not    *)
(* fall behind the one it found.                                           *)
LEMMA SpaceEnded ==
    ASSUME TypeOK, TypeOK', SpaceInv, pc \notin {"renamed", "down"},
           NEW next \in {"idle", "down"}, EndOp(next), UNCHANGED index,
           size' <= flen', flen <= flen',
           next = "idle" => size <= size',
           next = "idle" /\ faults' = 0 => faults = 0 /\ size' = size,
           next = "down" => faults' # 0
    PROVE  SpaceInv'
<1>1. Finite'
  BY FS_EmptySet DEF SpaceInv, Finite, EndOp, NoLocs
<1>2. /\ Bytes(DOMAIN index) \in Nat /\ size \in Nat /\ flen \in Nat
      /\ size' \in Nat /\ flen' \in Nat
  BY SMTT(30), BytesFacts, CapacityAssumption DEF SpaceInv, Finite, TypeOK
<1>3. /\ size >= Bytes(DOMAIN index) /\ flen >= Bytes(DOMAIN index)
      /\ faults = 0 => size = Bytes(DOMAIN index)
  BY <1>2 DEF SpaceInv, Balanced, Appended, Lengths
<1>4. pc' = next /\ index' = index
  BY DEF EndOp
<1>5. Balanced'
  <2>1. CASE next = "idle"
    BY <1>2, <1>3, <1>4, <2>1 DEF Balanced, Appended
  <2>2. CASE next = "down"
    BY <1>2, <1>3, <1>4, <2>2 DEF Balanced, Appended
  <2> QED BY <2>1, <2>2
<1>6. Lengths' /\ Fresh' /\ Copied'
  BY DEF Lengths, Fresh, Copied, EndOp, NoLocs
<1> QED BY <1>1, <1>5, <1>6 DEF SpaceInv

(* Every step keeps the accounts: a chunk written is a chunk not indexed   *)
(* and not written before, and a chunk copied is one not copied before.    *)
LEMMA SpaceStep ==
    ASSUME NoWindow, TypeOK, TypeOK', SpaceInv, [Next]_vars
    PROVE  SpaceInv'
<1>0. /\ Bytes(DOMAIN index) \in Nat /\ size \in Nat /\ flen \in Nat /\ cursor \in Nat
      /\ faults \in Nat /\ \A h \in Hash : LenOf[h] \in Nat
      /\ DOMAIN index \subseteq Hash /\ DOMAIN locs \subseteq Hash
      /\ IsFiniteSet(DOMAIN index) /\ IsFiniteSet(DOMAIN locs)
  <2>1. /\ DOMAIN index \subseteq Hash /\ DOMAIN locs \subseteq Hash
        /\ size \in Nat /\ flen \in Nat /\ cursor \in Nat /\ faults \in Nat
    BY SMTT(30), CapacityAssumption, BoundsAssumption DEF TypeOK
  <2>2. \A h \in Hash : LenOf[h] \in Nat
    BY LenAssumption
  <2>3. IsFiniteSet(DOMAIN index) /\ IsFiniteSet(DOMAIN locs)
    BY DEF SpaceInv, Finite
  <2>4. Bytes(DOMAIN index) \in Nat
    BY <2>1, <2>3, BytesFacts
  <2> QED BY <2>1, <2>2, <2>3, <2>4
<1>1. ASSUME NEW chunks \in Batches, AppendStart(chunks) PROVE SpaceInv'
  <2>1. DOMAIN locs = {} /\ DOMAIN index \cup DOMAIN locs = DOMAIN index
    BY <1>1 DEF AppendStart, SpaceInv, Copied
  <2>2. Finite' /\ Balanced' /\ Copied'
    BY <1>1 DEF AppendStart, SpaceInv, Finite, Balanced, Appended, Copied
  <2>3. Lengths' /\ Fresh'
    BY <1>0, <1>1, <2>1 DEF AppendStart, SpaceInv, Lengths, Fresh
  <2> QED BY <2>2, <2>3 DEF SpaceInv
<1>2. CASE AppendSkip
  BY <1>2 DEF AppendSkip, SpaceInv, Finite, Lengths, Balanced, Appended, Fresh, Copied
<1>3. CASE AppendWrite
  <2> DEFINE I == DOMAIN index
             L == DOMAIN locs
             c == Current
  <2>1. c \in Hash /\ c \notin I /\ c \notin L
    BY <1>3 DEF AppendWrite, Writing, Duplicate, Current, TypeOK
  <2>2. DOMAIN locs' = L \cup {c} /\ pc = "writing" /\ pc' = "writing"
    BY <1>3 DEF AppendWrite, Writing
  <2>3. IsFiniteSet(L \cup {c}) /\ IsFiniteSet(I \cup L)
    BY <1>0, FS_AddElement, FS_Union
  <2>4. Bytes((I \cup L) \cup {c}) = Bytes(I \cup L) + LenOf[c] /\ Bytes(I \cup L) \in Nat
    BY <1>0, <2>1, <2>3, BytesFacts
  <2>5. /\ cursor + Bytes(I) = size + Bytes(I \cup L) /\ L \cap I = {}
        /\ size <= cursor /\ size <= flen /\ LenOf[c] \in Nat
    BY <1>0, <2>1, <2>2 DEF SpaceInv, Fresh, Lengths
  <2>6. /\ cursor' = cursor + LenOf[c] /\ size' = size /\ index' = index
        /\ flen' = Longer(flen, cursor + LenOf[c]) /\ faults' = faults
    BY <1>3 DEF AppendWrite
  <2>7. Finite' /\ Copied'
    BY <1>0, <2>2, <2>3, <2>6 DEF Finite, Copied
  <2>8. Balanced'
    BY <2>2, <2>6 DEF SpaceInv, Balanced, Appended
  <2>9. Fresh'
    <3>1. I \cup (L \cup {c}) = (I \cup L) \cup {c} /\ (L \cup {c}) \cap I = {}
      BY <2>1, <2>5
    <3>2. (cursor + LenOf[c]) + Bytes(I) = size + Bytes((I \cup L) \cup {c})
      BY <1>0, <2>4, <2>5
    <3> HIDE DEF c
    <3> QED BY <2>2, <2>6, <3>1, <3>2 DEF Fresh
  <2>10. Lengths'
    <3> HIDE DEF c
    <3> QED BY <1>0, <2>2, <2>5, <2>6 DEF Lengths, Longer
  <2> QED BY <2>7, <2>8, <2>9, <2>10 DEF SpaceInv
<1>4. ASSUME NEW n \in 0 .. Capacity, AppendWriteFail(n) PROVE SpaceInv'
  <2>1. /\ EndOp("idle") /\ UNCHANGED index /\ size' = size /\ pc = "writing"
        /\ flen' = Longer(flen, cursor + n)
    BY <1>4 DEF AppendWriteFail, Writing
  <2>2. faults' = 0 => faults = 0
    BY <1>0, <1>4 DEF AppendWriteFail, Fault
  <2>3. flen <= flen' /\ size' <= flen' /\ size <= size'
    BY <1>0, <2>1, CapacityAssumption DEF Longer, SpaceInv, Lengths
  <2> QED BY <2>1, <2>2, <2>3, SpaceEnded
<1>5. CASE AppendCommit
  <2> DEFINE I == DOMAIN index
             L == DOMAIN locs
  <2>1. /\ pc = "writing" /\ size' = cursor /\ flen' = flen /\ faults' = faults
        /\ DOMAIN index' = I \cup L /\ pc' = "idle" /\ DOMAIN locs' = {} /\ cursor' = 0
    BY <1>5 DEF AppendCommit, AppendDone, EndOp, NoLocs
  <2>2. cursor + Bytes(I) = size + Bytes(I \cup L) /\ cursor <= flen
    BY <2>1 DEF SpaceInv, Fresh, Lengths
  <2>3. size >= Bytes(I) /\ (faults = 0 => size = Bytes(I))
    BY <2>1 DEF SpaceInv, Balanced, Appended
  <2>4. IsFiniteSet(I \cup L) /\ Bytes(I \cup L) \in Nat
    BY <1>0, FS_Union, BytesFacts
  <2>5. cursor >= Bytes(I \cup L) /\ (faults = 0 => cursor = Bytes(I \cup L))
    BY <1>0, <2>2, <2>3, <2>4
  <2>6. Finite' /\ Lengths' /\ Fresh' /\ Copied'
    BY <2>1, <2>2, <2>4, FS_EmptySet DEF Finite, Lengths, Fresh, Copied
  <2>7. Balanced'
    BY <2>1, <2>5 DEF Balanced, Appended
  <2> QED BY <2>6, <2>7 DEF SpaceInv
<1>6. CASE AppendCommitFail
  <2>1. /\ EndOp("idle") /\ UNCHANGED index /\ size' = cursor /\ pc = "writing"
        /\ flen' = flen
    BY <1>6 DEF AppendCommitFail, AppendDone
  <2>2. faults' # 0
    BY <1>0, <1>6 DEF AppendCommitFail, Fault
  <2>3. flen <= flen' /\ size' <= flen' /\ size <= size'
    BY <1>0, <2>1 DEF SpaceInv, Lengths
  <2> QED BY <2>1, <2>2, <2>3, SpaceEnded
<1>7. ASSUME NEW wanted \in SUBSET Hash, CompactStart(wanted) PROVE SpaceInv'
  <2>1. DOMAIN locs = {} /\ cursor = 0 /\ pc = "idle" /\ pc' = "copying"
    BY <1>7 DEF CompactStart, SpaceInv, Copied
  <2>2. /\ size' = size /\ flen' = flen /\ index' = index /\ locs' = locs
        /\ cursor' = cursor /\ faults' = faults
    BY <1>7 DEF CompactStart
  <2>3. Finite' /\ Lengths' /\ Balanced' /\ Fresh'
    BY <2>1, <2>2 DEF SpaceInv, Finite, Lengths, Balanced, Appended, Fresh
  <2>4. Copied'
    BY <2>1, <2>2, BytesFacts DEF Copied
  <2> QED BY <2>3, <2>4 DEF SpaceInv
<1>8. ASSUME NEW h \in Hash, CompactCopy(h) PROVE SpaceInv'
  <2>1. /\ h \notin DOMAIN locs /\ DOMAIN locs' = DOMAIN locs \cup {h}
        /\ cursor' = cursor + LenOf[h] /\ pc = "copying" /\ pc' = "copying"
        /\ size' = size /\ flen' = flen /\ index' = index /\ faults' = faults
    BY <1>8 DEF CompactCopy, NextLive
  <2>2. Bytes(DOMAIN locs \cup {h}) = Bytes(DOMAIN locs) + LenOf[h]
    BY <1>0, <2>1, BytesFacts
  <2>3. Finite'
    BY <1>0, <2>1, FS_AddElement DEF Finite
  <2>4. Copied'
    BY <2>1, <2>2 DEF SpaceInv, Copied
  <2>5. Lengths' /\ Balanced' /\ Fresh'
    BY <2>1 DEF SpaceInv, Lengths, Balanced, Appended, Fresh
  <2> QED BY <2>3, <2>4, <2>5 DEF SpaceInv
<1>9. CASE CompactFail
  <2>1. pc = "copying" /\ EndOp("idle") /\ UNCHANGED <<flen, size, index>>
    BY <1>9 DEF CompactFail, Fault, NoWindow
  <2>2. faults' # 0
    BY <1>0, <1>9 DEF CompactFail, Fault
  <2>3. flen <= flen' /\ size' <= flen' /\ size <= size'
    BY <1>0, <2>1 DEF SpaceInv, Lengths
  <2> QED BY <2>1, <2>2, <2>3, SpaceEnded
<1>10. CASE CompactRename
  BY <1>0, <1>10
  DEF CompactRename, SpaceInv, Finite, Lengths, Balanced, Fresh, Copied
<1>11. CASE CompactCommit
  <2>1. /\ size' = size /\ flen' = flen /\ DOMAIN index' = DOMAIN locs
        /\ pc' = "idle" /\ DOMAIN locs' = {} /\ cursor' = 0 /\ pc = "renamed"
    BY <1>11 DEF CompactCommit, EndOp, NoLocs
  <2>2. size = Bytes(DOMAIN locs)
    BY <2>1 DEF SpaceInv, Copied
  <2>3. Finite' /\ Lengths' /\ Fresh' /\ Copied'
    BY <1>0, <2>1, FS_EmptySet DEF SpaceInv, Finite, Lengths, Fresh, Copied
  <2>4. Balanced'
    BY <1>0, <2>1, <2>2 DEF Balanced, Appended
  <2> QED BY <2>3, <2>4 DEF SpaceInv
<1>12. CASE Crash
  <2>1. /\ pc \notin {"renamed", "down"} /\ EndOp("down") /\ size' = 0
        /\ UNCHANGED <<flen, index>>
    BY <1>12 DEF Crash, Fault, NoWindow
  <2>2. faults' # 0
    BY <1>0, <1>12 DEF Crash, Fault
  <2>3. flen <= flen' /\ size' <= flen'
    BY <1>0, <2>1
  <2> QED BY <2>1, <2>2, <2>3, SpaceEnded
<1>13. CASE Open
  <2>1. faults # 0
    BY <1>13 DEF Open, SpaceInv, Copied
  <2> QED
    BY <1>0, <1>13, <2>1
    DEF Open, SpaceInv, Finite, Lengths, Balanced, Appended, Fresh, Copied
<1>14. CASE UNCHANGED vars
  BY <1>14 DEF vars, SpaceInv, Finite, Lengths, Balanced, Appended, Fresh, Copied
<1> QED
  BY <1>1, <1>2, <1>3, <1>4, <1>5, <1>6, <1>7, <1>8, <1>9, <1>10, <1>11,
     <1>12, <1>13, <1>14 DEF Next

(* GameStore's space accounting: the append position always covers what is *)
(* indexed, whatever failed before, and is exactly that while nothing has. *)
(* compact's decision, garbage = size - live, rests on it.                 *)
THEOREM SpaceAlwaysAccounted ==
    ASSUME NoWindow
    PROVE  Spec => []SpaceAccounted
<1>1. Init => SpaceInv
  <2> SUFFICES ASSUME Init PROVE SpaceInv
    OBVIOUS
  <2>1. DOMAIN index = {} /\ DOMAIN locs = {} /\ size = 0 /\ flen = 0 /\ cursor = 0 /\ pc = "idle"
    BY DEF Init, NoLocs
  <2>2. Bytes({}) = 0 /\ IsFiniteSet({})
    BY BytesFacts, FS_EmptySet
  <2> QED BY <2>1, <2>2 DEF SpaceInv, Finite, Lengths, Balanced, Appended, Fresh, Copied
<1>2. TypeOK /\ TypeOK' /\ SpaceInv /\ [Next]_vars => SpaceInv'
  BY SpaceStep
<1>3. SpaceInv => SpaceAccounted
  BY DEF SpaceInv, Balanced, Appended, SpaceAccounted
<1> QED BY <1>1, <1>2, <1>3, TypeCorrect, PTL DEF Spec
=============================================================================
