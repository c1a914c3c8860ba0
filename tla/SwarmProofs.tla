---------------------------- MODULE SwarmProofs -----------------------------
(***************************************************************************)
(* The safety of the download for any number of machines, chunks, restarts *)
(* and failures: the ledger is true, a task that is done is complete, the  *)
(* origin's egress is bounded, and every type is right.                    *)
(*                                                                         *)
(* None of the first three is inductive.  That a report is true rests on   *)
(* where a chunk can be while a task runs (Covered): stored, in the write  *)
(* batch, planned and not yet there, still to be looked up, or lost with a *)
(* batch.  The bound on the egress rests on a budget per chunk (Budget)    *)
(* that a task takes from when it is created and gives back when it fails. *)
(* The types rest on what a chunk's hash picks among its candidates        *)
(* (Ranked).                                                               *)
(***************************************************************************)
EXTENDS Swarm, SequenceTheorems, FiniteSetTheorems, WellFoundedInduction, TLAPS

(* The types the argument needs.  (What the peer query picks is left open: *)
(* the three properties do not depend on it.)                              *)
Shapes ==
    /\ nodes \in 0 .. MaxNode
    /\ host \in [Node -> Machine \cup {None}]
    /\ ledger \in [Chunk -> Seq(1 .. nodes)]
    /\ id \in [Machine -> 0 .. nodes]
    /\ have \in [Machine -> SUBSET Chunk]
    /\ pc \in [Machine -> Steps]
    /\ assigned \in [Machine -> SUBSET Chunk]
    /\ batch \in [Machine -> Seq(Chunk)]
    /\ unresolved \in [Machine -> SUBSET Chunk]
    /\ later \in [Machine -> SUBSET Chunk]
    /\ got \in [Machine -> SUBSET Chunk]
    /\ DOMAIN source = Machine
    /\ \A m \in Machine : DOMAIN source[m] \subseteq Chunk
    /\ outcome \in [Machine -> {"none", "done", "failed"}]
    /\ lost \in [Machine -> SUBSET Chunk] /\ everLost \in [Machine -> SUBSET Chunk]
    /\ sent \in [Chunk -> Nat]
    /\ overlaps \in Nat /\ faults \in Nat

LEMMA EmptyBatch == \A S : <<>> \in Seq(S)
  OBVIOUS

LEMMA Updated ==
    ASSUME NEW D, NEW R, NEW f \in [D -> R], NEW x \in D, NEW y \in R
    PROVE  [f EXCEPT ![x] = y] \in [D -> R]
  OBVIOUS

(* What Append adds to a sequence's elements. *)
LEMMA RangeAppend ==
    ASSUME NEW S, NEW s \in Seq(S), NEW x \in S
    PROVE  Range(Append(s, x)) = Range(s) \cup {x}
<1>1. DOMAIN s = 1 .. Len(s) /\ DOMAIN Append(s, x) = 1 .. Len(s) + 1 /\ Len(s) \in Nat
  BY AppendProperties, LenProperties
<1>2. /\ \A i \in 1 .. Len(s) : Append(s, x)[i] = s[i]
      /\ Append(s, x)[Len(s) + 1] = x
  BY AppendProperties
<1> QED BY <1>1, <1>2 DEF Range

LEMMA ShapesInit == Init => Shapes
  BY EmptyBatch, BoundsAssumption
     DEF Init, Shapes, Steps, None, EmptyPlan, Node

LEMMA FinishShapes ==
    ASSUME Shapes, NEW m \in Machine, NEW r \in {"none", "done", "failed"},
           Finish(m, r)
    PROVE  /\ pc' \in [Machine -> Steps]
           /\ assigned' \in [Machine -> SUBSET Chunk]
           /\ batch' \in [Machine -> Seq(Chunk)]
           /\ unresolved' \in [Machine -> SUBSET Chunk]
           /\ later' \in [Machine -> SUBSET Chunk]
           /\ got' \in [Machine -> SUBSET Chunk]
           /\ DOMAIN source' = Machine
           /\ \A k \in Machine : DOMAIN source'[k] \subseteq Chunk
           /\ outcome' \in [Machine -> {"none", "done", "failed"}]
<1>1. batch' \in [Machine -> Seq(Chunk)]
  BY EmptyBatch, Updated DEF Shapes, Finish
<1>2. /\ DOMAIN source' = Machine
      /\ \A k \in Machine : DOMAIN source'[k] \subseteq Chunk
  BY DEF Shapes, Finish, EmptyPlan
<1> QED BY <1>1, <1>2 DEF Shapes, Finish, Goto, Steps

(* The sink adds a chunk to the batch, and the batch to the store.         *)
LEMMA SinkShapes ==
    ASSUME Shapes, NEW m \in Machine, NEW c \in Chunk, Sink(m, c)
    PROVE  /\ batch' \in [Machine -> Seq(Chunk)]
           /\ have' \in [Machine -> SUBSET Chunk]
           /\ \A k \in Machine \ {m} : have'[k] = have[k] /\ batch'[k] = batch[k]
           /\ have'[m] \cup Range(batch'[m]) = have[m] \cup Range(batch[m]) \cup {c}
           /\ have[m] \subseteq have'[m]
<1> DEFINE b == Append(batch[m], c)
<1>1. b \in Seq(Chunk) /\ Range(b) = Range(batch[m]) \cup {c}
  BY RangeAppend, AppendProperties DEF Shapes
<1>2. Range(b) \subseteq Chunk
  BY <1>1, RangeOfSeq
<1>3. Range(<<>>) = {}
  BY DEF Range
<1>4. CASE Full(m)
  <2>1. /\ batch' = [batch EXCEPT ![m] = <<>>]
        /\ have' = [have EXCEPT ![m] = have[m] \cup Range(b)]
    BY <1>4 DEF Sink
  <2> HIDE DEF b
  <2> QED BY <1>1, <1>2, <1>3, <2>1, EmptyBatch DEF Shapes
<1>5. CASE ~ Full(m)
  <2>1. /\ batch' = [batch EXCEPT ![m] = b]
        /\ have' = [have EXCEPT ![m] = have[m]]
    BY <1>5 DEF Sink
  <2> HIDE DEF b
  <2> QED BY <1>1, <1>2, <1>3, <2>1 DEF Shapes
<1> QED BY <1>4, <1>5

(* A group leaves the plan. *)
LEMMA CloseShapes ==
    ASSUME Shapes, NEW m \in Machine, NEW g, NEW left \in SUBSET Chunk,
           CloseGroup(m, g, left)
    PROVE  /\ DOMAIN source' = Machine
           /\ \A k \in Machine : DOMAIN source'[k] \subseteq Chunk
           /\ got' \in [Machine -> SUBSET Chunk]
           /\ later' \in [Machine -> SUBSET Chunk]
           /\ \A k \in Machine \ {m} : /\ DOMAIN source'[k] = DOMAIN source[k]
                                       /\ got'[k] = got[k] /\ later'[k] = later[k]
           /\ DOMAIN source'[m] = DOMAIN source[m] \ Group(m, g)
           /\ got'[m] = got[m] \ Group(m, g)
           /\ later'[m] = later[m] \cup left
  BY DEF Shapes, CloseGroup

(* A report adds a holder and removes none. *)
LEMMA ReportShapes ==
    ASSUME Shapes, NEW c \in Chunk, NEW n \in 1 .. nodes, RecordChunkHolder(c, n)
    PROVE  /\ ledger' \in [Chunk -> Seq(1 .. nodes)]
           /\ \A d \in Chunk \ {c} : ledger'[d] = ledger[d]
           /\ Range(ledger'[c]) = Range(ledger[c]) \cup {n}
<1>1. CASE n \in Range(ledger[c])
  BY <1>1 DEF Shapes, RecordChunkHolder
<1>2. CASE n \notin Range(ledger[c])
  <2>1. /\ Append(ledger[c], n) \in Seq(1 .. nodes)
        /\ Range(Append(ledger[c], n)) = Range(ledger[c]) \cup {n}
    <3> DEFINE S == 1 .. nodes
    <3>1. ledger[c] \in Seq(S) /\ n \in S
      BY DEF Shapes
    <3> HIDE DEF S
    <3>2. /\ Append(ledger[c], n) \in Seq(S)
          /\ Range(Append(ledger[c], n)) = Range(ledger[c]) \cup {n}
      BY <3>1, RangeAppend, AppendProperties
    <3> QED BY <3>2 DEF S
  <2>2. ledger' = [ledger EXCEPT ![c] = Append(ledger[c], n)]
    BY <1>2 DEF RecordChunkHolder
  <2> QED BY <2>1, <2>2 DEF Shapes
<1> QED BY <1>1, <1>2

(* A chunk is planned, or left for the next round. *)
LEMMA PlanShapes ==
    ASSUME Shapes, NEW m \in Machine, NEW c \in Chunk, Plan(m, c)
    PROVE  /\ DOMAIN source' = Machine
           /\ \A k \in Machine : DOMAIN source'[k] \subseteq Chunk
           /\ later' \in [Machine -> SUBSET Chunk]
           /\ unresolved' \in [Machine -> SUBSET Chunk]
           /\ \A k \in Machine \ {m} : /\ DOMAIN source'[k] = DOMAIN source[k]
                                       /\ later'[k] = later[k]
                                       /\ unresolved'[k] = unresolved[k]
           /\ unresolved'[m] = unresolved[m] \ {c}
           /\ DOMAIN source'[m] \cup later'[m] = DOMAIN source[m] \cup later[m] \cup {c}
           /\ later[m] \subseteq later'[m] /\ DOMAIN source[m] \subseteq DOMAIN source'[m]
<1>1. /\ unresolved' \in [Machine -> SUBSET Chunk]
      /\ unresolved'[m] = unresolved[m] \ {c}
      /\ \A k \in Machine \ {m} : unresolved'[k] = unresolved[k]
  BY DEF Plan, Shapes
<1>2. CASE Candidates(m, c) = {}
  <2>1. later' = [later EXCEPT ![m] = later[m] \cup {c}] /\ source' = source
    BY <1>2 DEF Plan
  <2> QED BY <1>1, <2>1 DEF Shapes
<1>3. CASE Candidates(m, c) # {}
  <2> DEFINE picked == TargetOf(m, c)
  <2>1. /\ later' = later
        /\ source' = [source EXCEPT ![m] = [d \in DOMAIN source[m] \cup {c} |->
                                                IF d = c THEN picked ELSE source[m][d]]]
    BY <1>3 DEF Plan
  <2> HIDE DEF picked
  <2> QED BY <1>1, <2>1 DEF Shapes
<1> QED BY <1>2, <1>3

(* A failure ends the task. *)
LEMMA AbortShapes ==
    ASSUME Shapes, NEW m \in Machine, NEW kind, Fault(kind),
           Finish(m, "failed") \/ Finish(m, "none")
    PROVE  /\ pc' \in [Machine -> Steps]
           /\ assigned' \in [Machine -> SUBSET Chunk]
           /\ batch' \in [Machine -> Seq(Chunk)]
           /\ unresolved' \in [Machine -> SUBSET Chunk]
           /\ later' \in [Machine -> SUBSET Chunk]
           /\ got' \in [Machine -> SUBSET Chunk]
           /\ DOMAIN source' = Machine
           /\ \A k \in Machine : DOMAIN source'[k] \subseteq Chunk
           /\ outcome' \in [Machine -> {"none", "done", "failed"}]
           /\ faults' \in Nat
<1>1. faults' \in Nat
  BY DEF Fault, Shapes
<1> QED BY <1>1, FinishShapes

(* A batch is lost: the group's chunks are left for later, the others gone. *)
LEMMA LossShapes ==
    ASSUME Shapes, NEW m \in Machine, NEW c \in Chunk, ReceiveFail(m, c)
    PROVE  /\ Shapes'
           /\ batch'[m] = <<>>
           /\ lost'[m] = lost[m] \cup (Range(batch[m]) \ Group(m, source[m][c]))
           /\ everLost[m] \subseteq everLost'[m]
           /\ Range(batch[m]) \ Group(m, source[m][c]) \subseteq everLost'[m]
           /\ \A k \in Machine \ {m} : /\ batch'[k] = batch[k] /\ lost'[k] = lost[k]
                                       /\ everLost'[k] = everLost[k]
<1> DEFINE g == source[m][c]
           others == Range(batch[m]) \ Group(m, g)
<1>1. /\ batch' = [batch EXCEPT ![m] = <<>>]
      /\ lost' = [lost EXCEPT ![m] = @ \cup others]
      /\ everLost' = [everLost EXCEPT ![m] = @ \cup others]
      /\ CloseGroup(m, g, Group(m, g)) /\ Fault("disk")
      /\ UNCHANGED <<nodes, host, ledger, id, have, pc, assigned, unresolved, outcome, sent,
                     overlaps>>
  BY DEF ReceiveFail, ledgerVars
<1>2. Group(m, g) \subseteq Chunk /\ others \subseteq Chunk
  BY RangeOfSeq DEF Group, Shapes
<1>3. /\ batch' \in [Machine -> Seq(Chunk)] /\ batch'[m] = <<>>
      /\ \A k \in Machine \ {m} : batch'[k] = batch[k]
  BY <1>1, EmptyBatch, Updated DEF Shapes
<1> HIDE DEF g, others
<1>4. /\ lost' \in [Machine -> SUBSET Chunk] /\ everLost' \in [Machine -> SUBSET Chunk]
      /\ lost'[m] = lost[m] \cup others /\ everLost'[m] = everLost[m] \cup others
      /\ \A k \in Machine \ {m} : lost'[k] = lost[k] /\ everLost'[k] = everLost[k]
  BY <1>1, <1>2 DEF Shapes
<1>5. faults' \in Nat
  BY <1>1 DEF Fault, Shapes
<1>6. Shapes'
  BY <1>1, <1>2, <1>3, <1>4, <1>5, CloseShapes DEF Shapes
<1> QED BY <1>3, <1>4, <1>6 DEF g, others

(* Node ids belong to machines; only an agent that runs has a task. *)
Identified ==
    /\ \A n \in 1 .. nodes : host[n] \in Machine
    /\ \A m \in Machine : /\ id[m] # None => host[id[m]] = m
                          /\ pc[m] # "idle" => id[m] # None
                          /\ outcome[m] = "done" => id[m] # None

LEMMA ShapesStep ==
    ASSUME Shapes, Identified, [Next]_vars
    PROVE  Shapes'
<1> USE BoundsAssumption
<1>1. CASE UNCHANGED vars
  BY <1>1 DEF vars, Shapes
<1>2. ASSUME NEW n \in Node, MarkOffline(n) PROVE Shapes'
  BY <1>2 DEF MarkOffline, Shapes, planVars, historyVars
<1>3. ASSUME NEW m \in Machine, Join(m) PROVE Shapes'
  <2>1. nodes + 1 \in Node /\ nodes' = nodes + 1 /\ nodes' \in 0 .. MaxNode
    BY <1>3 DEF Join, Shapes, Node
  <2>2. id' \in [Machine -> 0 .. nodes'] /\ host' \in [Node -> Machine \cup {None}]
    BY <1>3, <2>1 DEF Join, Shapes, Node
  <2>3. Seq(1 .. nodes) \subseteq Seq(1 .. nodes')
    BY <2>1, SeqMonotonic DEF Shapes
  <2>4. ledger' \in [Chunk -> Seq(1 .. nodes')]
    BY <1>3, <2>3 DEF Join, Shapes
  <2> QED BY <1>3, <2>1, <2>2, <2>4 DEF Join, Shapes, planVars, historyVars
<1>4. ASSUME NEW m \in Machine, CreateTask(m) PROVE Shapes'
  <2>1. overlaps' \in Nat
    BY <1>4 DEF CreateTask, Shapes
  <2>2. outcome' \in [Machine -> {"none", "done", "failed"}]
    BY <1>4 DEF CreateTask, Shapes
  <2>3. lost' \in [Machine -> SUBSET Chunk] /\ everLost' \in [Machine -> SUBSET Chunk]
    BY <1>4 DEF CreateTask, Shapes
  <2> QED BY <1>4, <2>1, <2>2, <2>3
          DEF CreateTask, Shapes, Goto, Steps, AssignIdcChunks, ledgerVars, planVars
<1>5. ASSUME NEW m \in Machine, TaskStep(m) PROVE Shapes'
  <2>1. CASE Begin(m)
    BY <2>1 DEF Begin, Goto, Steps, Shapes, ledgerVars, historyVars
  <2>2. CASE Planned(m)
    BY <2>2 DEF Planned, Goto, Steps, Shapes, ledgerVars, planVars, historyVars
  <2>3. CASE NextRound(m)
    <3>1. /\ unresolved' \in [Machine -> SUBSET Chunk]
          /\ later' \in [Machine -> SUBSET Chunk]
      <4>1. CASE round[m] < Rounds /\ later[m] # {}
        <5>1. /\ unresolved' = [unresolved EXCEPT ![m] = later[m]]
              /\ later' = [later EXCEPT ![m] = {}]
          BY <2>3, <4>1 DEF NextRound
        <5> QED BY <5>1 DEF Shapes
      <4>2. CASE ~ (round[m] < Rounds /\ later[m] # {})
        <5>1. unresolved' = unresolved /\ later' = later
          BY <2>3, <4>2 DEF NextRound
        <5> QED BY <5>1 DEF Shapes
      <4> QED BY <4>1, <4>2
    <3>2. pc' \in [Machine -> Steps]
      <4>1. Goto(m, "plan") \/ Goto(m, "resolve")
        BY <2>3 DEF NextRound
      <4> QED BY <4>1 DEF Goto, Steps, Shapes
    <3> QED BY <2>3, <3>1, <3>2 DEF NextRound, Shapes, ledgerVars, historyVars
  <2>4. CASE Resolve(m)
    <3>1. CASE later[m] \subseteq assigned[m]
      BY <2>4, <3>1 DEF Resolve, Goto, Steps, Shapes, ledgerVars, planVars, historyVars
    <3>2. CASE ~ (later[m] \subseteq assigned[m])
      BY <2>4, <3>2, FinishShapes DEF Resolve, Shapes, ledgerVars, historyVars
    <3> QED BY <3>1, <3>2
  <2>5. CASE Flush(m)
    <3>1. Range(batch[m]) \subseteq Chunk
      BY RangeOfSeq DEF Shapes
    <3>2. batch' \in [Machine -> Seq(Chunk)]
      BY <2>5, EmptyBatch, Updated DEF Flush, Shapes
    <3> QED BY <2>5, <3>1, <3>2 DEF Flush, Goto, Steps, Shapes, ledgerVars, historyVars
  <2>6. CASE Done(m)
    BY <2>6, FinishShapes DEF Done, Shapes, ledgerVars, historyVars
  <2>7. ASSUME NEW c \in Chunk, Plan(m, c) PROVE Shapes'
    <3>1. UNCHANGED <<nodes, host, ledger, id, have, pc, assigned, batch, got, outcome,
                      lost, everLost, sent, overlaps, faults>>
      BY <2>7 DEF Plan, ledgerVars, historyVars
    <3> QED BY <2>7, <3>1, PlanShapes DEF Shapes
  <2>8. ASSUME NEW c \in Chunk, Receive(m, c) PROVE Shapes'
    BY <2>8, SinkShapes DEF Receive, Shapes, ledgerVars, historyVars
  <2>9. ASSUME NEW c \in Chunk, OriginReceive(m, c) PROVE Shapes'
    <3>1. /\ UNCHANGED <<nodes, host, ledger, id, pc, assigned, unresolved, source, got,
                         outcome, lost, everLost, overlaps, faults>>
          /\ Sink(m, c)
      BY <2>9 DEF OriginReceive, ledgerVars, lossVars
    <3>2. later' \in [Machine -> SUBSET Chunk] /\ sent' \in [Chunk -> Nat]
      BY <2>9 DEF OriginReceive, Shapes
    <3> QED BY <3>1, <3>2, SinkShapes DEF Shapes
  <2>10. ASSUME NEW c \in Chunk, Report(m, c) PROVE Shapes'
    <3>1. id[m] \in 1 .. nodes
      BY <2>10 DEF Report, Shapes, Identified, None
    <3>2. ledger' \in [Chunk -> Seq(1 .. nodes)]
      BY <2>10, <3>1, ReportShapes DEF Report
    <3> QED BY <2>10, <3>2 DEF Report, Shapes, historyVars
  <2>11. ASSUME NEW g \in Target, GroupDone(m, g) PROVE Shapes'
    BY <2>11, CloseShapes DEF GroupDone, Shapes, ledgerVars, historyVars
  <2>12. ASSUME NEW g \in Target, GroupError(m, g) PROVE Shapes'
    <3>1. Group(m, g) \subseteq Chunk
      BY DEF Group, Shapes
    <3>2. faults' \in Nat
      BY <2>12 DEF GroupError, Fault, Shapes
    <3> QED BY <2>12, <3>1, <3>2, CloseShapes
            DEF GroupError, Shapes, ledgerVars, historyVars
  <2> QED BY <1>5, <2>1, <2>2, <2>3, <2>4, <2>5, <2>6, <2>7, <2>8, <2>9, <2>10, <2>11,
             <2>12 DEF TaskStep
<1>6. ASSUME NEW m \in Machine, Crash(m) PROVE Shapes'
  <2>1. id' \in [Machine -> 0 .. nodes]
    BY <1>6 DEF Crash, Shapes, None
  <2> QED BY <1>6, <2>1, AbortShapes DEF Crash, Shapes, ledgerVars, historyVars
<1>7. ASSUME NEW m \in Machine, BeginFail(m) PROVE Shapes'
  BY <1>7, AbortShapes DEF BeginFail, Shapes, ledgerVars, historyVars
<1>8. ASSUME NEW m \in Machine, PlanFail(m) PROVE Shapes'
  BY <1>8, AbortShapes DEF PlanFail, Shapes, ledgerVars, historyVars
<1>9. ASSUME NEW m \in Machine, OriginFail(m) PROVE Shapes'
  BY <1>9, AbortShapes DEF OriginFail, Shapes, ledgerVars, historyVars
<1>10. ASSUME NEW m \in Machine, FlushFail(m) PROVE Shapes'
  BY <1>10, AbortShapes DEF FlushFail, Shapes, ledgerVars, historyVars
<1>11. ASSUME NEW m \in Machine, ReportFail(m) PROVE Shapes'
  BY <1>11, AbortShapes DEF ReportFail, Shapes, ledgerVars, historyVars
<1>12. ASSUME NEW m \in Machine, NEW g \in Target, GroupShort(m, g) PROVE Shapes'
  <2>1. Group(m, g) \ got[m] \subseteq Chunk
    BY DEF Group, Shapes
  <2> QED BY <1>12, <2>1, CloseShapes DEF GroupShort, Fault, Shapes, ledgerVars, historyVars
<1>13. ASSUME NEW m \in Machine, NEW c \in Chunk, ReceiveFail(m, c) PROVE Shapes'
  BY <1>13, LossShapes
<1>14. ASSUME NEW m \in Machine, NEW c \in Chunk, OriginReceiveFail(m, c) PROVE Shapes'
  <2>1. sent' \in [Chunk -> Nat]
    BY <1>14 DEF OriginReceiveFail, Shapes
  <2> QED BY <1>14, <2>1, AbortShapes DEF OriginReceiveFail, Shapes, ledgerVars, lossVars
<1> QED
  BY <1>1, <1>2, <1>3, <1>4, <1>5, <1>6, <1>7, <1>8, <1>9, <1>10, <1>11, <1>12, <1>13,
     <1>14 DEF Next

-----------------------------------------------------------------------------
(***************************************************************************)
(* Where the chunks of a version are while a task runs.                    *)
(***************************************************************************)
(* What the steps of a task have in its plan. *)
Staged(m) ==
    /\ got[m] \subseteq DOMAIN source[m]
    /\ pc[m] \in {"idle", "queued"} => DOMAIN source[m] = {} /\ later[m] = {}
    /\ pc[m] = "plan" => got[m] = {}
    /\ pc[m] \in {"fetch", "resolve", "origin"} => unresolved[m] = {}
    /\ pc[m] \in {"resolve", "origin", "report"} => DOMAIN source[m] = {}

Stored(m) == have[m] \cup Range(batch[m])
Open(m) == unresolved[m] \cup later[m] \cup (DOMAIN source[m] \ got[m])

(* No chunk of the version is lost sight of but in a failed write. *)
Covered(m) == pc[m] \in {"plan", "fetch", "resolve", "origin"} =>
                Chunk \subseteq Stored(m) \cup Open(m) \cup lost[m]

(* What is reported is stored, and in the ledger when it has been reported. *)
Reported(m) == pc[m] = "report" =>
                /\ Chunk \subseteq have[m] \cup lost[m]
                /\ \A c \in Chunk \ unresolved[m] : id[m] \in Range(ledger[c])

Traced == \A m \in Machine : /\ Staged(m) /\ Covered(m) /\ Reported(m)
                             /\ lost[m] \subseteq everLost[m]

TruthInv == Shapes /\ Identified /\ Traced /\ LedgerTruthful /\ DoneComplete

(* The steps of one task, which leave the scheduler's tables alone: what   *)
(* has to be shown of them is about their own machine.                     *)
Local(m) ==
    /\ nodes' = nodes /\ host' = host /\ ledger' = ledger /\ id' = id
    /\ have[m] \subseteq have'[m] /\ everLost[m] \subseteq everLost'[m]
    /\ lost'[m] \subseteq everLost'[m]
    /\ outcome'[m] = "done" => lost[m] \subseteq lost'[m]
    /\ \A k \in Machine \ {m} :
        /\ lost'[k] = lost[k] /\ everLost'[k] = everLost[k]
        /\ pc'[k] = pc[k] /\ have'[k] = have[k] /\ batch'[k] = batch[k]
        /\ unresolved'[k] = unresolved[k] /\ later'[k] = later[k]
        /\ DOMAIN source'[k] = DOMAIN source[k] /\ got'[k] = got[k]
        /\ outcome'[k] = outcome[k]

LEMMA LocalStep ==
    ASSUME TruthInv, Shapes', NEW m \in Machine, Local(m),
           pc'[m] # "idle" => id[m] # None,
           outcome'[m] \in {outcome[m], "none", "failed"},
           Staged(m)', Covered(m)', Reported(m)'
    PROVE  TruthInv'
<1>1. Identified'
  BY DEF TruthInv, Identified, Local
<1>2. ASSUME NEW k \in Machine PROVE Staged(k)' /\ Covered(k)' /\ Reported(k)'
  <2>1. CASE k = m
    BY <2>1
  <2>2. CASE k # m
    BY <2>2 DEF TruthInv, Traced, Staged, Covered, Reported, Stored, Open, Local
  <2> QED BY <2>1, <2>2
<1>3. \A k \in Machine : have[k] \subseteq have'[k] /\ everLost[k] \subseteq everLost'[k]
  BY DEF Local
<1>6. \A k \in Machine : lost'[k] \subseteq everLost'[k]
  BY DEF Local, TruthInv, Traced
<1>4. LedgerTruthful'
  <2> SUFFICES ASSUME NEW c \in Chunk, NEW n \in Range(ledger[c])
               PROVE  c \in have'[host[n]] \cup everLost'[host[n]]
    BY DEF LedgerTruthful, Local
  <2>1. n \in 1 .. nodes
    BY RangeOfSeq DEF TruthInv, Shapes
  <2>2. c \in have[host[n]] \cup everLost[host[n]] /\ host[n] \in Machine
    BY <2>1 DEF TruthInv, Identified, LedgerTruthful
  <2> QED BY <1>3, <2>2
<1>5. DoneComplete'
  BY <1>3 DEF TruthInv, DoneComplete, Local
<1> QED BY <1>1, <1>2, <1>4, <1>5, <1>6 DEF TruthInv, Traced

(* A task that fails forgets its plan and leaves the store as it is. *)
LEMMA FailTruth ==
    ASSUME TruthInv, Shapes', NEW m \in Machine, Finish(m, "failed"),
           UNCHANGED <<nodes, host, ledger, id, have, lost, everLost>>
    PROVE  TruthInv'
<1>1. /\ pc'[m] = "idle" /\ outcome'[m] = "failed" /\ got'[m] = {}
      /\ later'[m] = {} /\ DOMAIN source'[m] = {}
  BY DEF Finish, Goto, EmptyPlan, TruthInv, Shapes
<1>2. Local(m)
  BY DEF Local, Finish, Goto, TruthInv, Shapes, Traced
<1>3. Staged(m)' /\ Covered(m)' /\ Reported(m)'
  BY <1>1 DEF Staged, Covered, Reported
<1> QED BY <1>1, <1>2, <1>3, LocalStep

(* The end of a group: what it has not delivered is left for later. *)
LEMMA GroupTruth ==
    ASSUME TruthInv, Shapes', NEW m \in Machine, NEW g, NEW left \in SUBSET Chunk,
           pc[m] = "fetch", CloseGroup(m, g, left),
           Group(m, g) \ got[m] \subseteq left,
           UNCHANGED <<nodes, host, ledger, id, have, batch, pc, unresolved, outcome, lost,
                       everLost>>
    PROVE  TruthInv'
<1>1. Local(m)
  BY CloseShapes DEF Local, TruthInv, Traced
<1>2. /\ DOMAIN source'[m] = DOMAIN source[m] \ Group(m, g)
      /\ got'[m] = got[m] \ Group(m, g) /\ later'[m] = later[m] \cup left
  BY CloseShapes DEF TruthInv
<1>3. Staged(m)' /\ Covered(m)' /\ Reported(m)'
  BY <1>2 DEF TruthInv, Traced, Staged, Covered, Reported, Stored, Open
<1>4. id[m] # None
  BY DEF TruthInv, Identified
<1> QED BY <1>1, <1>3, <1>4, LocalStep

LEMMA JoinTruth ==
    ASSUME TruthInv, Shapes', NEW m \in Machine, Join(m)
    PROVE  TruthInv'
<1> USE DEF Join, TruthInv, planVars, historyVars
<1>1. /\ id[m] = None /\ nodes \in Nat /\ nodes' = nodes + 1 /\ nodes + 1 \in Node
      /\ nodes + 1 # None
  BY BoundsAssumption DEF Shapes, Node, None
<1>2. /\ id'[m] = nodes + 1 /\ \A k \in Machine \ {m} : id'[k] = id[k]
      /\ host'[nodes + 1] = m /\ \A n \in 1 .. nodes : host'[n] = host[n]
  BY <1>1 DEF Shapes, Node
<1>3. \A k \in Machine : id[k] \in 0 .. nodes
  BY DEF Shapes
<1>4. Identified'
  BY <1>1, <1>2, <1>3 DEF Identified, None
<1>5. pc[m] = "idle" /\ outcome[m] # "done"
  BY <1>1 DEF Identified
<1>6. \A k \in Machine : Staged(k)' /\ Covered(k)' /\ Reported(k)'
  BY <1>2, <1>5 DEF Traced, Staged, Covered, Reported, Stored, Open
<1>7. LedgerTruthful'
  <2> SUFFICES ASSUME NEW c \in Chunk, NEW n \in Range(ledger[c])
               PROVE  c \in have[host'[n]] \cup everLost[host'[n]]
    BY DEF LedgerTruthful
  <2>1. n \in 1 .. nodes
    BY RangeOfSeq DEF Shapes
  <2> QED BY <1>2, <2>1 DEF LedgerTruthful
<1>8. DoneComplete'
  BY <1>2, <1>5 DEF DoneComplete
<1> QED BY <1>4, <1>6, <1>7, <1>8 DEF Traced

(* The store of the reporting machine has what it reports. *)
LEMMA ReportTruth ==
    ASSUME TruthInv, Shapes', NEW m \in Machine, NEW c \in Chunk, Report(m, c)
    PROVE  TruthInv'
<1> USE DEF Report, TruthInv, historyVars
<1>1. /\ id[m] \in 1 .. nodes /\ host[id[m]] = m
      /\ Chunk \subseteq have[m] \cup lost[m] /\ lost[m] \subseteq everLost[m]
      /\ \A d \in Chunk \ unresolved[m] : id[m] \in Range(ledger[d])
  BY DEF Shapes, Identified, None, Traced, Reported
<1>2. /\ \A d \in Chunk \ {c} : ledger'[d] = ledger[d]
      /\ Range(ledger'[c]) = Range(ledger[c]) \cup {id[m]}
  BY <1>1, ReportShapes
<1>3. \A d \in Chunk : Range(ledger[d]) \subseteq Range(ledger'[d])
  BY <1>2
<1>4. /\ unresolved'[m] = unresolved[m] \ {c}
      /\ \A k \in Machine \ {m} : unresolved'[k] = unresolved[k]
  BY DEF Shapes
<1>5. Identified'
  BY DEF Identified
<1>6. ASSUME NEW k \in Machine PROVE Staged(k)' /\ Covered(k)' /\ Reported(k)'
  <2>1. CASE k = m
    BY <1>1, <1>2, <1>3, <1>4, <2>1 DEF Traced, Staged, Covered, Reported
  <2>2. CASE k # m
    BY <1>3, <1>4, <2>2 DEF Traced, Staged, Covered, Reported, Stored, Open
  <2> QED BY <2>1, <2>2
<1>7. LedgerTruthful'
  BY <1>1, <1>2 DEF LedgerTruthful
<1>8. DoneComplete'
  BY <1>3 DEF DoneComplete
<1> QED BY <1>5, <1>6, <1>7, <1>8 DEF Traced

LEMMA DoneTruth ==
    ASSUME TruthInv, Shapes', NEW m \in Machine, Done(m)
    PROVE  TruthInv'
<1> USE DEF Done, TruthInv, ledgerVars, historyVars
<1>1. /\ id[m] # None
      /\ \A c \in Chunk : c \in have[m] \cup lost[m] /\ id[m] \in Range(ledger[c])
  BY DEF Identified, Traced, Reported
<1>2. /\ pc'[m] = "idle" /\ got'[m] = {} /\ later'[m] = {} /\ DOMAIN source'[m] = {}
      /\ \A k \in Machine \ {m} :
            /\ pc'[k] = pc[k] /\ batch'[k] = batch[k]
            /\ unresolved'[k] = unresolved[k] /\ later'[k] = later[k]
            /\ source'[k] = source[k] /\ got'[k] = got[k] /\ outcome'[k] = outcome[k]
  BY DEF Finish, Goto, EmptyPlan, Shapes
<1>3. Identified'
  BY <1>1, <1>2 DEF Identified
<1>4. ASSUME NEW k \in Machine PROVE Staged(k)' /\ Covered(k)' /\ Reported(k)'
  <2>1. CASE k = m
    BY <1>2, <2>1 DEF Staged, Covered, Reported
  <2>2. CASE k # m
    BY <1>2, <2>2 DEF Traced, Staged, Covered, Reported, Stored, Open
  <2> QED BY <2>1, <2>2
<1>5. LedgerTruthful' /\ DoneComplete'
  BY <1>1, <1>2 DEF LedgerTruthful, DoneComplete
<1> QED BY <1>3, <1>4, <1>5 DEF Traced

LEMMA CrashTruth ==
    ASSUME TruthInv, Shapes', NEW m \in Machine, Crash(m)
    PROVE  TruthInv'
<1> USE DEF Crash, TruthInv, ledgerVars, historyVars
<1>1. /\ id'[m] = None /\ outcome'[m] = "none" /\ pc'[m] = "idle"
      /\ got'[m] = {} /\ later'[m] = {} /\ DOMAIN source'[m] = {}
      /\ \A k \in Machine \ {m} :
            /\ id'[k] = id[k] /\ pc'[k] = pc[k] /\ batch'[k] = batch[k]
            /\ unresolved'[k] = unresolved[k] /\ later'[k] = later[k]
            /\ source'[k] = source[k] /\ got'[k] = got[k] /\ outcome'[k] = outcome[k]
  BY DEF Finish, Goto, EmptyPlan, Shapes
<1>2. Identified'
  BY <1>1 DEF Identified
<1>3. ASSUME NEW k \in Machine PROVE Staged(k)' /\ Covered(k)' /\ Reported(k)'
  <2>1. CASE k = m
    BY <1>1, <2>1 DEF Staged, Covered, Reported
  <2>2. CASE k # m
    BY <1>1, <2>2 DEF Traced, Staged, Covered, Reported, Stored, Open
  <2> QED BY <2>1, <2>2
<1>4. LedgerTruthful' /\ DoneComplete'
  BY <1>1 DEF LedgerTruthful, DoneComplete
<1> QED BY <1>2, <1>3, <1>4 DEF Traced

(* The steps of a task between its begin and its reports. *)
LEMMA TaskTruth ==
    ASSUME TruthInv, Shapes', NEW m \in Machine, TaskStep(m)
    PROVE  TruthInv'
<1> USE DEF TruthInv, historyVars, lossVars
<1>a. Staged(m) /\ Covered(m) /\ Reported(m) /\ lost[m] \subseteq everLost[m]
  BY DEF Traced
<1>b. pc[m] # "idle" => id[m] # None
  BY DEF Identified
<1>1. CASE Begin(m)
  <2>1. /\ pc[m] = "queued" /\ pc'[m] = "plan" /\ unresolved'[m] = Chunk \ have[m]
        /\ UNCHANGED <<lost, have, batch, source, got, later, outcome>>
    BY <1>1 DEF Begin, Goto, Shapes
  <2>2. Local(m)
    BY <1>a, <1>1 DEF Begin, Goto, Local, Shapes, ledgerVars
  <2>3. Staged(m)' /\ Covered(m)' /\ Reported(m)'
    BY <1>a, <2>1 DEF Staged, Covered, Reported, Stored, Open
  <2> QED BY <1>b, <2>1, <2>2, <2>3, LocalStep
<1>2. CASE Planned(m)
  <2>1. /\ pc[m] = "plan" /\ unresolved[m] = {} /\ pc'[m] \in {"resolve", "fetch"}
        /\ DOMAIN source[m] # {} => pc'[m] = "fetch"
        /\ UNCHANGED <<lost, have, batch, source, got, later, unresolved, outcome>>
    BY <1>2 DEF Planned, Goto, Shapes, planVars
  <2>2. Local(m)
    BY <1>a, <1>2 DEF Planned, Goto, Local, Shapes, ledgerVars, planVars
  <2>3. Staged(m)' /\ Covered(m)' /\ Reported(m)'
    BY <1>a, <2>1 DEF Staged, Covered, Reported, Stored, Open
  <2> QED BY <1>b, <2>1, <2>2, <2>3, LocalStep
<1>3. CASE NextRound(m)
  <2>1. /\ pc[m] = "fetch" /\ DOMAIN source[m] = {}
        /\ UNCHANGED <<lost, have, batch, source, got, outcome>>
        /\ \/ pc'[m] = "plan" /\ unresolved'[m] = later[m] /\ later'[m] = {}
           \/ pc'[m] = "resolve" /\ UNCHANGED <<unresolved, later>>
    BY <1>3 DEF NextRound, Goto, Shapes
  <2>2. Local(m)
    BY <1>a, <1>3 DEF NextRound, Goto, Local, Shapes, ledgerVars
  <2>3. Staged(m)' /\ Covered(m)' /\ Reported(m)'
    BY <1>a, <2>1 DEF Staged, Covered, Reported, Stored, Open
  <2> QED BY <1>b, <2>1, <2>2, <2>3, LocalStep
<1>4. CASE Resolve(m)
  <2>1. CASE later[m] \subseteq assigned[m]
    <3>1. /\ pc[m] = "resolve" /\ pc'[m] = "origin"
          /\ UNCHANGED <<lost, have, batch, source, got, later, unresolved, outcome>>
      BY <1>4, <2>1 DEF Resolve, Goto, Shapes, planVars
    <3>2. Local(m)
      BY <1>a, <1>4, <2>1 DEF Resolve, Goto, Local, Shapes, ledgerVars, planVars
    <3>3. Staged(m)' /\ Covered(m)' /\ Reported(m)'
      BY <1>a, <3>1 DEF Staged, Covered, Reported, Stored, Open
    <3> QED BY <1>b, <3>1, <3>2, <3>3, LocalStep
  <2>2. CASE ~ (later[m] \subseteq assigned[m])
    BY <1>4, <2>2, FailTruth DEF Resolve, ledgerVars
  <2> QED BY <2>1, <2>2
<1>5. CASE Flush(m)
  <2>1. /\ pc[m] = "origin" /\ pc'[m] = "report" /\ later[m] = {}
        /\ have'[m] = have[m] \cup Range(batch[m]) /\ unresolved'[m] = Chunk
        /\ UNCHANGED <<lost, source, got, later, outcome>>
    BY <1>5 DEF Flush, Goto, Shapes
  <2>2. Local(m)
    BY <1>a, <1>5 DEF Flush, Goto, Local, Shapes, ledgerVars
  <2>3. Staged(m)' /\ Covered(m)' /\ Reported(m)'
    BY <1>a, <2>1 DEF Staged, Covered, Reported, Stored, Open
  <2> QED BY <1>b, <2>1, <2>2, <2>3, LocalStep
<1>6. CASE Done(m)
  BY <1>6, DoneTruth
<1>7. ASSUME NEW c \in Chunk, Plan(m, c) PROVE TruthInv'
  <2>1. pc[m] = "plan" /\ UNCHANGED <<lost, pc, have, batch, got, outcome>>
    BY <1>7 DEF Plan
  <2>2. Local(m)
    BY <1>a, <1>7, <2>1, PlanShapes DEF Plan, Local, ledgerVars
  <2>3. /\ unresolved'[m] = unresolved[m] \ {c}
        /\ DOMAIN source'[m] \cup later'[m] = DOMAIN source[m] \cup later[m] \cup {c}
    BY <1>7, PlanShapes
  <2>4. Staged(m)' /\ Covered(m)' /\ Reported(m)'
    BY <1>a, <2>1, <2>3 DEF Staged, Covered, Reported, Stored, Open
  <2> QED BY <1>b, <2>1, <2>2, <2>4, LocalStep
<1>8. ASSUME NEW c \in Chunk, Receive(m, c) PROVE TruthInv'
  <2>1. /\ pc[m] = "fetch" /\ c \in DOMAIN source[m] /\ got'[m] = got[m] \cup {c}
        /\ UNCHANGED <<lost, pc, source, unresolved, later, outcome>>
    BY <1>8 DEF Receive, Shapes
  <2>2. Sink(m, c)
    BY <1>8 DEF Receive
  <2>3. /\ Stored(m)' = Stored(m) \cup {c} /\ have[m] \subseteq have'[m]
        /\ \A k \in Machine \ {m} : have'[k] = have[k] /\ batch'[k] = batch[k]
    BY <2>2, SinkShapes DEF Stored
  <2>4. Local(m)
    BY <1>a, <1>8, <2>1, <2>3 DEF Receive, Local, Shapes, ledgerVars
  <2>5. Staged(m)' /\ Covered(m)' /\ Reported(m)'
    BY <1>a, <2>1, <2>3 DEF Staged, Covered, Reported, Open
  <2> QED BY <1>b, <2>1, <2>4, <2>5, LocalStep
<1>9. ASSUME NEW c \in Chunk, OriginReceive(m, c) PROVE TruthInv'
  <2>1. /\ pc[m] = "origin" /\ later'[m] = later[m] \ {c}
        /\ UNCHANGED <<lost, pc, source, got, unresolved, outcome>>
    BY <1>9 DEF OriginReceive, Shapes
  <2>2. Sink(m, c)
    BY <1>9 DEF OriginReceive
  <2>3. /\ Stored(m)' = Stored(m) \cup {c} /\ have[m] \subseteq have'[m]
        /\ \A k \in Machine \ {m} : have'[k] = have[k] /\ batch'[k] = batch[k]
    BY <2>2, SinkShapes DEF Stored
  <2>4. Local(m)
    BY <1>a, <1>9, <2>1, <2>3 DEF OriginReceive, Local, Shapes, ledgerVars
  <2>5. Staged(m)' /\ Covered(m)' /\ Reported(m)'
    BY <1>a, <2>1, <2>3 DEF Staged, Covered, Reported, Open
  <2> QED BY <1>b, <2>1, <2>4, <2>5, LocalStep
<1>10. ASSUME NEW c \in Chunk, Report(m, c) PROVE TruthInv'
  BY <1>10, ReportTruth
<1>11. ASSUME NEW g \in Target, GroupDone(m, g) PROVE TruthInv'
  BY <1>11, GroupTruth DEF GroupDone, ledgerVars
<1>12. ASSUME NEW g \in Target, GroupError(m, g) PROVE TruthInv'
  <2>1. Group(m, g) \subseteq Chunk
    BY DEF Group, Shapes
  <2> QED BY <1>12, <2>1, GroupTruth DEF GroupError, ledgerVars
<1> QED
  BY <1>1, <1>2, <1>3, <1>4, <1>5, <1>6, <1>7, <1>8, <1>9, <1>10, <1>11, <1>12
     DEF TaskStep

(* A failed write: what the batch held of the group is in the group, and   *)
(* left for later; the rest is lost.                                       *)
LEMMA LossTruth ==
    ASSUME TruthInv, NEW m \in Machine, NEW c \in Chunk, ReceiveFail(m, c)
    PROVE  TruthInv'
<1> DEFINE g == source[m][c]
<1>1. /\ pc[m] = "fetch" /\ CloseGroup(m, g, Group(m, g))
      /\ UNCHANGED <<nodes, host, ledger, id, have, pc, unresolved, outcome>>
  BY DEF ReceiveFail, ledgerVars
<1>2. /\ Shapes' /\ batch'[m] = <<>>
      /\ lost'[m] = lost[m] \cup (Range(batch[m]) \ Group(m, g))
      /\ everLost[m] \subseteq everLost'[m] /\ Range(batch[m]) \ Group(m, g) \subseteq everLost'[m]
      /\ \A k \in Machine \ {m} : /\ batch'[k] = batch[k] /\ lost'[k] = lost[k]
                                  /\ everLost'[k] = everLost[k]
  BY LossShapes DEF TruthInv
<1>3. Group(m, g) \subseteq Chunk /\ Group(m, g) \subseteq DOMAIN source[m]
  BY DEF Group, TruthInv, Shapes
<1> HIDE DEF g
<1>4. /\ DOMAIN source'[m] = DOMAIN source[m] \ Group(m, g)
      /\ got'[m] = got[m] \ Group(m, g) /\ later'[m] = later[m] \cup Group(m, g)
      /\ \A k \in Machine \ {m} : /\ DOMAIN source'[k] = DOMAIN source[k]
                                  /\ got'[k] = got[k] /\ later'[k] = later[k]
  BY <1>1, <1>3, CloseShapes DEF TruthInv
<1>5. Local(m)
  BY <1>1, <1>2, <1>4 DEF Local, TruthInv, Traced
<1>6. Staged(m)' /\ Reported(m)'
  BY <1>1, <1>4 DEF TruthInv, Traced, Staged, Reported
<1>7. Covered(m)'
  <2>1. Chunk \subseteq Stored(m) \cup Open(m) \cup lost[m]
    BY <1>1 DEF TruthInv, Traced, Covered
  <2> QED BY <1>1, <1>2, <1>3, <1>4, <2>1 DEF Covered, Stored, Open
<1>8. id[m] # None
  BY <1>1 DEF TruthInv, Identified
<1> QED BY <1>1, <1>2, <1>5, <1>6, <1>7, <1>8, LocalStep

LEMMA TruthStep ==
    ASSUME TruthInv, [Next]_vars
    PROVE  TruthInv'
<1>1. Shapes'
  BY ShapesStep DEF TruthInv
<1>2. ASSUME UNCHANGED <<nodes, host, ledger, id, have, pc, batch, unresolved, later,
                         source, got, outcome, lost, everLost>>
      PROVE  TruthInv'
  BY <1>1, <1>2 DEF TruthInv, Identified, Traced, Staged, Covered, Reported, Stored, Open,
                    LedgerTruthful, DoneComplete
<1>3. CASE UNCHANGED vars
  BY <1>2, <1>3 DEF vars
<1>4. ASSUME NEW n \in Node, MarkOffline(n) PROVE TruthInv'
  BY <1>2, <1>4 DEF MarkOffline, planVars, historyVars
<1>5. ASSUME NEW m \in Machine, CreateTask(m) PROVE TruthInv'
  <2>1. /\ pc[m] = "idle" /\ pc'[m] = "queued" /\ id[m] # None
        /\ outcome'[m] = "none" /\ UNCHANGED <<have, batch, source, got, later, unresolved>>
    BY <1>5 DEF CreateTask, Goto, TruthInv, Shapes, planVars
  <2>2. Local(m)
    BY <1>5 DEF CreateTask, Goto, Local, TruthInv, Shapes, Traced, ledgerVars, planVars
  <2>3. Staged(m)' /\ Covered(m)' /\ Reported(m)'
    BY <2>1 DEF TruthInv, Traced, Staged, Covered, Reported
  <2> QED BY <1>1, <2>1, <2>2, <2>3, LocalStep
<1>6. ASSUME NEW m \in Machine, NEW g \in Target, GroupShort(m, g) PROVE TruthInv'
  <2>1. Group(m, g) \ got[m] \subseteq Chunk
    BY DEF Group, TruthInv, Shapes
  <2> QED BY <1>1, <1>6, <2>1, GroupTruth DEF GroupShort, ledgerVars, historyVars
<1>7. ASSUME NEW m \in Machine,
             BeginFail(m) \/ PlanFail(m) \/ OriginFail(m) \/ FlushFail(m) \/ ReportFail(m)
      PROVE  TruthInv'
  BY <1>1, <1>7, FailTruth
     DEF BeginFail, PlanFail, OriginFail, FlushFail, ReportFail, ledgerVars, historyVars
<1>8. ASSUME NEW m \in Machine, NEW c \in Chunk, OriginReceiveFail(m, c) PROVE TruthInv'
  BY <1>1, <1>8, FailTruth DEF OriginReceiveFail, ledgerVars, lossVars
<1>9. ASSUME NEW m \in Machine, NEW c \in Chunk, ReceiveFail(m, c) PROVE TruthInv'
  BY <1>9, LossTruth
<1> QED
  BY <1>1, <1>3, <1>4, <1>5, <1>6, <1>7, <1>8, <1>9, JoinTruth, TaskTruth, CrashTruth DEF Next

LEMMA TruthInit == Init => TruthInv
<1> SUFFICES ASSUME Init PROVE TruthInv
  OBVIOUS
<1>1. Shapes
  BY ShapesInit
<1>2. Identified /\ LedgerTruthful /\ DoneComplete
  BY DEF Init, Identified, LedgerTruthful, DoneComplete, None, Range
<1>3. Traced
  BY DEF Init, Traced, Staged, Covered, Reported, EmptyPlan
<1> QED BY <1>1, <1>2, <1>3 DEF TruthInv

(* For any number of machines, restarts and failures: a node the ledger    *)
(* lists for a chunk has it in its pack store, unless a write that failed  *)
(* in mid-download took it with another group's chunks (flush_pending).    *)
(* Nothing else comes between: report_chunks is called after the last      *)
(* batch was written, and a failed task reports nothing.                   *)
THEOREM LedgerAlwaysTruthful == Spec => []LedgerTruthful
<1>1. TruthInv /\ [Next]_vars => TruthInv'
  BY TruthStep
<1>2. TruthInv => LedgerTruthful
  BY DEF TruthInv
<1> QED
  BY TruthInit, <1>1, <1>2, PTL DEF Spec

(* A task that run_idc ends as done has the whole version in the store but *)
(* for what a failed write of this very task took, and the ledger lists    *)
(* its node for every chunk, whatever its sources left out and however its *)
(* rounds went.                                                            *)
THEOREM DoneAlwaysComplete == Spec => []DoneComplete
<1>1. TruthInv /\ [Next]_vars => TruthInv'
  BY TruthStep
<1>2. TruthInv => DoneComplete
  BY DEF TruthInv
<1> QED
  BY TruthInit, <1>1, <1>2, PTL DEF Spec

-----------------------------------------------------------------------------
(***************************************************************************)
(* What the origin may still have to send.                                 *)
(***************************************************************************)
(* Tasks to which the chunk is assigned, and those that may yet ask for it. *)
Charged(c) == {m \in Machine : c \in assigned[m]}
Owing(c) == {m \in Charged(c) : pc[m] \in {"origin", "report"} => c \in later[m]}

(* A chunk nobody holds and nobody is charged with has its one transfer    *)
(* still to come.                                                          *)
Allowance(c) == IF ledger[c] = <<>> /\ Charged(c) = {} THEN 0 ELSE 1
Budget ==
    \A c \in Chunk :
        sent[c] + Cardinality(Owing(c)) <= overlaps + faults + Allowance(c)

(* Only a running task is charged; it asks the origin for its share only,  *)
(* and it has asked for all of it when it reports.                         *)
Assigned(m) ==
    /\ pc[m] = "idle" => assigned[m] = {}
    /\ pc[m] = "origin" => later[m] \subseteq assigned[m]
    /\ pc[m] = "report" => later[m] = {}

EgressInv == TruthInv /\ (\A m \in Machine : Assigned(m)) /\ Budget

LEMMA OwingCount ==
    ASSUME NEW S \in SUBSET Machine
    PROVE  IsFiniteSet(S) /\ Cardinality(S) \in Nat
  BY MachineAssumption, FS_Subset, FS_CardinalityType

(* Nothing leaves the origin, and no task is charged that was not. *)
LEMMA CalmBudget ==
    ASSUME EgressInv, Shapes', sent' = sent, overlaps' = overlaps,
           faults' \in {faults, faults + 1},
           \A c \in Chunk : Owing(c)' \subseteq Owing(c),
           \A c \in Chunk : Allowance(c) <= Allowance(c)' \/ faults' = faults + 1
    PROVE  Budget'
<1> SUFFICES ASSUME NEW c \in Chunk
             PROVE  sent'[c] + Cardinality(Owing(c)') <= overlaps' + faults' + Allowance(c)'
  BY DEF Budget
<1>1. Owing(c) \subseteq Machine
  BY DEF Owing, Charged
<1>2. /\ Cardinality(Owing(c)') <= Cardinality(Owing(c))
      /\ Cardinality(Owing(c)) \in Nat /\ Cardinality(Owing(c)') \in Nat
  BY <1>1, OwingCount, FS_Subset
<1>3. sent[c] + Cardinality(Owing(c)) <= overlaps + faults + Allowance(c)
  BY DEF EgressInv, Budget
<1>4. Allowance(c) \in 0 .. 1 /\ Allowance(c)' \in 0 .. 1
  BY DEF Allowance
<1>5. sent[c] \in Nat /\ overlaps \in Nat /\ faults \in Nat
  BY DEF EgressInv, TruthInv, Shapes
<1> QED BY <1>2, <1>3, <1>4, <1>5

(* A step of a task that goes on. *)
LEMMA QuietBudget ==
    ASSUME EgressInv, Shapes', NEW m \in Machine,
           UNCHANGED <<sent, overlaps, assigned, ledger>>,
           faults' \in {faults, faults + 1},
           \A k \in Machine \ {m} : pc'[k] = pc[k] /\ later'[k] = later[k],
           pc[m] \in {"origin", "report"} =>
                pc'[m] \in {"origin", "report"} /\ later'[m] \subseteq later[m]
    PROVE  Budget'
<1>1. ASSUME NEW c \in Chunk
      PROVE  Owing(c)' \subseteq Owing(c) /\ Allowance(c)' = Allowance(c)
  BY DEF Owing, Charged, Allowance
<1>2. \A c \in Chunk : Allowance(c) <= Allowance(c)'
  BY <1>1 DEF Allowance
<1> QED BY <1>1, <1>2, CalmBudget

(* The task ends and is no longer charged. *)
LEMMA FinishOwing ==
    ASSUME EgressInv, NEW m \in Machine, NEW r, Finish(m, r), NEW c \in Chunk
    PROVE  Charged(c)' = Charged(c) \ {m} /\ Owing(c)' = Owing(c) \ {m}
<1>1. /\ assigned'[m] = {} /\ pc'[m] = "idle"
      /\ \A k \in Machine \ {m} :
            assigned'[k] = assigned[k] /\ pc'[k] = pc[k] /\ later'[k] = later[k]
  BY DEF Finish, Goto, EgressInv, TruthInv, Shapes
<1> QED BY <1>1 DEF Charged, Owing

(* It fails by a fault. *)
LEMMA FaultBudget ==
    ASSUME EgressInv, Shapes', NEW m \in Machine, NEW r, Finish(m, r),
           UNCHANGED <<sent, overlaps, ledger>>, faults' = faults + 1
    PROVE  Budget'
<1>1. \A c \in Chunk : Owing(c)' \subseteq Owing(c)
  BY FinishOwing
<1> QED BY <1>1, CalmBudget

(* It is done: every chunk now has a holder. *)
LEMMA DoneBudget ==
    ASSUME EgressInv, Shapes', NEW m \in Machine, Done(m)
    PROVE  Budget'
<1>1. ASSUME NEW c \in Chunk
      PROVE  Owing(c)' \subseteq Owing(c) /\ Allowance(c)' = 1 /\ Allowance(c) = 1
  <2>1. id[m] \in Range(ledger[c])
    BY DEF Done, EgressInv, TruthInv, Traced, Reported
  <2>2. ledger[c] # <<>>
    BY <2>1 DEF Range
  <2> QED BY <2>2, FinishOwing DEF Done, Allowance, ledgerVars
<1>2. \A c \in Chunk : Allowance(c) <= Allowance(c)'
  BY <1>1
<1> QED BY <1>1, <1>2, CalmBudget DEF Done, historyVars

(* It fails because a chunk of others is still missing: it has had nothing *)
(* from the origin.                                                        *)
LEMMA ResolveBudget ==
    ASSUME EgressInv, Shapes', NEW m \in Machine, pc[m] = "resolve", Finish(m, "failed"),
           UNCHANGED <<sent, overlaps, ledger, faults>>
    PROVE  Budget'
<1> SUFFICES ASSUME NEW c \in Chunk
             PROVE  sent'[c] + Cardinality(Owing(c)') <= overlaps' + faults' + Allowance(c)'
  BY DEF Budget
<1>1. Charged(c)' = Charged(c) \ {m} /\ Owing(c)' = Owing(c) \ {m}
  BY FinishOwing
<1>2. m \in Charged(c) => m \in Owing(c)
  BY DEF Owing
<1>3. IsFiniteSet(Owing(c)) /\ Cardinality(Owing(c)) \in Nat
  BY OwingCount DEF Owing, Charged
<1>4. Cardinality(Owing(c)') = IF m \in Owing(c) THEN Cardinality(Owing(c)) - 1
                                                ELSE Cardinality(Owing(c))
  BY <1>1, <1>3, FS_RemoveElement
<1>5. sent[c] + Cardinality(Owing(c)) <= overlaps + faults + Allowance(c)
  BY DEF EgressInv, Budget
<1>6. sent[c] \in Nat /\ overlaps \in Nat /\ faults \in Nat
  BY DEF EgressInv, TruthInv, Shapes
<1>7. CASE m \in Charged(c)
  <2>1. Allowance(c) = 1 /\ Allowance(c)' \in 0 .. 1
    BY <1>7 DEF Allowance
  <2> QED BY <1>2, <1>3, <1>4, <1>5, <1>6, <1>7, <2>1
<1>8. CASE m \notin Charged(c)
  <2>1. Allowance(c)' = Allowance(c) /\ m \notin Owing(c)
    BY <1>1, <1>8 DEF Allowance, Owing
  <2>2. Allowance(c) \in 0 .. 1
    BY DEF Allowance
  <2> QED BY <1>3, <1>4, <1>5, <1>6, <2>1, <2>2
<1> QED BY <1>7, <1>8

(* create_task charges a task with a chunk nobody holds: the first one, or *)
(* one that overlaps another.                                              *)
LEMMA CreateBudget ==
    ASSUME EgressInv, Shapes', NEW m \in Machine, CreateTask(m)
    PROVE  Budget'
<1> SUFFICES ASSUME NEW c \in Chunk
             PROVE  sent'[c] + Cardinality(Owing(c)') <= overlaps' + faults' + Allowance(c)'
  BY DEF Budget
<1>1. /\ assigned'[m] = AssignIdcChunks /\ pc[m] = "idle" /\ pc'[m] = "queued"
      /\ UNCHANGED <<ledger, later, sent, faults>>
      /\ \A k \in Machine \ {m} : assigned'[k] = assigned[k] /\ pc'[k] = pc[k]
  BY DEF CreateTask, Goto, EgressInv, TruthInv, Shapes, ledgerVars, planVars
<1>2. assigned[m] = {}
  BY <1>1 DEF EgressInv, Assigned
<1>3. sent[c] + Cardinality(Owing(c)) <= overlaps + faults + Allowance(c)
  BY DEF EgressInv, Budget
<1>4. sent[c] \in Nat /\ overlaps \in Nat /\ faults \in Nat
  BY DEF EgressInv, TruthInv, Shapes
<1>5. IsFiniteSet(Owing(c)) /\ Cardinality(Owing(c)) \in Nat /\ m \notin Owing(c)
  BY <1>2, OwingCount DEF Owing, Charged
<1>6. overlaps' \in Nat /\ overlaps <= overlaps'
  BY <1>4 DEF CreateTask
<1>7. CASE ledger[c] = <<>>
  <2>1. Charged(c)' = Charged(c) \cup {m} /\ Owing(c)' = Owing(c) \cup {m}
    BY <1>1, <1>2, <1>7 DEF Charged, Owing, AssignIdcChunks, ChunkHolders
  <2>2. Cardinality(Owing(c)') = Cardinality(Owing(c)) + 1
    BY <1>5, <2>1, FS_AddElement
  <2>3. Allowance(c)' = 1
    BY <2>1 DEF Allowance
  <2>4. CASE \E k \in Machine : pc[k] # "idle"
    <3>1. overlaps' = overlaps + 1
      BY <2>4 DEF CreateTask
    <3>2. Allowance(c) \in 0 .. 1
      BY DEF Allowance
    <3> QED BY <1>1, <1>3, <1>4, <1>5, <2>2, <2>3, <3>1, <3>2
  <2>5. CASE \A k \in Machine : pc[k] = "idle"
    <3>1. Charged(c) = {}
      BY <2>5 DEF Charged, EgressInv, Assigned
    <3>2. Allowance(c) = 0
      BY <1>7, <3>1 DEF Allowance
    <3> QED BY <1>1, <1>3, <1>4, <1>5, <1>6, <2>2, <2>3, <3>2
  <2> QED BY <2>4, <2>5
<1>8. CASE ledger[c] # <<>>
  <2>1. Charged(c)' = Charged(c) /\ Owing(c)' = Owing(c)
    BY <1>1, <1>2, <1>8 DEF Charged, Owing, AssignIdcChunks, ChunkHolders
  <2>2. Allowance(c) = 1 /\ Allowance(c)' = 1
    BY <1>1, <1>8 DEF Allowance
  <2> QED BY <1>1, <1>3, <1>4, <1>5, <1>6, <2>1, <2>2
<1> QED BY <1>7, <1>8

(* A chunk leaves the origin: the task no longer owes it. *)
LEMMA ReceiveBudget ==
    ASSUME EgressInv, Shapes', NEW m \in Machine, NEW d \in Chunk, OriginReceive(m, d)
    PROVE  Budget'
<1> SUFFICES ASSUME NEW c \in Chunk
             PROVE  sent'[c] + Cardinality(Owing(c)') <= overlaps' + faults' + Allowance(c)'
  BY DEF Budget
<1>1. /\ pc[m] = "origin" /\ d \in later[m] /\ later'[m] = later[m] \ {d}
      /\ UNCHANGED <<ledger, pc, assigned, faults, overlaps>>
      /\ \A k \in Machine \ {m} : later'[k] = later[k]
      /\ sent'[c] = IF c = d THEN sent[c] + 1 ELSE sent[c]
  BY DEF OriginReceive, EgressInv, TruthInv, Shapes, ledgerVars
<1>2. d \in assigned[m]
  BY <1>1 DEF EgressInv, Assigned
<1>3. sent[c] + Cardinality(Owing(c)) <= overlaps + faults + Allowance(c)
  BY DEF EgressInv, Budget
<1>4. sent[c] \in Nat /\ overlaps \in Nat /\ faults \in Nat
  BY DEF EgressInv, TruthInv, Shapes
<1>5. IsFiniteSet(Owing(c)) /\ Cardinality(Owing(c)) \in Nat
  BY OwingCount DEF Owing, Charged
<1>6. Charged(c)' = Charged(c)
  BY <1>1 DEF Charged
<1>7. Allowance(c)' = Allowance(c) /\ Allowance(c) \in 0 .. 1
  BY <1>1, <1>6 DEF Allowance
<1>8. CASE c = d
  <2>1. Owing(c)' = Owing(c) \ {m} /\ m \in Owing(c)
    BY <1>1, <1>2, <1>6, <1>8 DEF Owing, Charged
  <2>2. Cardinality(Owing(c)') = Cardinality(Owing(c)) - 1
    BY <1>5, <2>1, FS_RemoveElement
  <2> QED BY <1>1, <1>3, <1>4, <1>5, <1>7, <1>8, <2>2
<1>9. CASE c # d
  <2>1. \A k \in Machine : c \in later'[k] <=> c \in later[k]
    BY <1>1, <1>9
  <2>2. Owing(c)' = Owing(c)
    BY <1>1, <1>6, <2>1 DEF Owing, Charged
  <2> QED BY <1>1, <1>3, <1>4, <1>5, <1>7, <1>9, <2>2
<1> QED BY <1>8, <1>9

(* It leaves the origin, its write fails, and with it the task. *)
LEMMA LostBudget ==
    ASSUME EgressInv, Shapes', NEW m \in Machine, NEW d \in Chunk, OriginReceiveFail(m, d)
    PROVE  Budget'
<1> SUFFICES ASSUME NEW c \in Chunk
             PROVE  sent'[c] + Cardinality(Owing(c)') <= overlaps' + faults' + Allowance(c)'
  BY DEF Budget
<1>1. /\ pc[m] = "origin" /\ d \in later[m] /\ faults' = faults + 1
      /\ overlaps' = overlaps /\ Finish(m, "failed")
      /\ sent'[c] = IF c = d THEN sent[c] + 1 ELSE sent[c]
  BY DEF OriginReceiveFail, Fault, EgressInv, TruthInv, Shapes
<1>2. d \in assigned[m]
  BY <1>1 DEF EgressInv, Assigned
<1>3. sent[c] + Cardinality(Owing(c)) <= overlaps + faults + Allowance(c)
  BY DEF EgressInv, Budget
<1>4. sent[c] \in Nat /\ overlaps \in Nat /\ faults \in Nat
  BY DEF EgressInv, TruthInv, Shapes
<1>5. IsFiniteSet(Owing(c)) /\ Cardinality(Owing(c)) \in Nat
  BY OwingCount DEF Owing, Charged
<1>6. Owing(c)' = Owing(c) \ {m}
  BY <1>1, FinishOwing
<1>7. Allowance(c) \in 0 .. 1 /\ Allowance(c)' \in 0 .. 1
  BY DEF Allowance
<1>8. CASE c = d
  <2>1. m \in Owing(c)
    BY <1>1, <1>2, <1>8 DEF Owing, Charged
  <2>2. Cardinality(Owing(c)') = Cardinality(Owing(c)) - 1
    BY <1>5, <1>6, <2>1, FS_RemoveElement
  <2> QED BY <1>1, <1>3, <1>4, <1>5, <1>7, <1>8, <2>2
<1>9. CASE c # d
  <2>1. Cardinality(Owing(c)') <= Cardinality(Owing(c)) /\ Cardinality(Owing(c)') \in Nat
    BY <1>5, <1>6, FS_Subset, FS_CardinalityType
  <2> QED BY <1>1, <1>3, <1>4, <1>5, <1>7, <1>9, <2>1
<1> QED BY <1>8, <1>9

(* The steps of a task, by what they do to its own charge. *)
LEMMA EgressTask ==
    ASSUME EgressInv, Shapes', NEW m \in Machine, TaskStep(m)
    PROVE  (\A k \in Machine : Assigned(k)') /\ Budget'
<1> DEFINE Own == \A k \in Machine \ {m} :
                    /\ pc'[k] = pc[k] /\ later'[k] = later[k]
                    /\ assigned'[k] = assigned[k]
<1>a. Assigned(m) /\ Staged(m)
  BY DEF EgressInv, TruthInv, Traced
<1>b. ASSUME Own, Assigned(m)' PROVE \A k \in Machine : Assigned(k)'
  BY <1>b DEF EgressInv, Assigned
<1>c. faults \in {faults, faults + 1}
  OBVIOUS
<1> USE DEF EgressInv, TruthInv, ledgerVars, historyVars
<1>1. CASE Begin(m)
  <2>1. /\ pc[m] = "queued" /\ pc'[m] = "plan" /\ Own
        /\ UNCHANGED <<sent, overlaps, assigned, ledger, faults, later>>
    BY <1>1 DEF Begin, Goto, Shapes
  <2> QED BY <1>a, <1>b, <1>c, <2>1, QuietBudget DEF Assigned
<1>2. CASE Planned(m)
  <2>1. /\ pc[m] = "plan" /\ pc'[m] \in {"resolve", "fetch"} /\ Own
        /\ UNCHANGED <<sent, overlaps, assigned, ledger, faults, later>>
    BY <1>2 DEF Planned, Goto, Shapes, planVars
  <2> QED BY <1>a, <1>b, <1>c, <2>1, QuietBudget DEF Assigned
<1>3. CASE NextRound(m)
  <2>1. /\ pc[m] = "fetch" /\ pc'[m] \in {"plan", "resolve"} /\ Own
        /\ UNCHANGED <<sent, overlaps, assigned, ledger, faults>>
    BY <1>3 DEF NextRound, Goto, Shapes
  <2> QED BY <1>a, <1>b, <1>c, <2>1, QuietBudget DEF Assigned
<1>4. CASE Resolve(m)
  <2>1. CASE later[m] \subseteq assigned[m]
    <3>1. /\ pc[m] = "resolve" /\ pc'[m] = "origin" /\ Own
          /\ UNCHANGED <<sent, overlaps, assigned, ledger, faults, later>>
      BY <1>4, <2>1 DEF Resolve, Goto, Shapes, planVars
    <3> QED BY <1>a, <1>b, <1>c, <2>1, <3>1, QuietBudget DEF Assigned
  <2>2. CASE ~ (later[m] \subseteq assigned[m])
    <3>1. /\ Finish(m, "failed") /\ UNCHANGED <<sent, overlaps, ledger, faults>>
          /\ pc[m] = "resolve"
      BY <1>4, <2>2 DEF Resolve
    <3>2. Own /\ pc'[m] = "idle" /\ assigned'[m] = {}
      BY <3>1 DEF Finish, Goto, Shapes
    <3> QED BY <1>b, <3>1, <3>2, ResolveBudget DEF Assigned
  <2> QED BY <2>1, <2>2
<1>5. CASE Flush(m)
  <2>1. /\ pc[m] = "origin" /\ pc'[m] = "report" /\ later[m] = {} /\ Own
        /\ UNCHANGED <<sent, overlaps, assigned, ledger, faults, later>>
    BY <1>5 DEF Flush, Goto, Shapes
  <2> QED BY <1>a, <1>b, <1>c, <2>1, QuietBudget DEF Assigned
<1>6. CASE Done(m)
  <2>1. Own /\ pc'[m] = "idle" /\ assigned'[m] = {}
    BY <1>6 DEF Done, Finish, Goto, Shapes
  <2> QED BY <1>b, <1>6, <2>1, DoneBudget DEF Assigned
<1>7. ASSUME NEW c \in Chunk, Plan(m, c)
      PROVE  (\A k \in Machine : Assigned(k)') /\ Budget'
  <2>1. /\ pc[m] = "plan" /\ pc' = pc /\ Own
        /\ UNCHANGED <<sent, overlaps, assigned, ledger, faults>>
    BY <1>7, PlanShapes DEF Plan
  <2> QED BY <1>b, <1>c, <2>1, QuietBudget DEF Assigned
<1>8. ASSUME NEW c \in Chunk, Receive(m, c)
      PROVE  (\A k \in Machine : Assigned(k)') /\ Budget'
  <2>1. /\ pc[m] = "fetch" /\ Own
        /\ UNCHANGED <<sent, overlaps, assigned, ledger, faults, pc, later>>
    BY <1>8 DEF Receive
  <2> QED BY <1>b, <1>c, <2>1, QuietBudget DEF Assigned
<1>9. ASSUME NEW c \in Chunk, OriginReceive(m, c)
      PROVE  (\A k \in Machine : Assigned(k)') /\ Budget'
  <2>1. /\ pc[m] = "origin" /\ later'[m] = later[m] \ {c} /\ Own
        /\ UNCHANGED <<pc, assigned>>
    BY <1>9 DEF OriginReceive, Shapes
  <2> QED BY <1>a, <1>b, <1>9, <2>1, ReceiveBudget DEF Assigned
<1>10. ASSUME NEW c \in Chunk, Report(m, c)
       PROVE  (\A k \in Machine : Assigned(k)') /\ Budget'
  <2>1. UNCHANGED <<pc, later, assigned, sent, overlaps, faults>>
    BY <1>10 DEF Report
  <2>2. ASSUME NEW d \in Chunk
        PROVE  Owing(d)' \subseteq Owing(d) /\ Allowance(d) <= Allowance(d)'
    <3>1. Charged(d)' = Charged(d) /\ Owing(d)' = Owing(d)
      BY <2>1 DEF Owing, Charged
    <3>2. id[m] \in 1 .. nodes
      BY <1>10 DEF Report, Shapes, Identified, None
    <3>3. ledger[d] # <<>> => ledger'[d] # <<>>
      <4>1. Range(ledger[d]) \subseteq Range(ledger'[d])
        BY <1>10, <3>2, ReportShapes DEF Report
      <4>2. ledger[d] # <<>> => Range(ledger[d]) # {}
        <5> DEFINE S == 1 .. nodes
        <5>1. ledger[d] \in Seq(S)
          BY DEF Shapes
        <5> HIDE DEF S
        <5>2. ledger[d] # <<>> => Len(ledger[d]) >= 1 /\ 1 \in DOMAIN ledger[d]
          BY <5>1, EmptySeq, LenProperties
        <5> QED BY <5>2 DEF Range
      <4>3. Range(<<>>) = {}
        BY DEF Range
      <4> QED BY <4>1, <4>2, <4>3
    <3> QED BY <3>1, <3>3 DEF Allowance
  <2>3. Budget'
    BY <1>c, <2>1, <2>2, CalmBudget
  <2> QED BY <2>1, <2>3 DEF Assigned
<1>11. ASSUME NEW g \in Target, GroupDone(m, g)
       PROVE  (\A k \in Machine : Assigned(k)') /\ Budget'
  <2>1. /\ pc[m] = "fetch" /\ Own
        /\ UNCHANGED <<sent, overlaps, assigned, ledger, faults, pc>>
    BY <1>11, CloseShapes DEF GroupDone
  <2> QED BY <1>b, <1>c, <2>1, QuietBudget DEF Assigned
<1>12. ASSUME NEW g \in Target, GroupError(m, g)
       PROVE  (\A k \in Machine : Assigned(k)') /\ Budget'
  <2>0. Group(m, g) \subseteq Chunk
    BY DEF Group, Shapes
  <2>1. /\ pc[m] = "fetch" /\ Own
        /\ UNCHANGED <<sent, overlaps, assigned, ledger, pc>>
        /\ faults' \in {faults, faults + 1}
    BY <1>12, <2>0, CloseShapes DEF GroupError, Fault
  <2> QED BY <1>b, <2>1, QuietBudget DEF Assigned
<1> QED
  BY <1>1, <1>2, <1>3, <1>4, <1>5, <1>6, <1>7, <1>8, <1>9, <1>10, <1>11, <1>12
     DEF TaskStep

LEMMA EgressStep ==
    ASSUME EgressInv, [Next]_vars
    PROVE  EgressInv'
<1>0. TruthInv' /\ Shapes'
  BY TruthStep DEF EgressInv, TruthInv
<1> USE DEF EgressInv, TruthInv, ledgerVars, historyVars
<1>1. ASSUME UNCHANGED <<pc, later, assigned, sent, overlaps, faults, ledger>>
      PROVE  EgressInv'
  BY <1>0, <1>1 DEF Assigned, Budget, Owing, Charged, Allowance
<1>2. CASE UNCHANGED vars
  BY <1>1, <1>2 DEF vars
<1>3. ASSUME NEW n \in Node, MarkOffline(n) PROVE EgressInv'
  BY <1>1, <1>3 DEF MarkOffline, planVars
<1>4. ASSUME NEW m \in Machine, Join(m) PROVE EgressInv'
  BY <1>1, <1>4 DEF Join, planVars
<1>5. ASSUME NEW m \in Machine, CreateTask(m) PROVE EgressInv'
  <2>1. Budget'
    BY <1>0, <1>5, CreateBudget
  <2>2. /\ pc'[m] = "queued" /\ later' = later
        /\ \A k \in Machine \ {m} : assigned'[k] = assigned[k] /\ pc'[k] = pc[k]
    BY <1>5 DEF CreateTask, Goto, Shapes, planVars
  <2> QED BY <1>0, <2>1, <2>2 DEF Assigned
<1>6. ASSUME NEW m \in Machine, TaskStep(m) PROVE EgressInv'
  BY <1>0, <1>6, EgressTask
<1>7. ASSUME NEW m \in Machine, NEW r, Finish(m, r), faults' = faults + 1,
             UNCHANGED <<sent, overlaps, ledger>>
      PROVE  EgressInv'
  <2>1. Budget'
    BY <1>0, <1>7, FaultBudget
  <2>2. /\ pc'[m] = "idle" /\ assigned'[m] = {}
        /\ \A k \in Machine \ {m} :
            /\ assigned'[k] = assigned[k] /\ pc'[k] = pc[k] /\ later'[k] = later[k]
    BY <1>7 DEF Finish, Goto, Shapes
  <2> QED BY <1>0, <2>1, <2>2 DEF Assigned
<1>8. ASSUME NEW m \in Machine,
             BeginFail(m) \/ PlanFail(m) \/ OriginFail(m) \/ FlushFail(m) \/ ReportFail(m)
                \/ Crash(m)
      PROVE  EgressInv'
  BY <1>7, <1>8
     DEF BeginFail, PlanFail, OriginFail, FlushFail, ReportFail, Crash, Fault
<1>9. ASSUME NEW m \in Machine, NEW g \in Target, GroupShort(m, g) PROVE EgressInv'
  <2>1. Group(m, g) \ got[m] \subseteq Chunk
    BY DEF Group, Shapes
  <2>2. /\ pc[m] = "fetch" /\ faults' = faults + 1
        /\ UNCHANGED <<sent, overlaps, assigned, ledger, pc>>
        /\ \A k \in Machine \ {m} : later'[k] = later[k]
    BY <1>9, <2>1, CloseShapes DEF GroupShort, Fault
  <2>3. Budget'
    BY <1>0, <2>2, QuietBudget
  <2> QED BY <1>0, <2>2, <2>3 DEF Assigned
<1>10. ASSUME NEW m \in Machine, NEW c \in Chunk, ReceiveFail(m, c) PROVE EgressInv'
  <2>1. Group(m, source[m][c]) \subseteq Chunk
    BY DEF Group, Shapes
  <2>2. /\ pc[m] = "fetch" /\ faults' = faults + 1
        /\ CloseGroup(m, source[m][c], Group(m, source[m][c]))
        /\ UNCHANGED <<sent, overlaps, assigned, ledger, pc>>
    BY <1>10 DEF ReceiveFail, Fault
  <2>3. \A k \in Machine \ {m} : later'[k] = later[k]
    BY <2>1, <2>2, CloseShapes
  <2>4. Budget'
    BY <1>0, <2>2, <2>3, QuietBudget
  <2> QED BY <1>0, <2>2, <2>3, <2>4 DEF Assigned
<1>11. ASSUME NEW m \in Machine, NEW c \in Chunk, OriginReceiveFail(m, c) PROVE EgressInv'
  <2>1. Budget'
    BY <1>0, <1>11, LostBudget
  <2>2. Finish(m, "failed")
    BY <1>11 DEF OriginReceiveFail
  <2>3. /\ pc'[m] = "idle" /\ assigned'[m] = {}
        /\ \A k \in Machine \ {m} :
            /\ assigned'[k] = assigned[k] /\ pc'[k] = pc[k] /\ later'[k] = later[k]
    BY <2>2 DEF Finish, Goto, Shapes
  <2> QED BY <1>0, <2>1, <2>3 DEF Assigned
<1> QED
  BY <1>2, <1>3, <1>4, <1>5, <1>6, <1>8, <1>9, <1>10, <1>11 DEF Next

(* A chunk leaves the origin once, and once more for every task that       *)
(* assign_idc_chunks charged beside another one and for every failure: for *)
(* any number of machines, tasks and restarts.                             *)
THEOREM EgressAlwaysBounded == Spec => []EgressBounded
<1>1. Init => EgressInv
  <2> SUFFICES ASSUME Init PROVE EgressInv
    OBVIOUS
  <2>1. \A c \in Chunk : Charged(c) = {} /\ Owing(c) = {} /\ Allowance(c) = 0
    BY DEF Init, Charged, Owing, Allowance
  <2>2. Budget
    <3> SUFFICES ASSUME NEW c \in Chunk
                 PROVE  sent[c] + Cardinality(Owing(c)) <= overlaps + faults + Allowance(c)
      BY DEF Budget
    <3>1. Cardinality(Owing(c)) = 0
      BY <2>1, FS_EmptySet
    <3>2. sent[c] = 0 /\ overlaps = 0 /\ faults = 0
      BY DEF Init
    <3> QED BY <2>1, <3>1, <3>2
  <2>3. \A m \in Machine : Assigned(m)
    BY DEF Init, Assigned
  <2> QED BY <2>2, <2>3, TruthInit DEF EgressInv
<1>2. EgressInv /\ [Next]_vars => EgressInv'
  BY EgressStep
<1>3. EgressInv => EgressBounded
  <2> SUFFICES ASSUME EgressInv, NEW c \in Chunk
               PROVE  sent[c] <= 1 + overlaps + faults
    BY DEF EgressBounded
  <2>1. Cardinality(Owing(c)) \in Nat
    BY OwingCount DEF Owing, Charged
  <2>2. sent[c] \in Nat /\ overlaps \in Nat /\ faults \in Nat
    BY DEF EgressInv, TruthInv, Shapes
  <2>3. sent[c] + Cardinality(Owing(c)) <= overlaps + faults + Allowance(c)
    BY DEF EgressInv, Budget
  <2>4. Allowance(c) \in 0 .. 1
    BY DEF Allowance
  <2> QED BY <2>1, <2>2, <2>3, <2>4
<1> QED
  BY <1>1, <1>2, <1>3, PTL DEF Spec

-----------------------------------------------------------------------------
(* Every nonempty set of natural numbers has a least element. *)
LEMMA Smallest ==
    ASSUME NEW S \in SUBSET Nat, S # {}
    PROVE  \E n \in S : \A m \in S : n <= m
<1>1. PICK n \in S : \A m \in S : ~ (<<m, n>> \in OpToRel(<, Nat))
  BY WFMin, NatLessThanWellFounded, Zenon
<1>2. ASSUME NEW m \in S PROVE n <= m
  <2>1. ~ (m < n)
    BY <1>1 DEF OpToRel
  <2> QED BY <2>1
<1> QED BY <1>2

(* Induction on the subsets of a finite set: T is the set of those that    *)
(* have the property.                                                      *)
LEMMA SubsetInduction ==
    ASSUME NEW S, IsFiniteSet(S), NEW T,
           \A s \in SUBSET S : (\A x \in s : s \ {x} \in T) => s \in T
    PROVE  \A s \in SUBSET S : s \in T
<1> DEFINE Bad == {s \in SUBSET S : s \notin T}
           N == {n \in Nat : \E s \in Bad : n = Cardinality(s)}
<1>1. \A s \in SUBSET S : IsFiniteSet(s) /\ Cardinality(s) \in Nat
  BY FS_Subset, FS_CardinalityType
<1>2. ASSUME Bad # {} PROVE FALSE
  <2>1. PICK b \in Bad : TRUE
    BY <1>2
  <2>2. Cardinality(b) \in N
    BY <1>1, <2>1
  <2>3. N # {} /\ N \in SUBSET Nat
    BY <2>2
  <2> HIDE DEF N
  <2>4. PICK n \in N : \A m \in N : n <= m
    BY <2>3, Smallest
  <2> USE DEF N
  <2>5. PICK s \in Bad : n = Cardinality(s)
    BY <2>4
  <2>6. ASSUME NEW x \in s PROVE s \ {x} \in T
    <3>1. s \ {x} \in SUBSET S /\ IsFiniteSet(s) /\ Cardinality(s) \in Nat
      BY <1>1, <2>5
    <3>2. Cardinality(s \ {x}) = Cardinality(s) - 1
      BY <3>1, FS_RemoveElement
    <3>4. Cardinality(s \ {x}) \in Nat
      BY <1>1, <3>1
    <3>3. ASSUME Cardinality(s \ {x}) \in N PROVE FALSE
      <4>1. Cardinality(s) <= Cardinality(s \ {x})
        BY <2>4, <2>5, <3>3
      <4> QED BY <3>1, <3>2, <4>1
    <3> QED BY <3>1, <3>3, <3>4
  <2> QED BY <2>5, <2>6
<1> QED BY <1>2

(* The r-th smallest element of a finite set of naturals exists, for every *)
(* r below the size of the set.                                            *)
LEMMA Ranked ==
    ASSUME NEW S \in SUBSET Nat, IsFiniteSet(S)
    PROVE  \A r \in Nat : r < Cardinality(S) => \E i \in S : Before(S, i) = r
<1> DEFINE T == {s \in SUBSET S : \A r \in Nat : r < Cardinality(s) =>
                                     \E i \in s : Before(s, i) = r}
<1>1. ASSUME NEW s \in SUBSET S, \A x \in s : s \ {x} \in T PROVE s \in T
  <2> SUFFICES ASSUME NEW r \in Nat, r < Cardinality(s)
               PROVE  \E i \in s : Before(s, i) = r
    OBVIOUS
  <2>1. IsFiniteSet(s) /\ Cardinality(s) \in Nat
    BY FS_Subset, FS_CardinalityType
  <2>2. s # {}
    BY FS_EmptySet
  <2>3. PICK x \in s : \A y \in s : x <= y
    BY <2>2, Smallest
  <2>4. CASE r = 0
    <3>1. \A j \in s : j \in Nat /\ x \in Nat /\ x <= j
      BY <2>3
    <3>2. \A j \in s : ~ (j < x)
      BY <3>1
    <3>3. {j \in s : j < x} = {}
      BY <3>2
    <3> QED BY <2>4, <3>3, FS_EmptySet DEF Before
  <2>5. CASE r # 0
    <3>1. Cardinality(s \ {x}) = Cardinality(s) - 1
      BY <2>1, FS_RemoveElement
    <3>2. r - 1 \in Nat /\ r - 1 < Cardinality(s \ {x})
      BY <2>1, <2>5, <3>1
    <3>3. PICK i \in s \ {x} : Before(s \ {x}, i) = r - 1
      BY <1>1, <3>2
    <3> DEFINE B == {j \in s \ {x} : j < i}
    <3>4. x \notin B /\ {j \in s : j < i} = B \cup {x}
      <4>1. x \in Nat /\ i \in Nat /\ x <= i /\ x # i
        BY <2>3
      <4>2. x < i
        BY <4>1
      <4> QED BY <4>2
    <3>5. IsFiniteSet(B)
      BY <2>1, FS_Subset
    <3>6. Cardinality(B) = r - 1
      BY <3>3 DEF Before
    <3> HIDE DEF B
    <3>7. Cardinality(B \cup {x}) = (r - 1) + 1
      BY <3>4, <3>5, <3>6, FS_AddElement
    <3>8. Before(s, i) = (r - 1) + 1
      BY <3>4, <3>7 DEF Before
    <3> QED BY <3>3, <3>8
  <2> QED BY <2>4, <2>5
<1>2. ASSUME S \in T PROVE \A r \in Nat : r < Cardinality(S) => \E i \in S : Before(S, i) = r
  BY <1>2
<1> HIDE DEF T
<1>3. S \in T
  BY <1>1, SubsetInduction
<1> QED BY <1>2, <1>3

LEMMA Modulo ==
    ASSUME NEW x \in Nat, NEW y \in Nat \ {0}
    PROVE  x % y \in Nat /\ x % y < y
OBVIOUS

(* What a chunk's hash picks is a registered node and one of its addresses. *)
LEMMA PickedTarget ==
    ASSUME Shapes, Identified, NEW m \in Machine, NEW c \in Chunk, Candidates(m, c) # {}
    PROVE  TargetOf(m, c) \in Target
<1> DEFINE p == Candidates(m, c)
           r == Byte[c] % Cardinality(p)
<1>1. /\ ledger[c] \in Seq(1 .. nodes) /\ DOMAIN ledger[c] = 1 .. Len(ledger[c])
      /\ Len(ledger[c]) \in Nat /\ \A i \in DOMAIN ledger[c] : ledger[c][i] \in 1 .. nodes
  BY DEF Shapes
<1>2. p \in SUBSET (1 .. Len(ledger[c])) /\ p \in SUBSET Nat
  BY <1>1 DEF Candidates, QueryPeers, ChunkHolders
<1>3. IsFiniteSet(p)
  <2>1. 1 \in Int /\ Len(ledger[c]) \in Int
    BY <1>1
  <2>2. IsFiniteSet(1 .. Len(ledger[c]))
    BY <2>1, FS_Interval
  <2> HIDE DEF p
  <2> QED BY <1>2, <2>2, FS_Subset
<1>4. Cardinality(p) \in Nat \ {0}
  BY <1>3, FS_CardinalityType, FS_EmptySet
<1>5. Byte[c] \in Nat
  BY ByteAssumption
<1>6. r \in Nat /\ r < Cardinality(p)
  BY <1>4, <1>5, Modulo
<1> HIDE DEF p, r
<1>7. \E i \in p : Before(p, i) = r
  BY <1>2, <1>3, <1>6, Ranked
<1>8. (CHOOSE i \in p : Before(p, i) = r) \in p
  BY <1>7
<1>9. Picked(m, c) = ledger[c][CHOOSE i \in p : Before(p, i) = r]
  BY DEF Picked, ChunkHolders, p, r
<1>10. Picked(m, c) \in 1 .. nodes
  BY <1>1, <1>2, <1>8, <1>9
<1>11. Picked(m, c) \in Node
  BY <1>10, BoundsAssumption DEF Shapes, Node
<1>12. AddrsOf(Picked(m, c)) \in {<<"data">>, <<"data", "keepalive">>}
  <2>1. AddrsOf(Picked(m, c)) # <<>>
    BY <1>8, <1>9 DEF Candidates, ChunkHolders, p
  <2>2. host[Picked(m, c)] \in Machine
    BY <1>10 DEF Identified
  <2> QED BY <2>1, <2>2, AddrsAssumption DEF AddrsOf
<1>13. /\ Len(AddrsOf(Picked(m, c))) \in Nat \ {0}
       /\ Len(AddrsOf(Picked(m, c))) <= 2
  <2>1. Len(<<"data">>) = 1 /\ Len(<<"data", "keepalive">>) = 2
    OBVIOUS
  <2>2. CASE AddrsOf(Picked(m, c)) = <<"data">>
    <3>1. Len(AddrsOf(Picked(m, c))) = 1
      BY <2>1, <2>2
    <3> QED BY <3>1
  <2>3. CASE AddrsOf(Picked(m, c)) = <<"data", "keepalive">>
    <3>1. Len(AddrsOf(Picked(m, c))) = 2
      BY <2>1, <2>3
    <3> QED BY <3>1
  <2> QED BY <1>12, <2>2, <2>3
<1>14. PickedAddr(c, Picked(m, c)) \in {1, 2}
  <2> DEFINE l == Len(AddrsOf(Picked(m, c)))
  <2>1. l \in Nat \ {0} /\ l <= 2
    BY <1>13
  <2> HIDE DEF l
  <2>2. Byte[c] % l \in Nat /\ Byte[c] % l < l
    BY <1>5, <2>1, Modulo
  <2>3. (Byte[c] % l) + 1 \in {1, 2}
    BY <2>1, <2>2
  <2> QED BY <2>3 DEF PickedAddr, l
<1> QED BY <1>11, <1>14 DEF Target, TargetOf

(* The rest of the types: targets are nodes and addresses, rounds and the  *)
(* counters stay in their bounds (a task is beside another at most once).  *)
Aimed(m) == \A c \in DOMAIN source[m] : source[m][c] \in Target
Bounded ==
    /\ online \subseteq 1 .. nodes
    /\ round \in [Machine -> 0 .. Rounds]
    /\ \A m \in Machine : Aimed(m)
    /\ exclude \in [Machine -> SUBSET Node]
    /\ blocked \in [Machine -> SUBSET Chunk]
    /\ tasks \in 0 .. MaxTask /\ overlaps <= tasks
    /\ faults \in 0 .. MaxFaults

(* Most steps leave the plan's targets alone, or forget some. *)
LEMMA FinishBounded ==
    ASSUME Shapes, Bounded, NEW m \in Machine, NEW r, Finish(m, r)
    PROVE  /\ round' \in [Machine -> 0 .. Rounds]
           /\ \A k \in Machine : Aimed(k)'
           /\ exclude' \in [Machine -> SUBSET Node]
<1>1. \A k \in Machine : Aimed(k)'
  BY DEF Shapes, Bounded, Aimed, Finish, EmptyPlan
<1> QED BY <1>1 DEF Bounded, Finish, Rounds

LEMMA CloseBounded ==
    ASSUME Shapes, Bounded, NEW m \in Machine, NEW g, NEW left, CloseGroup(m, g, left)
    PROVE  \A k \in Machine : Aimed(k)'
  BY DEF Shapes, Bounded, Aimed, CloseGroup

LEMMA FaultBounded ==
    ASSUME Bounded, NEW kind, Fault(kind)
    PROVE  faults' \in 0 .. MaxFaults
  BY BoundsAssumption DEF Bounded, Fault

LEMMA FailBounded ==
    ASSUME Shapes, Bounded, NEW m \in Machine, NEW r, NEW kind, Fault(kind), Finish(m, r),
           UNCHANGED <<nodes, online, blocked, tasks, overlaps>>
    PROVE  Bounded'
  BY FinishBounded, FaultBounded DEF Bounded

LEMMA BoundedStep ==
    ASSUME Shapes, Identified, Bounded, [Next]_vars
    PROVE  Bounded'
<1>1. CASE UNCHANGED vars
  BY <1>1 DEF vars, Bounded, Aimed
<1>2. ASSUME NEW n \in Node, MarkOffline(n) PROVE Bounded'
  BY <1>2 DEF MarkOffline, Bounded, Aimed, planVars, historyVars
<1>3. ASSUME NEW m \in Machine, Join(m) PROVE Bounded'
  <2>1. online' \subseteq 1 .. nodes'
    BY <1>3 DEF Join, Bounded, Shapes
  <2> QED BY <1>3, <2>1 DEF Join, Bounded, Aimed, planVars, historyVars
<1>4. ASSUME NEW m \in Machine, CreateTask(m) PROVE Bounded'
  <2>1. tasks' \in 0 .. MaxTask /\ overlaps' <= tasks'
    BY <1>4, BoundsAssumption DEF CreateTask, Bounded, Shapes
  <2>2. blocked' \in [Machine -> SUBSET Chunk]
    BY <1>4 DEF CreateTask, Bounded
  <2> QED BY <1>4, <2>1, <2>2 DEF CreateTask, Bounded, Aimed, ledgerVars, planVars
<1>5. ASSUME NEW m \in Machine, TaskStep(m) PROVE Bounded'
  <2>1. CASE Begin(m)
    BY <2>1 DEF Begin, Rounds, Bounded, Aimed, ledgerVars, historyVars
  <2>2. CASE Planned(m)
    BY <2>2 DEF Planned, Bounded, Aimed, ledgerVars, planVars, historyVars
  <2>3. CASE NextRound(m)
    <3>1. round' \in [Machine -> 0 .. Rounds]
      BY <2>3 DEF NextRound, Bounded, Rounds
    <3> QED BY <2>3, <3>1 DEF NextRound, Bounded, Aimed, ledgerVars, historyVars
  <2>4. CASE Resolve(m)
    <3>1. CASE later[m] \subseteq assigned[m]
      BY <2>4, <3>1 DEF Resolve, Bounded, Aimed, ledgerVars, planVars, historyVars
    <3>2. CASE ~ (later[m] \subseteq assigned[m])
      <4>1. blocked' \in [Machine -> SUBSET Chunk]
        <5>1. blocked' = [blocked EXCEPT ![m] = later[m] \ assigned[m]]
          BY <2>4, <3>2 DEF Resolve
        <5> QED BY <5>1 DEF Bounded, Shapes
      <4> QED BY <2>4, <3>2, <4>1, FinishBounded DEF Resolve, Bounded, ledgerVars
    <3> QED BY <3>1, <3>2
  <2>5. CASE Flush(m)
    BY <2>5 DEF Flush, Bounded, Aimed, ledgerVars, historyVars
  <2>6. CASE Done(m)
    BY <2>6, FinishBounded DEF Done, Bounded, ledgerVars, historyVars
  <2>7. ASSUME NEW c \in Chunk, Plan(m, c) PROVE Bounded'
    <3>1. \A k \in Machine : Aimed(k)'
      <4>1. CASE Candidates(m, c) = {}
        BY <2>7, <4>1 DEF Plan, Bounded, Aimed
      <4>2. CASE Candidates(m, c) # {}
        <5> DEFINE picked == TargetOf(m, c)
        <5>1. source' = [source EXCEPT ![m] = [d \in DOMAIN source[m] \cup {c} |->
                                                 IF d = c THEN picked ELSE source[m][d]]]
          BY <2>7, <4>2 DEF Plan
        <5>2. picked \in Target
          BY <4>2, PickedTarget
        <5> HIDE DEF picked
        <5> QED BY <5>1, <5>2 DEF Shapes, Bounded, Aimed
      <4> QED BY <4>1, <4>2
    <3> QED BY <2>7, <3>1 DEF Plan, Bounded, ledgerVars, historyVars
  <2>8. ASSUME NEW c \in Chunk, Receive(m, c) PROVE Bounded'
    BY <2>8 DEF Receive, Bounded, Aimed, ledgerVars, historyVars
  <2>9. ASSUME NEW c \in Chunk, OriginReceive(m, c) PROVE Bounded'
    BY <2>9 DEF OriginReceive, Bounded, Aimed, ledgerVars, lossVars
  <2>10. ASSUME NEW c \in Chunk, Report(m, c) PROVE Bounded'
    BY <2>10 DEF Report, Bounded, Aimed, historyVars
  <2>11. ASSUME NEW g \in Target, GroupDone(m, g) PROVE Bounded'
    BY <2>11, CloseBounded DEF GroupDone, Bounded, ledgerVars, historyVars
  <2>12. ASSUME NEW g \in Target, GroupError(m, g) PROVE Bounded'
    <3>1. faults' \in 0 .. MaxFaults
      BY <2>12, FaultBounded DEF GroupError, Bounded
    <3>2. exclude' \in [Machine -> SUBSET Node]
      <4>1. g[1] \in Node
        BY DEF Target
      <4> QED BY <2>12, <4>1 DEF GroupError, Bounded
    <3> QED BY <2>12, <3>1, <3>2, CloseBounded DEF GroupError, Bounded, ledgerVars, historyVars
  <2> QED BY <1>5, <2>1, <2>2, <2>3, <2>4, <2>5, <2>6, <2>7, <2>8, <2>9, <2>10, <2>11,
             <2>12 DEF TaskStep
<1>6. ASSUME NEW m \in Machine, Crash(m) PROVE Bounded'
  BY <1>6, FailBounded DEF Crash, ledgerVars, historyVars
<1>7. ASSUME NEW m \in Machine, BeginFail(m) PROVE Bounded'
  BY <1>7, FailBounded DEF BeginFail, ledgerVars, historyVars
<1>8. ASSUME NEW m \in Machine, PlanFail(m) PROVE Bounded'
  BY <1>8, FailBounded DEF PlanFail, ledgerVars, historyVars
<1>9. ASSUME NEW m \in Machine, OriginFail(m) PROVE Bounded'
  BY <1>9, FailBounded DEF OriginFail, ledgerVars, historyVars
<1>10. ASSUME NEW m \in Machine, FlushFail(m) PROVE Bounded'
  BY <1>10, FailBounded DEF FlushFail, ledgerVars, historyVars
<1>11. ASSUME NEW m \in Machine, ReportFail(m) PROVE Bounded'
  BY <1>11, FailBounded DEF ReportFail, ledgerVars, historyVars
<1>12. ASSUME NEW m \in Machine, NEW g \in Target, GroupShort(m, g) PROVE Bounded'
  <2>1. faults' \in 0 .. MaxFaults
    BY <1>12, FaultBounded DEF GroupShort
  <2> QED BY <1>12, <2>1, CloseBounded DEF GroupShort, Bounded, ledgerVars, historyVars
<1>13. ASSUME NEW m \in Machine, NEW c \in Chunk, ReceiveFail(m, c) PROVE Bounded'
  <2> DEFINE g == source[m][c]
  <2>1. g[1] \in Node
    BY <1>13 DEF ReceiveFail, Bounded, Aimed, Target
  <2>2. /\ CloseGroup(m, g, Group(m, g)) /\ Fault("disk")
        /\ exclude' = [exclude EXCEPT ![m] = @ \cup {g[1]}]
        /\ UNCHANGED <<nodes, online, round, blocked, tasks, overlaps>>
    BY <1>13 DEF ReceiveFail, ledgerVars
  <2> HIDE DEF g
  <2>3. exclude' \in [Machine -> SUBSET Node]
    BY <2>1, <2>2 DEF Bounded
  <2>4. faults' \in 0 .. MaxFaults
    BY <2>2, FaultBounded
  <2> QED BY <2>2, <2>3, <2>4, CloseBounded DEF Bounded
<1>14. ASSUME NEW m \in Machine, NEW c \in Chunk, OriginReceiveFail(m, c) PROVE Bounded'
  BY <1>14, FailBounded DEF OriginReceiveFail, ledgerVars, lossVars
<1> QED
  BY <1>1, <1>2, <1>3, <1>4, <1>5, <1>6, <1>7, <1>8, <1>9, <1>10, <1>11, <1>12,
     <1>13, <1>14 DEF Next

(* Type correctness of the ledger and of every download: in particular the *)
(* index a chunk's hash picks is always that of a candidate, a task never  *)
(* begins a third round, and the ledger lists only ids that were assigned. *)
THEOREM SwarmTypeOK == Spec => []TypeOK
<1>1. Init => TruthInv /\ Bounded
  <2>1. Init => Bounded
    BY BoundsAssumption DEF Init, Bounded, Aimed, EmptyPlan, Rounds
  <2> QED BY <2>1, TruthInit
<1>2. TruthInv /\ Bounded /\ [Next]_vars => TruthInv' /\ Bounded'
  BY TruthStep, BoundedStep DEF TruthInv
<1>3. TruthInv /\ Bounded => TypeOK
  <2> SUFFICES ASSUME Shapes, Bounded PROVE TypeOK
    BY DEF TruthInv
  <2>1. overlaps \in 0 .. MaxTask
    BY BoundsAssumption DEF Shapes, Bounded
  <2>2. \A m \in Machine : /\ DOMAIN source[m] \subseteq Chunk
                           /\ Range(source[m]) \subseteq Target
    BY DEF Shapes, Bounded, Aimed, Range
  <2> QED BY <2>1, <2>2 DEF Shapes, Bounded, TypeOK
<1> QED BY <1>1, <1>2, <1>3, PTL DEF Spec
=============================================================================
