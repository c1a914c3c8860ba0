-------------------------- MODULE NodeStatusProofs --------------------------
(***************************************************************************)
(* Node status for any nodes, addresses and periods: the type invariant,   *)
(* when a running agent can be shown as offline, and that a stopped one is *)
(* shown as offline in the end.                                            *)
(*                                                                         *)
(* The running agent (Shown): its record is as old as its last heartbeat   *)
(* (Beats), so the timeout finds it only together with a heartbeat that    *)
(* overtakes the loop (Listed).  The stopped agent: its record is at least *)
(* as old as its silence (Aged), so it is marked in every second (Struck); *)
(* and the probes take it back to online only while its address has failed *)
(* less often than its silence allows (Counted): every window in which it  *)
(* was silent has left an unanswered probe (Pending).                      *)
(***************************************************************************)
EXTENDS NodeStatus, FiniteSetTheorems, TLAPS

Early == pc \in {"mark", "collect"}
Latest(n) == \A k \in n + 1 .. nodes : AddrOf[k] # AddrOf[n]

(* What the loop holds and goes over. *)
Hold == held = NoHold \/
    /\ pc \in {"mark", "sync"} /\ held.node \in todo
    /\ held.was.age >= record[held.node].age
    /\ held.want = IF pc = "sync" /\ keep[AddrOf[held.node]].available
                   THEN "online" ELSE "offline"
Goes == /\ pc = "idle" => todo = {}
        /\ pc \in {"idle", "collect"} => held = NoHold
        /\ pc \in {"collect", "sync"} => \A n \in todo : AddrOf[n] # NoAddr

(* A probe is not outstanding for longer than the window, and an answer is *)
(* read a second late at most.                                             *)
Probes == \A p \in outstanding :
    /\ p.age <= IF Early THEN Interval ELSE Interval - 1
    /\ p.answered => p.age <= IF Early THEN 1 ELSE 0

(* A machine's address belongs to the last node it registered as. *)
Lives == /\ \A n \in alive : silent[n] = 0 /\ (AddrOf[n] # NoAddr => Latest(n))
         /\ \A n \in Node : n > nodes => wait[n] = 0 /\ silent[n] = 0

Beats == losses = 0 => \A n \in alive \ stale : record[n].age = wait[n]
Listed == pc = "mark" => \A n \in todo : record[n].age = 0 \/ record[n].age > Timeout
Shown == losses = 0 => \A n \in alive \ stale : record[n].status = "offline" =>
    /\ AddrOf[n] # NoAddr
    /\ \/ pc \in {"idle", "mark", "sync"} /\ ~ keep[AddrOf[n]].available
       \/ pc \in {"collect", "sync"} /\ n \in todo
-----------------------------------------------------------------------------
(* Seconds since an address was due. *)
Since(a) == IF clock >= Slot[a] THEN clock - Slot[a] ELSE clock - Slot[a] + Interval
Unanswered(a, d) == [addr |-> a, age |-> d, answered |-> FALSE]

Aged == \A n \in 1 .. nodes : n \notin alive => record[n].age >= silent[n] \/ record[n].age = Cap
Struck == \A n \in 1 .. nodes : record[n].age > Timeout =>
    /\ pc = "mark" => n \in todo \/ record[n].status = "offline"
    /\ pc = "collect" => record[n].status = "offline"
DeadShown == pc \in {"sync", "idle"} => \A n \in 1 .. nodes :
    n \notin alive /\ silent[n] >= Bound => record[n].status = "offline"

(* The nodes whose silence their address answers for. *)
Charged == {n \in 1 .. nodes : /\ n \notin alive /\ AddrOf[n] # NoAddr
                               /\ Latest(n) \/ (pc \in {"collect", "sync"} /\ n \in todo)}
Late == \A n \in Charged : \A p \in outstanding :
    p.addr = AddrOf[n] /\ p.answered => silent[n] <= p.age
Pending == \A n \in Charged : LET a == AddrOf[n] IN
    /\ silent[n] - Since(a) >= 1 /\ (pc = "mark" => Since(a) # 0)
        => Unanswered(a, Since(a)) \in outstanding
    /\ silent[n] - Interval >= 1 /\ Early /\ Since(a) = 0
        => Unanswered(a, Interval) \in outstanding
Counted == \A n \in Charged : LET a == AddrOf[n] IN
    keep[a].available =>
        silent[n] - Since(a) <= (keep[a].failures + 1) * Interval
                                + (IF Early /\ Since(a) = 0 THEN Interval ELSE 0)
Under == \A a \in Addr : keep[a].available => keep[a].failures < Threshold

-----------------------------------------------------------------------------
Records == [status : {"online", "offline"}, age : 0 .. Cap]
Pings == [addr : Addr, age : 0 .. Interval, answered : BOOLEAN]

LEMMA Bounds ==
    /\ Cap \in Nat /\ Cap = Timeout + 1 /\ Bound \in Nat /\ Bound >= Cap
    /\ Interval \in Nat /\ Interval >= 1
    /\ Hb \in Nat /\ Hb <= Timeout /\ Timeout \in Nat /\ MaxNode \in Nat /\ MaxLoss \in Nat
    /\ Threshold \in Nat /\ Threshold >= 1
<1>1. (Threshold + 1) * Interval \in Nat
  BY TimingAssumption
<1> QED BY <1>1, TimingAssumption DEF Cap, Bound

(* The lost probes are finitely many, since the nodes are. *)
LEMMA LostFinite ==
    ASSUME nodes \in Nat, NEW lost \in SUBSET Due PROVE Cardinality(lost) \in Nat
<1>1. IsFiniteSet(1 .. nodes)
  BY FS_Interval
<1>2. IsFiniteSet(Meta)
  BY <1>1, FS_Subset DEF Meta
<1>3. IsFiniteSet({AddrOf[n] : n \in Meta})
  <2> DEFINE T == {AddrOf[n] : n \in Meta}
             f == [n \in Meta |-> AddrOf[n]]
  <2>1. f \in Surjection(Meta, T)
    BY DEF Surjection
  <2> QED BY <1>2, <2>1, FS_Surjection
<1>4. IsFiniteSet(lost)
  BY <1>3, FS_Subset DEF Due
<1> QED BY <1>4, FS_CardinalityType

LEMMA RecordTyped ==
    ASSUME NEW k \in [failures : 0 .. Threshold, available : BOOLEAN], NEW ok \in BOOLEAN
    PROVE  Record(k, ok) \in [failures : 0 .. Threshold, available : BOOLEAN]
<1>1. k.failures \in 0 .. Threshold /\ k.available \in BOOLEAN
  OBVIOUS
<1>2. (IF k.failures < Threshold THEN k.failures + 1 ELSE Threshold) \in 0 .. Threshold
  BY <1>1, Bounds
<1>3. (k.available /\ k.failures + 1 < Threshold) \in BOOLEAN
  OBVIOUS
<1>4. 0 \in 0 .. Threshold
  BY Bounds
<1> QED BY <1>2, <1>3, <1>4 DEF Record

LEMMA TypeStep ==
    ASSUME TypeOK, Hold, Probes, [Next]_vars
    PROVE  TypeOK'
<1> USE Bounds DEF TypeOK, Node, loopVars
<1>a. /\ record \in [Node -> Records] /\ nodes \in Nat /\ nodes <= MaxNode
      /\ [status |-> "online", age |-> 0] \in Records
  BY DEF Records
<1>1. CASE UNCHANGED vars
  BY <1>1 DEF vars
<1>2. CASE Register
  <2>1. record' \in [Node -> Records]
    BY <1>2, <1>a DEF Register
  <2>2. nodes' = nodes + 1 /\ nodes + 1 \in 0 .. MaxNode /\ 1 .. nodes \subseteq 1 .. nodes'
        /\ 0 .. nodes \subseteq 0 .. nodes' /\ nodes + 1 \in 1 .. nodes'
    BY SMTT(30), <1>2, <1>a DEF Register
  <2> QED BY <1>2, <2>1, <2>2 DEF Register, Records
<1>3. ASSUME NEW n \in Node, Stop(n) PROVE TypeOK'
  BY <1>3 DEF Stop
<1>4. ASSUME NEW n \in Node, Heartbeat(n) PROVE TypeOK'
  <2>1. record' \in [Node -> Records]
    BY <1>4, <1>a DEF Heartbeat
  <2>2. wait' \in [Node -> 0 .. Hb]
    BY <1>4 DEF Heartbeat
  <2> QED BY <1>4, <2>1, <2>2 DEF Heartbeat, Records
<1>5. ASSUME NEW n \in Node, HeartbeatLost(n) PROVE TypeOK'
  <2>1. wait' \in [Node -> 0 .. Hb] /\ losses' \in 0 .. MaxLoss
    BY <1>5 DEF HeartbeatLost
  <2> QED BY <1>5, <2>1 DEF HeartbeatLost
<1>6. CASE Tick
  <2>1. record' \in [Node -> Records]
    <3> SUFFICES ASSUME NEW n \in Node
                 PROVE  [record[n] EXCEPT !.age = IF n <= nodes /\ @ < Cap THEN @ + 1 ELSE @]
                            \in Records
      BY <1>6 DEF Tick
    <3>1. record[n] \in Records /\ record[n].age \in 0 .. Cap
      BY <1>a DEF Records
    <3>2. (IF n <= nodes /\ record[n].age < Cap THEN record[n].age + 1 ELSE record[n].age)
             \in 0 .. Cap
      BY SMTT(30), <3>1
    <3> QED BY <3>1, <3>2 DEF Records
  <2>2. wait' \in [Node -> 0 .. Hb]
    <3>1. \A n \in alive : wait[n] < Hb
      BY <1>6 DEF Tick
    <3>2. \A n \in Node : (IF n \in alive THEN wait[n] + 1 ELSE 0) \in 0 .. Hb
      <4> TAKE n \in Node
      <4>1. wait[n] \in 0 .. Hb
        OBVIOUS
      <4>2. CASE n \in alive
        <5>1. wait[n] < Hb
          BY <3>1, <4>2
        <5>2. wait[n] + 1 \in 0 .. Hb
          BY SMTT(30), <4>1, <5>1
        <5> QED BY <4>2, <5>2
      <4>3. CASE n \notin alive
        BY <4>3
      <4> QED BY <4>2, <4>3
    <3>3. wait' = [n \in Node |-> IF n \in alive THEN wait[n] + 1 ELSE 0]
      BY <1>6 DEF Tick
    <3> QED BY <3>2, <3>3
  <2>3. silent' \in [Node -> 0 .. Bound]
    <3>1. \A n \in Node : (IF n <= nodes /\ n \notin alive /\ silent[n] < Bound
                           THEN silent[n] + 1 ELSE silent[n]) \in 0 .. Bound
      BY SMTT(30)
    <3>2. silent' = [n \in Node |-> IF n <= nodes /\ n \notin alive /\ silent[n] < Bound
                                    THEN silent[n] + 1 ELSE silent[n]]
      BY <1>6 DEF Tick
    <3> QED BY <3>1, <3>2
  <2>4. clock' \in 0 .. Interval - 1
    BY SMTT(30), <1>6 DEF Tick
  <2>5. outstanding' \subseteq Pings
    <3>0. outstanding' = {[p EXCEPT !.age = @ + 1] : p \in outstanding}
      BY <1>6 DEF Tick
    <3> SUFFICES ASSUME NEW q \in outstanding' PROVE q \in Pings
      OBVIOUS
    <3> PICK p \in outstanding : q = [p EXCEPT !.age = @ + 1]
      BY <3>0
    <3>1. p \in Pings /\ p.age \in 0 .. Interval
      BY DEF Pings
    <3>2. p.age <= Interval - 1
      BY <1>6 DEF Tick, Probes, Early
    <3>3. p.age + 1 \in 0 .. Interval
      BY SMTT(30), <3>1, <3>2
    <3> QED BY <3>1, <3>3 DEF Pings
  <2>6. todo' \subseteq 1 .. nodes
    BY <1>6 DEF Tick, OfflineNodes
  <2> QED BY <1>6, <2>1, <2>2, <2>3, <2>4, <2>5, <2>6 DEF Tick, Records, Pings
<1>7. ASSUME NEW n \in Node, NEW w \in {"online", "offline"}, Read(n, w) PROVE TypeOK'
  <2>1. n \in 0 .. nodes /\ record[n] \in Records
    BY <1>7, <1>a DEF Read
  <2>2. [node |-> n, was |-> record[n], want |-> w] \in
            [node : 0 .. nodes, was : Records, want : {"online", "offline"}]
    BY <2>1
  <2> QED BY <1>7, <2>2 DEF Read, Records
<1>8. CASE Write
  <2>1. held.node \in todo /\ held.was \in Records /\ held.want \in {"online", "offline"}
    BY <1>8 DEF Write, Hold, Records
  <2>2. [held.was EXCEPT !.status = held.want] \in Records
    BY <2>1 DEF Records
  <2>3. record' \in [Node -> Records]
    BY <1>8, <1>a, <2>2 DEF Write
  <2>4. stale' \subseteq 1 .. nodes
    BY <1>8, <2>1 DEF Write
  <2>5. NoHold \in [node : 0 .. nodes, was : Records, want : {"online", "offline"}]
    BY <1>a DEF NoHold, Records
  <2> QED BY <1>8, <2>3, <2>4, <2>5 DEF Write, Records
<1>9. CASE Probe
  <2>1. PICK lost \in SUBSET {a \in Due : Listens(a)} :
          /\ losses + Cardinality(lost) <= MaxLoss
          /\ losses' = losses + Cardinality(lost)
          /\ outstanding' = outstanding \cup {Ping(a, Listens(a) /\ a \notin lost) : a \in Due}
    BY <1>9 DEF Probe
  <2>2. Cardinality(lost) \in Nat
    BY <1>a, LostFinite
  <2>3. losses' \in 0 .. MaxLoss
    BY <2>1, <2>2
  <2>4. Due \subseteq Addr
    BY SMTT(30), AddrAssumption DEF Due, Meta
  <2>5. outstanding' \subseteq Pings
    <3>1. \A a \in Addr : \A b \in BOOLEAN : Ping(a, b) \in Pings
      BY DEF Ping, Pings
    <3>2. \A a : (Listens(a) /\ a \notin lost) \in BOOLEAN
      OBVIOUS
    <3>3. {Ping(a, Listens(a) /\ a \notin lost) : a \in Due} \subseteq Pings
      <4> SUFFICES ASSUME NEW a \in Due PROVE Ping(a, Listens(a) /\ a \notin lost) \in Pings
        OBVIOUS
      <4> QED BY <2>4, <3>1, <3>2
    <3> QED BY <2>1, <3>3 DEF Pings
  <2>6. Meta \subseteq 1 .. nodes
    BY DEF Meta
  <2> QED BY <1>9, <2>3, <2>5, <2>6 DEF Probe, Pings
<1>10. CASE Collect
  <2>1. PICK late \in SUBSET {p \in outstanding : p.answered /\ p.age = 0} :
          LET received == {p \in outstanding : p.answered} \ late
              expired == {p \in outstanding \ received : Expired(p)}
              after(a) == IF \E p \in received : p.addr = a
                          THEN Record(keep[a], TRUE) ELSE keep[a]
          IN /\ outstanding' = outstanding \ (received \cup expired)
             /\ keep' = [a \in Addr |-> IF \E p \in expired : p.addr = a
                                        THEN Record(after(a), FALSE) ELSE after(a)]
    BY <1>10 DEF Collect
  <2>2. keep' \in [Addr -> [failures : 0 .. Threshold, available : BOOLEAN]]
    BY <2>1, RecordTyped
  <2>3. outstanding' \subseteq outstanding
    BY <2>1
  <2> QED BY <1>10, <2>2, <2>3 DEF Collect
<1>11. CASE SyncEnd
  BY <1>11 DEF SyncEnd
<1> QED
  BY <1>1, <1>2, <1>3, <1>4, <1>5, <1>6, <1>7, <1>8, <1>9, <1>10, <1>11 DEF Next, Loop, Mark, Sync

-----------------------------------------------------------------------------
(***************************************************************************)
(* Running agents.                                                         *)
(***************************************************************************)
LiveInv == TypeOK /\ Hold /\ Goes /\ Probes /\ Lives /\ Beats /\ Listed /\ Shown
Live == Hold /\ Goes /\ Probes /\ Lives /\ Beats /\ Listed /\ Shown

LEMMA LiveTypes ==
    ASSUME TypeOK
    PROVE  /\ nodes \in Nat /\ nodes <= MaxNode /\ alive \subseteq 1 .. nodes
           /\ todo \subseteq 1 .. nodes /\ stale \subseteq 1 .. nodes
           /\ 1 .. nodes \subseteq Node
           /\ \A n \in Node : n \in Nat /\ n >= 1 /\ (n <= nodes <=> n \in 1 .. nodes)
           /\ \A n \in Node : /\ record[n].status \in {"online", "offline"}
                              /\ record[n].age \in Nat /\ record[n].age <= Cap
                              /\ wait[n] \in Nat /\ wait[n] <= Hb
                              /\ silent[n] \in Nat /\ silent[n] <= Bound
           /\ held.node \in Nat /\ held.was.age \in Nat /\ held.was.age <= Cap
           /\ losses \in Nat
<1> USE Bounds DEF TypeOK, Node
<1>1. /\ nodes \in Nat /\ nodes <= MaxNode /\ alive \subseteq 1 .. nodes
      /\ todo \subseteq 1 .. nodes /\ stale \subseteq 1 .. nodes
      /\ losses \in Nat
  <2>1. nodes \in 0 .. MaxNode /\ losses \in 0 .. MaxLoss
    OBVIOUS
  <2>2. nodes \in Nat /\ nodes <= MaxNode /\ losses \in Nat
    BY <2>1
  <2>3. alive \subseteq 1 .. nodes /\ todo \subseteq 1 .. nodes /\ stale \subseteq 1 .. nodes
    BY Zenon
  <2> QED BY <2>2, <2>3
<1>5. 1 .. nodes \subseteq Node
  BY <1>1
<1>6. \A n \in Node : n \in Nat /\ n >= 1 /\ (n <= nodes <=> n \in 1 .. nodes)
  BY <1>1
<1>2. ASSUME NEW n \in Node
      PROVE  /\ record[n].status \in {"online", "offline"}
             /\ record[n].age \in Nat /\ record[n].age <= Cap
             /\ wait[n] \in Nat /\ wait[n] <= Hb
             /\ silent[n] \in Nat /\ silent[n] <= Bound
  <2>1. record[n] \in Records
    BY DEF Records
  <2>2. record[n].status \in {"online", "offline"} /\ record[n].age \in 0 .. Cap
    BY <2>1 DEF Records
  <2>3. wait[n] \in 0 .. Hb /\ silent[n] \in 0 .. Bound
    OBVIOUS
  <2> QED BY <2>2, <2>3
<1>3. held.node \in 0 .. nodes /\ held.was \in Records
  BY DEF Records
<1>4. held.was.age \in 0 .. Cap
  BY <1>3 DEF Records
<1>7. held.node \in Nat /\ held.was.age \in Nat /\ held.was.age <= Cap
  BY <1>1, <1>3, <1>4
<1> QED BY <1>1, <1>2, <1>5, <1>6, <1>7

LEMMA RegisterLive == ASSUME LiveInv, Register PROVE Live'
<1> DEFINE m == nodes + 1
<1>1. /\ nodes' = m /\ alive' = alive \cup {m} /\ m \in Node /\ nodes < MaxNode
      /\ AddrOf[m] = NoAddr \/ ~ Listens(AddrOf[m])
      /\ UNCHANGED <<wait, silent, keep, outstanding, clock, pc, todo, held, losses, stale>>
  BY Bounds, LiveTypes DEF Register, loopVars, LiveInv, Node
<1>2. /\ record'[m].status = "online" /\ record'[m].age = 0
      /\ \A n \in Node : n # m => record'[n] = record[n]
  BY <1>1 DEF Register, LiveInv, TypeOK
<1>3. nodes \in Nat /\ m \notin alive /\ m \notin todo /\ m \notin stale
      /\ todo \subseteq Node /\ alive \subseteq Node
  BY LiveTypes DEF LiveInv
<1>4. wait[m] = 0 /\ silent[m] = 0
  BY <1>1, <1>3 DEF LiveInv, Lives
<1>5. Hold'
  BY <1>1, <1>2, <1>3 DEF LiveInv, Hold
<1>6. Goes' /\ Probes'
  BY <1>1 DEF LiveInv, Goes, Probes, Early
<1>7. Lives'
  <2>1. ASSUME NEW n \in alive, AddrOf[n] # NoAddr, NEW k \in n + 1 .. m
        PROVE  AddrOf[k] # AddrOf[n]
    <3>1. CASE k = m
      BY <1>1, <2>1, <3>1 DEF Listens
    <3>2. CASE k # m
      <4>1. k \in n + 1 .. nodes
        BY <1>3, <3>2, LiveTypes DEF LiveInv
      <4> QED BY <2>1, <4>1 DEF LiveInv, Lives, Latest
    <3> QED BY <3>1, <3>2
  <2>2. m + 1 .. m = {}
    BY <1>3
  <2>3. \A n \in alive' : silent'[n] = 0
    BY <1>1, <1>4 DEF LiveInv, Lives
  <2>4. \A n \in alive' : AddrOf[n] # NoAddr => Latest(n)'
    BY <1>1, <2>1, <2>2 DEF Latest
  <2>5. \A n \in Node : n > m => wait[n] = 0 /\ silent[n] = 0
    BY <1>3, LiveTypes DEF LiveInv, Lives
  <2> QED BY <1>1, <2>3, <2>4, <2>5 DEF Lives
<1>8. Beats'
  BY <1>1, <1>2, <1>3, <1>4 DEF LiveInv, Beats
<1>9. Listed'
  BY <1>1, <1>2, <1>3 DEF LiveInv, Listed
<1>10. Shown'
  BY <1>1, <1>2, <1>3 DEF LiveInv, Shown
<1> QED BY <1>5, <1>6, <1>7, <1>8, <1>9, <1>10 DEF Live

(* Agents' steps other than a registration. *)
LEMMA AgentLive ==
    ASSUME LiveInv, NEW n \in Node, Stop(n) \/ Heartbeat(n) \/ HeartbeatLost(n)
    PROVE  Live'
<1>1. /\ alive' \subseteq alive
      /\ UNCHANGED <<nodes, silent, keep, outstanding, clock, pc, todo, held>>
  BY DEF Stop, Heartbeat, HeartbeatLost, loopVars
<1>2. \/ UNCHANGED record
      \/ /\ record'[n].status = "online" /\ record'[n].age = 0
         /\ \A k \in Node : k # n => record'[k] = record[k]
  BY DEF Stop, Heartbeat, HeartbeatLost, LiveInv, TypeOK
<1>3. todo \subseteq Node /\ alive \subseteq Node
  BY LiveTypes DEF LiveInv
<1>4. n \in alive /\ n <= nodes
  BY LiveTypes DEF LiveInv, Stop, Heartbeat, HeartbeatLost
<1>5. Hold'
  <2>1. ASSUME held # NoHold PROVE held.was.age >= record'[held.node].age
    <3>1. held.node \in Node /\ held.was.age >= record[held.node].age /\ held.was.age \in Nat
      BY <1>3, <2>1, LiveTypes DEF LiveInv, Hold
    <3> QED BY <1>2, <3>1
  <2> QED BY <1>1, <2>1 DEF LiveInv, Hold
<1>6. Goes' /\ Probes'
  BY <1>1 DEF LiveInv, Goes, Probes, Early
<1>7. wait' = [wait EXCEPT ![n] = 0] \/ UNCHANGED wait
  BY DEF Stop, Heartbeat, HeartbeatLost
<1>8. Lives'
  <2>1. \A k \in Node : k > nodes => wait'[k] = 0
    BY <1>7 DEF LiveInv, Lives, TypeOK
  <2> QED BY <1>1, <2>1 DEF LiveInv, Lives, Latest
<1>9. Beats'
  <2>1. CASE Stop(n)
    BY <2>1 DEF LiveInv, Beats, Stop
  <2>2. CASE Heartbeat(n)
    <3>1. /\ wait'[n] = 0 /\ \A k \in Node : k # n => wait'[k] = wait[k]
          /\ record'[n].age = 0 /\ \A k \in Node : k # n => record'[k] = record[k]
          /\ UNCHANGED <<alive, losses>> /\ stale' = stale \ {n}
      BY <2>2 DEF LiveInv, Heartbeat, TypeOK
    <3> QED BY <1>3, <3>1 DEF LiveInv, Beats
  <2>3. CASE HeartbeatLost(n)
    <3>1. losses' # 0
      BY <2>3, LiveTypes DEF LiveInv, HeartbeatLost
    <3> QED BY <3>1 DEF Beats
  <2> QED BY <2>1, <2>2, <2>3
<1>10. Listed'
  BY <1>1, <1>2, <1>3 DEF LiveInv, Listed
<1>11. Shown'
  <2>1. CASE Stop(n)
    BY <2>1 DEF LiveInv, Shown, Stop, loopVars
  <2>2. CASE Heartbeat(n)
    <3>1. /\ record'[n].status = "online" /\ \A k \in Node : k # n => record'[k] = record[k]
          /\ UNCHANGED <<alive, losses>> /\ stale' = stale \ {n}
      BY <2>2 DEF LiveInv, Heartbeat, TypeOK
    <3> QED BY <1>1, <1>3, <3>1 DEF LiveInv, Shown
  <2>3. CASE HeartbeatLost(n)
    <3>1. losses' # 0
      BY <2>3, LiveTypes DEF LiveInv, HeartbeatLost
    <3> QED BY <3>1 DEF Shown
  <2> QED BY <2>1, <2>2, <2>3
<1> QED BY <1>5, <1>6, <1>8, <1>9, <1>10, <1>11 DEF Live

(* A second passes: what a tick does to each node. *)
LEMMA TickFacts ==
    ASSUME TypeOK, Tick
    PROVE  /\ pc = "idle" /\ pc' = "mark"
           /\ UNCHANGED <<nodes, alive, keep, held, losses, stale>>
           /\ \A n \in alive : wait[n] < Hb /\ wait'[n] = wait[n] + 1
           /\ \A n \in Node : n \notin alive => wait'[n] = 0
           /\ \A n \in Node :
                /\ record'[n].status = record[n].status
                /\ record'[n].age = IF n <= nodes /\ record[n].age < Cap
                                    THEN record[n].age + 1 ELSE record[n].age
                /\ silent'[n] = IF n <= nodes /\ n \notin alive /\ silent[n] < Bound
                                THEN silent[n] + 1 ELSE silent[n]
           /\ todo' = {n \in 1 .. nodes : record'[n].age > Timeout}
           /\ \A q \in outstanding' : \E p \in outstanding :
                q.addr = p.addr /\ q.answered = p.answered /\ q.age = p.age + 1
<1>1. /\ pc = "idle" /\ pc' = "mark"
      /\ UNCHANGED <<nodes, alive, keep, held, losses, stale>>
      /\ todo' = {n \in 1 .. nodes : record'[n].age > Timeout}
  BY DEF Tick, OfflineNodes
<1>2. ASSUME NEW n \in alive PROVE wait[n] < Hb /\ wait'[n] = wait[n] + 1
  BY LiveTypes DEF Tick
<1>3. ASSUME NEW n \in Node, n \notin alive PROVE wait'[n] = 0
  BY <1>3 DEF Tick
<1>4. ASSUME NEW n \in Node
      PROVE  /\ record'[n].status = record[n].status
             /\ record'[n].age = IF n <= nodes /\ record[n].age < Cap
                                 THEN record[n].age + 1 ELSE record[n].age
  <2>1. record[n] \in Records
    BY DEF TypeOK, Records
  <2>2. record'[n] = [record[n] EXCEPT !.age = IF n <= nodes /\ @ < Cap THEN @ + 1 ELSE @]
    BY DEF Tick
  <2> QED BY <2>1, <2>2 DEF Records
<1>5. ASSUME NEW n \in Node
      PROVE  silent'[n] = IF n <= nodes /\ n \notin alive /\ silent[n] < Bound
                          THEN silent[n] + 1 ELSE silent[n]
  BY DEF Tick
<1>6. ASSUME NEW q \in outstanding'
      PROVE  \E p \in outstanding :
                q.addr = p.addr /\ q.answered = p.answered /\ q.age = p.age + 1
  <2>1. PICK p \in outstanding : q = [p EXCEPT !.age = @ + 1]
    BY DEF Tick
  <2>2. p \in Pings
    BY DEF TypeOK, Pings
  <2> QED BY <2>1, <2>2 DEF Pings
<1> QED BY <1>1, <1>2, <1>3, <1>4, <1>5, <1>6

LEMMA TickLive == ASSUME LiveInv, Tick PROVE Live'
<1>1. TypeOK
  BY DEF LiveInv
<1>2. alive \subseteq Node /\ nodes \in Nat
  BY <1>1, LiveTypes
<1>3. Hold' /\ Goes'
  BY <1>1, TickFacts DEF LiveInv, Goes, Hold
<1>4. Probes'
  <2> SUFFICES ASSUME NEW q \in outstanding'
               PROVE  q.age <= Interval /\ (q.answered => q.age <= 1)
    BY <1>1, TickFacts DEF Probes, Early
  <2>1. PICK p \in outstanding : q.answered = p.answered /\ q.age = p.age + 1
    BY <1>1, TickFacts
  <2>2. p.age \in 0 .. Interval
    BY DEF LiveInv, TypeOK
  <2>3. p.age <= Interval - 1 /\ (p.answered => p.age <= 0)
    BY <1>1, TickFacts DEF LiveInv, Probes, Early
  <2> QED BY <2>1, <2>2, <2>3, Bounds
<1>5. Lives'
  <2>1. \A n \in alive : silent'[n] = 0
    BY <1>1, <1>2, TickFacts DEF LiveInv, Lives
  <2>2. \A n \in Node : n > nodes => n \notin alive /\ ~ (n <= nodes)
    BY <1>1, LiveTypes
  <2>3. \A n \in Node : n > nodes => wait'[n] = 0 /\ silent'[n] = 0
    BY <1>1, <2>2, TickFacts DEF LiveInv, Lives
  <2> QED BY <1>1, <2>1, <2>3, TickFacts DEF LiveInv, Lives, Latest
<1>6. Beats'
  <2> SUFFICES ASSUME losses = 0, NEW n \in alive \ stale PROVE record'[n].age = wait'[n]
    BY <1>1, TickFacts DEF Beats
  <2>1. n \in Node /\ n <= nodes /\ wait[n] < Hb /\ wait'[n] = wait[n] + 1 /\ wait[n] \in Nat
    BY <1>1, <1>2, TickFacts, LiveTypes
  <2>2. record[n].age = wait[n]
    BY DEF LiveInv, Beats
  <2>3. record[n].age < Cap
    BY <2>1, <2>2, Bounds
  <2> QED BY <1>1, <2>1, <2>2, <2>3, TickFacts
<1>7. Listed'
  BY <1>1, TickFacts DEF Listed
<1>8. Shown'
  BY <1>1, <1>2, TickFacts DEF LiveInv, Shown
<1> QED BY <1>3, <1>4, <1>5, <1>6, <1>7, <1>8 DEF Live

(* get_node, in either loop. *)
Wanted(n) == IF pc = "sync" /\ keep[AddrOf[n]].available THEN "online" ELSE "offline"

LEMMA ReadLive ==
    ASSUME LiveInv, NEW n \in Node, pc \in {"mark", "sync"}, Read(n, Wanted(n)) PROVE Live'
<1>1. /\ n \in todo /\ held = NoHold
      /\ UNCHANGED <<nodes, record, alive, wait, silent, keep, outstanding, clock,
                     pc, losses, stale>>
  BY DEF Read
<1>2. CASE record[n].status = Wanted(n)
  <2>1. todo' = todo \ {n} /\ held' = held
    BY <1>2 DEF Read
  <2>2. Hold' /\ Goes' /\ Probes' /\ Lives' /\ Beats' /\ Listed'
    BY <1>1, <2>1 DEF LiveInv, Hold, Goes, Probes, Early, Lives, Latest, Beats, Listed
  <2>3. Shown'
    <3> SUFFICES ASSUME losses = 0, NEW k \in alive \ stale, record[k].status = "offline"
                 PROVE  /\ AddrOf[k] # NoAddr
                        /\ \/ pc \in {"mark", "sync"} /\ ~ keep[AddrOf[k]].available
                           \/ pc = "sync" /\ k \in todo \ {n}
      BY <1>1, <2>1 DEF Shown
    <3>1. /\ AddrOf[k] # NoAddr
          /\ \/ pc \in {"mark", "sync"} /\ ~ keep[AddrOf[k]].available
             \/ pc = "sync" /\ k \in todo
      BY DEF LiveInv, Shown
    <3> QED BY <1>2, <3>1 DEF Wanted
  <2> QED BY <2>2, <2>3 DEF Live
<1>3. CASE record[n].status # Wanted(n)
  <2>1. /\ todo' = todo /\ held'.node = n /\ held'.was = record[n] /\ held'.want = Wanted(n)
        /\ record[n].age \in Nat
    BY <1>3, LiveTypes DEF LiveInv, Read
  <2>2. Hold'
    BY <1>1, <2>1 DEF Hold, Wanted
  <2>3. Goes' /\ Probes' /\ Lives' /\ Beats' /\ Listed' /\ Shown'
    BY <1>1, <2>1 DEF LiveInv, Goes, Probes, Early, Lives, Latest, Beats, Listed, Shown
  <2> QED BY <2>2, <2>3 DEF Live
<1> QED BY <1>2, <1>3

(* insert_node: a running node that the timeout has found has sent a       *)
(* heartbeat since.                                                        *)
LEMMA WriteFacts ==
    ASSUME TypeOK, Hold, Write
    PROVE  /\ pc \in {"mark", "sync"} /\ held.node \in todo /\ held.node \in Node
           /\ UNCHANGED <<nodes, alive, wait, silent, keep, outstanding, clock, pc, losses>>
           /\ todo' = todo \ {held.node} /\ held' = NoHold
           /\ record'[held.node].status = Wanted(held.node)
           /\ record'[held.node].age = held.was.age
           /\ held.was.age >= record[held.node].age
           /\ \A n \in Node : n # held.node => record'[n] = record[n]
           /\ stale' = IF Overtaken THEN stale \cup {held.node} ELSE stale
<1>1. /\ pc \in {"mark", "sync"} /\ held.node \in todo /\ held.want = Wanted(held.node)
      /\ held.was.age >= record[held.node].age
  BY DEF Write, Hold, Wanted
<1>2. held.node \in Node /\ held.was \in Records
  BY <1>1, LiveTypes DEF TypeOK, Records
<1>3. record' = [record EXCEPT ![held.node] = [held.was EXCEPT !.status = held.want]]
  BY DEF Write
<1>4. /\ record'[held.node] = [held.was EXCEPT !.status = held.want]
      /\ \A n \in Node : n # held.node => record'[n] = record[n]
  BY <1>2, <1>3 DEF TypeOK
<1>5. record'[held.node].status = held.want /\ record'[held.node].age = held.was.age
  BY <1>2, <1>4 DEF Records
<1> QED BY <1>1, <1>2, <1>4, <1>5 DEF Write

LEMMA WriteLive == ASSUME LiveInv, Write PROVE Live'
<1>1. TypeOK /\ Hold
  BY DEF LiveInv
<1> DEFINE h == held.node
<1>2. todo \subseteq Node /\ alive \subseteq Node /\ h \in Node
  BY <1>1, LiveTypes, WriteFacts
<1>3. Hold' /\ Goes' /\ Probes' /\ Lives'
  BY <1>1, WriteFacts DEF LiveInv, Hold, Goes, Probes, Early, Lives, Latest
<1>4. ASSUME h \notin stale'
      PROVE  /\ h \notin stale /\ record'[h].age = record[h].age
             /\ pc = "mark" => record[h].age # 0
  BY <1>1, <1>4, WriteFacts DEF Overtaken
<1>5. stale \subseteq stale'
  BY <1>1, WriteFacts
<1>6. Beats'
  <2> SUFFICES ASSUME losses = 0, NEW n \in alive \ stale' PROVE record'[n].age = wait[n]
    BY <1>1, WriteFacts DEF Beats
  <2>1. record'[n].age = record[n].age
    BY <1>1, <1>2, <1>4, WriteFacts
  <2> QED BY <1>5, <2>1 DEF LiveInv, Beats
<1>7. Listed'
  BY <1>1, <1>2, WriteFacts DEF LiveInv, Listed
<1>8. Shown'
  <2> SUFFICES ASSUME losses = 0, NEW n \in alive \ stale', record'[n].status = "offline"
               PROVE  /\ AddrOf[n] # NoAddr
                      /\ \/ ~ keep[AddrOf[n]].available
                         \/ pc = "sync" /\ n \in todo \ {h}
    BY <1>1, WriteFacts DEF Shown
  <2>1. CASE n = h
    <3>1. pc # "mark"
      <4>1. ASSUME pc = "mark" PROVE FALSE
        <5>1. record[h].age = wait[h] /\ wait[h] \in Nat /\ wait[h] <= Hb
          BY <1>1, <1>2, <1>5, <2>1, LiveTypes DEF LiveInv, Beats
        <5>2. record[h].age = 0 \/ record[h].age > Timeout
          BY <1>1, <4>1, WriteFacts DEF LiveInv, Listed
        <5> QED BY <1>4, <2>1, <4>1, <5>1, <5>2, Bounds
      <4> QED BY <4>1
    <3>2. pc = "sync" /\ AddrOf[h] # NoAddr
      BY <1>1, <3>1, WriteFacts DEF LiveInv, Goes
    <3>3. ~ keep[AddrOf[h]].available
      BY <1>1, <2>1, <3>2, WriteFacts DEF Wanted
    <3> QED BY <2>1, <3>2, <3>3
  <2>2. CASE n # h
    <3>1. record[n].status = "offline" /\ n \in alive \ stale
      BY <1>1, <1>2, <1>5, <2>2, WriteFacts
    <3>2. pc \in {"mark", "sync"}
      BY <1>1, WriteFacts
    <3> QED BY <2>2, <3>1, <3>2 DEF LiveInv, Shown
  <2> QED BY <2>1, <2>2
<1> QED BY <1>3, <1>6, <1>7, <1>8 DEF Live

(* The probes of a second are new, and answered by whoever listens. *)
LEMMA ProbeFacts ==
    ASSUME TypeOK, Probe
    PROVE  /\ pc = "mark" /\ pc' = "collect" /\ todo = {} /\ held = NoHold /\ todo' = Meta
           /\ UNCHANGED <<nodes, record, alive, wait, silent, keep, clock, held, stale>>
           /\ losses' = 0 => losses = 0
           /\ outstanding \subseteq outstanding'
           /\ \A q \in outstanding' : q \in outstanding
                                      \/ (q.age = 0 /\ (q.answered => Listens(q.addr)))
           /\ \A a \in Due : ~ Listens(a) => Unanswered(a, 0) \in outstanding'
<1>1. /\ pc = "mark" /\ pc' = "collect" /\ todo = {} /\ held = NoHold /\ todo' = Meta
      /\ UNCHANGED <<nodes, record, alive, wait, silent, keep, clock, held, stale>>
  BY DEF Probe
<1>2. PICK lost \in SUBSET {a \in Due : Listens(a)} :
        /\ losses' = losses + Cardinality(lost)
        /\ outstanding' = outstanding \cup {Ping(a, Listens(a) /\ a \notin lost) : a \in Due}
  BY DEF Probe
<1>3. losses' = 0 => losses = 0
  <2>1. Cardinality(lost) \in Nat /\ losses \in Nat
    BY LiveTypes, LostFinite
  <2> QED BY <1>2, <2>1
<1>4. ASSUME NEW q \in outstanding', q \notin outstanding
      PROVE  q.age = 0 /\ (q.answered => Listens(q.addr))
  <2>1. PICK a \in Due : q = Ping(a, Listens(a) /\ a \notin lost)
    BY <1>2, <1>4
  <2> QED BY <2>1 DEF Ping
<1>5. ASSUME NEW a \in Due, ~ Listens(a) PROVE Unanswered(a, 0) \in outstanding'
  <2>1. Ping(a, Listens(a) /\ a \notin lost) \in outstanding'
    BY <1>2
  <2>2. (Listens(a) /\ a \notin lost) = FALSE
    BY <1>5
  <2>3. Ping(a, FALSE) \in outstanding'
    BY <2>1, <2>2
  <2> QED BY <2>3 DEF Ping, Unanswered
<1> QED BY <1>1, <1>2, <1>3, <1>4, <1>5

LEMMA ProbeLive == ASSUME LiveInv, Probe PROVE Live'
<1>1. TypeOK
  BY DEF LiveInv
<1>2. alive \subseteq 1 .. nodes
  BY <1>1, LiveTypes
<1>3. Hold' /\ Goes' /\ Listed'
  BY <1>1, ProbeFacts DEF Hold, Goes, Listed, Meta
<1>4. Probes'
  <2> SUFFICES ASSUME NEW q \in outstanding'
               PROVE  q.age <= Interval /\ (q.answered => q.age <= 1)
    BY <1>1, ProbeFacts DEF Probes, Early
  <2>1. CASE q \in outstanding
    BY <1>1, <2>1, ProbeFacts DEF LiveInv, Probes, Early
  <2>2. CASE q.age = 0
    BY <2>2, Bounds
  <2> QED BY <1>1, <2>1, <2>2, ProbeFacts
<1>5. Lives' /\ Beats'
  BY <1>1, ProbeFacts DEF LiveInv, Lives, Latest, Beats
<1>6. Shown'
  <2> SUFFICES ASSUME losses = 0, NEW n \in alive \ stale, record[n].status = "offline"
               PROVE  AddrOf[n] # NoAddr /\ n \in Meta
    BY <1>1, ProbeFacts DEF Shown
  <2>1. AddrOf[n] # NoAddr
    BY DEF LiveInv, Shown
  <2> QED BY <1>2, <2>1 DEF LiveInv, Lives, Latest, Meta
<1> QED BY <1>3, <1>4, <1>5, <1>6 DEF Live

(* What a second's receipts and failures do to an address. *)
Taken(k, got, missed) ==
    LET r == IF got THEN Record(k, TRUE) ELSE k IN IF missed THEN Record(r, FALSE) ELSE r

LEMMA CollectFacts ==
    ASSUME TypeOK, Collect
    PROVE  /\ pc = "collect" /\ pc' = "sync"
           /\ UNCHANGED <<nodes, record, alive, wait, silent, clock, todo, held, losses, stale>>
           /\ outstanding' \subseteq outstanding
           /\ \A p \in outstanding' : p.age < Interval /\ (p.answered => p.age = 0)
           /\ \A p \in outstanding : ~ p.answered /\ p.age < Interval => p \in outstanding'
           /\ \A a \in Addr : \E got, missed \in BOOLEAN :
                /\ keep'[a] = Taken(keep[a], got, missed)
                /\ got => \E p \in outstanding : p.addr = a /\ p.answered
                /\ (\E p \in outstanding : p.addr = a /\ ~ p.answered /\ p.age >= Interval)
                    => missed
<1>1. PICK late \in SUBSET {p \in outstanding : p.answered /\ p.age = 0} :
          LET received == {p \in outstanding : p.answered} \ late
              expired == {p \in outstanding \ received : Expired(p)}
              after(a) == IF \E p \in received : p.addr = a
                          THEN Record(keep[a], TRUE) ELSE keep[a]
          IN /\ outstanding' = outstanding \ (received \cup expired)
             /\ keep' = [a \in Addr |-> IF \E p \in expired : p.addr = a
                                        THEN Record(after(a), FALSE) ELSE after(a)]
  BY DEF Collect
<1> DEFINE received == {p \in outstanding : p.answered} \ late
           expired == {p \in outstanding \ received : Expired(p)}
           after(a) == IF \E p \in received : p.addr = a
                       THEN Record(keep[a], TRUE) ELSE keep[a]
<1>2. /\ outstanding' = outstanding \ (received \cup expired)
      /\ keep' = [a \in Addr |-> IF \E p \in expired : p.addr = a
                                 THEN Record(after(a), FALSE) ELSE after(a)]
  BY <1>1
<1>3. \A p \in outstanding : p.age \in 0 .. Interval /\ p.answered \in BOOLEAN
  BY DEF TypeOK
<1>4. ASSUME NEW p \in outstanding' PROVE p.age < Interval /\ (p.answered => p.age = 0)
  <2>1. p \in outstanding /\ p \notin received /\ ~ Expired(p)
    BY <1>2
  <2>2. p.age < Interval
    BY <1>3, <2>1, Bounds DEF Expired
  <2>3. p.answered => p \in late
    BY <2>1
  <2> QED BY <2>2, <2>3
<1>5. ASSUME NEW p \in outstanding, ~ p.answered, p.age < Interval PROVE p \in outstanding'
  <2>1. ~ Expired(p)
    BY <1>3, <1>5, Bounds DEF Expired
  <2> QED BY <1>2, <1>5, <2>1
<1>6. ASSUME NEW a \in Addr
      PROVE  \E got, missed \in BOOLEAN :
                /\ keep'[a] = Taken(keep[a], got, missed)
                /\ got => \E p \in outstanding : p.addr = a /\ p.answered
                /\ (\E p \in outstanding : p.addr = a /\ ~ p.answered /\ p.age >= Interval)
                    => missed
  <2> DEFINE got == \E p \in received : p.addr = a
             missed == \E p \in expired : p.addr = a
  <2>1. got \in BOOLEAN /\ missed \in BOOLEAN
    OBVIOUS
  <2>2. keep'[a] = Taken(keep[a], got, missed)
    BY <1>2 DEF Taken
  <2>3. got => \E p \in outstanding : p.addr = a /\ p.answered
    OBVIOUS
  <2>4. ASSUME NEW p \in outstanding, p.addr = a, ~ p.answered, p.age >= Interval PROVE missed
    <3>1. p \in outstanding \ received
      BY <2>4
    <3>2. Expired(p)
      BY <2>4 DEF Expired
    <3> QED BY <2>4, <3>1, <3>2
  <2> HIDE DEF got, missed
  <2> QED BY <2>1, <2>2, <2>3, <2>4
<1>7. /\ pc = "collect" /\ pc' = "sync" /\ outstanding' \subseteq outstanding
      /\ UNCHANGED <<nodes, record, alive, wait, silent, clock, todo, held, losses, stale>>
  BY <1>2 DEF Collect
<1> QED BY <1>4, <1>5, <1>6, <1>7

LEMMA CollectLive == ASSUME LiveInv, Collect PROVE Live'
<1>1. TypeOK
  BY DEF LiveInv
<1>2. Hold' /\ Goes' /\ Listed' /\ Lives' /\ Beats'
  BY <1>1, CollectFacts DEF LiveInv, Hold, Goes, Listed, Lives, Latest, Beats
<1>3. Probes'
  <2> SUFFICES ASSUME NEW p \in outstanding'
               PROVE  p.age <= Interval - 1 /\ (p.answered => p.age <= 0)
    BY <1>1, CollectFacts DEF Probes, Early
  <2>1. p.age < Interval /\ (p.answered => p.age = 0) /\ p \in outstanding
    BY <1>1, CollectFacts
  <2>2. p.age \in 0 .. Interval
    BY <1>1, <2>1 DEF TypeOK
  <2> QED BY <2>1, <2>2, Bounds
<1>4. Shown'
  BY <1>1, CollectFacts DEF LiveInv, Shown
<1> QED BY <1>2, <1>3, <1>4 DEF Live

LEMMA LiveStep == ASSUME LiveInv, [Next]_vars PROVE LiveInv'
<1>1. TypeOK'
  BY TypeStep DEF LiveInv
<1>2. ASSUME UNCHANGED vars PROVE Live'
  BY <1>2 DEF vars, LiveInv, Live, Hold, Goes, Probes, Early, Lives, Latest, Beats, Listed, Shown
<1>3. ASSUME SyncEnd PROVE Live'
  BY <1>3 DEF SyncEnd, LiveInv, Live, Hold, Goes, Probes, Early, Lives, Latest, Beats, Listed,
     Shown
<1>4. ASSUME NEW n \in Node, Mark(n) PROVE Live'
  BY <1>4, ReadLive DEF Mark, Wanted
<1>5. ASSUME NEW n \in Node, Sync(n) PROVE Live'
  BY <1>5, ReadLive DEF Sync, Wanted
<1>6. Live'
  BY <1>2, <1>3, <1>4, <1>5, RegisterLive, AgentLive, TickLive, WriteLive, ProbeLive, CollectLive
     DEF Next, Loop, Live, LiveInv
<1> QED BY <1>1, <1>6 DEF Live, LiveInv

LEMMA LiveInit == Init => LiveInv
<1> SUFFICES ASSUME Init PROVE LiveInv
  OBVIOUS
<1> USE Bounds DEF Init
<1>1. record \in [Node -> Records] /\ NoHold.was \in Records
  BY DEF Records, NoHold
<1>2. keep \in [Addr -> [failures : 0 .. Threshold, available : BOOLEAN]]
  OBVIOUS
<1>3. wait \in [Node -> 0 .. Hb] /\ silent \in [Node -> 0 .. Bound]
  OBVIOUS
<1>4. held \in [node : 0 .. nodes, was : Records, want : {"online", "offline"}]
  BY <1>1 DEF NoHold
<1>5. TypeOK
  BY <1>1, <1>2, <1>3, <1>4 DEF TypeOK, Records
<1>6. Hold /\ Goes /\ Probes /\ Lives /\ Beats /\ Listed /\ Shown
  BY DEF Hold, Goes, Probes, Lives, Beats, Listed, Shown
<1> QED BY <1>5, <1>6 DEF LiveInv

-----------------------------------------------------------------------------
(***************************************************************************)
(* Stopped agents.                                                         *)
(***************************************************************************)
Dead == Aged /\ Struck /\ DeadShown /\ Late /\ Pending /\ Counted /\ Under
DeadInv == LiveInv /\ Dead

LEMMA SinceTyped ==
    ASSUME TypeOK, NEW a \in Addr
    PROVE  Since(a) \in Nat /\ Since(a) <= Interval - 1
<1>1. clock \in 0 .. Interval - 1 /\ Slot[a] \in 0 .. Interval - 1
  BY AddrAssumption DEF TypeOK
<1> QED BY <1>1, Bounds DEF Since

LEMMA SinceTick ==
    ASSUME TypeOK, Tick, NEW a \in Addr
    PROVE  Since(a)' = IF Since(a) = Interval - 1 THEN 0 ELSE Since(a) + 1
<1>1. clock \in 0 .. Interval - 1 /\ Slot[a] \in 0 .. Interval - 1
  BY AddrAssumption DEF TypeOK
<1>2. clock' = (clock + 1) % Interval
  BY DEF Tick
<1>3. clock' = IF clock = Interval - 1 THEN 0 ELSE clock + 1
  BY <1>1, <1>2, Bounds
<1> QED BY <1>1, <1>3, Bounds DEF Since

LEMMA ChargedFacts ==
    ASSUME TypeOK, NEW n \in Charged
    PROVE  /\ n \in 1 .. nodes /\ n \in Node /\ n \notin alive /\ AddrOf[n] \in Addr
           /\ silent[n] \in Nat /\ silent[n] <= Bound
           /\ keep[AddrOf[n]].failures \in Nat /\ keep[AddrOf[n]].failures <= Threshold
           /\ keep[AddrOf[n]].available \in BOOLEAN
<1>1. n \in 1 .. nodes /\ n \in Node /\ n \notin alive /\ AddrOf[n] # NoAddr
  BY LiveTypes DEF Charged
<1>2. AddrOf[n] \in Addr
  BY <1>1, AddrAssumption
<1>3. keep[AddrOf[n]] \in [failures : 0 .. Threshold, available : BOOLEAN]
  BY <1>2 DEF TypeOK
<1>4. keep[AddrOf[n]].failures \in 0 .. Threshold /\ keep[AddrOf[n]].available \in BOOLEAN
  BY <1>3
<1>5. silent[n] \in Nat /\ silent[n] <= Bound
  BY <1>1, LiveTypes
<1> QED BY <1>1, <1>2, <1>4, <1>5, Bounds

(* Steps that leave the probes and the addresses alone. *)
LEMMA ChargedKept ==
    ASSUME Late, Pending, Counted, Under, Charged' \subseteq Charged,
           UNCHANGED <<silent, outstanding, keep, clock>>,
           UNCHANGED pc \/ (pc = "sync" /\ pc' = "idle")
    PROVE  Late' /\ Pending' /\ Counted' /\ Under'
<1>1. \A a : Since(a)' = Since(a)
  BY DEF Since
<1>2. Early' = Early /\ (pc' = "mark" => pc = "mark")
  BY DEF Early
<1>3. Late' /\ Under'
  BY DEF Late, Under
<1>4. Pending'
  BY <1>1, <1>2 DEF Pending
<1>5. Counted'
  BY <1>1, <1>2 DEF Counted
<1> QED BY <1>3, <1>4, <1>5

(* An address that was silent for Bound seconds has failed. *)
LEMMA Exhausted ==
    ASSUME TypeOK, Counted, Under, NEW n \in Charged, silent[n] >= Bound, ~ Early
    PROVE  ~ keep[AddrOf[n]].available
<1> DEFINE a == AddrOf[n]
           f == keep[a].failures
<1>1. a \in Addr /\ f \in Nat /\ silent[n] \in Nat
  BY ChargedFacts
<1>2. Since(a) \in Nat /\ Since(a) <= Interval - 1
  BY <1>1, SinceTyped
<1>3. ASSUME keep[a].available PROVE FALSE
  <2>1. silent[n] - Since(a) <= (f + 1) * Interval + 0
    BY <1>3 DEF Counted
  <2>2. f < Threshold
    BY <1>1, <1>3 DEF Under
  <2>3. (f + 1) * Interval <= Threshold * Interval /\ (f + 1) * Interval \in Nat
    <3>1. \A x, y, z \in Nat : x < y => (x + 1) * z <= y * z /\ (x + 1) * z \in Nat
      OBVIOUS
    <3> QED BY <1>1, <2>2, <3>1, Bounds
  <2>4. Threshold * Interval \in Nat
        /\ (Threshold + 1) * Interval = Threshold * Interval + Interval
    BY Bounds
  <2>5. Bound >= (Threshold + 1) * Interval /\ (Threshold + 1) * Interval \in Nat
    BY TimingAssumption DEF Bound, Cap
  <2> DEFINE x == (f + 1) * Interval
             y == Threshold * Interval
             z == (Threshold + 1) * Interval
             d == Since(a)
             s == silent[n]
  <2>6. /\ x \in Nat /\ y \in Nat /\ z \in Nat /\ d \in Nat /\ s \in Nat /\ Bound \in Nat
        /\ s - d <= x /\ x <= y /\ z = y + Interval /\ Bound >= z /\ d <= Interval - 1
        /\ s >= Bound /\ Interval \in Nat
    BY <1>1, <1>2, <2>1, <2>3, <2>4, <2>5, Bounds
  <2> HIDE DEF x, y, z, d, s
  <2> QED BY <2>6
<1> QED BY <1>3

LEMMA RegisterDead == ASSUME DeadInv, Register PROVE Dead'
<1> DEFINE m == nodes + 1
<1>1. /\ nodes' = m /\ alive' = alive \cup {m} /\ m \in Node /\ nodes \in Nat
      /\ UNCHANGED <<wait, silent, keep, outstanding, clock, pc, todo, held, losses, stale>>
  BY Bounds, LiveTypes DEF Register, loopVars, DeadInv, LiveInv, Node
<1>2. /\ record'[m].status = "online" /\ record'[m].age = 0
      /\ \A n \in Node : n # m => record'[n] = record[n]
  BY <1>1 DEF Register, DeadInv, LiveInv, TypeOK
<1>3. 1 .. nodes \subseteq Node /\ \A n \in 1 .. m : n # m => n \in 1 .. nodes
  BY <1>1, LiveTypes DEF DeadInv, LiveInv
<1>4. Charged' \subseteq Charged
  <2> SUFFICES ASSUME NEW n \in Node, n \in Charged' PROVE n \in Charged
    BY <1>1, <1>3 DEF Charged
  <2>1. n \in 1 .. m /\ n \notin alive /\ n # m /\ AddrOf[n] # NoAddr
    BY <1>1 DEF Charged
  <2>5. Latest(n)' \/ (pc \in {"collect", "sync"} /\ n \in todo)
    BY <1>1 DEF Charged
  <2>2. Latest(n)' => Latest(n)
    <3>1. n + 1 .. nodes \subseteq n + 1 .. m
      BY <1>1, <2>1
    <3> QED BY <1>1, <3>1 DEF Latest
  <2>3. n \in 1 .. nodes
    BY <1>3, <2>1
  <2>4. Latest(n) \/ (pc \in {"collect", "sync"} /\ n \in todo)
    BY <2>2, <2>5
  <2> QED BY <2>1, <2>3, <2>4, Zenon DEF Charged
<1>5. Late' /\ Pending' /\ Counted' /\ Under'
  BY <1>1, <1>4, ChargedKept DEF DeadInv, Dead
<1>6. Aged'
  BY <1>1, <1>2, <1>3 DEF DeadInv, Dead, Aged
<1>7. Struck'
  <2>1. ~ (0 > Timeout)
    BY Bounds
  <2> QED BY <1>1, <1>2, <1>3, <2>1 DEF DeadInv, Dead, Struck
<1>8. DeadShown'
  BY <1>1, <1>2, <1>3 DEF DeadInv, Dead, DeadShown
<1> QED BY <1>5, <1>6, <1>7, <1>8 DEF Dead

(* The silence of an agent begins at zero. *)
LEMMA StopDead == ASSUME DeadInv, NEW n \in Node, Stop(n) PROVE Dead'
<1>1. /\ n \in alive /\ alive' = alive \ {n}
      /\ UNCHANGED <<nodes, record, wait, silent, keep, outstanding, clock, pc, todo, held,
                     losses, stale>>
  BY DEF Stop, loopVars
<1>2. silent[n] = 0 /\ record[n].age \in Nat /\ n \in 1 .. nodes
  BY <1>1, LiveTypes DEF DeadInv, LiveInv, Lives
<1>3. Charged' \subseteq Charged \cup {n}
  BY <1>1 DEF Charged, Latest
<1>4. Aged'
  BY <1>1, <1>2 DEF DeadInv, Dead, Aged
<1>5. Struck' /\ Under'
  BY <1>1 DEF DeadInv, Dead, Struck, Under
<1>6. DeadShown'
  <2>1. ~ (0 >= Bound)
    BY Bounds
  <2> QED BY <1>1, <1>2, <2>1 DEF DeadInv, Dead, DeadShown
<1>7. \A p \in outstanding : 0 <= p.age
  BY DEF DeadInv, LiveInv, TypeOK
<1>8. Late'
  BY <1>1, <1>2, <1>3, <1>7 DEF DeadInv, Dead, Late
<1>9. \A a : Since(a)' = Since(a)
  BY <1>1 DEF Since
<1>10. Early' = Early
  BY <1>1 DEF Early
<1>11. ASSUME AddrOf[n] # NoAddr
       PROVE  /\ AddrOf[n] \in Addr /\ keep[AddrOf[n]].failures \in Nat
              /\ Since(AddrOf[n]) \in Nat /\ Interval \in Nat /\ Interval >= 1
  <2>1. AddrOf[n] \in Addr
    BY <1>11, AddrAssumption
  <2>2. keep[AddrOf[n]] \in [failures : 0 .. Threshold, available : BOOLEAN]
    BY <2>1 DEF DeadInv, LiveInv, TypeOK
  <2> QED BY <2>1, <2>2, SinceTyped, Bounds DEF DeadInv, LiveInv
<1>12. n \in Charged' => AddrOf[n] # NoAddr
  BY DEF Charged
<1>13. Pending'
  <2> SUFFICES ASSUME NEW k \in Charged'
               PROVE  LET a == AddrOf[k] IN
                      /\ silent[k] - Since(a) >= 1 /\ (pc = "mark" => Since(a) # 0)
                           => Unanswered(a, Since(a)) \in outstanding
                      /\ silent[k] - Interval >= 1 /\ Early /\ Since(a) = 0
                           => Unanswered(a, Interval) \in outstanding
    BY <1>1, <1>9, <1>10 DEF Pending
  <2>1. CASE k \in Charged
    BY <2>1 DEF DeadInv, Dead, Pending
  <2>2. CASE k = n
    <3>1. Since(AddrOf[n]) \in Nat /\ Interval \in Nat
      BY <1>11, <1>12, <2>2
    <3>2. ~ (silent[n] - Since(AddrOf[n]) >= 1) /\ ~ (silent[n] - Interval >= 1)
      BY <1>2, <3>1
    <3> QED BY <2>2, <3>2
  <2> QED BY <1>3, <2>1, <2>2
<1>14. Counted'
  <2> SUFFICES ASSUME NEW k \in Charged', keep[AddrOf[k]].available
               PROVE  LET a == AddrOf[k] IN
                      silent[k] - Since(a) <= (keep[a].failures + 1) * Interval
                                + (IF Early /\ Since(a) = 0 THEN Interval ELSE 0)
    BY <1>1, <1>9, <1>10 DEF Counted
  <2>1. CASE k \in Charged
    BY <2>1 DEF DeadInv, Dead, Counted
  <2>2. CASE k = n
    <3> DEFINE a == AddrOf[n]
               x == (keep[a].failures + 1) * Interval
    <3>1. Since(a) \in Nat /\ Interval \in Nat /\ keep[a].failures \in Nat
      BY <1>11, <1>12, <2>2
    <3>2. x \in Nat
      BY <3>1
    <3> HIDE DEF x
    <3>3. silent[n] - Since(a) <= x + (IF Early /\ Since(a) = 0 THEN Interval ELSE 0)
      BY <1>2, <3>1, <3>2
    <3> QED BY <2>2, <3>3 DEF x
  <2> QED BY <1>3, <2>1, <2>2
<1> QED BY <1>4, <1>5, <1>6, <1>8, <1>13, <1>14 DEF Dead

(* A heartbeat says nothing of the stopped agents. *)
LEMMA HeartbeatDead ==
    ASSUME DeadInv, NEW n \in Node, Heartbeat(n) \/ HeartbeatLost(n) PROVE Dead'
<1>1. /\ n \in alive /\ UNCHANGED <<nodes, alive, silent, keep, outstanding, clock, pc, todo>>
  BY DEF Heartbeat, HeartbeatLost, loopVars
<1>2. \/ UNCHANGED record
      \/ /\ record'[n].status = "online" /\ record'[n].age = 0
         /\ \A k \in Node : k # n => record'[k] = record[k]
  BY DEF Heartbeat, HeartbeatLost, DeadInv, LiveInv, TypeOK
<1>3. 1 .. nodes \subseteq Node
  BY LiveTypes DEF DeadInv, LiveInv
<1>4. Charged' = Charged
  BY <1>1 DEF Charged, Latest
<1>5. Late' /\ Pending' /\ Counted' /\ Under'
  BY <1>1, <1>4, ChargedKept DEF DeadInv, Dead
<1>6. Aged'
  BY <1>1, <1>2, <1>3 DEF DeadInv, Dead, Aged
<1>7. Struck'
  <2>1. ~ (0 > Timeout)
    BY Bounds
  <2> QED BY <1>1, <1>2, <1>3, <2>1 DEF DeadInv, Dead, Struck
<1>8. DeadShown'
  BY <1>1, <1>2, <1>3 DEF DeadInv, Dead, DeadShown
<1> QED BY <1>5, <1>6, <1>7, <1>8 DEF Dead

(* What a tick leaves outstanding. *)
LEMMA TickKeeps ==
    ASSUME Tick, NEW a \in Addr, NEW d \in Nat, Unanswered(a, d) \in outstanding
    PROVE  Unanswered(a, d + 1) \in outstanding'
<1>1. [Unanswered(a, d) EXCEPT !.age = @ + 1] \in outstanding'
  BY DEF Tick
<1>2. Unanswered(a, d).age = d
  BY DEF Unanswered
<1>3. [Unanswered(a, d) EXCEPT !.age = @ + 1] = [Unanswered(a, d) EXCEPT !.age = d + 1]
  BY <1>2
<1>4. ASSUME NEW e \in Nat PROVE [Unanswered(a, d) EXCEPT !.age = e] = Unanswered(a, e)
  <2>1. \A r \in [addr : Addr, age : Nat, answered : BOOLEAN] :
            [r EXCEPT !.age = e] = [addr |-> r.addr, age |-> e, answered |-> r.answered]
    OBVIOUS
  <2>2. Unanswered(a, d) \in [addr : Addr, age : Nat, answered : BOOLEAN]
        /\ Unanswered(a, d).addr = a /\ Unanswered(a, d).answered = FALSE
    BY DEF Unanswered
  <2> QED BY <2>1, <2>2 DEF Unanswered
<1> QED BY <1>1, <1>3, <1>4

(* A second more of silence: the window moves with it, or a probe is due. *)
LEMMA TickDead == ASSUME DeadInv, Tick PROVE Dead'
<1>1. TypeOK
  BY DEF DeadInv, LiveInv
<1>2. /\ pc = "idle" /\ pc' = "mark"
      /\ UNCHANGED <<nodes, alive, keep, held, losses, stale>>
      /\ 1 .. nodes \subseteq Node
  BY <1>1, TickFacts, LiveTypes
<1>3. Charged' = Charged
  BY <1>2 DEF Charged, Latest
<1>4. \A n \in Node : silent'[n] \in Nat /\ silent'[n] <= silent[n] + 1
  <2> TAKE n \in Node
  <2>1. silent[n] \in Nat
    BY <1>1, LiveTypes
  <2>2. silent'[n] = silent[n] + 1 \/ silent'[n] = silent[n]
    BY <1>1, TickFacts
  <2> QED BY <2>1, <2>2
<1>5. Aged'
  <2> SUFFICES ASSUME NEW n \in 1 .. nodes, n \notin alive
               PROVE  record'[n].age >= silent'[n] \/ record'[n].age = Cap
    BY <1>2 DEF Aged
  <2>1. /\ n \in Node /\ n <= nodes /\ record[n].age \in Nat /\ record[n].age <= Cap
        /\ silent[n] \in Nat
    BY <1>1, <1>2, LiveTypes
  <2>2. record'[n].age = IF record[n].age < Cap THEN record[n].age + 1 ELSE record[n].age
    BY <1>1, <2>1, TickFacts
  <2>3. record[n].age >= silent[n] \/ record[n].age = Cap
    BY DEF DeadInv, Dead, Aged
  <2>4. silent'[n] \in Nat /\ silent'[n] <= silent[n] + 1
    BY <1>4, <2>1
  <2> QED BY <2>1, <2>2, <2>3, <2>4, Bounds
<1>6. Struck'
  BY <1>1, <1>2, TickFacts DEF Struck
<1>7. DeadShown' /\ Under'
  BY <1>2 DEF DeadShown, DeadInv, Dead, Under
<1>8. Late'
  <2> SUFFICES ASSUME NEW n \in Charged, NEW q \in outstanding', q.addr = AddrOf[n], q.answered
               PROVE  silent'[n] <= q.age
    BY <1>3 DEF Late
  <2>1. PICK p \in outstanding :
            q.addr = p.addr /\ q.answered = p.answered /\ q.age = p.age + 1
    BY <1>1, TickFacts
  <2>2. p.age \in 0 .. Interval
    BY <1>1 DEF TypeOK
  <2>3. silent[n] <= p.age
    BY <2>1 DEF DeadInv, Dead, Late
  <2>4. n \in Node /\ silent[n] \in Nat
    BY <1>1, ChargedFacts
  <2>5. silent'[n] \in Nat /\ silent'[n] <= silent[n] + 1
    BY <1>4, <2>4
  <2> QED BY <2>1, <2>2, <2>3, <2>4, <2>5, Bounds
<1>9. Pending'
  <2> SUFFICES ASSUME NEW n \in Charged
               PROVE  LET a == AddrOf[n] IN
                      /\ silent'[n] - Since(a)' >= 1 /\ Since(a)' # 0
                           => Unanswered(a, Since(a)') \in outstanding'
                      /\ silent'[n] - Interval >= 1 /\ Since(a)' = 0
                           => Unanswered(a, Interval) \in outstanding'
    BY <1>2, <1>3 DEF Pending, Unanswered
  <2> DEFINE a == AddrOf[n]
             d == Since(a)
  <2>1. n \in Node /\ a \in Addr /\ silent[n] \in Nat /\ d \in Nat /\ d <= Interval - 1
    BY <1>1, ChargedFacts, SinceTyped
  <2>2. silent'[n] \in Nat /\ silent'[n] <= silent[n] + 1
    BY <1>4, <2>1
  <2>3. Since(a)' = IF d = Interval - 1 THEN 0 ELSE d + 1
    BY <1>1, <2>1, SinceTick
  <2>4. silent[n] - d >= 1 => Unanswered(a, d) \in outstanding
    BY <1>2 DEF DeadInv, Dead, Pending
  <2>5. silent[n] - d >= 1 => Unanswered(a, d + 1) \in outstanding'
    BY <2>1, <2>4, TickKeeps
  <2>6. CASE d = Interval - 1
    <3>1. d + 1 = Interval /\ Since(a)' = 0
      BY <2>1, <2>3, <2>6, Bounds
    <3>2. silent'[n] - Interval >= 1 => silent[n] - d >= 1
      BY <2>1, <2>2, <2>6, Bounds
    <3> QED BY <2>5, <3>1, <3>2
  <2>7. CASE d # Interval - 1
    <3>1. Since(a)' = d + 1 /\ Since(a)' # 0
      BY <2>1, <2>3, <2>7
    <3>2. silent'[n] - (d + 1) >= 1 => silent[n] - d >= 1
      BY <2>1, <2>2
    <3> QED BY <2>5, <3>1, <3>2
  <2> QED BY <2>6, <2>7
<1>10. Counted'
  <2> SUFFICES ASSUME NEW n \in Charged, keep[AddrOf[n]].available
               PROVE  LET a == AddrOf[n] IN
                      silent'[n] - Since(a)' <= (keep[a].failures + 1) * Interval
                                + (IF Since(a)' = 0 THEN Interval ELSE 0)
    BY <1>2, <1>3 DEF Counted, Early
  <2> DEFINE a == AddrOf[n]
             d == Since(a)
             x == (keep[a].failures + 1) * Interval
  <2>1. n \in Node /\ a \in Addr /\ silent[n] \in Nat /\ d \in Nat /\ d <= Interval - 1
        /\ keep[a].failures \in Nat
    BY <1>1, ChargedFacts, SinceTyped
  <2>2. silent'[n] \in Nat /\ silent'[n] <= silent[n] + 1
    BY <1>4, <2>1
  <2>3. Since(a)' = IF d = Interval - 1 THEN 0 ELSE d + 1
    BY <1>1, <2>1, SinceTick
  <2>4. x \in Nat
    BY <2>1, Bounds
  <2>5. silent[n] - d <= x + 0
    BY <1>2 DEF DeadInv, Dead, Counted, Early
  <2> HIDE DEF x, d
  <2>6. silent'[n] - Since(a)' <= x + (IF Since(a)' = 0 THEN Interval ELSE 0)
    BY <2>1, <2>2, <2>3, <2>4, <2>5, Bounds
  <2> QED BY <2>6 DEF x
<1> QED BY <1>5, <1>6, <1>7, <1>8, <1>9, <1>10 DEF Dead

(* get_node: a node leaves the list only with the status it should have. *)
LEMMA ReadDead ==
    ASSUME DeadInv, NEW n \in Node, pc \in {"mark", "sync"}, Read(n, Wanted(n)) PROVE Dead'
<1>1. /\ UNCHANGED <<nodes, record, alive, wait, silent, keep, outstanding, clock,
                     pc, losses, stale>>
      /\ todo' = todo \/ (todo' = todo \ {n} /\ record[n].status = Wanted(n))
  BY DEF Read
<1>2. Charged' \subseteq Charged
  BY <1>1 DEF Charged, Latest
<1>3. Late' /\ Pending' /\ Counted' /\ Under'
  BY <1>1, <1>2, ChargedKept DEF DeadInv, Dead
<1>4. Aged' /\ DeadShown'
  BY <1>1 DEF DeadInv, Dead, Aged, DeadShown
<1>5. Struck'
  BY <1>1 DEF DeadInv, Dead, Struck, Wanted
<1> QED BY <1>3, <1>4, <1>5 DEF Dead

(* insert_node: the time that comes back is no younger, and the probes do  *)
(* not speak for an address that was silent for too long.                  *)
LEMMA WriteDead == ASSUME DeadInv, Write PROVE Dead'
<1> DEFINE h == held.node
<1>1. TypeOK /\ Hold
  BY DEF DeadInv, LiveInv
<1>2. /\ pc \in {"mark", "sync"} /\ h \in todo /\ h \in Node /\ h \in 1 .. nodes
      /\ UNCHANGED <<nodes, alive, wait, silent, keep, outstanding, clock, pc, losses>>
      /\ todo' = todo \ {h}
      /\ record'[h].status = Wanted(h)
      /\ record'[h].age = held.was.age /\ held.was.age >= record[h].age
      /\ \A n \in Node : n # h => record'[n] = record[n]
      /\ 1 .. nodes \subseteq Node
  BY <1>1, WriteFacts, LiveTypes
<1>3. Charged' \subseteq Charged
  BY <1>2 DEF Charged, Latest
<1>4. Late' /\ Pending' /\ Counted' /\ Under'
  BY <1>2, <1>3, ChargedKept DEF DeadInv, Dead
<1>5. Aged'
  <2> SUFFICES ASSUME NEW n \in 1 .. nodes, n \notin alive
               PROVE  record'[n].age >= silent[n] \/ record'[n].age = Cap
    BY <1>2 DEF Aged
  <2>1. record[n].age >= silent[n] \/ record[n].age = Cap
    BY DEF DeadInv, Dead, Aged
  <2>2. CASE n = h
    <3>1. /\ record[h].age \in Nat /\ silent[h] \in Nat
          /\ held.was.age \in Nat /\ held.was.age <= Cap
      BY <1>1, <1>2, LiveTypes
    <3> QED BY <1>2, <2>1, <2>2, <3>1, Bounds
  <2>3. CASE n # h
    BY <1>2, <2>1, <2>3
  <2> QED BY <2>2, <2>3
<1>6. Struck'
  <2> SUFFICES ASSUME NEW n \in 1 .. nodes, record'[n].age > Timeout, pc = "mark"
               PROVE  n \in todo \ {h} \/ record'[n].status = "offline"
    BY <1>2 DEF Struck
  <2>1. CASE n = h
    BY <1>2, <2>1 DEF Wanted
  <2>2. CASE n # h
    BY <1>2, <2>2 DEF DeadInv, Dead, Struck
  <2> QED BY <2>1, <2>2
<1>7. DeadShown'
  <2> SUFFICES ASSUME NEW n \in 1 .. nodes, n \notin alive, silent[n] >= Bound, pc = "sync"
               PROVE  record'[n].status = "offline"
    BY <1>2 DEF DeadShown
  <2>1. CASE n = h
    <3>1. h \in Charged
      BY <1>2, <2>1 DEF Charged, DeadInv, LiveInv, Goes
    <3>2. ~ keep[AddrOf[h]].available
      BY <1>1, <2>1, <3>1, Exhausted DEF DeadInv, Dead, Early
    <3> QED BY <1>2, <2>1, <3>2 DEF Wanted
  <2>2. CASE n # h
    BY <1>2, <2>2 DEF DeadInv, Dead, DeadShown
  <2> QED BY <2>1, <2>2
<1> QED BY <1>4, <1>5, <1>6, <1>7 DEF Dead

(* The address of a stopped agent is not another's. *)
LEMMA NobodyListens ==
    ASSUME TypeOK, Lives, NEW n \in Charged, Latest(n)
    PROVE  ~ Listens(AddrOf[n])
<1> SUFFICES ASSUME NEW k \in alive, AddrOf[k] = AddrOf[n] PROVE FALSE
  BY DEF Listens
<1>1. n \in 1 .. nodes /\ n \notin alive /\ AddrOf[n] # NoAddr /\ k \in 1 .. nodes /\ nodes \in Nat
  BY LiveTypes DEF Charged
<1>2. k \in n + 1 .. nodes \/ n \in k + 1 .. nodes
  BY <1>1
<1>3. k \notin n + 1 .. nodes
  BY DEF Latest
<1>4. Latest(k)
  BY <1>1 DEF Lives
<1>5. n \notin k + 1 .. nodes
  BY <1>4 DEF Latest
<1> QED BY <1>2, <1>3, <1>5

LEMMA ProbeDead == ASSUME DeadInv, Probe PROVE Dead'
<1>1. TypeOK
  BY DEF DeadInv, LiveInv
<1>2. /\ pc = "mark" /\ pc' = "collect" /\ todo = {} /\ todo' = Meta
      /\ UNCHANGED <<nodes, record, alive, wait, silent, keep, clock, held, stale>>
      /\ outstanding \subseteq outstanding'
  BY <1>1, ProbeFacts
<1>3. Charged' \subseteq Charged
  BY <1>2 DEF Charged, Latest, Meta
<1>4. Aged' /\ Struck' /\ DeadShown' /\ Under'
  BY <1>2 DEF DeadInv, Dead, Aged, Struck, DeadShown, Under
<1>5. ASSUME NEW n \in Charged PROVE Latest(n) /\ ~ Listens(AddrOf[n])
  <2>1. Latest(n)
    BY <1>2 DEF Charged
  <2> QED BY <1>1, <2>1, NobodyListens DEF DeadInv, LiveInv
<1>6. Late'
  <2> SUFFICES ASSUME NEW n \in Charged, NEW q \in outstanding', q.addr = AddrOf[n], q.answered
               PROVE  silent[n] <= q.age
    BY <1>2, <1>3 DEF Late
  <2>1. q \in outstanding
    BY <1>1, <1>5, ProbeFacts
  <2> QED BY <2>1 DEF DeadInv, Dead, Late
<1>7. \A a : Since(a)' = Since(a)
  BY <1>2 DEF Since
<1>8. Early /\ Early'
  BY <1>2 DEF Early
<1>9. Pending'
  <2> SUFFICES ASSUME NEW n \in Charged
               PROVE  LET a == AddrOf[n] IN
                      /\ silent[n] - Since(a) >= 1 => Unanswered(a, Since(a)) \in outstanding'
                      /\ silent[n] - Interval >= 1 /\ Since(a) = 0
                           => Unanswered(a, Interval) \in outstanding'
    BY <1>2, <1>3, <1>7, <1>8 DEF Pending
  <2> DEFINE a == AddrOf[n]
  <2>1. /\ silent[n] - Since(a) >= 1 /\ Since(a) # 0
             => Unanswered(a, Since(a)) \in outstanding
        /\ silent[n] - Interval >= 1 /\ Since(a) = 0
             => Unanswered(a, Interval) \in outstanding
    BY <1>2, <1>8 DEF DeadInv, Dead, Pending
  <2>2. ASSUME Since(a) = 0 PROVE Unanswered(a, 0) \in outstanding'
    <3>1. a \in Addr /\ n \in 1 .. nodes /\ a # NoAddr
      BY <1>1, ChargedFacts, AddrAssumption
    <3>2. Slot[a] = clock
      <4>1. clock \in 0 .. Interval - 1 /\ Slot[a] \in 0 .. Interval - 1
        BY <1>1, <3>1, AddrAssumption DEF TypeOK
      <4> QED BY <2>2, <4>1, Bounds DEF Since
    <3>3. n \in Meta
      BY <1>5, <3>1 DEF Meta, Latest
    <3>4. a \in Due
      BY <3>2, <3>3 DEF Due
    <3> QED BY <1>1, <1>5, <3>4, ProbeFacts
  <2> QED BY <1>2, <2>1, <2>2
<1>10. Counted'
  BY <1>2, <1>3, <1>7, <1>8 DEF DeadInv, Dead, Counted
<1> QED BY <1>4, <1>6, <1>9, <1>10 DEF Dead

(* Keepalive::record, one receipt and one failure at the most. *)
LEMMA TakenFacts ==
    ASSUME NEW k \in [failures : 0 .. Threshold, available : BOOLEAN],
           k.available => k.failures < Threshold,
           NEW got \in BOOLEAN, NEW missed \in BOOLEAN, Taken(k, got, missed).available
    PROVE  /\ Taken(k, got, missed).failures \in Nat
           /\ Taken(k, got, missed).failures < Threshold
           /\ ~ got => k.available
           /\ ~ got /\ missed => Taken(k, got, missed).failures = k.failures + 1
           /\ ~ got /\ ~ missed => Taken(k, got, missed) = k
<1> USE Bounds
<1>1. k.failures \in Nat /\ k.failures <= Threshold /\ k.available \in BOOLEAN
  OBVIOUS
<1>2. CASE got
  <2> DEFINE few == Taken(k, got, missed).failures \in Nat
                    /\ Taken(k, got, missed).failures < Threshold
             z == [failures |-> 0, available |-> TRUE]
  <2>1. z.failures = 0 /\ z.available = TRUE
    OBVIOUS
  <2>2. ASSUME missed PROVE few
    <3>1. Taken(k, got, missed) = Record(z, FALSE)
      BY <1>2, <2>2 DEF Taken, Record
    <3>2. Record(z, FALSE).failures = 1
      BY <2>1 DEF Record
    <3>3. Record(z, FALSE).available => 1 < Threshold
      <4> DEFINE b == z.available /\ z.failures + 1 < Threshold
      <4>1. b => 1 < Threshold
        BY <2>1
      <4> HIDE DEF b
      <4>2. Record(z, FALSE).available = b
        BY DEF Record, b
      <4> QED BY <4>1, <4>2, Zenon
    <3>4. 1 < Threshold
      BY <3>1, <3>3, Zenon
    <3>5. Taken(k, got, missed).failures = 1
      BY <3>1, <3>2, Zenon
    <3> QED BY <3>4, <3>5
  <2>3. ASSUME ~ missed PROVE few
    <3>1. Taken(k, got, missed) = z
      BY <1>2, <2>3 DEF Taken, Record
    <3> QED BY <2>1, <3>1
  <2>4. few
    BY <2>2, <2>3
  <2> QED BY <1>2, <2>4
<1>3. CASE ~ got /\ missed
  BY <1>1, <1>3 DEF Taken, Record
<1>4. CASE ~ got /\ ~ missed
  BY <1>1, <1>4 DEF Taken
<1> QED BY <1>2, <1>3, <1>4

(* A probe that was not answered within the window costs the address one   *)
(* failure; an answer that is read late is from the silence's first second. *)
LEMMA CollectDead == ASSUME DeadInv, Collect PROVE Dead'
<1>1. TypeOK
  BY DEF DeadInv, LiveInv
<1>2. /\ pc = "collect" /\ pc' = "sync"
      /\ UNCHANGED <<nodes, record, alive, wait, silent, clock, todo, held, losses, stale>>
      /\ outstanding' \subseteq outstanding
  BY <1>1, CollectFacts
<1>3. Charged' = Charged
  BY <1>2 DEF Charged, Latest
<1>4. Aged' /\ Struck' /\ Late'
  BY <1>2, <1>3 DEF DeadInv, Dead, Aged, Struck, Late
<1>5. DeadShown'
  <2> SUFFICES ASSUME NEW n \in 1 .. nodes, n \notin alive, silent[n] >= Bound
               PROVE  record[n].status = "offline"
    BY <1>2 DEF DeadShown
  <2>1. n \in Node /\ record[n].age \in Nat /\ silent[n] \in Nat
    BY <1>1, LiveTypes
  <2>2. record[n].age >= silent[n] \/ record[n].age = Cap
    BY DEF DeadInv, Dead, Aged
  <2>3. record[n].age > Timeout
    BY <2>1, <2>2, Bounds
  <2> QED BY <1>2, <2>3 DEF DeadInv, Dead, Struck
<1>6. \A a : Since(a)' = Since(a)
  BY <1>2 DEF Since
<1>7. Early /\ ~ Early'
  BY <1>2 DEF Early
<1>8. Pending'
  <2> SUFFICES ASSUME NEW n \in Charged, silent[n] - Since(AddrOf[n]) >= 1
               PROVE  Unanswered(AddrOf[n], Since(AddrOf[n])) \in outstanding'
    BY <1>2, <1>3, <1>6, <1>7 DEF Pending
  <2> DEFINE a == AddrOf[n]
             p == Unanswered(a, Since(a))
  <2>1. p \in outstanding
    BY <1>2 DEF DeadInv, Dead, Pending
  <2>2. Since(a) \in Nat /\ Since(a) < Interval
    BY <1>1, ChargedFacts, SinceTyped, Bounds
  <2>3. ~ p.answered /\ p.age = Since(a)
    BY DEF Unanswered
  <2> HIDE DEF p
  <2>4. p \in outstanding'
    BY <1>1, <2>1, <2>2, <2>3, CollectFacts
  <2> QED BY <2>4 DEF p
<1>9. ASSUME NEW a \in Addr PROVE keep[a] \in [failures : 0 .. Threshold, available : BOOLEAN]
  BY <1>1 DEF TypeOK
<1>10. Under'
  <2> SUFFICES ASSUME NEW a \in Addr, keep'[a].available PROVE keep'[a].failures < Threshold
    BY DEF Under
  <2>1. PICK got \in BOOLEAN, missed \in BOOLEAN : keep'[a] = Taken(keep[a], got, missed)
    BY <1>1, CollectFacts
  <2>2. keep[a].available => keep[a].failures < Threshold
    BY DEF DeadInv, Dead, Under
  <2> QED BY <1>9, <2>1, <2>2, TakenFacts
<1>11. Counted'
  <2> SUFFICES ASSUME NEW n \in Charged, keep'[AddrOf[n]].available
               PROVE  silent[n] - Since(AddrOf[n])
                          <= (keep'[AddrOf[n]].failures + 1) * Interval + 0
    BY <1>2, <1>3, <1>6, <1>7 DEF Counted
  <2> DEFINE a == AddrOf[n]
             d == Since(a)
             s == silent[n]
             f == keep[a].failures
             g == keep'[a].failures
             x == (f + 1) * Interval
             y == (g + 1) * Interval
  <2>1. a \in Addr /\ s \in Nat /\ f \in Nat /\ d \in Nat /\ d <= Interval - 1
    BY <1>1, ChargedFacts, SinceTyped
  <2>2. PICK got \in BOOLEAN, missed \in BOOLEAN :
            /\ keep'[a] = Taken(keep[a], got, missed)
            /\ got => \E p \in outstanding : p.addr = a /\ p.answered
            /\ (\E p \in outstanding : p.addr = a /\ ~ p.answered /\ p.age >= Interval)
                => missed
    BY <1>1, <2>1, CollectFacts
  <2>3. keep[a].available => f < Threshold
    BY <2>1 DEF DeadInv, Dead, Under
  <2>4. /\ g \in Nat /\ (~ got => keep[a].available)
        /\ ~ got /\ missed => g = f + 1
        /\ ~ got /\ ~ missed => g = f
    BY <1>9, <2>1, <2>2, <2>3, TakenFacts
  <2>5. x \in Nat /\ y \in Nat /\ y >= Interval
    <3>1. \A u, v \in Nat : (u + 1) * v \in Nat /\ (u + 1) * v >= v
      OBVIOUS
    <3> QED BY <2>1, <2>4, <3>1, Bounds
  <2>6. ~ got => s - d <= x + (IF d = 0 THEN Interval ELSE 0)
    BY <1>7, <2>4 DEF DeadInv, Dead, Counted
  <2>7. ASSUME got PROVE s <= Interval
    <3>1. PICK p \in outstanding : p.addr = a /\ p.answered
      BY <2>2, <2>7
    <3>2. s <= p.age
      BY <3>1 DEF DeadInv, Dead, Late
    <3>3. p.age <= 1 /\ p.age \in 0 .. Interval
      BY <1>1, <1>7, <3>1 DEF DeadInv, LiveInv, Probes, TypeOK
    <3> QED BY <2>1, <3>2, <3>3, Bounds
  <2>8. ASSUME ~ got, missed PROVE y = x + Interval
    <3>1. \A u, v \in Nat : (u + 1 + 1) * v = (u + 1) * v + v
      OBVIOUS
    <3> QED BY <2>1, <2>4, <2>8, <3>1, Bounds
  <2>9. ASSUME ~ got, ~ missed PROVE y = x /\ (d = 0 => s <= Interval)
    <3>1. Unanswered(a, Interval) \notin outstanding
      <4> DEFINE p == Unanswered(a, Interval)
      <4>1. p.addr = a /\ ~ p.answered /\ p.age = Interval
        BY DEF Unanswered
      <4>2. Interval >= Interval
        BY Bounds
      <4> HIDE DEF p
      <4>3. p \notin outstanding
        BY <2>2, <2>9, <4>1, <4>2
      <4> QED BY <4>3 DEF p
    <3>2. d = 0 => ~ (s - Interval >= 1)
      BY <1>7, <3>1 DEF DeadInv, Dead, Pending
    <3>3. d = 0 => s <= Interval
      BY <2>1, <3>2, Bounds
    <3> QED BY <2>4, <2>9, <3>3
  <2> HIDE DEF a, d, s, f, g, x, y
  <2>10. s - d <= y + 0
    <3>1. CASE got
      BY <2>1, <2>5, <2>7, <3>1, Bounds
    <3>2. CASE ~ got /\ missed
      BY <2>1, <2>5, <2>6, <2>8, <3>2, Bounds
    <3>3. CASE ~ got /\ ~ missed
      BY <2>1, <2>5, <2>6, <2>9, <3>3, Bounds
    <3> QED BY <3>1, <3>2, <3>3
  <2> QED BY <2>10 DEF a, d, s, f, g, x, y
<1> QED BY <1>4, <1>5, <1>8, <1>10, <1>11 DEF Dead

LEMMA DeadStep == ASSUME DeadInv, [Next]_vars PROVE DeadInv'
<1>1. LiveInv'
  BY LiveStep DEF DeadInv
<1>2. ASSUME UNCHANGED vars PROVE Dead'
  <2>1. Charged' = Charged
    BY <1>2 DEF vars, Charged, Latest
  <2>2. Late' /\ Pending' /\ Counted' /\ Under'
    BY <1>2, <2>1, ChargedKept DEF vars, DeadInv, Dead
  <2> QED BY <1>2, <2>2 DEF vars, DeadInv, Dead, Aged, Struck, DeadShown
<1>3. ASSUME SyncEnd PROVE Dead'
  <2>1. Charged' \subseteq Charged
    BY <1>3 DEF SyncEnd, Charged, Latest
  <2>2. Late' /\ Pending' /\ Counted' /\ Under'
    BY <1>3, <2>1, ChargedKept DEF SyncEnd, DeadInv, Dead
  <2> QED BY <1>3, <2>2 DEF SyncEnd, DeadInv, Dead, Aged, Struck, DeadShown
<1>4. ASSUME NEW n \in Node, Mark(n) PROVE Dead'
  BY <1>4, ReadDead DEF Mark, Wanted
<1>5. ASSUME NEW n \in Node, Sync(n) PROVE Dead'
  BY <1>5, ReadDead DEF Sync, Wanted
<1>6. Dead'
  BY <1>2, <1>3, <1>4, <1>5, RegisterDead, StopDead, HeartbeatDead, TickDead, WriteDead,
     ProbeDead, CollectDead DEF Next, Loop
<1> QED BY <1>1, <1>6 DEF DeadInv

LEMMA DeadInit == Init => DeadInv
<1> SUFFICES ASSUME Init PROVE DeadInv
  OBVIOUS
<1>1. 1 .. nodes = {}
  BY DEF Init
<1>2. Aged /\ Struck /\ DeadShown
  BY <1>1 DEF Aged, Struck, DeadShown
<1>3. Charged = {}
  BY <1>1 DEF Charged
<1>4. Late /\ Pending /\ Counted
  BY <1>3 DEF Late, Pending, Counted
<1>5. Under
  BY Bounds DEF Init, Under
<1> QED BY <1>2, <1>4, <1>5, LiveInit DEF DeadInv, Dead

-----------------------------------------------------------------------------
(* Type correctness, for any number of nodes and any periods. *)
THEOREM NodeTypeOK == Spec => []TypeOK
<1>1. LiveInv => TypeOK
  BY DEF LiveInv
<1> QED BY <1>1, LiveInit, LiveStep, PTL DEF Spec

(* The heartbeat, the timeout and the probes of keepalive::run: a running  *)
(* agent is shown as offline only after a loss, or for the address's past, *)
(* or because the loop wrote back what it had read before a heartbeat.     *)
THEOREM NoFalseOfflineAlways == Spec => []NoFalseOffline
<1>1. LiveInv => NoFalseOffline
  BY DEF LiveInv, Shown, NoFalseOffline
<1> QED BY <1>1, LiveInit, LiveStep, PTL DEF Spec

(* A stopped agent is shown as offline after Bound seconds, whatever the   *)
(* order of the loop's reads and writes, of registrations that take its    *)
(* address over, and of lost and late answers to probes.                   *)
THEOREM DeadAlwaysOffline == Spec => []DeadOffline
<1>1. DeadInv => DeadOffline
  BY DEF DeadInv, Dead, DeadShown, DeadOffline
<1> QED BY <1>1, DeadInit, DeadStep, PTL DEF Spec
=============================================================================
