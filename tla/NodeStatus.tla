----------------------------- MODULE NodeStatus -----------------------------
(***************************************************************************)
(* Whether the scheduler believes a node to be online.  Three writers set  *)
(* the status in the node's record: registration and heartbeats (gRPC),    *)
(* the heartbeat timeout and the UDP probes (both in keepalive::run).  The *)
(* loop writes by get_node and insert_node, two transactions, and the      *)
(* record carries the time of the last heartbeat along.                    *)
(***************************************************************************)
EXTENDS Integers, FiniteSets, Functions

CONSTANTS
    MaxNode,        \* bound: registrations
    Addr,           \* keepalive addresses
    AddrOf,         \* node -> its keepalive address, or NoAddr
    NoAddr,
    Slot,           \* address -> second of the window in which it is probed
    Hb,             \* seconds between heartbeats: 25 in the agent
    Timeout,        \* offline_timeout_secs
    Interval,       \* keepalive_interval_secs
    Threshold,      \* keepalive_fail_threshold
    MaxLoss         \* bound: heartbeats and probes that are lost

Node == 1 .. MaxNode

ASSUME AddrAssumption == /\ NoAddr \notin Addr
                         /\ AddrOf \in [Node -> Addr \cup {NoAddr}]
                         /\ Slot \in [Addr -> 0 .. Interval - 1]
(* The agent beats every 25 s whatever the scheduler's configuration says. *)
ASSUME TimingAssumption == /\ Hb \in Nat \ {0} /\ Timeout \in Nat /\ Hb <= Timeout
                           /\ Interval \in Nat \ {0} /\ Threshold \in Nat \ {0}
                           /\ MaxLoss \in Nat /\ MaxNode \in Nat

VARIABLES
    nodes,          \* nodes 1 .. nodes are registered
    record,         \* node -> status, and age of last_heartbeat_ms
    alive,          \* nodes whose agent runs
    wait,           \* node -> seconds since its agent's last heartbeat
    silent,         \* history: node -> seconds since its agent stopped
    keep,           \* address -> AddrState
    outstanding,    \* probes without a receipt
    clock,          \* now_secs % interval_secs
    pc,             \* step of the loop
    todo,           \* nodes the current step still goes over
    held,           \* what get_node returned, until insert_node
    losses,         \* messages lost so far
    stale           \* history: nodes whose last heartbeat was overruled

loopVars == <<keep, outstanding, clock, pc, todo, held>>
vars == <<nodes, record, alive, wait, silent, keep, outstanding, clock, pc,
          todo, held, losses, stale>>

Cap == Timeout + 1
NoHold == [node |-> 0, was |-> [status |-> "offline", age |-> 0], want |-> "offline"]
Listens(a) == \E n \in alive : AddrOf[n] = a

(* A dead node is offline after this many seconds (see DeadOffline). *)
Bound == LET byPing == (Threshold + 1) * Interval
         IN IF byPing > Cap THEN byPing ELSE Cap

Init ==
    /\ nodes = 0 /\ alive = {}
    /\ record = [n \in Node |-> [status |-> "offline", age |-> 0]]
    /\ wait = [n \in Node |-> 0] /\ silent = [n \in Node |-> 0]
    /\ keep = [a \in Addr |-> [failures |-> 0, available |-> TRUE]]
    /\ outstanding = {} /\ clock = 0
    /\ pc = "idle" /\ todo = {} /\ held = NoHold /\ losses = 0 /\ stale = {}
-----------------------------------------------------------------------------
(***************************************************************************)
(* Agents.                                                                 *)
(***************************************************************************)
(* register: a new id every time, with status online.  Two processes do    *)
(* not listen on one address.                                              *)
Register ==
    /\ nodes < MaxNode
    /\ AddrOf[nodes + 1] = NoAddr \/ ~ Listens(AddrOf[nodes + 1])
    /\ nodes' = nodes + 1 /\ alive' = alive \cup {nodes + 1}
    /\ record' = [record EXCEPT ![nodes + 1] = [status |-> "online", age |-> 0]]
    /\ UNCHANGED <<wait, silent, loopVars, losses, stale>>

Stop(n) ==
    /\ n \in alive /\ alive' = alive \ {n}
    /\ UNCHANGED <<nodes, record, wait, silent, loopVars, losses, stale>>

(* Mutant: a heartbeat sets the time only. *)
Heartbeat_TimeOnly(n) ==
    /\ n \in alive /\ wait[n] = Hb
    /\ wait' = [wait EXCEPT ![n] = 0] /\ stale' = stale \ {n}
    /\ record' = [record EXCEPT ![n].age = 0]
    /\ UNCHANGED <<nodes, alive, silent, loopVars, losses>>

(* heartbeat: both fields are set, so what was read before does not matter. *)
Heartbeat(n) ==
    /\ n \in alive /\ wait[n] = Hb
    /\ wait' = [wait EXCEPT ![n] = 0] /\ stale' = stale \ {n}
    /\ record' = [record EXCEPT ![n] = [status |-> "online", age |-> 0]]
    /\ UNCHANGED <<nodes, alive, silent, loopVars, losses>>

(* The call fails; heartbeat_loop ignores the error and sleeps again. *)
HeartbeatLost(n) ==
    /\ n \in alive /\ wait[n] = Hb /\ losses < MaxLoss
    /\ wait' = [wait EXCEPT ![n] = 0] /\ losses' = losses + 1
    /\ UNCHANGED <<nodes, record, alive, silent, loopVars, stale>>
-----------------------------------------------------------------------------
(***************************************************************************)
(* keepalive::run, one second of it.                                       *)
(***************************************************************************)
(* Mutant: the timeout has an off-by-one. *)
OfflineNodes_Early == {n \in 1 .. nodes : record'[n].age >= Timeout}

(* offline_nodes, at the new time. *)
OfflineNodes == {n \in 1 .. nodes : record'[n].age > Timeout}

(* A second passes and the ticker fires.  An agent's timer is not late by  *)
(* a second: its heartbeat has been sent when the next second begins.      *)
Tick ==
    /\ pc = "idle" /\ \A n \in alive : wait[n] < Hb
    /\ clock' = (clock + 1) % Interval
    /\ record' = [n \in Node |->
                    [record[n] EXCEPT !.age = IF n <= nodes /\ @ < Cap THEN @ + 1 ELSE @]]
    /\ wait' = [n \in Node |-> IF n \in alive THEN wait[n] + 1 ELSE 0]
    /\ silent' = [n \in Node |-> IF n <= nodes /\ n \notin alive /\ silent[n] < Bound
                                 THEN silent[n] + 1 ELSE silent[n]]
    /\ outstanding' = {[p EXCEPT !.age = @ + 1] : p \in outstanding}
    /\ todo' = OfflineNodes /\ pc' = "mark"
    /\ UNCHANGED <<nodes, alive, keep, held, losses, stale>>

(* get_node: the record is kept if its status has to change. *)
Read(n, want) ==
    /\ n \in todo /\ held = NoHold
    /\ IF record[n].status = want
       THEN todo' = todo \ {n} /\ UNCHANGED held
       ELSE held' = [node |-> n, was |-> record[n], want |-> want] /\ UNCHANGED todo
    /\ UNCHANGED <<nodes, record, alive, wait, silent, keep, outstanding, clock,
                   pc, losses, stale>>

(* A heartbeat has come after the record was read, or after the timeout    *)
(* was established.                                                        *)
Overtaken == \/ record[held.node].age # held.was.age
             \/ pc = "mark" /\ record[held.node].age = 0

(* insert_node: the whole record, with the heartbeat time that was read. *)
Write ==
    /\ held # NoHold
    /\ record' = [record EXCEPT ![held.node] = [held.was EXCEPT !.status = held.want]]
    /\ todo' = todo \ {held.node} /\ held' = NoHold
    /\ stale' = IF Overtaken THEN stale \cup {held.node} ELSE stale
    /\ UNCHANGED <<nodes, alive, wait, silent, keep, outstanding, clock, pc, losses>>

(* Nodes without a heartbeat for too long become offline. *)
Mark(n) == pc = "mark" /\ Read(n, "offline")

(* The address table: of the nodes with one address the last one stays. *)
Meta == {n \in 1 .. nodes : /\ AddrOf[n] # NoAddr
                            /\ \A k \in n + 1 .. nodes : AddrOf[k] # AddrOf[n]}

(* A probe and its fate; its sequence number is the entry's identity. *)
Ping(a, answered) == [addr |-> a, age |-> 0, answered |-> answered]

(* probe_due: the addresses of this second of the window. *)
Due == {a \in {AddrOf[n] : n \in Meta} : Slot[a] = clock}

(* The table is rebuilt and the addresses that are due are probed.  The    *)
(* agent answers (serve_pong) if it runs, and the packets are not lost.    *)
Probe ==
    /\ pc = "mark" /\ todo = {} /\ held = NoHold
    /\ \E lost \in SUBSET {a \in Due : Listens(a)} :
        /\ losses + Cardinality(lost) <= MaxLoss
        /\ losses' = losses + Cardinality(lost)
        /\ outstanding' = outstanding \cup
                {Ping(a, Listens(a) /\ a \notin lost) : a \in Due}
    /\ todo' = Meta /\ pc' = "collect"
    /\ UNCHANGED <<nodes, record, alive, wait, silent, keep, clock, held, stale>>

(* Mutant: a counter exactly at the threshold is not enough. *)
Record_Beyond(state, ok) ==
    IF ok THEN [failures |-> 0, available |-> TRUE]
    ELSE [failures |-> IF state.failures < Threshold THEN state.failures + 1 ELSE Threshold,
          available |-> state.available /\ state.failures + 1 <= Threshold]

(* Keepalive::record; a counter past the threshold is kept at it. *)
Record(state, ok) ==
    IF ok THEN [failures |-> 0, available |-> TRUE]
    ELSE [failures |-> IF state.failures < Threshold THEN state.failures + 1 ELSE Threshold,
          available |-> state.available /\ state.failures + 1 < Threshold]

(* Mutant: a probe is given one second more. *)
Expired_Late(p) == p.age > Interval

(* A probe as old as the window has failed. *)
Expired(p) == p.age >= Interval

(* The receipts that have come are read (a probe of this second may be     *)
(* answered too late for that); then what is as old as the window counts   *)
(* as a failure.                                                           *)
Collect ==
    /\ pc = "collect"
    /\ \E late \in SUBSET {p \in outstanding : p.answered /\ p.age = 0} :
        LET received == {p \in outstanding : p.answered} \ late
            expired == {p \in outstanding \ received : Expired(p)}
            after(a) == IF \E p \in received : p.addr = a
                        THEN Record(keep[a], TRUE) ELSE keep[a]
        IN /\ outstanding' = outstanding \ (received \cup expired)
           /\ keep' = [a \in Addr |-> IF \E p \in expired : p.addr = a
                                      THEN Record(after(a), FALSE) ELSE after(a)]
    /\ pc' = "sync"
    /\ UNCHANGED <<nodes, record, alive, wait, silent, clock, todo, held, losses,
                   stale>>

(* The status follows the availability of the address. *)
Sync(n) ==
    /\ pc = "sync"
    /\ Read(n, IF keep[AddrOf[n]].available THEN "online" ELSE "offline")

SyncEnd ==
    /\ pc = "sync" /\ todo = {} /\ held = NoHold
    /\ pc' = "idle"
    /\ UNCHANGED <<nodes, record, alive, wait, silent, keep, outstanding, clock,
                   todo, held, losses, stale>>
-----------------------------------------------------------------------------
Loop == \/ Tick \/ Write \/ Probe \/ Collect \/ SyncEnd
        \/ \E n \in Node : Mark(n) \/ Sync(n)

Next == \/ Register \/ Loop
        \/ \E n \in Node : Stop(n) \/ Heartbeat(n) \/ HeartbeatLost(n)

(* The loop and the agents' timers do not stop; the statement of Tick      *)
(* makes a heartbeat wait for nothing else.                                *)
Spec == Init /\ [][Next]_vars
FairSpec == Spec /\ WF_vars(Loop) /\ \A n \in Node : WF_vars(Heartbeat(n))
-----------------------------------------------------------------------------
(* Type invariant. *)
TypeOK ==
    /\ nodes \in 0 .. MaxNode /\ alive \subseteq 1 .. nodes
    /\ record \in [Node -> [status : {"online", "offline"}, age : 0 .. Cap]]
    /\ wait \in [Node -> 0 .. Hb] /\ silent \in [Node -> 0 .. Bound]
    /\ keep \in [Addr -> [failures : 0 .. Threshold, available : BOOLEAN]]
    /\ outstanding \subseteq [addr : Addr, age : 0 .. Interval, answered : BOOLEAN]
    /\ clock \in 0 .. Interval - 1
    /\ pc \in {"idle", "mark", "collect", "sync"} /\ todo \subseteq 1 .. nodes
    /\ held \in [node : 0 .. nodes, was : [status : {"online", "offline"}, age : 0 .. Cap],
                 want : {"online", "offline"}]
    /\ losses \in 0 .. MaxLoss /\ stale \subseteq 1 .. nodes

(* A node whose agent runs is offline only if a message was lost, or its   *)
(* address is still held unreachable on account of an earlier process, or  *)
(* the loop acted on what it had read before the last heartbeat: it writes *)
(* the old time back, the timeout strikes a live node, and the next        *)
(* heartbeat repairs it.  (New receipts take effect at the end of the      *)
(* loop's body.)                                                           *)
NoFalseOffline ==
    pc \in {"idle", "mark"} =>
        \A n \in alive : losses = 0 /\ record[n].status = "offline" =>
            \/ n \in stale
            \/ AddrOf[n] # NoAddr /\ ~ keep[AddrOf[n]].available

(* A node whose agent has stopped is offline after Bound seconds, although *)
(* the probes set it back to online each second until they have failed     *)
(* often enough, and whatever became of its address.                       *)
DeadOffline ==
    pc = "idle" => \A n \in 1 .. nodes :
        n \notin alive /\ silent[n] >= Bound => record[n].status = "offline"

(* A node that runs is seen as online again, however often messages were   *)
(* lost and stale records written over its heartbeats.                     *)
AliveComesBack ==
    \A n \in Node : n \in alive ~> n \notin alive \/ record[n].status = "online"
=============================================================================
