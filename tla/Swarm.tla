-------------------------------- MODULE Swarm --------------------------------
(***************************************************************************)
(* How the chunks of one game version spread over the IDC agents.  The     *)
(* scheduler keeps a ledger of who holds a chunk; a task names the chunks  *)
(* nobody held when it was created, and only those may be fetched from the *)
(* origin; everything else comes from the holders the ledger names, in two *)
(* rounds.  A machine keeps its pack store over restarts and gets a new    *)
(* node id each time; the ledger never forgets an id.                      *)
(***************************************************************************)
EXTENDS Integers, Sequences, FiniteSets, Functions

CONSTANTS
    Machine,        \* machines that run an IDC agent
    Chunk,          \* chunks of the version
    Byte,           \* chunk -> first byte of its hash
    Addrs,          \* machine -> kinds of the addresses it registers, in order
    Limit,          \* holders a peer query looks at: 5 in the code
    BatchSize,      \* chunks per pack write: 64 in the code
    MaxNode,        \* bound: node ids
    MaxTask,        \* bound: tasks created
    Faults,         \* kinds of failure the environment produces
    MaxFaults       \* bound: failures in a behaviour

ASSUME ByteAssumption == Byte \in [Chunk -> Nat]
ASSUME MachineAssumption == IsFiniteSet(Machine)
(* Its external address, if it has one, and that of its keepalive port. *)
ASSUME AddrsAssumption ==
    Addrs \in [Machine -> {<<>>, <<"data">>, <<"data", "keepalive">>}]
ASSUME BoundsAssumption ==
    /\ Limit \in Nat \ {0} /\ BatchSize \in Nat \ {0}
    /\ MaxNode \in Nat /\ MaxTask \in Nat /\ MaxFaults \in Nat

Node == 1 .. MaxNode
Target == Node \X {1, 2}        \* PeerTarget: a node and one of its addresses
None == 0
Rounds == 2

VARIABLES
    nodes,          \* scheduler db: nodes 1 .. nodes are registered
    host,           \* node -> its machine
    online,         \* nodes whose status is "online"
    ledger,         \* chunk -> holders, in the order of their reports
    id,             \* machine -> node id of the running agent
    have,           \* machine -> chunks in its pack store
    pc,             \* machine -> step of its task
    assigned,       \* machine -> assigned_chunks of its task
    batch,          \* machine -> chunks received and not yet written, in order
    round,          \* machine -> rounds begun
    unresolved,     \* machine -> chunks to look up in this round
    later,          \* machine -> next_unresolved
    source,         \* machine -> chunk -> target planned for it (groups)
    got,            \* machine -> chunks of those groups that arrived
    exclude,        \* machine -> sources given up
    outcome,        \* machine -> how its last task ended
    lost,           \* history: machine -> chunks its last task received and
                    \* lost in a failed write of another group
    everLost,       \* history: machine -> chunks any of its tasks lost so
    blocked,        \* history: machine -> chunks its last task failed for
    sent,           \* history: chunk -> times it left the origin
    tasks, overlaps,\* history: tasks created, created beside another one
    faults          \* failures so far

ledgerVars == <<nodes, host, online, ledger>>
planVars == <<round, unresolved, later, source, got, exclude>>
lossVars == <<lost, everLost, blocked>>
historyVars == <<sent, tasks, overlaps, lost, everLost, blocked>>
vars == <<nodes, host, online, ledger, id, have, pc, assigned, batch, round,
          unresolved, later, source, got, exclude, outcome, lost, everLost,
          blocked, sent, tasks, overlaps, faults>>

Fault(kind) ==
    /\ kind \in Faults /\ faults < MaxFaults
    /\ faults' = faults + 1
Goto(m, step) == pc' = [pc EXCEPT ![m] = step]
EmptyPlan == [c \in {} |-> None]

(* The task returns, and its local state is gone. *)
Finish(m, result) ==
    /\ Goto(m, "idle") /\ outcome' = [outcome EXCEPT ![m] = result]
    /\ assigned' = [assigned EXCEPT ![m] = {}] /\ batch' = [batch EXCEPT ![m] = <<>>]
    /\ round' = [round EXCEPT ![m] = 0]
    /\ unresolved' = [unresolved EXCEPT ![m] = {}]
    /\ later' = [later EXCEPT ![m] = {}] /\ exclude' = [exclude EXCEPT ![m] = {}]
    /\ source' = [source EXCEPT ![m] = EmptyPlan] /\ got' = [got EXCEPT ![m] = {}]
-----------------------------------------------------------------------------
(***************************************************************************)
(* What the scheduler answers.                                             *)
(***************************************************************************)
(* record_chunk_holder: a holder is added once and never removed. *)
RecordChunkHolder(c, n) ==
    ledger' = [ledger EXCEPT ![c] = IF n \in Range(@) THEN @ ELSE Append(@, n)]

(* chunk_holders: in the order in which they reported. *)
ChunkHolders(c) == ledger[c]

(* Mutant: a chunk is assigned to one task only. *)
AssignIdcChunks_Once ==
    {c \in Chunk : ledger[c] = <<>> /\ \A m \in Machine : c \notin assigned[m]}

(* assign_idc_chunks: the chunks without a holder. *)
AssignIdcChunks == {c \in Chunk : ChunkHolders(c) = <<>>}

(* query_peers: the first Limit holders, and of these the online ones, as  *)
(* positions in the list of holders.                                       *)
QueryPeers(c) ==
    {i \in DOMAIN ChunkHolders(c) : i <= Limit /\ ChunkHolders(c)[i] \in online}

(***************************************************************************)
(* What the agent makes of it.                                             *)
(***************************************************************************)
AddrsOf(n) == Addrs[host[n]]
Candidates(m, c) ==
    {i \in QueryPeers(c) : /\ ChunkHolders(c)[i] \notin exclude[m]
                           /\ AddrsOf(ChunkHolders(c)[i]) # <<>>}

(* The hash picks one candidate and one of its addresses. *)
Before(S, i) == Cardinality({j \in S : j < i})
Picked(m, c) ==
    LET p == Candidates(m, c)
    IN ChunkHolders(c)[CHOOSE i \in p : Before(p, i) = Byte[c] % Cardinality(p)]
PickedAddr(c, n) == (Byte[c] % Len(AddrsOf(n))) + 1
TargetOf(m, c) == <<Picked(m, c), PickedAddr(c, Picked(m, c))>>
Group(m, g) == {c \in DOMAIN source[m] : source[m][c] = g}

(* connect_peer and handle_conn: the address is that of the data path of a *)
(* running agent (the endpoint that downloads has no relay).               *)
Serves(g, c) ==
    /\ AddrsOf(g[1])[g[2]] = "data" /\ id[host[g[1]]] = g[1]
    /\ c \in have[host[g[1]]]
-----------------------------------------------------------------------------
Init ==
    /\ nodes = 0 /\ host = [n \in Node |-> None] /\ online = {}
    /\ ledger = [c \in Chunk |-> <<>>]
    /\ id = [m \in Machine |-> None] /\ have = [m \in Machine |-> {}]
    /\ pc = [m \in Machine |-> "idle"] /\ assigned = [m \in Machine |-> {}]
    /\ batch = [m \in Machine |-> <<>>] /\ round = [m \in Machine |-> 0]
    /\ unresolved = [m \in Machine |-> {}] /\ later = [m \in Machine |-> {}]
    /\ source = [m \in Machine |-> EmptyPlan] /\ got = [m \in Machine |-> {}]
    /\ exclude = [m \in Machine |-> {}]
    /\ outcome = [m \in Machine |-> "none"]
    /\ lost = [m \in Machine |-> {}] /\ everLost = [m \in Machine |-> {}]
    /\ blocked = [m \in Machine |-> {}]
    /\ sent = [c \in Chunk |-> 0] /\ tasks = 0 /\ overlaps = 0
    /\ faults = 0

(* The agent starts and registers. *)
Join(m) ==
    /\ id[m] = None /\ nodes < MaxNode
    /\ nodes' = nodes + 1 /\ id' = [id EXCEPT ![m] = nodes + 1]
    /\ host' = [host EXCEPT ![nodes + 1] = m]
    /\ online' = online \cup {nodes + 1}
    /\ UNCHANGED <<ledger, have, pc, assigned, batch, planVars, outcome,
                   historyVars, faults>>

(* The heartbeats of an agent that is gone have timed out. *)
MarkOffline(n) ==
    /\ n \in online /\ id[host[n]] # n
    /\ online' = online \ {n}
    /\ UNCHANGED <<nodes, host, ledger, id, have, pc, assigned, batch, planVars,
                   outcome, historyVars, faults>>

(* create_task for an IDC node: the ledger is read now, the task runs later. *)
CreateTask(m) ==
    /\ id[m] # None /\ pc[m] = "idle" /\ tasks < MaxTask
    /\ assigned' = [assigned EXCEPT ![m] = AssignIdcChunks]
    /\ Goto(m, "queued")
    /\ tasks' = tasks + 1
    /\ overlaps' = overlaps + IF \E k \in Machine : pc[k] # "idle" THEN 1 ELSE 0
    /\ outcome' = [outcome EXCEPT ![m] = "none"]
    /\ lost' = [lost EXCEPT ![m] = {}] /\ blocked' = [blocked EXCEPT ![m] = {}]
    /\ UNCHANGED <<ledgerVars, id, have, batch, planVars, everLost, sent, faults>>

(* run_idc up to download_missing. *)
Begin(m) ==
    /\ pc[m] = "queued"
    /\ unresolved' = [unresolved EXCEPT ![m] = Chunk \ have[m]]
    /\ round' = [round EXCEPT ![m] = 1]
    /\ Goto(m, "plan")
    /\ UNCHANGED <<ledgerVars, id, have, assigned, batch, later, source, got,
                   exclude, outcome, historyVars, faults>>

(* build_endpoint fails: no socket for the download, and the task fails. *)
BeginFail(m) ==
    /\ pc[m] = "queued" /\ Fault("rpc")
    /\ Finish(m, "failed")
    /\ UNCHANGED <<ledgerVars, id, have, historyVars>>

(* A round asks for the holders of each chunk that is left. *)
Plan(m, c) ==
    /\ pc[m] = "plan" /\ c \in unresolved[m]
    /\ unresolved' = [unresolved EXCEPT ![m] = @ \ {c}]
    /\ IF Candidates(m, c) = {}
       THEN /\ later' = [later EXCEPT ![m] = @ \cup {c}]
            /\ UNCHANGED source
       ELSE /\ source' = [source EXCEPT ![m] =
                            [d \in DOMAIN @ \cup {c} |->
                                IF d = c THEN TargetOf(m, c) ELSE @[d]]]
            /\ UNCHANGED later
    /\ UNCHANGED <<ledgerVars, id, have, pc, assigned, batch, round, got,
                   exclude, outcome, historyVars, faults>>

(* A query fails, and with it the task. *)
PlanFail(m) ==
    /\ pc[m] = "plan" /\ unresolved[m] # {} /\ Fault("rpc")
    /\ Finish(m, "failed")
    /\ UNCHANGED <<ledgerVars, id, have, historyVars>>

Planned(m) ==
    /\ pc[m] = "plan" /\ unresolved[m] = {}
    /\ Goto(m, IF DOMAIN source[m] = {} THEN "resolve" ELSE "fetch")
    /\ UNCHANGED <<ledgerVars, id, have, assigned, batch, planVars, outcome,
                   historyVars, faults>>

(* The sink: chunks are gathered, and written when the batch is full. *)
Full(m) == Len(batch[m]) + 1 >= BatchSize
Sink(m, c) ==
    LET b == Append(batch[m], c)
    IN /\ batch' = [batch EXCEPT ![m] = IF Full(m) THEN <<>> ELSE b]
       /\ have' = [have EXCEPT ![m] = IF Full(m) THEN @ \cup Range(b) ELSE @]

(* fetch_chunks: a chunk arrives and its hash is right. *)
Receive(m, c) ==
    /\ pc[m] = "fetch" /\ c \in DOMAIN source[m] \ got[m]
    /\ Serves(source[m][c], c)
    /\ Sink(m, c)
    /\ got' = [got EXCEPT ![m] = @ \cup {c}]
    /\ UNCHANGED <<ledgerVars, id, pc, assigned, round, unresolved, later,
                   source, exclude, outcome, historyVars, faults>>

(* A group is over: it leaves the plan, and what it leaves for the next    *)
(* round is added.                                                         *)
CloseGroup(m, g, left) ==
    /\ source' = [source EXCEPT ![m] =
                    [c \in DOMAIN @ \ Group(m, g) |-> @[c]]]
    /\ got' = [got EXCEPT ![m] = @ \ Group(m, g)]
    /\ later' = [later EXCEPT ![m] = @ \cup left]

GroupDone(m, g) ==
    /\ pc[m] = "fetch" /\ Group(m, g) # {} /\ Group(m, g) \subseteq got[m]
    /\ CloseGroup(m, g, {})
    /\ UNCHANGED <<ledgerVars, id, have, pc, assigned, batch, round, unresolved,
                   exclude, outcome, historyVars, faults>>

(* Mutant: what a short answer left out is forgotten. *)
GroupShort_Forget(m, g) ==
    /\ pc[m] = "fetch" /\ Group(m, g) # {} /\ Fault("net")
    /\ CloseGroup(m, g, {})
    /\ UNCHANGED <<ledgerVars, id, have, pc, assigned, batch, round, unresolved,
                   exclude, outcome, historyVars>>

(* The answer ends between two chunks: Ok with the rest failed.  The       *)
(* source is not excluded.                                                 *)
GroupShort(m, g) ==
    /\ pc[m] = "fetch" /\ Group(m, g) # {} /\ Fault("net")
    /\ CloseGroup(m, g, Group(m, g) \ got[m])
    /\ UNCHANGED <<ledgerVars, id, have, pc, assigned, batch, round, unresolved,
                   exclude, outcome, historyVars>>

(* An error: no connection, or the answer ends within a chunk.  The source *)
(* is excluded and the whole group is tried again, the chunks that did     *)
(* arrive included.                                                        *)
GroupError(m, g) ==
    /\ pc[m] = "fetch" /\ Group(m, g) # {}
    /\ \/ /\ \E c \in Group(m, g) \ got[m] : ~ Serves(g, c)
          /\ UNCHANGED faults
       \/ Fault("net")
    /\ CloseGroup(m, g, Group(m, g))
    /\ exclude' = [exclude EXCEPT ![m] = @ \cup {g[1]}]
    /\ UNCHANGED <<ledgerVars, id, have, pc, assigned, batch, round, unresolved,
                   outcome, historyVars>>

(* The chunk fills the batch and flush_pending fails, after it has taken   *)
(* the batch: all of it is gone.  The error is this group's, and only its  *)
(* chunks are tried again.                                                 *)
ReceiveFail(m, c) ==
    LET g == source[m][c]
        others == Range(batch[m]) \ Group(m, g)
    IN
    /\ pc[m] = "fetch" /\ c \in DOMAIN source[m] \ got[m] /\ Serves(g, c)
    /\ Full(m) /\ Fault("disk")
    /\ batch' = [batch EXCEPT ![m] = <<>>]
    /\ lost' = [lost EXCEPT ![m] = @ \cup others]
    /\ everLost' = [everLost EXCEPT ![m] = @ \cup others]
    /\ CloseGroup(m, g, Group(m, g))
    /\ exclude' = [exclude EXCEPT ![m] = @ \cup {g[1]}]
    /\ UNCHANGED <<ledgerVars, id, have, pc, assigned, round, unresolved,
                   outcome, blocked, sent, tasks, overlaps>>

(* Mutant: one round too many. *)
NextRound_Extra(m) ==
    /\ pc[m] = "fetch" /\ DOMAIN source[m] = {}
    /\ IF round[m] <= Rounds /\ later[m] # {}
       THEN /\ round' = [round EXCEPT ![m] = @ + 1]
            /\ unresolved' = [unresolved EXCEPT ![m] = later[m]]
            /\ later' = [later EXCEPT ![m] = {}]
            /\ Goto(m, "plan")
       ELSE Goto(m, "resolve") /\ UNCHANGED <<round, unresolved, later>>
    /\ UNCHANGED <<ledgerVars, id, have, assigned, batch, source, got, exclude,
                   outcome, historyVars, faults>>

(* The groups are through: another round, or the end of it. *)
NextRound(m) ==
    /\ pc[m] = "fetch" /\ DOMAIN source[m] = {}
    /\ IF round[m] < Rounds /\ later[m] # {}
       THEN /\ round' = [round EXCEPT ![m] = @ + 1]
            /\ unresolved' = [unresolved EXCEPT ![m] = later[m]]
            /\ later' = [later EXCEPT ![m] = {}]
            /\ Goto(m, "plan")
       ELSE Goto(m, "resolve") /\ UNCHANGED <<round, unresolved, later>>
    /\ UNCHANGED <<ledgerVars, id, have, assigned, batch, source, got, exclude,
                   outcome, historyVars, faults>>

(* What is left must be the task's own share; else the task fails, and the *)
(* chunks in the batch are lost with it.                                   *)
Resolve(m) ==
    /\ pc[m] = "resolve"
    /\ IF later[m] \subseteq assigned[m]
       THEN Goto(m, "origin") /\ UNCHANGED <<assigned, batch, planVars, outcome, blocked>>
       ELSE /\ Finish(m, "failed")
            /\ blocked' = [blocked EXCEPT ![m] = later[m] \ assigned[m]]
    /\ UNCHANGED <<ledgerVars, id, have, sent, tasks, overlaps, lost, everLost, faults>>

(* Mutant: a chunk that arrived is asked for again. *)
OriginReceive_Again(m, c) ==
    /\ pc[m] = "origin" /\ c \in later[m]
    /\ sent' = [sent EXCEPT ![c] = @ + 1]
    /\ Sink(m, c)
    /\ UNCHANGED <<ledgerVars, id, pc, assigned, round, unresolved, later,
                   source, got, exclude, outcome, tasks, overlaps, lossVars, faults>>

(* The share is fetched from the origin. *)
OriginReceive(m, c) ==
    /\ pc[m] = "origin" /\ c \in later[m]
    /\ later' = [later EXCEPT ![m] = @ \ {c}]
    /\ sent' = [sent EXCEPT ![c] = @ + 1]
    /\ Sink(m, c)
    /\ UNCHANGED <<ledgerVars, id, pc, assigned, round, unresolved, source, got,
                   exclude, outcome, tasks, overlaps, lossVars, faults>>

(* Here the error of a failed write is the task's. *)
OriginReceiveFail(m, c) ==
    /\ pc[m] = "origin" /\ c \in later[m] /\ Full(m) /\ Fault("disk")
    /\ sent' = [sent EXCEPT ![c] = @ + 1]
    /\ Finish(m, "failed")
    /\ UNCHANGED <<ledgerVars, id, have, tasks, overlaps, lossVars>>

OriginFail(m) ==
    /\ pc[m] = "origin" /\ later[m] # {} /\ Fault("net")
    /\ Finish(m, "failed")
    /\ UNCHANGED <<ledgerVars, id, have, historyVars>>

(* Mutant: run_idc reports without writing the last batch. *)
Flush_Skipped(m) ==
    /\ pc[m] = "origin" /\ later[m] = {}
    /\ unresolved' = [unresolved EXCEPT ![m] = Chunk]
    /\ Goto(m, "report")
    /\ UNCHANGED <<ledgerVars, id, have, batch, assigned, round, later, source,
                   got, exclude, outcome, historyVars, faults>>

(* The last batch is written; then every chunk of the version is reported. *)
Flush(m) ==
    /\ pc[m] = "origin" /\ later[m] = {}
    /\ have' = [have EXCEPT ![m] = @ \cup Range(batch[m])]
    /\ batch' = [batch EXCEPT ![m] = <<>>]
    /\ unresolved' = [unresolved EXCEPT ![m] = Chunk]
    /\ Goto(m, "report")
    /\ UNCHANGED <<ledgerVars, id, assigned, round, later, source, got, exclude,
                   outcome, historyVars, faults>>

FlushFail(m) ==
    /\ pc[m] = "origin" /\ later[m] = {} /\ batch[m] # <<>> /\ Fault("disk")
    /\ Finish(m, "failed")
    /\ UNCHANGED <<ledgerVars, id, have, historyVars>>

(* report_chunks: here unresolved holds what is still to be reported. *)
Report(m, c) ==
    /\ pc[m] = "report" /\ c \in unresolved[m]
    /\ RecordChunkHolder(c, id[m])
    /\ unresolved' = [unresolved EXCEPT ![m] = @ \ {c}]
    /\ UNCHANGED <<nodes, host, online, id, have, pc, assigned, batch, round,
                   later, source, got, exclude, outcome, historyVars, faults>>

ReportFail(m) ==
    /\ pc[m] = "report" /\ unresolved[m] # {} /\ Fault("rpc")
    /\ Finish(m, "failed")
    /\ UNCHANGED <<ledgerVars, id, have, historyVars>>

Done(m) ==
    /\ pc[m] = "report" /\ unresolved[m] = {}
    /\ Finish(m, "done")
    /\ UNCHANGED <<ledgerVars, id, have, historyVars, faults>>

(* The agent stops; only its pack store survives. *)
Crash(m) ==
    /\ id[m] # None /\ Fault("crash")
    /\ id' = [id EXCEPT ![m] = None] /\ Finish(m, "none")
    /\ UNCHANGED <<ledgerVars, have, historyVars>>
-----------------------------------------------------------------------------
TaskStep(m) ==
    \/ Begin(m) \/ Planned(m) \/ NextRound(m) \/ Resolve(m) \/ Flush(m) \/ Done(m)
    \/ \E c \in Chunk :
        Plan(m, c) \/ Receive(m, c) \/ OriginReceive(m, c) \/ Report(m, c)
    \/ \E g \in Target : GroupDone(m, g) \/ GroupError(m, g)

Next ==
    \/ \E n \in Node : MarkOffline(n)
    \/ \E m \in Machine :
        \/ Join(m) \/ CreateTask(m) \/ TaskStep(m) \/ Crash(m)
        \/ BeginFail(m) \/ PlanFail(m) \/ OriginFail(m) \/ FlushFail(m) \/ ReportFail(m)
        \/ \E g \in Target : GroupShort(m, g)
        \/ \E c \in Chunk : ReceiveFail(m, c) \/ OriginReceiveFail(m, c)

(* A task is a tokio task that runs until it returns.  Its calls and reads *)
(* have no time limit: only a peer or a scheduler that stalls, which is a  *)
(* failure, keeps it from going on, and TasksSucceed is about behaviours   *)
(* without one.                                                            *)
Spec == Init /\ [][Next]_vars
FairSpec == Spec /\ \A m \in Machine : WF_vars(TaskStep(m))
-----------------------------------------------------------------------------
Steps == {"idle", "queued", "plan", "fetch", "resolve", "origin", "report"}

(* Type invariant. *)
TypeOK ==
    /\ nodes \in 0 .. MaxNode /\ online \subseteq 1 .. nodes
    /\ \A n \in Node : host[n] \in Machine \cup {None}
    /\ ledger \in [Chunk -> Seq(1 .. nodes)]
    /\ id \in [Machine -> 0 .. nodes]
    /\ have \in [Machine -> SUBSET Chunk] /\ pc \in [Machine -> Steps]
    /\ assigned \in [Machine -> SUBSET Chunk]
    /\ batch \in [Machine -> Seq(Chunk)] /\ round \in [Machine -> 0 .. Rounds]
    /\ unresolved \in [Machine -> SUBSET Chunk]
    /\ later \in [Machine -> SUBSET Chunk]
    /\ \A m \in Machine : /\ DOMAIN source[m] \subseteq Chunk
                          /\ Range(source[m]) \subseteq Target
    /\ got \in [Machine -> SUBSET Chunk]
    /\ exclude \in [Machine -> SUBSET Node]
    /\ outcome \in [Machine -> {"none", "done", "failed"}]
    /\ lost \in [Machine -> SUBSET Chunk] /\ everLost \in [Machine -> SUBSET Chunk]
    /\ blocked \in [Machine -> SUBSET Chunk]
    /\ sent \in [Chunk -> Nat]
    /\ tasks \in 0 .. MaxTask /\ overlaps \in 0 .. MaxTask
    /\ faults \in 0 .. MaxFaults

(* What the ledger lists is in the pack store of the node it lists, with   *)
(* one exception: a batch that fails to be written in mid-download takes   *)
(* the chunks of other groups with it, which nobody asks for again and     *)
(* which are reported all the same (flush_pending, run_idc).  Chunks that  *)
(* were in a batch when the task failed or the agent died, or that a       *)
(* source left out, are never listed.                                      *)
LedgerTruthful ==
    \A c \in Chunk : \A n \in Range(ledger[c]) :
        c \in have[host[n]] \cup everLost[host[n]]

(* A task that ends as done has left the whole version in the pack store,  *)
(* whatever its sources left out, but for what it lost in that way itself: *)
(* what earlier tasks lost it has fetched.  The ledger lists its node for  *)
(* all of it.                                                              *)
DoneComplete ==
    \A m \in Machine : outcome[m] = "done" =>
        \A c \in Chunk : c \in have[m] \cup lost[m] /\ id[m] \in Range(ledger[c])

(* A chunk leaves the origin once, and once more for every task created    *)
(* while another was under way and for every failure.                      *)
EgressBounded == \A c \in Chunk : sent[c] <= 1 + overlaps + faults

(* Without failures a task fails only for chunks that no address it tries  *)
(* can serve: a first holder has registered no address, or the hash picks  *)
(* its keepalive address, where no data is served (register in the agent,  *)
(* download_missing).  Every other task succeeds: what is not its own      *)
(* share had a holder when it was created, and that holder serves it.      *)
Unserved(c) ==
    \E i \in DOMAIN ledger[c] : LET n == ledger[c][i] IN
        /\ i <= Limit
        /\ AddrsOf(n) # <<>> => AddrsOf(n)[PickedAddr(c, n)] = "keepalive"
TasksSucceed ==
    \A m \in Machine : pc[m] = "queued" ~>
        \/ faults > 0 \/ outcome[m] = "done"
        \/ /\ outcome[m] = "failed" /\ blocked[m] # {}
           /\ \A c \in blocked[m] : Unserved(c)
=============================================================================
