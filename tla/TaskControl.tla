---------------------------- MODULE TaskControl -----------------------------
(***************************************************************************)
(* How a task gets from the admin API to an agent and its status back.     *)
(* The scheduler stores the task in its database and queues an event in    *)
(* memory; a loop per WatchTasks stream drains the node's queue and sends  *)
(* the events; the agent spawns what it receives, runs it when a permit is *)
(* free and reports the status, which the scheduler writes down as it is.  *)
(* One agent machine; every start of it registers as a new node.           *)
(***************************************************************************)
EXTENDS Integers, Sequences, FiniteSets, Functions

CONSTANTS
    Task,           \* task ids, given out in order
    MaxNode,        \* bound: times the agent is started
    MaxStream,      \* bound: WatchTasks streams opened
    ChannelSize,    \* buffer between a loop and its stream: 128 in the code
    Permits,        \* concurrent_games of the agent
    Cancels,        \* does the operator cancel tasks
    Faults,         \* kinds of failure the environment produces
    MaxFaults       \* bound: failures in a behaviour

ASSUME TaskAssumption == Task \subseteq Nat \ {0}
ASSUME BoundsAssumption ==
    /\ MaxNode \in Nat /\ MaxStream \in Nat /\ MaxFaults \in Nat
    /\ ChannelSize \in Nat \ {0} /\ Permits \in Nat \ {0}
    /\ Cancels \in BOOLEAN

Node == 1 .. MaxNode
Stream == 1 .. MaxStream
None == 0
Way == {"register", "stream"}       \* how a task came to the agent

VARIABLES
    nodes,          \* scheduler db: nodes 1 .. nodes are registered
    status, owner,  \* scheduler db: task -> status, node
    queue,          \* ControlService.pending: node -> events
    creating,       \* tasks inserted by a push_task that has not queued them
    cancelling,     \* tasks that a cancel_task has found queued
    streams,        \* streams opened so far: 1 .. streams
    peer,           \* stream -> node that asked for it
    conn,           \* stream -> state of its receiving end
    loop,           \* streams whose watch_loop runs
    held,           \* stream -> drained events its loop has still to send
    chan,           \* stream -> events sent and not received
    me,             \* node id of the running agent
    joined,         \* has the agent's registration returned
    mine,           \* the agent's current stream
    spawned,        \* way -> tasks waiting for a permit
    running,        \* way -> tasks being executed
    faults,         \* failures so far
    early,          \* history: tasks created while their node was registering
    overtaken,      \* history: tasks reported on since their cancel_task's read
    missing         \* history: tasks whose manifest could not be had

dbVars == <<nodes, status, owner>>
memVars == <<queue, creating, cancelling>>
streamVars == <<streams, peer, conn, loop, held, chan>>
agentVars == <<me, joined, mine, spawned, running>>
vars == <<nodes, status, owner, queue, creating, cancelling, streams, peer,
          conn, loop, held, chan, me, joined, mine, spawned, running, faults,
          early, overtaken, missing>>
history == <<early, overtaken, missing>>

Fault(kind) ==
    /\ kind \in Faults /\ faults < MaxFaults
    /\ faults' = faults + 1
SetStatus(t, s) == status' = [status EXCEPT ![t] = s]
-----------------------------------------------------------------------------
Init ==
    /\ nodes = 0
    /\ status = [t \in Task |-> "none"] /\ owner = [t \in Task |-> None]
    /\ queue = [n \in Node |-> <<>>] /\ creating = {} /\ cancelling = {}
    /\ streams = 0 /\ peer = [s \in Stream |-> None]
    /\ conn = [s \in Stream |-> "closed"] /\ loop = {}
    /\ held = [s \in Stream |-> <<>>] /\ chan = [s \in Stream |-> <<>>]
    /\ me = None /\ joined = FALSE /\ mine = None
    /\ spawned = [w \in Way |-> {}] /\ running = [w \in Way |-> {}]
    /\ faults = 0 /\ early = {} /\ overtaken = {} /\ missing = {}

(***************************************************************************)
(* The admin API.                                                          *)
(***************************************************************************)
(* create_task and rollback_game up to push_task's insert_task.  The node  *)
(* is known as soon as register has inserted it, which is before register  *)
(* has read the node's tasks.                                              *)
CreateTask(t, n) ==
    /\ status[t] = "none" /\ \A u \in Task : u < t => status[u] # "none"
    /\ n <= nodes
    /\ SetStatus(t, "queued") /\ owner' = [owner EXCEPT ![t] = n]
    /\ creating' = creating \cup {t}
    /\ early' = IF n = me /\ ~joined THEN early \cup {t} ELSE early
    /\ UNCHANGED <<nodes, queue, cancelling, streamVars, agentVars, faults,
                   overtaken, missing>>

(* The rest of push_task: the event goes into the node's queue. *)
QueueTask(t) ==
    /\ t \in creating
    /\ creating' = creating \ {t}
    /\ queue' = [queue EXCEPT ![owner[t]] = Append(@, t)]
    /\ UNCHANGED <<dbVars, cancelling, streamVars, agentVars, faults, history>>

(* Mutant: the status is not looked at. *)
CancelRead_Any(t) ==
    /\ Cancels /\ status[t] # "none" /\ t \notin cancelling
    /\ cancelling' = cancelling \cup {t}
    /\ UNCHANGED <<dbVars, queue, creating, streamVars, agentVars, faults,
                   history>>

(* cancel_task reads the task, and then writes without reading it again.   *)
(* Neither the queued event nor the agent hears of it.  Bound: one cancel  *)
(* of a task at a time.                                                    *)
CancelRead(t) ==
    /\ Cancels /\ status[t] = "queued" /\ t \notin cancelling
    /\ cancelling' = cancelling \cup {t}
    /\ UNCHANGED <<dbVars, queue, creating, streamVars, agentVars, faults,
                   history>>

CancelWrite(t) ==
    /\ t \in cancelling
    /\ cancelling' = cancelling \ {t} /\ overtaken' = overtaken \ {t}
    /\ SetStatus(t, "cancelled")
    /\ UNCHANGED <<nodes, owner, queue, creating, streamVars, agentVars, faults,
                   early, missing>>

(***************************************************************************)
(* Registration and the task stream.                                       *)
(***************************************************************************)
(* Mutant: next_node_id does not store the counter. *)
Register_CounterNotStored ==
    /\ me = None /\ nodes < MaxNode
    /\ me' = nodes + 1 /\ joined' = FALSE
    /\ UNCHANGED <<dbVars, memVars, streamVars, mine, spawned, running, faults,
                   history>>

(* register: a fresh id every time, inserted first ... *)
Register ==
    /\ me = None /\ nodes < MaxNode
    /\ nodes' = nodes + 1 /\ me' = nodes + 1 /\ joined' = FALSE
    /\ UNCHANGED <<status, owner, memVars, streamVars, mine, spawned, running,
                   faults, history>>

(* ... then the queued tasks of that id are returned, and spawned. *)
Joined ==
    /\ me # None /\ ~joined
    /\ joined' = TRUE
    /\ spawned' = [spawned EXCEPT !["register"] =
                        {t \in Task : owner[t] = me /\ status[t] = "queued"}]
    /\ UNCHANGED <<dbVars, memVars, streamVars, me, mine, running, faults,
                   history>>

(* The agent's watch_loop has no stream and asks for one. *)
Watch ==
    /\ joined /\ mine = None /\ streams < MaxStream
    /\ streams' = streams + 1 /\ mine' = streams + 1
    /\ peer' = [peer EXCEPT ![streams + 1] = me]
    /\ conn' = [conn EXCEPT ![streams + 1] = "open"]
    /\ loop' = loop \cup {streams + 1}
    /\ UNCHANGED <<dbVars, memVars, held, chan, me, joined, spawned, running,
                   faults, history>>

(* Mutant: the events are copied and stay in the queue. *)
Drain_Copy(s) ==
    /\ s \in loop /\ held[s] = <<>> /\ queue[peer[s]] # <<>>
    /\ held' = [held EXCEPT ![s] = queue[peer[s]]]
    /\ UNCHANGED <<dbVars, memVars, streams, peer, conn, loop, chan, agentVars,
                   faults, history>>

(* Mutant: the loop does not look at its own node's queue only. *)
Drain_Any(s) ==
    /\ s \in loop /\ held[s] = <<>>
    /\ \E n \in Node :
        /\ queue[n] # <<>>
        /\ held' = [held EXCEPT ![s] = queue[n]]
        /\ queue' = [queue EXCEPT ![n] = <<>>]
    /\ UNCHANGED <<dbVars, creating, cancelling, streams, peer, conn, loop,
                   chan, agentVars, faults, history>>

(* Mutant: one event is taken, the others are dropped. *)
Drain_First(s) ==
    /\ s \in loop /\ held[s] = <<>> /\ queue[peer[s]] # <<>>
    /\ held' = [held EXCEPT ![s] = <<Head(queue[peer[s]])>>]
    /\ queue' = [queue EXCEPT ![peer[s]] = <<>>]
    /\ UNCHANGED <<dbVars, creating, cancelling, streams, peer, conn, loop,
                   chan, agentVars, faults, history>>

(* The scheduler's watch_loop takes all the events there are. *)
Drain(s) ==
    /\ s \in loop /\ held[s] = <<>> /\ queue[peer[s]] # <<>>
    /\ held' = [held EXCEPT ![s] = queue[peer[s]]]
    /\ queue' = [queue EXCEPT ![peer[s]] = <<>>]
    /\ UNCHANGED <<dbVars, creating, cancelling, streams, peer, conn, loop,
                   chan, agentVars, faults, history>>

(* tx.send.  Until the transport notices, an event may go into a broken    *)
(* stream, where nobody will read it.                                      *)
Send(s) ==
    /\ s \in loop /\ held[s] # <<>> /\ conn[s] # "closed"
    /\ Len(chan[s]) < ChannelSize
    /\ held' = [held EXCEPT ![s] = Tail(@)]
    /\ chan' = [chan EXCEPT ![s] = Append(@, Head(held[s]))]
    /\ UNCHANGED <<dbVars, memVars, streams, peer, conn, loop, agentVars, faults,
                   history>>

(* tx.send on a closed channel: the loop returns with what it still holds. *)
LoopEnd(s) ==
    /\ s \in loop /\ held[s] # <<>> /\ conn[s] = "closed"
    /\ loop' = loop \ {s} /\ held' = [held EXCEPT ![s] = <<>>]
    /\ UNCHANGED <<dbVars, memVars, streams, peer, conn, chan, agentVars, faults,
                   history>>

(* The agent receives an event: on_task spawns it. *)
Receive ==
    /\ mine # None /\ chan[mine] # <<>>
    /\ spawned' = [spawned EXCEPT !["stream"] = @ \cup {Head(chan[mine])}]
    /\ chan' = [chan EXCEPT ![mine] = Tail(@)]
    /\ UNCHANGED <<dbVars, memVars, streams, peer, conn, loop, held, me, joined,
                   mine, running, faults, history>>

(* The agent loses its stream; the scheduler notices at some later time,   *)
(* and its loop not before it has something to send.                       *)
BreakStream ==
    /\ mine # None /\ Fault("break")
    /\ conn' = [conn EXCEPT ![mine] = "broken"] /\ mine' = None
    /\ UNCHANGED <<dbVars, memVars, streams, peer, loop, held, chan, me, joined,
                   spawned, running, history>>

NoticeBroken(s) ==
    /\ conn[s] = "broken"
    /\ conn' = [conn EXCEPT ![s] = "closed"]
    /\ chan' = [chan EXCEPT ![s] = <<>>]
    /\ UNCHANGED <<dbVars, memVars, streams, peer, loop, held, agentVars, faults,
                   history>>

(***************************************************************************)
(* run_task on the agent, as far as the scheduler sees it.                 *)
(***************************************************************************)
PermitFree ==
    Cardinality(running["register"]) + Cardinality(running["stream"]) < Permits

(* report_task: the status is written as it comes. *)
ReportTask(t, s) ==
    /\ SetStatus(t, s)
    /\ overtaken' = overtaken \cup ({t} \cap cancelling)

(* A permit is free; the task reports "running" before anything else. *)
Begin(w, t) ==
    /\ t \in spawned[w] /\ PermitFree
    /\ spawned' = [spawned EXCEPT ![w] = @ \ {t}]
    /\ running' = [running EXCEPT ![w] = @ \cup {t}]
    /\ ReportTask(t, "running")
    /\ UNCHANGED <<nodes, owner, memVars, streamVars, me, joined, mine, faults,
                   early, missing>>

(* The scheduler cannot be reached: run_task returns, nothing is reported. *)
BeginFail(w, t) ==
    /\ t \in spawned[w] /\ PermitFree
    /\ Fault("report")
    /\ spawned' = [spawned EXCEPT ![w] = @ \ {t}]
    /\ UNCHANGED <<dbVars, memVars, streamVars, me, joined, mine, running,
                   history>>

(* run_idc or run_cafe returned, and the status is reported. *)
End(w, t, outcome) ==
    /\ t \in running[w]
    /\ running' = [running EXCEPT ![w] = @ \ {t}]
    /\ ReportTask(t, outcome)
    /\ UNCHANGED <<nodes, owner, memVars, streamVars, me, joined, mine, spawned,
                   faults, early, missing>>

(* The scheduler has no manifest of the version (create_task does not look *)
(* for one), or one that does not decode: run_task returns without a       *)
(* report.                                                                 *)
EndMissing(w, t) ==
    /\ t \in running[w]
    /\ running' = [running EXCEPT ![w] = @ \ {t}]
    /\ missing' = missing \cup {t}
    /\ UNCHANGED <<dbVars, memVars, streamVars, me, joined, mine, spawned,
                   faults, early, overtaken>>

(* The manifest cannot be fetched, or the report is lost. *)
EndSilent(w, t) ==
    /\ t \in running[w] /\ Fault("report")
    /\ running' = [running EXCEPT ![w] = @ \ {t}]
    /\ UNCHANGED <<dbVars, memVars, streamVars, me, joined, mine, spawned,
                   history>>

(***************************************************************************)
(* Crashes.                                                                *)
(***************************************************************************)
AgentCrash ==
    /\ me # None /\ Fault("agent")
    /\ me' = None /\ joined' = FALSE /\ mine' = None
    /\ spawned' = [w \in Way |-> {}] /\ running' = [w \in Way |-> {}]
    /\ conn' = IF mine = None THEN conn ELSE [conn EXCEPT ![mine] = "broken"]
    /\ UNCHANGED <<dbVars, memVars, streams, peer, loop, held, chan, history>>

(* Only the database survives; an agent that was registering gives up. *)
SchedulerCrash ==
    /\ Fault("scheduler")
    /\ me' = IF joined THEN me ELSE None
    /\ queue' = [n \in Node |-> <<>>] /\ creating' = {} /\ cancelling' = {}
    /\ overtaken' = {}
    /\ conn' = [s \in Stream |-> "closed"] /\ loop' = {} /\ mine' = None
    /\ held' = [s \in Stream |-> <<>>] /\ chan' = [s \in Stream |-> <<>>]
    /\ UNCHANGED <<dbVars, streams, peer, joined, spawned, running, early,
                   missing>>
-----------------------------------------------------------------------------
Next ==
    \/ \E t \in Task, n \in Node : CreateTask(t, n)
    \/ \E t \in Task : QueueTask(t) \/ CancelRead(t) \/ CancelWrite(t)
    \/ Register \/ Joined \/ Watch
    \/ \E s \in Stream : Drain(s) \/ Send(s) \/ LoopEnd(s) \/ NoticeBroken(s)
    \/ Receive \/ BreakStream
    \/ \E w \in Way, t \in Task :
        \/ Begin(w, t) \/ BeginFail(w, t) \/ EndMissing(w, t) \/ EndSilent(w, t)
        \/ \E outcome \in {"done", "failed"} : End(w, t, outcome)
    \/ AgentCrash \/ SchedulerCrash

(* Handlers and loops are tokio tasks: each goes on when it can.  The      *)
(* waits in them end by themselves (the notification times out after a     *)
(* second, the reconnect pauses for two), except those of a running task   *)
(* for its sources, which have no time limit: a source that stalls without *)
(* an error is outside the model.  The operator need not do anything.      *)
Fairness ==
    /\ \A t \in Task :
        /\ WF_vars(QueueTask(t)) /\ WF_vars(CancelWrite(t))
        /\ \A w \in Way :
            /\ SF_vars(Begin(w, t))
            /\ WF_vars(\/ EndMissing(w, t)
                       \/ \E outcome \in {"done", "failed"} : End(w, t, outcome))
    /\ WF_vars(Register) /\ WF_vars(Joined) /\ WF_vars(Watch) /\ WF_vars(Receive)
    /\ \A s \in Stream : /\ WF_vars(Drain(s)) /\ WF_vars(Send(s))
                         /\ WF_vars(LoopEnd(s)) /\ WF_vars(NoticeBroken(s))

Spec == Init /\ [][Next]_vars
FairSpec == Spec /\ Fairness
-----------------------------------------------------------------------------
(* Type invariant. *)
TypeOK ==
    /\ nodes \in 0 .. MaxNode /\ streams \in 0 .. MaxStream
    /\ status \in [Task -> {"none", "queued", "running", "done", "failed",
                            "cancelled"}]
    /\ owner \in [Task -> 0 .. nodes]
    /\ queue \in [Node -> Seq(Task)]
    /\ creating \subseteq Task /\ cancelling \subseteq Task
    /\ peer \in [Stream -> 0 .. nodes]
    /\ conn \in [Stream -> {"open", "broken", "closed"}]
    /\ loop \subseteq 1 .. streams
    /\ held \in [Stream -> Seq(Task)]
    /\ chan \in [Stream -> Seq(Task)]
    /\ me \in {None, nodes} /\ joined \in BOOLEAN /\ mine \in {None, streams}
    /\ spawned \in [Way -> SUBSET Task] /\ running \in [Way -> SUBSET Task]
    /\ faults \in 0 .. MaxFaults
    /\ early \subseteq Task /\ overtaken \subseteq cancelling
    /\ missing \subseteq Task

(* The places the event of a task can be in. *)
Place == {<<"creating", 0>>, <<"spawned", 0>>, <<"running", 0>>}
            \cup ({"queue"} \X Node) \cup ({"held", "chan"} \X Stream)
At(p) == CASE p[1] = "creating" -> creating
           [] p[1] = "queue" -> Range(queue[p[2]])
           [] p[1] = "held" -> Range(held[p[2]])
           [] p[1] = "chan" -> Range(chan[p[2]])
           [] p[1] = "spawned" -> spawned["stream"]
           [] p[1] = "running" -> running["stream"]
Distinct(s) == \A i, j \in DOMAIN s : s[i] = s[j] => i = j

(* A task's event is never in two places or twice in one, although old and *)
(* new loops drain the same queue and streams break with events in them;   *)
(* and register hands a task over, beside the event, only if it was        *)
(* created between register's insert_node and tasks_for_node.  So a task   *)
(* runs at most once, and one created in that window at most twice, perhaps*)
(* at the same time.                                                       *)
OnePlace ==
    /\ \A p, q \in Place : p # q => At(p) \cap At(q) = {}
    /\ \A n \in Node : Distinct(queue[n])
    /\ \A s \in Stream : Distinct(held[s]) /\ Distinct(chan[s])
    /\ spawned["register"] \cup running["register"] \subseteq early

(* An agent only runs tasks created for the node it is registered as now,  *)
(* whatever loops of its earlier lives still do.                           *)
RightNode == \A w \in Way : \A t \in spawned[w] \cup running[w] : owner[t] = me

(* The status of a task that does not run twice takes the steps of the     *)
(* agent's reports in their order, each at most once, and a cancel.        *)
(* cancel_task's comment says that running and finished tasks are not      *)
(* cancelled: the one way the code does it is a report that comes between  *)
(* its read and its write (overtaken).  The agent never hears of a cancel  *)
(* and reports over it.                                                    *)
Reported == {<<"queued", "running">>, <<"running", "done">>, <<"running", "failed">>}
Forward(t) ==
    \/ status'[t] = status[t]
    \/ status[t] = "none" /\ status'[t] = "queued"
    \/ <<status[t], status'[t]>> \in Reported
    \/ status'[t] = "cancelled" /\ (status[t] = "queued" \/ t \in overtaken)
    \/ status[t] = "cancelled" /\ status'[t] \in {"running", "done", "failed"}
StatusForward == [][\A t \in Task \ early : Forward(t)]_vars

(* Without failures, a source that stalls among them, every task that is   *)
(* created ends with a final status: the wait for permits, the bounded     *)
(* channel, the loops that compete for events and a task that runs twice   *)
(* never leave one behind.  Only a task whose manifest could not be had    *)
(* stays "running" for good.                                               *)
TasksSettle ==
    \A t \in Task : status[t] = "queued" ~>
        \/ faults > 0 \/ t \in missing
        \/ status[t] \in {"done", "failed"}

(* A task queued for the node that the agent is does get started. *)
QueuedDelivered ==
    \A t \in Task : status[t] = "queued" ~> status[t] # "queued" \/ me # owner[t]
=============================================================================
