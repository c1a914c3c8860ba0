----------------------------- MODULE Lifecycle ------------------------------
(***************************************************************************)
(* How the programs come up and go down.  The four servers load a          *)
(* configuration, run their start steps in order, every one of which may   *)
(* fail and most of which spawn a task that holds a socket, wait for the   *)
(* stop signal and then tell their tasks to end, awaiting some of them.  A *)
(* task is told through a oneshot channel, and dropping the sender tells   *)
(* it as well: that is how a start that fails half way takes back what it  *)
(* spawned.  The producer runs its steps and returns; it has no tasks but  *)
(* holds a lock file.                                                      *)
(***************************************************************************)
EXTENDS Integers, Sequences

CONSTANTS
    Attempts,       \* bound: calls control::connect makes (30 in the code)
    MaxJobs,        \* bound: tasks an agent is given
    MaxFaults       \* bound: failures of the system around the program

ASSUME LifecycleAssumption ==
    Attempts \in Nat \ {0} /\ MaxJobs \in Nat /\ MaxFaults \in Nat

VARIABLES
    config,         \* the configuration file, with the program it is for
    phase,          \* where run, or start and shutdown, stands
    todo,           \* the steps of the phase that are still to do
    tasks,          \* spawned tasks that have not ended, the probe, the lock file
    told,           \* tasks whose sender was used or dropped
    open,           \* servers, and the data path, with a connection a client keeps open
    registered,     \* the scheduler has the agent's record: its addresses
    tries,          \* calls of connect that have failed
    waiting, active,\* jobs waiting for a permit, jobs being executed
    died,           \* history: tasks an I/O error has ended, or kept from starting
    faults          \* failures so far

vars == <<config, phase, todo, tasks, told, open, registered, tries,
          waiting, active, died, faults>>

(***************************************************************************)
(* Configurations: what a file that serde accepts may say.  addr is "bad"  *)
(* when an address that validate parses does not parse, sane is FALSE when *)
(* a value that no step below depends on is out of its range, same is TRUE *)
(* when two sockets are given one port.  control is "bad" when control_addr*)
(* begins with http:// or https:// and no call can reach it all the same:  *)
(* the rest is not a URI, or it asks for TLS, which the build leaves out.  *)
(* upload is "bad" when the producer's origin_addr is not a URI or its     *)
(* origin_token not the value of a header.                                 *)
(***************************************************************************)
Address == {"good", "bad"}

SchedulerConfig ==
    [program : {"scheduler"}, addr : Address, sane : BOOLEAN, same : BOOLEAN,
     backup : BOOLEAN, interval : 0 .. 1]

OriginConfig ==
    [program : {"origin"}, addr : Address, sane : BOOLEAN, relay : {"none", "good", "bad"}]

AgentConfig ==
    [program : {"agent"}, addr : Address, sane : BOOLEAN, relay : {"none", "good", "bad"},
     cafe : BOOLEAN, external : {"none", "config", "stun"}, pong : BOOLEAN, same : BOOLEAN,
     control : {"none", "good", "bad"}, permits : 0 .. 1]

RelayConfig == [program : {"relay"}, same : BOOLEAN, data : BOOLEAN]

(* Chunk sizes are in classes: 0 is below the least size that is allowed,  *)
(* and a chunk above MessageLimit does not fit into a gRPC message.        *)
MessageLimit == 2
ProducerConfig ==
    [program : {"producer"}, sane : BOOLEAN, min : 0 .. 2, avg : 0 .. 3, max : 0 .. 3,
     files : BOOLEAN, upload : {"none", "good", "bad"}]

Config == SchedulerConfig \cup OriginConfig \cup AgentConfig \cup RelayConfig
          \cup ProducerConfig

\* A plausible slip: only the failure threshold is checked, not the period.
ValidScheduler_Period(c) == c.addr = "good" /\ c.sane

(* Config::validate of each program; the relay has none.  Of control_addr  *)
(* only the prefix is looked at, of the producer's origin nothing.         *)
ValidScheduler(c) == c.addr = "good" /\ c.interval > 0 /\ c.sane
ValidOrigin(c) == c.addr = "good" /\ c.sane
ValidAgent(c) == c.permits > 0 /\ c.addr = "good" /\ c.sane
ValidProducer(c) == c.sane /\ c.min > 0 /\ c.min < c.avg /\ c.avg <= c.max

Valid(c) == CASE c.program = "scheduler" -> ValidScheduler(c)
              [] c.program = "origin" -> ValidOrigin(c)
              [] c.program = "agent" -> ValidAgent(c)
              [] c.program = "producer" -> ValidProducer(c)
              [] OTHER -> TRUE
-----------------------------------------------------------------------------
(* The steps of run and start, in the order of the code. *)
If(condition, steps) == IF condition THEN steps ELSE <<>>

SchedulerSteps(c) == <<"store">> \o If(c.backup, <<"backup">>) \o <<"grpc", "keepalive", "http">>
OriginSteps(c) == <<"dir", "upload", "data">>
RelaySteps(c) == <<"echo", "iroh">>
ProducerSteps(c) == <<"dir", "lock", "build">> \o If(c.upload # "none", <<"send">>)

\* A plausible slip: the agent registers before its data path listens.
AgentSteps_Eager(c) == If(c.external = "stun", <<"stun">>)
                       \o If(c.control # "none", <<"connect", "register">>)
                       \o <<"data">> \o If(c.pong, <<"pong">>) \o If(c.cafe, <<"clean">>)
                       \o If(c.control # "none", <<"heartbeat", "watch">>)

AgentSteps(c) == If(c.external = "stun", <<"stun">>) \o <<"data">> \o If(c.pong, <<"pong">>)
                 \o If(c.cafe, <<"clean">>)
                 \o If(c.control # "none", <<"connect", "register", "heartbeat", "watch">>)

Steps(c) == CASE c.program = "scheduler" -> SchedulerSteps(c)
              [] c.program = "origin" -> OriginSteps(c)
              [] c.program = "agent" -> AgentSteps(c)
              [] c.program = "producer" -> ProducerSteps(c)
              [] OTHER -> RelaySteps(c)

\* A plausible slip: the backup task is awaited before it is told to end.
SchedulerStop_Swapped == <<<<"send", "keepalive">>, <<"await", "keepalive">>,
                           <<"await", "backup">>, <<"send", "backup">>,
                           <<"send", "http">>, <<"await", "http">>, <<"send", "grpc">>>>

(* What run does after its stop future, and AgentHandle::shutdown. *)
SchedulerStop == <<<<"send", "keepalive">>, <<"await", "keepalive">>,
                   <<"send", "backup">>, <<"await", "backup">>,
                   <<"send", "http">>, <<"await", "http">>, <<"send", "grpc">>>>
OriginStop == <<<<"send", "data">>, <<"send", "upload">>>>
RelayStop == <<<<"send", "iroh">>, <<"await", "iroh">>, <<"send", "echo">>, <<"await", "echo">>>>
AgentStop == <<<<"send", "data">>, <<"send", "pong">>, <<"send", "clean">>,
               <<"send", "heartbeat">>, <<"send", "watch">>>>

StopSteps(c) == CASE c.program = "scheduler" -> SchedulerStop
                  [] c.program = "origin" -> OriginStop
                  [] c.program = "agent" -> AgentStop
                  [] OTHER -> RelayStop
-----------------------------------------------------------------------------
Server == {"http", "grpc", "upload"}
Loop == {"backup", "keepalive", "data", "echo", "iroh", "pong", "clean", "heartbeat", "watch"}
Task == Server \cup Loop

(* The port a step binds; tasks of one program that bind none are apart.   *)
(* The probe of STUN binds the data path's port, keepalive binds port 0.   *)
Port(c, t) == CASE t = "stun" -> "data"
                [] t = "pong" /\ c.same -> "data"
                [] t = "http" /\ c.same -> "grpc"
                [] t = "iroh" /\ c.same -> "echo"
                [] OTHER -> t

Taken(t) == \E u \in tasks : Port(config, u) = Port(config, t)

Init == /\ config \in Config
        /\ phase = "load" /\ todo = <<>>
        /\ tasks = {} /\ told = {} /\ open = {} /\ died = {}
        /\ registered = FALSE /\ tries = 0
        /\ waiting = 0 /\ active = 0 /\ faults = 0

(* Config::load: a configuration that is refused ends the program. *)
Load == /\ phase = "load"
        /\ \/ /\ Valid(config)
              /\ phase' = "starting" /\ todo' = Steps(config)
           \/ /\ ~Valid(config)
              /\ phase' = "rejected" /\ UNCHANGED todo
        /\ UNCHANGED <<config, tasks, told, open, registered, tries, waiting, active, died, faults>>

At(step) == phase = "starting" /\ todo # <<>> /\ Head(todo) = step
Next1 == todo' = Tail(todo)
Fault == faults < MaxFaults /\ faults' = faults + 1

\* A plausible slip: the tasks spawned so far are kept.
Abandon_Leak == /\ phase' = "failed" /\ todo' = <<>> /\ UNCHANGED told

(* Leaving run or start on an error drops every sender made so far. *)
Abandon == /\ phase' = "failed" /\ todo' = <<>> /\ told' = tasks

(* Steps that spawn nothing: Store::open, create_dir_all. *)
Prepare == /\ phase = "starting" /\ todo # <<>> /\ Head(todo) \in {"store", "dir"}
           /\ Next1
           /\ UNCHANGED <<config, phase, tasks, told, open, registered, tries, waiting, active,
                          died, faults>>

(* An address or a relay url that does not parse when the step uses it.    *)
BadAddress(c, t) ==
    \/ t \in {"grpc", "http", "upload", "stun"} /\ c.addr = "bad"
    \/ t = "data" /\ (c.relay = "bad" \/ c.addr = "bad")

Fallible == {"backup", "grpc", "keepalive", "http", "upload", "data", "echo", "iroh"}

(* Steps that bind a socket and spawn the task that owns it. *)
Spawn == \E t \in Fallible \cup {"clean", "heartbeat", "watch"} :
    /\ At(t) /\ Next1
    /\ t \in Fallible => ~Taken(t) /\ ~BadAddress(config, t)
    /\ tasks' = tasks \cup {t}
    /\ UNCHANGED <<config, phase, told, open, registered, tries, waiting, active, died, faults>>

(* The step cannot be done: the address does not parse, the port is in use *)
(* by the program itself, or the system refuses.                           *)
SpawnFail == \E t \in Fallible \cup {"store", "dir"} :
    /\ At(t)
    /\ IF t \in Fallible /\ (Taken(t) \/ BadAddress(config, t)) THEN UNCHANGED faults ELSE Fault
    /\ Abandon
    /\ UNCHANGED <<config, tasks, open, registered, tries, waiting, active, died>>

(* The pong task is spawned first and binds then: nobody sees it fail. *)
SpawnPong ==
    /\ At("pong") /\ Next1
    /\ \/ ~Taken("pong") /\ tasks' = tasks \cup {"pong"} /\ UNCHANGED <<died, faults>>
       \/ Taken("pong") /\ died' = died \cup {"pong"} /\ UNCHANGED <<tasks, faults>>
       \/ Fault /\ died' = died \cup {"pong"} /\ UNCHANGED tasks
    /\ UNCHANGED <<config, phase, told, open, registered, tries, waiting, active>>

(* stun::discover binds the data path's port, asks, and closes the socket  *)
(* on return, whether an answer came in time or not.                       *)
StunBind == /\ At("stun") /\ "stun" \notin tasks
            /\ ~BadAddress(config, "stun") /\ ~Taken("stun")
            /\ tasks' = tasks \cup {"stun"}
            /\ UNCHANGED <<config, phase, todo, told, open, registered, tries, waiting, active,
                           died, faults>>

\* A plausible slip: the probing socket outlives the probe.
StunAnswer_Keep == /\ At("stun") /\ "stun" \in tasks
                   /\ Next1
                   /\ UNCHANGED <<config, phase, tasks, told, open, registered, tries,
                                  waiting, active, died, faults>>

StunAnswer == /\ At("stun") /\ "stun" \in tasks
              /\ tasks' = tasks \ {"stun"} /\ Next1
              /\ UNCHANGED <<config, phase, told, open, registered, tries, waiting, active,
                             died, faults>>

StunFail == /\ At("stun")
            /\ IF BadAddress(config, "stun") THEN UNCHANGED faults ELSE Fault
            /\ tasks' = tasks \ {"stun"} /\ told' = {}
            /\ phase' = "failed" /\ todo' = <<>>
            /\ UNCHANGED <<config, open, registered, tries, waiting, active, died>>

(* control::connect: a bounded number of calls, every one of which fails   *)
(* when the address is of no use.                                          *)
Connect == /\ At("connect") /\ config.control = "good" /\ Next1
           /\ UNCHANGED <<config, phase, tasks, told, open, registered, tries, waiting, active,
                          died, faults>>

ConnectMiss == /\ At("connect") /\ tries' = tries + 1
               /\ IF config.control = "bad" THEN UNCHANGED faults ELSE Fault
               /\ IF tries' = Attempts THEN Abandon ELSE UNCHANGED <<phase, todo, told>>
               /\ UNCHANGED <<config, tasks, open, registered, waiting, active, died>>

(* Registration, and the tasks it hands back, each a job of its own. *)
Register == /\ At("register") /\ Next1
            /\ registered' = TRUE
            /\ waiting' \in 0 .. MaxJobs
            /\ UNCHANGED <<config, phase, tasks, told, open, tries, active, died, faults>>

(* The call fails; the scheduler may have taken the registration. *)
RegisterFail == /\ At("register") /\ Fault /\ Abandon
                /\ registered' \in BOOLEAN
                /\ UNCHANGED <<config, tasks, open, tries, waiting, active, died>>

(* The producer: a lock file, then a version from the files of source_dir, *)
(* then the upload, if there is an origin.                                 *)
TakeLock == /\ At("lock") /\ Next1
            /\ tasks' = tasks \cup {"lock"}
            /\ UNCHANGED <<config, phase, told, open, registered, tries, waiting, active,
                           died, faults>>

Produce == /\ \/ At("build") /\ config.files
              \/ At("send") /\ config.upload = "good"
           /\ Next1
           /\ UNCHANGED <<config, phase, tasks, told, open, registered, tries, waiting, active,
                          died, faults>>

(* An error: source_dir is empty, the origin's address or token is of no   *)
(* use, a chunk is too large for a message, the lock file is there, or the *)
(* system refuses.  Leaving run drops the lock.                            *)
ProducerFail ==
    /\ At("lock") \/ At("build") \/ At("send")
    /\ \/ At("build") /\ ~config.files /\ UNCHANGED faults
       \/ /\ At("send") /\ (config.upload = "bad" \/ config.max > MessageLimit)
          /\ UNCHANGED faults
       \/ Fault
    /\ phase' = "failed" /\ todo' = <<>> /\ tasks' = tasks \ {"lock"}
    /\ UNCHANGED <<config, told, open, registered, tries, waiting, active, died>>

Produced == /\ config.program = "producer" /\ phase = "starting" /\ todo = <<>>
            /\ phase' = "stopped" /\ tasks' = tasks \ {"lock"}
            /\ UNCHANGED <<config, todo, told, open, registered, tries, waiting, active,
                           died, faults>>

Ready == /\ phase = "starting" /\ todo = <<>> /\ config.program # "producer"
         /\ phase' = "running"
         /\ UNCHANGED <<config, todo, tasks, told, open, registered, tries, waiting, active,
                        died, faults>>
-----------------------------------------------------------------------------
\* A plausible slip: the server ends without waiting for its connections.
End_Abrupt(t) == /\ t \in tasks \cap told
                 /\ tasks' = tasks \ {t} /\ told' = told \ {t}
                 /\ UNCHANGED <<config, phase, todo, open, registered, tries, waiting, active,
                                died, faults>>

(* A task that was told to end leaves its loop; a server first waits until *)
(* the connections it has are closed.  The accept loop of the data path    *)
(* waits for none: each has a task of its own, which nobody tells to end.  *)
End(t) == /\ t \in tasks \cap told /\ t \notin open \cap Server
          /\ tasks' = tasks \ {t} /\ told' = told \ {t}
          /\ UNCHANGED <<config, phase, todo, open, registered, tries, waiting, active,
                         died, faults>>

(* A task ends by itself: an I/O error of its socket ends the pong and the *)
(* echo task; keepalive::run divides by its period for every address.      *)
Dies(t) == t \in {"pong", "echo"} \/ (t = "keepalive" /\ config.interval = 0)

Die == \E t \in tasks :
    /\ Dies(t)
    /\ IF t = "keepalive" THEN UNCHANGED <<died, faults>> ELSE Fault /\ died' = died \cup {t}
    /\ tasks' = tasks \ {t} /\ told' = told \ {t}
    /\ UNCHANGED <<config, phase, todo, open, registered, tries, waiting, active>>

(* A client opens a connection it keeps: the event stream of the web       *)
(* console, an agent's task stream, an upload, a fetch from the data path, *)
(* whose loop may accept once more after it was told.  It may close it     *)
(* whenever, or never.                                                     *)
Open == \E t \in ((tasks \cap Server) \ told) \cup (tasks \cap {"data"}) :
    /\ t \notin open
    /\ open' = open \cup {t}
    /\ UNCHANGED <<config, phase, todo, tasks, told, registered, tries, waiting, active,
                   died, faults>>

Close == \E t \in open :
    /\ open' = open \ {t}
    /\ UNCHANGED <<config, phase, todo, tasks, told, registered, tries, waiting, active,
                   died, faults>>

(* on_task: a task of the stream becomes a job of its own, which waits for *)
(* a permit and is executed whether or not the agent is shut down.         *)
Receive == /\ "watch" \in tasks /\ waiting + active < MaxJobs
           /\ waiting' = waiting + 1
           /\ UNCHANGED <<config, phase, todo, tasks, told, open, registered, tries, active,
                          died, faults>>

Acquire == /\ waiting > 0 /\ active < config.permits
           /\ waiting' = waiting - 1 /\ active' = active + 1
           /\ UNCHANGED <<config, phase, todo, tasks, told, open, registered, tries, died, faults>>

JobEnd == /\ active > 0
          /\ active' = active - 1
          /\ UNCHANGED <<config, phase, todo, tasks, told, open, registered, tries, waiting,
                         died, faults>>
-----------------------------------------------------------------------------
(* The stop signal. *)
Stop == /\ phase = "running"
        /\ phase' = "stopping" /\ todo' = StopSteps(config)
        /\ UNCHANGED <<config, tasks, told, open, registered, tries, waiting, active, died, faults>>

(* A sender is used, or a handle dropped. *)
Send == /\ phase = "stopping" /\ todo # <<>> /\ Head(todo)[1] = "send"
        /\ told' = told \cup ({Head(todo)[2]} \cap tasks) /\ Next1
        /\ UNCHANGED <<config, phase, tasks, open, registered, tries, waiting, active, died, faults>>

(* A join handle is awaited until its task has ended. *)
Await == /\ phase = "stopping" /\ todo # <<>> /\ Head(todo)[1] = "await"
         /\ Head(todo)[2] \notin tasks /\ Next1
         /\ UNCHANGED <<config, phase, tasks, told, open, registered, tries, waiting, active,
                        died, faults>>

(* The relay's server ends with an error, which run passes on at once. *)
AwaitError == /\ phase = "stopping" /\ todo # <<>> /\ Head(todo) = <<"await", "iroh">>
              /\ Fault /\ Abandon
              /\ UNCHANGED <<config, tasks, open, registered, tries, waiting, active, died>>

Stopped == /\ phase = "stopping" /\ todo = <<>>
           /\ phase' = "stopped" /\ told' = tasks
           /\ UNCHANGED <<config, todo, tasks, open, registered, tries, waiting, active, died, faults>>

Progress == \/ Prepare \/ Spawn \/ SpawnPong \/ StunBind \/ StunAnswer
            \/ Connect \/ Register \/ Ready
            \/ TakeLock \/ Produce \/ Produced
            \/ Send \/ Await \/ Stopped

Next == \/ Load \/ Progress \/ SpawnFail \/ StunFail \/ ConnectMiss \/ RegisterFail
        \/ ProducerFail
        \/ \E t \in Task : End(t)
        \/ Die \/ Open \/ Close
        \/ Receive \/ Acquire \/ JobEnd
        \/ Stop \/ AwaitError

(* A task the runtime can run is run: the steps of run itself, and a task  *)
(* whose channel is resolved.  Clients need not close their connections,   *)
(* the stop signal need not come, and a job need not end: its calls and    *)
(* fetches have no timeout.                                                *)
Spec == /\ Init /\ [][Next]_vars
        /\ WF_vars(Load) /\ WF_vars(Progress)
        /\ \A t \in Task : WF_vars(End(t))
        /\ WF_vars(Acquire)
-----------------------------------------------------------------------------
(* The variables are within their types, and a program holds no more       *)
(* senders than tasks and no connection of a server it does not run (the   *)
(* channels of lib.rs are made per task).                                  *)
TypeOK ==
    /\ config \in Config
    /\ phase \in {"load", "rejected", "starting", "running", "stopping", "stopped", "failed"}
    /\ tasks \subseteq Task \cup {"stun", "lock"} /\ told \subseteq tasks
    /\ open \subseteq Server \cup {"data"} /\ open \cap Server \subseteq tasks
    /\ registered \in BOOLEAN /\ tries \in 0 .. Attempts
    /\ waiting \in 0 .. MaxJobs /\ active \in 0 .. MaxJobs /\ waiting + active <= MaxJobs
    /\ died \subseteq {"pong", "echo"} /\ faults \in 0 .. MaxFaults

(* What is not checked on loading: one port for two sockets, a relay url,  *)
(* a control_addr beyond its prefix, an origin_addr and origin_token of    *)
(* the producer, a source_dir without files, and a chunk size no message   *)
(* can carry.                                                              *)
Unchecked(c) ==
    \/ c.program \in {"scheduler", "relay"} /\ c.same
    \/ c.program \in {"origin", "agent"} /\ c.relay = "bad"
    \/ c.program = "agent" /\ c.control = "bad"
    \/ /\ c.program = "producer"
       /\ ~c.files \/ c.upload = "bad" \/ (c.upload = "good" /\ c.max > MessageLimit)

(* run and start of a configuration that validate accepts fail only when   *)
(* the system around them does, or when the configuration is of one of the *)
(* classes above, which validate lets through (run of each lib.rs).  So in *)
(* every other configuration no step leaves a socket behind on the port a  *)
(* later step binds, the STUN probe's on the data path's included.         *)
FailsOnlyByFault == phase = "failed" => faults > 0 \/ Unchecked(config)

(* While a program runs, every task its configuration asks for runs: no    *)
(* accepted value makes a loop panic, and only an I/O error or a pong port *)
(* equal to the data port takes a service away in silence.                 *)
RunningWhole ==
    phase = "running" =>
        \A i \in DOMAIN Steps(config) :
            LET t == Steps(config)[i] IN t \in Task => t \in tasks \cup died

(* The scheduler hands out an agent's addresses to its peers: as long as   *)
(* the agent that registered has not failed or been stopped, its data path *)
(* serves there, and the probed address answers unless its socket is lost. *)
AnnouncedServed ==
    registered /\ phase \in {"starting", "running"} =>
        /\ "data" \in tasks
        /\ config.pong => "pong" \in tasks \cup died

(* The stop signal ends the program, unless a client keeps a connection of *)
(* the HTTP server open (the event stream never ends by itself).           *)
StopReturns == phase = "stopping" ~> (phase \in {"stopped", "failed"} \/ "http" \in open)

(* After run has returned, or start has failed, dropping the senders has   *)
(* reached every task that has a channel: the loops end, the data path's   *)
(* while fetches go on, and of the servers only those are left whose       *)
(* clients hold on; no lock file keeps the next producer out.  What has no *)
(* channel may stay as long as it likes: the jobs on_task spawned, of      *)
(* which one waits only while all the permits are held, and the tasks of   *)
(* open data path connections (datapath.rs, accept_loop).                  *)
NothingLeft ==
    phase \in {"stopped", "failed"} ~>
        /\ tasks \subseteq open \cap Server
        /\ waiting = 0 \/ active = config.permits
=============================================================================
