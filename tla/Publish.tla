------------------------------ MODULE Publish -------------------------------
(***************************************************************************)
(* How a version gets from a producer to the origin and to the scheduler,  *)
(* while the origin serves chunks to downloaders.  A producer stages the   *)
(* chunks of a version, uploads those it believes to be new, and commits   *)
(* the manifest.  The origin keeps one store handle per game in a table    *)
(* behind an async lock: an upload holds that lock from its first chunk to *)
(* the end of its stream.  The data path has a table of its own behind     *)
(* another lock, which a connection holds for as long as it is served, and *)
(* takes the first lock inside it.                                         *)
(***************************************************************************)
EXTENDS Manifest, FiniteSets

CONSTANTS
    Job,            \* runs of the producer
    Conn,           \* data path connections
    Game,
    GameOf,         \* job or connection -> its game
    VersionOf,      \* job -> version
    Files,          \* job -> files in source_dir: sequence of <<name, content>>
    Previous,       \* job -> chunk hashes of previous_dir
    DirOf,          \* job -> output_dir
    Wanted,         \* connection -> chunk hashes asked for
    Faults,         \* kinds of failure the environment produces
    MaxFaults       \* bound: failures in a behaviour

IsSequence(s) == s \in Seq(Range(s))

ASSUME PublishAssumption ==
    /\ GameOf \in [Job \cup Conn -> Game] /\ VersionOf \in [Job -> Nat \ {0}]
    /\ NameWidth \in Nat \ {0} /\ MaxFaults \in Nat
    /\ Job \cap Conn = {} /\ "free" \notin Job \cup Conn
    /\ \A j \in Job :
        /\ IsSequence(Files[j])
        /\ \A i \in DOMAIN Files[j] : IsSequence(Files[j][i][1]) /\ IsSequence(Files[j][i][2])

VARIABLES
    pc,             \* job or connection -> step
    todo,           \* job or connection -> chunks still to be sent
    dirs,           \* output directories with a .producer.lock
    lock,           \* holder of the lock on the origin's store table, or "free"
    dataLock,       \* holder of the lock on the data path's table, or "free"
    stores,         \* games in the store table
    dataStores,     \* games in the data path's table
    opens,          \* history: game -> times its store was opened
    pack,           \* game -> chunks in its pack store
    versions,       \* scheduler: set of [game, version, manifest]
    faults          \* failures so far

tableVars == <<lock, dataLock, stores, dataStores, opens, pack>>
vars == <<pc, todo, dirs, lock, dataLock, stores, dataStores, opens, pack,
          versions, faults>>

Ended == {"done", "failed", "crashed"}
Goto(p, step) == pc' = [pc EXCEPT ![p] = step]
Fault(kind) == kind \in Faults /\ faults < MaxFaults /\ faults' = faults + 1

(* list_files, chunk_file and GameIndex::build over source_dir. *)
Index == [j \in Job |->
            [i \in DOMAIN Files[j] |-> FileEntry(Files[j][i][1], Files[j][i][2])]]

(* The bytes that are sent, and what the origin reads in them. *)
Sent == [j \in Job |-> Encode(Index[j])]
Received == [j \in Job |-> Decode(Sent[j])]

(* update_plan::compute, as far as the upload goes: the chunks of the new  *)
(* index that the old one does not have, each once.                        *)
Compute(index, old) == ChunkSet(index) \ old

(* The plan against previous_dir: the chunks believed new. *)
Delta == [j \in Job |-> Compute(Index[j], Previous[j])]

(* GameStore::contains, for each chunk of a query. *)
Existing(g, chunks) == chunks \cap pack[g]

(* query_existing: what is left to send. *)
Missing(j) == Delta[j] \ Existing(GameOf[j], Delta[j])

Init ==
    /\ pc = [p \in Job \cup Conn |-> "start"]
    /\ todo = [p \in Job \cup Conn |-> {}]
    /\ dirs = {} /\ lock = "free" /\ dataLock = "free"
    /\ stores = {} /\ dataStores = {}
    /\ opens = [g \in Game |-> 0] /\ pack = [g \in Game |-> {}]
    /\ versions = {} /\ faults = 0
-----------------------------------------------------------------------------
(***************************************************************************)
(* The producer.                                                           *)
(***************************************************************************)
(* The lock file is created, or the run fails; then the version is built   *)
(* and staged.                                                             *)
LockDir(j) ==
    /\ pc[j] = "start"
    /\ IF DirOf[j] \in dirs
       THEN Goto(j, "failed") /\ UNCHANGED dirs
       ELSE Goto(j, "query") /\ dirs' = dirs \cup {DirOf[j]}
    /\ UNCHANGED <<todo, tableVars, versions, faults>>

(* The run returns: Drop removes the lock file, on success and on error. *)
Return(j, result) == Goto(j, result) /\ dirs' = dirs \ {DirOf[j]}

(* The store of a game is opened once and kept in the table. *)
OpenStore(g) ==
    /\ stores' = stores \cup {g}
    /\ opens' = [opens EXCEPT ![g] = IF g \in stores THEN @ ELSE @ + 1]

(* query_existing_chunks: what the origin has is not uploaded. *)
Query(j) ==
    /\ pc[j] = "query" /\ lock = "free"
    /\ OpenStore(GameOf[j])
    /\ todo' = [todo EXCEPT ![j] = Missing(j)]
    /\ Goto(j, IF Missing(j) = {} THEN "commit" ELSE "upload")
    /\ UNCHANGED <<dirs, lock, dataLock, dataStores, pack, versions, faults>>

(***************************************************************************)
(* The origin's side of an upload (process_upload).                        *)
(***************************************************************************)
(* The first chunk names the game; the table is locked for the stream. *)
UploadBegin(j) ==
    /\ pc[j] = "upload" /\ lock = "free"
    /\ lock' = j /\ OpenStore(GameOf[j])
    /\ Goto(j, "stream")
    /\ UNCHANGED <<todo, dirs, dataLock, dataStores, pack, versions, faults>>

(* A chunk is appended, or the append fails and the acknowledgement says   *)
(* so; the producer counts it and goes on.                                 *)
UploadChunk(j, c) ==
    /\ pc[j] = "stream" /\ c \in todo[j]
    /\ todo' = [todo EXCEPT ![j] = @ \ {c}]
    /\ \/ /\ pack' = [pack EXCEPT ![GameOf[j]] = @ \cup {c}]
          /\ UNCHANGED faults
       \/ Fault("append") /\ UNCHANGED pack
    /\ UNCHANGED <<pc, dirs, lock, dataLock, stores, dataStores, opens, versions>>

UploadEnd(j) ==
    /\ pc[j] = "stream" /\ todo[j] = {}
    /\ lock' = "free" /\ Goto(j, "commit")
    /\ UNCHANGED <<todo, dirs, dataLock, stores, dataStores, opens, pack,
                   versions, faults>>

(* Mutant: the error path keeps the table locked. *)
UploadBreak_Locked(j) ==
    /\ pc[j] = "stream" /\ Fault("net")
    /\ todo' = [todo EXCEPT ![j] = {}] /\ Return(j, "failed")
    /\ UNCHANGED <<tableVars, versions>>

(* The stream breaks, or a staged chunk cannot be read: upload_delta fails *)
(* and the server's task returns.                                          *)
UploadBreak(j) ==
    /\ pc[j] = "stream" /\ Fault("net")
    /\ lock' = "free" /\ todo' = [todo EXCEPT ![j] = {}]
    /\ Return(j, "failed")
    /\ UNCHANGED <<dataLock, stores, dataStores, opens, pack, versions>>

(* The producer dies.  Its lock file stays; its stream breaks. *)
Crash(j) ==
    /\ pc[j] \notin {"start", "stalled"} \cup Ended /\ Fault("crash")
    /\ lock' = IF lock = j THEN "free" ELSE lock
    /\ todo' = [todo EXCEPT ![j] = {}] /\ Goto(j, "crashed")
    /\ UNCHANGED <<dirs, dataLock, stores, dataStores, opens, pack, versions>>

(* The peer vanishes without closing: no timeout ends the wait for it. *)
Stall(p) ==
    /\ pc[p] \in {"stream", "serve"} /\ Fault("stall")
    /\ Goto(p, "stalled")
    /\ UNCHANGED <<todo, dirs, tableVars, versions>>

(***************************************************************************)
(* commit_version and publish_version.                                     *)
(***************************************************************************)
(* Mutant: the chunks are not looked up. *)
Acceptable_Unchecked(j) == Received[j].ok

(* The manifest can be read and the origin has all of its chunks. *)
Acceptable(j) ==
    Received[j].ok /\ ChunkSet(Received[j].files) \subseteq pack[GameOf[j]]

(* The manifest is checked and written to the published directory. *)
Commit(j) ==
    /\ pc[j] = "commit" /\ lock = "free"
    /\ OpenStore(GameOf[j])
    /\ \/ Acceptable(j) /\ Goto(j, "publish") /\ UNCHANGED <<dirs, faults>>
       \/ ~ Acceptable(j) /\ Return(j, "failed") /\ UNCHANGED faults
       \/ Fault("disk") /\ Return(j, "failed")
    /\ UNCHANGED <<todo, lock, dataLock, dataStores, pack, versions>>

(* save_version at the scheduler, a call made without the lock; a version  *)
(* that was there is replaced.  If the answer is lost the producer fails.  *)
PublishVersion(j) ==
    /\ pc[j] = "publish"
    /\ versions' = {v \in versions : v.game # GameOf[j] \/ v.version # VersionOf[j]}
                   \cup {[game |-> GameOf[j], version |-> VersionOf[j],
                          manifest |-> Sent[j]]}
    /\ \/ Return(j, "done") /\ UNCHANGED faults
       \/ Return(j, "failed") /\ Fault("rpc")
    /\ UNCHANGED <<todo, tableVars>>

PublishFail(j) ==
    /\ pc[j] = "publish" /\ Fault("rpc")
    /\ Return(j, "failed")
    /\ UNCHANGED <<todo, tableVars, versions>>
-----------------------------------------------------------------------------
(***************************************************************************)
(* The origin's data path (handle_conn).                                   *)
(***************************************************************************)
(* wait_for_direct_path and gate_or_reject: the wait is bounded and holds  *)
(* no lock.  A path that only leads over the relay is logged and let pass: *)
(* reject_relay_only returns Ok on both branches.                          *)
ConnGate(k) ==
    /\ pc[k] = "start" /\ Goto(k, "ready")
    /\ UNCHANGED <<todo, dirs, tableVars, versions, faults>>

ConnLock(k) ==
    /\ pc[k] = "ready" /\ dataLock = "free"
    /\ dataLock' = k
    /\ todo' = [todo EXCEPT ![k] = Wanted[k]]
    /\ Goto(k, IF GameOf[k] \in dataStores THEN "serve" ELSE "table")
    /\ UNCHANGED <<dirs, lock, stores, dataStores, opens, pack, versions, faults>>

(* Mutant: the data path opens a store of its own. *)
ConnTable_Own(k) ==
    /\ pc[k] = "table" /\ lock = "free"
    /\ opens' = [opens EXCEPT ![GameOf[k]] = @ + 1]
    /\ dataStores' = dataStores \cup {GameOf[k]}
    /\ Goto(k, "serve")
    /\ UNCHANGED <<todo, dirs, lock, dataLock, stores, pack, versions, faults>>

(* The game is new to the data path: its handle is shared with uploads. *)
ConnTable(k) ==
    /\ pc[k] = "table" /\ lock = "free"
    /\ OpenStore(GameOf[k])
    /\ dataStores' = dataStores \cup {GameOf[k]}
    /\ Goto(k, "serve")
    /\ UNCHANGED <<todo, dirs, lock, dataLock, pack, versions, faults>>

ConnEnd(k, result) ==
    /\ Goto(k, result) /\ dataLock' = "free"
    /\ todo' = [todo EXCEPT ![k] = {}]
    /\ UNCHANGED <<dirs, lock, stores, dataStores, opens, pack, versions>>

(* Mutant: an unknown chunk is skipped, and the connection waits on. *)
ConnChunk_Wait(k, c) ==
    /\ pc[k] = "serve" /\ c \in todo[k] /\ c \in pack[GameOf[k]]
    /\ todo' = [todo EXCEPT ![k] = @ \ {c}]
    /\ UNCHANGED <<pc, dirs, tableVars, versions, faults>>

(* A chunk is sent; one that is not there ends the connection. *)
ConnChunk(k, c) ==
    /\ pc[k] = "serve" /\ c \in todo[k]
    /\ \/ /\ c \in pack[GameOf[k]]
          /\ todo' = [todo EXCEPT ![k] = @ \ {c}]
          /\ UNCHANGED <<pc, dirs, tableVars, versions, faults>>
       \/ /\ c \notin pack[GameOf[k]]
          /\ ConnEnd(k, "failed") /\ UNCHANGED faults

ConnDone(k) ==
    /\ pc[k] = "serve" /\ todo[k] = {}
    /\ ConnEnd(k, "done") /\ UNCHANGED faults

(* The connection breaks, before it asks for chunks or while it is served. *)
ConnBreak(k) ==
    \/ pc[k] = "serve" /\ Fault("net") /\ ConnEnd(k, "failed")
    \/ /\ pc[k] = "ready" /\ Fault("net") /\ Goto(k, "failed")
       /\ UNCHANGED <<todo, dirs, tableVars, versions>>
-----------------------------------------------------------------------------
JobStep(j) ==
    \/ LockDir(j) \/ Query(j) \/ UploadBegin(j) \/ UploadEnd(j) \/ Commit(j)
    \/ PublishVersion(j)
    \/ \E c \in todo[j] : UploadChunk(j, c)
ConnStep(k) == \/ ConnGate(k) \/ ConnLock(k) \/ ConnTable(k) \/ ConnDone(k)
               \/ \E c \in todo[k] : ConnChunk(k, c)

Next == \/ \E j \in Job : \/ JobStep(j) \/ UploadBreak(j) \/ Crash(j)
                          \/ PublishFail(j)
        \/ \E k \in Conn : ConnStep(k) \/ ConnBreak(k)
        \/ \E p \in Job \cup Conn : Stall(p)

(* Every task goes on when it can; a run and a connection take the locks a *)
(* bounded number of times, so that nothing is assumed of their queues.    *)
Spec == Init /\ [][Next]_vars
FairSpec == /\ Spec
            /\ \A j \in Job : WF_vars(JobStep(j))
            /\ \A k \in Conn : WF_vars(ConnStep(k))
-----------------------------------------------------------------------------
Steps == {"start", "query", "upload", "stream", "commit", "publish", "ready",
          "table", "serve", "stalled"} \cup Ended
AllChunks == UNION {ChunkSet(Index[j]) : j \in Job}

(* Type invariant; a lock is held by the process that is inside it. *)
TypeOK ==
    /\ pc \in [Job \cup Conn -> Steps]
    /\ \A j \in Job : todo[j] \subseteq AllChunks
    /\ dirs \subseteq {DirOf[j] : j \in Job}
    /\ lock # "free" => lock \in Job /\ pc[lock] \in {"stream", "stalled"}
    /\ dataLock # "free" =>
            dataLock \in Conn /\ pc[dataLock] \in {"table", "serve", "stalled"}
    /\ stores \subseteq Game /\ dataStores \subseteq Game
    /\ opens \in [Game -> Nat]
    /\ \A g \in Game : pack[g] \subseteq AllChunks
    /\ \A v \in versions : v.game \in Game /\ v.version \in Nat \ {0}
    /\ faults \in 0 .. MaxFaults

(* Whatever the scheduler hands out as a manifest can be decoded, is the   *)
(* index that a producer built for that version, and names only chunks     *)
(* that the origin has: failed appends, chunks left out because of         *)
(* previous_dir and broken uploads do not lead to a version that cannot be *)
(* downloaded.                                                             *)
PublishedComplete ==
    \A v \in versions :
        LET index == Decode(v.manifest)
        IN /\ index.ok /\ ChunkSet(index.files) \subseteq pack[v.game]
           /\ \E j \in Job : /\ GameOf[j] = v.game /\ VersionOf[j] = v.version
                             /\ index.files = Index[j]

(* A game's database is opened once, whoever comes first, uploads and      *)
(* downloads included (redb refuses a second handle), and the data path    *)
(* has no game that the store table does not have.                         *)
OneHandle == /\ \A g \in Game : opens[g] <= 1
             /\ dataStores \subseteq stores

(* A producer's run ends, unless an upload's peer has vanished and keeps   *)
(* the table locked.  A download that stalls, which keeps the other lock,  *)
(* holds up no producer.                                                   *)
JobsEnd ==
    \A j \in Job : pc[j] = "start" ~> \/ pc[j] \in Ended
                                      \/ \E i \in Job : pc[i] = "stalled"

(* A connection is served or refused, unless a peer has vanished.  The two *)
(* locks are taken in one order only.                                      *)
ConnsEnd ==
    \A k \in Conn : pc[k] = "start" ~> \/ pc[k] \in Ended
                                       \/ \E p \in Job \cup Conn : pc[p] = "stalled"
=============================================================================
