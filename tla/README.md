# BlazeNet: TLA+ models, model checking and proofs

BlazeNet distributes games peer to peer: a producer cuts a game into chunks and
uploads them to the origin, IDC agents mirror them, café agents rebuild the real
files from them, and a scheduler hands out tasks and knows who holds what. This
directory specifies the parts of the Rust code (`src/crates/`) where failures,
crashes and interleavings decide whether the result is right. `PROJECT.json` maps
every definition to the source lines it models and lists the runs, mutants,
hazards, findings and theorems.

## Inventory

| Component | State | Operations | Hard behaviour | What makes it correct | Module |
|---|---|---|---|---|---|
| Pack store (`origin/src/storage.rs`) | `blocks.pack`, redb index, in-memory size | open, append (single, batch), read, contains, compact | partial writes, crash between file and index, offset width | indexed chunks read back as their data; space accounted; a map to its callers | `PackStore` implements `ChunkMap` |
| Café update (`agent/src/{executor,update,cafe_store}.rs`, `blaze-common/src/update_plan.rs`) | real files, `.new` files, temporary blocks, manifests, `current.version`, chunk map | plan, download, merge, delete, switch, report; cleaner | crash in mid-merge, retries, expiring blocks, overlapping tasks of a game | files are those of the current version, never a mixture; the store can be opened; retries get there; reads are truthful; each with the exceptions its comment names | `CafeUpdate` |
| Task control (`scheduler/src/{server,http,db}.rs`, `agent/src/{control,lib,executor}.rs`) | task table, per-node queue in memory, streams, spawned and running tasks | create, roll back, cancel, register, watch, report | broken streams, competing loops, restarts, cancel racing delivery | a task is in one place and runs on its node only (twice if created while it registers); statuses move forward unless a cancel and a report cross; tasks settle | `TaskControl` |
| Chunk ledger and multi-source download (`http.rs assign_idc_chunks`, `server.rs query_peers`, `db.rs`, `executor.rs run_idc/download_missing`, `fetch.rs`) | holders per chunk, assigned chunks, planned sources, excluded peers, write batch | assign, report, query, two rounds, origin's share, batch writes | stale holders, short answers, lost batches, assignment that overlaps | the ledger is true and a done task complete, but for batches lost in a failed write; the origin's egress is bounded; tasks succeed unless an address serves no data | `Swarm` |
| Keepalive and node status (`scheduler/src/keepalive.rs`, `server.rs`, `agent/src/{control,keepalive}.rs`) | node records, availability of addresses, outstanding probes | register, heartbeat, timeout, probe, receipt, sync | read-modify-write by several tasks, lost packets, one address for two ids | dead nodes go offline and stay so, live ones come back | `NodeStatus` |
| Upload, publication, manifests (`producer/src/{lib,upload,chunker}.rs`, `origin/src/server.rs`, `blaze-common/src/{manifest,update_plan}.rs`) | staged chunks, store table and its lock, published manifests | lock, query, upload, commit, publish; build, encode, decode | failed acknowledgements, stalled streams, lost answers | a published version is readable and complete; runs end | `Publish` over `Manifest` |
| Data path (`origin/src/datapath.rs`) | its own table and lock | wait for a path, request, serve, drop | missing chunk in mid-batch, two locks | one handle per game; connections end | `Publish` |
| Back office (`scheduler/src/{http,db,server}.rs`) | users, places, groups, games, versions, counters, audits | create, delete, publish, roll back, audit, back up | several transactions per request, crashes, a backup beside the handlers | given ids fresh but for explicit game ids, audits true, backups consistent up to late audits, latest version right unless updates overlap or are cut short | `Catalogue` |
| Start, stop, configuration (`*/src/lib.rs`, `*/src/config.rs`, `agent/src/stun.rs`, `relay/`) | configuration, spawned tasks, sockets, jobs | load, start steps, stop steps, failures | a start that fails half way, tasks that die, clients that hold on | accepted configurations start unless the system fails or `validate` does not look; running is whole; stopping ends every task that has a channel (detached jobs and connections may stay) | `Lifecycle` |

Components call each other as follows. The admin API (`http.rs`) inserts a task
and pushes it (`TaskControl`); the agent's `run_task` executes it, on a café with
`run_cafe` (`CafeUpdate`), on an IDC node with `run_idc`, which appends to a pack
store (`PackStore`); every chunk held is reported to the scheduler's ledger, from
which other nodes learn where to fetch it; the fetch reads the pack store or the
café's files. The producer uploads into the origin's pack store and publishes the
manifest to the scheduler.

## Modules

### PackStore, ChunkMap, PackStoreProofs

`PackStore` is one `GameStore`. Callers hold its mutex for a whole operation, so
operations are sequences of steps that do not interleave with each other; a step
is one file write, one copied range, the rename, or one index transaction, and an
I/O error or a crash may follow any of them. `pack`/`flen` are the file and its
length, `index` the redb table, `size` the in-memory append position; `batch`,
`pos`, `live`, `locs`, `cursor` and `tmp` are the locals of the running operation.
A file is a function from addresses to cells `<<h, k>>`, so data read from a wrong
place is seen to be wrong. `StoredOffset` is the code's shift into the upper half
of a `u64`, as `% OffsetSpace`. `append_chunk` is a batch of one.

`ChunkMap` is the promise: a map from hash to data, changed by `Put` (all of a
batch or nothing) and `Retain`. The refinement mapping reads the file at the
positions in force, which are the new ones from the rename on.

Left out: power loss (pack writes are not synced), a failing reopen after the
rename, chunks longer than 2^32, the read-only listing `entries`. `available_space`
is an argument of the caller and a refused compaction changes nothing.

### CafeUpdate, CafeUpdateProofs

One game on one café agent. `files`, `newf`, `temp`/`torn`, `saved` and `current`
are on disk; `map` is `CafeStore.current`; `pc`, `ver`, `base`, `todo`, `rest`,
`bad` and `work` are the locals of the tasks. `Start` is everything up to the download
(manifest of the current version read, plan computed, repair chunks added), then
one action per downloaded chunk, per `.new` file created (`MergeCreate`), per chunk
written to it (`MergeChunk`), per file checked and closed (`MergeBuild`), removed,
renamed or deleted, and two per file written by `save_manifest`: `std::fs::write`
truncates (`TruncateManifest`, `TruncateVersion`) before it writes (`SaveManifest`,
`SwitchVersion`), and a failure or a crash between the two leaves the file empty
(`Blank`). `StartRefused` is a task that finds the store so. A name's contents are a
sequence of hashes and chunks are equally long, so a byte offset is a position. File
names are numbered in manifest order.

Two tasks may write one `.new` file. A task writes through its handle, and `Handles`
says where every handle leads after a step of another task: creation truncates the
file under its writer, a rename turns it into the real file, a removal unlinks it.
The hash is that of what the task has read (`ok`), not of what is in the file.
`SourceData` follows `write_new_file`: the old file of that name, as it was when it
was opened, at the old version's offset, else the file where the old version first has
the chunk, else the temporary block. `DownloadFail` stands for every way in which
`download_missing` gives up.

History variables, used in properties only: `half` (files changed since the last
switch), `dirty` (a task stopped in such a state, or tasks overlapped), `shared` (two
tasks were at one `.new` file), `cut` (a save stopped between truncation and write)
and `clash` (an update was started that takes a chunk from a file `merge_files` has
replaced by then, `Displaced`). They name the conditions under which the code does not
keep what it keeps otherwise.

### TaskControl, TaskControlProofs

A task is inserted (`CreateTask`), queued (`QueueTask`), drained by a loop
(`Drain`), put into its stream (`Send`), received and spawned (`Receive`), run when
a permit is free (`Begin`) and ended (`End`). Every `WatchTasks` call starts a loop
at the scheduler; a loop ends only when it has something to send and the channel is
closed, so loops of lost streams stay and compete. The transport between them is
external: a broken stream is noticed at some later time (`NoticeBroken`) and until
then swallows events. `register` gives a fresh node id on every start of the agent;
its insert and its read of the queued tasks are two steps. A task created for a node
between the two (`early`) is returned as an initial task and delivered by the stream
as well; `spawned` and `running` therefore keep apart by which way (`Way`) a task came,
and such a task may run twice. `cancel_task` reads and writes in two steps, and
`overtaken` are the tasks whose status a report changed in between: the only ones that
are cancelled while running or finished, which the comment at `http.rs:501` rules out.
`EndMissing` is the early return of `run_task` without a manifest: no final report is
sent, and the task stays "running" (`missing`). `EndSilent` is a final report
that is lost, or a manifest that cannot be fetched because the call fails.

### Swarm, SwarmProofs

The chunks of one version and the IDC agents that want them. `nodes`, `host`,
`online` and `ledger` are the scheduler's; `have` is a machine's pack store (a set
here; `ChunkMap` is the promise `PackStore` is shown to keep); the rest are the locals
of `run_idc` and `download_missing`: `unresolved`/`later` are the code's `unresolved`
and `next_unresolved`, `source` its `groups`, `batch` its `pending`. One action per
peer query (`Plan`), per chunk received, per end of a group (all there, a short answer,
an error), per round, per chunk from the origin, per batch write and per report.
A write is part of the step that receives the chunk which fills the batch (`Sink`); when
it fails (`ReceiveFail`, `OriginReceiveFail`) the whole batch is gone, because
`flush_pending` takes it first, and only the group of that chunk is tried again. What
other groups had in it is in `lost` (of the last task) and `everLost`; it is reported
like the rest.
The ledger keeps the order of reports because `query_peers` takes the first `Limit`
holders *before* it drops the offline ones; `QueryPeers` and `Candidates` are sets of
positions in that list, and the hash picks the candidate with a given number of others
before it (`Before`). A machine that restarts keeps its pack
store and gets a new node id; nothing ever leaves the ledger. `sent` and `overlaps`
are history variables of `EgressBounded`. `TasksSettle` of `TaskControl` and
`TasksSucceed` here meet at `CreateTask`: delivery is that module's subject, and one
task per machine at a time is this one's.

`Addrs` is the list of addresses each machine registers: none, its external address, or
that and the UDP address of its keepalive port, as agents in an IDC do (docs/08). The
code picks one by the chunk's hash without looking at its kind (`PickedAddr`): a chunk
whose hash picks the keepalive address cannot be fetched from that node (`Unserved`),
and `blocked` are the chunks a task failed for. Download rate limits only sleep and are
left out.

### NodeStatus, NodeStatusProofs

The status in a node's record has three writers: `register`/`heartbeat`, the heartbeat
timeout, and the availability of the probed address; the last two are in
`keepalive::run` and use `get_node` and `insert_node`, two transactions (`Read`,
`Write`). A second of the loop is `Tick`, `Mark`, `Probe`, `Collect`, `Sync`; times
are ages in seconds, capped where they no longer matter. `keep` is the table of
`AddrState`, `outstanding` the probes without a receipt; whether a probe is answered
is decided when it is sent, whether in this second when receipts are read. `stale` and
`silent` are history: nodes whose heartbeat was overwritten by an older record, and
how long an agent has been gone.

`TimingAssumption` says that the agent's fixed 25 s are no more than the scheduler's
`offline_timeout_secs`, which no code checks. The run takes them equal, the tightest
case.

### Manifest, Publish, PublishProofs

`Manifest` has `GameIndex::build`, `encode` and `decode` on sequences of tagged
fields: reading a field as something else than was written fails. The name length is
`% NameWidth`, as in the code's cast to `u16`. `Publish` has producers (`Job`) and
downloads (`Conn`) at one origin. `lock` is the async mutex of the table of stores,
held by an upload for its whole stream; `dataLock` that of the data path's table,
held while a connection is served, with the first taken inside it. `opens` counts how
often a game's store was opened, which redb allows once. `Stall` is a peer that
vanishes without closing: no timeout in the code ends the wait for it, and
`JobsEnd`/`ConnsEnd` say precisely who then waits. A published manifest is decoded and
compared with the files it was built from.

`ConnGate` follows the code: `gate_or_reject` returns `Ok` on both branches, so a
connection over the relay only is served. The upload token, compared before any state
is touched, is left out. Where FastCDC cuts is library code: a file is the sequence of
its chunks.

### Catalogue, CatalogueProofs

`db::Store` makes every call a transaction; the actions are these transactions, and
`request` holds what a handler has read and will write. `Kind` stands for the tables
that are handled alike (users, places, groups: `create_*`, `delete_*`). Games have an
explicit or a given id, versions are saved by `publish_version` and never deleted.
`backup_to` reads its tables in the order `Tables`, each in a transaction of its own.
The history variables: `born` has every record's id with where it came from (counter or
request), `effects` the operations in effect, `seen` the greatest version *saved* for
a game's record (in the step of `save_version`, before the record is written),
`disturbed` the games two of whose updates overlapped (`publish_version` and
`rollback_game` write back the whole record they read) or whose publication a crash or
a failed transaction (`Fail`) cut short, and `late` the audit ids given out after the
running backup had read the counters. A publication that runs alone and saves the
greatest version ends the disturbance.

### Lifecycle, LifecycleProofs

Five programs, each as the list of its start steps and stop steps in the order of the
code; the configuration is chosen freely in `Init` and abstracted to the classes that
`validate` and the start steps tell apart. `tasks` are the spawned tasks that run
(with the sockets they own), `told` those whose channel was used or dropped. Leaving
`run` or `start` on an error drops all senders, which is how earlier steps are undone.
`Port` says which steps bind the same port (`same`, and the STUN probe). `Open` is a
client that keeps a connection: graceful shutdown waits for it, while the connections
of the data path (`"data"` in `open`) are detached tasks nobody waits for. `control` and
`upload` are "bad" when `validate` accepts an address that cannot be connected to:
`validate` looks at the agent's prefix only, and at neither of the producer's fields.
`Unchecked` lists every such class.

## Runs

| Run | Result | What it shows |
|---|---|---|
| `pack_store` | pass | appends, compactions, errors and crashes: reads, space, refinement of `ChunkMap` |
| `pack_window` | violation | compaction's rename precedes the index transaction; a failure in between corrupts reads |
| `pack_wide` | violation | offsets beyond 32 bits wrap |
| `cafe_update` | pass | updates and rollbacks between three versions, two tasks, every failure at every step: what holds of the files, the store and its reads, and under which named conditions it does not |
| `cafe_retry` | violation | a crash between two replacements makes an update impossible for good |
| `task_control` | pass | one place, right node, forward statuses, settlement, with the registration window and crossing cancels as named exceptions |
| `task_reconnect` | violation | a task is lost when a stream breaks, although its node reconnects |
| `swarm` | pass | the ledger is true and done tasks are complete but for a batch lost in mid-download; egress is bounded; without failures a task fails only for chunks whose hash picks an address that serves no data |
| `node_status` | pass | false alarms only from named causes, dead nodes offline in bounded time, live ones come back |
| `publish` | pass | published versions decode and are complete, one handle per game, runs and connections end |
| `catalogue` | pass | given ids fresh but for explicit ones, audits true, backups consistent up to late audits and explicit ids, latest version right unless updates overlap or are cut short |
| `lifecycle` | pass | an accepted configuration starts unless the system fails or it is of a class `validate` does not check; what runs is whole; stopping or failing ends every task that has a channel |

Each violation contradicts a line of the repository's documents or comments, quoted
in `PROJECT.json` under `findings`. What fails there is also
stated in a form the code does meet: `IndexedReadable` holds when the window and the
width are excluded (run `pack_store`, and proved), `UpdateCompletesUndisturbed` when
tasks do not overlap, nothing but downloads and reports fails and no update that
displaces a chunk was tried, `FilesMatchCurrent` and `ReadsTruthful` when tasks do not
overlap or stop half way; `OnePlace` and `StatusForward` are what delivery and
cancelling do promise. The exceptions inside the passing properties (`shared`, `cut`,
`clash`, `early`, `overtaken`, `missing`, `everLost`, `Unserved`, explicit ids, `late`,
`disturbed`, `Unchecked`) are not conditions on the environment but the cases in which
the code does otherwise; each occurs in its run, and a property without its exception is
violated there.

Behaviours met while modelling that have no run of their own:

- café: a crash or a full disk between truncation and write leaves an empty
  `current.version` or manifest, and no task of the game starts again (`cut`);
- café: with v1 = {1: ab, 2: c} and v2 = {1: d, 3: b}, file 1 is replaced before b is
  read at its old offset in it: the update fails on every retry although nothing in the
  environment failed (`clash`);
- café: with two permits, an update and a rollback of one game may overlap and leave a
  mixture of versions reported as done (`dirty`); two tasks at one `.new` file can
  publish it truncated or mixed, with the right hash computed by each (`shared`);
- café: chunks of earlier versions stay in the scheduler's ledger and are not served once
  their temporary blocks have expired (`ReadsTruthful` reads nothing there);
- IDC: a batch that cannot be written in mid-download takes chunks of other groups with
  it; the task ends as done and reports them (`lost`);
- IDC: with `keepalive_port` and `external_addr` as in docs/08, chunks with an odd first
  hash byte are never served by such a peer, which is excluded for the rest of the
  task as well (`Unserved`);
- a cancelled task may still be delivered and run; a report that comes between
  `cancel_task`'s read and write is overwritten with "cancelled", also for a running or
  finished task, against the comment at `scheduler/src/http.rs:501` (`overtaken`);
- a task created while its node registers is executed twice (`early`);
- a task whose version has no manifest stays "running" for good (`missing`);
- "每块一次" at `scheduler/src/http.rs:133` (a chunk leaves the origin once) holds only
  while tasks do not overlap and nothing fails: `EgressBounded` counts the rest;
- no code assigns the chunks of an offline node again, which `docs/03-项目PRD.md:137`
  asks for: the ledger forgets nobody;
- a create with an explicit game id leaves the counter alone; when the counter reaches
  that id, the new game replaces the old one;
- a backup may hold audit records whose ids are past its own counter (`late`);
- `latest_version` stays behind after overlapping updates, and after a publication that
  ended between `save_version` and `insert_game` (`disturbed`);
- `control_addr` with `https://` passes `validate`, and the agent never connects: tonic
  is built without TLS.

### Bounds

- `pack_store`: three chunks of lengths 1, 2, 1 on six units, batches of up to three,
  two failures: a batch can repeat a hash, run out of space after its first chunk,
  and leave debris longer than the append that overwrites it.
- `cafe_update`: three versions. From 1 to 3 one file changes (a chunk moves to another
  offset), one is renamed; from 1 to 2 a chunk is displaced from a file that is replaced
  first; all are targets, so updates, rollbacks and re-installs occur. Two tasks; one
  failure of any kind, an overlap counting as one: each exception needs just one.
  `UpdateCompletes` and `UpdateCompletesUndisturbed` speak of the highest version.
- `task_control`: two tasks, an agent started twice, two streams, a channel of
  one, one permit, one failure, cancels, and tasks created while the agent registers:
  a loop blocks with an event in hand, a zombie loop
  competes with a live one, a task waits for the permit. Deadlock is not checked,
  since an idle system with no task left may stop.
- `swarm`: two machines of which one may restart under a third node id, two chunks
  whose hashes pick different candidates, one machine with a keepalive address that the
  second chunk's hash picks, one holder per query (the code: 5), so that
  a dead id hides a live one; batches of two (the code: 64), so that a chunk can be in
  memory only; two tasks, which may overlap; two failures. The system may stop when
  the tasks are used up, so deadlock is not checked.
- `node_status`: two runs of one machine at one probed address and a node without
  one; heartbeat, timeout and probe window of two seconds and a threshold of two, so
  that a heartbeat is due just when the timeout would strike and one lost probe is not
  enough; one loss.
- `publish`: three producer runs of one game, two of them in one directory, two of
  them for one version with different files; a delta that leaves out what the origin
  may lack; two downloads; two failures of six kinds. Runs end, so deadlock is not
  checked; the liveness properties say what must not wait.
- `catalogue`: two handlers, three requests, two ids per table (enough to meet an id
  again after a deletion or as an explicit one, and to have one given out after it), two
  versions, one crash or failed transaction, the backup beside all of it;
  handlers are symmetric. Requests are used up, so deadlock is not
  checked.
- `lifecycle`: every configuration of the five programs, two calls of `connect` (the
  code: 30), two jobs, two failures. A program that has stopped is at its end, so
  deadlock is not checked.

`MaxFaults`, `MaxLoss`, `MaxCrash`, `MaxBatch`, `MaxNode`, `MaxTask`, `MaxStream`,
`MaxId`, `MaxOps`, `MaxJobs` and `Attempts` are bounds of the models; `Capacity`,
`Permits`, `ChannelSize`, `Limit`, `BatchSize`, `NameWidth` and the timing constants
are parameters of the system.

### Fairness

`CafeUpdate`: a task is a tokio task that runs until it returns, hence weak fairness
of each task's steps. `OperatorRetries` (strong fairness of starting a task for each
target) is what the documents prescribe, failed tasks are issued again; without it
nothing would ever be installed. No failure is fair. `TaskControl`: handlers and
loops go on when they can (waits inside them time out by themselves); the semaphore
is FIFO, hence strong fairness of `Begin`; the operator is not assumed to do
anything; a supervisor starts the agent again. `Swarm`: weak fairness of each task's
steps. In these three modules a running task's calls and fetches end with an answer or
an error; the code sets no time limit on them, so a peer that stalls without an error is
a failure outside the liveness properties, which speak of behaviours without failures
(or, in `CafeUpdate`, with failing downloads). `NodeStatus`: the loop and
the agents' timers go on. `Publish`: weak fairness of each run and each connection,
none of failures or of a stalled peer; each takes the locks a bounded number of times,
so the order of the locks' queues does not matter. `Lifecycle`: the runtime runs what
can run; clients need not close their connections, the stop signal need not come, and
jobs need not end: nothing limits the time of their calls.
`Catalogue` has safety properties only.

## Proofs

All proofs are checked by TLAPS (SMT, Zenon, LS4) and hold for every value of the
constants that satisfies the named assumptions. Every invariant and every action
property of a passing run is proved, and so is the refinement; the inductive invariants
were checked with TLC first.

- `PackStoreProofs`: `TypeCorrect`; `ReadsCorrect` and `StoreImplementsMap` under
  `Fits` (the disk is no larger than the offset space) and `NoWindow` (no failure
  between rename and commit), the two conditions whose absence the violation runs
  exploit. `IndexedReadable` is not inductive: `StoreInv` adds that everything indexed
  lies below the append position while a job writes at and above it (`IndexInv`),
  and that what the job has placed so far is in its file (`JobInv`). Refinement follows
  from `ContentsExact`: the positions in force always read as their data, so a step
  is determined by how the set of hashes changes. `SpaceAlwaysAccounted` needs
  `NoWindow` only. Its invariant `SpaceInv` balances the books in mid-operation: the
  append position covers what is indexed (`Balanced`), what an append has placed is new
  and is exactly what its cursor has moved by (`Fresh`), and a compaction's cursor is the
  bytes of what it has copied (`Copied`).
- `CafeUpdateProofs`: `CafeTypeOK`; `CurrentAlwaysLoadable` and `FilesAlwaysWhole` for
  any number of overlapping tasks; `FilesAlwaysMatchCurrent` and `ReadsAlwaysTruthful`.
  `LoadInv` says that the manifest of the current version, and of one a task is about to
  switch to, is on disk, or being written, or was `cut`. `NewInv` holds while no `.new`
  file was `shared`: then tasks build different files (`Apart`), a file being written is
  the prefix its task has hashed (`Copy`), and one that is checked is whole (`Ready`).
  `MatchInv` for the last two follows the only task name by name: which files
  are built, removed, renamed and deleted at each step.
- `TaskControlProofs`: `TaskTypeCorrect`, `RunsOwnTasks`, `TasksInOnePlace`,
  `StatusMovesForward`, with the registration window. `RightNode` needs that queues,
  loops and streams already carry only tasks of their own node (`QueueOwned`,
  `HeldOwned`, `ChanOwned`), that a loop's node never changes while it holds something,
  and that waiting tasks have been created (`Unowned`). `OnePlace` is shown over
  a set of places: every step moves a task's event between two of them, drops it, or
  brings one that was nowhere, and what registration hands over was created early.
  `StatusForward` follows from it, since what a status may become depends on where the
  task still is (`Staged`), on whether a report came after the cancel's read
  (`Cancellable`), and on the node's id being new, so that registration finds only
  tasks created since (`NotYet`).
- `SwarmProofs`: `SwarmTypeOK`, `LedgerAlwaysTruthful`, `DoneAlwaysComplete`,
  `EgressAlwaysBounded`. The second and third rest on `Covered`: while a task runs,
  every chunk of it is stored, in the write batch, planned, still to be looked up, or was
  lost in a batch whose write failed in mid-download.
  The bound rests on a `Budget` per chunk that a task takes from when it is created
  and gives back when it fails. The types need that the position the hash picks exists
  (`Ranked`: a set of n positions has one with k before it, for each k < n).
- `NodeStatusProofs`: `NodeTypeOK`, `NoFalseOfflineAlways`, `DeadAlwaysOffline`, from
  `TimingAssumption`. For a running agent, its record is as old as its last heartbeat
  (`Beats`), so the timeout finds it only together with a heartbeat that overtakes the
  loop (`Listed`). For a stopped one, its record is as old as its silence (`Aged`), so
  it is marked every second (`Struck`), and the probes bring it back only until its
  address has failed `Threshold` times, which the probes left unanswered in each
  window count (`Pending`, `Counted`).
- `PublishProofs`: `PublishTypeOK`, `OneHandleAlways`, `RoundTrip`,
  `PublishedAlwaysComplete`. A game is in the table exactly when it was opened
  (`Handles`). A version is checked under the lock and published without it, so
  `Checked` says the check would still succeed: no step removes a chunk. `RoundTrip`
  says that `Decode(Encode(files))` is `files` when every name fits its length field
  and is refused otherwise: `FlattenAt` and `EncodeBodyAt` say where each field stands,
  `ReadGood`/`ReadLong`/`ReadEnd` what one round of `decode` makes of it, and
  `DecodeEncode` composes the rounds up to the first that fails.
- `CatalogueProofs`: `CatalogueTypeOK`, `IdsAlwaysFresh`, `AuditAlwaysTrue`,
  `BackupAlwaysConsistent`, `LatestAlwaysMax`. A handler carries a record over several
  transactions; `HeldSound` says what is still true of it, which is what only grows
  (counters, manifests, effects; `Behind`). `Snapshot` relates the tables of a backup by
  the order in which they are read, and `Lag` says that an audit id past the backup's
  counter is a late one. `Calm` says of an undisturbed game that at most one handler has
  its record in hand, with the greatest version saved.
- `LifecycleProofs`: `LifecycleTypeOK`, `FailsAlwaysByFault`, `RunningAlwaysWhole`,
  `AnnouncedAlwaysServed`, for every configuration. The steps of every program ascend
  in one ranking of their names, so what was done ranks below what is left
  (`Ascending`), and what was done is there (`Starting`).

Assumptions on the constants are those the code or the model's meaning gives: machines
are finitely many and register no address, one or two (`Swarm`; agents without an address
are never candidates); a run of the producer is not a connection, and what it lists are
sequences (`Publish`); manifests are functions to sequences of hashes (`CafeUpdate`);
the heartbeat is no longer than the timeout (`NodeStatus`, not checked by the code);
bounds are natural numbers.

Facts about data that need induction (sums over sets, the rank of an element,
`FlattenSeq`, the rounds of `decode`) are proved from the well-foundedness of the
natural numbers: a nonempty set of them has a least element (`Smallest`), hence
induction for a *set* of numbers or sets (`SetInduction`, `SubsetInduction`), which
needs no operator parameter. Recursive definitions are unfolded by showing that they
have one solution (`FlatUnique`, `BodyUnique`, `ReadsUnique`).

Only model-checked: the liveness properties `UpdateCompletesUndisturbed`, `TasksSettle`,
`TasksSucceed`, `AliveComesBack`, `JobsEnd`, `ConnsEnd`, `StopReturns` and `NothingLeft`,
since fairness and ENABLED are out of the prover's reach; and the four violations.

## Plan

Done: all modules above, in the order pack store, café, task control, swarm, node
status, publication, back office, lifecycle; the safety proofs of all of them. Left:

1. Abstract specifications for more components and their refinement: `Publish` as a
   set of versions that only grows by complete ones, `Swarm` as a growing set of
   holders, `TaskControl` as a status machine per task.
2. Action properties worth a theorem of their own (what no step of the cleaner, the
   backup or a restart may do).

## Not modelled

- Power loss: pack writes are not synced before the index transaction, so the index
  may name data that never reached the disk. A crash in these models is a process
  crash.
- In `CafeUpdate`: a file cut short in its write is empty, never a prefix of its text,
  and two tasks in `save_manifest` at once leave one version or the other in
  `current.version`, never digits of both; names that `with_extension("new")` makes
  equal (`update.rs:104`).
- An address that does not parse ends the whole download (`executor.rs:416`); the
  addresses of `Swarm` all parse.
- Limits of the gRPC library on message sizes, apart from the 16 MiB of an uploaded
  chunk (`Lifecycle`); products of configured times that overflow a `u64`
  (`backup_interval_hours`, `offline_timeout_secs`). A configured path that cannot be
  created counts as a failure of the system.
- Bindings, heat, login, metrics and the list handlers of the admin API: one
  transaction each, read by nothing modelled. Of the backup, the nodes, tasks,
  chunks, bindings and heat tables, for the same reason.
- The chunker's cut points, the QUIC transport, the forwarding inside the relay and the
  STUN packets: library code or I/O.
- `DownloadManager`, which only its own tests call; the command-line tools, the web
  console, benchmarks and proofs of concept. `GameStore::compact` is called by tests
  only in this commit; it is modelled because the documents make it part of the store.
