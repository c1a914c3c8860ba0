----------------------------- MODULE CafeUpdate -----------------------------
(***************************************************************************)
(* One game on a café agent: run_cafe brings the game's real files to the  *)
(* version a task asks for.  It plans against the manifest of the current  *)
(* version, downloads what is missing into temporary blocks, rebuilds the  *)
(* changed files one by one, deletes files the new version does not have,  *)
(* and then switches current.version.  Up to Permits tasks run at once and *)
(* nothing keeps two of them off the same game; the cleaner deletes        *)
(* expired temporary blocks behind their backs; the agent may die anywhere *)
(* and starts again with what is on disk.                                  *)
(*                                                                         *)
(* Contents are sequences of chunk hashes.  Chunks count as equally long,  *)
(* so a byte offset is a position in the sequence.  A .new file is written *)
(* chunk by chunk through a handle that survives what other tasks do to    *)
(* its name: create truncates a .new file another task is writing, rename  *)
(* makes it the real file under its writer's hands, remove unlinks it.  A  *)
(* file opened for reading is read as it was when it was opened.           *)
(* std::fs::write truncates a file before it writes: both files of         *)
(* save_manifest are empty in between.                                     *)
(***************************************************************************)
EXTENDS Integers, Sequences, FiniteSets, Functions

CONSTANTS
    Name,           \* file names, numbered in manifest order
    Hash,           \* chunk hashes
    Version,        \* version numbers
    Manifest,       \* version -> file name -> sequence of chunk hashes
    Targets,        \* versions that tasks are created for
    Task,           \* task slots
    Permits,        \* concurrent_games
    Faults,         \* kinds of failure the environment produces
    MaxFaults       \* bound: failures in a behaviour

NoVersion == 0
Blank == -1             \* current.version is there and empty
Torn == "torn"          \* what a half-written block reads as
ReadError == "error"    \* end of file, or no such file

ASSUME NameAssumption == Name \subseteq Nat
ASSUME HashAssumption == Torn \notin Hash /\ ReadError \notin Hash
ASSUME VersionAssumption == Version \subseteq Nat \ {NoVersion} /\ Targets \subseteq Version
ASSUME ManifestAssumption ==
    \A v \in Version : /\ DOMAIN Manifest[v] \subseteq Name
                       /\ Manifest[v] \in [DOMAIN Manifest[v] -> Seq(Hash)]
ASSUME BoundsAssumption == Permits \in Nat \ {0} /\ MaxFaults \in Nat

VARIABLES
    files,          \* real files: a function from a set of names to contents
    newf,           \* the .new files next to them
    temp, torn,     \* temporary blocks on disk; the half-written ones of them
    saved,          \* versions whose .gameindex is on disk, and whole
    current,        \* contents of current.version
    map,            \* CafeStore.current: version whose chunk map is loaded
    pc,             \* task -> step
    ver, base,      \* task -> version asked for, current version when planned
    todo,           \* task -> chunks still to download
    rest,           \* task -> names merge_files has not handled: files of the
                    \* new version first, then those only the old one has
    bad,            \* task -> summary.failed is not empty
    work,           \* task -> write_new_file's locals: chunks written (pos), is
                    \* the hash right so far (ok), what the handle on .new has
                    \* become (out), the old file opened for reading (src)
    faults, hit,    \* failures so far; did one other than a download failure occur
    half, dirty,    \* history: files changed since the last switch; a task
                    \* stopped in that state, or two tasks overlapped
    shared,         \* history: two tasks were at the same .new file
    cut,            \* history: a save stopped between truncation and write
    clash           \* history: a Displaced update was started

diskVars == <<files, newf, temp, torn, saved, current>>
jobVars == <<pc, ver, base, todo, rest, bad, work>>
marks == <<shared, cut, clash>>
histVars == <<faults, hit, half, dirty, marks>>
vars == <<files, newf, temp, torn, saved, current, map, pc, ver, base, todo,
          rest, bad, work, faults, hit, half, dirty, shared, cut, clash>>
-----------------------------------------------------------------------------
NoFile == [n \in {} |-> <<>>]
Index(v) == IF v \in Version THEN Manifest[v] ELSE NoFile
Chunks(v) == UNION {Range(Index(v)[n]) : n \in DOMAIN Index(v)}
First(S) == CHOOSE n \in S : \A m \in S : n <= m
Position(s, h) == CHOOSE p \in DOMAIN s : s[p] = h /\ \A q \in 1 .. p - 1 : s[q] # h
Put(f, n, c) == [m \in DOMAIN f \cup {n} |-> IF m = n THEN c ELSE f[m]]
Drop(f, S) == [m \in DOMAIN f \ S |-> f[m]]

(* build_map and global_chunks: where version v first mentions the chunk. *)
Home(v, h) == First({n \in DOMAIN Index(v) : h \in Range(Index(v)[n])})
ReadAt(s, p) == IF p \in DOMAIN s THEN s[p] ELSE ReadError
ReadTemp(h) == IF h \in torn THEN Torn ELSE IF h \in temp THEN h ELSE ReadError

(* Mutant: only files that are not on disk need anything. *)
PlannedChunks_RepairOnly(v) ==
    UNION {Range(Index(v)[n]) : n \in DOMAIN Index(v) \ DOMAIN files}

(* update_plan::compute(...).chunks_to_download, then run_cafe's           *)
(* repair_chunks: all chunks of files that are not on disk.                *)
PlannedChunks(v) ==
    (Chunks(v) \ (Chunks(current) \cup temp))
        \cup UNION {Range(Index(v)[n]) : n \in DOMAIN Index(v) \ DOMAIN files}

(* write_new_file, one chunk: the old file of that name if it was opened,  *)
(* else the file where the old version has the chunk, else the temporary   *)
(* block.                                                                  *)
SourceData(o, n, h, src) ==
    IF n \in DOMAIN src /\ h \in Range(Index(o)[n])
    THEN ReadAt(src[n], Position(Index(o)[n], h))
    ELSE IF h \in Chunks(o) /\ Home(o, h) \in DOMAIN files
    THEN ReadAt(files[Home(o, h)], Position(Index(o)[Home(o, h)], h))
    ELSE ReadTemp(h)

(* A write at a position, past the end or not. *)
WriteAt(s, p, d) ==
    [i \in DOMAIN s \cup 1 .. p |->
        IF i = p THEN d ELSE IF i \in DOMAIN s THEN s[i] ELSE Torn]

(* The update from o to v takes a chunk from a file of o that merge_files  *)
(* has replaced by then, from a place where the new file has another one.  *)
Displaced(o, v) ==
    \E n \in DOMAIN Index(v) : \E h \in Range(Index(v)[n]) \cap Chunks(o) :
        /\ n \in DOMAIN Index(o) => h \notin Range(Index(o)[n])
        /\ Home(o, h) < n /\ Home(o, h) \in DOMAIN Index(v)
        /\ ReadAt(Index(v)[Home(o, h)], Position(Index(o)[Home(o, h)], h)) # h

NeedMerge(v, o, n) ==
    ~(/\ n \in DOMAIN Index(o) /\ Index(o)[n] = Index(v)[n]
      /\ n \in DOMAIN files)

Active(t) == pc[t] # "none"
Running == {t \in Task : Active(t)}
-----------------------------------------------------------------------------
Idle == [pos |-> 0, ok |-> TRUE, out |-> "gone", src |-> NoFile]

(* A café that has never seen the game. *)
Init ==
    /\ files = NoFile /\ newf = NoFile
    /\ temp = {} /\ torn = {}
    /\ saved = {} /\ current = NoVersion /\ map = NoVersion
    /\ pc = [t \in Task |-> "none"]
    /\ ver = [t \in Task |-> NoVersion] /\ base = [t \in Task |-> NoVersion]
    /\ todo = [t \in Task |-> {}] /\ rest = [t \in Task |-> {}]
    /\ bad = [t \in Task |-> FALSE] /\ work = [t \in Task |-> Idle]
    /\ faults = 0 /\ hit = FALSE /\ half = FALSE /\ dirty = FALSE
    /\ shared = FALSE /\ cut = FALSE /\ clash = FALSE

Fault(kind) ==
    /\ kind \in Faults /\ faults < MaxFaults
    /\ faults' = faults + 1
    /\ hit' = (hit \/ kind # "download")

Goto(t, step) == pc' = [pc EXCEPT ![t] = step]

(* The task returns: its locals are gone. *)
EndTask(t) ==
    /\ Goto(t, "none")
    /\ ver' = [ver EXCEPT ![t] = NoVersion] /\ base' = [base EXCEPT ![t] = NoVersion]
    /\ todo' = [todo EXCEPT ![t] = {}] /\ rest' = [rest EXCEPT ![t] = {}]
    /\ bad' = [bad EXCEPT ![t] = FALSE] /\ work' = [work EXCEPT ![t] = Idle]

(* It fails.  If it had begun to change files they stay that way. *)
Abandon(t) ==
    /\ EndTask(t)
    /\ dirty' = (dirty \/ half) /\ UNCHANGED half

Loadable == current # NoVersion => current \in saved

(* A permit is free and a task for v (a new one, a retry, a rollback) is   *)
(* started: open the store, read the current manifest, plan.  An overlap   *)
(* counts as a failure, to bound them.                                     *)
Start(t, v) ==
    /\ ~Active(t) /\ Cardinality(Running) < Permits
    /\ IF Running # {} THEN Fault("overlap") ELSE UNCHANGED <<faults, hit>>
    /\ Loadable
    /\ Goto(t, "download")
    /\ ver' = [ver EXCEPT ![t] = v] /\ base' = [base EXCEPT ![t] = current]
    /\ todo' = [todo EXCEPT ![t] = PlannedChunks(v)]
    /\ rest' = [rest EXCEPT ![t] = DOMAIN Index(v) \cup DOMAIN Index(current)]
    /\ bad' = [bad EXCEPT ![t] = FALSE]
    /\ map' = IF map = NoVersion THEN current ELSE map
    /\ dirty' = (dirty \/ Running # {})
    /\ clash' = (clash \/ Displaced(current, v))
    /\ UNCHANGED <<diskVars, work, half, shared, cut>>

(* current.version is empty or its manifest is not whole: the task fails   *)
(* before it has changed anything.                                         *)
StartRefused(t) ==
    /\ ~Active(t) /\ Cardinality(Running) < Permits
    /\ ~Loadable
    /\ UNCHANGED vars

(* A verified chunk arrives and is written to the temporary directory. *)
DownloadChunk(t, h) ==
    /\ pc[t] = "download" /\ h \in todo[t]
    /\ temp' = temp \cup {h} /\ torn' = torn \ {h}
    /\ todo' = [todo EXCEPT ![t] = @ \ {h}]
    /\ UNCHANGED <<files, newf, saved, current, map, pc, ver, base, rest, bad,
                   work, histVars>>

(* download_missing bails out: some chunk has no source in either round. *)
DownloadFail(t) ==
    /\ pc[t] = "download" /\ todo[t] # {}
    /\ Fault("download") /\ Abandon(t)
    /\ UNCHANGED <<diskVars, map, marks>>

(* The block cannot be written, a part of it stays; the peer counts as     *)
(* failed and download_missing bails out.                                  *)
DownloadWriteFail(t, h) ==
    /\ pc[t] = "download" /\ h \in todo[t]
    /\ Fault("io") /\ Abandon(t)
    /\ temp' = temp \cup {h} /\ torn' = torn \cup {h}
    /\ UNCHANGED <<files, newf, saved, current, map, marks>>

Unmerged(t) == rest[t] \cap DOMAIN Index(ver[t])
Merging(t) == pc[t] = "download" /\ todo[t] = {} /\ Unmerged(t) # {}
Merged(t) == pc[t] = "download" /\ todo[t] = {} /\ Unmerged(t) = {}
Entry(t) == First(Unmerged(t))
NextFile(t) == rest' = [rest EXCEPT ![t] = @ \ {Entry(t)}]

MergeSkip(t) ==
    /\ Merging(t) /\ ~NeedMerge(ver[t], base[t], Entry(t))
    /\ NextFile(t)
    /\ UNCHANGED <<diskVars, map, pc, ver, base, todo, bad, work, histVars>>

(* What becomes of the handles that tasks have on the .new file and on the *)
(* real file of name n.                                                    *)
Handles(n, new, real) ==
    [u \in Task |->
        IF pc[u] # "write" \/ Entry(u) # n THEN work[u]
        ELSE [work[u] EXCEPT !.out = CASE @ = "new" -> new
                                       [] @ = "real" -> real
                                       [] OTHER -> @]]
Builds(t) == pc[t] \in {"write", "built", "removed"}

(* write_new_file begins: .new is created, or truncated. *)
MergeCreate(t) ==
    /\ Merging(t) /\ NeedMerge(ver[t], base[t], Entry(t))
    /\ newf' = Put(newf, Entry(t), <<>>)
    /\ work' = [work EXCEPT ![t] =
                    [pos |-> 0, ok |-> TRUE, out |-> "new",
                     src |-> [n \in {Entry(t)} \cap DOMAIN files \cap DOMAIN Index(base[t])
                                |-> files[n]]]]
    /\ Goto(t, "write")
    /\ shared' = (shared \/ \E u \in Task \ {t} : Builds(u) /\ Entry(u) = Entry(t))
    /\ UNCHANGED <<files, temp, torn, saved, current, map, ver, base, todo,
                   rest, bad, faults, hit, half, dirty, cut, clash>>

Content(t) == Index(ver[t])[Entry(t)]
NextChunk(t) == Content(t)[work[t].pos + 1]
NextData(t) == SourceData(base[t], Entry(t), NextChunk(t), work[t].src)
Writing(t) == pc[t] = "write" /\ work[t].pos < Len(Content(t))
Written(t) == pc[t] = "write" /\ work[t].pos = Len(Content(t))

(* One chunk is read, put into the hash, and written at the task's own     *)
(* position, wherever its handle leads by now.                             *)
MergeChunk(t) ==
    /\ Writing(t) /\ NextData(t) # ReadError
    /\ LET e == Entry(t)
           Grown(f) == Put(f, e, WriteAt(f[e], work[t].pos + 1, NextData(t)))
       IN  /\ newf' = IF work[t].out = "new" THEN Grown(newf) ELSE newf
           /\ files' = IF work[t].out = "real" THEN Grown(files) ELSE files
    /\ work' = [work EXCEPT ![t].pos = @ + 1,
                            ![t].ok = @ /\ NextData(t) = NextChunk(t)]
    /\ UNCHANGED <<temp, torn, saved, current, map, pc, ver, base, todo, rest,
                   bad, histVars>>

(* Mutant: the file hash is not compared. *)
HashMatches_Unchecked(t) == TRUE

HashMatches(t) == work[t].ok

(* The hash of what was read is that of the manifest; the file is synced   *)
(* and closed.                                                             *)
MergeBuild(t) ==
    /\ Written(t) /\ HashMatches(t)
    /\ Goto(t, "built")
    /\ work' = [work EXCEPT ![t] = Idle]
    /\ UNCHANGED <<diskVars, map, ver, base, todo, rest, bad, histVars>>

(* A chunk could not be read, the hash differs, or the disk is full: the   *)
(* .new file, whoever has created it, is removed and the loop goes on with *)
(* the next file.                                                          *)
MergeFail(t) ==
    /\ \/ /\ \/ Writing(t) /\ NextData(t) = ReadError
             \/ Written(t) /\ ~HashMatches(t)
          /\ UNCHANGED <<faults, hit>>
       \/ /\ pc[t] = "write" \/ (Merging(t) /\ NeedMerge(ver[t], base[t], Entry(t)))
          /\ Fault("io")
    /\ newf' = Drop(newf, {Entry(t)})
    /\ work' = [Handles(Entry(t), "gone", "real") EXCEPT ![t] = Idle]
    /\ bad' = [bad EXCEPT ![t] = TRUE]
    /\ Goto(t, "download") /\ NextFile(t)
    /\ UNCHANGED <<files, temp, torn, saved, current, map, ver, base, todo,
                   half, dirty, marks>>

MergeRemove(t) ==
    /\ pc[t] = "built"
    /\ files' = Drop(files, {Entry(t)})
    /\ work' = Handles(Entry(t), "new", "gone")
    /\ Goto(t, "removed") /\ half' = TRUE
    /\ UNCHANGED <<newf, temp, torn, saved, current, map, ver, base, todo, rest,
                   bad, faults, hit, dirty, marks>>

(* rename(.new, target) *)
MergeRename(t) ==
    /\ pc[t] = "removed" /\ Entry(t) \in DOMAIN newf
    /\ files' = Put(files, Entry(t), newf[Entry(t)])
    /\ newf' = Drop(newf, {Entry(t)})
    /\ work' = Handles(Entry(t), "real", "gone")
    /\ Goto(t, "download") /\ NextFile(t)
    /\ UNCHANGED <<temp, torn, saved, current, map, ver, base, todo, bad,
                   histVars>>

(* The removal or the rename fails, also because another task has taken    *)
(* the .new file away: the .new file is removed, the old one may be gone.  *)
MergeReplaceFail(t) ==
    /\ pc[t] \in {"built", "removed"}
    /\ IF pc[t] = "removed" /\ Entry(t) \notin DOMAIN newf
       THEN UNCHANGED <<faults, hit>> ELSE Fault("io")
    /\ newf' = Drop(newf, {Entry(t)})
    /\ work' = Handles(Entry(t), "gone", "real")
    /\ bad' = [bad EXCEPT ![t] = TRUE]
    /\ Goto(t, "download") /\ NextFile(t)
    /\ UNCHANGED <<files, temp, torn, saved, current, map, ver, base, todo,
                   half, dirty, marks>>

(* The end of merge_files: files only the old version has are deleted, in  *)
(* any order and whether or not every merge succeeded.                     *)
MergeDelete(t, n) ==
    /\ Merged(t) /\ n \in rest[t]
    /\ files' = Drop(files, {n})
    /\ work' = Handles(n, "new", "gone")
    /\ half' = (half \/ n \in DOMAIN files)
    /\ rest' = [rest EXCEPT ![t] = @ \ {n}]
    /\ UNCHANGED <<newf, temp, torn, saved, current, map, pc, ver, base, todo,
                   bad, faults, hit, dirty, marks>>

MergeDeleteFail(t) ==
    /\ Merged(t) /\ rest[t] \cap DOMAIN files # {}
    /\ Fault("io") /\ Abandon(t)
    /\ UNCHANGED <<diskVars, map, marks>>

(* Mutant: summary.failed is ignored. *)
MergeEnd_IgnoreFailed(t) ==
    /\ Merged(t) /\ rest[t] = {}
    /\ Goto(t, "save")
    /\ UNCHANGED <<diskVars, map, ver, base, todo, rest, bad, work, histVars>>

(* run_cafe looks at summary.failed. *)
MergeEnd(t) ==
    /\ Merged(t) /\ rest[t] = {}
    /\ IF bad[t] THEN Abandon(t)
       ELSE /\ Goto(t, "save")
            /\ UNCHANGED <<ver, base, todo, rest, bad, work, half, dirty>>
    /\ UNCHANGED <<diskVars, map, faults, hit, marks>>

(* save_manifest.  The version's manifest is truncated ...                 *)
TruncateManifest(t) ==
    /\ pc[t] = "save"
    /\ saved' = saved \ {ver[t]}
    /\ Goto(t, "saving")
    /\ UNCHANGED <<files, newf, temp, torn, current, map, ver, base, todo, rest,
                   bad, work, histVars>>

(* Mutant: the old version's manifest is written. *)
SaveManifest_Old(t) ==
    /\ pc[t] = "saving"
    /\ saved' = saved \cup {base[t]}
    /\ Goto(t, "switch")
    /\ UNCHANGED <<files, newf, temp, torn, current, map, ver, base, todo, rest,
                   bad, work, histVars>>

(* Mutant: current.version is written before the manifest. *)
SaveManifest_Last(t) ==
    /\ pc[t] = "saving"
    /\ current' = ver[t]
    /\ Goto(t, "switch")
    /\ UNCHANGED <<files, newf, temp, torn, saved, map, ver, base, todo, rest,
                   bad, work, histVars>>

(* ... and written, ...                                                    *)
SaveManifest(t) ==
    /\ pc[t] = "saving"
    /\ saved' = saved \cup {ver[t]}
    /\ Goto(t, "switch")
    /\ UNCHANGED <<files, newf, temp, torn, current, map, ver, base, todo, rest,
                   bad, work, histVars>>

(* ... then current.version is truncated ...                               *)
TruncateVersion(t) ==
    /\ pc[t] = "switch"
    /\ current' = Blank
    /\ Goto(t, "switching")
    /\ UNCHANGED <<files, newf, temp, torn, saved, map, ver, base, todo, rest,
                   bad, work, histVars>>

(* Mutant: the chunk map in memory is not replaced. *)
SwitchVersion_OldMap(t) ==
    /\ pc[t] = "switching"
    /\ current' = ver[t]
    /\ Goto(t, "report") /\ half' = FALSE
    /\ UNCHANGED <<files, newf, temp, torn, saved, map, ver, base, todo, rest,
                   bad, work, faults, hit, dirty, marks>>

(* ... and written, and the chunk map in memory is replaced.               *)
SwitchVersion(t) ==
    /\ pc[t] = "switching"
    /\ current' = ver[t] /\ map' = ver[t]
    /\ Goto(t, "report") /\ half' = FALSE
    /\ UNCHANGED <<files, newf, temp, torn, saved, ver, base, todo, rest, bad,
                   work, faults, hit, dirty, marks>>

HalfSaved(t) == pc[t] \in {"saving", "switching"}

(* Opening or writing either file fails; what was truncated stays empty. *)
SaveFail(t) ==
    /\ pc[t] \in {"save", "switch"} \/ HalfSaved(t)
    /\ Fault("io") /\ Abandon(t)
    /\ cut' = (cut \/ HalfSaved(t))
    /\ UNCHANGED <<diskVars, map, shared, clash>>

(* report_chunks; an error makes the task fail after the switch. *)
Report(t) ==
    /\ pc[t] = "report"
    /\ \/ EndTask(t) /\ UNCHANGED histVars
       \/ Fault("download") /\ Abandon(t) /\ UNCHANGED marks
    /\ UNCHANGED <<diskVars, map>>

(* run_cleaner: blocks S are older than the retention time. *)
Clean(S) ==
    /\ S # {} /\ Fault("clean")
    /\ temp' = temp \ S /\ torn' = torn \ S
    /\ UNCHANGED <<files, newf, saved, current, map, jobVars, half, dirty, marks>>

(* The agent dies; a block that was being written may be left half-written.*)
(* The tasks are lost; the chunk map is loaded again by the next task.     *)
Crash(S) ==
    /\ Fault("crash")
    /\ Cardinality(S) <= IF "tear" \in Faults THEN 1 ELSE 0
    /\ S \subseteq UNION {todo[t] : t \in {u \in Task : pc[u] = "download"}}
    /\ temp' = temp \cup S /\ torn' = torn \cup S
    /\ pc' = [t \in Task |-> "none"]
    /\ ver' = [t \in Task |-> NoVersion] /\ base' = [t \in Task |-> NoVersion]
    /\ todo' = [t \in Task |-> {}] /\ rest' = [t \in Task |-> {}]
    /\ bad' = [t \in Task |-> FALSE] /\ work' = [t \in Task |-> Idle]
    /\ map' = NoVersion
    /\ dirty' = (dirty \/ half)
    /\ cut' = (cut \/ \E t \in Task : HalfSaved(t))
    /\ UNCHANGED <<files, newf, saved, current, half, shared, clash>>
-----------------------------------------------------------------------------
Step(t) ==
    \/ \E h \in Hash : DownloadChunk(t, h) \/ DownloadWriteFail(t, h)
    \/ DownloadFail(t)
    \/ MergeSkip(t) \/ MergeCreate(t) \/ MergeChunk(t) \/ MergeBuild(t) \/ MergeFail(t)
    \/ MergeRemove(t) \/ MergeRename(t) \/ MergeReplaceFail(t)
    \/ \E n \in Name : MergeDelete(t, n)
    \/ MergeDeleteFail(t) \/ MergeEnd(t)
    \/ TruncateManifest(t) \/ SaveManifest(t)
    \/ TruncateVersion(t) \/ SwitchVersion(t) \/ SaveFail(t)
    \/ Report(t)

Next ==
    \/ \E t \in Task, v \in Targets : Start(t, v)
    \/ \E t \in Task : Step(t) \/ StartRefused(t)
    \/ \E S \in SUBSET temp : Clean(S)
    \/ \E S \in SUBSET Hash : Crash(S)

(* A task is a tokio task: unless the agent dies it runs until it returns. *)
(* A source that stalls without an error, which no time limit ends, is     *)
(* outside the model.                                                      *)
TasksRun == \A t \in Task : WF_vars(Step(t))

(* The operator issues a task for every target again and again, and a task *)
(* that waits for a permit gets one.                                       *)
OperatorRetries == \A v \in Targets : SF_vars(\E t \in Task : Start(t, v))

Spec == Init /\ [][Next]_vars /\ TasksRun
RetrySpec == Spec /\ OperatorRetries
-----------------------------------------------------------------------------
(* Type invariant. *)
TypeOK ==
    /\ DOMAIN files \subseteq Name /\ DOMAIN newf \subseteq Name
    /\ torn \subseteq temp /\ temp \subseteq Hash
    /\ saved \subseteq Version
    /\ current \in Version \cup {NoVersion, Blank}
    /\ map \in Version \cup {NoVersion}
    /\ pc \in [Task -> {"none", "download", "write", "built", "removed", "save",
                        "saving", "switch", "switching", "report"}]
    /\ ver \in [Task -> Version \cup {NoVersion}]
    /\ base \in [Task -> Version \cup {NoVersion}]
    /\ todo \in [Task -> SUBSET Hash] /\ rest \in [Task -> SUBSET Name]
    /\ bad \in [Task -> BOOLEAN]
    /\ DOMAIN work = Task
    /\ \A t \in Task : /\ DOMAIN work[t] = {"pos", "ok", "out", "src"}
                        /\ work[t].pos \in Nat /\ work[t].ok \in BOOLEAN
                        /\ work[t].out \in {"new", "real", "gone"}
                        /\ DOMAIN work[t].src \subseteq Name
    /\ faults \in 0 .. MaxFaults
    /\ {hit, half, dirty, shared, cut, clash} \subseteq BOOLEAN

Matches(v) == files = Index(v)

(* Unless two tasks were at one .new file at the same time, a real file    *)
(* never holds a mixture: whatever is on disk under a name, after crashes, *)
(* failed merges and overlaps, with half-written and cleaned blocks, is    *)
(* that file as some version defines it.                                   *)
FilesWhole ==
    ~shared => \A n \in DOMAIN files :
        \E v \in Version : n \in DOMAIN Manifest[v] /\ files[n] = Manifest[v][n]

(* Nothing but a save that stopped between truncation and write can leave  *)
(* a store that no task can open: otherwise current.version is missing or  *)
(* names a version whose manifest is whole, or a save is just going on,    *)
(* however tasks overlap and at whichever other step the agent dies.       *)
CurrentLoadable ==
    \/ Loadable
    \/ cut \/ \E t \in Task : HalfSaved(t)

(* As long as no task stopped half way and no two tasks overlapped, the    *)
(* files are those of current.version whenever no task is changing them,   *)
(* although merge_files never looks into a file whose hash did not change. *)
FilesMatchCurrent ==
    ~dirty /\ ~half /\ current \in Version => Matches(current)

(* CafeStore::read_chunk *)
Nothing == "none"
ReadChunk(h) ==
    IF h \in temp THEN ReadTemp(h)
    ELSE IF h \in Chunks(map) /\ Home(map, h) \in DOMAIN files
    THEN ReadAt(files[Home(map, h)], Position(Index(map)[Home(map, h)], h))
    ELSE Nothing

(* In the same states a peer that asks for a chunk gets it, or nothing     *)
(* (never an error, never other bytes), and nothing only for a chunk the   *)
(* loaded version does not have: those of earlier versions, which the      *)
(* scheduler goes on listing, are gone with their temporary blocks.  The   *)
(* one exception is a half-written block, which hides the real file.       *)
ReadsTruthful ==
    ~dirty /\ ~half => \A h \in Hash :
        \/ ReadChunk(h) = h
        \/ ReadChunk(h) = Nothing /\ h \notin Chunks(map)
        \/ h \in torn

Latest == CHOOSE v \in Targets : \A w \in Targets : w <= v

(* The latest version gets installed if its task is issued again whenever  *)
(* it failed (and no save stopped between truncation and write, after      *)
(* which no task starts).                                                  *)
UpdateCompletes == <>(cut \/ current = Latest)

(* It does if tasks do not overlap, nothing but downloads and reports      *)
(* fails, and no update between versions that displace a chunk was tried:  *)
(* what an earlier attempt left (temporary blocks, another version's       *)
(* files) never blocks a later one.                                        *)
UpdateCompletesUndisturbed == <>(hit \/ clash \/ current = Latest)
=============================================================================
