-------------------------- MODULE CafeUpdateProofs --------------------------
(***************************************************************************)
(* The café update for any number of tasks, versions, files and failures.  *)
(*                                                                         *)
(* CurrentLoadable is not inductive: SwitchVersion needs to know that the  *)
(* manifest of the version it switches to is whole, or being rewritten by  *)
(* another task, or was left truncated (Kept).  FilesWhole needs, chunk by *)
(* chunk, what a task has written into its .new file, and that it is alone *)
(* there (NewInv).  FilesMatchCurrent needs the progress of the merge,     *)
(* name by name, and that its task is the only one (Clear).                *)
(***************************************************************************)
EXTENDS CafeUpdate, WellFoundedInduction, TLAPS

Saving(t) == pc[t] = "saving"
Kept(v) == v \in saved \/ cut \/ \E t \in Task : Saving(t) /\ ver[t] = v
Switches(t) == pc[t] \in {"switch", "switching"}
SwitchReady == \A t \in Task : Switches(t) => Kept(ver[t])
CurrentKept ==
    \/ current = NoVersion
    \/ current = Blank /\ (cut \/ \E t \in Task : pc[t] = "switching")
    \/ Kept(current)
LoadInv == DOMAIN pc = Task /\ DOMAIN ver = Task /\ SwitchReady /\ CurrentKept

(* Nobody enters or leaves save_manifest, except by stopping in it. *)
SavesStay == \A t \in Task :
    /\ Switches(t)' => Switches(t) /\ ver'[t] = ver[t]
    /\ HalfSaved(t) => cut' \/ (pc'[t] = pc[t] /\ ver'[t] = ver[t])

LEMMA StayLoadable ==
    ASSUME LoadInv, UNCHANGED <<current, saved>>, cut => cut',
           DOMAIN pc' = Task, DOMAIN ver' = Task, SavesStay
    PROVE  LoadInv'
<1>1. ASSUME NEW v, Kept(v) PROVE Kept(v)'
  BY <1>1 DEF Kept, SavesStay, HalfSaved, Saving
<1>2. SwitchReady'
  BY <1>1 DEF LoadInv, SwitchReady, SavesStay
<1>3. CurrentKept'
  <2>1. CASE current = Blank /\ (cut \/ \E t \in Task : pc[t] = "switching")
    BY <2>1 DEF CurrentKept, SavesStay, HalfSaved
  <2> QED BY <1>1, <2>1 DEF LoadInv, CurrentKept
<1> QED BY <1>2, <1>3 DEF LoadInv

LEMMA EndTaskLoadable ==
    ASSUME LoadInv, UNCHANGED <<current, saved>>, cut => cut',
           NEW t \in Task, EndTask(t), HalfSaved(t) => cut'
    PROVE  LoadInv'
<1>1. DOMAIN pc' = Task /\ DOMAIN ver' = Task /\ SavesStay
  BY DEF LoadInv, EndTask, Goto, SavesStay, Switches, HalfSaved
<1> QED BY <1>1, StayLoadable

LEMMA AbandonLoadable ==
    ASSUME LoadInv, UNCHANGED <<current, saved>>, cut => cut', NEW t \in Task,
           Abandon(t), HalfSaved(t) => cut'
    PROVE  LoadInv'
  BY EndTaskLoadable DEF Abandon

LEMMA MoveLoadable ==
    ASSUME LoadInv, UNCHANGED <<current, saved, ver, cut>>, NEW t \in Task,
           NEW s, s \notin {"switch", "switching"},
           pc' = [pc EXCEPT ![t] = s], ~ HalfSaved(t)
    PROVE  LoadInv'
<1>1. DOMAIN pc' = Task /\ DOMAIN ver' = Task /\ SavesStay
  BY DEF LoadInv, SavesStay, Switches, HalfSaved
<1> QED BY <1>1, StayLoadable

LEMMA SameLoadable ==
    ASSUME LoadInv, UNCHANGED <<current, saved, ver, cut, pc>>
    PROVE  LoadInv'
<1>1. DOMAIN pc' = Task /\ DOMAIN ver' = Task /\ SavesStay
  BY DEF LoadInv, SavesStay, Switches, HalfSaved
<1> QED BY <1>1, StayLoadable

LEMMA StartLoadable ==
    ASSUME LoadInv, NEW t \in Task, NEW v \in Targets, Start(t, v)
    PROVE  LoadInv'
<1>1. /\ pc' = [pc EXCEPT ![t] = "download"] /\ ver' = [ver EXCEPT ![t] = v]
      /\ pc[t] = "none" /\ UNCHANGED <<current, saved, cut>>
  BY DEF Start, Goto, diskVars, Active
<1>2. DOMAIN pc' = Task /\ DOMAIN ver' = Task /\ SavesStay
  BY <1>1 DEF LoadInv, SavesStay, Switches, HalfSaved
<1> QED BY <1>1, <1>2, StayLoadable

(* save_manifest, step by step. *)
LEMMA SaveLoadable ==
    ASSUME LoadInv, NEW t \in Task,
           TruncateManifest(t) \/ SaveManifest(t) \/ TruncateVersion(t) \/ SwitchVersion(t)
    PROVE  LoadInv'
<1>0. DOMAIN pc = Task /\ DOMAIN ver = Task /\ UNCHANGED <<ver, cut>>
  BY DEF LoadInv, TruncateManifest, SaveManifest, TruncateVersion, SwitchVersion, histVars, marks
<1>1. CASE TruncateManifest(t)
  <2>1. /\ pc[t] = "save" /\ pc' = [pc EXCEPT ![t] = "saving"]
        /\ saved' = saved \ {ver[t]} /\ current' = current
    BY <1>1 DEF TruncateManifest, Goto
  <2>2. pc'[t] = "saving" /\ \A u \in Task : u # t => pc'[u] = pc[u]
    BY <1>0, <2>1
  <2>3. ASSUME NEW v, Kept(v) PROVE Kept(v)'
    BY <1>0, <2>1, <2>2, <2>3 DEF Kept, Saving
  <2>4. SwitchReady'
    BY <1>0, <2>2, <2>3 DEF LoadInv, SwitchReady, Switches
  <2>5. CurrentKept'
    BY <1>0, <2>1, <2>2, <2>3 DEF LoadInv, CurrentKept
  <2> QED BY <1>0, <2>1, <2>4, <2>5 DEF LoadInv
<1>2. CASE SaveManifest(t)
  <2>1. /\ pc[t] = "saving" /\ pc' = [pc EXCEPT ![t] = "switch"]
        /\ saved' = saved \cup {ver[t]} /\ current' = current
    BY <1>2 DEF SaveManifest, Goto
  <2>2. pc'[t] = "switch" /\ \A u \in Task : u # t => pc'[u] = pc[u]
    BY <1>0, <2>1
  <2>3. ASSUME NEW v, Kept(v) PROVE Kept(v)'
    BY <1>0, <2>1, <2>2, <2>3 DEF Kept, Saving
  <2>4. SwitchReady'
    <3>1. Kept(ver[t])'
      BY <1>0, <2>1 DEF Kept
    <3> QED BY <1>0, <2>2, <2>3, <3>1 DEF LoadInv, SwitchReady, Switches
  <2>5. CurrentKept'
    BY <1>0, <2>1, <2>2, <2>3 DEF LoadInv, CurrentKept
  <2> QED BY <1>0, <2>1, <2>4, <2>5 DEF LoadInv
<1>3. CASE TruncateVersion(t)
  <2>1. /\ pc[t] = "switch" /\ pc' = [pc EXCEPT ![t] = "switching"]
        /\ saved' = saved /\ current' = Blank
    BY <1>3 DEF TruncateVersion, Goto
  <2>2. pc'[t] = "switching" /\ \A u \in Task : u # t => pc'[u] = pc[u]
    BY <1>0, <2>1
  <2>3. ASSUME NEW v, Kept(v) PROVE Kept(v)'
    BY <1>0, <2>1, <2>2, <2>3 DEF Kept, Saving
  <2>4. SwitchReady'
    BY <1>0, <2>1, <2>2, <2>3 DEF LoadInv, SwitchReady, Switches
  <2>5. CurrentKept'
    BY <2>1, <2>2 DEF CurrentKept
  <2> QED BY <1>0, <2>1, <2>4, <2>5 DEF LoadInv
<1>4. CASE SwitchVersion(t)
  <2>1. /\ pc[t] = "switching" /\ pc' = [pc EXCEPT ![t] = "report"]
        /\ saved' = saved /\ current' = ver[t]
    BY <1>4 DEF SwitchVersion, Goto
  <2>2. pc'[t] = "report" /\ \A u \in Task : u # t => pc'[u] = pc[u]
    BY <1>0, <2>1
  <2>3. ASSUME NEW v, Kept(v) PROVE Kept(v)'
    BY <1>0, <2>1, <2>2, <2>3 DEF Kept, Saving
  <2>4. SwitchReady'
    BY <1>0, <2>2, <2>3 DEF LoadInv, SwitchReady, Switches
  <2>5. CurrentKept'
    BY <1>0, <2>1, <2>3 DEF LoadInv, SwitchReady, Switches, CurrentKept
  <2> QED BY <1>0, <2>1, <2>4, <2>5 DEF LoadInv
<1> QED BY <1>1, <1>2, <1>3, <1>4

LEMMA StepLoadable ==
    ASSUME LoadInv, [Next]_vars
    PROVE  LoadInv'
<1>1. ASSUME UNCHANGED vars \/ \E t \in Task : StartRefused(t) PROVE LoadInv'
  BY <1>1, SameLoadable DEF vars, StartRefused
<1>2. ASSUME NEW t \in Task, NEW v \in Targets, Start(t, v) PROVE LoadInv'
  BY <1>2, StartLoadable
<1>3. ASSUME NEW t \in Task, Step(t) PROVE LoadInv'
  <2>1. ASSUME NEW h \in Hash, DownloadChunk(t, h) PROVE LoadInv'
    BY <2>1, SameLoadable DEF DownloadChunk, histVars, marks
  <2>2. ASSUME NEW h \in Hash, DownloadWriteFail(t, h) PROVE LoadInv'
    BY <2>2, AbandonLoadable DEF DownloadWriteFail, HalfSaved, marks
  <2>3. CASE DownloadFail(t)
    BY <2>3, AbandonLoadable DEF DownloadFail, diskVars, HalfSaved, marks
  <2>4. ASSUME MergeSkip(t) \/ MergeChunk(t) \/ \E n \in Name : MergeDelete(t, n) PROVE LoadInv'
    BY <2>4, SameLoadable DEF MergeSkip, MergeChunk, MergeDelete, diskVars, histVars, marks
  <2>5. ASSUME MergeCreate(t) \/ MergeBuild(t) \/ MergeRemove(t) PROVE LoadInv'
    <3>1. /\ UNCHANGED <<current, saved, ver, cut>> /\ ~ HalfSaved(t)
          /\ \E s \in {"write", "built", "removed"} : pc' = [pc EXCEPT ![t] = s]
      BY <2>5 DEF MergeCreate, MergeBuild, MergeRemove, Merging, Written, HalfSaved, Goto,
         diskVars, histVars, marks
    <3> QED BY <3>1, MoveLoadable
  <2>6. ASSUME MergeRename(t) \/ MergeReplaceFail(t) PROVE LoadInv'
    <3>1. /\ UNCHANGED <<current, saved, ver, cut>> /\ ~ HalfSaved(t)
          /\ pc' = [pc EXCEPT ![t] = "download"]
      BY <2>6 DEF MergeRename, MergeReplaceFail, HalfSaved, Goto, histVars, marks
    <3> QED BY <3>1, MoveLoadable
  <2>7. CASE MergeFail(t)
    <3>1. /\ UNCHANGED <<current, saved, ver, cut>> /\ ~ HalfSaved(t)
          /\ pc' = [pc EXCEPT ![t] = "download"]
      BY <2>7 DEF MergeFail, Merging, Writing, Written, HalfSaved, Goto, marks
    <3> QED BY <3>1, MoveLoadable
  <2>11. CASE MergeDeleteFail(t)
    BY <2>11, AbandonLoadable DEF MergeDeleteFail, Merged, diskVars, HalfSaved, marks
  <2>12. CASE MergeEnd(t)
    <3>1. CASE bad[t]
      BY <2>12, <3>1, AbandonLoadable DEF MergeEnd, Merged, diskVars, HalfSaved, marks
    <3>2. CASE ~bad[t]
      <4>1. /\ UNCHANGED <<current, saved, ver, cut>> /\ ~ HalfSaved(t)
            /\ pc' = [pc EXCEPT ![t] = "save"]
        BY <2>12, <3>2 DEF MergeEnd, Merged, HalfSaved, Goto, diskVars, marks
      <4> QED BY <4>1, MoveLoadable
    <3> QED BY <3>1, <3>2
  <2>15. CASE SaveFail(t)
    BY <2>15, AbandonLoadable DEF SaveFail, diskVars
  <2>16. CASE Report(t)
    BY <2>16, EndTaskLoadable, AbandonLoadable DEF Report, diskVars, HalfSaved, histVars, marks
  <2> QED
    BY <1>3, <2>1, <2>2, <2>3, <2>4, <2>5, <2>6, <2>7, <2>11, <2>12, <2>15, <2>16,
       SaveLoadable DEF Step
<1>4. ASSUME NEW S \in SUBSET temp, Clean(S) PROVE LoadInv'
  BY <1>4, SameLoadable DEF Clean, jobVars, marks
<1>5. ASSUME NEW S \in SUBSET Hash, Crash(S) PROVE LoadInv'
  <2>1. DOMAIN pc' = Task /\ DOMAIN ver' = Task /\ SavesStay
    BY <1>5 DEF Crash, SavesStay, Switches, HalfSaved
  <2> QED BY <1>5, <2>1, StayLoadable DEF Crash
<1> QED
  BY <1>1, <1>2, <1>3, <1>4, <1>5 DEF Next

(* CafeStore::open and run_cafe: however tasks overlap and wherever the    *)
(* agent dies, current.version is missing or names a version whose         *)
(* manifest is whole, unless a save is going on or was interrupted         *)
(* between the truncation of one of its two files and the write.           *)
THEOREM CurrentAlwaysLoadable == Spec => []CurrentLoadable
<1>1. Init => LoadInv
  BY DEF Init, LoadInv, SwitchReady, Switches, CurrentKept
<1>2. LoadInv /\ [Next]_vars => LoadInv'
  BY StepLoadable
<1>3. LoadInv => CurrentLoadable
  BY DEF LoadInv, CurrentKept, Kept, Saving, HalfSaved, CurrentLoadable, Loadable
<1> QED
  BY <1>1, <1>2, <1>3, PTL DEF Spec

-----------------------------------------------------------------------------
(***************************************************************************)
(* The files.  As long as no two tasks are at one .new file, what a task   *)
(* has written there is the beginning of the file it builds if the hash is *)
(* right so far (Copy), and all of it once the hash was compared (Ready).  *)
(***************************************************************************)
Whole(f) == \A n \in DOMAIN f :
    \E v \in Version : n \in DOMAIN Manifest[v] /\ f[n] = Manifest[v][n]
Asked == \A t \in Task : Active(t) => ver[t] \in Version
AtFile == \A t \in Task : Builds(t) => Unmerged(t) # {}
Prefix(t) == [i \in 1 .. work[t].pos |-> Content(t)[i]]
Copy(t) == pc[t] = "write" =>
    /\ work[t].out = "new" => /\ Entry(t) \in DOMAIN newf
                              /\ work[t].ok => newf[Entry(t)] = Prefix(t)
    /\ work[t].out # "new" => work[t].out = "gone" /\ Entry(t) \notin DOMAIN newf
Ready(t) == pc[t] \in {"built", "removed"} /\ Entry(t) \in DOMAIN newf =>
    newf[Entry(t)] = Content(t)
Apart == \A t, u \in Task : t # u /\ Builds(t) /\ Builds(u) => Entry(t) # Entry(u)
NewInv == Whole(files) /\ Apart /\ \A t \in Task : Copy(t) /\ Ready(t)
WholeInv == TypeOK /\ Asked /\ AtFile /\ (~ shared => NewInv)

(***************************************************************************)
(* One task at a time.  While nothing is dirty, a task that changes files  *)
(* is the only one, and each name is as the old version has it until the   *)
(* task has handled it and as the new version has it afterwards.           *)
(***************************************************************************)
Same(n, v) == /\ n \in DOMAIN files <=> n \in DOMAIN Index(v)
              /\ n \in DOMAIN files => files[n] = Index(v)[n]
Merges(t) == pc[t] = "download" \/ Builds(t)
Saves(t) == pc[t] \in {"save", "saving", "switch", "switching"}
Progress(t) == Merges(t) => \A n \in Name :
    /\ n \in rest[t] /\ ~ (pc[t] = "removed" /\ n = Entry(t)) => Same(n, base[t])
    /\ n \notin rest[t] /\ ~ bad[t] => Same(n, ver[t])
Phase(t) == /\ Saves(t) => Matches(ver[t])
            /\ pc[t] = "removed" => half
            /\ pc[t] = "report" => ~ half
Good(t) == Progress(t) /\ Phase(t)
Single == \A t, u \in Task : Active(t) /\ Active(u) => t = u
Changing == half => \E t \in Task : Active(t)
InStep == ~ half => /\ current # Blank => Matches(current)
                    /\ map # NoVersion => Matches(map)
Clear == Single /\ Changing /\ InStep /\ ~ shared /\ \A t \in Task : Good(t)
IsFun == files = [n \in DOMAIN files |-> files[n]]
MatchInv == IsFun /\ (~ dirty => Clear)

-----------------------------------------------------------------------------
LEMMA Smallest ==
    ASSUME NEW S \in SUBSET Nat, S # {}
    PROVE  \E n \in S : \A m \in S : n <= m
<1>1. PICK n \in S : \A m \in S : ~ (<<m, n>> \in OpToRel(<, Nat))
  BY WFMin, NatLessThanWellFounded, Zenon
<1>2. ASSUME NEW m \in S PROVE n <= m
  <2>1. ~ (m < n)
    BY <1>1 DEF OpToRel
  <2> QED BY <2>1
<1> QED BY <1>2

(* The manifest order is a well-order. *)
LEMMA FirstIn ==
    ASSUME NEW S \in SUBSET Name, S # {}
    PROVE  First(S) \in S
<1>1. \E n \in S : \A m \in S : n <= m
  BY Smallest, NameAssumption
<1> QED BY <1>1 DEF First

LEMMA PositionIn ==
    ASSUME NEW s \in Seq(Hash), NEW h \in Range(s)
    PROVE  Position(s, h) \in DOMAIN s /\ s[Position(s, h)] = h
<1> DEFINE P == {p \in DOMAIN s : s[p] = h}
<1>1. P # {} /\ P \in SUBSET Nat
  BY DEF Range
<1>2. PICK p \in P : \A q \in P : p <= q
  BY <1>1, Smallest
<1>3. \A q \in 1 .. p - 1 : s[q] # h
  <2> SUFFICES ASSUME NEW q \in 1 .. p - 1, s[q] = h PROVE FALSE
    OBVIOUS
  <2>1. DOMAIN s = 1 .. Len(s) /\ Len(s) \in Nat /\ p \in 1 .. Len(s)
    OBVIOUS
  <2>2. q \in P /\ ~ (p <= q)
    BY <2>1
  <2> QED BY <1>2, <2>2
<1> QED BY <1>2, <1>3 DEF Position

LEMMA IndexTypes ==
    ASSUME NEW v
    PROVE  /\ DOMAIN Index(v) \subseteq Name
           /\ Index(v) \in [DOMAIN Index(v) -> Seq(Hash)]
           /\ Chunks(v) \subseteq Hash
           /\ DOMAIN Index(v) # {} => v \in Version /\ Index(v) = Manifest[v]
<1>1. CASE v \notin Version
  <2>1. DOMAIN Index(v) = {} /\ Index(v) \in [{} -> Seq(Hash)]
    BY <1>1 DEF Index, NoFile
  <2> QED BY <2>1 DEF Chunks
<1>2. CASE v \in Version
  <2>1. Index(v) = Manifest[v]
    BY <1>2 DEF Index
  <2>2. /\ DOMAIN Index(v) \subseteq Name /\ Index(v) \in [DOMAIN Index(v) -> Seq(Hash)]
    BY <1>2, <2>1, ManifestAssumption
  <2>3. ASSUME NEW n \in DOMAIN Index(v) PROVE Range(Index(v)[n]) \subseteq Hash
    <3>1. Index(v)[n] \in Seq(Hash)
      BY <2>2
    <3> QED BY <3>1 DEF Range
  <2> QED BY <1>2, <2>1, <2>2, <2>3 DEF Chunks
<1> QED BY <1>1, <1>2

DiskTyped == /\ DOMAIN files \subseteq Name /\ DOMAIN newf \subseteq Name
             /\ torn \subseteq temp /\ temp \subseteq Hash
             /\ saved \subseteq Version
             /\ current \in Version \cup {NoVersion, Blank} /\ map \in Version \cup {NoVersion}
Steps == {"none", "download", "write", "built", "removed", "save",
          "saving", "switch", "switching", "report"}
JobTyped == /\ pc \in [Task -> Steps]
            /\ ver \in [Task -> Version \cup {NoVersion}]
            /\ base \in [Task -> Version \cup {NoVersion}]
            /\ todo \in [Task -> SUBSET Hash] /\ rest \in [Task -> SUBSET Name]
            /\ bad \in [Task -> BOOLEAN]
WorkOf(w) == /\ DOMAIN w = {"pos", "ok", "out", "src"}
             /\ w.pos \in Nat /\ w.ok \in BOOLEAN
             /\ w.out \in {"new", "real", "gone"}
             /\ DOMAIN w.src \subseteq Name
WorkTyped == DOMAIN work = Task /\ \A t \in Task : WorkOf(work[t])
HistTyped == faults \in 0 .. MaxFaults /\ {hit, half, dirty, shared, cut, clash} \subseteq BOOLEAN
Typed == DiskTyped /\ JobTyped /\ WorkTyped /\ HistTyped

LEMMA TypeParts == TypeOK <=> Typed
BY DEF TypeOK, Typed, DiskTyped, JobTyped, WorkTyped, WorkOf, HistTyped, Steps

LEMMA EntryIn ==
    ASSUME JobTyped, NEW t \in Task, Unmerged(t) # {}
    PROVE  /\ Entry(t) \in rest[t] /\ Entry(t) \in Name
           /\ Entry(t) \in DOMAIN Index(ver[t])
           /\ ver[t] \in Version /\ Index(ver[t]) = Manifest[ver[t]]
<1>1. ver[t] \in Version \cup {NoVersion} /\ rest[t] \in SUBSET Name
  BY DEF JobTyped
<1>2. Entry(t) \in Unmerged(t)
  BY <1>1, FirstIn DEF Unmerged, Entry
<1>3. Entry(t) \in rest[t] /\ Entry(t) \in DOMAIN Index(ver[t])
  BY <1>2 DEF Unmerged
<1> QED BY <1>1, <1>3, IndexTypes

LEMMA IdleTyped == WorkOf(Idle)
BY DEF WorkOf, Idle, NoFile

LEMMA HandlesTyped ==
    ASSUME WorkTyped, NEW n, NEW a \in {"new", "real", "gone"}, NEW b \in {"new", "real", "gone"},
           NEW t \in Task
    PROVE  /\ work' = Handles(n, a, b) => WorkTyped'
           /\ work' = [Handles(n, a, b) EXCEPT ![t] = Idle] => WorkTyped'
<1>1. DOMAIN Handles(n, a, b) = Task
  BY DEF Handles
<1>2. ASSUME NEW u \in Task PROVE WorkOf(Handles(n, a, b)[u])
  <2>1. WorkOf(work[u])
    BY DEF WorkTyped
  <2>2. CASE pc[u] # "write" \/ Entry(u) # n
    BY <2>1, <2>2 DEF Handles
  <2>3. CASE ~ (pc[u] # "write" \/ Entry(u) # n)
    <3>1. Handles(n, a, b)[u] = [work[u] EXCEPT !.out = CASE work[u].out = "new" -> a
                                   [] work[u].out = "real" -> b [] OTHER -> work[u].out]
      BY <2>3 DEF Handles
    <3> QED BY <2>1, <3>1 DEF WorkOf
  <2> QED BY <2>2, <2>3
<1> QED BY <1>1, <1>2, IdleTyped DEF WorkTyped

LEMMA EndTaskTyped ==
    ASSUME JobTyped, WorkTyped, NEW t \in Task, EndTask(t)
    PROVE  JobTyped' /\ WorkTyped'
<1>1. pc' \in [Task -> Steps]
  BY DEF EndTask, Goto, JobTyped, Steps
<1>2. ver' \in [Task -> Version \cup {NoVersion}] /\ base' \in [Task -> Version \cup {NoVersion}]
  BY DEF EndTask, JobTyped
<1>3. todo' \in [Task -> SUBSET Hash] /\ rest' \in [Task -> SUBSET Name]
      /\ bad' \in [Task -> BOOLEAN]
  BY DEF EndTask, JobTyped
<1>4. WorkTyped'
  BY IdleTyped DEF EndTask, WorkTyped
<1> QED BY <1>1, <1>2, <1>3, <1>4 DEF JobTyped

LEMMA FaultTyped ==
    ASSUME HistTyped, NEW k, Fault(k)
    PROVE  faults' \in 0 .. MaxFaults /\ hit' \in BOOLEAN
BY BoundsAssumption DEF HistTyped, Fault

LEMMA FailTyped ==
    ASSUME JobTyped, WorkTyped, HistTyped, NEW t \in Task, NEW k, Fault(k), Abandon(t),
           {shared', cut', clash'} \subseteq BOOLEAN
    PROVE  JobTyped' /\ WorkTyped' /\ HistTyped'
<1>1. JobTyped' /\ WorkTyped'
  BY EndTaskTyped DEF Abandon
<1>2. dirty' \in BOOLEAN /\ half' \in BOOLEAN
  BY DEF Abandon, HistTyped
<1> QED BY <1>1, <1>2, FaultTyped DEF HistTyped

LEMMA PlannedTyped ==
    ASSUME NEW v PROVE PlannedChunks(v) \subseteq Hash
<1>1. Chunks(v) \subseteq Hash
  BY IndexTypes
<1>2. UNION {Range(Index(v)[n]) : n \in DOMAIN Index(v) \ DOMAIN files} \subseteq Chunks(v)
  BY DEF Chunks
<1> QED BY <1>1, <1>2 DEF PlannedChunks

LEMMA NextFileTyped ==
    ASSUME JobTyped, NEW t \in Task, NextFile(t)
    PROVE  rest' \in [Task -> SUBSET Name]
BY DEF NextFile, JobTyped

LEMMA GotoTyped ==
    ASSUME JobTyped, NEW t \in Task, NEW s \in Steps, Goto(t, s), UNCHANGED <<ver, base, todo>>,
           rest' \in [Task -> SUBSET Name], bad' \in [Task -> BOOLEAN]
    PROVE  JobTyped'
BY DEF Goto, JobTyped, Steps

LEMMA CafeTypeStep ==
    ASSUME TypeOK, Asked, AtFile, [Next]_vars
    PROVE  TypeOK'
<1>0. Typed
  BY TypeParts
<1>00. DiskTyped /\ JobTyped /\ WorkTyped /\ HistTyped
  BY <1>0 DEF Typed
<1> SUFFICES Typed'
  BY TypeParts DEF TypeOK, Typed, DiskTyped, JobTyped, WorkTyped, WorkOf, HistTyped, Steps
<1>1. ASSUME UNCHANGED vars PROVE Typed'
  <2>1. UNCHANGED <<files, newf, temp, torn, saved, current, map>> /\ UNCHANGED work
        /\ UNCHANGED <<pc, ver, base, todo, rest, bad>>
        /\ UNCHANGED <<faults, hit, half, dirty, shared, cut, clash>>
    BY <1>1 DEF vars
  <2> QED BY <1>00, <2>1 DEF Typed, DiskTyped, JobTyped, WorkTyped, HistTyped
<1>2. ASSUME NEW t \in Task, NEW v \in Targets, Start(t, v) PROVE Typed'
  <2>1. v \in Version /\ PlannedChunks(v) \subseteq Hash
    BY VersionAssumption, PlannedTyped
  <2>2. DOMAIN Index(v) \cup DOMAIN Index(current) \subseteq Name
    BY IndexTypes
  <2>3. current \in Version \cup {NoVersion}
    BY <1>00, <1>2 DEF Start, Loadable, DiskTyped
  <2>4. DiskTyped' /\ WorkTyped'
    BY <1>00, <1>2, <2>3 DEF Start, diskVars, DiskTyped, WorkTyped
  <2>5. faults' \in 0 .. MaxFaults /\ hit' \in BOOLEAN
    <3>1. Fault("overlap") \/ UNCHANGED <<faults, hit>>
      BY <1>2 DEF Start
    <3> QED BY <1>00, <3>1, FaultTyped DEF HistTyped
  <2>6. HistTyped'
    BY <1>00, <1>2, <2>5 DEF Start, HistTyped
  <2>7. JobTyped'
    BY <1>00, <1>2, <2>1, <2>2, <2>3 DEF Start, Goto, JobTyped, Steps
  <2> QED BY <2>4, <2>6, <2>7 DEF Typed
<1>3. ASSUME NEW t \in Task, Step(t) PROVE Typed'
  <2> USE <1>00
  <2>1. ASSUME NEW h \in Hash, DownloadChunk(t, h) PROVE Typed'
    BY <2>1 DEF DownloadChunk, histVars, marks, Typed, DiskTyped, JobTyped, WorkTyped, HistTyped
  <2>2. ASSUME NEW h \in Hash, DownloadWriteFail(t, h) PROVE Typed'
    <3>1. DiskTyped'
      BY <2>2 DEF DownloadWriteFail, DiskTyped
    <3>2. {shared', cut', clash'} \subseteq BOOLEAN
      BY <2>2 DEF DownloadWriteFail, marks, HistTyped
    <3> QED BY <2>2, <3>1, <3>2, FailTyped DEF DownloadWriteFail, Typed
  <2>3. ASSUME DownloadFail(t) \/ MergeDeleteFail(t) PROVE Typed'
    <3>1. DiskTyped' /\ {shared', cut', clash'} \subseteq BOOLEAN
      BY <2>3 DEF DownloadFail, MergeDeleteFail, diskVars, marks, DiskTyped, HistTyped
    <3>2. Abandon(t) /\ \E k : Fault(k)
      BY <2>3 DEF DownloadFail, MergeDeleteFail
    <3> QED BY <3>1, <3>2, FailTyped DEF Typed
  <2>4. CASE MergeSkip(t)
    BY <2>4, NextFileTyped DEF MergeSkip, diskVars, histVars, marks, Typed, DiskTyped, JobTyped,
       WorkTyped, HistTyped
  <2>5. CASE MergeCreate(t)
    <3>1. Entry(t) \in Name
      BY <2>5, EntryIn DEF MergeCreate, Merging
    <3>2. DOMAIN newf' \subseteq Name
      BY <2>5, <3>1 DEF MergeCreate, Put, DiskTyped
    <3>3. DiskTyped'
      BY <2>5, <3>2 DEF MergeCreate, DiskTyped
    <3>4. JobTyped'
      BY <2>5, GotoTyped DEF MergeCreate, Steps, JobTyped
    <3>5. HistTyped'
      BY <2>5 DEF MergeCreate, HistTyped
    <3>6. WorkTyped'
      <4> DEFINE w == [pos |-> 0, ok |-> TRUE, out |-> "new",
                       src |-> [n \in {Entry(t)} \cap DOMAIN files \cap DOMAIN Index(base[t])
                                  |-> files[n]]]
      <4>1. WorkOf(w)
        BY <3>1 DEF WorkOf
      <4>2. work' = [work EXCEPT ![t] = w]
        BY <2>5 DEF MergeCreate
      <4> HIDE DEF w
      <4> QED BY <4>1, <4>2 DEF WorkTyped
    <3> QED BY <3>3, <3>4, <3>5, <3>6 DEF Typed
  <2>6. CASE MergeChunk(t)
    <3>1. Entry(t) \in Name
      BY <2>6, EntryIn DEF MergeChunk, Writing, AtFile, Builds
    <3>2. DOMAIN newf' \subseteq Name /\ DOMAIN files' \subseteq Name
      BY <2>6, <3>1 DEF MergeChunk, Put, DiskTyped
    <3>3. DiskTyped' /\ JobTyped' /\ HistTyped'
      BY <2>6, <3>2 DEF MergeChunk, histVars, marks, DiskTyped, JobTyped, HistTyped
    <3>4. WorkTyped'
      BY <2>6 DEF MergeChunk, WorkTyped, WorkOf
    <3> QED BY <3>3, <3>4 DEF Typed
  <2>7. CASE MergeBuild(t)
    <3>1. DiskTyped' /\ HistTyped'
      BY <2>7 DEF MergeBuild, diskVars, histVars, marks, DiskTyped, HistTyped
    <3>2. JobTyped'
      BY <2>7, GotoTyped DEF MergeBuild, Steps, JobTyped
    <3>3. WorkTyped'
      BY <2>7, IdleTyped DEF MergeBuild, WorkTyped
    <3> QED BY <3>1, <3>2, <3>3 DEF Typed
  <2>8. ASSUME MergeFail(t) \/ MergeReplaceFail(t) PROVE Typed'
    <3>1. /\ newf' = Drop(newf, {Entry(t)}) /\ bad' = [bad EXCEPT ![t] = TRUE]
          /\ Goto(t, "download") /\ NextFile(t)
          /\ UNCHANGED <<files, temp, torn, saved, current, map, ver, base, todo, half, dirty,
                         shared, cut, clash>>
      BY <2>8 DEF MergeFail, MergeReplaceFail, marks
    <3>2. DiskTyped'
      BY <3>1 DEF Drop, DiskTyped
    <3>3. JobTyped'
      BY <3>1, NextFileTyped, GotoTyped DEF Steps, JobTyped
    <3>4. WorkTyped'
      BY <2>8, HandlesTyped DEF MergeFail, MergeReplaceFail
    <3>5. (\E k : Fault(k)) \/ UNCHANGED <<faults, hit>>
      BY <2>8 DEF MergeFail, MergeReplaceFail
    <3>6. HistTyped'
      BY <3>1, <3>5, FaultTyped DEF HistTyped
    <3> QED BY <3>2, <3>3, <3>4, <3>6 DEF Typed
  <2>9. CASE MergeRemove(t)
    <3>1. DiskTyped'
      BY <2>9 DEF MergeRemove, Drop, DiskTyped
    <3>2. JobTyped'
      BY <2>9, GotoTyped DEF MergeRemove, Steps, JobTyped
    <3>3. WorkTyped'
      BY <2>9, HandlesTyped DEF MergeRemove
    <3> QED BY <2>9, <3>1, <3>2, <3>3 DEF MergeRemove, marks, HistTyped, Typed
  <2>10. CASE MergeRename(t)
    <3>1. DiskTyped'
      BY <2>10 DEF MergeRename, Drop, Put, DiskTyped
    <3>2. JobTyped'
      BY <2>10, NextFileTyped, GotoTyped DEF MergeRename, Steps, JobTyped
    <3>3. WorkTyped'
      BY <2>10, HandlesTyped DEF MergeRename
    <3> QED BY <2>10, <3>1, <3>2, <3>3 DEF MergeRename, histVars, marks, HistTyped, Typed
  <2>11. ASSUME NEW n \in Name, MergeDelete(t, n) PROVE Typed'
    <3>1. DiskTyped'
      BY <2>11 DEF MergeDelete, Drop, DiskTyped
    <3>2. JobTyped'
      BY <2>11 DEF MergeDelete, JobTyped
    <3>3. WorkTyped'
      BY <2>11, HandlesTyped DEF MergeDelete
    <3> QED BY <2>11, <3>1, <3>2, <3>3 DEF MergeDelete, marks, HistTyped, Typed
  <2>12. CASE MergeEnd(t)
    <3>1. DiskTyped'
      BY <2>12 DEF MergeEnd, diskVars, DiskTyped
    <3>2. CASE bad[t]
      <4>1. JobTyped' /\ WorkTyped'
        BY <2>12, <3>2, EndTaskTyped DEF MergeEnd, Abandon
      <4> QED BY <2>12, <3>1, <3>2, <4>1 DEF MergeEnd, Abandon, marks, HistTyped, Typed
    <3>3. CASE ~ bad[t]
      <4>1. JobTyped'
        BY <2>12, <3>3, GotoTyped DEF MergeEnd, Steps, JobTyped
      <4> QED BY <2>12, <3>1, <3>3, <4>1 DEF MergeEnd, marks, HistTyped, WorkTyped, Typed
    <3> QED BY <3>2, <3>3
  <2>13. ASSUME TruncateManifest(t) \/ SaveManifest(t) \/ TruncateVersion(t) \/ SwitchVersion(t)
         PROVE  Typed'
    <3>1. ver[t] \in Version
      BY <2>13 DEF TruncateManifest, SaveManifest, TruncateVersion, SwitchVersion, Asked, Active
    <3>2. DiskTyped' /\ WorkTyped' /\ HistTyped'
      BY <2>13, <3>1 DEF TruncateManifest, SaveManifest, TruncateVersion, SwitchVersion, histVars,
         marks, DiskTyped, WorkTyped, HistTyped
    <3>3. JobTyped'
      <4>1. /\ UNCHANGED <<ver, base, todo, rest, bad>>
            /\ \E s \in {"saving", "switch", "switching", "report"} : Goto(t, s)
        BY <2>13 DEF TruncateManifest, SaveManifest, TruncateVersion, SwitchVersion
      <4> QED BY <4>1, GotoTyped DEF Steps, JobTyped
    <3> QED BY <3>2, <3>3 DEF Typed
  <2>15. CASE SaveFail(t)
    <3>1. DiskTyped' /\ {shared', cut', clash'} \subseteq BOOLEAN
      BY <2>15 DEF SaveFail, diskVars, DiskTyped, HistTyped
    <3> QED BY <2>15, <3>1, FailTyped DEF SaveFail, Typed
  <2>16. CASE Report(t)
    <3>1. DiskTyped' /\ {shared', cut', clash'} \subseteq BOOLEAN
      BY <2>16 DEF Report, diskVars, histVars, marks, DiskTyped, HistTyped
    <3>2. CASE EndTask(t) /\ UNCHANGED histVars
      BY <3>1, <3>2, EndTaskTyped DEF histVars, marks, HistTyped, Typed
    <3>3. CASE Fault("download") /\ Abandon(t)
      BY <3>1, <3>3, FailTyped DEF Typed
    <3> QED BY <2>16, <3>2, <3>3 DEF Report
  <2> QED
    BY <1>3, <2>1, <2>2, <2>3, <2>4, <2>5, <2>6, <2>7, <2>8, <2>9, <2>10,
       <2>11, <2>12, <2>13, <2>15, <2>16 DEF Step
<1>4. ASSUME NEW S \in SUBSET temp, Clean(S) PROVE Typed'
  <2>1. faults' \in 0 .. MaxFaults /\ hit' \in BOOLEAN
    BY <1>00, <1>4, FaultTyped DEF Clean
  <2> QED BY <1>00, <1>4, <2>1 DEF Clean, jobVars, marks, DiskTyped, JobTyped, WorkTyped,
      HistTyped, Typed
<1>5. ASSUME NEW S \in SUBSET Hash, Crash(S) PROVE Typed'
  <2>1. faults' \in 0 .. MaxFaults /\ hit' \in BOOLEAN
    BY <1>00, <1>5, FaultTyped DEF Crash
  <2>2. JobTyped'
    BY <1>00, <1>5 DEF Crash, JobTyped, Steps
  <2>3. DiskTyped'
    BY <1>00, <1>5 DEF Crash, DiskTyped
  <2>4. WorkTyped'
    BY <1>5, IdleTyped DEF Crash, WorkTyped
  <2>5. HistTyped'
    BY <1>00, <1>5, <2>1 DEF Crash, HistTyped
  <2> QED BY <2>2, <2>3, <2>4, <2>5 DEF Typed
<1> QED
  BY <1>1, <1>2, <1>3, <1>4, <1>5 DEF Next, StartRefused

(* What a task's step, or the death of the agent, does to the tasks. *)
LEMMA AskedStep ==
    ASSUME JobTyped, Asked, AtFile, [Next]_vars
    PROVE  Asked' /\ AtFile'
<1>1. ASSUME \A t \in Task : pc'[t] # "none" => pc[t] # "none" /\ ver'[t] = ver[t],
             \A t \in Task : Builds(t)' => Builds(t) /\ UNCHANGED <<ver[t], rest[t]>>
      PROVE  Asked' /\ AtFile'
  BY <1>1 DEF Asked, Active, AtFile, Unmerged, Index
<1>2. CASE UNCHANGED vars
  BY <1>1, <1>2 DEF vars, Builds
<1>3. ASSUME NEW t \in Task, NEW v \in Targets, Start(t, v) PROVE Asked' /\ AtFile'
  <2>1. /\ pc' = [pc EXCEPT ![t] = "download"] /\ ver' = [ver EXCEPT ![t] = v]
        /\ \A u \in Task : u # t => rest'[u] = rest[u]
    BY <1>3 DEF Start, Goto, JobTyped
  <2>2. Asked'
    BY <2>1, VersionAssumption DEF Asked, Active, JobTyped
  <2> QED BY <2>1, <2>2 DEF AtFile, Builds, Unmerged, Index, JobTyped
<1>4. ASSUME NEW t \in Task, EndTask(t) PROVE Asked' /\ AtFile'
  <2>1. pc'[t] = "none"
        /\ \A u \in Task : u # t => pc'[u] = pc[u] /\ ver'[u] = ver[u] /\ rest'[u] = rest[u]
    BY <1>4 DEF EndTask, Goto, JobTyped
  <2> QED BY <1>1, <2>1 DEF Builds
<1>5. ASSUME NEW t \in Task, Active(t), UNCHANGED ver, NEW s, pc' = [pc EXCEPT ![t] = s],
             \A u \in Task : u # t => rest'[u] = rest[u],
             s \in {"write", "built", "removed"} => Unmerged(t) # {} /\ rest' = rest
      PROVE  Asked' /\ AtFile'
  <2>1. Asked'
    BY <1>5 DEF Asked, Active, JobTyped
  <2> QED BY <1>5, <2>1 DEF AtFile, Builds, Unmerged, Index, JobTyped
<1>7. ASSUME NEW t \in Task, Step(t) PROVE Asked' /\ AtFile'
  <2>1. ASSUME NEW h \in Hash, DownloadChunk(t, h) \/ DownloadWriteFail(t, h)
        PROVE  Asked' /\ AtFile'
    <3>1. CASE DownloadChunk(t, h)
      BY <1>1, <3>1 DEF DownloadChunk, Builds
    <3>2. CASE DownloadWriteFail(t, h)
      BY <1>4, <3>2 DEF DownloadWriteFail, Abandon
    <3> QED BY <2>1, <3>1, <3>2
  <2>2. ASSUME DownloadFail(t) \/ MergeDeleteFail(t) \/ SaveFail(t) PROVE Asked' /\ AtFile'
    BY <1>4, <2>2 DEF DownloadFail, MergeDeleteFail, SaveFail, Abandon
  <2>3. ASSUME MergeSkip(t) \/ \E n \in Name : MergeDelete(t, n) PROVE Asked' /\ AtFile'
    <3>1. /\ pc[t] = "download" /\ UNCHANGED <<pc, ver>>
          /\ \A u \in Task : u # t => rest'[u] = rest[u]
      BY <2>3 DEF MergeSkip, MergeDelete, Merging, Merged, NextFile, JobTyped
    <3> QED BY <1>1, <3>1 DEF Builds
  <2>4. ASSUME MergeCreate(t) \/ MergeBuild(t) \/ MergeRemove(t) PROVE Asked' /\ AtFile'
    <3>1. Active(t) /\ Unmerged(t) # {}
      BY <2>4 DEF MergeCreate, MergeBuild, MergeRemove, Merging, Written, AtFile, Builds, Active
    <3>2. UNCHANGED <<ver, rest>> /\ \E s : pc' = [pc EXCEPT ![t] = s]
      BY <2>4 DEF MergeCreate, MergeBuild, MergeRemove, Goto
    <3> QED BY <1>5, <3>1, <3>2
  <2>5. CASE MergeChunk(t)
    BY <1>1, <2>5 DEF MergeChunk, Builds
  <2>6. ASSUME MergeRename(t) \/ MergeFail(t) \/ MergeReplaceFail(t) PROVE Asked' /\ AtFile'
    <3>1. /\ UNCHANGED ver /\ pc' = [pc EXCEPT ![t] = "download"]
          /\ \A u \in Task : u # t => rest'[u] = rest[u]
      BY <2>6 DEF MergeRename, MergeFail, MergeReplaceFail, Goto, NextFile, JobTyped
    <3>2. Active(t)
      BY <2>6 DEF MergeRename, MergeFail, MergeReplaceFail, Merging, Writing, Written, Active
    <3> QED BY <1>5, <3>1, <3>2
  <2>7. CASE MergeEnd(t)
    <3>1. CASE bad[t]
      BY <1>4, <2>7, <3>1 DEF MergeEnd, Abandon
    <3>2. CASE ~ bad[t]
      <4>1. Active(t) /\ UNCHANGED <<ver, rest>> /\ pc' = [pc EXCEPT ![t] = "save"]
        BY <2>7, <3>2 DEF MergeEnd, Merged, Active, Goto
      <4> QED BY <1>5, <4>1
    <3> QED BY <3>1, <3>2
  <2>8. ASSUME TruncateManifest(t) \/ SaveManifest(t) \/ TruncateVersion(t) \/ SwitchVersion(t)
        PROVE  Asked' /\ AtFile'
    <3>1. /\ Active(t) /\ UNCHANGED <<ver, rest>>
          /\ \E s \in {"saving", "switch", "switching", "report"} : pc' = [pc EXCEPT ![t] = s]
      BY <2>8 DEF TruncateManifest, SaveManifest, TruncateVersion, SwitchVersion, Active, Goto
    <3> QED BY <1>5, <3>1
  <2>9. CASE Report(t)
    BY <1>4, <2>9 DEF Report, Abandon
  <2> QED BY <1>7, <2>1, <2>2, <2>3, <2>4, <2>5, <2>6, <2>7, <2>8, <2>9 DEF Step
<1>8. ASSUME NEW S \in SUBSET temp, Clean(S) PROVE Asked' /\ AtFile'
  BY <1>1, <1>8 DEF Clean, jobVars, Builds
<1>9. ASSUME NEW S \in SUBSET Hash, Crash(S) PROVE Asked' /\ AtFile'
  BY <1>1, <1>9 DEF Crash, Builds
<1> QED
  BY <1>2, <1>3, <1>7, <1>8, <1>9 DEF Next, StartRefused

(* Renamed and rebuilt files. *)
LEMMA WholePut ==
    ASSUME NEW f, Whole(f), NEW n, NEW c, NEW v \in Version,
           n \in DOMAIN Manifest[v], c = Manifest[v][n]
    PROVE  Whole(Put(f, n, c))
BY DEF Whole, Put

LEMMA WholeDrop ==
    ASSUME NEW f, Whole(f), NEW S
    PROVE  Whole(Drop(f, S))
BY DEF Whole, Drop

(* The tasks other than t do not move. *)
Others(t) == \A u \in Task \ {t} : pc'[u] = pc[u] /\ ver'[u] = ver[u] /\ rest'[u] = rest[u]

LEMMA OthersSame ==
    ASSUME NEW t, Others(t), NEW u \in Task, u # t
    PROVE  /\ Builds(u)' <=> Builds(u)
           /\ Entry(u)' = Entry(u) /\ Content(u)' = Content(u)
BY DEF Others, Builds, Entry, Unmerged, Content, Index

(* A step of t after which it builds nothing, or the file it was at. *)
LEMMA ApartStep ==
    ASSUME Apart, NEW t \in Task, Others(t),
           Builds(t)' => Builds(t) /\ Entry(t)' = Entry(t)
    PROVE  Apart'
<1> SUFFICES ASSUME NEW a \in Task, NEW b \in Task, a # b, Builds(a)', Builds(b)'
             PROVE  Entry(a)' # Entry(b)'
  BY DEF Apart
<1>1. ASSUME NEW u \in Task, Builds(u)' PROVE Builds(u) /\ Entry(u)' = Entry(u)
  BY <1>1, OthersSame
<1> QED BY <1>1 DEF Apart

SameNew(m) == /\ m \in DOMAIN newf' <=> m \in DOMAIN newf
              /\ m \in DOMAIN newf => newf'[m] = newf[m]
SameWork(u) == /\ work'[u].pos = work[u].pos /\ work'[u].ok = work[u].ok
               /\ work'[u].out = work[u].out
Gone(u) == /\ Entry(u) \notin DOMAIN newf'
           /\ pc[u] = "write" => work'[u].out = "gone"

(* What is still known of another task when its .new file is removed, or   *)
(* is as it was.                                                           *)
LEMMA OtherBuild ==
    ASSUME NEW t, Others(t), NEW u \in Task, u # t, Copy(u), Ready(u),
           \/ SameNew(Entry(u)) /\ (pc[u] = "write" => SameWork(u))
           \/ Gone(u)
    PROVE  Copy(u)' /\ Ready(u)'
<1>1. /\ pc'[u] = pc[u] /\ Entry(u)' = Entry(u) /\ Content(u)' = Content(u)
  BY OthersSame DEF Others
<1>2. CASE SameNew(Entry(u)) /\ (pc[u] = "write" => SameWork(u))
  <2>1. pc[u] = "write" => Prefix(u)' = Prefix(u)
    BY <1>1, <1>2 DEF Prefix, SameWork
  <2>2. Copy(u)'
    BY <1>1, <1>2, <2>1 DEF Copy, SameNew, SameWork
  <2> QED BY <1>1, <1>2, <2>2 DEF Ready, SameNew
<1>3. CASE Gone(u)
  BY <1>1, <1>3 DEF Copy, Ready, Gone
<1> QED BY <1>2, <1>3

LEMMA HandlesAt ==
    ASSUME WorkTyped, NEW n, NEW a, NEW b, NEW u \in Task
    PROVE  /\ pc[u] # "write" \/ Entry(u) # n => Handles(n, a, b)[u] = work[u]
           /\ pc[u] = "write" /\ Entry(u) = n =>
                /\ Handles(n, a, b)[u].pos = work[u].pos /\ Handles(n, a, b)[u].ok = work[u].ok
                /\ work[u].out = "new" => Handles(n, a, b)[u].out = a
                /\ work[u].out = "gone" => Handles(n, a, b)[u].out = "gone"
<1>1. ASSUME pc[u] = "write", Entry(u) = n
      PROVE  Handles(n, a, b)[u] = [work[u] EXCEPT !.out = CASE work[u].out = "new" -> a
                                      [] work[u].out = "real" -> b [] OTHER -> work[u].out]
  BY <1>1 DEF Handles
<1>2. WorkOf(work[u])
  BY DEF WorkTyped
<1> QED BY <1>1, <1>2 DEF Handles, WorkOf

(* Steps that change neither .new files nor what a building task knows. *)
LEMMA NewSame ==
    ASSUME NewInv, Whole(files'), newf' = newf,
           \A u \in Task : Builds(u)' =>
                pc'[u] = pc[u] /\ ver'[u] = ver[u] /\ rest'[u] = rest[u]
                /\ (pc[u] = "write" => work'[u].pos = work[u].pos
                        /\ work'[u].ok = work[u].ok /\ work'[u].out = work[u].out)
    PROVE  NewInv'
<1>1. ASSUME NEW u \in Task, Builds(u)'
      PROVE  Builds(u) /\ Entry(u)' = Entry(u) /\ Content(u)' = Content(u)
  BY <1>1 DEF Builds, Entry, Unmerged, Content, Index
<1>2. Apart'
  BY <1>1 DEF NewInv, Apart
<1>3. ASSUME NEW u \in Task PROVE Copy(u)' /\ Ready(u)'
  <2>1. CASE ~ Builds(u)'
    BY <2>1 DEF Copy, Ready, Builds
  <2>2. CASE Builds(u)'
    <3>1. Copy(u) /\ Ready(u) /\ pc'[u] = pc[u]
      BY <2>2 DEF NewInv
    <3>2. pc[u] = "write" => Prefix(u)' = Prefix(u)
      BY <1>1, <2>2 DEF Prefix
    <3>3. Copy(u)'
      BY <1>1, <2>2, <3>1, <3>2 DEF Copy
    <3> QED BY <1>1, <2>2, <3>1, <3>3 DEF Ready
  <2> QED BY <2>1, <2>2
<1>4. Whole(files)'
  BY DEF Whole
<1> QED BY <1>2, <1>3, <1>4 DEF NewInv

LEMMA CreateNew ==
    ASSUME Typed, NewInv, NEW t \in Task, MergeCreate(t), ~ shared'
    PROVE  NewInv'
<1> DEFINE e == Entry(t)
<1>0. JobTyped /\ WorkTyped /\ pc[t] = "download" /\ Unmerged(t) # {}
  BY DEF Typed, MergeCreate, Merging
<1>1. /\ newf' = Put(newf, e, <<>>) /\ files' = files /\ pc'[t] = "write"
      /\ work'[t].out = "new" /\ work'[t].pos = 0
      /\ \A u \in Task \ {t} : work'[u] = work[u]
      /\ UNCHANGED <<ver, rest>> /\ Others(t)
  BY <1>0 DEF MergeCreate, Goto, Others, JobTyped, WorkTyped
<1>2. Entry(t)' = e
  BY <1>1 DEF Entry, Unmerged, Index
<1>3. ASSUME NEW u \in Task, u # t, Builds(u) PROVE Entry(u) # e
  BY <1>3 DEF MergeCreate
<1> HIDE DEF e
<1>4. Apart'
  <2> SUFFICES ASSUME NEW a \in Task, NEW b \in Task, a # b, Builds(a)', Builds(b)'
               PROVE  Entry(a)' # Entry(b)'
    BY DEF Apart
  <2>1. ASSUME NEW u \in Task, u # t, Builds(u)' PROVE Entry(u)' # e /\ Builds(u) /\ Entry(u)' = Entry(u)
    BY <1>1, <1>3, <2>1, OthersSame
  <2> QED BY <1>2, <2>1 DEF NewInv, Apart
<1>5. e \in DOMAIN newf' /\ newf'[e] = <<>>
      /\ \A m : m # e => SameNew(m)
  BY <1>1 DEF Put, SameNew
<1>6. Copy(t)' /\ Ready(t)'
  <2>1. Prefix(t)' = <<>>
    <3>1. 1 .. work'[t].pos = {}
      BY <1>1
    <3> QED BY <3>1 DEF Prefix
  <2> QED BY <1>1, <1>2, <1>5, <2>1 DEF Copy, Ready
<1>7. ASSUME NEW u \in Task, u # t PROVE Copy(u)' /\ Ready(u)'
  <2>1. CASE Builds(u)
    <3>1. Entry(u) # e /\ Copy(u) /\ Ready(u)
      BY <1>3, <1>7, <2>1 DEF NewInv
    <3> QED BY <1>1, <1>5, <1>7, <3>1, OtherBuild DEF SameWork
  <2>2. CASE ~ Builds(u)
    BY <1>1, <1>7, <2>2, OthersSame DEF Copy, Ready, Builds
  <2> QED BY <2>1, <2>2
<1>8. Whole(files)'
  BY <1>1 DEF NewInv, Whole
<1> QED BY <1>4, <1>6, <1>7, <1>8 DEF NewInv

(* One chunk more: the prefix grows by the chunk that was due. *)
LEMMA ChunkNew ==
    ASSUME Typed, AtFile, NewInv, NEW t \in Task, MergeChunk(t)
    PROVE  NewInv' /\ files' = files
<1> DEFINE e == Entry(t)
           p == work[t].pos
           d == NextData(t)
<1>0. JobTyped /\ WorkTyped /\ pc[t] = "write" /\ p < Len(Content(t)) /\ p \in Nat
  BY DEF Typed, MergeChunk, Writing, WorkTyped, WorkOf
<1>1. /\ UNCHANGED <<pc, ver, rest>> /\ Others(t)
      /\ work'[t].pos = p + 1 /\ work'[t].out = work[t].out
      /\ work'[t].ok => work[t].ok /\ d = NextChunk(t)
      /\ \A u \in Task \ {t} : work'[u] = work[u]
  BY <1>0 DEF MergeChunk, Others, WorkTyped, WorkOf
<1>2. work[t].out \in {"new", "gone"} /\ Copy(t) /\ Builds(t)
  BY <1>0 DEF NewInv, Copy, Builds
<1>3. /\ files' = files
      /\ newf' = IF work[t].out = "new" THEN Put(newf, e, WriteAt(newf[e], p + 1, d)) ELSE newf
  BY <1>2 DEF MergeChunk
<1>4. Entry(t)' = e /\ Content(t)' = Content(t) /\ NextChunk(t) = Content(t)[p + 1]
  BY <1>1 DEF Entry, Unmerged, Content, Index, NextChunk
<1> HIDE DEF e, p, d
<1>5. /\ e \in DOMAIN newf => e \in DOMAIN newf'
      /\ work[t].out = "new" => newf'[e] = WriteAt(newf[e], p + 1, d)
      /\ \A m : m # e => SameNew(m)
  BY <1>3 DEF Put, SameNew
<1>6. Copy(t)' /\ Ready(t)'
  <2>1. CASE work[t].out = "gone"
    BY <1>0, <1>1, <1>2, <1>3, <1>4, <2>1 DEF Copy, Ready, e
  <2>2. CASE work[t].out = "new"
    <3>1. e \in DOMAIN newf'
      BY <1>0, <1>2, <1>5, <2>2 DEF Copy, e
    <3>2. ASSUME work'[t].ok PROVE newf'[e] = Prefix(t)'
      <4>1. newf[e] = [i \in 1 .. p |-> Content(t)[i]] /\ d = Content(t)[p + 1]
        BY <1>0, <1>1, <1>2, <1>4, <2>2, <3>2 DEF Copy, Prefix, e, p
      <4>2. Prefix(t)' = [i \in 1 .. p + 1 |-> Content(t)[i]]
        BY <1>1, <1>4 DEF Prefix
      <4>3. DOMAIN newf[e] \cup 1 .. (p + 1) = 1 .. (p + 1)
        BY <1>0, <4>1
      <4>4. WriteAt(newf[e], p + 1, d) = [i \in 1 .. (p + 1) |->
                IF i = p + 1 THEN d ELSE IF i \in DOMAIN newf[e] THEN newf[e][i] ELSE Torn]
        BY <4>3 DEF WriteAt
      <4>5. ASSUME NEW i \in 1 .. (p + 1)
            PROVE  (IF i = p + 1 THEN d ELSE IF i \in DOMAIN newf[e] THEN newf[e][i] ELSE Torn)
                       = Content(t)[i]
        BY <1>0, <4>1
      <4> QED BY <1>5, <2>2, <4>2, <4>4, <4>5
    <3> QED BY <1>0, <1>1, <1>4, <2>2, <3>1, <3>2 DEF Copy, Ready
  <2> QED BY <1>2, <2>1, <2>2
<1>7. ASSUME NEW u \in Task, u # t PROVE Copy(u)' /\ Ready(u)'
  <2>1. CASE Builds(u)
    <3>1. Entry(u) # e /\ Copy(u) /\ Ready(u)
      BY <1>2, <1>7, <2>1 DEF NewInv, Apart, e
    <3> QED BY <1>1, <1>5, <1>7, <3>1, OtherBuild DEF SameWork
  <2>2. CASE ~ Builds(u)
    BY <1>1, <1>7, <2>2, OthersSame DEF Copy, Ready, Builds
  <2> QED BY <2>1, <2>2
<1>8. Whole(files)' /\ Apart'
  BY <1>1, <1>3, <1>4, ApartStep DEF NewInv, Whole, Builds, e
<1> QED BY <1>3, <1>6, <1>7, <1>8 DEF NewInv

LEMMA BuildNew ==
    ASSUME Typed, AtFile, NewInv, NEW t \in Task, MergeBuild(t)
    PROVE  NewInv'
<1>0. JobTyped /\ WorkTyped /\ pc[t] = "write" /\ work[t].pos = Len(Content(t)) /\ work[t].ok
  BY DEF Typed, MergeBuild, Written, HashMatches
<1>1. /\ UNCHANGED <<files, newf, ver, rest>> /\ Others(t) /\ pc'[t] = "built"
      /\ \A u \in Task \ {t} : work'[u] = work[u]
  BY <1>0 DEF MergeBuild, Goto, Others, diskVars, JobTyped, WorkTyped
<1>2. Copy(t) /\ Builds(t)
  BY <1>0 DEF NewInv, Builds
<1>3. Entry(t)' = Entry(t) /\ Content(t)' = Content(t)
  BY <1>1 DEF Entry, Unmerged, Content, Index
<1>4. ASSUME Entry(t) \in DOMAIN newf PROVE newf[Entry(t)] = Content(t)
  <2>1. newf[Entry(t)] = [i \in 1 .. Len(Content(t)) |-> Content(t)[i]]
    BY <1>0, <1>2, <1>4 DEF Copy, Prefix
  <2>2. Content(t) \in Seq(Hash)
    <3>1. Entry(t) \in DOMAIN Index(ver[t])
      BY <1>0, <1>2, EntryIn DEF AtFile
    <3> QED BY <3>1, IndexTypes DEF Content
  <2> QED BY <2>1, <2>2
<1>5. Copy(t)' /\ Ready(t)'
  BY <1>1, <1>3, <1>4 DEF Copy, Ready
<1>6. ASSUME NEW u \in Task, u # t PROVE Copy(u)' /\ Ready(u)'
  <2>1. CASE Builds(u)
    <3>1. Entry(u) # Entry(t) /\ Copy(u) /\ Ready(u)
      BY <1>2, <1>6, <2>1 DEF NewInv, Apart
    <3> QED BY <1>1, <1>6, <3>1, OtherBuild DEF SameNew, SameWork
  <2>2. CASE ~ Builds(u)
    BY <1>1, <1>6, <2>2, OthersSame DEF Copy, Ready, Builds
  <2> QED BY <2>1, <2>2
<1>7. Whole(files)' /\ Apart'
  BY <1>1, <1>2, <1>3, ApartStep DEF NewInv, Whole
<1> QED BY <1>5, <1>6, <1>7 DEF NewInv

(* The .new file goes, one way or another, and its task to the next file. *)
LEMMA DropNew ==
    ASSUME Typed, NewInv, NEW t \in Task, NEW a, NEW b, a = "gone" \/ Builds(t),
           newf' = Drop(newf, {Entry(t)}), Whole(files'),
           \A u \in Task \ {t} : work'[u] = Handles(Entry(t), a, b)[u],
           UNCHANGED ver, Goto(t, "download"), NextFile(t)
    PROVE  NewInv'
<1> DEFINE e == Entry(t)
<1>0. JobTyped /\ WorkTyped
  BY DEF Typed
<1>1. Others(t) /\ pc'[t] = "download"
  BY <1>0 DEF Others, Goto, NextFile, JobTyped
<1>2. Apart' /\ Whole(files)' /\ Copy(t)' /\ Ready(t)'
  BY <1>1, ApartStep DEF NewInv, Whole, Builds, Copy, Ready
<1> HIDE DEF e
<1>3. e \notin DOMAIN newf'
      /\ \A m : m # e => SameNew(m)
  BY DEF Drop, e, SameNew
<1>4. ASSUME NEW u \in Task, u # t PROVE Copy(u)' /\ Ready(u)'
  <2>1. CASE Builds(u)
    <3>1. Copy(u) /\ Ready(u)
      BY DEF NewInv
    <3>2. Entry(u) # e => work'[u] = work[u]
      BY <1>0, <1>4, HandlesAt DEF e
    <3>3. ASSUME Entry(u) = e, pc[u] = "write" PROVE work'[u].out = "gone"
      <4>1. a = "gone"
        BY <1>4, <2>1, <3>3 DEF NewInv, Apart, e
      <4>2. work[u].out \in {"new", "gone"}
        BY <3>1, <3>3 DEF Copy
      <4> QED BY <1>0, <1>4, <3>3, <4>1, <4>2, HandlesAt DEF e
    <3> QED BY <1>1, <1>3, <1>4, <3>1, <3>2, <3>3, OtherBuild DEF SameWork, Gone
  <2>2. CASE ~ Builds(u)
    BY <1>1, <1>4, <2>2, OthersSame DEF Copy, Ready, Builds
  <2> QED BY <2>1, <2>2
<1> QED BY <1>2, <1>4 DEF NewInv

(* A real file goes. *)
LEMMA RemoveNew ==
    ASSUME Typed, NewInv, NEW t \in Task, NEW n,
           files' = Drop(files, {n}), work' = Handles(n, "new", "gone"),
           UNCHANGED <<newf, ver>>,
           \/ UNCHANGED pc /\ pc[t] = "download" /\ \A u \in Task : u # t => rest'[u] = rest[u]
           \/ pc[t] = "built" /\ Goto(t, "removed") /\ UNCHANGED rest
    PROVE  NewInv'
<1>0. JobTyped /\ WorkTyped
  BY DEF Typed
<1>1. Whole(files')
  BY WholeDrop DEF NewInv
<1>2. ASSUME NEW u \in Task, pc[u] = "write"
      PROVE  work'[u].pos = work[u].pos /\ work'[u].ok = work[u].ok /\ work'[u].out = work[u].out
  <2>1. work[u].out \in {"new", "gone"}
    BY <1>2 DEF NewInv, Copy
  <2> QED BY <1>0, <1>2, <2>1, HandlesAt
<1>3. CASE UNCHANGED pc /\ pc[t] = "download" /\ \A u \in Task : u # t => rest'[u] = rest[u]
  BY <1>1, <1>2, <1>3, NewSame DEF Builds
<1>4. CASE pc[t] = "built" /\ Goto(t, "removed") /\ UNCHANGED rest
  <2>1. Others(t) /\ pc'[t] = "removed" /\ Builds(t) /\ Entry(t)' = Entry(t)
        /\ Content(t)' = Content(t)
    BY <1>0, <1>4 DEF Others, Goto, Builds, Entry, Unmerged, Content, Index, JobTyped
  <2>2. Apart' /\ Whole(files)'
    BY <1>1, <2>1, ApartStep DEF NewInv, Whole
  <2>3. Copy(t)' /\ Ready(t)'
    BY <1>4, <2>1 DEF NewInv, Copy, Ready
  <2>4. ASSUME NEW u \in Task, u # t PROVE Copy(u)' /\ Ready(u)'
    <3>1. CASE Builds(u)
      <4>1. Entry(u) # Entry(t) /\ Copy(u) /\ Ready(u)
        BY <2>1, <2>4, <3>1 DEF NewInv, Apart
      <4> QED BY <1>2, <2>1, <2>4, <4>1, OtherBuild DEF SameNew, SameWork
    <3>2. CASE ~ Builds(u)
      BY <2>1, <2>4, <3>2, OthersSame DEF Copy, Ready, Builds
    <3> QED BY <3>1, <3>2
  <2> QED BY <2>2, <2>3, <2>4 DEF NewInv
<1> QED BY <1>3, <1>4

LEMMA RenameNew ==
    ASSUME Typed, AtFile, NewInv, NEW t \in Task, MergeRename(t)
    PROVE  NewInv'
<1>1. /\ Builds(t) /\ Entry(t) \in DOMAIN newf /\ newf[Entry(t)] = Content(t)
  BY DEF MergeRename, Builds, NewInv, Ready
<1>2. /\ ver[t] \in Version /\ Entry(t) \in DOMAIN Manifest[ver[t]]
      /\ Content(t) = Manifest[ver[t]][Entry(t)]
  BY <1>1, EntryIn DEF AtFile, Content, Typed
<1>3. Whole(Put(files, Entry(t), newf[Entry(t)]))
  BY <1>1, <1>2, WholePut DEF NewInv
<1>4. Whole(files')
  BY <1>3 DEF MergeRename
<1> QED BY <1>1, <1>4, DropNew DEF MergeRename

LEMMA NewStep ==
    ASSUME Typed, AtFile, NewInv, [Next]_vars, ~ shared'
    PROVE  NewInv'
<1>0. JobTyped /\ WorkTyped /\ Whole(files)
  BY DEF Typed, NewInv
<1>1. ASSUME files' = files, newf' = newf, NEW t \in Task, Others(t), ~ Builds(t)',
             \A u \in Task \ {t} : work'[u] = work[u]
      PROVE  NewInv'
  BY <1>0, <1>1, NewSame DEF Others
<1>2. CASE UNCHANGED vars
  BY <1>0, <1>2, NewSame DEF vars
<1>3. ASSUME NEW t \in Task, NEW v \in Targets, Start(t, v) PROVE NewInv'
  <2>1. /\ files' = files /\ newf' = newf /\ Others(t) /\ ~ Builds(t)' /\ work' = work
    BY <1>0, <1>3 DEF Start, Goto, diskVars, Others, Builds, JobTyped
  <2> QED BY <1>1, <2>1
<1>4. ASSUME NEW t \in Task, EndTask(t), UNCHANGED <<files, newf>> PROVE NewInv'
  <2>1. Others(t) /\ ~ Builds(t)' /\ \A u \in Task \ {t} : work'[u] = work[u]
    BY <1>0, <1>4 DEF EndTask, Goto, Others, Builds, JobTyped, WorkTyped
  <2> QED BY <1>1, <1>4, <2>1
<1>5. ASSUME NEW t \in Task, Step(t) PROVE NewInv'
  <2>1. ASSUME NEW h \in Hash, DownloadChunk(t, h) PROVE NewInv'
    BY <1>0, <2>1, NewSame DEF DownloadChunk
  <2>2. ASSUME \/ \E h \in Hash : DownloadWriteFail(t, h)
               \/ DownloadFail(t) \/ MergeDeleteFail(t) \/ SaveFail(t) \/ Report(t)
        PROVE  NewInv'
    BY <1>4, <2>2 DEF DownloadWriteFail, DownloadFail, MergeDeleteFail, SaveFail, Report, Abandon,
       diskVars
  <2>3. CASE MergeSkip(t)
    <3>1. /\ files' = files /\ newf' = newf /\ Others(t) /\ ~ Builds(t)' /\ work' = work
      BY <1>0, <2>3 DEF MergeSkip, Merging, NextFile, diskVars, Others, Builds, JobTyped
    <3> QED BY <1>1, <3>1
  <2>4. ASSUME MergeFail(t) \/ MergeReplaceFail(t) PROVE NewInv'
    <3>1. /\ newf' = Drop(newf, {Entry(t)}) /\ files' = files /\ UNCHANGED ver
          /\ Goto(t, "download") /\ NextFile(t)
      BY <2>4 DEF MergeFail, MergeReplaceFail
    <3>2. \A u \in Task \ {t} : work'[u] = Handles(Entry(t), "gone", "real")[u]
      BY <2>4 DEF MergeFail, MergeReplaceFail, Handles
    <3> QED BY <1>0, <3>1, <3>2, DropNew
  <2>5. CASE MergeRemove(t)
    BY <2>5, RemoveNew DEF MergeRemove
  <2>6. ASSUME NEW n \in Name, MergeDelete(t, n) PROVE NewInv'
    <3>1. \A u \in Task : u # t => rest'[u] = rest[u]
      BY <1>0, <2>6 DEF MergeDelete, JobTyped
    <3> QED BY <2>6, <3>1, RemoveNew DEF MergeDelete, Merged
  <2>7. CASE MergeEnd(t)
    <3>1. CASE bad[t]
      BY <1>4, <2>7, <3>1 DEF MergeEnd, Abandon, diskVars
    <3>2. CASE ~ bad[t]
      <4>1. /\ files' = files /\ newf' = newf /\ Others(t) /\ ~ Builds(t)' /\ work' = work
        BY <1>0, <2>7, <3>2 DEF MergeEnd, Goto, diskVars, Others, Builds, JobTyped
      <4> QED BY <1>1, <4>1
    <3> QED BY <3>1, <3>2
  <2>8. ASSUME TruncateManifest(t) \/ SaveManifest(t) \/ TruncateVersion(t) \/ SwitchVersion(t)
        PROVE  NewInv'
    <3>1. /\ UNCHANGED <<files, newf, ver, rest, work>>
          /\ \E s \in {"saving", "switch", "switching", "report"} : pc' = [pc EXCEPT ![t] = s]
      BY <2>8 DEF TruncateManifest, SaveManifest, TruncateVersion, SwitchVersion, Goto
    <3>2. Others(t) /\ ~ Builds(t)'
      BY <1>0, <3>1 DEF Others, Builds, JobTyped
    <3> QED BY <1>1, <3>1, <3>2
  <2> QED BY <1>5, <2>1, <2>2, <2>3, <2>4, <2>5, <2>6, <2>7, <2>8, CreateNew, ChunkNew, BuildNew,
      RenameNew DEF Step
<1>6. ASSUME NEW S \in SUBSET temp, Clean(S) PROVE NewInv'
  BY <1>0, <1>6, NewSame DEF Clean, jobVars
<1>7. ASSUME NEW S \in SUBSET Hash, Crash(S) PROVE NewInv'
  BY <1>0, <1>7, NewSame DEF Crash, Builds
<1> QED
  BY <1>2, <1>3, <1>5, <1>6, <1>7 DEF Next, StartRefused

LEMMA SharedStays ==
    ASSUME [Next]_vars, shared
    PROVE  shared'
<1>1. ASSUME NEW t \in Task, Step(t) PROVE shared'
  <2>1. ASSUME NEW h \in Hash, DownloadChunk(t, h) \/ DownloadWriteFail(t, h) PROVE shared'
    BY <2>1 DEF DownloadChunk, DownloadWriteFail, histVars, marks
  <2>2. ASSUME DownloadFail(t) \/ MergeDeleteFail(t) \/ SaveFail(t) \/ MergeSkip(t)
               \/ MergeEnd(t) \/ Report(t) \/ MergeCreate(t) \/ MergeChunk(t) \/ MergeBuild(t)
        PROVE  shared'
    BY <2>2 DEF DownloadFail, MergeDeleteFail, SaveFail, MergeSkip, MergeEnd, Report, MergeCreate,
       MergeChunk, MergeBuild, histVars, marks
  <2>3. ASSUME MergeFail(t) \/ MergeReplaceFail(t) \/ MergeRemove(t) \/ MergeRename(t)
               \/ \E n \in Name : MergeDelete(t, n)
        PROVE  shared'
    BY <2>3 DEF MergeFail, MergeReplaceFail, MergeRemove, MergeRename, MergeDelete, histVars, marks
  <2>4. ASSUME TruncateManifest(t) \/ SaveManifest(t) \/ TruncateVersion(t) \/ SwitchVersion(t)
        PROVE  shared'
    BY <2>4 DEF TruncateManifest, SaveManifest, TruncateVersion, SwitchVersion, histVars, marks
  <2> QED BY <1>1, <2>1, <2>2, <2>3, <2>4 DEF Step
<1>2. ASSUME \/ UNCHANGED vars
             \/ \E t \in Task, v \in Targets : Start(t, v)
             \/ \E S \in SUBSET temp : Clean(S)
             \/ \E S \in SUBSET Hash : Crash(S)
      PROVE  shared'
  BY <1>2 DEF vars, Start, Clean, Crash, marks
<1> QED BY <1>1, <1>2 DEF Next, StartRefused

LEMMA WholeStep ==
    ASSUME WholeInv, [Next]_vars
    PROVE  WholeInv'
<1>0. Typed /\ JobTyped /\ Asked /\ AtFile
  BY TypeParts DEF WholeInv, Typed
<1>1. TypeOK' /\ Asked' /\ AtFile'
  BY <1>0, CafeTypeStep, AskedStep DEF WholeInv
<1>2. ~ shared' => NewInv'
  BY <1>0, SharedStays, NewStep DEF WholeInv
<1> QED BY <1>1, <1>2 DEF WholeInv

LEMMA WholeInit == Init => WholeInv
<1> SUFFICES ASSUME Init PROVE WholeInv
  OBVIOUS
<1>1. DOMAIN files = {} /\ DOMAIN newf = {}
  BY DEF Init, NoFile
<1>2. DiskTyped
  BY <1>1 DEF Init, DiskTyped
<1>3. HistTyped
  <2>1. faults \in 0 .. MaxFaults
    BY BoundsAssumption DEF Init
  <2>2. {hit, half, dirty, shared, cut, clash} \subseteq BOOLEAN
    BY Zenon DEF Init
  <2> QED BY <2>1, <2>2 DEF HistTyped
<1>4. JobTyped
  BY DEF Init, JobTyped, Steps
<1>5. WorkTyped
  BY IdleTyped DEF Init, WorkTyped
<1>6. \A t \in Task : pc[t] = "none"
  BY DEF Init
<1>7. Asked /\ AtFile
  BY <1>6 DEF Asked, Active, AtFile, Builds
<1>8. NewInv
  BY <1>1, <1>6 DEF NewInv, Whole, Apart, Builds, Copy, Ready
<1> QED BY <1>2, <1>3, <1>4, <1>5, <1>7, <1>8, TypeParts DEF WholeInv, Typed

(* Type correctness, for any versions, files, tasks and failures. *)
THEOREM CafeTypeOK == Spec => []TypeOK
<1>1. WholeInv => TypeOK
  BY DEF WholeInv
<1> QED BY <1>1, WholeInit, WholeStep, PTL DEF Spec

(* merge_files: unless two tasks were at one .new file at the same time,   *)
(* however tasks overlap otherwise, wherever they fail or the agent dies,  *)
(* and whatever the cleaner takes away, a real file is some version's file *)
(* and never a mixture.                                                    *)
THEOREM FilesAlwaysWhole == Spec => []FilesWhole
<1>1. WholeInv => FilesWhole
  BY DEF WholeInv, NewInv, Whole, FilesWhole
<1> QED BY <1>1, WholeInit, WholeStep, PTL DEF Spec

-----------------------------------------------------------------------------
LEMMA StepsInStep ==
    ASSUME InStep, UNCHANGED <<files, current, map>>, half => half'
    PROVE  InStep'
BY DEF InStep, Matches, Index

(* Tasks that are not there have nothing to keep. *)
LEMMA RestGood ==
    ASSUME NEW u \in Task, ~ Active(u)
    PROVE  Good(u)
BY DEF Good, Progress, Phase, Merges, Saves, Builds, Active

(* Steps that leave the tasks and the files as they are. *)
LEMMA Untouched ==
    ASSUME MatchInv,
           UNCHANGED <<files, current, map, pc, ver, base, rest, bad, half, dirty, shared>>
    PROVE  MatchInv'
<1>1. IsFun'
  BY DEF MatchInv, IsFun
<1>2. ASSUME ~ dirty PROVE Clear'
  <2>1. Single' /\ Changing' /\ InStep' /\ ~ shared'
    BY <1>2, StepsInStep DEF MatchInv, Clear, Single, Changing, Active
  <2>2. ASSUME NEW t \in Task PROVE Good(t)'
    <3>1. Good(t)
      BY <1>2 DEF MatchInv, Clear
    <3>2. Progress(t)'
      BY <3>1 DEF Good, Progress, Merges, Builds, Same, Index, Entry, Unmerged
    <3>3. Phase(t)'
      BY <3>1 DEF Good, Phase, Saves, Matches, Index
    <3> QED BY <3>2, <3>3 DEF Good
  <2> QED BY <2>1, <2>2 DEF Clear
<1> QED BY <1>1, <1>2 DEF MatchInv

(* A task stops.  If it had begun to change files, the state is dirty. *)
LEMMA EndClear ==
    ASSUME JobTyped, MatchInv, NEW t \in Task, Active(t), EndTask(t),
           UNCHANGED <<files, current, map, half, shared>>, ~ half
    PROVE  ~ dirty => Clear'
<1> SUFFICES ASSUME ~ dirty PROVE Clear'
  OBVIOUS
<1>1. Single /\ InStep /\ ~ shared
  BY DEF MatchInv, Clear
<1>2. pc' = [pc EXCEPT ![t] = "none"]
  BY DEF EndTask, Goto
<1>3. \A u \in Task : ~ Active(u)'
  BY <1>1, <1>2 DEF Single, Active, JobTyped
<1>4. ~ half' /\ InStep' /\ ~ shared'
  BY <1>1, StepsInStep
<1>5. ASSUME NEW u \in Task PROVE Good(u)'
  BY <1>3 DEF Good, Progress, Phase, Merges, Saves, Builds, Active
<1> QED BY <1>3, <1>4, <1>5 DEF Clear, Single, Changing

LEMMA AbandonMatch ==
    ASSUME JobTyped, HistTyped, MatchInv, NEW t \in Task, Active(t), Abandon(t),
           UNCHANGED <<files, current, map, shared>>
    PROVE  MatchInv'
<1>1. IsFun'
  BY DEF MatchInv, IsFun
<1>2. ASSUME ~ dirty' PROVE Clear'
  <2>1. ~ dirty /\ ~ half /\ half' = half /\ EndTask(t)
    BY <1>2 DEF Abandon, HistTyped
  <2> QED BY <2>1, EndClear
<1> QED BY <1>1, <1>2 DEF MatchInv

(* A step of the only active task, after which it is active still. *)
LEMMA GoOn ==
    ASSUME JobTyped, Clear, NEW t \in Task, Active(t), NEW s, s # "none",
           pc' = [pc EXCEPT ![t] = s], Good(t)', InStep', ~ shared'
    PROVE  Clear'
<1>1. ASSUME NEW u \in Task, u # t PROVE ~ Active(u)'
  BY <1>1 DEF Clear, Single, Active, JobTyped
<1>2. Active(t)'
  BY DEF Active, JobTyped
<1>3. ASSUME NEW u \in Task PROVE Good(u)'
  <2>1. CASE u = t
    BY <2>1
  <2>2. CASE u # t
    BY <1>1, <2>2 DEF Good, Progress, Phase, Merges, Saves, Builds, Active
  <2> QED BY <2>1, <2>2
<1> QED BY <1>1, <1>2, <1>3 DEF Clear, Single, Changing

LEMMA StartMatch ==
    ASSUME DiskTyped, JobTyped, MatchInv, NEW t \in Task, NEW v \in Targets, Start(t, v)
    PROVE  MatchInv'
<1>1. IsFun'
  BY DEF MatchInv, IsFun, Start, diskVars
<1> SUFFICES ASSUME ~ dirty' PROVE Clear'
  BY <1>1 DEF MatchInv
<1>2. ~ dirty /\ Running = {}
  BY DEF Start
<1>3. \A u \in Task : ~ Active(u)
  BY <1>2 DEF Running
<1>4. current # Blank
  BY VersionAssumption DEF Start, Loadable, DiskTyped, Blank, NoVersion
<1>41. Clear /\ ~ half /\ Matches(current)
  BY <1>2, <1>3, <1>4 DEF MatchInv, Clear, Changing, InStep
<1>5. /\ pc' = [pc EXCEPT ![t] = "download"] /\ ver'[t] = v /\ base'[t] = current
      /\ rest'[t] = DOMAIN Index(v) \cup DOMAIN Index(current)
      /\ map' = IF map = NoVersion THEN current ELSE map
      /\ UNCHANGED <<files, newf, current, half, shared>>
  BY DEF Start, Goto, diskVars, JobTyped
<1>6. \A u \in Task : u # t => ~ Active(u)'
  BY <1>3, <1>5 DEF Active, JobTyped
<1>7. pc'[t] = "download" /\ Active(t)'
  BY <1>5 DEF Active, JobTyped
<1>8. Good(t)'
  <2>1. ASSUME NEW n \in Name
        PROVE  /\ n \in rest'[t] => Same(n, current)
               /\ n \notin rest'[t] => Same(n, v)
    BY <1>41, <1>5 DEF Same, Matches
  <2>2. Progress(t)'
    BY <1>5, <1>7, <2>1 DEF Progress, Same, Index
  <2> QED BY <1>5, <1>7, <2>2 DEF Good, Phase, Saves
<1>9. ASSUME NEW u \in Task PROVE Good(u)'
  <2>1. CASE u # t
    BY <1>6, <2>1 DEF Good, Progress, Phase, Merges, Saves, Builds, Active
  <2> QED BY <1>8, <2>1
<1>10. InStep' /\ ~ shared'
  BY <1>41, <1>5 DEF Clear, InStep, Matches, Index
<1> QED BY <1>6, <1>7, <1>9, <1>10 DEF Clear, Single, Changing

LEMMA CrashMatch ==
    ASSUME JobTyped, HistTyped, MatchInv, NEW S, Crash(S)
    PROVE  MatchInv'
<1>1. IsFun'
  BY DEF MatchInv, IsFun, Crash
<1> SUFFICES ASSUME ~ dirty' PROVE Clear'
  BY <1>1 DEF MatchInv
<1>2. ~ dirty /\ ~ half
  BY DEF Crash, HistTyped
<1>3. \A u \in Task : ~ Active(u)'
  BY DEF Crash, Active, JobTyped
<1>4. ~ half' /\ InStep' /\ ~ shared'
  BY <1>2 DEF Crash, MatchInv, Clear, InStep, Matches, Index
<1>5. ASSUME NEW u \in Task PROVE Good(u)'
  BY <1>3 DEF Good, Progress, Phase, Merges, Saves, Builds, Active
<1> QED BY <1>3, <1>4, <1>5 DEF Clear, Single, Changing

(* The merge of one file, with e for the file it is at. *)
LEMMA MergeSkipMatch ==
    ASSUME JobTyped, Clear, NEW t \in Task, MergeSkip(t)
    PROVE  Clear'
<1> DEFINE e == Entry(t)
<1>1. /\ pc[t] = "download" /\ Unmerged(t) # {} /\ rest' = [rest EXCEPT ![t] = @ \ {e}]
      /\ ~ NeedMerge(ver[t], base[t], e)
      /\ UNCHANGED <<files, current, map, pc, ver, base, bad, half, shared>>
  BY DEF MergeSkip, Merging, NextFile, diskVars, histVars, marks
<1>2. e \in rest[t] /\ e \in Name /\ e \in DOMAIN Index(ver[t])
  BY <1>1, EntryIn
<1>3. Good(t) /\ Active(t)
  BY <1>1 DEF Clear, Active
<1>4. rest'[t] = rest[t] \ {e} /\ pc' = [pc EXCEPT ![t] = "download"]
  BY <1>1 DEF JobTyped
<1> HIDE DEF e
<1>5. Same(e, ver[t])
  BY <1>1, <1>2, <1>3 DEF NeedMerge, Good, Progress, Merges, Same
<1>6. ASSUME NEW n \in Name
      PROVE  /\ n \in rest'[t] => Same(n, base[t])
             /\ n \notin rest'[t] /\ ~ bad[t] => Same(n, ver[t])
  BY <1>1, <1>3, <1>4, <1>5 DEF Good, Progress, Merges
<1>7. Progress(t)'
  BY <1>1, <1>6 DEF Progress, Same, Index
<1>8. Good(t)'
  BY <1>1, <1>3, <1>7 DEF Good, Phase, Saves
<1>9. InStep' /\ ~ shared'
  BY <1>1, StepsInStep DEF Clear
<1> QED BY <1>3, <1>4, <1>8, <1>9, GoOn

(* The .new file is created, grows and is finished. *)
LEMMA BuildsMatch ==
    ASSUME Typed, NewInv, Clear, NEW t \in Task,
           MergeCreate(t) \/ MergeChunk(t) \/ MergeBuild(t), AtFile
    PROVE  Clear'
<1>0. JobTyped /\ Single /\ ~ shared /\ InStep
  BY DEF Typed, Clear
<1>1. files' = files
  BY ChunkNew DEF MergeCreate, MergeBuild, diskVars
<1>2. /\ pc[t] \in {"download", "write"}
      /\ UNCHANGED <<current, map, ver, base, rest, bad, half>>
  BY DEF MergeCreate, MergeChunk, MergeBuild, Merging, Writing, Written, diskVars, histVars
<1>3. PICK s \in {"write", "built"} : pc' = [pc EXCEPT ![t] = s]
  <2>1. CASE MergeChunk(t)
    <3>1. pc' = [pc EXCEPT ![t] = "write"]
      BY <1>0, <2>1 DEF MergeChunk, Writing, JobTyped
    <3> QED BY <3>1
  <2>2. CASE MergeCreate(t) \/ MergeBuild(t)
    BY <2>2 DEF MergeCreate, MergeBuild, Goto
  <2> QED BY <2>1, <2>2
<1>4. Active(t) /\ Good(t) /\ pc'[t] = s
  BY <1>0, <1>2, <1>3 DEF Active, Clear, JobTyped
<1>5. ~ shared'
  <2>1. CASE MergeCreate(t)
    <3>1. ASSUME NEW u \in Task \ {t} PROVE ~ Builds(u)
      BY <1>0, <1>4 DEF Single, Active, Builds
    <3> QED BY <1>0, <2>1, <3>1 DEF MergeCreate
  <2>2. CASE MergeChunk(t) \/ MergeBuild(t)
    BY <1>0, <2>2 DEF MergeChunk, MergeBuild, histVars, marks
  <2> QED BY <2>1, <2>2
<1>6. Progress(t)'
  <2>1. ASSUME NEW n \in Name
        PROVE  /\ n \in rest[t] => Same(n, base[t])
               /\ n \notin rest[t] /\ ~ bad[t] => Same(n, ver[t])
    BY <1>2, <1>4 DEF Good, Progress, Merges, Builds
  <2> QED BY <1>1, <1>2, <2>1 DEF Progress, Same, Index
<1>7. Good(t)'
  BY <1>3, <1>4, <1>6 DEF Good, Phase, Saves
<1>8. InStep'
  BY <1>0, <1>1, <1>2, StepsInStep
<1> QED BY <1>0, <1>3, <1>4, <1>5, <1>7, <1>8, GoOn

(* MergeFail and MergeReplaceFail: the task is bad from here on. *)
LEMMA BadMatch ==
    ASSUME JobTyped, Clear, NEW t \in Task, MergeFail(t) \/ MergeReplaceFail(t)
    PROVE  Clear'
<1> DEFINE e == Entry(t)
<1>1. /\ pc' = [pc EXCEPT ![t] = "download"]
      /\ rest' = [rest EXCEPT ![t] = @ \ {e}] /\ bad'[t] = TRUE
      /\ UNCHANGED <<files, current, map, ver, base, half, shared>>
  BY DEF MergeFail, MergeReplaceFail, NextFile, Goto, JobTyped, marks
<1>2. Merges(t) /\ Active(t)
  BY DEF MergeFail, MergeReplaceFail, Merging, Writing, Written, Merges, Builds, Active
<1>3. Good(t) /\ pc'[t] = "download" /\ rest'[t] = rest[t] \ {e}
  BY <1>1 DEF Clear, JobTyped
<1>4. ASSUME NEW n \in Name, n \in rest'[t] PROVE Same(n, base[t])
  BY <1>2, <1>3, <1>4 DEF Good, Progress
<1>7. Progress(t)'
  BY <1>1, <1>3, <1>4 DEF Progress, Same, Index
<1>8. Good(t)'
  BY <1>3, <1>7 DEF Good, Phase, Saves
<1>9. InStep' /\ ~ shared'
  BY <1>1, StepsInStep DEF Clear
<1> QED BY <1>1, <1>2, <1>8, <1>9, GoOn

LEMMA MergeRemoveMatch ==
    ASSUME JobTyped, AtFile, Clear, NEW t \in Task, MergeRemove(t)
    PROVE  Clear'
<1> DEFINE e == Entry(t)
<1>1. /\ pc[t] = "built" /\ files' = Drop(files, {e}) /\ pc' = [pc EXCEPT ![t] = "removed"]
      /\ half' = TRUE /\ UNCHANGED <<current, map, ver, base, rest, bad, shared>>
  BY DEF MergeRemove, Goto, marks
<1>3. Good(t) /\ Active(t) /\ pc'[t] = "removed"
  BY <1>1 DEF Clear, Active, JobTyped
<1>4. Entry(t)' = e
  BY <1>1 DEF Unmerged, Entry, Index
<1>6. e \in rest[t]
  BY <1>1, EntryIn DEF AtFile, Builds
<1> HIDE DEF e
<1>12. /\ DOMAIN files' = DOMAIN files \ {e}
       /\ \A m \in DOMAIN files \ {e} : files'[m] = files[m]
  BY <1>1 DEF Drop
<1>11. ASSUME NEW n \in Name, n # e, NEW v, Same(n, v) PROVE Same(n, v)'
  BY <1>11, <1>12 DEF Same, Index
<1>7. Progress(t)'
  <2>1. ASSUME NEW n \in Name
        PROVE  /\ n \in rest[t] /\ n # e => Same(n, base[t])
               /\ n \notin rest[t] /\ ~ bad[t] => n # e /\ Same(n, ver[t])
    BY <1>1, <1>3, <1>6 DEF Good, Progress, Merges, Builds
  <2> QED BY <1>1, <1>3, <1>4, <1>11, <2>1 DEF Progress, Same, Index
<1>8. Good(t)'
  BY <1>1, <1>3, <1>7 DEF Good, Phase, Saves
<1>9. InStep' /\ ~ shared'
  BY <1>1 DEF Clear, InStep
<1> QED BY <1>1, <1>3, <1>8, <1>9, GoOn

LEMMA MergeRenameMatch ==
    ASSUME JobTyped, AtFile, NewInv, Clear, NEW t \in Task, MergeRename(t)
    PROVE  Clear'
<1> DEFINE e == Entry(t)
<1>1. /\ pc[t] = "removed" /\ files' = Put(files, e, newf[e])
      /\ pc' = [pc EXCEPT ![t] = "download"] /\ rest' = [rest EXCEPT ![t] = @ \ {e}]
      /\ UNCHANGED <<current, map, ver, base, bad, half, shared>>
  BY DEF MergeRename, Goto, NextFile, histVars, marks
<1>3. Good(t) /\ Active(t) /\ pc'[t] = "download" /\ rest'[t] = rest[t] \ {e}
  BY <1>1 DEF Clear, Active, JobTyped
<1>5. newf[e] = Index(ver[t])[e] /\ half
  BY <1>1, <1>3 DEF MergeRename, NewInv, Ready, Content, Good, Phase
<1>6. e \in rest[t] /\ e \in DOMAIN Index(ver[t])
  BY <1>1, EntryIn DEF AtFile, Builds
<1>10. ASSUME NEW n \in Name
       PROVE  /\ n \in rest[t] /\ n # e => Same(n, base[t])
              /\ n \notin rest[t] /\ ~ bad[t] => n # e /\ Same(n, ver[t])
  BY <1>1, <1>3, <1>6 DEF Good, Progress, Merges, Builds
<1> HIDE DEF e
<1>13. /\ DOMAIN files' = DOMAIN files \cup {e} /\ files'[e] = newf[e]
       /\ \A m \in DOMAIN files : m # e => files'[m] = files[m]
  BY <1>1 DEF Put
<1>11. ASSUME NEW n \in Name, n # e, NEW v, Same(n, v) PROVE Same(n, v)'
  BY <1>11, <1>13 DEF Same, Index
<1>12. ASSUME NEW n \in Name, n = e PROVE Same(n, ver[t])'
  BY <1>1, <1>5, <1>6, <1>12, <1>13 DEF Same, Index
<1>7. Progress(t)'
  <2> SUFFICES ASSUME NEW n \in Name
               PROVE  /\ n \in rest'[t] => Same(n, base[t])'
                      /\ n \notin rest'[t] /\ ~ bad'[t] => Same(n, ver[t])'
    BY <1>3 DEF Progress
  <2>1. CASE n = e
    BY <1>3, <1>12, <2>1
  <2>2. CASE n # e
    BY <1>1, <1>3, <1>10, <1>11, <2>2 DEF Same, Index
  <2> QED BY <2>1, <2>2
<1>8. Good(t)'
  BY <1>1, <1>3, <1>7 DEF Good, Phase, Saves
<1>9. InStep' /\ ~ shared'
  BY <1>1, <1>5 DEF Clear, InStep
<1> QED BY <1>1, <1>3, <1>8, <1>9, GoOn

LEMMA MergeDeleteMatch ==
    ASSUME JobTyped, IsFun, Clear, NEW t \in Task, NEW d \in Name, MergeDelete(t, d)
    PROVE  Clear'
<1>1. /\ pc[t] = "download" /\ Unmerged(t) = {} /\ d \in rest[t] /\ files' = Drop(files, {d})
      /\ rest' = [rest EXCEPT ![t] = @ \ {d}] /\ half' = (half \/ d \in DOMAIN files)
      /\ UNCHANGED <<current, map, pc, ver, base, bad, shared>>
  BY DEF MergeDelete, Merged, marks
<1>2. rest'[t] = rest[t] \ {d} /\ pc' = [pc EXCEPT ![t] = "download"] /\ pc'[t] = "download"
  BY <1>1 DEF JobTyped
<1>3. Good(t) /\ Active(t)
  BY <1>1 DEF Clear, Active
<1>4. d \notin DOMAIN Index(ver[t])
  BY <1>1 DEF Unmerged
<1>5. /\ DOMAIN files' = DOMAIN files \ {d}
      /\ \A m \in DOMAIN files \ {d} : files'[m] = files[m]
  BY <1>1 DEF Drop
<1>6. ASSUME NEW n \in Name, n # d, NEW v, Same(n, v) PROVE Same(n, v)'
  BY <1>5, <1>6 DEF Same, Index
<1>7. Same(d, ver[t])'
  BY <1>1, <1>4, <1>5 DEF Same, Index
<1>8. Progress(t)'
  <2> SUFFICES ASSUME NEW n \in Name
               PROVE  /\ n \in rest'[t] => Same(n, base[t])'
                      /\ n \notin rest'[t] /\ ~ bad'[t] => Same(n, ver[t])'
    BY <1>2 DEF Progress
  <2>1. CASE n = d
    BY <1>2, <1>7, <2>1
  <2>2. CASE n # d
    <3>1. /\ n \in rest[t] => Same(n, base[t])
          /\ n \notin rest[t] /\ ~ bad[t] => Same(n, ver[t])
      BY <1>1, <1>3 DEF Good, Progress, Merges
    <3> QED BY <1>1, <1>2, <1>6, <2>2, <3>1 DEF Same, Index
  <2> QED BY <2>1, <2>2
<1>9. Good(t)'
  BY <1>1, <1>2, <1>3, <1>8 DEF Good, Phase, Saves
<1>10. InStep'
  <2>1. CASE half'
    BY <2>1 DEF InStep
  <2>2. CASE ~ half'
    <3>1. ~ half /\ d \notin DOMAIN files
      BY <1>1, <2>2
    <3>2. files' = files
      BY <1>1, <3>1 DEF Drop, IsFun
    <3> QED BY <1>1, <3>1, <3>2, StepsInStep DEF Clear
  <2> QED BY <2>1, <2>2
<1>11. ~ shared'
  BY <1>1 DEF Clear
<1> QED BY <1>2, <1>3, <1>9, <1>10, <1>11, GoOn

(* Every name has been handled, and nothing has failed. *)
LEMMA MergeEndMatch ==
    ASSUME DiskTyped, JobTyped, IsFun, Clear, NEW t \in Task, MergeEnd(t), ~ bad[t]
    PROVE  Clear'
<1>1. /\ pc[t] = "download" /\ rest[t] = {} /\ pc' = [pc EXCEPT ![t] = "save"]
      /\ UNCHANGED <<files, newf, current, map, ver, base, rest, bad, half, shared>>
  BY DEF MergeEnd, Merged, Goto, diskVars, marks
<1>2. Good(t) /\ Active(t) /\ pc'[t] = "save"
  BY <1>1 DEF Clear, Active, JobTyped
<1>3. \A n \in Name : Same(n, ver[t])
  BY <1>1, <1>2 DEF Good, Progress, Merges
<1>4. Matches(ver[t])
  <2>2. DOMAIN Index(ver[t]) \subseteq Name /\ DOMAIN files \subseteq Name
        /\ Index(ver[t]) = [n \in DOMAIN Index(ver[t]) |-> Index(ver[t])[n]]
    BY IndexTypes DEF DiskTyped
  <2>3. DOMAIN files = DOMAIN Index(ver[t])
    BY <1>3, <2>2 DEF Same
  <2>4. \A n \in DOMAIN files : files[n] = Index(ver[t])[n]
    BY <1>3, <2>2 DEF Same
  <2> QED BY <2>2, <2>3, <2>4 DEF Matches, IsFun
<1>5. Good(t)'
  BY <1>1, <1>2, <1>4 DEF Good, Progress, Phase, Merges, Builds, Matches, Index
<1>6. InStep' /\ ~ shared'
  BY <1>1, StepsInStep DEF Clear
<1> QED BY <1>1, <1>2, <1>5, <1>6, GoOn

(* The four steps of save_manifest.  No file changes. *)
LEMMA SaveMatch ==
    ASSUME JobTyped, Clear, NEW t \in Task,
           TruncateManifest(t) \/ SaveManifest(t) \/ TruncateVersion(t) \/ SwitchVersion(t)
    PROVE  Clear'
<1>0. Good(t) /\ InStep /\ ~ shared
  BY DEF Clear
<1>1. ASSUME TruncateManifest(t) \/ SaveManifest(t) \/ TruncateVersion(t) PROVE Clear'
  <2>1. /\ Saves(t) /\ current' \in {current, Blank}
        /\ \E s \in {"saving", "switch", "switching"} : pc' = [pc EXCEPT ![t] = s]
        /\ UNCHANGED <<files, map, ver, base, half, shared>>
    BY <1>1 DEF TruncateManifest, SaveManifest, TruncateVersion, Saves, Goto, histVars, marks
  <2>2. PICK s \in {"saving", "switch", "switching"} : pc' = [pc EXCEPT ![t] = s]
    BY <2>1
  <2>3. Active(t) /\ pc'[t] = s
    BY <2>1, <2>2 DEF Active, Saves, JobTyped
  <2>4. Good(t)'
    BY <1>0, <2>1, <2>3 DEF Good, Progress, Phase, Merges, Builds, Saves, Matches, Index
  <2>5. InStep' /\ ~ shared'
    BY <1>0, <2>1 DEF InStep, Matches, Index
  <2> QED BY <2>2, <2>3, <2>4, <2>5, GoOn
<1>2. CASE SwitchVersion(t)
  <2>1. /\ pc[t] = "switching" /\ pc' = [pc EXCEPT ![t] = "report"]
        /\ current' = ver[t] /\ map' = ver[t] /\ half' = FALSE /\ UNCHANGED <<files, shared>>
    BY <1>2 DEF SwitchVersion, Goto, marks
  <2>2. Active(t) /\ pc'[t] = "report"
    BY <2>1 DEF Active, JobTyped
  <2>3. Good(t)'
    BY <2>1, <2>2 DEF Good, Progress, Phase, Merges, Builds, Saves
  <2>4. InStep' /\ ~ shared'
    BY <1>0, <2>1 DEF Good, Phase, Saves, InStep, Matches, Index
  <2> QED BY <2>1, <2>2, <2>3, <2>4, GoOn
<1> QED BY <1>1, <1>2

LEMMA FunStep ==
    ASSUME IsFun, [Next]_vars
    PROVE  IsFun'
<1>1. ASSUME \/ files' = files
             \/ \E S : files' = Drop(files, S)
             \/ \E n, c : files' = Put(files, n, c)
      PROVE  IsFun'
  BY <1>1 DEF IsFun, Drop, Put
<1>2. ASSUME NEW t \in Task, Step(t)
      PROVE  \/ files' = files
             \/ \E S : files' = Drop(files, S)
             \/ \E n, c : files' = Put(files, n, c)
  <2>1. ASSUME NEW h \in Hash, DownloadChunk(t, h) \/ DownloadWriteFail(t, h)
        PROVE  files' = files
    BY <2>1 DEF DownloadChunk, DownloadWriteFail
  <2>2. ASSUME DownloadFail(t) \/ MergeDeleteFail(t) \/ SaveFail(t) \/ MergeSkip(t)
               \/ MergeEnd(t) \/ Report(t) \/ MergeBuild(t)
        PROVE  files' = files
    BY <2>2 DEF DownloadFail, MergeDeleteFail, SaveFail, MergeSkip, MergeEnd, Report, MergeBuild,
       diskVars
  <2>3. ASSUME MergeFail(t) \/ MergeReplaceFail(t) \/ MergeCreate(t) \/ TruncateManifest(t)
               \/ SaveManifest(t) \/ TruncateVersion(t) \/ SwitchVersion(t)
        PROVE  files' = files
    BY <2>3 DEF MergeFail, MergeReplaceFail, MergeCreate, TruncateManifest, SaveManifest,
       TruncateVersion, SwitchVersion
  <2>4. ASSUME MergeRemove(t) \/ \E n \in Name : MergeDelete(t, n)
        PROVE  \E S : files' = Drop(files, S)
    BY <2>4 DEF MergeRemove, MergeDelete
  <2>5. ASSUME MergeRename(t) PROVE \E n, c : files' = Put(files, n, c)
    BY <2>5 DEF MergeRename
  <2>6. ASSUME MergeChunk(t) PROVE files' = files \/ \E n, c : files' = Put(files, n, c)
    BY <2>6 DEF MergeChunk
  <2> QED BY <1>2, <2>1, <2>2, <2>3, <2>4, <2>5, <2>6 DEF Step
<1>3. ASSUME \/ UNCHANGED vars
             \/ \E t \in Task, v \in Targets : Start(t, v)
             \/ \E S \in SUBSET temp : Clean(S)
             \/ \E S \in SUBSET Hash : Crash(S)
      PROVE  files' = files
  BY <1>3 DEF vars, Start, Clean, Crash, diskVars
<1> QED BY <1>1, <1>2, <1>3 DEF Next, StartRefused

LEMMA MatchStep ==
    ASSUME WholeInv, MatchInv, [Next]_vars
    PROVE  MatchInv'
<1>0. Typed /\ DiskTyped /\ JobTyped /\ HistTyped /\ AtFile /\ IsFun /\ IsFun'
  BY TypeParts, FunStep DEF WholeInv, Typed, MatchInv
<1>01. ~ dirty => Clear /\ NewInv
  BY DEF MatchInv, Clear, WholeInv
<1>1. CASE UNCHANGED vars
  BY <1>1, Untouched DEF vars
<1>2. ASSUME NEW t \in Task, NEW v \in Targets, Start(t, v) PROVE MatchInv'
  BY <1>0, <1>2, StartMatch
<1>3. ASSUME NEW t \in Task, Step(t) PROVE MatchInv'
  <2>1. ASSUME NEW h \in Hash, DownloadChunk(t, h) PROVE MatchInv'
    BY <2>1, Untouched DEF DownloadChunk, histVars, marks
  <2>2. ASSUME \/ \E h \in Hash : DownloadWriteFail(t, h)
               \/ DownloadFail(t) \/ MergeDeleteFail(t) \/ SaveFail(t)
        PROVE  MatchInv'
    <3>1. Active(t) /\ Abandon(t) /\ UNCHANGED <<files, current, map, shared>>
      BY <2>2 DEF DownloadWriteFail, DownloadFail, MergeDeleteFail, SaveFail, HalfSaved, Merged,
         Active, diskVars, marks
    <3> QED BY <1>0, <3>1, AbandonMatch
  <2>3. ASSUME dirty' = dirty, ~ dirty => Clear' PROVE MatchInv'
    BY <1>0, <2>3 DEF MatchInv
  <2>4. ASSUME \/ MergeSkip(t) \/ MergeCreate(t) \/ MergeChunk(t) \/ MergeBuild(t)
               \/ MergeFail(t) \/ MergeReplaceFail(t) \/ MergeRemove(t) \/ MergeRename(t)
        PROVE  MatchInv'
    <3>1. dirty' = dirty
      BY <2>4 DEF MergeSkip, MergeCreate, MergeChunk, MergeBuild, MergeFail, MergeRemove,
         MergeRename, MergeReplaceFail, histVars
    <3>2. ~ dirty => Clear'
      BY <1>0, <1>01, <2>4, MergeSkipMatch, BuildsMatch, BadMatch, MergeRemoveMatch,
         MergeRenameMatch
    <3> QED BY <2>3, <3>1, <3>2
  <2>7. ASSUME \/ \E n \in Name : MergeDelete(t, n)
               \/ TruncateManifest(t) \/ SaveManifest(t) \/ TruncateVersion(t) \/ SwitchVersion(t)
        PROVE  MatchInv'
    <3>1. dirty' = dirty
      BY <2>7 DEF MergeDelete, TruncateManifest, SaveManifest, TruncateVersion, SwitchVersion,
         histVars
    <3>2. ~ dirty => Clear'
      BY <1>0, <1>01, <2>7, MergeDeleteMatch, SaveMatch
    <3> QED BY <2>3, <3>1, <3>2
  <2>5. CASE MergeEnd(t)
    <3>1. CASE bad[t]
      <4>1. Active(t) /\ Abandon(t) /\ UNCHANGED <<files, current, map, shared>>
        BY <2>5, <3>1 DEF MergeEnd, Merged, Active, diskVars, marks
      <4> QED BY <1>0, <4>1, AbandonMatch
    <3>2. CASE ~ bad[t]
      <4>1. dirty' = dirty
        BY <2>5, <3>2 DEF MergeEnd
      <4>2. ~ dirty => Clear'
        BY <1>0, <1>01, <2>5, <3>2, MergeEndMatch
      <4> QED BY <2>3, <4>1, <4>2
    <3> QED BY <3>1, <3>2
  <2>6. CASE Report(t)
    <3>1. Active(t) /\ UNCHANGED <<files, current, map, shared>> /\ pc[t] = "report"
      BY <2>6 DEF Report, Active, diskVars, histVars, marks
    <3>2. CASE EndTask(t) /\ UNCHANGED histVars
      <4>1. dirty' = dirty /\ half' = half
        BY <3>2 DEF histVars
      <4>2. ~ dirty => ~ half
        BY <3>1 DEF MatchInv, Clear, Good, Phase
      <4>3. ~ dirty => Clear'
        BY <1>0, <3>1, <3>2, <4>1, <4>2, EndClear
      <4> QED BY <2>3, <4>1, <4>3
    <3>3. CASE Abandon(t)
      BY <1>0, <3>1, <3>3, AbandonMatch
    <3> QED BY <2>6, <3>2, <3>3 DEF Report
  <2> QED BY <1>3, <2>1, <2>2, <2>4, <2>5, <2>6, <2>7 DEF Step
<1>4. ASSUME NEW S \in SUBSET temp, Clean(S) PROVE MatchInv'
  BY <1>4, Untouched DEF Clean, jobVars, marks
<1>5. ASSUME NEW S \in SUBSET Hash, Crash(S) PROVE MatchInv'
  BY <1>0, <1>5, CrashMatch
<1> QED
  BY <1>1, <1>2, <1>3, <1>4, <1>5 DEF Next, StartRefused

LEMMA MatchInit == Init => MatchInv
<1> SUFFICES ASSUME Init PROVE MatchInv
  OBVIOUS
<1>1. files = NoFile /\ current = NoVersion /\ map = NoVersion /\ half = FALSE /\ ~ shared
  BY DEF Init
<1>2. IsFun /\ InStep
  BY <1>1, VersionAssumption DEF IsFun, InStep, Matches, Index, NoFile
<1>3. \A t \in Task : ~ Active(t)
  BY DEF Init, Active
<1>4. \A t \in Task : Good(t)
  BY <1>3, RestGood
<1>5. Clear
  BY <1>1, <1>2, <1>3, <1>4 DEF Clear, Single, Changing
<1> QED BY <1>2, <1>5 DEF MatchInv

(* With the files of the loaded version in place, read_chunk finds every   *)
(* chunk of the version where its map says, and no other.                  *)
LEMMA Served ==
    ASSUME DiskTyped, MatchInv
    PROVE  ReadsTruthful
<1> SUFFICES ASSUME ~ dirty, ~ half, NEW h \in Hash, h \notin torn, h \notin temp
             PROVE  \/ ReadChunk(h) = h
                    \/ ReadChunk(h) = Nothing /\ h \notin Chunks(map)
  BY DEF ReadsTruthful, ReadChunk, ReadTemp
<1>1. CASE h \notin Chunks(map)
  BY <1>1 DEF ReadChunk
<1>2. CASE h \in Chunks(map)
  <2> DEFINE H == {n \in DOMAIN Index(map) : h \in Range(Index(map)[n])}
  <2>1. H # {} /\ H \in SUBSET Name
    BY <1>2, IndexTypes DEF Chunks
  <2>2. files = Index(map)
    <3>1. map \in Version
      BY <2>1, IndexTypes
    <3> QED BY <3>1, VersionAssumption DEF MatchInv, Clear, InStep, Matches
  <2>3. Home(map, h) \in H
    BY <2>1, FirstIn DEF Home
  <2> DEFINE n == Home(map, h)
             s == Index(map)[n]
  <2> HIDE DEF n
  <2>4. n \in DOMAIN files /\ files[n] = s /\ s \in Seq(Hash) /\ h \in Range(s)
    BY <2>2, <2>3, IndexTypes DEF n
  <2>5. Position(s, h) \in DOMAIN s /\ s[Position(s, h)] = h
    BY <2>4, PositionIn
  <2>6. ReadAt(files[n], Position(s, h)) = h
    BY <2>4, <2>5 DEF ReadAt
  <2> QED BY <1>2, <2>4, <2>6 DEF ReadChunk, n
<1> QED BY <1>1, <1>2

(* run_cafe and merge_files: as long as no task stopped half way and no    *)
(* two overlapped, the files between two updates are those of the version  *)
(* that current.version names, for any manifests and any sequence of tasks *)
(* that fail before they change a file, of cleaners and of crashes.        *)
THEOREM FilesAlwaysMatchCurrent == Spec => []FilesMatchCurrent
<1>1. WholeInv /\ MatchInv => FilesMatchCurrent
  BY VersionAssumption DEF MatchInv, Clear, InStep, FilesMatchCurrent, Blank
<1> QED BY <1>1, WholeInit, WholeStep, MatchInit, MatchStep, PTL DEF Spec

(* CafeStore::read_chunk: in the same states a peer gets the chunk it asks *)
(* for, or nothing; nothing only for a chunk that the loaded version does  *)
(* not have.  A block that was left half-written is the one exception.     *)
THEOREM ReadsAlwaysTruthful == Spec => []ReadsTruthful
<1>1. WholeInv /\ MatchInv => ReadsTruthful
  BY TypeParts, Served DEF WholeInv, Typed
<1> QED BY <1>1, WholeInit, WholeStep, MatchInit, MatchStep, PTL DEF Spec
=============================================================================
