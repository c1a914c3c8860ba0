------------------------- MODULE TaskControlProofs --------------------------
(***************************************************************************)
(* Type correctness of the task flow; that an agent only runs tasks        *)
(* created for the node it is registered as; that the event of a task is   *)
(* in one place only; and that the status of a task that does not run      *)
(* twice follows the agent's reports; for any number of tasks, restarts,   *)
(* streams and failures.                                                   *)
(*                                                                         *)
(* RightNode is not inductive: a task reaches the agent through a queue, a *)
(* loop and a stream, and each of them must already hold only tasks of its *)
(* own node; and a task that waits anywhere must not be one that           *)
(* create_task could still give to another node.                           *)
(***************************************************************************)
EXTENDS TaskControl, SequenceTheorems, TLAPS

(* Tasks not created yet have no node; the queues and streams carry tasks  *)
(* of their own node; the agent's stream is its own; an agent that has not *)
(* joined holds nothing.                                                   *)
Unowned == \A t \in Task : status[t] = "none" => owner[t] = None
CreatingOwned == \A t \in creating : owner[t] \in Node
QueueOwned == \A n \in Node : \A i \in DOMAIN queue[n] : owner[queue[n][i]] = n
HeldOwned ==
    \A s \in Stream : \A i \in DOMAIN held[s] :
        owner[held[s][i]] = peer[s] /\ peer[s] # None /\ s \in loop
ChanOwned ==
    \A s \in Stream : \A i \in DOMAIN chan[s] :
        owner[chan[s][i]] = peer[s] /\ peer[s] # None /\ s <= streams
LoopOwned == \A s \in loop : peer[s] \in Node
AgentOwned ==
    /\ mine # None => joined /\ peer[mine] = me
    /\ joined => me # None
    /\ ~joined => \A w \in Way : spawned[w] = {} /\ running[w] = {}
    /\ RightNode
RightInv ==
    /\ TypeOK
    /\ Unowned /\ CreatingOwned /\ QueueOwned /\ HeldOwned /\ ChanOwned
    /\ LoopOwned /\ AgentOwned

LEMMA EmptyQueue == <<>> \in Seq(Task)
  OBVIOUS

LEMMA Updated ==
    ASSUME NEW D, NEW R, NEW f \in [D -> R], NEW x \in D, NEW y \in R
    PROVE  [f EXCEPT ![x] = y] \in [D -> R]
  OBVIOUS

LEMMA TypeInit == Init => TypeOK
<1> SUFFICES ASSUME Init PROVE TypeOK
  OBVIOUS
<1>1. queue \in [Node -> Seq(Task)]
  BY EmptyQueue DEF Init
<1>2. held \in [Stream -> Seq(Task)] /\ chan \in [Stream -> Seq(Task)]
  BY EmptyQueue DEF Init
<1>3. peer \in [Stream -> 0 .. nodes] /\ owner \in [Task -> 0 .. nodes]
  BY DEF Init, None
<1>4. status \in [Task -> {"none", "queued", "running", "done", "failed",
                           "cancelled"}]
  BY DEF Init
<1>5. conn \in [Stream -> {"open", "broken", "closed"}]
  BY DEF Init
<1>6. nodes \in 0 .. MaxNode /\ streams \in 0 .. MaxStream
      /\ faults \in 0 .. MaxFaults /\ loop \subseteq 1 .. streams
  BY BoundsAssumption DEF Init
<1>7. /\ me \in {None, nodes} /\ mine \in {None, streams} /\ joined \in BOOLEAN
      /\ creating \subseteq Task /\ cancelling \subseteq Task
      /\ early \subseteq Task /\ overtaken \subseteq cancelling /\ missing \subseteq Task
  BY Zenon DEF Init, None
<1>8. spawned \in [Way -> SUBSET Task] /\ running \in [Way -> SUBSET Task]
  BY DEF Init
<1> QED
  BY <1>1, <1>2, <1>3, <1>4, <1>5, <1>6, <1>7, <1>8 DEF TypeOK

LEMMA TypeStep ==
    ASSUME TypeOK, LoopOwned, [Next]_vars
    PROVE  TypeOK'
<1> USE BoundsAssumption DEF TypeOK, Node, Stream, None, Way, history
<1>1. CASE UNCHANGED vars
  BY <1>1 DEF vars
<1>2. ASSUME NEW t \in Task, NEW n \in Node, CreateTask(t, n) PROVE TypeOK'
  BY SMTT(30), <1>2 DEF CreateTask, SetStatus, streamVars, agentVars
<1>3. ASSUME NEW t \in Task, QueueTask(t) PROVE TypeOK'
  <2>1. CASE owner[t] \in Node
    <3>1. Append(queue[owner[t]], t) \in Seq(Task)
      BY <2>1, AppendProperties
    <3>2. queue' \in [Node -> Seq(Task)]
      BY <1>3, <2>1, <3>1, Updated DEF QueueTask
    <3> QED BY <1>3, <3>2 DEF QueueTask, dbVars, streamVars, agentVars
  <2>2. CASE owner[t] \notin Node
    <3>1. queue' \in [Node -> Seq(Task)]
      BY <1>3, <2>2 DEF QueueTask
    <3> QED BY <1>3, <3>1 DEF QueueTask, dbVars, streamVars, agentVars
  <2> QED BY <2>1, <2>2
<1>4. ASSUME NEW t \in Task, CancelRead(t) PROVE TypeOK'
  BY <1>4 DEF CancelRead, dbVars, streamVars, agentVars
<1>5. ASSUME NEW t \in Task, CancelWrite(t) PROVE TypeOK'
  BY <1>5 DEF CancelWrite, SetStatus, streamVars, agentVars
<1>6. CASE Register
  <2>1. nodes' \in 0 .. MaxNode /\ me' \in {None, nodes'}
    BY <1>6 DEF Register
  <2>2. 0 .. nodes \subseteq 0 .. nodes'
    BY <1>6 DEF Register
  <2>3. owner' \in [Task -> 0 .. nodes'] /\ peer' \in [Stream -> 0 .. nodes']
    BY <1>6, <2>2 DEF Register, streamVars
  <2> QED BY <1>6, <2>1, <2>3 DEF Register, memVars, streamVars
<1>7. CASE Joined
  BY <1>7 DEF Joined, dbVars, memVars, streamVars
<1>8. CASE Watch
  <2>1. streams + 1 \in Stream /\ me \in 0 .. nodes
    BY <1>8 DEF Watch
  <2>2. peer' \in [Stream -> 0 .. nodes]
    BY <1>8, <2>1, Updated DEF Watch
  <2>3. conn' \in [Stream -> {"open", "broken", "closed"}]
    BY <1>8, <2>1, Updated DEF Watch
  <2>4. loop' \subseteq 1 .. streams' /\ mine' \in {None, streams'}
    BY SMTT(30), <1>8, <2>1 DEF Watch
  <2>5. streams' \in 0 .. MaxStream
    BY <1>8 DEF Watch
  <2>6. joined' \in BOOLEAN
    BY <1>8 DEF Watch
  <2> QED BY <1>8, <2>2, <2>3, <2>4, <2>5, <2>6 DEF Watch, dbVars, memVars
<1>9. ASSUME NEW s \in Stream, Drain(s) PROVE TypeOK'
  <2>1. CASE peer[s] \in Node
    <3>1. held' \in [Stream -> Seq(Task)]
      BY <1>9, <2>1, Updated DEF Drain
    <3>2. queue' \in [Node -> Seq(Task)]
      BY <1>9, <2>1, EmptyQueue, Updated DEF Drain
    <3> QED BY <1>9, <3>1, <3>2 DEF Drain, dbVars, agentVars
  <2> QED BY <1>9, <2>1 DEF Drain, LoopOwned
<1>10. ASSUME NEW s \in Stream, Send(s) PROVE TypeOK'
  <2>1. Tail(held[s]) \in Seq(Task) /\ Head(held[s]) \in Task
    BY <1>10, HeadTailProperties DEF Send
  <2>2. Append(chan[s], Head(held[s])) \in Seq(Task)
    BY <2>1, AppendProperties
  <2>3. held' \in [Stream -> Seq(Task)]
    BY <1>10, <2>1, Updated DEF Send
  <2>4. chan' \in [Stream -> Seq(Task)]
    BY <1>10, <2>2, Updated DEF Send
  <2> QED BY <1>10, <2>3, <2>4 DEF Send, dbVars, memVars, agentVars
<1>11. ASSUME NEW s \in Stream, LoopEnd(s) PROVE TypeOK'
  <2>1. held' \in [Stream -> Seq(Task)]
    BY <1>11, EmptyQueue, Updated DEF LoopEnd
  <2> QED BY <1>11, <2>1 DEF LoopEnd, dbVars, memVars, agentVars
<1>12. ASSUME NEW s \in Stream, NoticeBroken(s) PROVE TypeOK'
  BY <1>12 DEF NoticeBroken, dbVars, memVars, agentVars
<1>13. CASE Receive
  <2>1. mine \in Stream /\ chan[mine] \in Seq(Task) /\ chan[mine] # <<>>
    BY <1>13 DEF Receive
  <2>2. Head(chan[mine]) \in Task /\ Tail(chan[mine]) \in Seq(Task)
    BY <2>1, HeadTailProperties
  <2>3. chan' \in [Stream -> Seq(Task)]
    BY <1>13, <2>1, <2>2, Updated DEF Receive
  <2>4. spawned' \in [Way -> SUBSET Task]
    BY <1>13, <2>2 DEF Receive
  <2> QED BY <1>13, <2>3, <2>4 DEF Receive, dbVars, memVars
<1>14. CASE BreakStream
  <2>1. mine \in Stream
    BY <1>14 DEF BreakStream
  <2>2. conn' \in [Stream -> {"open", "broken", "closed"}]
    BY <1>14, <2>1, Updated DEF BreakStream
  <2>3. faults' \in 0 .. MaxFaults /\ mine' \in {None, streams'}
    BY <1>14 DEF BreakStream, Fault
  <2> QED BY <1>14, <2>2, <2>3 DEF BreakStream, dbVars, memVars
<1>15. ASSUME NEW w \in Way, NEW t \in Task, Begin(w, t) PROVE TypeOK'
  <2>1. status' \in [Task -> {"none", "queued", "running", "done", "failed", "cancelled"}]
    BY <1>15 DEF Begin, ReportTask, SetStatus
  <2>2. spawned' \in [Way -> SUBSET Task] /\ running' \in [Way -> SUBSET Task]
    BY <1>15 DEF Begin
  <2>3. overtaken' \subseteq cancelling'
    BY <1>15 DEF Begin, ReportTask, memVars
  <2> QED BY <1>15, <2>1, <2>2, <2>3 DEF Begin, ReportTask, memVars, streamVars
<1>16. ASSUME NEW w \in Way, NEW t \in Task, BeginFail(w, t) PROVE TypeOK'
  <2>1. spawned' \in [Way -> SUBSET Task] /\ running' \in [Way -> SUBSET Task]
    BY <1>16 DEF BeginFail
  <2>2. faults' \in 0 .. MaxFaults
    BY <1>16 DEF BeginFail, Fault
  <2> QED BY <1>16, <2>1, <2>2 DEF BeginFail, dbVars, memVars, streamVars
<1>17. ASSUME NEW w \in Way, NEW t \in Task, EndSilent(w, t) PROVE TypeOK'
  <2>1. spawned' \in [Way -> SUBSET Task] /\ running' \in [Way -> SUBSET Task]
    BY <1>17 DEF EndSilent
  <2>2. faults' \in 0 .. MaxFaults
    BY <1>17 DEF EndSilent, Fault
  <2> QED BY <1>17, <2>1, <2>2 DEF EndSilent, dbVars, memVars, streamVars
<1>18. ASSUME NEW w \in Way, NEW t \in Task, NEW o \in {"done", "failed"}, End(w, t, o)
      PROVE  TypeOK'
  <2>1. status' \in [Task -> {"none", "queued", "running", "done", "failed", "cancelled"}]
    BY <1>18 DEF End, ReportTask, SetStatus
  <2>2. spawned' \in [Way -> SUBSET Task] /\ running' \in [Way -> SUBSET Task]
    BY <1>18 DEF End
  <2>3. overtaken' \subseteq cancelling'
    BY <1>18 DEF End, ReportTask, memVars
  <2> QED BY <1>18, <2>1, <2>2, <2>3 DEF End, ReportTask, memVars, streamVars
<1>21. ASSUME NEW w \in Way, NEW t \in Task, EndMissing(w, t) PROVE TypeOK'
  <2>1. spawned' \in [Way -> SUBSET Task] /\ running' \in [Way -> SUBSET Task]
    BY <1>21 DEF EndMissing
  <2>2. missing' \subseteq Task
    BY <1>21 DEF EndMissing
  <2> QED BY <1>21, <2>1, <2>2 DEF EndMissing, dbVars, memVars, streamVars
<1>19. CASE AgentCrash
  <2>1. conn' \in [Stream -> {"open", "broken", "closed"}]
    <3>1. CASE mine = None
      BY <1>19, <3>1 DEF AgentCrash
    <3>2. CASE mine \in Stream
      BY <1>19, <3>2, Updated DEF AgentCrash
    <3> QED BY <3>1, <3>2
  <2>2. me' \in {None, nodes'} /\ mine' \in {None, streams'} /\ joined' \in BOOLEAN
    BY <1>19 DEF AgentCrash
  <2>3. faults' \in 0 .. MaxFaults
    BY <1>19 DEF AgentCrash, Fault
  <2> QED BY <1>19, <2>1, <2>2, <2>3 DEF AgentCrash, dbVars, memVars
<1>20. CASE SchedulerCrash
  <2>1. faults' \in 0 .. MaxFaults
    BY <1>20 DEF SchedulerCrash, Fault
  <2>2. /\ queue' \in [Node -> Seq(Task)]
        /\ held' \in [Stream -> Seq(Task)] /\ chan' \in [Stream -> Seq(Task)]
    BY <1>20 DEF SchedulerCrash
  <2>3. me' \in {None, nodes'} /\ mine' \in {None, streams'}
    BY <1>20 DEF SchedulerCrash, dbVars
  <2> QED BY <1>20, <2>1, <2>2, <2>3 DEF SchedulerCrash, dbVars
<1> HIDE DEF TypeOK
<1> QED
  BY <1>1, <1>2, <1>3, <1>4, <1>5, <1>6, <1>7, <1>8, <1>9, <1>10, <1>11,
     <1>12, <1>13, <1>14, <1>15, <1>16, <1>17, <1>18, <1>19, <1>20, <1>21 DEF Next

LEMMA RightInit == Init => RightInv
<1> SUFFICES ASSUME Init PROVE RightInv
  OBVIOUS
<1>1. TypeOK
  BY TypeInit
<1>2. QueueOwned /\ HeldOwned /\ ChanOwned
  BY DEF Init, QueueOwned, HeldOwned, ChanOwned
<1>3. Unowned /\ CreatingOwned /\ LoopOwned /\ AgentOwned
  BY DEF Init, Unowned, CreatingOwned, LoopOwned, AgentOwned, RightNode
<1> QED
  BY <1>1, <1>2, <1>3 DEF RightInv

LEMMA RightStep ==
    ASSUME RightInv, [Next]_vars
    PROVE  RightInv'
<1>0. TypeOK /\ TypeOK'
  BY TypeStep DEF RightInv
<1> USE <1>0, BoundsAssumption, TaskAssumption DEF RightInv, Node, Stream, None, Way
<1>1. CASE UNCHANGED vars
  BY <1>1 DEF vars,
     Unowned, CreatingOwned, QueueOwned, HeldOwned, ChanOwned, LoopOwned, AgentOwned, RightNode
<1>2. ASSUME NEW t \in Task, NEW n \in Node, CreateTask(t, n) PROVE RightInv'
  <2>1. /\ owner[t] = None
        /\ \A u \in Task : u # t => owner'[u] = owner[u] /\ status'[u] = status[u]
        /\ owner'[t] = n /\ status'[t] = "queued"
    BY <1>2 DEF CreateTask, SetStatus, Unowned, TypeOK
  <2>2. Unowned'
    BY <2>1 DEF Unowned
  <2>3. CreatingOwned'
    BY <1>2, <2>1 DEF CreateTask, CreatingOwned
  <2>4. QueueOwned'
    BY <1>2, <2>1 DEF CreateTask, QueueOwned
  <2>5. HeldOwned' /\ ChanOwned'
    BY <1>2, <2>1 DEF CreateTask, HeldOwned, ChanOwned, streamVars
  <2>6. LoopOwned' /\ AgentOwned'
    BY <1>2, <2>1 DEF CreateTask, LoopOwned, AgentOwned, RightNode, streamVars,
       agentVars
  <2> QED BY <2>2, <2>3, <2>4, <2>5, <2>6
<1>3. ASSUME NEW t \in Task, QueueTask(t) PROVE RightInv'
  BY SMTT(30), <1>3 DEF QueueTask, dbVars, streamVars, agentVars,
     Unowned, CreatingOwned, QueueOwned, HeldOwned, ChanOwned, LoopOwned, AgentOwned, RightNode
<1>4. ASSUME NEW t \in Task, CancelRead(t) PROVE RightInv'
  BY <1>4 DEF CancelRead, dbVars, streamVars, agentVars,
     Unowned, CreatingOwned, QueueOwned, HeldOwned, ChanOwned, LoopOwned, AgentOwned, RightNode
<1>5. ASSUME NEW t \in Task, CancelWrite(t) PROVE RightInv'
  BY <1>5 DEF CancelWrite, SetStatus, streamVars, agentVars,
     Unowned, CreatingOwned, QueueOwned, HeldOwned, ChanOwned, LoopOwned, AgentOwned, RightNode
<1>6. CASE Register
  BY <1>6 DEF Register, memVars, streamVars,
     Unowned, CreatingOwned, QueueOwned, HeldOwned, ChanOwned, LoopOwned, AgentOwned, RightNode
<1>7. CASE Joined
  BY <1>7 DEF Joined, dbVars, memVars, streamVars,
     Unowned, CreatingOwned, QueueOwned, HeldOwned, ChanOwned, LoopOwned, AgentOwned, RightNode
<1>8. CASE Watch
  <2>1. Unowned' /\ CreatingOwned' /\ QueueOwned'
    BY <1>8 DEF Watch, dbVars, memVars, Unowned, CreatingOwned, QueueOwned
  <2>2. /\ \A s \in Stream : s # streams + 1 => peer'[s] = peer[s]
        /\ peer'[streams + 1] = me /\ me \in Node
    BY <1>8 DEF Watch, AgentOwned, TypeOK
  <2>a. /\ held' = held /\ chan' = chan /\ owner' = owner
        /\ streams' = streams + 1 /\ streams \in Nat
        /\ loop \subseteq loop' /\ streams + 1 \notin loop
    BY <1>8 DEF Watch, dbVars, TypeOK
  <2>3. HeldOwned'
    <3> SUFFICES ASSUME NEW s \in Stream, NEW i \in DOMAIN held[s]
                 PROVE  owner[held[s][i]] = peer'[s] /\ peer'[s] # None /\ s \in loop'
      BY <2>a DEF HeldOwned
    <3>1. owner[held[s][i]] = peer[s] /\ peer[s] # None /\ s \in loop
      BY DEF HeldOwned
    <3> QED BY <2>2, <2>a, <3>1
  <2>4. ChanOwned'
    <3> SUFFICES ASSUME NEW s \in Stream, NEW i \in DOMAIN chan[s]
                 PROVE  owner[chan[s][i]] = peer'[s] /\ peer'[s] # None /\ s <= streams + 1
      BY <2>a DEF ChanOwned
    <3>1. owner[chan[s][i]] = peer[s] /\ peer[s] # None /\ s <= streams
      BY DEF ChanOwned
    <3> QED BY <2>2, <2>a, <3>1
  <2>5. LoopOwned'
    BY <1>8, <2>2 DEF Watch, LoopOwned
  <2>6. AgentOwned'
    BY <1>8, <2>2 DEF Watch, dbVars, AgentOwned, RightNode
  <2> QED BY <2>1, <2>3, <2>4, <2>5, <2>6
<1>9. ASSUME NEW s \in Stream, Drain(s) PROVE RightInv'
  BY <1>9 DEF Drain, dbVars, agentVars,
     Unowned, CreatingOwned, QueueOwned, HeldOwned, ChanOwned, LoopOwned, AgentOwned, RightNode
<1>10. ASSUME NEW s \in Stream, Send(s) PROVE RightInv'
  <2>1. /\ Head(held[s]) = held[s][1] /\ 1 \in DOMAIN held[s]
        /\ Tail(held[s]) \in Seq(Task) /\ Len(Tail(held[s])) = Len(held[s]) - 1
        /\ \A i \in 1 .. Len(Tail(held[s])) : Tail(held[s])[i] = held[s][i + 1]
    BY <1>10, HeadTailProperties DEF Send, TypeOK
  <2>2. owner[Head(held[s])] = peer[s] /\ peer[s] # None
    BY <2>1 DEF HeldOwned
  <2>3. HeldOwned'
    <3>1. \A i \in DOMAIN Tail(held[s]) : owner[Tail(held[s])[i]] = peer[s]
      BY <2>1 DEF HeldOwned
    <3>2. /\ held'[s] = Tail(held[s]) /\ \A r \in Stream : r # s => held'[r] = held[r]
          /\ peer' = peer /\ owner' = owner /\ loop' = loop /\ s \in loop
      BY <1>10 DEF Send, dbVars, TypeOK
    <3> SUFFICES ASSUME NEW r \in Stream, NEW i \in DOMAIN held'[r]
                 PROVE  owner[held'[r][i]] = peer[r] /\ peer[r] # None /\ r \in loop
      BY <3>2 DEF HeldOwned
    <3>3. CASE r = s
      BY <2>2, <3>1, <3>2, <3>3
    <3>4. CASE r # s
      <4>1. held'[r] = held[r]
        BY <3>2, <3>4
      <4> QED BY <4>1 DEF HeldOwned
    <3> QED BY <3>3, <3>4
  <2>4. ChanOwned'
    <3>1. \A i \in DOMAIN Append(chan[s], Head(held[s])) :
            owner[Append(chan[s], Head(held[s]))[i]] = peer[s]
      <4>1. chan[s] \in Seq(Task) /\ Head(held[s]) \in Task
        BY <2>1 DEF TypeOK
      <4>2. /\ DOMAIN Append(chan[s], Head(held[s])) = 1 .. Len(chan[s]) + 1
            /\ DOMAIN chan[s] = 1 .. Len(chan[s]) /\ Len(chan[s]) \in Nat
            /\ \A i \in 1 .. Len(chan[s]) :
                   Append(chan[s], Head(held[s]))[i] = chan[s][i]
            /\ Append(chan[s], Head(held[s]))[Len(chan[s]) + 1] = Head(held[s])
        BY <4>1, AppendProperties
      <4> QED BY <2>2, <4>2 DEF ChanOwned
    <3>2. s <= streams
      BY <1>10 DEF Send, TypeOK
    <3> QED BY <1>10, <2>2, <3>1, <3>2 DEF Send, dbVars, ChanOwned, TypeOK
  <2>5. Unowned' /\ CreatingOwned' /\ QueueOwned' /\ LoopOwned' /\ AgentOwned'
    BY <1>10 DEF Send, dbVars, memVars, agentVars, Unowned, CreatingOwned,
       QueueOwned, LoopOwned, AgentOwned, RightNode
  <2> QED BY <2>3, <2>4, <2>5
<1>11. ASSUME NEW s \in Stream, LoopEnd(s) PROVE RightInv'
  <2>1. HeldOwned'
    BY <1>11 DEF LoopEnd, dbVars, HeldOwned, TypeOK
  <2>2. Unowned' /\ CreatingOwned' /\ QueueOwned' /\ ChanOwned'
    BY <1>11 DEF LoopEnd, dbVars, memVars, Unowned, CreatingOwned, QueueOwned,
       ChanOwned
  <2>3. LoopOwned' /\ AgentOwned'
    BY <1>11 DEF LoopEnd, dbVars, agentVars, LoopOwned, AgentOwned, RightNode
  <2> QED BY <2>1, <2>2, <2>3
<1>12. ASSUME NEW s \in Stream, NoticeBroken(s) PROVE RightInv'
  BY <1>12 DEF NoticeBroken, dbVars, memVars, agentVars,
     Unowned, CreatingOwned, QueueOwned, HeldOwned, ChanOwned, LoopOwned, AgentOwned, RightNode
<1>13. CASE Receive
  <2>1. mine \in Stream /\ chan[mine] \in Seq(Task) /\ chan[mine] # <<>>
    BY <1>13 DEF Receive, TypeOK
  <2>2. /\ Head(chan[mine]) = chan[mine][1] /\ 1 \in DOMAIN chan[mine]
        /\ Tail(chan[mine]) \in Seq(Task)
        /\ Len(Tail(chan[mine])) = Len(chan[mine]) - 1
        /\ \A i \in 1 .. Len(Tail(chan[mine])) :
                Tail(chan[mine])[i] = chan[mine][i + 1]
    BY <2>1, HeadTailProperties
  <2>3. owner[Head(chan[mine])] = me
    BY <1>13, <2>1, <2>2 DEF Receive, ChanOwned, AgentOwned
  <2>4. ChanOwned'
    <3>1. \A i \in DOMAIN Tail(chan[mine]) :
            owner[Tail(chan[mine])[i]] = peer[mine] /\ peer[mine] # None
      BY <2>1, <2>2 DEF ChanOwned
    <3> QED BY <1>13, <2>1, <3>1 DEF Receive, dbVars, ChanOwned
  <2>5. AgentOwned'
    BY <1>13, <2>3 DEF Receive, dbVars, AgentOwned, RightNode
  <2>6. Unowned' /\ CreatingOwned' /\ QueueOwned' /\ HeldOwned' /\ LoopOwned'
    BY <1>13 DEF Receive, dbVars, memVars, Unowned, CreatingOwned, QueueOwned,
       HeldOwned, LoopOwned
  <2> QED BY <2>4, <2>5, <2>6
<1>14. CASE BreakStream
  BY <1>14 DEF BreakStream, dbVars, memVars,
     Unowned, CreatingOwned, QueueOwned, HeldOwned, ChanOwned, LoopOwned, AgentOwned, RightNode
<1>15. ASSUME NEW w \in Way, NEW t \in Task, Begin(w, t) PROVE RightInv'
  BY <1>15 DEF Begin, ReportTask, SetStatus, memVars, streamVars,
     Unowned, CreatingOwned, QueueOwned, HeldOwned, ChanOwned, LoopOwned, AgentOwned, RightNode
<1>16. ASSUME NEW w \in Way, NEW t \in Task, BeginFail(w, t) PROVE RightInv'
  BY <1>16 DEF BeginFail, dbVars, memVars, streamVars,
     Unowned, CreatingOwned, QueueOwned, HeldOwned, ChanOwned, LoopOwned, AgentOwned, RightNode
<1>17. ASSUME NEW w \in Way, NEW t \in Task, EndSilent(w, t) PROVE RightInv'
  BY <1>17 DEF EndSilent, dbVars, memVars, streamVars,
     Unowned, CreatingOwned, QueueOwned, HeldOwned, ChanOwned, LoopOwned, AgentOwned, RightNode
<1>18. ASSUME NEW w \in Way, NEW t \in Task, NEW o \in {"done", "failed"}, End(w, t, o)
      PROVE  RightInv'
  BY <1>18 DEF End, ReportTask, SetStatus, memVars, streamVars,
     Unowned, CreatingOwned, QueueOwned, HeldOwned, ChanOwned, LoopOwned, AgentOwned, RightNode
<1>21. ASSUME NEW w \in Way, NEW t \in Task, EndMissing(w, t) PROVE RightInv'
  BY <1>21 DEF EndMissing, dbVars, memVars, streamVars,
     Unowned, CreatingOwned, QueueOwned, HeldOwned, ChanOwned, LoopOwned, AgentOwned, RightNode
<1>19. CASE AgentCrash
  BY <1>19 DEF AgentCrash, dbVars, memVars,
     Unowned, CreatingOwned, QueueOwned, HeldOwned, ChanOwned, LoopOwned, AgentOwned, RightNode
<1>20. CASE SchedulerCrash
  BY <1>20 DEF SchedulerCrash, dbVars,
     Unowned, CreatingOwned, QueueOwned, HeldOwned, ChanOwned, LoopOwned, AgentOwned, RightNode
<1> QED
  BY <1>1, <1>2, <1>3, <1>4, <1>5, <1>6, <1>7, <1>8, <1>9, <1>10, <1>11, <1>12,
     <1>13, <1>14, <1>15, <1>16, <1>17, <1>18, <1>19, <1>20, <1>21 DEF Next

(* The state of the scheduler, the streams and the agent keeps its shape   *)
(* through every handler, loop step, failure and restart.                  *)
THEOREM TaskTypeCorrect == Spec => []TypeOK
<1>1. RightInv => TypeOK
  BY DEF RightInv
<1> QED
  BY <1>1, RightInit, RightStep, PTL DEF Spec

(* Whatever loops of earlier registrations still drain, send and die, the  *)
(* agent spawns and runs only tasks whose node is the one it registered as *)
(* (register hands out fresh ids, watch_loop reads one node's queue).      *)
THEOREM RunsOwnTasks == Spec => []RightNode
<1>1. RightInv => RightNode
  BY DEF RightInv, AgentOwned
<1> QED
  BY <1>1, RightInit, RightStep, PTL DEF Spec

-----------------------------------------------------------------------------
(***************************************************************************)
(* An event is in one place at a time.  A step takes events from one place *)
(* to another, lets a new one in, or drops some.  That a new task is in no *)
(* place yet is what its status says (Staged).  What registration hands to *)
(* the agent was created while it was registering (NotYet), because the    *)
(* node's id is new; and a cancel_task that has read a task writes over a  *)
(* "queued" one unless it was overtaken (Cancellable).                     *)
(***************************************************************************)
Apart == \A p, q \in Place : p # q => At(p) \cap At(q) = {}
DistinctAll ==
    /\ \A n \in Node : Distinct(queue[n])
    /\ \A s \in Stream : Distinct(held[s]) /\ Distinct(chan[s])

HandedEarly == spawned["register"] \cup running["register"] \subseteq early

InRunning == <<"running", 0>>
StageOf(p, t) ==
    /\ status[t] # "none"
    /\ t \notin early =>
        status[t] \in (IF p = InRunning THEN {"running"} ELSE {"queued"}) \cup {"cancelled"}
Staged == \A p \in Place : \A t \in At(p) : StageOf(p, t)
Cancellable == \A t \in cancelling : status[t] = "queued" \/ t \in overtaken
NotYet == me # None /\ ~ joined => \A t \in Task : owner[t] = me => t \in early

OneInv == RightInv /\ OnePlace /\ Staged /\ Cancellable /\ NotYet

(* What the queues' operations do to what is in them. *)
LEMMA RangeEmpty == Range(<<>>) = {} /\ Distinct(<<>>)
BY DEF Range, Distinct

LEMMA RangeAppend ==
    ASSUME NEW S, NEW s \in Seq(S), NEW e \in S, Distinct(s), e \notin Range(s)
    PROVE  Range(Append(s, e)) = Range(s) \cup {e} /\ Distinct(Append(s, e))
<1> DEFINE a == Append(s, e)
<1>1. /\ DOMAIN a = 1 .. Len(s) + 1 /\ DOMAIN s = 1 .. Len(s) /\ Len(s) \in Nat
      /\ \A i \in 1 .. Len(s) : a[i] = s[i]
      /\ a[Len(s) + 1] = e
  BY AppendProperties
<1> HIDE DEF a
<1>2. Range(a) = Range(s) \cup {e}
  BY <1>1 DEF Range
<1>3. Distinct(a)
  BY <1>1 DEF Range, Distinct
<1> QED BY <1>2, <1>3 DEF a

LEMMA RangeTail ==
    ASSUME NEW S, NEW s \in Seq(S), s # <<>>, Distinct(s)
    PROVE  /\ Range(Tail(s)) = Range(s) \ {Head(s)} /\ Distinct(Tail(s))
           /\ Head(s) \in Range(s) /\ Head(s) \in S
<1> DEFINE t == Tail(s)
           h == Head(s)
<1>1. /\ h = s[1] /\ Len(s) \in Nat /\ Len(s) > 0 /\ DOMAIN s = 1 .. Len(s)
      /\ t \in Seq(S) /\ Len(t) = Len(s) - 1 /\ DOMAIN t = 1 .. Len(s) - 1
      /\ \A i \in 1 .. Len(s) - 1 : t[i] = s[i + 1]
      /\ h \in S
  BY HeadTailProperties
<1> HIDE DEF t, h
<1>2. h \in Range(s)
  BY <1>1 DEF Range
<1>3. Distinct(t)
  <2> SUFFICES ASSUME NEW i \in DOMAIN t, NEW j \in DOMAIN t, t[i] = t[j] PROVE i = j
    BY DEF Distinct
  <2>1. /\ i + 1 \in DOMAIN s /\ j + 1 \in DOMAIN s /\ s[i + 1] = s[j + 1]
        /\ i \in Int /\ j \in Int
    BY <1>1
  <2>2. i + 1 = j + 1
    BY <2>1 DEF Distinct
  <2> QED BY <2>1, <2>2
<1>4. ASSUME NEW x \in Range(t) PROVE x \in Range(s) /\ x # h
  <2>1. PICK i \in DOMAIN t : x = t[i]
    BY DEF Range
  <2>2. i + 1 \in DOMAIN s /\ x = s[i + 1] /\ i + 1 # 1 /\ 1 \in DOMAIN s
    BY <1>1, <2>1
  <2>3. x \in Range(s)
    BY <2>2 DEF Range
  <2>4. x # h
    BY <1>1, <2>2 DEF Distinct
  <2> QED BY <2>3, <2>4
<1>5. ASSUME NEW x \in Range(s), x # h PROVE x \in Range(t)
  <2>1. PICK i \in DOMAIN s : x = s[i]
    BY DEF Range
  <2>2. i - 1 \in DOMAIN t /\ t[i - 1] = x
    BY <1>1, <1>5, <2>1
  <2> QED BY <2>2 DEF Range
<1>6. Range(t) = Range(s) \ {h}
  BY <1>4, <1>5
<1> QED BY <1>1, <1>2, <1>3, <1>6 DEF t, h

(* The places and what is in them, before and after a step. *)
LEMMA Places ==
    ASSUME NEW p \in Place
    PROVE  \/ p = <<"creating", 0>> /\ At(p) = creating /\ At(p)' = creating'
           \/ p = <<"spawned", 0>> /\ At(p) = spawned["stream"] /\ At(p)' = spawned'["stream"]
           \/ p = <<"running", 0>> /\ At(p) = running["stream"] /\ At(p)' = running'["stream"]
           \/ \E n \in Node : /\ p = <<"queue", n>>
                              /\ At(p) = Range(queue[n]) /\ At(p)' = Range(queue'[n])
           \/ \E s \in Stream : /\ p = <<"held", s>>
                                /\ At(p) = Range(held[s]) /\ At(p)' = Range(held'[s])
           \/ \E s \in Stream : /\ p = <<"chan", s>>
                                /\ At(p) = Range(chan[s]) /\ At(p)' = Range(chan'[s])
BY DEF Place, At

LEMMA PlaceNames ==
    /\ <<"creating", 0>> \in Place /\ <<"spawned", 0>> \in Place /\ InRunning \in Place
    /\ \A n \in Node : <<"queue", n>> \in Place
    /\ \A s \in Stream : <<"held", s>> \in Place /\ <<"chan", s>> \in Place
    /\ At(<<"creating", 0>>) = creating /\ At(<<"spawned", 0>>) = spawned["stream"]
    /\ At(InRunning) = running["stream"]
    /\ \A n \in Node : At(<<"queue", n>>) = Range(queue[n])
    /\ \A s \in Stream : At(<<"held", s>>) = Range(held[s]) /\ At(<<"chan", s>>) = Range(chan[s])
BY DEF Place, At, InRunning

LEMMA TasksThere == ASSUME TypeOK, NEW p \in Place PROVE At(p) \subseteq Task
<1>1. ASSUME NEW s \in Seq(Task) PROVE Range(s) \subseteq Task
  BY DEF Range
<1>2. creating \subseteq Task /\ spawned["stream"] \subseteq Task /\ running["stream"] \subseteq Task
  BY DEF TypeOK, Way
<1>3. /\ \A n \in Node : Range(queue[n]) \subseteq Task
      /\ \A s \in Stream : Range(held[s]) \subseteq Task /\ Range(chan[s]) \subseteq Task
  BY <1>1 DEF TypeOK
<1> QED BY <1>2, <1>3, Places

(* Only the place "to" gains tasks, and only those of X. *)
Gains(to, X) == \A p \in Place : At(p)' \subseteq At(p) \cup (IF p = to THEN X ELSE {})

LEMMA GainsBy ==
    ASSUME NEW to, NEW X,
           creating' \subseteq creating \cup (IF to = <<"creating", 0>> THEN X ELSE {}),
           spawned'["stream"] \subseteq spawned["stream"] \cup (IF to = <<"spawned", 0>> THEN X ELSE {}),
           running'["stream"] \subseteq running["stream"] \cup (IF to = <<"running", 0>> THEN X ELSE {}),
           \A n \in Node : Range(queue'[n]) \subseteq
                Range(queue[n]) \cup (IF to = <<"queue", n>> THEN X ELSE {}),
           \A s \in Stream : Range(held'[s]) \subseteq
                Range(held[s]) \cup (IF to = <<"held", s>> THEN X ELSE {}),
           \A s \in Stream : Range(chan'[s]) \subseteq
                Range(chan[s]) \cup (IF to = <<"chan", s>> THEN X ELSE {})
    PROVE  Gains(to, X)
<1> SUFFICES ASSUME NEW p \in Place
             PROVE  At(p)' \subseteq At(p) \cup (IF p = to THEN X ELSE {})
  BY DEF Gains
<1> QED BY Places

LEMMA ApartMoved ==
    ASSUME Apart, NEW from \in Place, NEW to \in Place, NEW X, from # to,
           X \subseteq At(from), At(from)' \cap X = {}, Gains(to, X)
    PROVE  Apart'
<1> SUFFICES ASSUME NEW p \in Place, NEW q \in Place, p # q, NEW t \in At(p)', t \in At(q)'
             PROVE  FALSE
  BY DEF Apart, Place, Node, Stream
<1>1. t \in At(p) \/ (p = to /\ t \in X)
  BY DEF Gains
<1>2. t \in At(q) \/ (q = to /\ t \in X)
  BY DEF Gains
<1> QED BY <1>1, <1>2 DEF Apart

LEMMA ApartFresh ==
    ASSUME Apart, NEW to \in Place, NEW X, \A p \in Place : At(p) \cap X = {}, Gains(to, X)
    PROVE  Apart'
<1> SUFFICES ASSUME NEW p \in Place, NEW q \in Place, p # q, NEW t \in At(p)', t \in At(q)'
             PROVE  FALSE
  BY DEF Apart, Place, Node, Stream
<1>1. t \in At(p) \/ (p = to /\ t \in X)
  BY DEF Gains
<1>2. t \in At(q) \/ (q = to /\ t \in X)
  BY DEF Gains
<1> QED BY <1>1, <1>2 DEF Apart

Waits(t) == status[t] # "none" /\ (t \notin early => status[t] \in {"queued", "cancelled"})

LEMMA WaitsThere ==
    ASSUME OneInv, NEW p \in Place, p # InRunning
    PROVE  \A t \in At(p) : Waits(t)
  BY DEF OneInv, Staged, StageOf, Waits

(* A step that writes no status. *)
LEMMA Carried ==
    ASSUME OneInv, UNCHANGED <<status, owner, early>>, Cancellable',
           me' = None \/ joined' \/ UNCHANGED <<me, joined>>,
           NEW to, NEW X, Gains(to, X), to # InRunning,
           \A t \in X : Waits(t)
    PROVE  Staged' /\ NotYet'
<1>1. Staged'
  <2> SUFFICES ASSUME NEW p \in Place, NEW t \in At(p)'
               PROVE  StageOf(p, t)'
    BY DEF Staged, Place, Node, Stream, InRunning
  <2>1. t \in At(p) \/ (p = to /\ t \in X)
    BY DEF Gains
  <2> QED BY <2>1 DEF OneInv, Staged, StageOf, Waits
<1>2. NotYet'
  BY DEF OneInv, NotYet, None
<1> QED BY <1>1, <1>2

Fewer(f, g) == \A w \in Way : g[w] \subseteq f[w]

(* Steps that add to no place and write no status. *)
LEMMA Dropped ==
    ASSUME OneInv, UNCHANGED <<status, owner, early>>, Cancellable',
           me' = None \/ joined' \/ UNCHANGED <<me, joined>>,
           creating' \subseteq creating, Fewer(spawned, spawned'), Fewer(running, running'),
           \A n \in Node : queue'[n] \in {queue[n], <<>>},
           \A s \in Stream : held'[s] \in {held[s], <<>>} /\ chan'[s] \in {chan[s], <<>>}
    PROVE  OnePlace' /\ Staged' /\ NotYet'
<1>1. Gains(<<"creating", 0>>, {})
  <2>1. /\ \A n \in Node : Range(queue'[n]) \subseteq Range(queue[n])
        /\ \A s \in Stream : /\ Range(held'[s]) \subseteq Range(held[s])
                             /\ Range(chan'[s]) \subseteq Range(chan[s])
    BY RangeEmpty
  <2>2. spawned'["stream"] \subseteq spawned["stream"] /\ running'["stream"] \subseteq running["stream"]
    BY DEF Fewer, Way
  <2> QED BY <2>1, <2>2, GainsBy
<1>2. Apart'
  BY <1>1, ApartFresh, PlaceNames DEF OneInv, OnePlace, Apart
<1>3. DistinctAll'
  BY RangeEmpty DEF OneInv, OnePlace, DistinctAll
<1>6. HandedEarly'
  BY DEF OneInv, OnePlace, HandedEarly, Fewer, Way
<1>4. <<"creating", 0>> # InRunning
  BY DEF InRunning
<1>5. Staged' /\ NotYet'
  BY <1>1, <1>4, Carried
<1> QED BY <1>2, <1>3, <1>5, <1>6 DEF OnePlace, Apart, DistinctAll, HandedEarly

Onwards == \A t \in Task \ early : Forward(t)

LEMMA SameStatus == ASSUME UNCHANGED status PROVE Onwards
BY DEF Onwards, Forward

(* A task that is created is in no place. *)
LEMMA CreateOne ==
    ASSUME OneInv, NEW t \in Task, NEW n \in Node, CreateTask(t, n)
    PROVE  OnePlace' /\ Staged' /\ Cancellable' /\ NotYet' /\ Onwards
<1>1. /\ status[t] = "none" /\ early \subseteq early'
      /\ (n = me /\ ~ joined => t \in early')
      /\ status' = [status EXCEPT ![t] = "queued"] /\ owner' = [owner EXCEPT ![t] = n]
      /\ creating' = creating \cup {t}
      /\ UNCHANGED <<queue, cancelling, overtaken, held, chan, me, joined, spawned, running>>
  BY DEF CreateTask, SetStatus, streamVars, agentVars
<1>2. /\ status'[t] = "queued" /\ owner'[t] = n
      /\ \A u \in Task : u # t => status'[u] = status[u] /\ owner'[u] = owner[u]
      /\ cancelling \subseteq Task
  BY <1>1 DEF OneInv, RightInv, TypeOK
<1>3. \A p \in Place : t \notin At(p)
  BY <1>1 DEF OneInv, Staged, StageOf
<1>4. Gains(<<"creating", 0>>, {t})
  BY <1>1, GainsBy
<1>5. Apart'
  BY <1>3, <1>4, ApartFresh, PlaceNames DEF OneInv, OnePlace, Apart
<1>6. DistinctAll'
  BY <1>1 DEF OneInv, OnePlace, DistinctAll
<1>7. Staged'
  <2> SUFFICES ASSUME NEW p \in Place, NEW u \in At(p)'
               PROVE  StageOf(p, u)'
    BY DEF Staged, Place, Node, Stream, InRunning
  <2>1. u \in At(p) \/ (p = <<"creating", 0>> /\ u = t)
    BY <1>4 DEF Gains
  <2>2. CASE u \in At(p)
    <3>1. u # t /\ u \in Task
      <4>1. At(p) \subseteq Task
        BY TasksThere DEF OneInv, RightInv
      <4> QED BY <1>3, <2>2, <4>1
    <3> QED BY <1>1, <1>2, <2>2, <3>1 DEF OneInv, Staged, StageOf
  <2>3. CASE p = <<"creating", 0>> /\ u = t
    BY <1>2, <2>3 DEF InRunning, StageOf
  <2> QED BY <2>1, <2>2, <2>3
<1>8. Cancellable'
  BY <1>1, <1>2 DEF OneInv, Cancellable
<1>9. NotYet'
  BY <1>1, <1>2 DEF OneInv, NotYet
<1>10. Onwards
  BY <1>1, <1>2 DEF Onwards, Forward
<1>11. HandedEarly'
  BY <1>1 DEF OneInv, OnePlace, HandedEarly
<1> QED BY <1>5, <1>6, <1>7, <1>8, <1>9, <1>10, <1>11
        DEF OnePlace, Apart, DistinctAll, HandedEarly

(* The event goes from push_task into the queue of its node. *)
LEMMA QueueOne ==
    ASSUME OneInv, NEW t \in Task, QueueTask(t)
    PROVE  OnePlace' /\ Staged' /\ Cancellable' /\ NotYet' /\ Onwards
<1> DEFINE n == owner[t]
<1>1. /\ t \in creating /\ creating' = creating \ {t}
      /\ queue' = [queue EXCEPT ![n] = Append(@, t)]
      /\ UNCHANGED <<status, owner, cancelling, held, chan, me, joined, spawned, running, early,
                     overtaken>>
  BY DEF QueueTask, dbVars, streamVars, agentVars, history
<1>2. n \in Node /\ queue \in [Node -> Seq(Task)] /\ queue[n] \in Seq(Task)
  BY <1>1 DEF OneInv, RightInv, CreatingOwned, TypeOK
<1> HIDE DEF n
<1> DEFINE X == {t}
           to == <<"queue", n>>
           from == <<"creating", 0>>
<1>3. to \in Place /\ from \in Place /\ from # to /\ to # InRunning /\ from # InRunning
      /\ At(from) = creating /\ At(from)' = creating' /\ At(to) = Range(queue[n])
  BY <1>2, PlaceNames DEF At, InRunning
<1>4. t \notin Range(queue[n])
  BY <1>1, <1>3 DEF OneInv, OnePlace
<1>5. Distinct(queue[n])
  BY <1>2 DEF OneInv, OnePlace
<1>6. Range(Append(queue[n], t)) = Range(queue[n]) \cup X /\ Distinct(Append(queue[n], t))
  BY <1>2, <1>4, <1>5, RangeAppend
<1>7. queue'[n] = Append(queue[n], t) /\ \A m \in Node : m # n => queue'[m] = queue[m]
  BY <1>1, <1>2
<1>8. Gains(to, X)
  <2>1. \A m \in Node : Range(queue'[m]) \subseteq
            Range(queue[m]) \cup (IF to = <<"queue", m>> THEN X ELSE {})
    BY <1>6, <1>7
  <2> QED BY <1>1, <2>1, GainsBy
<1>9. Apart'
  <2>1. X \subseteq At(from) /\ At(from)' \cap X = {}
    BY <1>1, <1>3
  <2>2. Apart
    BY DEF OneInv, OnePlace, Apart
  <2> HIDE DEF X, to, from
  <2> QED BY <1>3, <1>8, <2>1, <2>2, ApartMoved
<1>10. DistinctAll'
  BY <1>1, <1>6, <1>7 DEF OneInv, OnePlace, DistinctAll
<1>11. \A u \in X : Waits(u)
  BY <1>1, <1>3, WaitsThere
<1>a. Cancellable' /\ HandedEarly'
  BY <1>1 DEF OneInv, OnePlace, Cancellable, HandedEarly
<1>12. Staged' /\ NotYet'
  BY <1>1, <1>3, <1>8, <1>11, <1>a, Carried
<1> QED BY <1>1, <1>9, <1>10, <1>12, <1>a, SameStatus
        DEF OnePlace, Apart, DistinctAll, HandedEarly

(* A loop takes the whole queue of its node. *)
LEMMA DrainOne ==
    ASSUME OneInv, NEW s \in Stream, Drain(s)
    PROVE  OnePlace' /\ Staged' /\ Cancellable' /\ NotYet' /\ Onwards
<1>0. s \in loop
  BY DEF Drain
<1> PICK n \in Node : n = peer[s]
  BY <1>0 DEF OneInv, RightInv, LoopOwned
<1>1. /\ s \in loop /\ held[s] = <<>>
      /\ held' = [held EXCEPT ![s] = queue[n]] /\ queue' = [queue EXCEPT ![n] = <<>>]
      /\ UNCHANGED <<status, owner, creating, cancelling, chan, me, joined, spawned, running, early,
                     overtaken>>
  BY DEF Drain, dbVars, agentVars, history
<1>2. queue \in [Node -> Seq(Task)] /\ held \in [Stream -> Seq(Task)]
  BY DEF OneInv, RightInv, TypeOK
<1> DEFINE X == Range(queue[n])
           to == <<"held", s>>
           from == <<"queue", n>>
<1>3. /\ queue'[n] = <<>> /\ \A m \in Node : m # n => queue'[m] = queue[m]
      /\ held'[s] = queue[n] /\ \A r \in Stream : r # s => held'[r] = held[r]
  BY <1>1, <1>2
<1>4. /\ to \in Place /\ from \in Place /\ from # to /\ to # InRunning /\ from # InRunning
      /\ At(from) = X /\ At(from)' = {}
  BY <1>2, <1>3, PlaceNames, RangeEmpty DEF At, InRunning
<1>5. Gains(to, X)
  <2>1. \A m \in Node : Range(queue'[m]) \subseteq Range(queue[m])
    BY <1>3, RangeEmpty
  <2>2. \A r \in Stream : Range(held'[r]) \subseteq
            Range(held[r]) \cup (IF to = <<"held", r>> THEN X ELSE {})
    BY <1>3
  <2> QED BY <1>1, <2>1, <2>2, GainsBy
<1>6. Apart'
  <2>1. X \subseteq At(from) /\ At(from)' \cap X = {}
    BY <1>4
  <2>2. Apart
    BY DEF OneInv, OnePlace, Apart
  <2> HIDE DEF X, to, from
  <2> QED BY <1>4, <1>5, <2>1, <2>2, ApartMoved
<1>7. DistinctAll'
  BY <1>1, <1>2, <1>3, RangeEmpty DEF OneInv, OnePlace, DistinctAll
<1>8. \A u \in X : Waits(u)
  BY <1>4, WaitsThere
<1>a. Cancellable' /\ HandedEarly'
  BY <1>1 DEF OneInv, OnePlace, Cancellable, HandedEarly
<1>9. Staged' /\ NotYet'
  BY <1>1, <1>4, <1>5, <1>8, <1>a, Carried
<1> QED BY <1>1, <1>6, <1>7, <1>9, <1>a, SameStatus
        DEF OnePlace, Apart, DistinctAll, HandedEarly

(* A loop sends its first event. *)
LEMMA SendOne ==
    ASSUME OneInv, NEW s \in Stream, Send(s)
    PROVE  OnePlace' /\ Staged' /\ Cancellable' /\ NotYet' /\ Onwards
<1> DEFINE h == Head(held[s])
           X == {h}
           to == <<"chan", s>>
           from == <<"held", s>>
<1>1. /\ held[s] # <<>> /\ held' = [held EXCEPT ![s] = Tail(@)]
      /\ chan' = [chan EXCEPT ![s] = Append(@, h)]
      /\ UNCHANGED <<status, owner, creating, queue, cancelling, me, joined, spawned, running, early,
                     overtaken>>
  BY DEF Send, dbVars, memVars, agentVars, history
<1>2. held \in [Stream -> Seq(Task)] /\ chan \in [Stream -> Seq(Task)]
  BY DEF OneInv, RightInv, TypeOK
<1>3. /\ held'[s] = Tail(held[s]) /\ chan'[s] = Append(chan[s], h)
      /\ \A r \in Stream : r # s => held'[r] = held[r] /\ chan'[r] = chan[r]
  BY <1>1, <1>2
<1>4. Distinct(held[s]) /\ Distinct(chan[s])
  BY DEF OneInv, OnePlace
<1>5. /\ Range(Tail(held[s])) = Range(held[s]) \ X /\ Distinct(Tail(held[s]))
      /\ h \in Range(held[s]) /\ h \in Task
  BY <1>1, <1>2, <1>4, RangeTail
<1> HIDE DEF h
<1>6. /\ to \in Place /\ from \in Place /\ from # to /\ to # InRunning /\ from # InRunning
      /\ At(from) = Range(held[s]) /\ At(from)' = Range(held'[s]) /\ At(to) = Range(chan[s])
  BY PlaceNames DEF At, InRunning
<1>7. h \notin Range(chan[s])
  BY <1>5, <1>6 DEF OneInv, OnePlace
<1>8. Range(Append(chan[s], h)) = Range(chan[s]) \cup X /\ Distinct(Append(chan[s], h))
  BY <1>2, <1>4, <1>5, <1>7, RangeAppend
<1>9. Gains(to, X)
  <2>1. \A r \in Stream : Range(held'[r]) \subseteq Range(held[r])
    BY <1>3, <1>5
  <2>2. \A r \in Stream : Range(chan'[r]) \subseteq
            Range(chan[r]) \cup (IF to = <<"chan", r>> THEN X ELSE {})
    BY <1>3, <1>8
  <2> QED BY <1>1, <2>1, <2>2, GainsBy
<1>10. Apart'
  <2>1. X \subseteq At(from) /\ At(from)' \cap X = {}
    BY <1>3, <1>5, <1>6
  <2>2. Apart
    BY DEF OneInv, OnePlace, Apart
  <2> HIDE DEF X, to, from
  <2> QED BY <1>6, <1>9, <2>1, <2>2, ApartMoved
<1>11. DistinctAll'
  BY <1>1, <1>3, <1>5, <1>8 DEF OneInv, OnePlace, DistinctAll
<1>12. \A u \in X : Waits(u)
  BY <1>5, <1>6, WaitsThere
<1>a. Cancellable' /\ HandedEarly'
  BY <1>1 DEF OneInv, OnePlace, Cancellable, HandedEarly
<1>13. Staged' /\ NotYet'
  BY <1>1, <1>6, <1>9, <1>12, <1>a, Carried
<1> QED BY <1>1, <1>10, <1>11, <1>13, <1>a, SameStatus
        DEF OnePlace, Apart, DistinctAll, HandedEarly

(* The agent takes an event from its stream. *)
LEMMA ReceiveOne ==
    ASSUME OneInv, Receive
    PROVE  OnePlace' /\ Staged' /\ Cancellable' /\ NotYet' /\ Onwards
<1>0. mine \in Stream
  BY BoundsAssumption DEF Receive, OneInv, RightInv, TypeOK, None, Stream
<1> PICK m \in Stream : m = mine
  BY <1>0
<1> DEFINE h == Head(chan[m])
           X == {h}
           to == <<"spawned", 0>>
           from == <<"chan", m>>
<1>1. /\ chan[m] # <<>> /\ spawned' = [spawned EXCEPT !["stream"] = @ \cup X]
      /\ chan' = [chan EXCEPT ![m] = Tail(@)]
      /\ UNCHANGED <<status, owner, creating, queue, cancelling, held, me, joined, running, early, overtaken>>
  BY DEF Receive, dbVars, memVars, history
<1>2. /\ chan \in [Stream -> Seq(Task)]
      /\ DOMAIN spawned = Way /\ "stream" \in Way /\ "register" \in Way
  BY DEF OneInv, RightInv, TypeOK, Way
<1>3. /\ chan'[m] = Tail(chan[m])
      /\ \A r \in Stream : r # m => chan'[r] = chan[r]
  BY <1>1, <1>2
<1>4. Distinct(chan[m])
  BY <1>2 DEF OneInv, OnePlace
<1>5. /\ Range(Tail(chan[m])) = Range(chan[m]) \ X /\ Distinct(Tail(chan[m]))
      /\ h \in Range(chan[m]) /\ h \in Task
  BY <1>1, <1>2, <1>4, RangeTail
<1> HIDE DEF h
<1>6. /\ to \in Place /\ from \in Place /\ from # to /\ to # InRunning /\ from # InRunning
      /\ At(from) = Range(chan[m]) /\ At(from)' = Range(chan'[m])
  BY PlaceNames DEF At, InRunning
<1>7. Gains(to, X)
  <2>1. \A r \in Stream : Range(chan'[r]) \subseteq Range(chan[r])
    BY <1>3, <1>5
  <2>2. spawned'["stream"] = spawned["stream"] \cup X
    BY <1>1, <1>2
  <2> QED BY <1>1, <2>1, <2>2, GainsBy
<1>8. Apart'
  <2>1. X \subseteq At(from) /\ At(from)' \cap X = {}
    BY <1>3, <1>5, <1>6
  <2>2. Apart
    BY DEF OneInv, OnePlace, Apart
  <2> HIDE DEF X, to, from
  <2> QED BY <1>6, <1>7, <2>1, <2>2, ApartMoved
<1>9. DistinctAll'
  BY <1>1, <1>3, <1>5 DEF OneInv, OnePlace, DistinctAll
<1>10. \A u \in X : Waits(u)
  BY <1>5, <1>6, WaitsThere
<1>a. Cancellable' /\ HandedEarly'
  BY <1>1, <1>2 DEF OneInv, OnePlace, Cancellable, HandedEarly
<1>11. Staged' /\ NotYet'
  BY <1>1, <1>6, <1>7, <1>10, <1>a, Carried
<1> QED BY <1>1, <1>8, <1>9, <1>11, <1>a, SameStatus
        DEF OnePlace, Apart, DistinctAll, HandedEarly

(* A step that writes the status of one task. *)
Writes(t, s) == status'[t] = s /\ \A u \in Task : u # t => status'[u] = status[u]

LEMMA Reports ==
    ASSUME OneInv, NEW t \in Task, NEW s, ReportTask(t, s),
           UNCHANGED <<cancelling, owner, early, me, joined>>
    PROVE  Writes(t, s) /\ Cancellable' /\ NotYet'
<1>1. status' = [status EXCEPT ![t] = s] /\ overtaken' = overtaken \cup ({t} \cap cancelling)
  BY DEF ReportTask, SetStatus
<1>2. Writes(t, s)
  BY <1>1 DEF Writes, OneInv, RightInv, TypeOK
<1>3. Cancellable'
  <2> SUFFICES ASSUME NEW u \in cancelling PROVE status'[u] = "queued" \/ u \in overtaken'
    BY DEF Cancellable
  <2>1. u \in Task
    BY DEF OneInv, RightInv, TypeOK
  <2> QED BY <1>1, <1>2, <2>1 DEF Writes, OneInv, Cancellable
<1>4. NotYet'
  BY DEF OneInv, NotYet
<1> QED BY <1>2, <1>3, <1>4

LEMMA StagedBy ==
    ASSUME OneInv, NEW t \in Task, NEW s, s # "none", Writes(t, s), early' = early,
           NEW to, NEW X, X \subseteq {t}, Gains(to, X),
           t \notin early => \A p \in Place : t \in At(p)' => StageOf(p, t)'
    PROVE  Staged'
<1> SUFFICES ASSUME NEW p \in Place, NEW u \in At(p)' PROVE StageOf(p, u)'
  BY DEF Staged, Place, Node, Stream, InRunning
<1>1. CASE u = t /\ t \in early
  BY <1>1 DEF Writes, StageOf
<1>2. CASE u = t /\ t \notin early
  BY <1>2
<1>3. CASE u # t
  <2>1. u \in At(p)
    BY <1>3 DEF Gains
  <2>2. u \in Task
    BY <2>1, TasksThere DEF OneInv, RightInv
  <2> QED BY <1>3, <2>1, <2>2 DEF OneInv, Staged, StageOf, Writes
<1> QED BY <1>1, <1>2, <1>3

(* A task begins: one that came by the stream was waiting, and its status  *)
(* is a waiting one's; one that came by registration is early.             *)
LEMMA BeginOne ==
    ASSUME OneInv, NEW w \in Way, NEW t \in Task, Begin(w, t)
    PROVE  OnePlace' /\ Staged' /\ Cancellable' /\ NotYet' /\ Onwards
<1> DEFINE X == {t}
           from == <<"spawned", 0>>
<1>1. /\ t \in spawned[w] /\ spawned' = [spawned EXCEPT ![w] = @ \ X]
      /\ running' = [running EXCEPT ![w] = @ \cup X]
      /\ ReportTask(t, "running")
      /\ UNCHANGED <<owner, creating, queue, cancelling, held, chan, me, joined, early>>
  BY DEF Begin, memVars, streamVars
<1>2. DOMAIN spawned = Way /\ DOMAIN running = Way /\ Way = {"register", "stream"}
  BY DEF OneInv, RightInv, TypeOK, Way
<1>3. Writes(t, "running") /\ Cancellable' /\ NotYet'
  BY <1>1, Reports
<1>4. DistinctAll'
  BY <1>1 DEF OneInv, OnePlace, DistinctAll
<1>5. /\ from \in Place /\ InRunning \in Place /\ from # InRunning
      /\ At(from) = spawned["stream"] /\ At(from)' = spawned'["stream"]
      /\ At(InRunning)' = running'["stream"]
  BY PlaceNames DEF At, InRunning
<1>6. CASE w = "stream"
  <2>1. /\ spawned'["stream"] = spawned["stream"] \ X
        /\ running'["stream"] = running["stream"] \cup X
        /\ spawned'["register"] = spawned["register"]
        /\ running'["register"] = running["register"]
    BY <1>1, <1>2, <1>6
  <2>2. Gains(InRunning, X)
    BY <1>1, <2>1, GainsBy DEF InRunning
  <2>3. Apart'
    <3>1. X \subseteq At(from) /\ At(from)' \cap X = {}
      BY <1>1, <1>5, <1>6, <2>1
    <3>2. Apart
      BY DEF OneInv, OnePlace, Apart
    <3> HIDE DEF X, from
    <3> QED BY <1>5, <2>2, <3>1, <3>2, ApartMoved
  <2>4. HandedEarly'
    BY <1>1, <2>1 DEF OneInv, OnePlace, HandedEarly
  <2>5. ASSUME NEW p \in Place, t \in At(p)' PROVE StageOf(p, t)'
    <3>1. t \in At(InRunning)'
      BY <1>5, <2>1
    <3>2. p = InRunning
      <4>1. \A q, r \in Place : q # r => At(q)' \cap At(r)' = {}
        BY <2>3 DEF Apart, Place, Node, Stream
      <4> QED BY <1>5, <2>5, <3>1, <4>1
    <3> QED BY <1>3, <3>2 DEF StageOf, Writes, InRunning
  <2>6. Staged'
    BY <1>1, <1>3, <2>2, <2>5, StagedBy
  <2>7. Waits(t)
    BY <1>1, <1>5, <1>6, WaitsThere
  <2>8. Onwards
    BY <1>3, <2>7 DEF Onwards, Forward, Writes, Waits, Reported
  <2> QED BY <1>3, <1>4, <2>3, <2>4, <2>6, <2>8 DEF OnePlace, Apart, DistinctAll, HandedEarly
<1>7. CASE w = "register"
  <2>1. /\ spawned'["stream"] = spawned["stream"] /\ running'["stream"] = running["stream"]
        /\ spawned'["register"] = spawned["register"] \ X
        /\ running'["register"] = running["register"] \cup X
    BY <1>1, <1>2, <1>7
  <2>2. t \in early
    BY <1>1, <1>7 DEF OneInv, OnePlace
  <2>3. Gains(InRunning, {})
    BY <1>1, <2>1, GainsBy DEF InRunning
  <2>4. Apart'
    BY <1>5, <2>3, ApartFresh DEF OneInv, OnePlace, Apart
  <2>5. HandedEarly'
    BY <1>1, <2>1, <2>2 DEF OneInv, OnePlace, HandedEarly
  <2>6. Staged'
    BY <1>1, <1>3, <2>2, <2>3, StagedBy
  <2>7. Onwards
    BY <1>3, <2>2 DEF Onwards, Forward, Writes
  <2> QED BY <1>3, <1>4, <2>4, <2>5, <2>6, <2>7 DEF OnePlace, Apart, DistinctAll, HandedEarly
<1> QED BY <1>2, <1>6, <1>7

(* The copy of a task that ends is nowhere any more. *)
LEMMA EndOne ==
    ASSUME OneInv, NEW w \in Way, NEW t \in Task, NEW o \in {"done", "failed"}, End(w, t, o)
    PROVE  OnePlace' /\ Staged' /\ Cancellable' /\ NotYet' /\ Onwards
<1>1. /\ t \in running[w] /\ running' = [running EXCEPT ![w] = @ \ {t}]
      /\ ReportTask(t, o)
      /\ UNCHANGED <<owner, creating, queue, cancelling, held, chan, me, joined, spawned, early>>
  BY DEF End, memVars, streamVars
<1>2. DOMAIN running = Way /\ Way = {"register", "stream"}
  BY DEF OneInv, RightInv, TypeOK, Way
<1>3. Writes(t, o) /\ Cancellable' /\ NotYet'
  BY <1>1, Reports
<1>4. DistinctAll'
  BY <1>1 DEF OneInv, OnePlace, DistinctAll
<1>5. InRunning \in Place /\ At(InRunning) = running["stream"] /\ At(InRunning)' = running'["stream"]
  BY PlaceNames DEF At, InRunning
<1>6. /\ running'["stream"] \subseteq running["stream"]
      /\ running'["register"] \subseteq running["register"]
  BY <1>1, <1>2
<1>7. Gains(InRunning, {})
  BY <1>1, <1>6, GainsBy DEF InRunning
<1>8. Apart'
  BY <1>5, <1>7, ApartFresh DEF OneInv, OnePlace, Apart
<1>9. HandedEarly'
  BY <1>1, <1>6 DEF OneInv, OnePlace, HandedEarly
<1>10. t \notin early => w = "stream"
  BY <1>1, <1>2 DEF OneInv, OnePlace
<1>11. ASSUME t \notin early, NEW p \in Place, t \in At(p)' PROVE FALSE
  <2>1. t \in At(InRunning) /\ t \notin At(InRunning)'
    BY <1>1, <1>2, <1>5, <1>10, <1>11
  <2>2. t \in At(p) /\ p # InRunning
    BY <1>7, <1>11, <2>1 DEF Gains
  <2> QED BY <1>5, <2>1, <2>2 DEF OneInv, OnePlace
<1>12. Staged'
  BY <1>1, <1>3, <1>7, <1>11, StagedBy
<1>13. Onwards
  <2>1. t \notin early => status[t] \in {"running", "cancelled"}
    BY <1>1, <1>5, <1>10 DEF OneInv, Staged, StageOf
  <2> QED BY <1>3, <2>1 DEF Onwards, Forward, Writes, Reported
<1> QED BY <1>3, <1>4, <1>8, <1>9, <1>12, <1>13 DEF OnePlace, Apart, DistinctAll, HandedEarly

LEMMA CancelOne ==
    ASSUME OneInv, NEW t \in Task, CancelWrite(t)
    PROVE  OnePlace' /\ Staged' /\ Cancellable' /\ NotYet' /\ Onwards
<1>1. /\ t \in cancelling /\ cancelling' = cancelling \ {t} /\ overtaken' = overtaken \ {t}
      /\ status' = [status EXCEPT ![t] = "cancelled"]
      /\ UNCHANGED <<owner, creating, queue, held, chan, me, joined, spawned, running, early>>
  BY DEF CancelWrite, SetStatus, streamVars, agentVars
<1>2. Gains(InRunning, {})
  BY <1>1, GainsBy DEF InRunning
<1>3. Apart'
  BY <1>2, ApartFresh, PlaceNames DEF OneInv, OnePlace, Apart
<1>4. DistinctAll' /\ HandedEarly'
  BY <1>1 DEF OneInv, OnePlace, DistinctAll, HandedEarly
<1>5. Writes(t, "cancelled")
  BY <1>1 DEF OneInv, RightInv, TypeOK, Writes
<1>6. Staged'
  <2>1. \A p \in Place : StageOf(p, t)'
    BY <1>5 DEF StageOf, Writes
  <2> QED BY <1>1, <1>2, <1>5, <2>1, StagedBy
<1>7. Cancellable' /\ NotYet'
  BY <1>1, <1>5 DEF OneInv, RightInv, TypeOK, Cancellable, NotYet, Writes
<1>8. Onwards
  BY <1>1, <1>5 DEF OneInv, Cancellable, Onwards, Forward, Writes
<1> QED BY <1>3, <1>4, <1>6, <1>7, <1>8 DEF OnePlace, Apart, DistinctAll, HandedEarly

(* A fresh node has no tasks, so those that registration returns were      *)
(* created since it was inserted.                                          *)
LEMMA RegisterOne ==
    ASSUME OneInv, Register \/ Joined
    PROVE  OnePlace' /\ Staged' /\ Cancellable' /\ NotYet' /\ Onwards
<1>1. UNCHANGED <<status, owner, creating, queue, cancelling, held, chan, running, early, overtaken>>
  BY DEF Register, Joined, dbVars, memVars, streamVars, history
<1>2. Way = {"register", "stream"} /\ DOMAIN spawned = Way
  BY DEF OneInv, RightInv, TypeOK, Way
<1>3. spawned'["stream"] = spawned["stream"] /\ HandedEarly'
  <2>1. CASE Register
    BY <1>1, <2>1 DEF Register, OneInv, OnePlace, HandedEarly
  <2>2. CASE Joined
    BY <1>1, <1>2, <2>2 DEF Joined, OneInv, OnePlace, HandedEarly, NotYet
  <2> QED BY <2>1, <2>2
<1>4. Gains(<<"creating", 0>>, {})
  BY <1>1, <1>3, GainsBy
<1>5. Apart'
  BY <1>4, ApartFresh, PlaceNames DEF OneInv, OnePlace, Apart
<1>6. DistinctAll' /\ Cancellable'
  BY <1>1 DEF OneInv, OnePlace, DistinctAll, Cancellable
<1>7. Staged'
  <2> SUFFICES ASSUME NEW p \in Place, NEW u \in At(p)' PROVE StageOf(p, u)'
    BY DEF Staged, Place, Node, Stream, InRunning
  <2>1. u \in At(p)
    BY <1>4 DEF Gains
  <2> QED BY <1>1, <2>1 DEF OneInv, Staged, StageOf
<1>8. NotYet'
  <2>1. CASE Register
    <3>1. me' = nodes + 1 /\ \A t \in Task : owner'[t] \in 0 .. nodes
      BY <1>1, <2>1 DEF Register, OneInv, RightInv, TypeOK
    <3>2. nodes \in Nat
      BY BoundsAssumption DEF OneInv, RightInv, TypeOK
    <3> QED BY <3>1, <3>2 DEF NotYet
  <2>2. CASE Joined
    BY <2>2 DEF Joined, NotYet
  <2> QED BY <2>1, <2>2
<1> QED BY <1>1, <1>3, <1>5, <1>6, <1>7, <1>8, SameStatus
        DEF OnePlace, Apart, DistinctAll, HandedEarly

LEMMA CrashOne ==
    ASSUME OneInv, AgentCrash \/ SchedulerCrash
    PROVE  OnePlace' /\ Staged' /\ Cancellable' /\ NotYet' /\ Onwards
<1>1. CASE AgentCrash
  <2>1. /\ me' = None /\ Fewer(spawned, spawned') /\ Fewer(running, running')
        /\ UNCHANGED <<status, owner, creating, queue, cancelling, held, chan, early, overtaken>>
    BY <1>1 DEF AgentCrash, dbVars, memVars, history, Fewer
  <2>2. Cancellable'
    BY <2>1 DEF OneInv, Cancellable
  <2> QED BY <2>1, <2>2, Dropped, SameStatus
<1>2. CASE SchedulerCrash
  <2>1. /\ me' = None \/ (joined' /\ UNCHANGED <<me, joined>>)
        /\ creating' = {} /\ cancelling' = {}
        /\ \A n \in Node : queue'[n] = <<>>
        /\ \A s \in Stream : held'[s] = <<>> /\ chan'[s] = <<>>
        /\ UNCHANGED <<status, owner, spawned, running, early>>
    BY <1>2 DEF SchedulerCrash, dbVars
  <2>2. Cancellable' /\ Fewer(spawned, spawned') /\ Fewer(running, running')
    BY <2>1 DEF Cancellable, Fewer
  <2> QED BY <2>1, <2>2, Dropped, SameStatus
<1> QED BY <1>1, <1>2

(* Steps by which nothing but the agent's own lists gets shorter. *)
LEMMA QuietOne ==
    ASSUME OneInv,
           \/ \E t \in Task : CancelRead(t)
           \/ \E w \in Way, t \in Task : BeginFail(w, t) \/ EndMissing(w, t) \/ EndSilent(w, t)
           \/ \E s \in Stream : LoopEnd(s) \/ NoticeBroken(s)
           \/ Watch \/ BreakStream \/ UNCHANGED vars
    PROVE  OnePlace' /\ Staged' /\ Cancellable' /\ NotYet' /\ Onwards
<1> USE DEF dbVars, memVars, streamVars, agentVars, history, vars
<1>1. UNCHANGED <<status, owner, creating, queue, me, joined, early, overtaken>>
  BY DEF CancelRead, BeginFail, EndMissing, EndSilent, LoopEnd, NoticeBroken, Watch, BreakStream
<1>2. \A t \in cancelling' : t \in cancelling \/ status[t] = "queued"
  BY DEF CancelRead, BeginFail, EndMissing, EndSilent, LoopEnd, NoticeBroken, Watch, BreakStream
<1>3. Cancellable'
  BY <1>1, <1>2 DEF OneInv, Cancellable
<1>4. Fewer(spawned, spawned') /\ Fewer(running, running')
  <2>1. DOMAIN spawned = Way /\ DOMAIN running = Way
    BY DEF OneInv, RightInv, TypeOK
  <2> QED BY <2>1 DEF CancelRead, BeginFail, EndMissing, EndSilent, LoopEnd, NoticeBroken,
             Watch, BreakStream, Fewer
<1>5. \A s \in Stream : held'[s] \in {held[s], <<>>} /\ chan'[s] \in {chan[s], <<>>}
  BY DEF CancelRead, BeginFail, EndMissing, EndSilent, LoopEnd, NoticeBroken, Watch, BreakStream,
     OneInv, RightInv, TypeOK
<1> QED BY <1>1, <1>3, <1>4, <1>5, Dropped, SameStatus

LEMMA OneStep ==
    ASSUME OneInv, [Next]_vars
    PROVE  OneInv' /\ Onwards
<1>1. RightInv'
  BY RightStep DEF OneInv
<1>2. OnePlace' /\ Staged' /\ Cancellable' /\ NotYet' /\ Onwards
  BY CreateOne, QueueOne, CancelOne, RegisterOne, DrainOne, SendOne, ReceiveOne, BeginOne,
     EndOne, CrashOne, QuietOne DEF Next
<1> QED BY <1>1, <1>2 DEF OneInv

LEMMA OneInit == Init => OneInv
<1> SUFFICES ASSUME Init PROVE OneInv
  OBVIOUS
<1>1. /\ creating = {} /\ spawned["stream"] = {} /\ running["stream"] = {}
      /\ spawned["register"] = {} /\ running["register"] = {}
      /\ cancelling = {} /\ me = None
      /\ \A n \in Node : queue[n] = <<>>
      /\ \A s \in Stream : held[s] = <<>> /\ chan[s] = <<>>
  BY DEF Init, Way
<1>2. \A p \in Place : At(p) = {}
  BY <1>1, Places, RangeEmpty
<1>3. OnePlace /\ Staged
  BY <1>1, <1>2, RangeEmpty DEF OnePlace, Staged
<1> QED BY <1>1, <1>3, RightInit DEF OneInv, Cancellable, NotYet

(* No event is in two places or twice in one, although old loops and new   *)
(* ones drain one queue and streams break with events in them; and what    *)
(* register hands over beside the events was created while it ran          *)
(* (push_task, watch_loop, register, on_task).  So a task runs once at     *)
(* most, and twice only if it was created in that window.                  *)
THEOREM TasksInOnePlace == Spec => []OnePlace
<1>1. OneInv /\ [Next]_vars => OneInv'
  BY OneStep
<1>2. OneInv => OnePlace
  BY DEF OneInv
<1> QED BY <1>1, <1>2, OneInit, PTL DEF Spec

(* The status of a task that is not handed over twice follows the agent's  *)
(* reports, whatever report_status and cancel_task write unread: nothing   *)
(* is queued again, a finished task does not run again, and one that runs  *)
(* or has ended is cancelled only by a cancel_task that a report overtook. *)
THEOREM StatusMovesForward == Spec => StatusForward
<1>1. OneInv /\ [Next]_vars => OneInv'
  BY OneStep
<1>2. OneInv /\ [Next]_vars => [\A t \in Task \ early : Forward(t)]_vars
  BY OneStep DEF Onwards
<1> QED BY <1>1, <1>2, OneInit, PTL DEF Spec, StatusForward
=============================================================================
