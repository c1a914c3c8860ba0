-------------------------- MODULE CatalogueProofs ---------------------------
(***************************************************************************)
(* The records of the back office for any number of concurrent handlers,   *)
(* tables, ids and crashes.                                                *)
(*                                                                         *)
(* A handler carries what it read or was given over several transactions,  *)
(* so each invariant needs to say what is still true of the record in its  *)
(* hands (Sound).  It is, because counters, manifests and effects only     *)
(* ever grow; a backup's tables are related by the same fact, read in an   *)
(* order in which the later table covers the earlier one (Snapshot, and    *)
(* Lag for the table that is read after the counters).  A game's latest    *)
(* version is that of the record one handler at a time holds (Settled).    *)
(***************************************************************************)
EXTENDS Catalogue, TLAPS

GameTable == UNION {[D -> GameRecord] : D \in SUBSET Id}
Actions == {"none", "create", "delete", "rollback"}
RequestRecord ==
    [step : Steps, kind : Kind \cup {"game", "none"}, id : 0 .. MaxId, version : Nat,
     held : GameRecord, action : Actions]
AuditRecord == [id : Nat, what : Actions \X (Kind \cup {"game", "none"}) \X (0 .. MaxId)]
ReadingRecord ==
    [n : 0 .. 5, rows : [Kind -> SUBSET Id], games : GameTable,
     versions : SUBSET (Id \X Version), counters : [Counter -> Nat],
     audits : SUBSET AuditRecord]

Shapes ==
    /\ counters \in [Counter -> 0 .. MaxId + MaxOps]
    /\ rows \in [Kind -> SUBSET Id] /\ games \in GameTable
    /\ versions \subseteq Id \X Version /\ audits \subseteq AuditRecord
    /\ request \in [Request -> RequestRecord] /\ reading \in ReadingRecord
    /\ born \subseteq (Kind \cup {"game"}) \X Id \X {"counter", "request"}
    /\ seen \in [Id -> Version \cup {0}] /\ disturbed \subseteq Id
    /\ ops \in 0 .. MaxOps /\ faults \in 0 .. MaxFaults

(* The id of a game that came from the counter is behind it, and the       *)
(* versions its record names have manifests.                               *)
Backed(i, game, last, manifests) ==
    /\ game.auto => i <= last
    /\ game.current # 0 => <<i, game.current>> \in manifests
    /\ game.latest # 0 => <<i, game.latest>> \in manifests

(* What a handler holds between its transactions. *)
Sound(q, last, manifests, done) ==
    /\ q.step # "idle" => q.kind \in Kind \cup {"game"} /\ q.id \in Id
    /\ q.step = "insert" => /\ q.kind \in Kind => q.id <= last[q.kind]
                            /\ q.held.current = 0 /\ q.held.latest = 0
    /\ q.step \in {"get", "latest", "push", "put"} =>
            q.kind = "game" /\ <<q.id, q.version>> \in manifests
    /\ q.step \in {"insert", "latest", "push", "put"} /\ q.kind = "game" =>
            Backed(q.id, q.held, last["game"], manifests)
    /\ q.step = "latest" => q.version > q.held.latest
    /\ q.step \in {"auditId", "auditPut"} => <<q.action, q.kind, q.id>> \in done
    /\ q.step = "auditPut" => q.version \in 1 .. last["audit"]

HeldSound == \A r \in Request : Sound(request[r], counters, versions, effects)

(* What the tables hold. *)
Behind ==
    /\ \A k \in Kind : \A i \in rows[k] : i <= counters[k]
    /\ \A b \in born : b[3] = "counter" => b[2] <= counters[b[1]]
    /\ \A b \in born : b[3] = "counter" \/ b[1] = "game"
    /\ \A i \in DOMAIN games : Backed(i, games[i], counters["game"], versions)
    /\ \A a \in audits : a.id \in 1 .. counters["audit"]
    /\ late \subseteq 1 .. counters["audit"]

(* An audit id belongs to one record, or to the handler that will write it. *)
AuditIds ==
    /\ AuditTrue
    /\ \A r \in Request : request[r].step = "auditPut" =>
        /\ \A a \in audits : a.id # request[r].version
        /\ \A s \in Request \ {r} :
                request[s].step = "auditPut" => request[s].version # request[r].version

(* The later a table is read, the more it covers. *)
Snapshot ==
    LET last(c) == IF reading.n >= 4 THEN reading.counters[c] ELSE counters[c]
        manifests == IF reading.n >= 3 THEN reading.versions ELSE versions
    IN /\ reading.n >= 1 => \A k \in Kind : \A i \in reading.rows[k] : i <= last(k)
       /\ reading.n >= 2 => \A i \in DOMAIN reading.games :
                                Backed(i, reading.games[i], last("game"), manifests)

(* An audit id the counters of the backup do not cover is a late one.      *)
Covered(n, last, after) == n <= last \/ n \in after
Lag ==
    LET last == reading.counters["audit"]
    IN reading.n >= 4 =>
        /\ \A a \in audits : Covered(a.id, last, late)
        /\ \A r \in Request : request[r].step = "auditPut" =>
                                Covered(request[r].version, last, late)
        /\ reading.n = 5 => \A a \in reading.audits : Covered(a.id, last, late)

(* Undisturbed, one handler at a time has read a game's record, and what   *)
(* it will write has the greatest version published.                       *)
Open(q, i) == q.kind = "game" /\ q.id = i /\ q.step \in {"get", "latest", "push", "put"}
Greatest(a, b) == IF a > b THEN a ELSE b
Keeps(q, i, top, table) ==
    /\ q.step \in {"push", "put"} => q.held.latest = top[i]
    /\ q.step = "get" /\ i \in DOMAIN table => top[i] = Greatest(q.version, table[i].latest)
    /\ q.step = "latest" => q.version = top[i]
Settled(i) ==
    /\ \A r \in Request : Open(request[r], i) =>
            /\ Keeps(request[r], i, seen, games)
            /\ \A s \in Request \ {r} : ~ Open(request[s], i)
    /\ i \in DOMAIN games =>
            games[i].latest = seen[i] \/ \E r \in Request : Publishing(request[r], i)
Calm == \A i \in Id \ disturbed : Settled(i)

CatalogueInv == /\ Shapes /\ HeldSound /\ Behind /\ IdsFresh /\ AuditIds /\ Snapshot
                /\ Lag /\ Calm
-----------------------------------------------------------------------------
(***************************************************************************)
(* Counters, manifests and effects only grow.                              *)
(***************************************************************************)
Grows ==
    /\ \A c \in Counter : counters[c] <= counters'[c] /\ counters'[c] \in Nat
    /\ versions \subseteq versions' /\ effects \subseteq effects'

LEMMA BackedGrows ==
    ASSUME NEW i \in Int, NEW game, NEW last \in Nat, NEW last2 \in Nat, last <= last2,
           NEW manifests, NEW manifests2, manifests \subseteq manifests2,
           Backed(i, game, last, manifests)
    PROVE  Backed(i, game, last2, manifests2)
  BY DEF Backed

LEMMA SoundGrows ==
    ASSUME Shapes, Grows, NEW q \in RequestRecord, Sound(q, counters, versions, effects)
    PROVE  Sound(q, counters', versions', effects')
<1>1. "game" \in Counter /\ "audit" \in Counter /\ Kind \subseteq Counter
  BY DEF Counter
<1>2. \A c \in Counter : counters[c] \in Nat /\ counters'[c] \in Nat
                         /\ counters[c] <= counters'[c]
  BY CatalogueAssumption DEF Shapes, Grows
<1>3. q.id \in Int /\ q.version \in Int
  BY CatalogueAssumption DEF RequestRecord
<1>4. q.step = "insert" /\ q.kind \in Kind => q.id <= counters'[q.kind]
  BY <1>1, <1>2, <1>3 DEF Sound
<1>5. q.step \in {"insert", "latest", "push", "put"} /\ q.kind = "game" =>
            Backed(q.id, q.held, counters'["game"], versions')
  BY <1>1, <1>2, <1>3, BackedGrows DEF Sound, Grows
<1>6. q.step = "auditPut" => q.version \in 1 .. counters'["audit"]
  BY <1>1, <1>2, <1>3 DEF Sound
<1> QED BY <1>4, <1>5, <1>6 DEF Sound, Grows

(* A handler takes one step: its next record is sound. *)
Moves(r) == \E q \in RequestRecord : /\ request' = [request EXCEPT ![r] = q]
                                     /\ Sound(q, counters', versions', effects')

(* next_id gives out an id the counter has not reached. *)
LEMMA NextIdGrows ==
    ASSUME Shapes, NEW c \in Counter, NextId(c)
    PROVE  /\ counters' \in [Counter -> 0 .. MaxId + MaxOps]
           /\ counters'[c] = counters[c] + 1 /\ counters'[c] \in Id
           /\ \A d \in Counter \ {c} : counters'[d] = counters[d]
           /\ \A d \in Counter : counters[d] <= counters'[d] /\ counters'[d] \in Nat
           /\ counters[c] \in Nat
<1>1. counters[c] \in Nat /\ counters[c] < MaxId
  BY CatalogueAssumption DEF Shapes, NextId
<1>2. counters' = [counters EXCEPT ![c] = counters[c] + 1]
  BY DEF NextId
<1>3. counters[c] + 1 \in 0 .. MaxId + MaxOps /\ counters[c] + 1 \in Id
  BY <1>1, CatalogueAssumption DEF Id
<1>4. \A d \in Counter : counters[d] \in Nat
  BY CatalogueAssumption DEF Shapes
<1> QED BY <1>1, <1>2, <1>3, <1>4 DEF Shapes

LEMMA GameType ==
    ASSUME Shapes, NEW i \in DOMAIN games
    PROVE  games[i] \in GameRecord /\ i \in Id
  BY DEF Shapes, GameTable

LEMMA CreateMoves ==
    ASSUME Shapes, NEW r \in Request,
           \/ CreateGameId(r)
           \/ \E k \in Kind : CreateId(r, k)
           \/ \E i \in Id : CreateGameAt(r, i)
    PROVE  Grows /\ Moves(r)
<1> USE CatalogueAssumption
<1>0. NoGame \in GameRecord /\ [NoGame EXCEPT !.auto = TRUE] \in GameRecord
  BY DEF NoGame, GameRecord
<1>j. \A i \in Id : i \in 0 .. MaxId
  BY DEF Id
<1>i. Idle \in RequestRecord /\ Idle.held = NoGame
  BY <1>0 DEF Idle, RequestRecord, Steps, Actions
<1>1. ASSUME CreateGameId(r) PROVE Grows /\ Moves(r)
  <2> DEFINE q == [Idle EXCEPT !.step = "insert", !.kind = "game", !.id = counters'["game"],
                               !.held = [NoGame EXCEPT !.auto = TRUE]]
  <2>1. /\ counters'["game"] \in Id
        /\ \A d \in Counter : counters[d] <= counters'[d] /\ counters'[d] \in Nat
    BY <1>1, NextIdGrows DEF CreateGameId, Counter
  <2>2. q \in RequestRecord
    BY <1>0, <1>i, <1>j, <2>1 DEF RequestRecord, Steps
  <2>3. Sound(q, counters', versions', effects')
    BY <2>1 DEF Sound, Backed, Idle, NoGame, Id
  <2>4. request' = [request EXCEPT ![r] = q]
    BY <1>1 DEF CreateGameId, Set
  <2>5. Grows
    BY <1>1, <2>1 DEF CreateGameId, Grows, historyVars
  <2> QED BY <2>2, <2>3, <2>4, <2>5 DEF Moves
<1>2. ASSUME NEW k \in Kind, CreateId(r, k) PROVE Grows /\ Moves(r)
  <2> DEFINE q == [Idle EXCEPT !.step = "insert", !.kind = k, !.id = counters'[k]]
  <2>1. /\ counters'[k] \in Id
        /\ \A d \in Counter : counters[d] <= counters'[d] /\ counters'[d] \in Nat
    BY <1>2, NextIdGrows DEF CreateId, Counter
  <2>2. q \in RequestRecord
    BY <1>0, <1>i, <1>j, <2>1 DEF RequestRecord, Steps
  <2>3. Sound(q, counters', versions', effects')
    BY <2>1 DEF Sound, Backed, Idle, NoGame, Id
  <2>4. request' = [request EXCEPT ![r] = q]
    BY <1>2 DEF CreateId, Set
  <2>5. Grows
    BY <1>2, <2>1 DEF CreateId, Grows, historyVars
  <2> QED BY <2>2, <2>3, <2>4, <2>5 DEF Moves
<1>3. ASSUME NEW i \in Id, CreateGameAt(r, i) PROVE Grows /\ Moves(r)
  <2> DEFINE q == [Idle EXCEPT !.step = "insert", !.kind = "game", !.id = i]
  <2>1. q \in RequestRecord
    BY <1>0, <1>i, <1>j DEF RequestRecord, Steps
  <2>2. Sound(q, counters', versions', effects')
    BY DEF Sound, Backed, Idle, NoGame, Id
  <2>3. request' = [request EXCEPT ![r] = q]
    BY <1>3 DEF CreateGameAt, Set
  <2>4. Grows
    <3>1. UNCHANGED <<counters, versions, effects>>
      BY <1>3 DEF CreateGameAt, tables, historyVars
    <3> QED BY <3>1 DEF Grows, Shapes
  <2> QED BY <2>1, <2>2, <2>3, <2>4 DEF Moves
<1> QED BY <1>1, <1>2, <1>3

LEMMA UpdateMoves ==
    ASSUME Shapes, HeldSound, Behind, NEW r \in Request,
           \/ CreateInsert(r) \/ PublishGet(r) \/ PublishPut(r)
           \/ RollbackPush(r) \/ RollbackPut(r) \/ Fail(r)
    PROVE  Grows /\ Moves(r)
<1> USE CatalogueAssumption
<1> DEFINE q == request[r]
<1>0. /\ q \in RequestRecord /\ Sound(q, counters, versions, effects)
      /\ Idle \in RequestRecord /\ Sound(Idle, counters', versions', effects')
  BY DEF Shapes, HeldSound, Idle, RequestRecord, Steps, Actions, NoGame, GameRecord, Sound
<1> HIDE DEF q
<1>1. ASSUME NEW action \in Actions, Effect(r, action), q.step # "idle",
             UNCHANGED <<counters, versions>>
      PROVE  Grows /\ Moves(r)
  <2> DEFINE p == [q EXCEPT !.step = "auditId", !.action = action]
  <2>1. p \in RequestRecord
    BY <1>0 DEF RequestRecord, Steps
  <2>2. request' = [request EXCEPT ![r] = p] /\ effects' = effects \cup {<<action, q.kind, q.id>>}
    BY <1>1 DEF Effect, Set, q
  <2>3. Sound(p, counters', versions', effects')
    BY <1>0, <1>1, <2>2 DEF Sound, RequestRecord
  <2>4. Grows
    BY <1>1, <2>2 DEF Grows, Shapes
  <2> QED BY <2>1, <2>2, <2>3, <2>4 DEF Moves
<1>2. ASSUME CreateInsert(r) PROVE Grows /\ Moves(r)
  BY <1>1, <1>2 DEF CreateInsert, Actions, q
<1>3. ASSUME RollbackPut(r) PROVE Grows /\ Moves(r)
  BY <1>1, <1>3 DEF RollbackPut, Actions, q
<1>4. ASSUME PublishGet(r) PROVE Grows /\ Moves(r)
  <2>1. Grows /\ UNCHANGED <<counters, versions, effects>>
    BY <1>4 DEF PublishGet, Grows, tables, historyVars, Shapes
  <2>2. CASE q.id \in DOMAIN games /\ q.version > games[q.id].latest
    <3> DEFINE p == [q EXCEPT !.step = "latest", !.held = games[q.id]]
    <3>1. p \in RequestRecord
      BY <1>0, <2>2, GameType DEF RequestRecord, Steps
    <3>2. request' = [request EXCEPT ![r] = p]
      BY <1>4, <2>2 DEF PublishGet, Set, q
    <3>3. /\ q.step = "get" /\ Backed(q.id, games[q.id], counters["game"], versions)
          /\ q.kind = "game" /\ <<q.id, q.version>> \in versions /\ q.id \in Id
      BY <1>0, <1>4, <2>2 DEF PublishGet, Behind, Sound, q
    <3>4. /\ p.step = "latest" /\ p.kind = q.kind /\ p.id = q.id /\ p.version = q.version
          /\ p.held = games[q.id]
      BY <1>0 DEF RequestRecord
    <3> HIDE DEF p
    <3>5. Sound(p, counters', versions', effects')
      BY <2>1, <2>2, <3>3, <3>4 DEF Sound
    <3> QED BY <2>1, <3>1, <3>2, <3>5 DEF Moves
  <2>3. CASE ~ (q.id \in DOMAIN games /\ q.version > games[q.id].latest)
    <3>1. request' = [request EXCEPT ![r] = Idle]
      BY <1>4, <2>3 DEF PublishGet, Set, q
    <3> QED BY <1>0, <2>1, <3>1 DEF Moves
  <2> QED BY <2>2, <2>3
<1>5. ASSUME PublishPut(r) PROVE Grows /\ Moves(r)
  <2>1. Grows /\ request' = [request EXCEPT ![r] = Idle]
    BY <1>5 DEF PublishPut, Set, Grows, Shapes
  <2> QED BY <1>0, <2>1 DEF Moves
<1>6. ASSUME RollbackPush(r) PROVE Grows /\ Moves(r)
  <2> DEFINE p == [q EXCEPT !.step = "put"]
  <2>1. Grows /\ request' = [request EXCEPT ![r] = p] /\ q.step = "push"
        /\ UNCHANGED <<counters, versions, effects>>
    BY <1>6 DEF RollbackPush, Set, Grows, tables, historyVars, Shapes, q
  <2>2. p \in RequestRecord
    BY <1>0 DEF RequestRecord, Steps
  <2>3. /\ p.step = "put" /\ p.kind = q.kind /\ p.id = q.id /\ p.version = q.version
        /\ p.held = q.held
    BY <1>0 DEF RequestRecord
  <2> HIDE DEF p
  <2>4. Sound(p, counters', versions', effects')
    BY <1>0, <2>1, <2>3 DEF Sound
  <2> QED BY <2>1, <2>2, <2>4 DEF Moves
<1>7. ASSUME Fail(r) PROVE Grows /\ Moves(r)
  <2>1. Grows /\ request' = [request EXCEPT ![r] = Idle]
    BY <1>7 DEF Fail, Set, Grows, tables, Shapes
  <2> QED BY <1>0, <2>1 DEF Moves
<1> QED BY <1>2, <1>3, <1>4, <1>5, <1>6, <1>7

LEMMA ArriveMoves ==
    ASSUME Shapes, Behind, NEW r \in Request, NEW i \in Id,
           \/ \E k \in Kind : Delete(r, k, i)
           \/ DeleteGame(r, i)
           \/ \E v \in Version : PublishSave(r, i, v) \/ RollbackGet(r, i, v)
    PROVE  Grows /\ Moves(r)
<1> USE CatalogueAssumption
<1>0. i \in 0 .. MaxId /\ Version \subseteq Nat
  BY DEF Id
<1>1. Idle \in RequestRecord
  BY DEF Idle, RequestRecord, Steps, Actions, NoGame, GameRecord
<1>2. ASSUME NEW k \in Kind \cup {"game"}, effects' = effects \cup {<<"delete", k, i>>},
             Set(r, [Idle EXCEPT !.step = "auditId", !.kind = k, !.id = i,
                                 !.action = "delete"]),
             UNCHANGED <<counters, versions>>
      PROVE  Grows /\ Moves(r)
  <2> DEFINE p == [Idle EXCEPT !.step = "auditId", !.kind = k, !.id = i, !.action = "delete"]
  <2>1. p \in RequestRecord
    BY <1>0, <1>1 DEF RequestRecord, Steps, Actions
  <2>2. p.step = "auditId" /\ p.kind = k /\ p.id = i /\ p.action = "delete"
    BY DEF Idle
  <2>3. request' = [request EXCEPT ![r] = p]
    BY <1>2 DEF Set
  <2> HIDE DEF p
  <2>4. Sound(p, counters', versions', effects')
    BY <1>2, <2>2 DEF Sound
  <2>5. Grows
    BY <1>2 DEF Grows, Shapes
  <2> QED BY <2>1, <2>3, <2>4, <2>5 DEF Moves
<1>3. ASSUME NEW k \in Kind, Delete(r, k, i) PROVE Grows /\ Moves(r)
  BY <1>2, <1>3 DEF Delete
<1>4. ASSUME DeleteGame(r, i) PROVE Grows /\ Moves(r)
  BY <1>2, <1>4 DEF DeleteGame
<1>5. ASSUME NEW v \in Version, PublishSave(r, i, v) PROVE Grows /\ Moves(r)
  <2> DEFINE p == [Idle EXCEPT !.step = "get", !.kind = "game", !.id = i, !.version = v]
  <2>1. p \in RequestRecord
    BY <1>0, <1>1 DEF RequestRecord, Steps
  <2>2. p.step = "get" /\ p.kind = "game" /\ p.id = i /\ p.version = v
    BY DEF Idle
  <2>3. /\ request' = [request EXCEPT ![r] = p] /\ versions' = versions \cup {<<i, v>>}
        /\ UNCHANGED <<counters, effects>>
    BY <1>5 DEF PublishSave, Set
  <2> HIDE DEF p
  <2>4. Sound(p, counters', versions', effects')
    BY <2>2, <2>3 DEF Sound
  <2>5. Grows
    BY <2>3 DEF Grows, Shapes
  <2> QED BY <2>1, <2>3, <2>4, <2>5 DEF Moves
<1>6. ASSUME NEW v \in Version, RollbackGet(r, i, v) PROVE Grows /\ Moves(r)
  <2> DEFINE p == [Idle EXCEPT !.step = "push", !.kind = "game", !.id = i, !.version = v,
                               !.held = games[i]]
  <2>0. i \in DOMAIN games /\ <<i, v>> \in versions
    BY <1>6 DEF RollbackGet, Found
  <2>1. p \in RequestRecord
    BY <1>0, <1>1, <2>0, GameType DEF RequestRecord, Steps
  <2>2. p.step = "push" /\ p.kind = "game" /\ p.id = i /\ p.version = v /\ p.held = games[i]
    BY DEF Idle
  <2>3. request' = [request EXCEPT ![r] = p] /\ UNCHANGED <<counters, versions, effects>>
    BY <1>6 DEF RollbackGet, Set, tables
  <2> HIDE DEF p
  <2>4. Backed(i, games[i], counters["game"], versions)
    BY <2>0 DEF Behind
  <2>5. Sound(p, counters', versions', effects')
    BY <2>0, <2>2, <2>3, <2>4 DEF Sound
  <2>6. Grows
    BY <2>3 DEF Grows, Shapes
  <2> QED BY <2>1, <2>3, <2>5, <2>6 DEF Moves
<1> QED BY <1>3, <1>4, <1>5, <1>6

LEMMA AuditMoves ==
    ASSUME Shapes, HeldSound, NEW r \in Request, AuditId(r) \/ AuditPut(r)
    PROVE  Grows /\ Moves(r)
<1> USE CatalogueAssumption
<1> DEFINE q == request[r]
<1>0. /\ q \in RequestRecord /\ Sound(q, counters, versions, effects)
      /\ Idle \in RequestRecord /\ Sound(Idle, counters', versions', effects')
  BY DEF Shapes, HeldSound, Idle, RequestRecord, Steps, Actions, NoGame, GameRecord, Sound
<1>1. CASE AuditId(r)
  <2> DEFINE p == [q EXCEPT !.step = "auditPut", !.version = counters'["audit"]]
  <2>1. /\ counters["audit"] \in Nat /\ counters'["audit"] = counters["audit"] + 1
        /\ \A c \in Counter : counters[c] <= counters'[c] /\ counters'[c] \in Nat
        /\ counters'["audit"] \in Nat
    BY <1>1 DEF AuditId, Shapes, Counter
  <2>2. /\ request' = [request EXCEPT ![r] = p] /\ q.step = "auditId"
        /\ UNCHANGED <<versions, effects>>
    BY <1>1 DEF AuditId, Set, historyVars
  <2> HIDE DEF q
  <2>3. p \in RequestRecord
    BY <1>0, <2>1 DEF RequestRecord, Steps
  <2>4. /\ p.step = "auditPut" /\ p.kind = q.kind /\ p.id = q.id
        /\ p.version = counters'["audit"] /\ p.action = q.action
    BY <1>0 DEF RequestRecord
  <2> HIDE DEF p
  <2>5. Sound(p, counters', versions', effects')
    BY <1>0, <2>1, <2>2, <2>4 DEF Sound
  <2> QED BY <2>1, <2>2, <2>3, <2>5 DEF Moves, Grows
<1>2. CASE AuditPut(r)
  <2>1. Grows /\ request' = [request EXCEPT ![r] = Idle]
    BY <1>2 DEF AuditPut, Set, Grows, historyVars, Shapes
  <2> QED BY <1>0, <2>1 DEF Moves
<1> QED BY <1>1, <1>2

LEMMA HandlerMoves ==
    ASSUME Shapes, HeldSound, Behind, NEW r \in Request, Handler(r)
    PROVE  Grows /\ Moves(r)
  BY CreateMoves, UpdateMoves, ArriveMoves, AuditMoves DEF Handler

LEMMA Growth ==
    ASSUME Shapes, HeldSound, Behind, [Next]_vars
    PROVE  Grows
<1>1. ASSUME UNCHANGED <<counters, versions, effects>> PROVE Grows
  BY <1>1, CatalogueAssumption DEF Grows, Shapes
<1>2. CASE UNCHANGED vars
  BY <1>1, <1>2 DEF vars
<1>3. CASE BackupRead \/ BackupWrite \/ Crash
  BY <1>1, <1>3 DEF BackupRead, BackupWrite, Crash, tables, historyVars
<1> QED BY <1>2, <1>3, HandlerMoves DEF Next

LEMMA HeldStep ==
    ASSUME Shapes, HeldSound, Behind, [Next]_vars
    PROVE  HeldSound' /\ request' \in [Request -> RequestRecord]
<1>1. Grows
  BY Growth
<1>2. \A q \in RequestRecord : Sound(q, counters, versions, effects) =>
                                    Sound(q, counters', versions', effects')
  BY <1>1, SoundGrows
<1>3. CASE UNCHANGED request
  BY <1>2, <1>3 DEF HeldSound, Shapes
<1>4. CASE Crash
  <2>1. Idle \in RequestRecord /\ Sound(Idle, counters', versions', effects')
    BY CatalogueAssumption
       DEF Idle, RequestRecord, Steps, Actions, NoGame, GameRecord, Sound
  <2>2. request' = [r \in Request |-> Idle]
    BY <1>4 DEF Crash
  <2> QED BY <2>1, <2>2 DEF HeldSound
<1>5. ASSUME NEW r \in Request, Handler(r)
      PROVE  HeldSound' /\ request' \in [Request -> RequestRecord]
  <2>1. Moves(r)
    BY <1>5, HandlerMoves
  <2> QED BY <1>2, <2>1 DEF Moves, HeldSound, Shapes
<1> QED
  BY <1>3, <1>4, <1>5 DEF Next, BackupRead, BackupWrite, vars
-----------------------------------------------------------------------------
(***************************************************************************)
(* The tables.                                                             *)
(***************************************************************************)
LEMMA WriteTable ==
    ASSUME Shapes, NEW i \in Id, NEW game \in GameRecord, WriteGame(i, game)
    PROVE  /\ games' \in GameTable /\ DOMAIN games' = DOMAIN games \cup {i}
           /\ games'[i] = game /\ \A n \in DOMAIN games \ {i} : games'[n] = games[n]
<1>1. /\ DOMAIN games \subseteq Id /\ \A n \in DOMAIN games : games[n] \in GameRecord
  BY DEF Shapes, GameTable
<1>2. games' \in [DOMAIN games \cup {i} -> GameRecord]
  BY <1>1 DEF WriteGame
<1>3. games' \in GameTable
  BY <1>1, <1>2 DEF GameTable
<1> QED BY <1>2, <1>3 DEF WriteGame

(* What the steps that change a game's record make of it. *)
LEMMA RecordWrites ==
    ASSUME Shapes, HeldSound, NEW r \in Request
    PROVE  /\ CreateInsert(r) /\ request[r].kind = "game" =>
                WriteGame(request[r].id, request[r].held) /\ request[r].id \in Id
           /\ CreateInsert(r) /\ request[r].kind # "game" =>
                /\ request[r].kind \in Kind /\ request[r].id \in Id
                /\ InsertRow(request[r].kind, request[r].id) /\ UNCHANGED <<games, seen>>
           /\ PublishPut(r) =>
                /\ WriteGame(request[r].id, [request[r].held EXCEPT !.latest = request[r].version])
                /\ request[r].id \in Id /\ request[r].version \in Version
           /\ RollbackPut(r) =>
                /\ WriteGame(request[r].id, [request[r].held EXCEPT !.current = request[r].version])
                /\ request[r].id \in Id /\ request[r].version \in Version
           /\ request[r].held \in GameRecord
<1>1. Sound(request[r], counters, versions, effects) /\ request[r] \in RequestRecord
  BY DEF HeldSound, Shapes
<1>2. request[r].held \in GameRecord
  BY <1>1 DEF RequestRecord
<1>3. request[r].step # "idle" => request[r].id \in Id /\ request[r].kind \in Kind \cup {"game"}
  BY <1>1 DEF Sound
<1>4. request[r].step \in {"latest", "put"} => request[r].version \in Version
  BY <1>1 DEF Sound, Shapes
<1>5. CreateInsert(r) /\ request[r].kind = "game" =>
            WriteGame(request[r].id, request[r].held) /\ request[r].id \in Id
  BY <1>3 DEF CreateInsert, WriteGame
<1> QED BY <1>2, <1>3, <1>4, <1>5 DEF CreateInsert, PublishPut, RollbackPut

LEMMA HandlerShapes ==
    ASSUME Shapes, HeldSound, request' \in [Request -> RequestRecord],
           NEW r \in Request, Handler(r)
    PROVE  Shapes'
<1> USE CatalogueAssumption
<1>0. ASSUME Arrive(r) PROVE ops' \in 0 .. MaxOps
  BY <1>0 DEF Arrive, Shapes
<1>1. ASSUME CreateGameId(r) PROVE Shapes'
  <2>1. counters' \in [Counter -> 0 .. MaxId + MaxOps]
    BY <1>1, NextIdGrows DEF CreateGameId, Counter
  <2> QED BY <1>0, <1>1, <2>1 DEF CreateGameId, Shapes, historyVars
<1>2. ASSUME NEW k \in Kind, CreateId(r, k) PROVE Shapes'
  <2>1. counters' \in [Counter -> 0 .. MaxId + MaxOps]
    BY <1>2, NextIdGrows DEF CreateId, Counter
  <2> QED BY <1>0, <1>2, <2>1 DEF CreateId, Shapes, historyVars
<1>3. ASSUME NEW i \in Id, CreateGameAt(r, i) PROVE Shapes'
  BY <1>0, <1>3 DEF CreateGameAt, Shapes, tables, historyVars
<1>4. ASSUME CreateInsert(r) PROVE Shapes'
  <2>1. request[r].kind \in Kind \cup {"game"} /\ request[r].id \in Id
    BY <1>4, RecordWrites
  <2>2. /\ games' \in GameTable /\ seen' \in [Id -> Version \cup {0}]
        /\ rows' \in [Kind -> SUBSET Id]
    <3>1. CASE request[r].kind = "game"
      <4>1. games' \in GameTable
        BY <1>4, <3>1, RecordWrites, WriteTable
      <4> QED BY <1>4, <2>1, <3>1, <4>1 DEF CreateInsert, Shapes
    <3>2. CASE request[r].kind # "game"
      <4>1. /\ request[r].kind \in Kind /\ InsertRow(request[r].kind, request[r].id)
            /\ UNCHANGED <<games, seen>>
        BY <1>4, <3>2, RecordWrites
      <4> QED BY <2>1, <4>1 DEF InsertRow, Shapes
    <3> QED BY <3>1, <3>2
  <2>3. born' \subseteq (Kind \cup {"game"}) \X Id \X {"counter", "request"}
    BY <1>4, <2>1 DEF CreateInsert, Origin, Shapes
  <2>4. disturbed' \subseteq Id
    BY <1>4, <2>1 DEF CreateInsert, Shapes
  <2> QED BY <1>4, <2>2, <2>3, <2>4 DEF CreateInsert, Shapes
<1>5. ASSUME NEW k \in Kind, NEW i \in Id, Delete(r, k, i) PROVE Shapes'
  <2>1. rows' \in [Kind -> SUBSET Id]
    BY <1>5 DEF Delete, DeleteRow, Shapes
  <2> QED BY <1>0, <1>5, <2>1 DEF Delete, Shapes
<1>6. ASSUME NEW i \in Id, DeleteGame(r, i) PROVE Shapes'
  <2>1. /\ DOMAIN games \ {i} \subseteq Id
        /\ games' \in [DOMAIN games \ {i} -> GameRecord]
    BY <1>6, GameType DEF DeleteGame
  <2>2. games' \in GameTable
    BY <2>1 DEF GameTable
  <2>3. disturbed' \subseteq Id
    BY <1>6 DEF DeleteGame, Shapes
  <2> QED BY <1>0, <1>6, <2>2, <2>3 DEF DeleteGame, Shapes
<1>7. ASSUME NEW i \in Id, NEW v \in Version, PublishSave(r, i, v) PROVE Shapes'
  <2>1. disturbed' \subseteq Id /\ versions' \subseteq Id \X Version
    BY <1>7 DEF PublishSave, Shapes
  <2>2. seen' \in [Id -> Version \cup {0}]
    BY <1>7 DEF PublishSave, Shapes
  <2> QED BY <1>0, <1>7, <2>1, <2>2 DEF PublishSave, Shapes
<1>8. ASSUME PublishGet(r) PROVE Shapes'
  BY <1>8 DEF PublishGet, Shapes, tables, historyVars
<1>9. ASSUME PublishPut(r) PROVE Shapes'
  <2>1. [request[r].held EXCEPT !.latest = request[r].version] \in GameRecord
    BY <1>9, RecordWrites DEF GameRecord
  <2>2. games' \in GameTable
    BY <1>9, <2>1, RecordWrites, WriteTable
  <2>3. disturbed' \subseteq Id
    BY <1>9 DEF PublishPut, Shapes
  <2> QED BY <1>9, <2>2, <2>3 DEF PublishPut, Shapes
<1>10. ASSUME NEW i \in Id, NEW v \in Version, RollbackGet(r, i, v) PROVE Shapes'
  <2>1. disturbed' \subseteq Id
    BY <1>10 DEF RollbackGet, Shapes
  <2> QED BY <1>0, <1>10, <2>1 DEF RollbackGet, Shapes, tables
<1>11. ASSUME RollbackPush(r) PROVE Shapes'
  BY <1>11 DEF RollbackPush, Shapes, tables, historyVars
<1>12. ASSUME RollbackPut(r) PROVE Shapes'
  <2>1. [request[r].held EXCEPT !.current = request[r].version] \in GameRecord
    BY <1>12, RecordWrites DEF GameRecord
  <2>2. games' \in GameTable
    BY <1>12, <2>1, RecordWrites, WriteTable
  <2> QED BY <1>12, <2>2 DEF RollbackPut, Effect, Shapes
<1>13. ASSUME AuditId(r) PROVE Shapes'
  <2>1. counters' \in [Counter -> 0 .. MaxId + MaxOps]
    <3>1. counters["audit"] \in Nat /\ counters["audit"] < MaxOps
      BY <1>13 DEF AuditId, Shapes, Counter
    <3>2. counters["audit"] + 1 \in 0 .. MaxId + MaxOps
      BY <3>1
    <3> QED BY <1>13, <3>2 DEF AuditId, Shapes
  <2> QED BY <1>13, <2>1 DEF AuditId, Shapes, historyVars
<1>14. ASSUME AuditPut(r) PROVE Shapes'
  <2>1. audits' \subseteq AuditRecord
    <3>1. request[r] \in RequestRecord
      BY DEF Shapes
    <3>2. [id |-> request[r].version,
           what |-> <<request[r].action, request[r].kind, request[r].id>>] \in AuditRecord
      BY <3>1 DEF RequestRecord, AuditRecord
    <3> QED BY <1>14, <3>2 DEF AuditPut, Shapes
  <2> QED BY <1>14, <2>1 DEF AuditPut, Shapes, historyVars
<1>15. ASSUME Fail(r) PROVE Shapes'
  <2>1. faults' \in 0 .. MaxFaults
    BY <1>15 DEF Fail, Shapes
  <2>2. disturbed' \subseteq Id
    <3>1. CutShort({r}) \subseteq Id
      BY DEF CutShort, HeldSound, Sound
    <3> QED BY <1>15, <3>1 DEF Fail, Shapes
  <2> QED BY <1>15, <2>1, <2>2 DEF Fail, Shapes, tables
<1> QED
  BY <1>1, <1>2, <1>3, <1>4, <1>5, <1>6, <1>7, <1>8, <1>9, <1>10, <1>11, <1>12, <1>13,
     <1>14, <1>15 DEF Handler

LEMMA TablesLength == Len(Tables) = 5
  BY DEF Tables

LEMMA BackupShapes ==
    ASSUME Shapes, BackupRead
    PROVE  /\ reading' \in ReadingRecord
           /\ \/ reading.n = 0 /\ ReadRows
              \/ reading.n = 1 /\ ReadGames
              \/ reading.n = 2 /\ ReadVersions
              \/ reading.n = 3 /\ ReadCounters
              \/ reading.n = 4 /\ ReadAudits
<1>1. \/ reading.n = 0 /\ ReadRows
      \/ reading.n = 1 /\ ReadGames
      \/ reading.n = 2 /\ ReadVersions
      \/ reading.n = 3 /\ ReadCounters
      \/ reading.n = 4 /\ ReadAudits
  <2>1. reading.n \in 0 .. 4
    BY TablesLength DEF BackupRead, Shapes, ReadingRecord
  <2>2. \/ reading.n = 0 /\ Tables[reading.n + 1] = "rows"
        \/ reading.n = 1 /\ Tables[reading.n + 1] = "games"
        \/ reading.n = 2 /\ Tables[reading.n + 1] = "versions"
        \/ reading.n = 3 /\ Tables[reading.n + 1] = "counters"
        \/ reading.n = 4 /\ Tables[reading.n + 1] = "audits"
    BY <2>1 DEF Tables
  <2> QED BY <2>2 DEF BackupRead
<1>2. reading.n + 1 \in 0 .. 5
  BY <1>1
<1>3. reading \in ReadingRecord /\ counters \in [Counter -> Nat]
  BY CatalogueAssumption DEF Shapes
<1>4. /\ rows \in [Kind -> SUBSET Id] /\ games \in GameTable
      /\ versions \in SUBSET (Id \X Version) /\ audits \in SUBSET AuditRecord
  BY DEF Shapes
<1>5. reading' \in ReadingRecord
  <2>1. CASE ReadRows
    BY <1>2, <1>3, <1>4, <2>1 DEF ReadRows, ReadingRecord
  <2>2. CASE ReadGames
    BY <1>2, <1>3, <1>4, <2>2 DEF ReadGames, ReadingRecord
  <2>3. CASE ReadVersions
    BY <1>2, <1>3, <1>4, <2>3 DEF ReadVersions, ReadingRecord
  <2>4. CASE ReadCounters
    BY <1>2, <1>3, <2>4 DEF ReadCounters, ReadingRecord
  <2>5. CASE ReadAudits
    BY <1>2, <1>3, <1>4, <2>5 DEF ReadAudits, ReadingRecord
  <2> QED BY <1>1, <2>1, <2>2, <2>3, <2>4, <2>5
<1> QED BY <1>1, <1>5

LEMMA NothingReadType == NothingRead \in ReadingRecord
<1>1. [i \in {} |-> NoGame] \in [{} -> GameRecord]
  BY DEF NoGame
<1>2. [i \in {} |-> NoGame] \in GameTable
  BY <1>1 DEF GameTable
<1> QED BY <1>2 DEF NothingRead, ReadingRecord

LEMMA ShapesStep ==
    ASSUME Shapes, HeldSound, Behind, [Next]_vars
    PROVE  Shapes'
<1>0. request' \in [Request -> RequestRecord]
  BY HeldStep
<1>1. CASE UNCHANGED vars
  BY <1>1 DEF vars, Shapes
<1>2. CASE BackupRead
  BY <1>2, BackupShapes DEF BackupRead, Shapes, tables, historyVars
<1>3. CASE BackupWrite
  BY <1>3, NothingReadType DEF BackupWrite, Shapes, tables, historyVars
<1>4. CASE Crash
  <2>1. faults' \in 0 .. MaxFaults
    BY <1>4, CatalogueAssumption DEF Crash, Shapes
  <2>2. disturbed' \subseteq Id
    <3>1. CutShort(Request) \subseteq Id
      BY DEF CutShort, HeldSound, Sound
    <3> QED BY <1>4, <3>1 DEF Crash, Shapes
  <2> QED BY <1>0, <1>4, <2>1, <2>2, NothingReadType DEF Crash, Shapes, tables
<1> QED BY <1>0, <1>1, <1>2, <1>3, <1>4, HandlerShapes DEF Next

(* Rows, games and used ids stay behind the counters, and the versions of  *)
(* the games have their manifests.                                         *)
LEMMA BehindStep ==
    ASSUME Shapes, HeldSound, Behind, [Next]_vars
    PROVE  Behind'
<1> USE CatalogueAssumption
<1>1. Grows
  BY Growth
<1>a. /\ "game" \in Counter /\ "audit" \in Counter /\ Kind \subseteq Counter
      /\ \A c \in Counter : counters[c] \in Nat /\ counters'[c] \in Nat
                            /\ counters[c] <= counters'[c]
      /\ \A i \in Id : i \in Int
  BY <1>1 DEF Counter, Grows, Shapes, Id
<1>b. ASSUME NEW i \in Id, NEW game, Backed(i, game, counters["game"], versions)
      PROVE  Backed(i, game, counters'["game"], versions')
  BY <1>1, <1>a, <1>b, BackedGrows DEF Grows
<1>2. ASSUME rows' = rows PROVE \A k \in Kind : \A i \in rows'[k] : i <= counters'[k]
  BY <1>a, <1>2 DEF Behind, Shapes
<1>3. ASSUME games' = games
      PROVE  \A i \in DOMAIN games' : Backed(i, games'[i], counters'["game"], versions')
  BY <1>b, <1>3, GameType DEF Behind
<1>4. ASSUME born' = born
      PROVE  /\ \A b \in born' : b[3] = "counter" => b[2] <= counters'[b[1]]
             /\ \A b \in born' : b[3] = "counter" \/ b[1] = "game"
  <2> SUFFICES ASSUME NEW b \in born, b[3] = "counter" PROVE b[2] <= counters'[b[1]]
    BY <1>4 DEF Behind
  <2>1. b[1] \in Counter /\ b[2] \in Int /\ b[2] <= counters[b[1]]
    BY <1>a DEF Behind, Shapes, Counter
  <2> QED BY <1>a, <2>1
<1>5. ASSUME audits' = audits PROVE \A a \in audits' : a.id \in 1 .. counters'["audit"]
  BY <1>a, <1>5 DEF Behind
<1>c. ASSUME late' = late PROVE late' \subseteq 1 .. counters'["audit"]
  BY <1>a, <1>c DEF Behind
<1>6. ASSUME NEW i \in Id, NEW game \in GameRecord, WriteGame(i, game),
             Backed(i, game, counters'["game"], versions')
      PROVE  \A n \in DOMAIN games' : Backed(n, games'[n], counters'["game"], versions')
  <2> SUFFICES ASSUME NEW n \in DOMAIN games'
               PROVE  Backed(n, games'[n], counters'["game"], versions')
    OBVIOUS
  <2>1. CASE n = i
    BY <1>6, <2>1, WriteTable
  <2>2. CASE n # i
    <3>0. /\ DOMAIN games' = DOMAIN games \cup {i}
          /\ \A d \in DOMAIN games \ {i} : games'[d] = games[d]
      BY <1>6, WriteTable
    <3>1. n \in DOMAIN games /\ games'[n] = games[n]
      BY <2>2, <3>0
    <3> QED BY <1>b, <3>1, GameType DEF Behind
  <2> QED BY <2>1, <2>2
<1>7. CASE UNCHANGED <<rows, games, born, audits>> /\ late' \in {late, {}}
  BY <1>2, <1>3, <1>4, <1>5, <1>7, <1>c DEF Behind
<1>8. ASSUME NEW r \in Request, CreateInsert(r) PROVE Behind'
  <2> DEFINE q == request[r]
  <2>1. /\ Sound(q, counters, versions, effects) /\ q.step = "insert" /\ q.id \in Id
        /\ q.kind \in Kind \cup {"game"} /\ q.held \in GameRecord
        /\ UNCHANGED <<counters, versions, audits, late>>
    BY <1>8, RecordWrites DEF HeldSound, CreateInsert
  <2>2. \A k \in Kind : \A i \in rows'[k] : i <= counters'[k]
    <3>1. CASE q.kind = "game"
      BY <1>2, <1>8, <3>1 DEF CreateInsert
    <3>2. CASE q.kind # "game"
      <4>1. q.kind \in Kind /\ rows' = [rows EXCEPT ![q.kind] = rows[q.kind] \cup {q.id}]
        BY <1>8, <3>2, RecordWrites DEF InsertRow
      <4>2. q.id <= counters[q.kind]
        BY <2>1, <4>1 DEF Sound
      <4> QED BY <2>1, <4>1, <4>2 DEF Behind, Shapes
    <3> QED BY <3>1, <3>2
  <2>3. \A i \in DOMAIN games' : Backed(i, games'[i], counters'["game"], versions')
    <3>1. CASE q.kind = "game"
      <4>1. WriteGame(q.id, q.held) /\ Backed(q.id, q.held, counters["game"], versions)
        BY <1>8, <2>1, <3>1, RecordWrites DEF Sound
      <4> QED BY <1>6, <2>1, <4>1
    <3>2. CASE q.kind # "game"
      BY <1>3, <1>8, <3>2, RecordWrites
    <3> QED BY <3>1, <3>2
  <2>4. \A b \in born' : b[3] = "counter" => b[2] <= counters'[b[1]]
    <3>1. Given(q) => q.id <= counters[q.kind]
      BY <2>1 DEF Given, Sound, Backed
    <3>2. born' = born \cup {<<q.kind, q.id, Origin(q)>>}
      BY <1>8 DEF CreateInsert
    <3>3. \A b \in born : b[3] = "counter" => b[2] <= counters[b[1]]
      BY DEF Behind
    <3>4. Origin(q) = "counter" => Given(q)
      BY DEF Origin
    <3> HIDE DEF q
    <3> QED BY <2>1, <3>1, <3>2, <3>3, <3>4
  <2>5. \A b \in born' : b[3] = "counter" \/ b[1] = "game"
    <3>1. born' = born \cup {<<q.kind, q.id, Origin(q)>>}
      BY <1>8 DEF CreateInsert
    <3>2. Origin(q) = "counter" \/ q.kind = "game"
      BY <2>1 DEF Origin, Given
    <3> HIDE DEF q
    <3> QED BY <3>1, <3>2 DEF Behind
  <2> QED BY <1>5, <1>c, <2>1, <2>2, <2>3, <2>4, <2>5 DEF Behind
<1>9. ASSUME NEW r \in Request, NEW k \in Kind, NEW i \in Id, Delete(r, k, i) PROVE Behind'
  <2>1. \A n \in Kind : rows'[n] \subseteq rows[n]
    BY <1>9 DEF Delete, DeleteRow, Shapes
  <2>2. \A n \in Kind : \A m \in rows'[n] : m <= counters'[n]
    BY <1>9, <2>1 DEF Delete, Behind
  <2> QED BY <1>3, <1>4, <1>5, <1>c, <1>9, <2>2 DEF Delete, Behind
<1>10. ASSUME NEW r \in Request, NEW i \in Id, DeleteGame(r, i) PROVE Behind'
  <2>1. \A n \in DOMAIN games' : n \in DOMAIN games /\ games'[n] = games[n]
    BY <1>10 DEF DeleteGame
  <2>2. \A n \in DOMAIN games' : Backed(n, games'[n], counters'["game"], versions')
    BY <1>b, <2>1, GameType DEF Behind
  <2> QED BY <1>2, <1>4, <1>5, <1>c, <1>10, <2>2 DEF DeleteGame, Behind
<1>11. ASSUME NEW r \in Request, PublishPut(r) PROVE Behind'
  <2> DEFINE q == request[r]
             game == [q.held EXCEPT !.latest = q.version]
  <2>1. /\ q.step = "latest" /\ Sound(q, counters, versions, effects)
        /\ q.held \in GameRecord /\ q.id \in Id /\ q.version \in Version
        /\ WriteGame(q.id, game) /\ UNCHANGED <<counters, versions, rows, born, audits, late>>
    BY <1>11, RecordWrites DEF PublishPut, HeldSound
  <2>2. /\ game \in GameRecord /\ game.auto = q.held.auto /\ game.current = q.held.current
        /\ game.latest = q.version
    BY <2>1 DEF GameRecord
  <2>3. Backed(q.id, game, counters'["game"], versions')
    <3> HIDE DEF game
    <3> QED BY <2>1, <2>2 DEF Sound, Backed
  <2>4. \A n \in DOMAIN games' : Backed(n, games'[n], counters'["game"], versions')
    <3> HIDE DEF game
    <3> QED BY <1>6, <2>1, <2>2, <2>3
  <2> QED BY <1>2, <1>4, <1>5, <1>c, <2>1, <2>4 DEF Behind
<1>12. ASSUME NEW r \in Request, RollbackPut(r) PROVE Behind'
  <2> DEFINE q == request[r]
             game == [q.held EXCEPT !.current = q.version]
  <2>1. /\ q.step = "put" /\ Sound(q, counters, versions, effects)
        /\ q.held \in GameRecord /\ q.id \in Id /\ q.version \in Version
        /\ WriteGame(q.id, game) /\ UNCHANGED <<counters, versions, rows, born, audits, late>>
    BY <1>12, RecordWrites DEF RollbackPut, HeldSound
  <2>2. /\ game \in GameRecord /\ game.auto = q.held.auto /\ game.latest = q.held.latest
        /\ game.current = q.version
    BY <2>1 DEF GameRecord
  <2>3. Backed(q.id, game, counters'["game"], versions')
    <3> HIDE DEF game
    <3> QED BY <2>1, <2>2 DEF Sound, Backed
  <2>4. \A n \in DOMAIN games' : Backed(n, games'[n], counters'["game"], versions')
    <3> HIDE DEF game
    <3> QED BY <1>6, <2>1, <2>2, <2>3
  <2> QED BY <1>2, <1>4, <1>5, <1>c, <2>1, <2>4 DEF Behind
<1>13. ASSUME NEW r \in Request, AuditPut(r) PROVE Behind'
  <2>1. request[r].version \in 1 .. counters'["audit"]
    BY <1>13 DEF AuditPut, HeldSound, Sound
  <2>2. \A a \in audits' : a.id \in 1 .. counters'["audit"]
    BY <1>5, <1>13, <2>1 DEF AuditPut, Behind
  <2> QED BY <1>2, <1>3, <1>4, <1>c, <1>13, <2>2 DEF AuditPut, Behind, historyVars
<1>14. ASSUME NEW r \in Request, AuditId(r) PROVE Behind'
  <2>1. counters'["audit"] \in 1 .. counters'["audit"]
    BY <1>14, <1>a DEF AuditId, Shapes
  <2>2. late' \subseteq 1 .. counters'["audit"]
    BY <1>14, <1>a, <2>1 DEF AuditId, Behind
  <2>3. UNCHANGED <<rows, games, born, audits>>
    BY <1>14 DEF AuditId
  <2> QED BY <1>2, <1>3, <1>4, <1>5, <2>2, <2>3 DEF Behind
<1> QED
  BY ZenonT(30), <1>7, <1>8, <1>9, <1>10, <1>11, <1>12, <1>13, <1>14
     DEF Next, Handler, CreateGameId, CreateId, CreateGameAt, PublishSave, PublishGet,
         RollbackGet, RollbackPush, Fail, BackupRead, BackupWrite, Crash, vars, tables,
         historyVars
-----------------------------------------------------------------------------
(***************************************************************************)
(* Ids and audits.                                                         *)
(***************************************************************************)
(* Where a handler is after a step that neither takes an id nor audits. *)
LEMMA QuietMoves ==
    ASSUME NEW r \in Request,
           \/ CreateInsert(r) \/ PublishGet(r) \/ PublishPut(r) \/ RollbackPush(r)
           \/ RollbackPut(r) \/ Fail(r)
           \/ \E i \in Id : \/ DeleteGame(r, i) \/ \E k \in Kind : Delete(r, k, i)
                            \/ \E v \in Version : PublishSave(r, i, v) \/ RollbackGet(r, i, v),
           Shapes
    PROVE  /\ audits' = audits
           /\ \E q : /\ request' = [request EXCEPT ![r] = q]
                     /\ q.step \notin {"insert", "auditPut"}
<1> DEFINE Leaves == \E q : /\ request' = [request EXCEPT ![r] = q]
                            /\ q.step \notin {"insert", "auditPut"}
<1>0. request[r] \in RequestRecord
  BY DEF Shapes
<1>1. ASSUME NEW a, Effect(r, a) PROVE Leaves
  <2> DEFINE p == [request[r] EXCEPT !.step = "auditId", !.action = a]
  <2>1. p.step = "auditId"
    BY <1>0 DEF RequestRecord
  <2>2. request' = [request EXCEPT ![r] = p]
    BY <1>1 DEF Effect, Set
  <2> HIDE DEF p
  <2> QED BY <2>1, <2>2
<1>2. ASSUME CreateInsert(r) \/ RollbackPut(r) PROVE audits' = audits /\ Leaves
  BY <1>1, <1>2 DEF CreateInsert, RollbackPut
<1>3. ASSUME PublishPut(r) \/ Fail(r) PROVE audits' = audits /\ Leaves
  <2>1. Idle.step = "idle"
    BY DEF Idle
  <2> QED BY <1>3, <2>1 DEF PublishPut, Fail, tables, Set
<1>4. ASSUME PublishGet(r) PROVE audits' = audits /\ Leaves
  <2> DEFINE p == [request[r] EXCEPT !.step = "latest", !.held = games[request[r].id]]
  <2>1. p.step = "latest" /\ Idle.step = "idle"
    BY <1>0 DEF RequestRecord, Idle
  <2>2. Set(r, p) \/ Set(r, Idle)
    BY <1>4 DEF PublishGet
  <2> HIDE DEF p
  <2> QED BY <1>4, <2>1, <2>2 DEF PublishGet, tables, Set
<1>5. ASSUME RollbackPush(r) PROVE audits' = audits /\ Leaves
  <2> DEFINE p == [request[r] EXCEPT !.step = "put"]
  <2>1. p.step = "put" /\ Set(r, p)
    BY <1>0, <1>5 DEF RequestRecord, RollbackPush
  <2> HIDE DEF p
  <2> QED BY <1>5, <2>1 DEF RollbackPush, tables, Set
<1>6. ASSUME NEW i \in Id, NEW k, 
             Set(r, [Idle EXCEPT !.step = "auditId", !.kind = k, !.id = i,
                                 !.action = "delete"])
      PROVE  Leaves
  <2> DEFINE p == [Idle EXCEPT !.step = "auditId", !.kind = k, !.id = i, !.action = "delete"]
  <2>1. p.step = "auditId"
    BY DEF Idle
  <2>2. Set(r, p)
    BY <1>6
  <2> HIDE DEF p
  <2> QED BY <2>1, <2>2 DEF Set
<1>7. ASSUME NEW i \in Id, NEW v \in Version, PublishSave(r, i, v)
      PROVE  audits' = audits /\ Leaves
  <2> DEFINE p == [Idle EXCEPT !.step = "get", !.kind = "game", !.id = i, !.version = v]
  <2>1. p.step = "get"
    BY DEF Idle
  <2>2. Set(r, p)
    BY <1>7 DEF PublishSave
  <2> HIDE DEF p
  <2> QED BY <1>7, <2>1, <2>2 DEF Set, PublishSave
<1>8. ASSUME NEW i \in Id, NEW v \in Version, RollbackGet(r, i, v)
      PROVE  audits' = audits /\ Leaves
  <2> DEFINE p == [Idle EXCEPT !.step = "push", !.kind = "game", !.id = i, !.version = v,
                               !.held = games[i]]
  <2>1. p.step = "push"
    BY DEF Idle
  <2>2. Set(r, p)
    BY <1>8 DEF RollbackGet
  <2> HIDE DEF p
  <2> QED BY <1>8, <2>1, <2>2 DEF Set, RollbackGet, tables
<1>9. ASSUME NEW i \in Id, DeleteGame(r, i) PROVE audits' = audits /\ Leaves
  BY <1>6, <1>9 DEF DeleteGame
<1>10. ASSUME NEW i \in Id, NEW k \in Kind, Delete(r, k, i) PROVE audits' = audits /\ Leaves
  BY <1>6, <1>10 DEF Delete
<1> QED BY <1>2, <1>3, <1>4, <1>5, <1>7, <1>8, <1>9, <1>10

(* No record had the id a handler holds, but for one whose request named it. *)
Unused(q, used) == \A b \in used : b[1] = q.kind /\ b[2] = q.id =>
                                        q.kind = "game" /\ b[3] = "request"

(* An id from next_id is held by one handler and has not been used. *)
LEMMA FreshCreate ==
    ASSUME Shapes, HeldSound, Behind, IdsFresh, NEW r \in Request,
           NEW c \in Kind \cup {"game"}, NextId(c), born' = born,
           NEW q \in RequestRecord, request' = [request EXCEPT ![r] = q],
           q.kind = c, q.id = counters'[c]
    PROVE  IdsFresh'
<1> USE CatalogueAssumption
<1>1. /\ c \in Counter /\ counters'[c] = counters[c] + 1 /\ counters[c] \in Nat
  BY NextIdGrows DEF Counter
<1>2. ASSUME NEW s \in Request, request[s].step = "insert", Given(request[s]),
             request[s].kind = c
      PROVE  request[s].id # q.id
  <2>1. Sound(request[s], counters, versions, effects) /\ request[s].id \in Int
    BY DEF HeldSound, Shapes, RequestRecord
  <2>2. request[s].id <= counters[c]
    BY <1>2, <2>1 DEF Sound, Given, Backed
  <2> QED BY <1>1, <2>1, <2>2
<1>3. Unused(q, born)
  <2> SUFFICES ASSUME NEW b \in born, b[1] = c, b[2] = q.id
               PROVE  c = "game" /\ b[3] = "request"
    BY DEF Unused
  <2>1. b[3] # "counter"
    <3>1. b[3] = "counter" => b[2] <= counters[c]
      BY DEF Behind
    <3> QED BY <1>1, <3>1
  <2>2. b[3] \in {"counter", "request"} /\ b[1] \in Kind \cup {"game"}
    BY DEF Shapes
  <2>3. c \in Kind => b[3] = "counter"
    BY DEF Behind
  <2> QED BY <2>1, <2>2, <2>3
<1>4. \A s \in Request \ {r} : request'[s] = request[s]
  BY DEF Shapes
<1>5. request'[r] = q
  BY DEF Shapes
<1> SUFFICES ASSUME NEW s \in Request, (request[s].step = "insert")', Given(request[s])'
             PROVE  /\ Unused(request'[s], born')
                    /\ \A t \in Request \ {s} :
                        (request[t].step = "insert" /\ Given(request[t]))' =>
                            (<<request[t].kind, request[t].id>> #
                                <<request[s].kind, request[s].id>>)'
  BY DEF IdsFresh, Unused, Given
<1>6. CASE s = r
  BY <1>2, <1>3, <1>4, <1>5, <1>6 DEF Given
<1>7. CASE s # r
  <2>1. Unused(request[s], born)
    BY <1>4, <1>7 DEF IdsFresh, Given, Unused
  <2> QED BY <1>2, <1>4, <1>5, <1>7, <2>1 DEF Given, IdsFresh
<1> QED BY <1>6, <1>7

(* A handler that does not take an id leaves the others' fresh. *)
LEMMA FreshQuiet ==
    ASSUME Shapes, IdsFresh, NEW r \in Request, born' = born,
           NEW q, request' = [request EXCEPT ![r] = q], q.step # "insert" \/ ~ Given(q)
    PROVE  IdsFresh'
<1>1. request'[r] = q /\ \A s \in Request \ {r} : request'[s] = request[s]
  BY DEF Shapes
<1> SUFFICES ASSUME NEW s \in Request, (request[s].step = "insert")', Given(request[s])'
             PROVE  /\ Unused(request'[s], born')
                    /\ \A t \in Request \ {s} :
                        (request[t].step = "insert" /\ Given(request[t]))' =>
                            (<<request[t].kind, request[t].id>> #
                                <<request[s].kind, request[s].id>>)'
  BY DEF IdsFresh, Unused, Given
<1>2. s # r
  BY <1>1 DEF Given
<1>3. Unused(request[s], born)
  BY <1>1, <1>2 DEF IdsFresh, Given, Unused
<1> QED BY <1>1, <1>2, <1>3 DEF IdsFresh, Given

(* insert_json: the id has now been used, by this handler alone. *)
LEMMA FreshInsert ==
    ASSUME Shapes, HeldSound, IdsFresh, NEW r \in Request, CreateInsert(r)
    PROVE  IdsFresh'
<1> DEFINE p == request[r]
<1>1. PICK q : request' = [request EXCEPT ![r] = q] /\ q.step \notin {"insert", "auditPut"}
  BY QuietMoves
<1>2. /\ born' = born \cup {<<p.kind, p.id, Origin(p)>>} /\ p.step = "insert"
      /\ p.kind \in Kind \cup {"game"}
  BY RecordWrites DEF CreateInsert
<1>3. request'[r].step # "insert" /\ \A s \in Request \ {r} : request'[s] = request[s]
  BY <1>1 DEF Shapes
<1> SUFFICES ASSUME NEW s \in Request, (request[s].step = "insert")', Given(request[s])'
             PROVE  /\ Unused(request'[s], born')
                    /\ \A t \in Request \ {s} :
                        (request[t].step = "insert" /\ Given(request[t]))' =>
                            (<<request[t].kind, request[t].id>> #
                                <<request[s].kind, request[s].id>>)'
  BY DEF IdsFresh, Unused, Given
<1>4. /\ s # r /\ request'[s] = request[s] /\ Given(request[s])
      /\ request[s].step = "insert"
  BY <1>3 DEF Given
<1>5. Unused(request[s], born)
  BY <1>4 DEF IdsFresh, Unused
<1>6. ASSUME request[s].kind = p.kind, request[s].id = p.id
      PROVE  p.kind = "game" /\ Origin(p) = "request"
  <2>1. ~ Given(p)
    BY <1>2, <1>4, <1>6 DEF IdsFresh
  <2> QED BY <1>2, <2>1 DEF Given, Origin
<1>7. Unused(request[s], born')
  <2> HIDE DEF p
  <2> SUFFICES ASSUME NEW b \in born', b[1] = request[s].kind, b[2] = request[s].id
               PROVE  request[s].kind = "game" /\ b[3] = "request"
    BY DEF Unused
  <2>1. CASE b \in born
    BY <1>5, <2>1 DEF Unused
  <2>2. CASE b = <<p.kind, p.id, Origin(p)>>
    BY <1>6, <2>2
  <2> QED BY <1>2, <2>1, <2>2
<1> QED BY <1>3, <1>4, <1>7 DEF IdsFresh, Given

LEMMA FreshStep ==
    ASSUME Shapes, HeldSound, Behind, IdsFresh, [Next]_vars
    PROVE  IdsFresh'
<1> USE CatalogueAssumption
<1>0. Idle \in RequestRecord /\ Idle.step = "idle" /\ Idle.held = NoGame /\ ~ NoGame.auto
  BY DEF Idle, RequestRecord, Steps, Actions, NoGame, GameRecord
<1>1. CASE UNCHANGED <<request, born>>
  BY <1>1 DEF IdsFresh, Given
<1>2. ASSUME NEW r \in Request, CreateGameId(r) PROVE IdsFresh'
  <2> DEFINE q == [Idle EXCEPT !.step = "insert", !.kind = "game", !.id = counters'["game"],
                               !.held = [NoGame EXCEPT !.auto = TRUE]]
  <2>1. counters'["game"] \in 0 .. MaxId
    BY <1>2, NextIdGrows DEF CreateGameId, Counter, Id
  <2>2. q \in RequestRecord
    <3>1. [NoGame EXCEPT !.auto = TRUE] \in GameRecord
      BY DEF NoGame, GameRecord
    <3> QED BY <1>0, <2>1, <3>1 DEF RequestRecord, Steps
  <2>3. q.kind = "game" /\ q.id = counters'["game"]
    BY DEF Idle
  <2>4. request' = [request EXCEPT ![r] = q] /\ born' = born /\ NextId("game")
    BY <1>2 DEF CreateGameId, Set, historyVars
  <2> HIDE DEF q
  <2> QED BY <2>2, <2>3, <2>4, FreshCreate
<1>3. ASSUME NEW r \in Request, NEW k \in Kind, CreateId(r, k) PROVE IdsFresh'
  <2> DEFINE q == [Idle EXCEPT !.step = "insert", !.kind = k, !.id = counters'[k]]
  <2>1. counters'[k] \in 0 .. MaxId
    BY <1>3, NextIdGrows DEF CreateId, Counter, Id
  <2>2. q \in RequestRecord
    BY <1>0, <2>1 DEF RequestRecord, Steps
  <2>3. q.kind = k /\ q.id = counters'[k]
    BY DEF Idle
  <2>4. request' = [request EXCEPT ![r] = q] /\ born' = born /\ NextId(k)
    BY <1>3 DEF CreateId, Set, historyVars
  <2> HIDE DEF q
  <2> QED BY <2>2, <2>3, <2>4, FreshCreate
<1>4. ASSUME NEW r \in Request, NEW i \in Id, CreateGameAt(r, i) PROVE IdsFresh'
  <2> DEFINE q == [Idle EXCEPT !.step = "insert", !.kind = "game", !.id = i]
  <2>1. q.kind = "game" /\ q.held = NoGame
    BY DEF Idle
  <2>2. request' = [request EXCEPT ![r] = q] /\ born' = born
    BY <1>4 DEF CreateGameAt, Set, historyVars
  <2> HIDE DEF q
  <2>3. ~ Given(q)
    BY <1>0, <2>1 DEF Given
  <2> QED BY <2>2, <2>3, FreshQuiet
<1>5. ASSUME NEW r \in Request, NEW q, request' = [request EXCEPT ![r] = q],
             q.step # "insert", born' = born
      PROVE  IdsFresh'
  BY <1>5, FreshQuiet
<1>6. ASSUME NEW r \in Request,
             \/ PublishGet(r) \/ PublishPut(r) \/ RollbackPush(r) \/ RollbackPut(r) \/ Fail(r)
             \/ \E i \in Id : \/ DeleteGame(r, i) \/ \E k \in Kind : Delete(r, k, i)
                              \/ \E v \in Version : PublishSave(r, i, v) \/ RollbackGet(r, i, v)
      PROVE  IdsFresh'
  <2>1. PICK q : request' = [request EXCEPT ![r] = q] /\ q.step \notin {"insert", "auditPut"}
    BY <1>6, QuietMoves
  <2>2. born' = born
    BY <1>6 DEF PublishGet, PublishPut, RollbackPush, RollbackPut, DeleteGame, Delete,
                PublishSave, RollbackGet, Fail, historyVars
  <2> QED BY <1>5, <2>1, <2>2
<1>7. ASSUME NEW r \in Request, AuditId(r) PROVE IdsFresh'
  <2> DEFINE q == [request[r] EXCEPT !.step = "auditPut", !.version = counters'["audit"]]
  <2>1. q.step = "auditPut"
    BY DEF Shapes, RequestRecord
  <2>2. request' = [request EXCEPT ![r] = q] /\ born' = born
    BY <1>7 DEF AuditId, Set, historyVars
  <2> HIDE DEF q
  <2> QED BY <1>5, <2>1, <2>2
<1>8. ASSUME NEW r \in Request, AuditPut(r) PROVE IdsFresh'
  BY <1>0, <1>5, <1>8 DEF AuditPut, Set, historyVars
<1>9. CASE Crash
  BY <1>0, <1>9 DEF Crash, IdsFresh
<1> QED
  BY <1>1, <1>2, <1>3, <1>4, <1>6, <1>7, <1>8, <1>9, FreshInsert
     DEF Next, Handler, BackupRead, BackupWrite, vars, historyVars

LEMMA AuditStep ==
    ASSUME Shapes, HeldSound, Behind, AuditIds, [Next]_vars
    PROVE  AuditIds'
<1> USE CatalogueAssumption
<1>0. Idle.step = "idle" /\ Grows
  BY Growth DEF Idle
<1>1. AuditTrue /\ effects \subseteq effects'
  BY <1>0 DEF AuditIds, Grows
<1>2. ASSUME NEW r \in Request, NEW q, request' = [request EXCEPT ![r] = q],
             q.step # "auditPut", audits' = audits
      PROVE  AuditIds'
  <2>1. request'[r] = q /\ \A s \in Request \ {r} : request'[s] = request[s]
    BY <1>2 DEF Shapes
  <2> QED BY <1>1, <1>2, <2>1 DEF AuditIds, AuditTrue
<1>3. CASE UNCHANGED <<request, audits>>
  BY <1>1, <1>3 DEF AuditIds, AuditTrue
<1>4. ASSUME NEW r \in Request,
             \/ CreateGameId(r) \/ \E k \in Kind : CreateId(r, k)
             \/ \E i \in Id : CreateGameAt(r, i)
      PROVE  AuditIds'
  <2>1. PICK c, i, h : Set(r, [Idle EXCEPT !.step = "insert", !.kind = c, !.id = i, !.held = h])
                       \/ Set(r, [Idle EXCEPT !.step = "insert", !.kind = c, !.id = i])
    BY <1>4 DEF CreateGameId, CreateId, CreateGameAt
  <2> DEFINE p == [Idle EXCEPT !.step = "insert", !.kind = c, !.id = i, !.held = h]
             q == [Idle EXCEPT !.step = "insert", !.kind = c, !.id = i]
  <2>2. p.step = "insert" /\ q.step = "insert"
    BY DEF Idle
  <2>3. audits' = audits
    BY <1>4 DEF CreateGameId, CreateId, CreateGameAt, tables
  <2>4. Set(r, p) \/ Set(r, q)
    BY <2>1
  <2> HIDE DEF p, q
  <2> QED BY <1>2, <2>2, <2>3, <2>4 DEF Set
<1>5. ASSUME NEW r \in Request,
             \/ CreateInsert(r) \/ PublishGet(r) \/ PublishPut(r) \/ RollbackPush(r)
             \/ RollbackPut(r) \/ Fail(r)
             \/ \E i \in Id : \/ DeleteGame(r, i) \/ \E k \in Kind : Delete(r, k, i)
                              \/ \E v \in Version : PublishSave(r, i, v) \/ RollbackGet(r, i, v)
      PROVE  AuditIds'
  BY <1>2, <1>5, QuietMoves
<1>6. ASSUME NEW r \in Request, AuditId(r) PROVE AuditIds'
  <2> DEFINE q == [request[r] EXCEPT !.step = "auditPut", !.version = counters'["audit"]]
  <2>1. counters["audit"] \in Nat /\ counters'["audit"] = counters["audit"] + 1
    BY <1>6 DEF AuditId, Shapes, Counter
  <2>2. q.step = "auditPut" /\ q.version = counters'["audit"]
    BY DEF Shapes, RequestRecord
  <2>3. request' = [request EXCEPT ![r] = q] /\ audits' = audits /\ effects' = effects
    BY <1>6 DEF AuditId, Set, historyVars
  <2> HIDE DEF q
  <2>4. request'[r] = q /\ \A s \in Request \ {r} : request'[s] = request[s]
    BY <2>3 DEF Shapes
  <2>5. \A a \in audits : a.id # q.version
    BY <2>1, <2>2 DEF Behind
  <2>6. ASSUME NEW s \in Request, request[s].step = "auditPut"
        PROVE  request[s].version # q.version
    <3>1. request[s].version \in 1 .. counters["audit"]
      BY <2>6 DEF HeldSound, Sound
    <3> QED BY <2>1, <2>2, <3>1
  <2> QED BY <1>1, <2>3, <2>4, <2>5, <2>6 DEF AuditIds, AuditTrue
<1>7. ASSUME NEW r \in Request, AuditPut(r) PROVE AuditIds'
  <2> DEFINE q == request[r]
             a == [id |-> q.version, what |-> <<q.action, q.kind, q.id>>]
  <2>1. /\ q.step = "auditPut" /\ audits' = audits \cup {a} /\ effects' = effects
        /\ request' = [request EXCEPT ![r] = Idle]
    BY <1>7 DEF AuditPut, Set, historyVars
  <2>2. /\ a.id = q.version /\ a.what \in effects /\ \A b \in audits : b.id # a.id
    BY <2>1 DEF HeldSound, Sound, AuditIds
  <2>3. request'[r].step # "auditPut" /\ \A s \in Request \ {r} : request'[s] = request[s]
    BY <1>0, <2>1 DEF Shapes
  <2>4. \A s \in Request \ {r} : request[s].step = "auditPut" => request[s].version # a.id
    BY <2>1, <2>2 DEF AuditIds
  <2> HIDE DEF a
  <2>5. AuditTrue'
    BY <1>1, <2>1, <2>2 DEF AuditTrue
  <2> QED BY <2>1, <2>3, <2>4, <2>5 DEF AuditIds
<1>8. CASE Crash
  BY <1>0, <1>1, <1>8 DEF Crash, AuditIds, AuditTrue, tables
<1> QED
  BY <1>3, <1>4, <1>5, <1>6, <1>7, <1>8
     DEF Next, Handler, BackupRead, BackupWrite, vars, tables
-----------------------------------------------------------------------------
(***************************************************************************)
(* The backup.                                                             *)
(***************************************************************************)
LEMMA SnapshotStep ==
    ASSUME Shapes, HeldSound, Behind, Snapshot, [Next]_vars
    PROVE  Snapshot'
<1> USE CatalogueAssumption
<1>0. Grows
  BY Growth
<1>a. /\ "game" \in Counter /\ Kind \subseteq Counter
      /\ \A c \in Counter : counters[c] \in Nat /\ counters'[c] \in Nat
                            /\ counters[c] <= counters'[c]
      /\ \A i \in Id : i \in Int
      /\ reading.n \in 0 .. 5 /\ reading.rows \in [Kind -> SUBSET Id]
      /\ DOMAIN reading.games \subseteq Id
  <2>1. reading \in ReadingRecord
    BY DEF Shapes
  <2>2. /\ reading.n \in 0 .. 5 /\ reading.rows \in [Kind -> SUBSET Id]
        /\ reading.games \in GameTable
    BY <2>1 DEF ReadingRecord
  <2>3. DOMAIN reading.games \subseteq Id
    BY <2>2 DEF GameTable
  <2>4. \A c \in Counter : counters[c] \in Nat
    BY DEF Shapes
  <2> QED BY <1>0, <2>2, <2>3, <2>4 DEF Counter, Grows, Id
<1>1. CASE reading' = reading
  <2>1. reading.n >= 1 =>
            \A k \in Kind : \A i \in reading.rows[k] :
                i <= IF reading.n >= 4 THEN reading.counters[k] ELSE counters'[k]
    <3> SUFFICES ASSUME reading.n >= 1, NEW k \in Kind, NEW i \in reading.rows[k]
                 PROVE  i <= IF reading.n >= 4 THEN reading.counters[k] ELSE counters'[k]
      OBVIOUS
    <3>1. i <= IF reading.n >= 4 THEN reading.counters[k] ELSE counters[k]
      BY DEF Snapshot
    <3>2. i \in Int
      BY <1>a
    <3> QED BY <1>a, <3>1, <3>2
  <2>2. ASSUME reading.n >= 2, NEW i \in DOMAIN reading.games
        PROVE  Backed(i, reading.games[i],
                      IF reading.n >= 4 THEN reading.counters["game"] ELSE counters'["game"],
                      IF reading.n >= 3 THEN reading.versions ELSE versions')
    <3>1. Backed(i, reading.games[i],
                 IF reading.n >= 4 THEN reading.counters["game"] ELSE counters["game"],
                 IF reading.n >= 3 THEN reading.versions ELSE versions)
      BY <2>2 DEF Snapshot
    <3>2. versions \subseteq versions' /\ i \in Int
      BY <1>0, <1>a DEF Grows
    <3> QED BY <1>a, <3>1, <3>2 DEF Backed
  <2> QED BY <1>1, <2>1, <2>2 DEF Snapshot
<1>2. CASE reading' = NothingRead
  BY <1>2 DEF Snapshot, NothingRead
<1>3. CASE BackupRead
  <2> HIDE CatalogueAssumption
  <2>0. /\ UNCHANGED <<counters, versions>>
        /\ reading \in ReadingRecord
    BY <1>3 DEF BackupRead, tables, Shapes
  <2>1. CASE reading.n = 0 /\ ReadRows
    <3>1. reading'.n = 1 /\ reading'.rows = rows
      BY <2>0, <2>1 DEF ReadRows, ReadingRecord
    <3> QED BY <2>0, <3>1 DEF Snapshot, Behind
  <2>2. CASE reading.n = 1 /\ ReadGames
    <3>1. reading'.n = 2 /\ reading'.rows = reading.rows /\ reading'.games = games
      BY <2>0, <2>2 DEF ReadGames, ReadingRecord
    <3> QED BY <2>0, <2>2, <3>1 DEF Snapshot, Behind
  <2>3. CASE reading.n = 2 /\ ReadVersions
    <3>1. /\ reading'.n = 3 /\ reading'.rows = reading.rows /\ reading'.games = reading.games
          /\ reading'.versions = versions
      BY <2>0, <2>3 DEF ReadVersions, ReadingRecord
    <3> QED BY <2>0, <2>3, <3>1 DEF Snapshot
  <2>4. CASE reading.n = 3 /\ ReadCounters
    <3>1. /\ reading'.n = 4 /\ reading'.rows = reading.rows /\ reading'.games = reading.games
          /\ reading'.versions = reading.versions /\ reading'.counters = counters
      BY <2>0, <2>4 DEF ReadCounters, ReadingRecord
    <3> QED BY <2>0, <2>4, <3>1 DEF Snapshot
  <2>5. CASE reading.n = 4 /\ ReadAudits
    <3>1. /\ reading'.n = 5 /\ reading'.rows = reading.rows /\ reading'.games = reading.games
          /\ reading'.versions = reading.versions /\ reading'.counters = reading.counters
      BY <2>0, <2>5 DEF ReadAudits, ReadingRecord
    <3> QED BY <2>0, <2>5, <3>1 DEF Snapshot
  <2> QED BY <1>3, <2>1, <2>2, <2>3, <2>4, <2>5, BackupShapes
<1>4. ASSUME NEW r \in Request, Handler(r) PROVE reading' = reading
  BY <1>4 DEF Handler, CreateGameId, CreateId, CreateGameAt, CreateInsert, Delete,
              DeleteGame, PublishSave, PublishGet, PublishPut, RollbackGet, RollbackPush,
              RollbackPut, AuditId, AuditPut, Fail
<1> QED BY <1>1, <1>2, <1>3, <1>4 DEF Next, BackupWrite, Crash, vars

(* The counters are the fourth table. *)
LEMMA CountersFourth ==
    ASSUME Shapes
    PROVE  CountersRead <=> reading.n >= 4
<1>1. reading.n \in 0 .. 5
  BY DEF Shapes, ReadingRecord
<1>2. \A n \in 1 .. 5 : Tables[n] = "counters" <=> n = 4
  <2> SUFFICES ASSUME NEW n \in 1 .. 5 PROVE Tables[n] = "counters" <=> n = 4
    OBVIOUS
  <2>1. n = 1 \/ n = 2 \/ n = 3 \/ n = 4 \/ n = 5
    OBVIOUS
  <2> QED BY <2>1 DEF Tables
<1> QED BY <1>1, <1>2 DEF CountersRead

(* A handler that leaves the audits alone. *)
LEMMA LagQuiet ==
    ASSUME Shapes, Lag, NEW r \in Request, NEW q, request' = [request EXCEPT ![r] = q],
           q.step # "auditPut", UNCHANGED <<audits, reading, late>>
    PROVE  Lag'
<1>1. request'[r] = q /\ \A s \in Request \ {r} : request'[s] = request[s]
  BY DEF Shapes
<1> QED BY <1>1 DEF Lag

LEMMA LagStep ==
    ASSUME Shapes, HeldSound, Behind, Lag, [Next]_vars
    PROVE  Lag'
<1> USE CatalogueAssumption
<1>0. Idle.step = "idle" /\ NothingRead.n = 0 /\ reading \in ReadingRecord
  BY DEF Idle, NothingRead, Shapes
<1>1. CASE UNCHANGED <<request, audits, reading, late>>
  BY <1>1 DEF Lag
<1>2. CASE reading' = NothingRead
  BY <1>0, <1>2 DEF Lag
<1>3. CASE BackupRead
  <2>0. UNCHANGED <<request, audits, late>>
    BY <1>3 DEF BackupRead, tables, historyVars
  <2>1. CASE reading.n < 3
    <3>1. \/ reading.n = 0 /\ ReadRows
          \/ reading.n = 1 /\ ReadGames
          \/ reading.n = 2 /\ ReadVersions
      BY <1>3, <2>1, BackupShapes
    <3>2. reading'.n = reading.n + 1
      BY <1>0, <3>1 DEF ReadRows, ReadGames, ReadVersions, ReadingRecord
    <3>3. ~ (reading'.n >= 4)
      BY <3>1, <3>2
    <3> QED BY <3>3 DEF Lag
  <2>2. CASE reading.n = 3 /\ ReadCounters
    <3>1. reading'.n = 4 /\ reading'.counters = counters
      BY <1>0, <2>2 DEF ReadCounters, ReadingRecord
    <3>2. \A a \in audits : Covered(a.id, counters["audit"], late)
      BY DEF Behind, Covered
    <3>3. \A r \in Request : request[r].step = "auditPut" =>
                                Covered(request[r].version, counters["audit"], late)
      <4> SUFFICES ASSUME NEW r \in Request, request[r].step = "auditPut"
                   PROVE  Covered(request[r].version, counters["audit"], late)
        OBVIOUS
      <4>1. request[r].version \in 1 .. counters["audit"]
        BY DEF HeldSound, Sound
      <4> QED BY <4>1 DEF Covered
    <3> QED BY <2>0, <3>1, <3>2, <3>3 DEF Lag
  <2>3. CASE reading.n = 4 /\ ReadAudits
    <3>1. reading'.counters = reading.counters /\ reading'.audits = audits
      BY <1>0, <2>3 DEF ReadAudits, ReadingRecord
    <3> QED BY <2>0, <2>3, <3>1 DEF Lag
  <2> QED BY <1>3, <2>1, <2>2, <2>3, BackupShapes
<1>4. ASSUME NEW r \in Request,
             \/ CreateGameId(r) \/ \E k \in Kind : CreateId(r, k)
             \/ \E i \in Id : CreateGameAt(r, i)
      PROVE  Lag'
  <2>1. PICK c, i, h : Set(r, [Idle EXCEPT !.step = "insert", !.kind = c, !.id = i, !.held = h])
                       \/ Set(r, [Idle EXCEPT !.step = "insert", !.kind = c, !.id = i])
    BY <1>4 DEF CreateGameId, CreateId, CreateGameAt
  <2> DEFINE p == [Idle EXCEPT !.step = "insert", !.kind = c, !.id = i, !.held = h]
             q == [Idle EXCEPT !.step = "insert", !.kind = c, !.id = i]
  <2>2. p.step = "insert" /\ q.step = "insert"
    BY DEF Idle
  <2>3. UNCHANGED <<audits, reading, late>>
    BY <1>4 DEF CreateGameId, CreateId, CreateGameAt, tables, historyVars
  <2>4. Set(r, p) \/ Set(r, q)
    BY <2>1
  <2> HIDE DEF p, q
  <2> QED BY <2>2, <2>3, <2>4, LagQuiet DEF Set
<1>5. ASSUME NEW r \in Request,
             \/ CreateInsert(r) \/ PublishGet(r) \/ PublishPut(r) \/ RollbackPush(r)
             \/ RollbackPut(r) \/ Fail(r)
             \/ \E i \in Id : \/ DeleteGame(r, i) \/ \E k \in Kind : Delete(r, k, i)
                              \/ \E v \in Version : PublishSave(r, i, v) \/ RollbackGet(r, i, v)
      PROVE  Lag'
  <2>1. PICK q : request' = [request EXCEPT ![r] = q] /\ q.step \notin {"insert", "auditPut"}
    BY <1>5, QuietMoves
  <2>2. audits' = audits
    BY <1>5, QuietMoves
  <2>3. UNCHANGED <<reading, late>>
    BY <1>5 DEF CreateInsert, PublishGet, PublishPut, RollbackPush, RollbackPut, Fail,
                DeleteGame, Delete, PublishSave, RollbackGet, historyVars
  <2> QED BY <2>1, <2>2, <2>3, LagQuiet
<1>6. ASSUME NEW r \in Request, AuditId(r) PROVE Lag'
  <2> DEFINE q == [request[r] EXCEPT !.step = "auditPut", !.version = counters'["audit"]]
  <2>1. q.version = counters'["audit"]
    BY DEF Shapes, RequestRecord
  <2>2. /\ request' = [request EXCEPT ![r] = q] /\ UNCHANGED <<audits, reading>>
        /\ late \subseteq late' /\ (reading.n >= 4 => counters'["audit"] \in late')
    BY <1>6, CountersFourth DEF AuditId, Set
  <2> HIDE DEF q
  <2>3. request'[r] = q /\ \A s \in Request \ {r} : request'[s] = request[s]
    BY <2>2 DEF Shapes
  <2> QED BY <2>1, <2>2, <2>3 DEF Lag, Covered
<1>7. ASSUME NEW r \in Request, AuditPut(r) PROVE Lag'
  <2> DEFINE q == request[r]
             a == [id |-> q.version, what |-> <<q.action, q.kind, q.id>>]
  <2>1. /\ q.step = "auditPut" /\ audits' = audits \cup {a} /\ UNCHANGED <<reading, late>>
        /\ request' = [request EXCEPT ![r] = Idle] /\ a.id = q.version
    BY <1>7 DEF AuditPut, Set, historyVars
  <2>2. request'[r] = Idle /\ \A s \in Request \ {r} : request'[s] = request[s]
    BY <2>1 DEF Shapes
  <2> HIDE DEF a
  <2> QED BY <1>0, <2>1, <2>2 DEF Lag
<1> QED
  BY <1>1, <1>2, <1>3, <1>4, <1>5, <1>6, <1>7
     DEF Next, Handler, BackupWrite, Crash, vars

LEMMA SnapshotHolds ==
    ASSUME Shapes, Snapshot, Lag
    PROVE  SnapshotConsistent
<1> SUFFICES ASSUME reading.n = 5
             PROVE  /\ \A k \in Kind : \A i \in reading.rows[k] : i <= reading.counters[k]
                    /\ \A i \in DOMAIN reading.games :
                        LET game == reading.games[i] IN
                        /\ game.auto => i <= reading.counters["game"]
                        /\ \A v \in {game.current, game.latest} \ {0} :
                                <<i, v>> \in reading.versions
                    /\ \A a \in reading.audits :
                            a.id <= reading.counters["audit"] \/ a.id \in late
  BY TablesLength DEF SnapshotConsistent
<1>1. \A k \in Kind : \A i \in reading.rows[k] : i <= reading.counters[k]
  BY DEF Snapshot
<1>2. \A i \in DOMAIN reading.games :
            Backed(i, reading.games[i], reading.counters["game"], reading.versions)
  BY DEF Snapshot
<1>3. \A a \in reading.audits : a.id <= reading.counters["audit"] \/ a.id \in late
  BY DEF Lag, Covered
<1> QED BY <1>1, <1>2, <1>3 DEF Backed
-----------------------------------------------------------------------------
(***************************************************************************)
(* The latest version.                                                     *)
(***************************************************************************)
(* A step of a handler that is not at game i, before or after. *)
LEMMA SettledFrame ==
    ASSUME Shapes, NEW i, Settled(i), NEW r \in Request, NEW q,
           request' = [request EXCEPT ![r] = q], ~ Open(request[r], i), ~ Open(q, i),
           seen'[i] = seen[i], i \in DOMAIN games' <=> i \in DOMAIN games,
           i \in DOMAIN games => games'[i] = games[i]
    PROVE  Settled(i)'
<1>1. request'[r] = q /\ \A s \in Request \ {r} : request'[s] = request[s]
  BY DEF Shapes
<1>2. ASSUME NEW s \in Request, Open(request'[s], i)
      PROVE  /\ Keeps(request'[s], i, seen', games')
             /\ \A t \in Request \ {s} : ~ Open(request'[t], i)
  <2>1. s # r /\ request'[s] = request[s] /\ Open(request[s], i)
    BY <1>1, <1>2
  <2>2. /\ Keeps(request[s], i, seen, games)
        /\ \A t \in Request \ {s} : ~ Open(request[t], i)
    BY <2>1 DEF Settled
  <2> QED BY <1>1, <2>1, <2>2 DEF Keeps
<1>3. ASSUME NEW s \in Request, Publishing(request[s], i)
      PROVE  Publishing(request'[s], i)
  <2>1. Open(request[s], i)
    BY <1>3 DEF Publishing, Open
  <2> QED BY <1>1, <1>3, <2>1
<1>4. i \in DOMAIN games' =>
            games'[i].latest = seen'[i] \/ \E s \in Request : Publishing(request'[s], i)
  BY <1>3 DEF Settled
<1> QED BY <1>2, <1>4 DEF Settled

(* Nobody is at the game, and its record is right. *)
LEMMA SettledRight ==
    ASSUME NEW i, \A s \in Request : ~ Open(request'[s], i),
           i \in DOMAIN games' => games'[i].latest = seen'[i]
    PROVE  Settled(i)'
  BY DEF Settled

(* One handler is at the game, and what it will write is right. *)
LEMMA SettledOne ==
    ASSUME Shapes, NEW i, NEW r \in Request, NEW q, request' = [request EXCEPT ![r] = q],
           Keeps(q, i, seen', games'), \A s \in Request \ {r} : ~ Open(request[s], i),
           Publishing(q, i) \/ (i \in DOMAIN games' => games'[i].latest = seen'[i])
    PROVE  Settled(i)'
<1>1. request'[r] = q /\ \A s \in Request \ {r} : request'[s] = request[s]
  BY DEF Shapes
<1>2. ASSUME NEW s \in Request, Open(request'[s], i)
      PROVE  /\ Keeps(request'[s], i, seen', games')
             /\ \A t \in Request \ {s} : ~ Open(request'[t], i)
  BY <1>1, <1>2
<1>3. i \in DOMAIN games' =>
            games'[i].latest = seen'[i] \/ \E s \in Request : Publishing(request'[s], i)
  BY <1>1
<1> QED BY <1>2, <1>3 DEF Settled

(* What a settled game's only handler holds. *)
LEMMA SettledHolder ==
    ASSUME NEW i, Settled(i), NEW r \in Request, Open(request[r], i)
    PROVE  /\ Keeps(request[r], i, seen, games)
           /\ \A s \in Request \ {r} : ~ Open(request[s], i)
           /\ i \in DOMAIN games /\ ~ Publishing(request[r], i) => games[i].latest = seen[i]
<1>1. \A s \in Request : Publishing(request[s], i) => Open(request[s], i)
  BY DEF Publishing, Open
<1> QED BY <1>1 DEF Settled

(* A handler at the game makes it busy for the others. *)
LEMMA NotBusy ==
    ASSUME NEW r \in Request, NEW i, ~ Busy(r, i)
    PROVE  \A s \in Request \ {r} : ~ Open(request[s], i)
  BY DEF Open, Busy

(* A handler leaves a game that nobody else is at. *)
LEMMA SettledLeave ==
    ASSUME Shapes, NEW i, NEW r \in Request, NEW q, request' = [request EXCEPT ![r] = q],
           ~ Open(q, i), \A s \in Request \ {r} : ~ Open(request[s], i),
           i \in DOMAIN games' => games'[i].latest = seen'[i]
    PROVE  Settled(i)'
<1>1. request'[r] = q /\ \A s \in Request \ {r} : request'[s] = request[s]
  BY DEF Shapes
<1>2. \A s \in Request : ~ Open(request'[s], i)
  BY <1>1
<1> QED BY <1>2, SettledRight

(* create_game: a record with no version, for a game nobody else has read. *)
LEMMA CalmInsert ==
    ASSUME Shapes, HeldSound, Calm, NEW r \in Request, CreateInsert(r),
           NEW i \in Id \ disturbed'
    PROVE  Settled(i)'
<1> DEFINE q == request[r]
           p == [request[r] EXCEPT !.step = "auditId", !.action = "create"]
<1>1. /\ p.step = "auditId" /\ request' = [request EXCEPT ![r] = p] /\ q.step = "insert"
  BY DEF CreateInsert, Effect, Set, Shapes, RequestRecord
<1> HIDE DEF p
<1>2. ~ Open(q, i) /\ ~ Open(p, i)
  BY <1>1 DEF Open
<1>3. CASE q.kind # "game"
  <2>1. UNCHANGED <<games, seen, disturbed>>
    BY <1>3 DEF CreateInsert
  <2>2. Settled(i)
    BY <2>1 DEF Calm
  <2> QED BY <1>1, <1>2, <2>1, <2>2, SettledFrame
<1>4. CASE q.kind = "game"
  <2>1. /\ WriteGame(q.id, q.held) /\ q.id \in Id /\ q.held \in GameRecord
        /\ q.held.latest = 0 /\ seen' = [seen EXCEPT ![q.id] = 0]
        /\ disturbed' = IF Busy(r, q.id) THEN disturbed \cup {q.id} ELSE disturbed \ {q.id}
    BY <1>4, RecordWrites DEF CreateInsert, HeldSound, Sound
  <2>2. /\ DOMAIN games' = DOMAIN games \cup {q.id} /\ games'[q.id] = q.held
        /\ \A n \in DOMAIN games \ {q.id} : games'[n] = games[n]
    BY <2>1, WriteTable
  <2>3. CASE i = q.id
    <3>1. \A s \in Request \ {r} : ~ Open(request[s], i)
      BY <2>1, <2>3, NotBusy
    <3>2. games'[i].latest = seen'[i]
      BY <2>1, <2>2, <2>3 DEF Shapes
    <3> QED BY <1>1, <1>2, <3>1, <3>2, SettledLeave
  <2>4. CASE i # q.id
    <3>1. Settled(i)
      BY <2>1, <2>4 DEF Calm
    <3>2. /\ seen'[i] = seen[i] /\ (i \in DOMAIN games' <=> i \in DOMAIN games)
          /\ (i \in DOMAIN games => games'[i] = games[i])
      BY <2>1, <2>2, <2>4 DEF Shapes
    <3> QED BY <1>1, <1>2, <3>1, <3>2, SettledFrame
  <2> QED BY <2>3, <2>4
<1> QED BY <1>3, <1>4

(* publish_version saves a manifest: its own version or that of the record *)
(* is now the greatest.                                                    *)
LEMMA CalmSave ==
    ASSUME Shapes, Calm, NEW r \in Request, NEW n \in Id, NEW v \in Version,
           PublishSave(r, n, v), NEW i \in Id \ disturbed'
    PROVE  Settled(i)'
<1> DEFINE p == [Idle EXCEPT !.step = "get", !.kind = "game", !.id = n, !.version = v]
<1>1. /\ p.step = "get" /\ p.kind = "game" /\ p.id = n /\ p.version = v
      /\ request[r].step = "idle"
  BY DEF PublishSave, Arrive, Idle
<1>2. /\ request' = [request EXCEPT ![r] = p] /\ games' = games
      /\ disturbed' = IF Busy(r, n) THEN disturbed \cup {n} ELSE disturbed
      /\ seen' = [seen EXCEPT ![n] = IF v > seen[n] THEN v ELSE seen[n]]
  BY DEF PublishSave, Set
<1> HIDE DEF p
<1>3. Settled(i) /\ ~ Open(request[r], i)
  BY <1>1, <1>2 DEF Calm, Open
<1>4. CASE i = n
  <2>1. \A s \in Request \ {r} : ~ Open(request[s], i)
    BY <1>2, <1>4, NotBusy
  <2>2. i \in DOMAIN games => games[i].latest = seen[i]
    <3>1. \A s \in Request : ~ Publishing(request[s], i)
      BY <1>3, <2>1 DEF Publishing, Open
    <3> QED BY <1>3, <3>1 DEF Settled
  <2>3. seen'[i] = Greatest(v, seen[i])
    BY <1>2, <1>4 DEF Greatest, Shapes
  <2>4. Keeps(p, i, seen', games') /\ Publishing(p, i)
    BY <1>1, <1>2, <1>4, <2>2, <2>3 DEF Keeps, Publishing
  <2> QED BY <1>2, <2>1, <2>4, SettledOne
<1>5. CASE i # n
  <2>1. ~ Open(p, i) /\ seen'[i] = seen[i]
    BY <1>1, <1>2, <1>5 DEF Open, Shapes
  <2> QED BY <1>2, <1>3, <2>1, SettledFrame
<1> QED BY <1>4, <1>5

(* It looks the record up, and stops if that has a greater version. *)
LEMMA CalmGet ==
    ASSUME Shapes, HeldSound, Calm, NEW r \in Request, PublishGet(r),
           NEW i \in Id \ disturbed'
    PROVE  Settled(i)'
<1> DEFINE q == request[r]
           p == [q EXCEPT !.step = "latest", !.held = games[q.id]]
<1>1. /\ p.step = "latest" /\ p.kind = q.kind /\ p.id = q.id /\ p.version = q.version
      /\ Idle.step = "idle" /\ q.version \in Nat
  BY DEF Shapes, RequestRecord, Idle
<1>2. /\ UNCHANGED <<games, seen, disturbed>> /\ q.step = "get" /\ q.kind = "game"
      /\ q.id \in Id
  BY DEF PublishGet, tables, historyVars, HeldSound, Sound
<1>a. IF q.id \in DOMAIN games /\ q.version > games[q.id].latest
      THEN request' = [request EXCEPT ![r] = p] ELSE request' = [request EXCEPT ![r] = Idle]
  BY DEF PublishGet, Set
<1> HIDE DEF p
<1>3. Settled(i) /\ ~ Open(Idle, i)
  BY <1>1, <1>2 DEF Calm, Open
<1>4. CASE i = q.id
  <2>1. /\ \A s \in Request \ {r} : ~ Open(request[s], i)
        /\ Keeps(q, i, seen, games)
    BY <1>2, <1>3, <1>4, SettledHolder DEF Open
  <2>2. i \in DOMAIN games => seen[i] = Greatest(q.version, games[i].latest)
    BY <1>2, <2>1 DEF Keeps
  <2>3. CASE q.id \in DOMAIN games /\ q.version > games[q.id].latest
    <3>1. seen[i] = q.version
      BY <1>4, <2>2, <2>3 DEF Greatest
    <3>2. Keeps(p, i, seen', games') /\ Publishing(p, i)
      BY <1>1, <1>2, <1>4, <3>1 DEF Keeps, Publishing
    <3> QED BY <1>a, <2>1, <2>3, <3>2, SettledOne
  <2>4. CASE ~ (q.id \in DOMAIN games /\ q.version > games[q.id].latest)
    <3>1. i \in DOMAIN games' => games'[i].latest = seen'[i]
      BY <1>2, <1>4, <2>2, <2>4 DEF Greatest
    <3>2. request' = [request EXCEPT ![r] = Idle]
      BY <1>a, <2>4
    <3> QED BY <1>3, <2>1, <3>1, <3>2, SettledLeave
  <2> QED BY <2>3, <2>4
<1>5. CASE i # q.id
  <2>1. ~ Open(q, i) /\ ~ Open(p, i)
    BY <1>1, <1>5 DEF Open
  <2> QED BY <1>2, <1>3, <1>a, <2>1, SettledFrame
<1> QED BY <1>4, <1>5

(* And it writes the version it published, the greatest one. *)
LEMMA CalmPut ==
    ASSUME Shapes, HeldSound, Calm, NEW r \in Request, PublishPut(r),
           NEW i \in Id \ disturbed'
    PROVE  Settled(i)'
<1> DEFINE q == request[r]
           game == [q.held EXCEPT !.latest = q.version]
<1>1. /\ q.step = "latest" /\ q.kind = "game" /\ WriteGame(q.id, game) /\ q.id \in Id
      /\ q.held \in GameRecord /\ q.version \in Version /\ seen' = seen
      /\ disturbed' = IF q.version = seen[q.id] /\ ~ Busy(r, q.id)
                      THEN disturbed \ {q.id} ELSE disturbed
      /\ request' = [request EXCEPT ![r] = Idle]
  BY RecordWrites DEF PublishPut, HeldSound, Sound, Set
<1>2. game \in GameRecord /\ game.latest = q.version
  BY <1>1 DEF GameRecord
<1>3. /\ DOMAIN games' = DOMAIN games \cup {q.id} /\ games'[q.id] = game
      /\ \A n \in DOMAIN games \ {q.id} : games'[n] = games[n]
  BY <1>1, <1>2, WriteTable
<1> HIDE DEF game
<1>4. ~ Open(Idle, i)
  BY DEF Idle, Open
<1>5. CASE i = q.id
  <2>1. q.version = seen[i] /\ \A s \in Request \ {r} : ~ Open(request[s], i)
    <3>1. CASE q.version = seen[q.id] /\ ~ Busy(r, q.id)
      BY <1>5, <3>1, NotBusy
    <3>2. CASE ~ (q.version = seen[q.id] /\ ~ Busy(r, q.id))
      <4>1. Settled(i) /\ Open(q, i)
        BY <1>1, <1>5, <3>2 DEF Calm, Open
      <4> QED BY <1>1, <4>1, SettledHolder DEF Keeps
    <3> QED BY <3>1, <3>2
  <2>2. games'[i].latest = seen'[i]
    BY <1>1, <1>2, <1>3, <1>5, <2>1
  <2> QED BY <1>1, <1>4, <2>1, <2>2, SettledLeave
<1>6. CASE i # q.id
  <2>1. Settled(i) /\ ~ Open(q, i)
    BY <1>1, <1>6 DEF Calm, Open
  <2>2. /\ (i \in DOMAIN games' <=> i \in DOMAIN games)
        /\ (i \in DOMAIN games => games'[i] = games[i])
    BY <1>3, <1>6
  <2> QED BY <1>1, <1>4, <2>1, <2>2, SettledFrame
<1> QED BY <1>5, <1>6

(* rollback_game reads a record whose latest version is the greatest, *)
LEMMA CalmRollbackGet ==
    ASSUME Shapes, Calm, NEW r \in Request, NEW n \in Id, NEW v \in Version,
           RollbackGet(r, n, v), NEW i \in Id \ disturbed'
    PROVE  Settled(i)'
<1> DEFINE p == [Idle EXCEPT !.step = "push", !.kind = "game", !.id = n, !.version = v,
                             !.held = games[n]]
<1>1. /\ p.step = "push" /\ p.kind = "game" /\ p.id = n /\ p.held = games[n]
      /\ request[r].step = "idle"
  BY DEF RollbackGet, Arrive, Idle
<1>2. /\ request' = [request EXCEPT ![r] = p] /\ UNCHANGED <<games, seen>>
      /\ disturbed' = IF Busy(r, n) THEN disturbed \cup {n} ELSE disturbed
      /\ n \in DOMAIN games
  BY DEF RollbackGet, Set, tables
<1> HIDE DEF p
<1>3. Settled(i) /\ ~ Open(request[r], i)
  BY <1>1, <1>2 DEF Calm, Open
<1>4. CASE i = n
  <2>1. \A s \in Request \ {r} : ~ Open(request[s], i)
    BY <1>2, <1>4, NotBusy
  <2>2. games[i].latest = seen[i]
    <3>1. \A s \in Request : ~ Publishing(request[s], i)
      BY <1>3, <2>1 DEF Publishing, Open
    <3> QED BY <1>2, <1>3, <1>4, <3>1 DEF Settled
  <2>3. Keeps(p, i, seen', games')
    BY <1>1, <1>2, <1>4, <2>2 DEF Keeps
  <2> QED BY <1>2, <2>1, <2>2, <2>3, SettledOne
<1>5. CASE i # n
  <2>1. ~ Open(p, i)
    BY <1>1, <1>5 DEF Open
  <2> QED BY <1>2, <1>3, <2>1, SettledFrame
<1> QED BY <1>4, <1>5

(* keeps it while the task is pushed, *)
LEMMA CalmPush ==
    ASSUME Shapes, HeldSound, Calm, NEW r \in Request, RollbackPush(r),
           NEW i \in Id \ disturbed'
    PROVE  Settled(i)'
<1> DEFINE q == request[r]
           p == [q EXCEPT !.step = "put"]
<1>1. /\ p.step = "put" /\ p.kind = q.kind /\ p.id = q.id /\ p.held = q.held
  BY DEF Shapes, RequestRecord
<1>2. /\ request' = [request EXCEPT ![r] = p] /\ UNCHANGED <<games, seen, disturbed>>
      /\ q.step = "push"
  BY DEF RollbackPush, Set, tables, historyVars
<1> HIDE DEF p
<1>3. Settled(i)
  BY <1>2 DEF Calm
<1>4. CASE Open(q, i)
  <2>1. ~ Publishing(q, i)
    BY <1>2 DEF Publishing
  <2>2. /\ Keeps(q, i, seen, games) /\ \A s \in Request \ {r} : ~ Open(request[s], i)
        /\ (i \in DOMAIN games => games[i].latest = seen[i])
    BY <1>3, <1>4, <2>1, SettledHolder
  <2>3. Keeps(p, i, seen', games')
    BY <1>1, <1>2, <2>2 DEF Keeps
  <2> QED BY <1>2, <2>2, <2>3, SettledOne
<1>5. CASE ~ Open(q, i)
  <2>1. ~ Open(p, i)
    BY <1>1, <1>2, <1>5 DEF Open
  <2> QED BY <1>2, <1>3, <1>5, <2>1, SettledFrame
<1> QED BY <1>4, <1>5

(* and writes it back. *)
LEMMA CalmRollbackPut ==
    ASSUME Shapes, HeldSound, Calm, NEW r \in Request, RollbackPut(r),
           NEW i \in Id \ disturbed'
    PROVE  Settled(i)'
<1> DEFINE q == request[r]
           game == [q.held EXCEPT !.current = q.version]
           p == [request[r] EXCEPT !.step = "auditId", !.action = "rollback"]
<1>1. /\ q.step = "put" /\ q.kind = "game" /\ WriteGame(q.id, game) /\ q.id \in Id
      /\ q.held \in GameRecord /\ q.version \in Version /\ UNCHANGED <<disturbed, seen>>
  BY RecordWrites DEF RollbackPut, HeldSound, Sound
<1>2. p.step = "auditId" /\ request' = [request EXCEPT ![r] = p]
  BY DEF RollbackPut, Effect, Set, Shapes, RequestRecord
<1>3. game \in GameRecord /\ game.latest = q.held.latest
  BY <1>1 DEF GameRecord
<1>4. /\ DOMAIN games' = DOMAIN games \cup {q.id} /\ games'[q.id] = game
      /\ \A n \in DOMAIN games \ {q.id} : games'[n] = games[n]
  BY <1>1, <1>3, WriteTable
<1> HIDE DEF game, p
<1>5. Settled(i) /\ ~ Open(p, i)
  BY <1>1, <1>2 DEF Calm, Open
<1>6. CASE i = q.id
  <2>1. /\ Keeps(q, i, seen, games) /\ \A s \in Request \ {r} : ~ Open(request[s], i)
    BY <1>1, <1>5, <1>6, SettledHolder DEF Open
  <2>2. games'[i].latest = seen'[i]
    BY <1>1, <1>3, <1>4, <1>6, <2>1 DEF Keeps
  <2> QED BY <1>2, <1>5, <2>1, <2>2, SettledLeave
<1>7. CASE i # q.id
  <2>1. ~ Open(q, i)
    BY <1>7 DEF Open
  <2>2. /\ (i \in DOMAIN games' <=> i \in DOMAIN games)
        /\ (i \in DOMAIN games => games'[i] = games[i])
    BY <1>4, <1>7
  <2> QED BY <1>1, <1>2, <1>5, <2>1, <2>2, SettledFrame
<1> QED BY <1>6, <1>7

(* delete_game, while nobody is at the game. *)
LEMMA CalmDelete ==
    ASSUME Shapes, Calm, NEW r \in Request, NEW n \in Id, DeleteGame(r, n),
           NEW i \in Id \ disturbed'
    PROVE  Settled(i)'
<1> DEFINE p == [Idle EXCEPT !.step = "auditId", !.kind = "game", !.id = n,
                             !.action = "delete"]
<1>1. p.step = "auditId" /\ request[r].step = "idle"
  BY DEF DeleteGame, Arrive, Idle
<1>2. /\ request' = [request EXCEPT ![r] = p] /\ seen' = seen
      /\ games' = [m \in DOMAIN games \ {n} |-> games[m]]
      /\ disturbed' = IF Busy(r, n) THEN disturbed \cup {n} ELSE disturbed
  BY DEF DeleteGame, Set
<1> HIDE DEF p
<1>3. Settled(i) /\ ~ Open(request[r], i) /\ ~ Open(p, i)
  BY <1>1, <1>2 DEF Calm, Open
<1>4. CASE i = n
  <2>1. \A s \in Request \ {r} : ~ Open(request[s], i)
    BY <1>2, <1>4, NotBusy
  <2> QED BY <1>2, <1>3, <1>4, <2>1, SettledLeave
<1>5. CASE i # n
  <2>1. /\ (i \in DOMAIN games' <=> i \in DOMAIN games)
        /\ (i \in DOMAIN games => games'[i] = games[i])
    BY <1>2, <1>5
  <2> QED BY <1>2, <1>3, <2>1, SettledFrame
<1> QED BY <1>4, <1>5

(* A failed transaction: a publication that it cuts short disturbs the     *)
(* game, a rollback leaves its record as it was.                           *)
LEMMA CalmFail ==
    ASSUME Shapes, Calm, NEW r \in Request, Fail(r), NEW i \in Id \ disturbed'
    PROVE  Settled(i)'
<1>1. /\ request' = [request EXCEPT ![r] = Idle] /\ UNCHANGED <<games, seen>>
      /\ disturbed' = disturbed \cup CutShort({r})
  BY DEF Fail, Set, tables
<1>2. Settled(i) /\ ~ Open(Idle, i)
  BY <1>1 DEF Calm, Open, Idle
<1>3. CASE Open(request[r], i)
  <2>1. ~ Publishing(request[r], i)
    BY <1>1 DEF CutShort, Publishing
  <2>2. /\ \A s \in Request \ {r} : ~ Open(request[s], i)
        /\ (i \in DOMAIN games => games[i].latest = seen[i])
    BY <1>2, <1>3, <2>1, SettledHolder
  <2> QED BY <1>1, <1>2, <2>2, SettledLeave
<1>4. CASE ~ Open(request[r], i)
  BY <1>1, <1>2, <1>4, SettledFrame
<1> QED BY <1>3, <1>4

(* A crash ends every handler. *)
LEMMA CalmCrash ==
    ASSUME Shapes, Calm, Crash, NEW i \in Id \ disturbed'
    PROVE  Settled(i)'
<1>1. /\ request' = [r \in Request |-> Idle] /\ UNCHANGED <<games, seen>>
      /\ disturbed' = disturbed \cup CutShort(Request)
  BY DEF Crash, tables
<1>2. Settled(i) /\ ~ Open(Idle, i)
  BY <1>1 DEF Calm, Open, Idle
<1>3. \A s \in Request : ~ Publishing(request[s], i)
  BY <1>1 DEF CutShort, Publishing
<1>4. i \in DOMAIN games => games[i].latest = seen[i]
  BY <1>2, <1>3 DEF Settled
<1>5. \A s \in Request : ~ Open(request'[s], i)
  BY <1>1, <1>2
<1> QED BY <1>1, <1>4, <1>5, SettledRight

(* A step of a handler that is at no game's record. *)
LEMMA CalmQuiet ==
    ASSUME Shapes, Calm, NEW r \in Request, NEW q, request' = [request EXCEPT ![r] = q],
           request[r].step \notin {"get", "latest", "push", "put"},
           q.step \notin {"get", "latest", "push", "put"},
           UNCHANGED <<games, seen, disturbed>>, NEW i \in Id \ disturbed'
    PROVE  Settled(i)'
<1>1. Settled(i) /\ ~ Open(request[r], i) /\ ~ Open(q, i)
  BY DEF Calm, Open
<1> QED BY <1>1, SettledFrame

LEMMA CalmStep ==
    ASSUME Shapes, HeldSound, Calm, [Next]_vars
    PROVE  Calm'
<1> SUFFICES ASSUME NEW i \in Id \ disturbed' PROVE Settled(i)'
  BY DEF Calm
<1>0. Idle.step = "idle"
  BY DEF Idle
<1>1. CASE UNCHANGED <<request, games, seen, disturbed>>
  BY <1>1 DEF Calm, Settled
<1>2. ASSUME NEW r \in Request,
             \/ CreateGameId(r) \/ \E k \in Kind : CreateId(r, k)
             \/ \E n \in Id : CreateGameAt(r, n)
      PROVE  Settled(i)'
  <2>1. PICK c, n, h : Set(r, [Idle EXCEPT !.step = "insert", !.kind = c, !.id = n, !.held = h])
                       \/ Set(r, [Idle EXCEPT !.step = "insert", !.kind = c, !.id = n])
    BY <1>2 DEF CreateGameId, CreateId, CreateGameAt
  <2> DEFINE p == [Idle EXCEPT !.step = "insert", !.kind = c, !.id = n, !.held = h]
             q == [Idle EXCEPT !.step = "insert", !.kind = c, !.id = n]
  <2>2. p.step = "insert" /\ q.step = "insert"
    BY DEF Idle
  <2>3. UNCHANGED <<games, seen, disturbed>> /\ request[r].step = "idle"
    BY <1>0, <1>2 DEF CreateGameId, CreateId, CreateGameAt, Arrive, tables, historyVars
  <2>4. Set(r, p) \/ Set(r, q)
    BY <2>1
  <2> HIDE DEF p, q
  <2> QED BY <2>2, <2>3, <2>4, CalmQuiet DEF Set
<1>3. ASSUME NEW r \in Request, NEW k \in Kind, NEW n \in Id, Delete(r, k, n)
      PROVE  Settled(i)'
  <2> DEFINE p == [Idle EXCEPT !.step = "auditId", !.kind = k, !.id = n, !.action = "delete"]
  <2>1. p.step = "auditId"
    BY DEF Idle
  <2>2. /\ Set(r, p) /\ UNCHANGED <<games, seen, disturbed>> /\ request[r].step = "idle"
    BY <1>0, <1>3 DEF Delete, Arrive
  <2> HIDE DEF p
  <2> QED BY <2>1, <2>2, CalmQuiet DEF Set
<1>4. ASSUME NEW r \in Request, AuditId(r) PROVE Settled(i)'
  <2> DEFINE q == [request[r] EXCEPT !.step = "auditPut", !.version = counters'["audit"]]
  <2>1. q.step = "auditPut"
    BY DEF Shapes, RequestRecord
  <2>2. /\ request' = [request EXCEPT ![r] = q] /\ UNCHANGED <<games, seen, disturbed>>
        /\ request[r].step = "auditId"
    BY <1>4 DEF AuditId, Set
  <2> HIDE DEF q
  <2> QED BY <2>1, <2>2, CalmQuiet
<1>5. ASSUME NEW r \in Request, AuditPut(r) PROVE Settled(i)'
  <2>1. /\ request' = [request EXCEPT ![r] = Idle] /\ UNCHANGED <<games, seen, disturbed>>
        /\ request[r].step = "auditPut"
    BY <1>5 DEF AuditPut, Set, historyVars
  <2> QED BY <1>0, <2>1, CalmQuiet
<1> QED
  BY <1>1, <1>2, <1>3, <1>4, <1>5, CalmInsert, CalmSave, CalmGet, CalmPut,
     CalmRollbackGet, CalmPush, CalmRollbackPut, CalmDelete, CalmFail, CalmCrash
     DEF Next, Handler, BackupRead, BackupWrite, vars, tables, historyVars
-----------------------------------------------------------------------------
LEMMA CatalogueInit == Init => CatalogueInv
<1> SUFFICES ASSUME Init PROVE CatalogueInv
  OBVIOUS
<1> USE CatalogueAssumption
<1>0. /\ Idle \in RequestRecord /\ Idle.step = "idle"
      /\ Sound(Idle, counters, versions, effects)
  BY DEF Idle, RequestRecord, Steps, Actions, NoGame, GameRecord, Sound
<1>1. games \in GameTable
  <2>1. games \in [{} -> GameRecord]
    BY DEF Init
  <2> QED BY <2>1 DEF GameTable
<1>2. Shapes
  BY <1>0, <1>1, NothingReadType DEF Init, Shapes
<1>3. HeldSound
  BY <1>0 DEF Init, HeldSound
<1>4. Behind /\ AuditIds /\ IdsFresh
  BY <1>0 DEF Init, Behind, AuditIds, AuditTrue, IdsFresh
<1>5. Snapshot
  BY DEF Init, Snapshot, NothingRead
<1>6. Lag
  BY DEF Init, Lag, NothingRead
<1>7. Calm
  BY <1>0 DEF Init, Calm, Settled, Open
<1> QED BY <1>2, <1>3, <1>4, <1>5, <1>6, <1>7 DEF CatalogueInv

LEMMA CatalogueStep == CatalogueInv /\ [Next]_vars => CatalogueInv'
<1> SUFFICES ASSUME CatalogueInv, [Next]_vars PROVE CatalogueInv'
  OBVIOUS
<1> USE DEF CatalogueInv
<1>1. Shapes' /\ HeldSound' /\ Behind'
  BY ShapesStep, HeldStep, BehindStep
<1>2. IdsFresh' /\ AuditIds' /\ Snapshot'
  BY FreshStep, AuditStep, SnapshotStep
<1>3. Lag' /\ Calm'
  BY LagStep, CalmStep
<1> QED BY <1>1, <1>2, <1>3

(* The type invariant. *)
THEOREM CatalogueTypeOK == Spec => []TypeOK
<1>1. CatalogueInv => TypeOK
  <2> SUFFICES ASSUME CatalogueInv PROVE TypeOK
    OBVIOUS
  <2>1. \A i \in DOMAIN games : games[i] \in GameRecord /\ i \in Id
    BY GameType DEF CatalogueInv
  <2>2. \A r \in Request : request[r].step \in Steps /\ request[r].held \in GameRecord
    BY DEF CatalogueInv, Shapes, RequestRecord
  <2>3. reading.n \in 0 .. Len(Tables)
    BY TablesLength DEF CatalogueInv, Shapes, ReadingRecord
  <2>4. /\ \A b \in born : b[3] = "counter" => b[2] <= counters[b[1]]
        /\ late \subseteq 1 .. counters["audit"]
    BY DEF CatalogueInv, Behind
  <2>5. \A a \in audits : a.id \in 1 .. counters["audit"]
    BY DEF CatalogueInv, Behind
  <2> QED BY <2>1, <2>2, <2>3, <2>4, <2>5 DEF CatalogueInv, Shapes, TypeOK
<1> QED
  BY CatalogueInit, CatalogueStep, <1>1, PTL DEF Spec

(* An id from next_id is in no other handler's hands, and no record of its *)
(* table ever had it, deleted ones included, for any number of handlers,   *)
(* crashes and failed transactions; only a game whose id a request named   *)
(* may have had it.                                                        *)
THEOREM IdsAlwaysFresh == Spec => []IdsFresh
<1>1. CatalogueInv => IdsFresh
  BY DEF CatalogueInv
<1> QED
  BY CatalogueInit, CatalogueStep, <1>1, PTL DEF Spec

(* Every audit record is about an operation that took effect, and has an   *)
(* id of its own.                                                          *)
THEOREM AuditAlwaysTrue == Spec => []AuditTrue
<1>1. CatalogueInv => AuditTrue
  BY DEF CatalogueInv, AuditIds
<1> QED
  BY CatalogueInit, CatalogueStep, <1>1, PTL DEF Spec

(* What backup_to has read, table by table beside the handlers: no version *)
(* a game names is without its manifest, and no id is past the backup's    *)
(* counter but that of a game a request named, and that of an audit record *)
(* whose id was given out after the counters were read.                    *)
THEOREM BackupAlwaysConsistent == Spec => []SnapshotConsistent
<1>1. CatalogueInv => SnapshotConsistent
  BY SnapshotHolds DEF CatalogueInv
<1> QED
  BY CatalogueInit, CatalogueStep, <1>1, PTL DEF Spec

(* A game's latest version is the greatest one save_version stored for it  *)
(* since its record was made, unless a publication of it is under way, two *)
(* updates of its record have overlapped, or a crash or a failed           *)
(* transaction has cut a publication short.                                *)
THEOREM LatestAlwaysMax == Spec => []LatestIsMax
<1>1. CatalogueInv => LatestIsMax
  BY GameType DEF CatalogueInv, Calm, Settled, LatestIsMax
<1> QED
  BY CatalogueInit, CatalogueStep, <1>1, PTL DEF Spec
=============================================================================
