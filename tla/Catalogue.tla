----------------------------- MODULE Catalogue ------------------------------
(***************************************************************************)
(* The records the scheduler's back office keeps: users, places, groups,   *)
(* games, versions and audits.  Every call of db::Store is a redb          *)
(* transaction of its own; an HTTP or gRPC handler makes several, and      *)
(* handlers run concurrently.  A backup reads one table after the other.   *)
(***************************************************************************)
EXTENDS Integers, Sequences

CONSTANTS
    Request,        \* handlers that may run at a time
    Kind,           \* tables that are handled alike: users, places, groups
    MaxId,          \* bound: ids of a table
    Version,        \* versions that are published
    MaxOps,         \* bound: requests in a behaviour
    MaxFaults       \* bound: crashes of the scheduler, failed transactions

ASSUME CatalogueAssumption == /\ Version \subseteq Nat \ {0}
                              /\ MaxId \in Nat /\ MaxOps \in Nat /\ MaxFaults \in Nat
                              /\ {"game", "audit"} \cap Kind = {}

Id == 1 .. MaxId

(* One counter per table that hands out ids. *)
Counter == Kind \cup {"game", "audit"}

VARIABLES
    counters,       \* counter -> last id given out
    rows,           \* kind -> ids with a record
    games,          \* game id -> GameRecord, and how it got its id
    versions,       \* <<game, version>> with a manifest
    audits,         \* audit records
    request,        \* handler -> where it is and what it holds
    reading,        \* backup: tables read so far and what was in them
    born,           \* history: <<table, id, where the id came from>> of records
    effects,        \* history: operations in effect
    seen,           \* history: game -> greatest version published for its record
    disturbed,      \* history: games an update of which overlapped another one
                    \* or was cut short
    late,           \* history: audit ids given out since the running backup
                    \* read the counters
    ops, faults     \* requests made, crashes and failed transactions so far

tables == <<counters, rows, games, versions, audits>>
historyVars == <<born, effects, seen, disturbed, late>>
vars == <<counters, rows, games, versions, audits, request, reading,
          born, effects, seen, disturbed, late, ops, faults>>

NoGame == [current |-> 0, latest |-> 0, auto |-> FALSE]
Idle == [step |-> "idle", kind |-> "none", id |-> 0, version |-> 0, held |-> NoGame,
         action |-> "none"]
NothingRead == [n |-> 0, rows |-> [k \in Kind |-> {}], games |-> [i \in {} |-> NoGame],
                versions |-> {}, counters |-> [c \in Counter |-> 0], audits |-> {}]

Init ==
    /\ counters = [c \in Counter |-> 0] /\ rows = [k \in Kind |-> {}]
    /\ games = [i \in {} |-> NoGame] /\ versions = {} /\ audits = {}
    /\ request = [r \in Request |-> Idle]
    /\ reading = NothingRead
    /\ born = {} /\ effects = {} /\ seen = [i \in Id |-> 0]
    /\ disturbed = {} /\ late = {} /\ ops = 0 /\ faults = 0
-----------------------------------------------------------------------------
Arrive(r) == request[r] = Idle /\ ops < MaxOps /\ ops' = ops + 1
Set(r, record) == request' = [request EXCEPT ![r] = record]

(* next_id: one transaction; an id is never given out twice. *)
NextId(c) == counters[c] < MaxId /\ counters' = [counters EXCEPT ![c] = @ + 1]

(* Mutant: the next id is the one after the greatest in the table. *)
CreateId_Greatest(r, k) ==
    LET top == CHOOSE i \in 0 .. MaxId :
                    i \in rows[k] \cup {0} /\ \A n \in rows[k] : n <= i
    IN /\ Arrive(r) /\ top < MaxId /\ counters' = [counters EXCEPT ![k] = top + 1]
       /\ Set(r, [Idle EXCEPT !.step = "insert", !.kind = k, !.id = top + 1])
       /\ UNCHANGED <<rows, games, versions, audits, reading, historyVars, faults>>

(* create_user, create_place, create_group: an id, then the record. *)
CreateId(r, k) ==
    /\ Arrive(r) /\ NextId(k)
    /\ Set(r, [Idle EXCEPT !.step = "insert", !.kind = k, !.id = counters'[k]])
    /\ UNCHANGED <<rows, games, versions, audits, reading, historyVars, faults>>

(* create_game without an id. *)
CreateGameId(r) ==
    /\ Arrive(r) /\ NextId("game")
    /\ Set(r, [Idle EXCEPT !.step = "insert", !.kind = "game", !.id = counters'["game"],
                           !.held = [NoGame EXCEPT !.auto = TRUE]])
    /\ UNCHANGED <<rows, games, versions, audits, reading, historyVars, faults>>

(* Mutant: the id in the request is taken for one from the counter. *)
CreateGameAt_Given(r, i) ==
    /\ Arrive(r) /\ i \notin DOMAIN games
    /\ Set(r, [Idle EXCEPT !.step = "insert", !.kind = "game", !.id = i,
                           !.held = [NoGame EXCEPT !.auto = TRUE]])
    /\ UNCHANGED <<tables, reading, historyVars, faults>>

(* create_game with one: it must be free now; the counter stays. *)
CreateGameAt(r, i) ==
    /\ Arrive(r) /\ i \notin DOMAIN games
    /\ Set(r, [Idle EXCEPT !.step = "insert", !.kind = "game", !.id = i])
    /\ UNCHANGED <<tables, reading, historyVars, faults>>

Effect(r, action) == /\ effects' = effects \cup {<<action, request[r].kind, request[r].id>>}
                     /\ Set(r, [request[r] EXCEPT !.step = "auditId", !.action = action])

(* The id comes from a counter, not from the request. *)
Given(q) == q.kind \in Kind \/ q.held.auto

Origin(q) == IF Given(q) THEN "counter" ELSE "request"

(* A read-modify-write of game i is under way in another handler. *)
Busy(r, i) == \E s \in Request \ {r} : /\ request[s].id = i
                                       /\ request[s].kind = "game"
                                       /\ request[s].step \notin {"idle", "auditId", "auditPut"}

(* insert_user, insert_place, insert_group. *)
InsertRow(k, i) == rows' = [rows EXCEPT ![k] = @ \cup {i}]

(* insert_json: the record replaces what is there. *)
CreateInsert(r) ==
    LET q == request[r]
    IN /\ q.step = "insert"
       /\ IF q.kind = "game"
          THEN /\ games' = [i \in DOMAIN games \cup {q.id} |->
                                IF i = q.id THEN q.held ELSE games[i]]
               /\ seen' = [seen EXCEPT ![q.id] = 0]
               /\ UNCHANGED rows
          ELSE /\ InsertRow(q.kind, q.id)
               /\ UNCHANGED <<games, seen>>
       /\ born' = born \cup {<<q.kind, q.id, Origin(q)>>}
       /\ disturbed' = IF q.kind # "game" THEN disturbed
                       ELSE IF Busy(r, q.id) THEN disturbed \cup {q.id}
                       ELSE disturbed \ {q.id}
       /\ Effect(r, "create")
       /\ UNCHANGED <<counters, versions, audits, reading, late, ops, faults>>

(* delete_json: tells whether there was a record to remove. *)
DeleteRow(k, i) == i \in rows[k] /\ rows' = [rows EXCEPT ![k] = @ \ {i}]

(* delete_user, delete_place, delete_group: found and removed in one       *)
(* transaction.  Bindings are left alone.                                  *)
Delete(r, k, i) ==
    /\ Arrive(r) /\ DeleteRow(k, i)
    /\ effects' = effects \cup {<<"delete", k, i>>}
    /\ Set(r, [Idle EXCEPT !.step = "auditId", !.kind = k, !.id = i, !.action = "delete"])
    /\ UNCHANGED <<counters, games, versions, audits, reading, born, seen, disturbed,
                   late, faults>>

(* delete_game; its versions stay. *)
DeleteGame(r, i) ==
    /\ Arrive(r) /\ i \in DOMAIN games
    /\ games' = [n \in DOMAIN games \ {i} |-> games[n]]
    /\ effects' = effects \cup {<<"delete", "game", i>>}
    /\ disturbed' = IF Busy(r, i) THEN disturbed \cup {i} ELSE disturbed
    /\ Set(r, [Idle EXCEPT !.step = "auditId", !.kind = "game", !.id = i,
                           !.action = "delete"])
    /\ UNCHANGED <<counters, rows, versions, audits, reading, born, seen, late, faults>>

(* Mutant: the audit record is written before the game's. *)
RollbackPush_AuditFirst(r) ==
    /\ request[r].step = "push" /\ NextId("audit")
    /\ audits' = audits \cup {[id |-> counters'["audit"],
                               what |-> <<"rollback", "game", request[r].id>>]}
    /\ Set(r, [request[r] EXCEPT !.step = "put"])
    /\ UNCHANGED <<rows, games, versions, reading, historyVars, ops, faults>>

(* publish_version: the manifest is saved, then the game's record updated. *)
PublishSave(r, i, v) ==
    /\ Arrive(r)
    /\ versions' = versions \cup {<<i, v>>}
    /\ seen' = [seen EXCEPT ![i] = IF v > @ THEN v ELSE @]
    /\ Set(r, [Idle EXCEPT !.step = "get", !.kind = "game", !.id = i, !.version = v])
    /\ disturbed' = IF Busy(r, i) THEN disturbed \cup {i} ELSE disturbed
    /\ UNCHANGED <<counters, rows, games, audits, reading, born, effects, late, faults>>

(* Mutant: a version that is not greater becomes the latest too. *)
PublishGet_Any(r) ==
    LET q == request[r]
    IN /\ q.step = "get"
       /\ IF q.id \in DOMAIN games
          THEN Set(r, [q EXCEPT !.step = "latest", !.held = games[q.id]])
          ELSE Set(r, Idle)
       /\ UNCHANGED <<tables, reading, historyVars, ops, faults>>

PublishGet(r) ==
    LET q == request[r]
    IN /\ q.step = "get"
       /\ IF q.id \in DOMAIN games /\ q.version > games[q.id].latest
          THEN Set(r, [q EXCEPT !.step = "latest", !.held = games[q.id]])
          ELSE Set(r, Idle)
       /\ UNCHANGED <<tables, reading, historyVars, ops, faults>>

WriteGame(i, game) ==
    games' = [n \in DOMAIN games \cup {i} |-> IF n = i THEN game ELSE games[n]]

(* insert_game with the record that was read: only latest_version differs. *)
(* (When nobody else is at the game and its version is the greatest one,   *)
(* the record is right again.)                                             *)
PublishPut(r) ==
    LET q == request[r]
    IN /\ q.step = "latest"
       /\ WriteGame(q.id, [q.held EXCEPT !.latest = q.version])
       /\ disturbed' = IF q.version = seen[q.id] /\ ~ Busy(r, q.id)
                       THEN disturbed \ {q.id} ELSE disturbed
       /\ Set(r, Idle)
       /\ UNCHANGED <<counters, rows, versions, audits, reading, born, effects, seen,
                      late, ops, faults>>

(* get_version finds a manifest. *)
Found(i, v) == <<i, v>> \in versions

(* rollback_game: the game and the version are looked up, *)
RollbackGet(r, i, v) ==
    /\ Arrive(r) /\ i \in DOMAIN games /\ Found(i, v)
    /\ disturbed' = IF Busy(r, i) THEN disturbed \cup {i} ELSE disturbed
    /\ Set(r, [Idle EXCEPT !.step = "push", !.kind = "game", !.id = i, !.version = v,
                           !.held = games[i]])
    /\ UNCHANGED <<tables, reading, born, effects, seen, late, faults>>

(* the task is stored and pushed (see TaskControl), *)
RollbackPush(r) ==
    /\ request[r].step = "push"
    /\ Set(r, [request[r] EXCEPT !.step = "put"])
    /\ UNCHANGED <<tables, reading, historyVars, ops, faults>>

(* and the record that was read is written with the new current version. *)
RollbackPut(r) ==
    LET q == request[r]
    IN /\ q.step = "put"
       /\ WriteGame(q.id, [q.held EXCEPT !.current = q.version])
       /\ Effect(r, "rollback")
       /\ UNCHANGED <<counters, rows, versions, audits, reading, born, seen, disturbed,
                      late, ops, faults>>

(* Mutant: the counters are read first. *)
Tables_CountersFirst == <<"counters", "rows", "games", "versions", "audits">>

(* The order in which backup_to reads the tables. *)
Tables == <<"rows", "games", "versions", "counters", "audits">>

(* The counters are in what the running backup has read. *)
CountersRead == \E n \in 1 .. reading.n : Tables[n] = "counters"

(* add_audit: an id, then the record; its failure would not show. *)
AuditId(r) ==
    /\ request[r].step = "auditId" /\ counters["audit"] < MaxOps
    /\ counters' = [counters EXCEPT !["audit"] = @ + 1]
    /\ Set(r, [request[r] EXCEPT !.step = "auditPut", !.version = counters'["audit"]])
    /\ late' = IF CountersRead THEN late \cup {counters'["audit"]} ELSE late
    /\ UNCHANGED <<rows, games, versions, audits, reading, born, effects, seen,
                   disturbed, ops, faults>>

AuditPut(r) ==
    LET q == request[r]
    IN /\ q.step = "auditPut"
       /\ audits' = audits \cup {[id |-> q.version, what |-> <<q.action, q.kind, q.id>>]}
       /\ Set(r, Idle)
       /\ UNCHANGED <<counters, rows, games, versions, reading, historyVars, ops,
                      faults>>
-----------------------------------------------------------------------------
(* backup_to: each table is read in a transaction of its own,              *)
ReadRows == reading' = [reading EXCEPT !.n = @ + 1, !.rows = rows]
ReadGames == reading' = [reading EXCEPT !.n = @ + 1, !.games = games]
ReadVersions == reading' = [reading EXCEPT !.n = @ + 1, !.versions = versions]
ReadCounters == reading' = [reading EXCEPT !.n = @ + 1, !.counters = counters]
ReadAudits == reading' = [reading EXCEPT !.n = @ + 1, !.audits = audits]

BackupRead ==
    /\ reading.n < Len(Tables)
    /\ LET table == Tables[reading.n + 1]
       IN \/ table = "rows" /\ ReadRows
          \/ table = "games" /\ ReadGames
          \/ table = "versions" /\ ReadVersions
          \/ table = "counters" /\ ReadCounters
          \/ table = "audits" /\ ReadAudits
    /\ UNCHANGED <<tables, request, historyVars, ops, faults>>

(* and what was read is written to a file. *)
BackupWrite ==
    /\ reading.n = Len(Tables) /\ reading' = NothingRead /\ late' = {}
    /\ UNCHANGED <<tables, request, born, effects, seen, disturbed, ops, faults>>

(* The publications of these handlers stop between save_version and        *)
(* insert_game.                                                            *)
CutShort(handlers) ==
    {request[r].id : r \in {s \in handlers : request[s].step \in {"get", "latest"}}}

(* A transaction of the handler fails: nothing of it is kept, the handler  *)
(* returns an error (publish_version and audit ignore it) and goes no      *)
(* further.                                                                *)
Fail(r) ==
    /\ request[r].step # "idle"
    /\ faults < MaxFaults /\ faults' = faults + 1
    /\ Set(r, Idle)
    /\ disturbed' = disturbed \cup CutShort({r})
    /\ UNCHANGED <<tables, reading, born, effects, seen, late, ops>>

(* The scheduler dies between two transactions; the tables are durable. *)
Crash ==
    /\ faults < MaxFaults /\ faults' = faults + 1
    /\ request' = [r \in Request |-> Idle] /\ reading' = NothingRead
    /\ disturbed' = disturbed \cup CutShort(Request) /\ late' = {}
    /\ UNCHANGED <<tables, born, effects, seen, ops>>
-----------------------------------------------------------------------------
Handler(r) ==
    \/ CreateGameId(r) \/ CreateInsert(r) \/ PublishGet(r) \/ PublishPut(r)
    \/ RollbackPush(r) \/ RollbackPut(r) \/ AuditId(r) \/ AuditPut(r) \/ Fail(r)
    \/ \E k \in Kind : CreateId(r, k) \/ \E i \in Id : Delete(r, k, i)
    \/ \E i \in Id : \/ CreateGameAt(r, i) \/ DeleteGame(r, i)
                     \/ \E v \in Version : PublishSave(r, i, v) \/ RollbackGet(r, i, v)

Next == (\E r \in Request : Handler(r)) \/ BackupRead \/ BackupWrite \/ Crash
Spec == Init /\ [][Next]_vars
-----------------------------------------------------------------------------
Steps == {"idle", "insert", "get", "latest", "push", "put", "auditId", "auditPut"}
GameRecord == [current : Version \cup {0}, latest : Version \cup {0}, auto : BOOLEAN]

(* Type invariant. *)
TypeOK ==
    /\ counters \in [Counter -> 0 .. MaxId + MaxOps] /\ rows \in [Kind -> SUBSET Id]
    /\ DOMAIN games \subseteq Id /\ \A i \in DOMAIN games : games[i] \in GameRecord
    /\ versions \subseteq Id \X Version
    /\ \A a \in audits : a.id \in 1 .. counters["audit"]
    /\ \A r \in Request : request[r].step \in Steps /\ request[r].held \in GameRecord
    /\ reading.n \in 0 .. Len(Tables)
    /\ born \subseteq (Kind \cup {"game"}) \X Id \X {"counter", "request"}
    /\ \A b \in born : b[3] = "counter" => b[2] <= counters[b[1]]
    /\ seen \in [Id -> Version \cup {0}] /\ disturbed \subseteq Id
    /\ late \subseteq 1 .. counters["audit"]
    /\ ops \in 0 .. MaxOps /\ faults \in 0 .. MaxFaults

(* An id from a counter is new: no record of its table ever had it,        *)
(* deleted ones included, and no other handler holds it, although the id   *)
(* and the record are written in two transactions and the scheduler may    *)
(* die in between.  The one exception is a game whose id a request named:  *)
(* create_game does not move the counter, which reaches that id later, and *)
(* the record is overwritten.                                              *)
IdsFresh ==
    \A r \in Request : LET q == request[r] IN
        q.step = "insert" /\ Given(q) =>
            /\ \A b \in born : b[1] = q.kind /\ b[2] = q.id =>
                                    q.kind = "game" /\ b[3] = "request"
            /\ \A s \in Request \ {r} :
                    request[s].step = "insert" /\ Given(request[s]) =>
                        <<request[s].kind, request[s].id>> # <<q.kind, q.id>>

(* The audit log lists only what has happened, each under an id of its     *)
(* own; a crash loses entries, never the operation they are about.         *)
AuditTrue == /\ \A a \in audits : a.what \in effects
             /\ \A a, b \in audits : a.id = b.id => a = b

(* What a backup's tables say of each other, although they were read one   *)
(* by one beside the handlers: the versions a game names have their        *)
(* manifest, and the counters are past every id in it, with two            *)
(* exceptions.  A game whose id a request named may lie ahead of the       *)
(* counter, as it does in the database; and an audit record may, if its id *)
(* was given out between the reading of the counters and of the audits.    *)
SnapshotConsistent ==
    reading.n = Len(Tables) =>
        /\ \A k \in Kind : \A i \in reading.rows[k] : i <= reading.counters[k]
        /\ \A i \in DOMAIN reading.games : LET game == reading.games[i] IN
            /\ game.auto => i <= reading.counters["game"]
            /\ \A v \in {game.current, game.latest} \ {0} : <<i, v>> \in reading.versions
        /\ \A a \in reading.audits : a.id <= reading.counters["audit"] \/ a.id \in late

(* A game's latest version is the greatest one saved for it since its      *)
(* record was made, however often it is rolled back, once its publication  *)
(* is over.  Only an update that overlaps another one (each writes the     *)
(* whole record it read before) or a publication that a crash or a failed  *)
(* transaction ends between save_version and insert_game leaves it behind, *)
(* and then the next publication of the greatest version that runs alone   *)
(* makes it right, if the record is not ahead of it.                       *)
Publishing(q, i) == q.kind = "game" /\ q.id = i /\ q.step \in {"get", "latest"}
LatestIsMax ==
    \A i \in DOMAIN games \ disturbed :
        games[i].latest = seen[i] \/ \E r \in Request : Publishing(request[r], i)
=============================================================================
