-------------------------- MODULE LifecycleProofs ---------------------------
(***************************************************************************)
(* Start and stop for every configuration and any bounds: the type         *)
(* invariant, what a program that runs has running, what is announced, and *)
(* why a start fails.                                                      *)
(*                                                                         *)
(* The argument is about the steps that are still to do.  The names of the *)
(* steps have ranks, in which every program's steps ascend; so what was    *)
(* done ranks below what is left (Ascending), and what was done is there   *)
(* (Starting): its tasks run, their ports are those of earlier steps, and  *)
(* no probe is left behind.                                                *)
(***************************************************************************)
EXTENDS Lifecycle, SequenceTheorems, TLAPS

Names == {"stun", "store", "dir", "backup", "upload", "echo", "lock", "grpc", "data", "iroh",
          "build", "keepalive", "pong", "send", "http", "clean", "connect", "register",
          "heartbeat", "watch"}

Rank(s) == CASE s \in {"stun", "store", "dir"} -> 0
             [] s \in {"backup", "upload", "echo", "lock"} -> 1
             [] s \in {"grpc", "data", "iroh", "build"} -> 2
             [] s \in {"keepalive", "pong", "send"} -> 3
             [] s \in {"http", "clean"} -> 4
             [] s = "connect" -> 5
             [] s = "register" -> 6
             [] s = "heartbeat" -> 7
             [] OTHER -> 8

Elements(s) == {s[i] : i \in DOMAIN s}
Ascending(s) == \A i, j \in DOMAIN s : i < j => Rank(s[i]) < Rank(s[j])
Below(S, T) == \A a \in S, b \in T : Rank(a) < Rank(b)

(* The steps of a program, without their order. *)
StepSet(c) ==
    CASE c.program = "scheduler" ->
            {"store", "grpc", "keepalive", "http"} \cup {s \in {"backup"} : c.backup}
      [] c.program = "origin" -> {"dir", "upload", "data"}
      [] c.program = "agent" ->
            {"data"} \cup {s \in {"stun"} : c.external = "stun"}
            \cup {s \in {"pong"} : c.pong} \cup {s \in {"clean"} : c.cafe}
            \cup {s \in {"connect", "register", "heartbeat", "watch"} : c.control # "none"}
      [] c.program = "producer" -> {"dir", "lock", "build"} \cup {s \in {"send"} : c.upload # "none"}
      [] OTHER -> {"echo", "iroh"}

(* The steps that have been done. *)
Past == StepSet(config) \ Elements(todo)

Starting ==
    /\ todo \in Seq(Names) /\ Ascending(todo)
    /\ Elements(todo) \subseteq StepSet(config) /\ Below(Past, Elements(todo))
    /\ Past \cap Task \subseteq tasks \cup died
    /\ tasks \subseteq StepSet(config)
    /\ \A t \in tasks : (t = "stun" <=> t \in Elements(todo))
    /\ (registered <=> "register" \in Past)
    /\ tries < Attempts

Running ==
    /\ StepSet(config) \cap Task \subseteq tasks \cup died
    /\ tasks \subseteq StepSet(config)
    /\ registered => "register" \in StepSet(config)

(* Only a registered agent is given jobs. *)
Jobs == /\ "watch" \in tasks => registered
        /\ ~ registered => waiting = 0 /\ active = 0

(* Before the start there is nothing. *)
Loading == tasks = {} /\ died = {} /\ ~ registered /\ tries = 0

LifecycleInv ==
    /\ TypeOK /\ FailsOnlyByFault /\ Jobs
    /\ phase \in {"starting", "running"} => Valid(config)
    /\ phase \in {"load", "starting", "running"} => told = {}
    /\ phase = "load" => Loading
    /\ phase = "starting" => Starting
    /\ phase = "running" => Running
-----------------------------------------------------------------------------
(* Sequences of steps: s goes through S in the order of the ranks. *)
Chain(s, S) == s \in Seq(Names) /\ Ascending(s) /\ Elements(s) = S

(* Two chains, one below the other, make a chain. *)
LEMMA Joined ==
    ASSUME NEW s, NEW t, NEW S, NEW T, Chain(s, S), Chain(t, T), Below(S, T)
    PROVE  Chain(s \o t, S \cup T)
<1> DEFINE st == s \o t
<1>1. st \in Seq(Names) /\ Len(st) = Len(s) + Len(t)
      /\ \A i \in 1 .. Len(s) + Len(t) : st[i] = IF i <= Len(s) THEN s[i] ELSE t[i - Len(s)]
  BY DEF Chain
<1>2. DOMAIN s = 1 .. Len(s) /\ DOMAIN t = 1 .. Len(t) /\ DOMAIN st = 1 .. Len(s) + Len(t)
      /\ Len(s) \in Nat /\ Len(t) \in Nat
  BY <1>1 DEF Chain
<1> HIDE DEF st
<1>3. Ascending(st)
  <2> SUFFICES ASSUME NEW i \in DOMAIN st, NEW j \in DOMAIN st, i < j
               PROVE  Rank(st[i]) < Rank(st[j])
    BY DEF Ascending
  <2>1. CASE j <= Len(s)
    <3>1. i \in DOMAIN s /\ j \in DOMAIN s /\ st[i] = s[i] /\ st[j] = s[j]
      BY <1>1, <1>2, <2>1
    <3> QED BY <3>1 DEF Chain, Ascending
  <2>2. CASE i > Len(s)
    <3>1. /\ i - Len(s) \in DOMAIN t /\ j - Len(s) \in DOMAIN t /\ i - Len(s) < j - Len(s)
          /\ st[i] = t[i - Len(s)] /\ st[j] = t[j - Len(s)]
      BY <1>1, <1>2, <2>2
    <3> QED BY <3>1 DEF Chain, Ascending
  <2>3. CASE i <= Len(s) /\ j > Len(s)
    <3>1. /\ i \in DOMAIN s /\ j - Len(s) \in DOMAIN t
          /\ st[i] = s[i] /\ st[j] = t[j - Len(s)]
      BY <1>1, <1>2, <2>3
    <3>2. s[i] \in S /\ t[j - Len(s)] \in T
      BY <3>1 DEF Chain, Elements
    <3> QED BY <3>1, <3>2 DEF Below
  <2> QED BY <1>2, <2>1, <2>2, <2>3
<1>4. Elements(st) = S \cup T
  <2>1. ASSUME NEW a \in Elements(st) PROVE a \in S \cup T
    <3>1. PICK i \in DOMAIN st : a = st[i]
      BY DEF Elements
    <3>2. CASE i <= Len(s)
      <4>1. i \in DOMAIN s /\ a = s[i]
        BY <1>1, <1>2, <3>1, <3>2
      <4> QED BY <4>1 DEF Chain, Elements
    <3>3. CASE i > Len(s)
      <4>1. i - Len(s) \in DOMAIN t /\ a = t[i - Len(s)]
        BY <1>1, <1>2, <3>1, <3>3
      <4> QED BY <4>1 DEF Chain, Elements
    <3> QED BY <1>2, <3>2, <3>3
  <2>2. ASSUME NEW a \in S PROVE a \in Elements(st)
    <3>1. PICK i \in DOMAIN s : a = s[i]
      BY DEF Chain, Elements
    <3>2. i \in DOMAIN st /\ a = st[i]
      BY <1>1, <1>2, <3>1
    <3> QED BY <3>2 DEF Elements
  <2>3. ASSUME NEW a \in T PROVE a \in Elements(st)
    <3>1. PICK i \in DOMAIN t : a = t[i]
      BY DEF Chain, Elements
    <3>2. i + Len(s) \in DOMAIN st /\ a = st[i + Len(s)]
      BY <1>1, <1>2, <3>1
    <3> QED BY <3>2 DEF Elements
  <2> QED BY <2>1, <2>2, <2>3
<1> QED BY <1>1, <1>3, <1>4 DEF Chain, st

(* What is left of a chain after its head ranks above it. *)
LEMMA Advanced ==
    ASSUME NEW s, NEW S, Chain(s, S), s # <<>>
    PROVE  /\ Head(s) \in S /\ Chain(Tail(s), S \ {Head(s)})
           /\ \A b \in S \ {Head(s)} : Rank(Head(s)) < Rank(b)
<1> DEFINE t == Tail(s)
           h == Head(s)
<1>1. /\ t \in Seq(Names) /\ Len(t) = Len(s) - 1 /\ h = s[1]
      /\ \A i \in 1 .. Len(s) - 1 : t[i] = s[i + 1]
  BY DEF Chain
<1>2. /\ DOMAIN s = 1 .. Len(s) /\ DOMAIN t = 1 .. Len(s) - 1
      /\ Len(s) \in Nat /\ Len(s) > 0
  BY <1>1 DEF Chain
<1>3. \A a \in Names : Rank(a) \in Nat
  BY DEF Names, Rank
<1>4. S \subseteq Names
  BY <1>2 DEF Chain, Elements
<1> HIDE DEF t, h
<1>5. Ascending(t)
  <2> SUFFICES ASSUME NEW i \in DOMAIN t, NEW j \in DOMAIN t, i < j
               PROVE  Rank(t[i]) < Rank(t[j])
    BY DEF Ascending
  <2>1. i + 1 \in DOMAIN s /\ j + 1 \in DOMAIN s /\ i + 1 < j + 1
        /\ t[i] = s[i + 1] /\ t[j] = s[j + 1]
    BY <1>1, <1>2
  <2> QED BY <2>1 DEF Chain, Ascending
<1>6. h \in S
  BY <1>1, <1>2 DEF Chain, Elements
<1>7. \A i \in DOMAIN s : i # 1 => Rank(h) < Rank(s[i])
  <2> TAKE i \in DOMAIN s
  <2> HAVE i # 1
  <2>1. 1 \in DOMAIN s /\ 1 < i
    BY <1>2
  <2> QED BY <1>1, <2>1 DEF Chain, Ascending
<1>8. Rank(h) \in Nat
  BY <1>3, <1>4, <1>6
<1>9. \A b \in S \ {h} : Rank(h) < Rank(b)
  <2> TAKE b \in S \ {h}
  <2>1. PICK i \in DOMAIN s : b = s[i]
    BY DEF Chain, Elements
  <2>2. i # 1
    BY <1>1, <2>1
  <2> QED BY <1>7, <2>1, <2>2
<1>10. Elements(t) = S \ {h}
  <2>1. ASSUME NEW a \in Elements(t) PROVE a \in S \ {h}
    <3>1. PICK i \in DOMAIN t : a = t[i]
      BY DEF Elements
    <3>2. i + 1 \in DOMAIN s /\ a = s[i + 1] /\ i + 1 # 1
      BY <1>1, <1>2, <3>1
    <3>3. a \in S
      BY <3>2 DEF Chain, Elements
    <3>4. a # h
      BY <1>7, <1>8, <3>2
    <3> QED BY <3>3, <3>4
  <2>2. ASSUME NEW a \in S \ {h} PROVE a \in Elements(t)
    <3>1. PICK i \in DOMAIN s : a = s[i]
      BY DEF Chain, Elements
    <3>2. i - 1 \in DOMAIN t /\ a = t[i - 1]
      BY <1>1, <1>2, <3>1
    <3> QED BY <3>2 DEF Elements
  <2> QED BY <2>1, <2>2
<1> QED BY <1>1, <1>5, <1>6, <1>9, <1>10 DEF Chain, t, h

-----------------------------------------------------------------------------
(* The steps of every program are a chain. *)
LEMMA EmptyChain == Chain(<<>>, {})
BY DEF Chain, Ascending, Elements

LEMMA OneChain == ASSUME NEW a \in Names PROVE Chain(<<a>>, {a})
<1>1. <<a>> \in Seq(Names) /\ DOMAIN <<a>> = {1} /\ <<a>>[1] = a
  OBVIOUS
<1> QED BY <1>1 DEF Chain, Ascending, Elements

LEMMA TwoChain ==
    ASSUME NEW a \in Names, NEW b \in Names, Rank(a) < Rank(b) PROVE Chain(<<a, b>>, {a, b})
<1>1. <<a, b>> \in Seq(Names) /\ DOMAIN <<a, b>> = {1, 2} /\ <<a, b>>[1] = a /\ <<a, b>>[2] = b
  OBVIOUS
<1> DEFINE s == <<a, b>>
<1> HIDE DEF s
<1>2. Chain(s, {a, b})
  BY <1>1 DEF Chain, Ascending, Elements, s
<1> QED BY <1>2 DEF s

LEMMA ThreeChain ==
    ASSUME NEW a \in Names, NEW b \in Names, NEW c \in Names,
           Rank(a) < Rank(b), Rank(b) < Rank(c), Rank(a) < Rank(c)
    PROVE  Chain(<<a, b, c>>, {a, b, c})
<1>1. /\ <<a, b, c>> \in Seq(Names) /\ DOMAIN <<a, b, c>> = {1, 2, 3}
      /\ <<a, b, c>>[1] = a /\ <<a, b, c>>[2] = b /\ <<a, b, c>>[3] = c
  OBVIOUS
<1> DEFINE s == <<a, b, c>>
<1> HIDE DEF s
<1>2. Chain(s, {a, b, c})
  BY <1>1 DEF Chain, Ascending, Elements, s
<1> QED BY <1>2 DEF s

LEMMA FourChain == Chain(<<"connect", "register", "heartbeat", "watch">>,
                         {"connect", "register", "heartbeat", "watch"})
<1> DEFINE s == <<"connect", "register", "heartbeat", "watch">>
<1>1. /\ s \in Seq(Names) /\ DOMAIN s = {1, 2, 3, 4}
      /\ s[1] = "connect" /\ s[2] = "register" /\ s[3] = "heartbeat" /\ s[4] = "watch"
  BY DEF Names
<1>2. Rank("connect") = 5 /\ Rank("register") = 6 /\ Rank("heartbeat") = 7 /\ Rank("watch") = 8
  BY DEF Rank
<1> HIDE DEF s
<1>3. Chain(s, {"connect", "register", "heartbeat", "watch"})
  BY <1>1, <1>2 DEF Chain, Ascending, Elements
<1> QED BY <1>3 DEF s

LEMMA StepsChain == ASSUME NEW c \in Config PROVE Chain(Steps(c), StepSet(c))
<1>1. CASE c.program = "scheduler"
  <2> DEFINE a == <<"store">>
             b == If(c.backup, <<"backup">>)
             d == <<"grpc", "keepalive", "http">>
             B == {s \in {"backup"} : c.backup}
  <2>1. Chain(a, {"store"})
    BY OneChain DEF Names
  <2>2. Chain(b, B)
    BY OneChain, EmptyChain DEF Names, If
  <2>3. Chain(d, {"grpc", "keepalive", "http"})
    <3>1. Rank("grpc") = 2 /\ Rank("keepalive") = 3 /\ Rank("http") = 4
      BY DEF Rank
    <3>2. "grpc" \in Names /\ "keepalive" \in Names /\ "http" \in Names
      BY DEF Names
    <3> QED BY <3>1, <3>2, ThreeChain
  <2>4. Below({"store"}, B) /\ Below({"store"} \cup B, {"grpc", "keepalive", "http"})
    BY DEF Below, Rank
  <2> HIDE DEF a, b, d, B
  <2>5. Chain(a \o b, {"store"} \cup B)
    BY <2>1, <2>2, <2>4, Joined
  <2>6. Chain((a \o b) \o d, ({"store"} \cup B) \cup {"grpc", "keepalive", "http"})
    BY <2>3, <2>4, <2>5, Joined
  <2>7. Steps(c) = (a \o b) \o d
    BY <1>1 DEF Steps, SchedulerSteps, a, b, d
  <2>8. StepSet(c) = ({"store"} \cup B) \cup {"grpc", "keepalive", "http"}
    BY <1>1 DEF StepSet, B
  <2> QED BY <2>6, <2>7, <2>8
<1>2. CASE c.program = "origin"
  <2>1. Chain(<<"dir", "upload", "data">>, {"dir", "upload", "data"})
    <3>1. Rank("dir") = 0 /\ Rank("upload") = 1 /\ Rank("data") = 2
      BY DEF Rank
    <3>2. "dir" \in Names /\ "upload" \in Names /\ "data" \in Names
      BY DEF Names
    <3> QED BY <3>1, <3>2, ThreeChain
  <2> QED BY <1>2, <2>1 DEF Steps, OriginSteps, StepSet
<1>3. CASE c.program = "agent"
  <2> DEFINE a == If(c.external = "stun", <<"stun">>)
             b == If(c.pong, <<"pong">>)
             d == If(c.cafe, <<"clean">>)
             e == If(c.control # "none", <<"connect", "register", "heartbeat", "watch">>)
             A == {s \in {"stun"} : c.external = "stun"}
             B == {s \in {"pong"} : c.pong}
             D == {s \in {"clean"} : c.cafe}
             E == {s \in {"connect", "register", "heartbeat", "watch"} : c.control # "none"}
  <2>1. Chain(a, A) /\ Chain(b, B) /\ Chain(d, D) /\ Chain(<<"data">>, {"data"})
    BY OneChain, EmptyChain DEF Names, If
  <2>2. Chain(e, E)
    <3>1. CASE c.control # "none"
      <4>1. E = {"connect", "register", "heartbeat", "watch"}
        BY <3>1
      <4> QED BY <3>1, <4>1, FourChain DEF If
    <3>2. CASE ~ (c.control # "none")
      BY <3>2, EmptyChain DEF If
    <3> QED BY <3>1, <3>2
  <2>3. /\ Below(A, {"data"}) /\ Below(A \cup {"data"}, B)
        /\ Below((A \cup {"data"}) \cup B, D)
        /\ Below(((A \cup {"data"}) \cup B) \cup D, E)
    BY DEF Below, Rank
  <2> HIDE DEF a, b, d, e, A, B, D, E
  <2>4. Chain(a \o <<"data">>, A \cup {"data"})
    BY <2>1, <2>3, Joined
  <2>5. Chain((a \o <<"data">>) \o b, (A \cup {"data"}) \cup B)
    BY <2>1, <2>3, <2>4, Joined
  <2>6. Chain(((a \o <<"data">>) \o b) \o d, ((A \cup {"data"}) \cup B) \cup D)
    BY <2>1, <2>3, <2>5, Joined
  <2>7. Chain((((a \o <<"data">>) \o b) \o d) \o e, (((A \cup {"data"}) \cup B) \cup D) \cup E)
    BY <2>2, <2>3, <2>6, Joined
  <2>8. Steps(c) = (((a \o <<"data">>) \o b) \o d) \o e
    BY <1>3 DEF Steps, AgentSteps, a, b, d, e
  <2>9. StepSet(c) = {"data"} \cup A \cup B \cup D \cup E
    BY <1>3 DEF StepSet, A, B, D, E
  <2>10. StepSet(c) = (((A \cup {"data"}) \cup B) \cup D) \cup E
    BY <2>9
  <2> QED BY <2>7, <2>8, <2>10
<1>4. CASE c.program = "producer"
  <2> DEFINE a == <<"dir", "lock", "build">>
             b == If(c.upload # "none", <<"send">>)
             B == {s \in {"send"} : c.upload # "none"}
  <2>1. Chain(a, {"dir", "lock", "build"})
    <3>1. Rank("dir") = 0 /\ Rank("lock") = 1 /\ Rank("build") = 2
      BY DEF Rank
    <3>2. "dir" \in Names /\ "lock" \in Names /\ "build" \in Names
      BY DEF Names
    <3> QED BY <3>1, <3>2, ThreeChain
  <2>2. Chain(b, B)
    BY OneChain, EmptyChain DEF Names, If
  <2>3. Below({"dir", "lock", "build"}, B)
    BY DEF Below, Rank
  <2> HIDE DEF a, b, B
  <2>4. Chain(a \o b, {"dir", "lock", "build"} \cup B)
    BY <2>1, <2>2, <2>3, Joined
  <2> QED BY <1>4, <2>4 DEF Steps, ProducerSteps, StepSet, a, b, B
<1>5. CASE c.program = "relay"
  <2>1. Chain(<<"echo", "iroh">>, {"echo", "iroh"})
    BY TwoChain DEF Names, Rank
  <2> QED BY <1>5, <2>1 DEF Steps, RelaySteps, StepSet
<1>6. c.program \in {"scheduler", "origin", "agent", "producer", "relay"}
  BY DEF Config, SchedulerConfig, OriginConfig, AgentConfig, RelayConfig, ProducerConfig
<1> QED BY <1>1, <1>2, <1>3, <1>4, <1>5, <1>6

-----------------------------------------------------------------------------
(* Whose steps they are, and which steps come together. *)
LEMMA Owners ==
    ASSUME NEW c \in Config
    PROVE  /\ StepSet(c) \cap {"backup", "grpc", "keepalive", "http"} # {}
                => c.program = "scheduler"
           /\ "upload" \in StepSet(c) => c.program = "origin"
           /\ "data" \in StepSet(c) => c.program \in {"origin", "agent"}
           /\ StepSet(c) \cap {"stun", "pong", "clean", "connect", "register", "watch"} # {}
                => c.program = "agent"
           /\ StepSet(c) \cap {"lock", "build", "send"} # {} => c.program = "producer"
           /\ "send" \in StepSet(c) => c.upload # "none"
           /\ StepSet(c) \cap {"echo", "iroh"} # {} => c.program = "relay"
           /\ "watch" \in StepSet(c) => "register" \in StepSet(c)
           /\ "register" \in StepSet(c) => "data" \in StepSet(c)
           /\ "register" \in StepSet(c) /\ c.pong => "pong" \in StepSet(c)
           /\ StepSet(c) \subseteq Names
           /\ Elements(Steps(c)) = StepSet(c)
<1>1. c.program \in {"scheduler", "origin", "agent", "producer", "relay"}
  BY DEF Config, SchedulerConfig, OriginConfig, AgentConfig, RelayConfig, ProducerConfig
<1>2. Chain(Steps(c), StepSet(c))
  BY StepsChain
<1>3. StepSet(c) \subseteq Names /\ Elements(Steps(c)) = StepSet(c)
  <2>1. /\ Elements(Steps(c)) = StepSet(c)
        /\ \A i \in DOMAIN Steps(c) : Steps(c)[i] \in Names
    BY <1>2 DEF Chain
  <2> QED BY <2>1 DEF Elements
<1> QED BY <1>1, <1>3 DEF StepSet

(* A step that is next: what ranks below it has been done, what ranks      *)
(* above it has not, and unless it is the probe there is no probe.         *)
LEMMA AtStep ==
    ASSUME Starting, config \in Config, NEW h, At(h)
    PROVE  /\ h \in Elements(todo) /\ h \in StepSet(config) /\ h \in Names /\ h \notin Past
           /\ \A s \in StepSet(config) : Rank(s) < Rank(h) => s \in Past
           /\ \A s \in Past : Rank(s) < Rank(h)
           /\ \A s \in tasks : s # "stun" => s \in Past
           /\ h # "stun" => "stun" \notin tasks
<1>1. Chain(todo, Elements(todo)) /\ todo # <<>> /\ Head(todo) = h
  BY DEF Starting, Chain, At
<1>2. /\ h \in Elements(todo)
      /\ \A b \in Elements(todo) \ {h} : Rank(h) < Rank(b)
  BY <1>1, Advanced
<1>3. \A a \in Names : Rank(a) \in Nat
  BY DEF Rank
<1>4. h \in StepSet(config) /\ StepSet(config) \subseteq Names
  BY <1>2, Owners DEF Starting
<1>5. ASSUME NEW s \in StepSet(config), Rank(s) < Rank(h) PROVE s \in Past
  <2>1. Rank(s) \in Nat /\ Rank(h) \in Nat
    BY <1>3, <1>4
  <2> QED BY <1>2, <1>5, <2>1 DEF Past
<1>6. ASSUME NEW s \in Past PROVE Rank(s) < Rank(h)
  BY <1>2 DEF Starting, Below
<1>7. ASSUME NEW s \in tasks, s # "stun" PROVE s \in Past
  BY <1>7 DEF Starting, Past
<1>8. ASSUME h # "stun", "stun" \in tasks PROVE FALSE
  <2>1. "stun" \in Elements(todo) \ {h}
    BY <1>8 DEF Starting
  <2>2. Rank(h) < Rank("stun") /\ Rank(h) \in Nat /\ Rank("stun") = 0
    BY <1>2, <1>3, <1>4, <2>1 DEF Rank
  <2> QED BY <2>2
<1> QED BY <1>2, <1>4, <1>5, <1>6, <1>7, <1>8 DEF Past

(* A step is done: its task is there, and the others are as they were.     *)
LEMMA StepDone ==
    ASSUME Starting, config \in Config, NEW h, At(h), Next1,
           UNCHANGED <<config, tries>>,
           tasks \ {"stun"} \subseteq tasks' \cup died', died \subseteq died',
           h \in Task => h \in tasks' \cup died',
           tasks' \subseteq (tasks \cup {h}) \ {"stun"},
           registered' <=> (registered \/ h = "register")
    PROVE  Starting'
<1>1. Chain(todo, Elements(todo)) /\ todo # <<>> /\ Head(todo) = h /\ todo' = Tail(todo)
  BY DEF Starting, Chain, At, Next1
<1>2. /\ Chain(todo', Elements(todo) \ {h})
      /\ \A b \in Elements(todo) \ {h} : Rank(h) < Rank(b)
  BY <1>1, Advanced
<1>3. /\ todo' \in Seq(Names) /\ Ascending(todo')
      /\ Elements(todo') = Elements(todo) \ {h}
  BY <1>2 DEF Chain
<1>4. h \in Elements(todo) /\ h \in StepSet(config)
  BY AtStep
<1>5. Past' = Past \cup {h}
  BY <1>3, <1>4 DEF Past, Starting
<1>6. Below(Past', Elements(todo'))
  BY <1>2, <1>3, <1>5 DEF Starting, Below
<1>7. "stun" \notin Task
  BY DEF Task, Server, Loop
<1>8. Past' \cap Task \subseteq tasks' \cup died'
  BY <1>5, <1>7 DEF Starting
<1>9. tasks' \subseteq StepSet(config)
  BY <1>4 DEF Starting
<1>10. \A t \in tasks' : (t = "stun" <=> t \in Elements(todo'))
  BY <1>3 DEF Starting
<1>11. registered' <=> "register" \in Past'
  BY <1>5 DEF Starting
<1>12. Elements(todo') \subseteq StepSet(config)
  BY <1>3 DEF Starting
<1> QED BY <1>3, <1>6, <1>8, <1>9, <1>10, <1>11, <1>12 DEF Starting

-----------------------------------------------------------------------------
(* A step of the start that succeeds. *)
LEMMA Onward ==
    ASSUME LifecycleInv, NEW h, At(h), Next1, UNCHANGED <<config, phase, told, tries>>,
           tasks \ {"stun"} \subseteq tasks' \cup died', died \subseteq died',
           h \in Task => h \in tasks' \cup died',
           tasks' \subseteq (tasks \cup {h}) \ {"stun"},
           registered' <=> (registered \/ h = "register"),
           TypeOK', Jobs'
    PROVE  LifecycleInv'
<1>1. phase = "starting" /\ Starting /\ config \in Config
  BY DEF LifecycleInv, At, TypeOK
<1>2. Starting'
  BY <1>1, StepDone
<1> QED BY <1>1, <1>2 DEF LifecycleInv, FailsOnlyByFault, Valid

(* A step that ends the start. *)
LEMMA Over ==
    ASSUME LifecycleInv, phase' = "failed", faults' > 0 \/ Unchecked(config), UNCHANGED config,
           TypeOK', Jobs'
    PROVE  LifecycleInv'
BY DEF LifecycleInv, FailsOnlyByFault, Unchecked

(* A spawned task starts with its predecessors there: the watch task is    *)
(* spawned by an agent that has registered.                                *)
LEMMA SpawnKeeps == ASSUME LifecycleAssumption, LifecycleInv, Spawn PROVE LifecycleInv'
<1>1. PICK t \in Fallible \cup {"clean", "heartbeat", "watch"} :
        At(t) /\ Next1 /\ tasks' = tasks \cup {t}
  BY DEF Spawn
<1>2. UNCHANGED <<config, phase, told, open, registered, tries, waiting, active, died, faults>>
  BY DEF Spawn
<1>3. phase = "starting" /\ Starting /\ config \in Config /\ told = {}
  BY <1>1 DEF LifecycleInv, At, TypeOK
<1>4. t \in Task /\ t \notin {"stun", "register"}
  BY DEF Fallible, Task, Server, Loop
<1>5. "stun" \notin tasks
  BY <1>1, <1>3, <1>4, AtStep
<1>6. TypeOK'
  BY <1>1, <1>2, <1>4 DEF LifecycleInv, TypeOK, At, Next1
<1>7. Jobs'
  <2>1. ASSUME t = "watch" PROVE registered
    <3>1. "register" \in StepSet(config) /\ Rank("register") < Rank("watch")
      BY <1>1, <1>3, <2>1, AtStep, Owners DEF Rank
    <3>2. "register" \in Past
      BY <1>1, <1>3, <2>1, <3>1, AtStep
    <3> QED BY <1>3, <3>2 DEF Starting
  <2> QED BY <1>1, <1>2, <2>1 DEF LifecycleInv, Jobs
<1> QED BY <1>1, <1>2, <1>4, <1>5, <1>6, <1>7, Onward

(* A step finds its port taken only when the configuration gives two       *)
(* sockets one port, and its address bad only when that is a relay's url.  *)
LEMMA SpawnFailKeeps == ASSUME LifecycleAssumption, LifecycleInv, SpawnFail PROVE LifecycleInv'
<1>1. PICK t \in Fallible \cup {"store", "dir"} :
        /\ At(t)
        /\ IF t \in Fallible /\ (Taken(t) \/ BadAddress(config, t)) THEN UNCHANGED faults
           ELSE Fault
  BY DEF SpawnFail
<1>2. Abandon /\ UNCHANGED <<config, tasks, open, registered, tries, waiting, active, died>>
  BY DEF SpawnFail
<1>3. phase = "starting" /\ Starting /\ config \in Config /\ Valid(config)
  BY <1>1 DEF LifecycleInv, At, TypeOK
<1>4. faults \in 0 .. MaxFaults /\ MaxFaults \in Nat
  BY DEF LifecycleInv, TypeOK, LifecycleAssumption
<1>5. faults' > 0 \/ Unchecked(config)
  <2>1. CASE t \in Fallible /\ Taken(t)
    <3>1. PICK u \in tasks : Port(config, u) = Port(config, t)
      BY <2>1 DEF Taken
    <3>2. t # "stun" /\ t # "pong"
      BY <2>1 DEF Fallible
    <3>3. u # "stun" /\ u \in Past /\ u # t /\ u \in StepSet(config) /\ t \in StepSet(config)
          /\ Rank(u) < Rank(t)
      BY <1>1, <1>3, <3>2, AtStep DEF Starting
    <3>4. ~ (u = "pong" /\ t = "data")
      BY <3>3 DEF Rank
    <3>5. config.same /\ ((t = "http" \/ u = "http") \/ (t = "iroh" \/ u = "iroh"))
      BY <3>1, <3>2, <3>3, <3>4 DEF Port
    <3>6. config.program \in {"scheduler", "relay"}
      BY <1>3, <3>3, <3>5, Owners
    <3> QED BY <3>5, <3>6 DEF Unchecked
  <2>2. CASE t \in Fallible /\ BadAddress(config, t)
    <3>1. t \in StepSet(config)
      BY <1>1, <1>3, AtStep
    <3>2. CASE t \in {"grpc", "http"}
      <4>1. config.program = "scheduler"
        BY <1>3, <3>1, <3>2, Owners
      <4> QED BY <1>3, <2>2, <3>2, <4>1 DEF BadAddress, Valid, ValidScheduler
    <3>3. CASE t = "upload"
      <4>1. config.program = "origin"
        BY <1>3, <3>1, <3>3, Owners
      <4> QED BY <1>3, <2>2, <3>3, <4>1 DEF BadAddress, Valid, ValidOrigin
    <3>4. CASE t = "data"
      <4>1. config.program \in {"origin", "agent"}
        BY <1>3, <3>1, <3>4, Owners
      <4>2. config.addr = "good"
        BY <1>3, <4>1 DEF Valid, ValidOrigin, ValidAgent
      <4> QED BY <2>2, <3>4, <4>1, <4>2 DEF BadAddress, Unchecked
    <3>5. t \in {"grpc", "http", "upload", "data"}
      BY <2>2 DEF BadAddress, Fallible
    <3> QED BY <3>2, <3>3, <3>4, <3>5
  <2>3. CASE ~ (t \in Fallible /\ (Taken(t) \/ BadAddress(config, t)))
    BY <1>1, <1>4, <2>3 DEF Fault
  <2> QED BY <2>1, <2>2, <2>3
<1>6. faults' \in 0 .. MaxFaults
  BY <1>1, <1>4 DEF Fault
<1>7. TypeOK'
  BY <1>2, <1>6 DEF LifecycleInv, TypeOK, Abandon
<1>8. Jobs'
  BY <1>2 DEF LifecycleInv, Jobs
<1> QED BY <1>2, <1>5, <1>7, <1>8, Over DEF Abandon

LEMMA SpawnPongKeeps == ASSUME LifecycleAssumption, LifecycleInv, SpawnPong PROVE LifecycleInv'
<1>1. /\ At("pong") /\ Next1
      /\ UNCHANGED <<config, phase, told, open, registered, tries, waiting, active>>
  BY DEF SpawnPong
<1>2. /\ tasks' \subseteq tasks \cup {"pong"} /\ tasks \subseteq tasks'
      /\ died' \subseteq died \cup {"pong"} /\ died \subseteq died'
      /\ "pong" \in tasks' \cup died'
      /\ UNCHANGED faults \/ Fault
  BY DEF SpawnPong
<1>3. phase = "starting" /\ Starting /\ config \in Config
  BY <1>1 DEF LifecycleInv, At, TypeOK
<1>4. "stun" \notin tasks
  BY <1>1, <1>3, AtStep
<1>5. TypeOK'
  <2>1. faults' \in 0 .. MaxFaults
    BY <1>2 DEF LifecycleInv, TypeOK, Fault, LifecycleAssumption
  <2>2. "pong" \in Task
    BY DEF Task, Loop
  <2> QED BY <1>1, <1>2, <2>1, <2>2 DEF LifecycleInv, TypeOK, Next1, At
<1>6. Jobs'
  BY <1>1, <1>2 DEF LifecycleInv, Jobs
<1> QED BY <1>1, <1>2, <1>4, <1>5, <1>6, Onward

(* The probe of STUN is there while its step is the next one, no longer.   *)
LEMMA StunKeeps ==
    ASSUME LifecycleAssumption, LifecycleInv, StunBind \/ StunAnswer \/ StunFail
    PROVE  LifecycleInv'
<1>1. /\ At("stun") /\ phase = "starting" /\ Starting
      /\ config \in Config /\ Valid(config) /\ told = {}
  BY DEF LifecycleInv, At, TypeOK, StunBind, StunAnswer, StunFail
<1>2. "stun" \in StepSet(config) /\ "stun" \in Elements(todo)
  BY <1>1, AtStep
<1>3. "stun" \notin Task /\ "stun" \notin Server
  BY DEF Task, Server, Loop
<1>4. CASE StunBind
  <2>1. /\ tasks' = tasks \cup {"stun"}
        /\ UNCHANGED <<config, phase, todo, told, open, registered, tries, waiting, active,
                       died, faults>>
    BY <1>4 DEF StunBind
  <2>2. TypeOK' /\ Jobs' /\ FailsOnlyByFault'
    BY <2>1, <1>1 DEF LifecycleInv, TypeOK, Jobs, FailsOnlyByFault
  <2>3. Starting'
    BY <1>1, <1>2, <2>1 DEF Starting, Past
  <2> QED BY <1>1, <2>1, <2>2, <2>3 DEF LifecycleInv
<1>5. CASE StunAnswer
  <2>1. /\ tasks' = tasks \ {"stun"} /\ Next1
        /\ UNCHANGED <<config, phase, told, open, registered, tries, waiting, active,
                       died, faults>>
    BY <1>5 DEF StunAnswer
  <2>2. TypeOK' /\ Jobs'
    BY <1>1, <1>3, <2>1 DEF LifecycleInv, TypeOK, Jobs
  <2> QED BY <1>1, <1>3, <2>1, <2>2, Onward
<1>6. CASE StunFail
  <2>1. /\ tasks' = tasks \ {"stun"} /\ told' = {} /\ phase' = "failed"
        /\ UNCHANGED <<config, open, registered, tries, waiting, active, died>>
    BY <1>6 DEF StunFail
  <2>2. ~ BadAddress(config, "stun")
    <3>1. config.program = "agent"
      BY <1>1, <1>2, Owners
    <3> QED BY <1>1, <3>1 DEF BadAddress, Valid, ValidAgent
  <2>3. faults' > 0 /\ faults' \in 0 .. MaxFaults
    BY <1>6, <2>2 DEF StunFail, Fault, LifecycleInv, TypeOK, LifecycleAssumption
  <2>4. TypeOK' /\ Jobs'
    BY <1>3, <2>1, <2>3 DEF LifecycleInv, TypeOK, Jobs
  <2> QED BY <2>1, <2>3, <2>4, Over
<1> QED BY <1>4, <1>5, <1>6

(* Steps that spawn no task: store and dir, connect, the lock file, build  *)
(* and send.                                                               *)
LEMMA QuietKeeps ==
    ASSUME LifecycleAssumption, LifecycleInv, Prepare \/ Connect \/ TakeLock \/ Produce
    PROVE  LifecycleInv'
<1> DEFINE h == Head(todo)
<1>1. /\ At(h) /\ Next1 /\ h \in {"store", "dir", "connect", "lock", "build", "send"}
      /\ tasks' = tasks \/ (h = "lock" /\ tasks' = tasks \cup {"lock"})
      /\ UNCHANGED <<config, phase, told, open, registered, tries, waiting, active, died, faults>>
  BY DEF Prepare, Connect, TakeLock, Produce, At
<1> HIDE DEF h
<1>2. phase = "starting" /\ Starting /\ config \in Config
  BY <1>1 DEF LifecycleInv, At, TypeOK
<1>3. "stun" \notin tasks
  BY <1>1, <1>2, AtStep
<1>4. h \notin Task
  BY <1>1 DEF Task, Server, Loop
<1>5. TypeOK' /\ Jobs'
  BY <1>1, <1>2 DEF LifecycleInv, TypeOK, Jobs
<1> QED BY <1>1, <1>3, <1>4, <1>5, Onward

LEMMA ConnectMissKeeps == ASSUME LifecycleAssumption, LifecycleInv, ConnectMiss PROVE LifecycleInv'
<1>1. /\ At("connect") /\ tries' = tries + 1
      /\ IF config.control = "bad" THEN UNCHANGED faults ELSE Fault
      /\ IF tries' = Attempts THEN Abandon ELSE UNCHANGED <<phase, todo, told>>
      /\ UNCHANGED <<config, tasks, open, registered, waiting, active, died>>
  BY DEF ConnectMiss
<1>2. phase = "starting" /\ Starting /\ config \in Config
  BY <1>1 DEF LifecycleInv, At, TypeOK
<1>3. faults' \in 0 .. MaxFaults /\ tries' \in 0 .. Attempts
  BY <1>1, <1>2 DEF Fault, LifecycleInv, TypeOK, LifecycleAssumption, Starting
<1>4. faults' > 0 \/ Unchecked(config)
  <2>1. CASE config.control = "bad"
    <3>1. config.program = "agent"
      BY <1>1, <1>2, AtStep, Owners
    <3> QED BY <2>1, <3>1 DEF Unchecked
  <2>2. CASE config.control # "bad"
    BY <1>1, <2>2 DEF Fault, LifecycleInv, TypeOK, LifecycleAssumption
  <2> QED BY <2>1, <2>2
<1>5. TypeOK' /\ Jobs'
  BY <1>1, <1>2, <1>3 DEF LifecycleInv, TypeOK, Jobs, Abandon
<1>6. CASE tries' = Attempts
  BY <1>1, <1>4, <1>5, <1>6, Over DEF Abandon
<1>7. CASE tries' # Attempts
  <2>1. Starting'
    <3>1. tries' < Attempts
      BY <1>3, <1>7 DEF LifecycleAssumption
    <3> QED BY <1>1, <1>2, <1>7, <3>1 DEF Starting, Past
  <2> QED BY <1>1, <1>2, <1>5, <1>7, <2>1 DEF LifecycleInv, FailsOnlyByFault
<1> QED BY <1>6, <1>7

(* Nothing runs for the scheduler before the agent has registered. *)
LEMMA RegisterKeeps ==
    ASSUME LifecycleAssumption, LifecycleInv, Register \/ RegisterFail PROVE LifecycleInv'
<1>1. At("register") /\ phase = "starting" /\ Starting /\ config \in Config
  BY DEF LifecycleInv, At, TypeOK, Register, RegisterFail
<1>2. "register" \notin Past /\ "stun" \notin tasks
  BY <1>1, AtStep
<1>3. ~ registered /\ waiting = 0 /\ active = 0 /\ "watch" \notin tasks
  BY <1>1, <1>2 DEF Starting, LifecycleInv, Jobs
<1>4. CASE Register
  <2>1. /\ Next1 /\ registered' = TRUE /\ waiting' \in 0 .. MaxJobs
        /\ UNCHANGED <<config, phase, tasks, told, open, tries, active, died, faults>>
    BY <1>4 DEF Register
  <2>2. TypeOK' /\ Jobs'
    <3>1. waiting' + active' <= MaxJobs
      <4>1. active' \in Nat /\ active' <= 0
        BY <1>3, <2>1
      <4>2. waiting' \in 0 .. MaxJobs /\ MaxJobs \in Nat
        BY <2>1 DEF LifecycleAssumption
      <4>3. \A w, a \in Nat : w <= MaxJobs /\ a <= 0 => w + a <= MaxJobs
        BY <4>2
      <4>4. waiting' \in Nat /\ waiting' <= MaxJobs
        BY <4>2
      <4> QED BY <4>1, <4>3, <4>4, Zenon
    <3>2. registered' \in BOOLEAN
      BY <2>1
    <3>3. TypeOK'
      BY <2>1, <3>1, <3>2 DEF LifecycleInv, TypeOK
    <3>4. Jobs'
      BY <2>1 DEF Jobs
    <3> QED BY <3>3, <3>4
  <2>3. "register" \notin Task
    BY DEF Task, Server, Loop
  <2> QED BY <1>1, <1>2, <2>1, <2>2, <2>3, Onward
<1>5. CASE RegisterFail
  <2>1. /\ Fault /\ Abandon /\ registered' \in BOOLEAN
        /\ UNCHANGED <<config, tasks, open, tries, waiting, active, died>>
    BY <1>5 DEF RegisterFail
  <2>2. faults' > 0 /\ faults' \in 0 .. MaxFaults
    BY <2>1 DEF Fault, LifecycleInv, TypeOK, LifecycleAssumption
  <2>3. TypeOK' /\ Jobs'
    BY <1>3, <2>1, <2>2 DEF LifecycleInv, TypeOK, Jobs, Abandon
  <2> QED BY <2>1, <2>2, <2>3, Over DEF Abandon
<1> QED BY <1>4, <1>5

LEMMA ProducerFailKeeps ==
    ASSUME LifecycleAssumption, LifecycleInv, ProducerFail PROVE LifecycleInv'
<1>1. /\ At("lock") \/ At("build") \/ At("send")
      /\ \/ At("build") /\ ~config.files /\ UNCHANGED faults
         \/ /\ At("send") /\ (config.upload = "bad" \/ config.max > MessageLimit)
            /\ UNCHANGED faults
         \/ Fault
      /\ phase' = "failed" /\ tasks' = tasks \ {"lock"}
      /\ UNCHANGED <<config, told, open, registered, tries, waiting, active, died>>
  BY DEF ProducerFail
<1>2. phase = "starting" /\ Starting /\ config \in Config /\ told = {}
  BY <1>1 DEF LifecycleInv, At, TypeOK
<1>3. faults' \in 0 .. MaxFaults
  BY <1>1 DEF Fault, LifecycleInv, TypeOK, LifecycleAssumption
<1>4. faults' > 0 \/ Unchecked(config)
  <2>1. CASE At("build") /\ ~ config.files
    <3>1. config.program = "producer"
      BY <1>2, <2>1, AtStep, Owners
    <3> QED BY <2>1, <3>1 DEF Unchecked
  <2>2. CASE At("send") /\ (config.upload = "bad" \/ config.max > MessageLimit)
    <3>1. "send" \in StepSet(config)
      BY <1>2, <2>2, AtStep
    <3>2. config.program = "producer" /\ config.upload # "none"
      BY <1>2, <3>1, Owners
    <3>3. config \in ProducerConfig
      BY <1>2, <3>2 DEF Config, SchedulerConfig, OriginConfig, AgentConfig, RelayConfig
    <3>4. config.upload \in {"good", "bad"}
      BY <3>2, <3>3 DEF ProducerConfig
    <3> QED BY <2>2, <3>2, <3>4 DEF Unchecked
  <2>3. CASE Fault
    BY <2>3 DEF Fault, LifecycleInv, TypeOK, LifecycleAssumption
  <2> QED BY <1>1, <2>1, <2>2, <2>3
<1>5. TypeOK' /\ Jobs'
  <2>1. "lock" \notin Server
    BY DEF Server
  <2> QED BY <1>1, <1>2, <1>3, <2>1 DEF LifecycleInv, TypeOK, Jobs
<1> QED BY <1>1, <1>4, <1>5, Over

LEMMA ProducedKeeps == ASSUME LifecycleAssumption, LifecycleInv, Produced PROVE LifecycleInv'
<1>1. "lock" \notin Server
  BY DEF Server
<1>2. phase = "starting" /\ told = {}
  BY DEF LifecycleInv, Produced
<1>3. TypeOK' /\ Jobs'
  BY <1>1, <1>2 DEF LifecycleInv, TypeOK, Jobs, Produced
<1> QED BY <1>3 DEF LifecycleInv, Produced, FailsOnlyByFault

(* When no step is left, every step has been done. *)
LEMMA ReadyKeeps == ASSUME LifecycleAssumption, LifecycleInv, Ready PROVE LifecycleInv'
<1>1. /\ phase = "starting" /\ todo = <<>> /\ phase' = "running" /\ Starting
      /\ UNCHANGED <<config, todo, tasks, told, open, registered, tries, waiting, active,
                     died, faults>>
  BY DEF Ready, LifecycleInv
<1>2. Past = StepSet(config)
  BY <1>1 DEF Past, Elements
<1>3. Running
  BY <1>1, <1>2 DEF Starting, Running
<1>4. TypeOK' /\ Jobs' /\ Running'
  BY <1>1, <1>3 DEF LifecycleInv, TypeOK, Jobs, Running
<1> QED BY <1>1, <1>4 DEF LifecycleInv, FailsOnlyByFault

LEMMA LoadKeeps == ASSUME LifecycleAssumption, LifecycleInv, Load PROVE LifecycleInv'
<1>1. /\ phase = "load" /\ Loading /\ config \in Config /\ told = {}
      /\ UNCHANGED <<config, tasks, told, open, registered, tries, waiting, active, died, faults>>
  BY DEF Load, LifecycleInv, TypeOK
<1>2. TypeOK' /\ Jobs' /\ FailsOnlyByFault'
  BY <1>1 DEF Load, LifecycleInv, TypeOK, Jobs, FailsOnlyByFault
<1>3. CASE Valid(config) /\ phase' = "starting" /\ todo' = Steps(config)
  <2>1. Chain(todo', StepSet(config))
    BY <1>1, <1>3, StepsChain
  <2>2. Past' = {}
    BY <1>1, <2>1 DEF Past, Chain
  <2>3. Starting'
    BY <1>1, <2>1, <2>2 DEF Starting, Chain, Below, Loading, LifecycleAssumption
  <2> QED BY <1>1, <1>2, <1>3, <2>3 DEF LifecycleInv
<1>4. CASE phase' = "rejected"
  BY <1>1, <1>2, <1>4 DEF LifecycleInv
<1> QED BY <1>3, <1>4 DEF Load

-----------------------------------------------------------------------------
(* A task is told to end only after the program has run. *)
LEMMA EndKeeps ==
    ASSUME LifecycleAssumption, LifecycleInv, NEW t \in Task, End(t) PROVE LifecycleInv'
<1>1. /\ t \in tasks \cap told /\ t \notin open \cap Server
      /\ tasks' = tasks \ {t} /\ told' = told \ {t}
      /\ UNCHANGED <<config, phase, todo, open, registered, tries, waiting, active, died, faults>>
  BY DEF End
<1>2. phase \notin {"load", "starting", "running"}
  BY <1>1 DEF LifecycleInv
<1>3. TypeOK' /\ Jobs' /\ FailsOnlyByFault'
  BY <1>1 DEF LifecycleInv, TypeOK, Jobs, FailsOnlyByFault
<1> QED BY <1>1, <1>2, <1>3 DEF LifecycleInv

(* The period that validate accepts is not zero, so keepalive never dies   *)
(* of it; the other tasks that die are recorded.                           *)
LEMMA DieKeeps == ASSUME LifecycleAssumption, LifecycleInv, Die PROVE LifecycleInv'
<1>1. PICK t \in tasks :
        /\ Dies(t)
        /\ IF t = "keepalive" THEN UNCHANGED <<died, faults>> ELSE Fault /\ died' = died \cup {t}
        /\ tasks' = tasks \ {t} /\ told' = told \ {t}
        /\ UNCHANGED <<config, phase, todo, open, registered, tries, waiting, active>>
  BY DEF Die
<1>2. t \in {"pong", "echo", "keepalive"} /\ t \notin Server /\ t # "stun"
  BY <1>1 DEF Dies, Server
<1>3. faults' \in 0 .. MaxFaults /\ faults' >= faults
  BY <1>1 DEF Fault, LifecycleInv, TypeOK, LifecycleAssumption
<1>4. died' \subseteq {"pong", "echo"} /\ died \subseteq died'
  BY <1>1, <1>2 DEF LifecycleInv, TypeOK
<1>5. TypeOK' /\ Jobs'
  BY <1>1, <1>2, <1>3, <1>4 DEF LifecycleInv, TypeOK, Jobs
<1>6. FailsOnlyByFault'
  <2>1. faults \in Nat /\ faults' \in Nat
    BY <1>3 DEF LifecycleInv, TypeOK
  <2> QED BY <1>1, <1>3, <2>1 DEF LifecycleInv, FailsOnlyByFault
<1>7. phase # "load"
  BY DEF LifecycleInv, Loading
<1>8. ASSUME phase \in {"starting", "running"} PROVE t # "keepalive"
  <2>1. ASSUME t = "keepalive" PROVE FALSE
    <3>1. config \in Config /\ "keepalive" \in StepSet(config) /\ Valid(config)
      BY <1>8, <2>1 DEF LifecycleInv, TypeOK, Starting, Running
    <3>2. config.program = "scheduler"
      BY <3>1, Owners
    <3>3. config.interval > 0 /\ config.interval = 0
      BY <1>1, <2>1, <3>1, <3>2 DEF Valid, ValidScheduler, Dies
    <3> QED BY <3>3
  <2> QED BY <2>1
<1>9. ASSUME phase \in {"starting", "running"}
      PROVE  tasks' \cup died' = tasks \cup died /\ tasks' \subseteq tasks /\ told' = {}
  BY <1>1, <1>8, <1>9 DEF LifecycleInv
<1>10. ASSUME phase = "starting" PROVE Starting'
  BY <1>1, <1>9, <1>10 DEF LifecycleInv, Starting, Past
<1>11. ASSUME phase = "running" PROVE Running'
  BY <1>1, <1>9, <1>11 DEF LifecycleInv, Running
<1> QED BY <1>1, <1>5, <1>6, <1>7, <1>9, <1>10, <1>11 DEF LifecycleInv

(* Clients and jobs leave the program alone. *)
LEMMA OutsideKeeps ==
    ASSUME LifecycleAssumption, LifecycleInv,
           Open \/ Close \/ Receive \/ Acquire \/ JobEnd
    PROVE  LifecycleInv'
<1>1. UNCHANGED <<config, phase, todo, tasks, told, registered, tries, died, faults>>
  BY DEF Open, Close, Receive, Acquire, JobEnd
<1>2. open' \subseteq Server \cup {"data"} /\ open' \cap Server \subseteq tasks
  BY DEF Open, Close, Receive, Acquire, JobEnd, LifecycleInv, TypeOK
<1>3. waiting' \in 0 .. MaxJobs /\ active' \in 0 .. MaxJobs /\ waiting' + active' <= MaxJobs
  BY DEF Open, Close, Receive, Acquire, JobEnd, LifecycleInv, TypeOK, LifecycleAssumption
<1>4. ~ registered => waiting' = 0 /\ active' = 0
  BY DEF Open, Close, Receive, Acquire, JobEnd, LifecycleInv, Jobs
<1>5. TypeOK' /\ Jobs' /\ FailsOnlyByFault'
  BY <1>1, <1>2, <1>3, <1>4 DEF LifecycleInv, TypeOK, Jobs, FailsOnlyByFault
<1>6. /\ phase = "starting" => Starting'
      /\ phase = "running" => Running'
      /\ phase = "load" => Loading'
  BY <1>1 DEF LifecycleInv, Starting, Past, Running, Loading
<1> QED BY <1>1, <1>5, <1>6 DEF LifecycleInv

LEMMA StopKeeps ==
    ASSUME LifecycleAssumption, LifecycleInv,
           Stop \/ Send \/ Await \/ AwaitError \/ Stopped
    PROVE  LifecycleInv'
<1>1. UNCHANGED <<config, tasks, open, registered, tries, waiting, active, died>>
  BY DEF Stop, Send, Await, AwaitError, Stopped
<1>2. /\ phase' \in {"stopping", "failed", "stopped"} /\ told' \subseteq tasks
      /\ faults' \in 0 .. MaxFaults /\ (phase' = "failed" => faults' > 0)
  <2>1. faults \in 0 .. MaxFaults /\ MaxFaults \in Nat /\ told \subseteq tasks
    BY DEF LifecycleInv, TypeOK, LifecycleAssumption
  <2> QED BY <2>1 DEF Stop, Send, Await, AwaitError, Stopped, Fault, Abandon
<1>3. TypeOK' /\ Jobs' /\ FailsOnlyByFault'
  BY <1>1, <1>2 DEF LifecycleInv, TypeOK, Jobs, FailsOnlyByFault
<1> QED BY <1>2, <1>3 DEF LifecycleInv

LEMMA LifecycleInvInductive ==
    ASSUME LifecycleAssumption, LifecycleInv, [Next]_vars PROVE LifecycleInv'
<1>1. CASE UNCHANGED vars
  BY <1>1 DEF vars, LifecycleInv, TypeOK, FailsOnlyByFault, Jobs, Loading, Starting, Running, Past
<1>2. CASE Progress
  BY <1>2, QuietKeeps, SpawnKeeps, SpawnPongKeeps, StunKeeps, RegisterKeeps, ReadyKeeps,
     ProducedKeeps, StopKeeps DEF Progress
<1>3. CASE Next /\ ~ Progress
  BY <1>3, LoadKeeps, SpawnFailKeeps, StunKeeps, ConnectMissKeeps, RegisterKeeps,
     ProducerFailKeeps, EndKeeps, DieKeeps, OutsideKeeps, StopKeeps DEF Next
<1> QED BY <1>1, <1>2, <1>3

LEMMA LifecycleInvInitial == ASSUME LifecycleAssumption, Init PROVE LifecycleInv
<1>1. Loading /\ Jobs /\ FailsOnlyByFault
  BY DEF Init, Loading, Jobs, FailsOnlyByFault
<1>2. /\ tries \in 0 .. Attempts /\ faults \in 0 .. MaxFaults
      /\ waiting \in 0 .. MaxJobs /\ active \in 0 .. MaxJobs /\ waiting + active <= MaxJobs
  BY DEF Init, LifecycleAssumption
<1>3. registered \in BOOLEAN
  BY DEF Init
<1>4. TypeOK
  BY <1>2, <1>3 DEF Init, TypeOK
<1> QED BY <1>1, <1>4 DEF Init, LifecycleInv

LEMMA LifecycleInvAlways == Spec => []LifecycleInv
<1>1. Init => LifecycleInv
  BY LifecycleAssumption, LifecycleInvInitial
<1>2. LifecycleInv /\ [Next]_vars => LifecycleInv'
  BY LifecycleAssumption, LifecycleInvInductive
<1> QED BY <1>1, <1>2, PTL DEF Spec

(* The type invariant: no more senders than tasks, no connection of a      *)
(* server that does not run, and no more jobs than were given, in any      *)
(* phase of any program (the channels and handles of lib.rs).              *)
THEOREM LifecycleTypeOK == Spec => []TypeOK
BY LifecycleInvAlways, PTL DEF LifecycleInv

(* run and start of an accepted configuration fail only when the system    *)
(* around the program does or the configuration is Unchecked: two sockets  *)
(* on one port, a relay url, control_addr or producer's origin of no use,  *)
(* no files, chunks too large.  In every other configuration no step finds *)
(* its port held by an earlier one, the STUN probe's socket included       *)
(* (lib.rs of each program, stun.rs).                                      *)
THEOREM FailsAlwaysByFault == Spec => []FailsOnlyByFault
BY LifecycleInvAlways, PTL DEF LifecycleInv

(* A program that runs has every task its configuration asks for, but what *)
(* an I/O error has ended: no accepted value makes a loop panic.           *)
THEOREM RunningAlwaysWhole == Spec => []RunningWhole
<1>1. ASSUME LifecycleInv PROVE RunningWhole
  <2> SUFFICES ASSUME phase = "running", NEW i \in DOMAIN Steps(config), Steps(config)[i] \in Task
               PROVE  Steps(config)[i] \in tasks \cup died
    BY DEF RunningWhole
  <2>1. Steps(config)[i] \in StepSet(config)
    BY <1>1, Owners DEF LifecycleInv, TypeOK, Elements
  <2> QED BY <1>1, <2>1 DEF LifecycleInv, Running
<1>2. LifecycleInv => RunningWhole
  BY <1>1
<1> QED BY <1>2, LifecycleInvAlways, PTL

(* An agent the scheduler knows of serves: from the registration on its    *)
(* data path listens at the address it announced, and the probed address   *)
(* answers unless its socket was lost (start of the agent's lib.rs).       *)
THEOREM AnnouncedAlwaysServed == Spec => []AnnouncedServed
<1>1. ASSUME LifecycleInv, registered, phase \in {"starting", "running"}
      PROVE  "data" \in tasks /\ (config.pong => "pong" \in tasks \cup died)
  <2>1. config \in Config /\ died \subseteq {"pong", "echo"}
    BY <1>1 DEF LifecycleInv, TypeOK
  <2>2. "register" \in StepSet(config)
    BY <1>1 DEF LifecycleInv, Starting, Running, Past
  <2>3. "data" \in StepSet(config) /\ (config.pong => "pong" \in StepSet(config))
    BY <2>1, <2>2, Owners
  <2>4. "data" \in Task /\ "pong" \in Task
    BY DEF Task, Loop
  <2>5. CASE phase = "running"
    BY <1>1, <2>1, <2>3, <2>4, <2>5 DEF LifecycleInv, Running
  <2>6. CASE phase = "starting"
    <3>1. Starting /\ "register" \in Past
      BY <1>1, <2>6 DEF LifecycleInv, Starting
    <3>2. \A b \in Elements(todo) : Rank("register") < Rank(b)
      BY <3>1 DEF Starting, Below
    <3>3. "data" \notin Elements(todo) /\ "pong" \notin Elements(todo)
      BY <3>2 DEF Rank
    <3> QED BY <2>1, <2>3, <2>4, <3>1, <3>3 DEF Starting, Past
  <2> QED BY <1>1, <2>5, <2>6
<1>2. LifecycleInv => AnnouncedServed
  BY <1>1 DEF AnnouncedServed
<1> QED BY <1>2, LifecycleInvAlways, PTL
=============================================================================
