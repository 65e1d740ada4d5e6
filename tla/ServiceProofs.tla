--------------------------- MODULE ServiceProofs ---------------------------
(***************************************************************************)
(* Proofs about the goroutines that serve the players: those of their      *)
(* connections and the one that pushes to them (Hub), for any players and  *)
(* connections, and the loop of the latter, a delay queue's consumer       *)
(* (DelayQueue), for any requests, delays and longest sleep.               *)
(***************************************************************************)
EXTENDS Hub, DelayQueue, TLAPS

Serving(c) == pc[c] \in {"reading", "unregister"}

\* Two connections of a player that are in use at once have crossed: one was
\* registered while the other was served, or was pushed to.
Crossings ==
    \A c, d \in Conns : c # d /\ Owner[c] = Owner[d] /\ Serving(c) =>
        /\ Serving(d) => c \in crossed
        /\ pushing # "idle" /\ target = d => c \in crossed

\* A push is to a connection that was open, and gives up one that is not.
GivenUp ==
    /\ pushing # "idle" => pc[target] # "start"
    /\ pushing \in {"unregister", "close"} => sock[target] # "open"

\* Connections are upgraded by their handlers alone.
Upgraded == \A c \in Conns : pc[c] = "start" <=> sock[c] = "new"

\* A connection that has crossed no other is registered while it is served,
\* but for one that a push has given up.
Registered ==
    \A c \in Conns :
        Serving(c) /\ sock[c] = "open" /\ c \notin crossed => clients[Owner[c]] = c

IInv == TypeOK /\ RegisteredIsServed /\ Crossings /\ GivenUp /\ Upgraded /\ Registered

\* The invariant holds at the start.
LEMMA InitInv == Init => IInv
  BY NoneAssumption
  DEF Init, IInv, TypeOK, RegisteredIsServed, Crossings, GivenUp, Upgraded, Registered, Serving

\* A new connection is open, and nobody's yet.
LEMMA UpgradeKeepsInv ==
    ASSUME IInv, NEW c \in Conns, Upgrade(c)
    PROVE  IInv'
<1>1. /\ pc[c] = "start" /\ sock[c] = "new"
      /\ sock' = [sock EXCEPT ![c] = "open"]
      /\ pc' = [pc EXCEPT ![c] = "register"]
      /\ UNCHANGED <<clients, pushing, target, crossed>>
  BY DEF IInv, Upgraded, Upgrade
<1>2. TypeOK'
  BY <1>1 DEF IInv, TypeOK
<1>3. \A d \in Conns : Serving(d)' <=> Serving(d)
  BY <1>1 DEF IInv, TypeOK, Serving
<1>4. RegisteredIsServed'
  BY <1>1, <1>3 DEF IInv, TypeOK, RegisteredIsServed, Serving
<1>5. Crossings'
  BY <1>1, <1>3 DEF IInv, Crossings
<1>6. GivenUp'
  <2>1. pushing # "idle" => target # c /\ target \in Conns
    BY <1>1 DEF IInv, TypeOK, GivenUp
  <2> QED BY <1>1, <2>1 DEF IInv, TypeOK, GivenUp
<1>7. Upgraded' /\ Registered'
  BY <1>1, <1>3 DEF IInv, TypeOK, Upgraded, Registered, Serving
<1> QED BY <1>2, <1>4, <1>5, <1>6, <1>7 DEF IInv

\* A connection that is registered while another is in use crosses it.
LEMMA RegisterKeepsInv ==
    ASSUME IInv, NEW c \in Conns, Register(c)
    PROVE  IInv'
<1>1. /\ pc[c] = "register"
      /\ clients' = [clients EXCEPT ![Owner[c]] = c]
      /\ crossed' = IF Served(c) # {} \/ PushedPast(c)
                    THEN crossed \cup Served(c) \cup {c} ELSE crossed
      /\ pc' = [pc EXCEPT ![c] = "reading"]
      /\ UNCHANGED <<sock, pushing, target>>
      /\ Owner[c] \in Players
  BY OwnerAssumption DEF Register
<1>2. TypeOK'
  BY <1>1 DEF IInv, TypeOK, Served
<1>3. /\ Serving(c)' /\ ~Serving(c)
      /\ \A d \in Conns \ {c} : Serving(d)' <=> Serving(d)
  BY <1>1 DEF IInv, TypeOK, Serving
<1>4. RegisteredIsServed'
  <2> SUFFICES ASSUME NEW u \in Players, clients'[u] # None
               PROVE  Owner[clients'[u]] = u /\ pc'[clients'[u]] \in {"reading", "unregister"}
    BY DEF RegisteredIsServed
  <2>1. CASE u = Owner[c]
    BY <1>1, <1>3, <2>1 DEF IInv, TypeOK
  <2>2. CASE u # Owner[c]
    BY <1>1, <1>3, <2>2 DEF IInv, TypeOK, RegisteredIsServed, Serving
  <2> QED BY <2>1, <2>2
<1>5. Crossings'
  <2> SUFFICES ASSUME NEW d \in Conns, NEW e \in Conns, d # e, Owner[d] = Owner[e], Serving(d)'
               PROVE  /\ Serving(e)' => d \in crossed'
                      /\ pushing # "idle" /\ target = e => d \in crossed'
    BY <1>1 DEF Crossings
  <2>1. crossed \subseteq crossed'
    BY <1>1
  <2>2. CASE d = c
    <3>1. Serving(e) => e \in Served(c)
      BY <2>2 DEF Served, Serving
    <3>2. pushing # "idle" /\ target = e => PushedPast(c)
      BY <2>2 DEF PushedPast
    <3> QED BY <1>1, <1>3, <2>2, <3>1, <3>2
  <2>3. CASE d # c
    <3>1. Serving(d)
      BY <1>3, <2>3
    <3>2. e = c => d \in Served(c)
      BY <2>3, <3>1 DEF Served, Serving
    <3> QED BY <1>1, <1>3, <2>1, <2>3, <3>1, <3>2 DEF IInv, Crossings
  <2> QED BY <2>2, <2>3
<1>6. GivenUp' /\ Upgraded'
  BY <1>1 DEF IInv, TypeOK, GivenUp, Upgraded
<1>7. Registered'
  <2> SUFFICES ASSUME NEW d \in Conns, Serving(d)', sock[d] = "open", d \notin crossed'
               PROVE  clients'[Owner[d]] = d
    BY <1>1 DEF Registered
  <2>1. CASE d = c
    BY <1>1, <2>1 DEF IInv, TypeOK
  <2>2. CASE d # c
    <3>1. Serving(d) /\ d \notin crossed
      BY <1>1, <1>3, <2>2
    <3>2. Owner[d] # Owner[c]
      BY <1>1, <2>2, <3>1 DEF Served, Serving
    <3> QED BY <1>1, <3>1, <3>2, OwnerAssumption DEF IInv, TypeOK, Registered
  <2> QED BY <2>1, <2>2
<1> QED BY <1>2, <1>4, <1>5, <1>6, <1>7 DEF IInv

\* A handler that stops reading still serves its connection, and one that has
\* unregistered serves it no more.
LEMMA HandlerKeepsInv ==
    ASSUME IInv, NEW c \in Conns, ReadFails(c) \/ Close(c) \/ PeerLost(c)
    PROVE  IInv'
<1>1. /\ UNCHANGED <<clients, pushing, target, crossed>>
      /\ pc' \in [Conns -> {"start", "register", "reading", "unregister", "close", "done"}]
      /\ sock' \in [Conns -> {"new", "open", "lost", "closed"}]
      /\ \A d \in Conns : /\ Serving(d)' <=> Serving(d)
                          /\ pc'[d] = "start" <=> pc[d] = "start"
                          /\ sock'[d] = "new" <=> sock[d] = "new"
                          /\ sock'[d] = "open" => sock[d] = "open"
  <2>1. CASE ReadFails(c)
    BY <2>1 DEF IInv, TypeOK, ReadFails, Serving
  <2>2. CASE Close(c)
    BY <2>2 DEF IInv, TypeOK, Close, Serving, Upgraded
  <2>3. CASE PeerLost(c)
    BY <2>3 DEF IInv, TypeOK, PeerLost, Serving
  <2> QED BY <2>1, <2>2, <2>3
<1>2. TypeOK'
  BY <1>1 DEF IInv, TypeOK
<1>3. RegisteredIsServed' /\ Crossings'
  BY <1>1 DEF IInv, TypeOK, RegisteredIsServed, Crossings, Serving
<1>4. GivenUp'
  <2>1. pushing # "idle" => target \in Conns
    BY DEF IInv, TypeOK
  <2> QED BY <1>1, <2>1 DEF IInv, GivenUp
<1>5. Upgraded' /\ Registered'
  BY <1>1 DEF IInv, Upgraded, Registered
<1> QED BY <1>2, <1>3, <1>4, <1>5 DEF IInv

\* The handler that unregisters serves, so it has crossed whom it removes.
LEMMA UnregisterKeepsInv ==
    ASSUME IInv, NEW c \in Conns, Unregister(c)
    PROVE  IInv'
<1>1. /\ pc[c] = "unregister"
      /\ clients' = [clients EXCEPT ![Owner[c]] = None]
      /\ pc' = [pc EXCEPT ![c] = "close"]
      /\ UNCHANGED <<sock, pushing, target, crossed>>
      /\ Owner[c] \in Players
  BY OwnerAssumption DEF Unregister
<1>2. TypeOK'
  BY <1>1 DEF IInv, TypeOK
<1>3. /\ Serving(c) /\ ~Serving(c)'
      /\ \A d \in Conns \ {c} : Serving(d)' <=> Serving(d)
  BY <1>1 DEF IInv, TypeOK, Serving
<1>4. RegisteredIsServed'
  <2> SUFFICES ASSUME NEW u \in Players, clients'[u] # None
               PROVE  Owner[clients'[u]] = u /\ pc'[clients'[u]] \in {"reading", "unregister"}
    BY DEF RegisteredIsServed
  <2>1. u # Owner[c] /\ clients'[u] = clients[u]
    BY <1>1 DEF IInv, TypeOK
  <2> QED BY <1>3, <2>1 DEF IInv, TypeOK, RegisteredIsServed, Serving
<1>5. Crossings'
  BY <1>1, <1>3 DEF IInv, Crossings
<1>6. GivenUp' /\ Upgraded'
  BY <1>1 DEF IInv, TypeOK, GivenUp, Upgraded
<1>7. Registered'
  <2> SUFFICES ASSUME NEW d \in Conns, Serving(d)', sock[d] = "open", d \notin crossed
               PROVE  clients'[Owner[d]] = d
    BY <1>1 DEF Registered
  <2>1. d # c /\ Serving(d)
    BY <1>3
  <2>2. Owner[d] # Owner[c]
    BY <1>3, <2>1 DEF IInv, Crossings
  <2> QED BY <1>1, <2>1, <2>2, OwnerAssumption DEF IInv, TypeOK, Registered
<1> QED BY <1>2, <1>4, <1>5, <1>6, <1>7 DEF IInv

\* The connection a push finds is served, so it has crossed the others.
LEMMA LookupKeepsInv ==
    ASSUME IInv, NEW u \in Players, Lookup(u)
    PROVE  IInv'
<1>1. /\ clients[u] \in Conns /\ target' = clients[u]
      /\ pushing' = "write"
      /\ UNCHANGED <<clients, sock, pc, crossed>>
      /\ Serving(clients[u])
  BY DEF IInv, TypeOK, RegisteredIsServed, Serving, Lookup
<1>2. TypeOK'
  BY <1>1, NoneAssumption DEF IInv, TypeOK
<1>3. RegisteredIsServed' /\ Upgraded' /\ Registered'
  BY <1>1 DEF IInv, RegisteredIsServed, Upgraded, Registered, Serving
<1>4. Crossings' /\ GivenUp'
  BY <1>1 DEF IInv, Crossings, GivenUp, Serving
<1> QED BY <1>2, <1>3, <1>4 DEF IInv

\* A push that ends, or finds out that its connection is not open.
LEMMA WriteKeepsInv ==
    ASSUME IInv, WriteDone \/ WriteFails
    PROVE  IInv'
<1>1. /\ UNCHANGED <<clients, sock, pc, crossed>>
      /\ pushing = "write"
      /\ \/ pushing' = "idle" /\ target' = None
         \/ pushing' = "unregister" /\ target' = target /\ sock[target] # "open"
  BY DEF WriteDone, WriteFails
<1>2. TypeOK' /\ GivenUp'
  BY <1>1 DEF IInv, TypeOK, GivenUp
<1>3. RegisteredIsServed' /\ Upgraded' /\ Registered' /\ Crossings'
  BY <1>1 DEF IInv, RegisteredIsServed, Upgraded, Registered, Crossings, Serving
<1> QED BY <1>2, <1>3 DEF IInv

\* The push that gives up its connection has crossed whom else it removes.
LEMMA PushUnregisterKeepsInv ==
    ASSUME IInv, PushUnregister
    PROVE  IInv'
<1>1. /\ pushing = "unregister" /\ target \in Conns
      /\ clients' = [clients EXCEPT ![Owner[target]] = None]
      /\ pushing' = "close"
      /\ UNCHANGED <<sock, pc, target, crossed>>
      /\ sock[target] # "open"
  BY DEF IInv, TypeOK, GivenUp, PushUnregister
<1>2. TypeOK'
  BY <1>1, OwnerAssumption DEF IInv, TypeOK
<1>3. RegisteredIsServed'
  <2> SUFFICES ASSUME NEW u \in Players, clients'[u] # None
               PROVE  Owner[clients'[u]] = u /\ pc[clients'[u]] \in {"reading", "unregister"}
    BY <1>1 DEF RegisteredIsServed
  <2>1. clients'[u] = clients[u]
    BY <1>1 DEF IInv, TypeOK
  <2> QED BY <2>1 DEF IInv, RegisteredIsServed
<1>4. Crossings' /\ GivenUp' /\ Upgraded'
  BY <1>1 DEF IInv, Crossings, GivenUp, Upgraded, Serving
<1>5. Registered'
  <2> SUFFICES ASSUME NEW d \in Conns, Serving(d), sock[d] = "open", d \notin crossed
               PROVE  clients'[Owner[d]] = d
    BY <1>1 DEF Registered, Serving
  <2>1. d # target
    BY <1>1
  <2>2. Owner[d] # Owner[target]
    BY <1>1, <2>1 DEF IInv, Crossings
  <2> QED BY <1>1, <2>2, OwnerAssumption DEF IInv, TypeOK, Registered
<1> QED BY <1>2, <1>3, <1>4, <1>5 DEF IInv

\* The connection a push has given up is closed.
LEMMA PushCloseKeepsInv ==
    ASSUME IInv, PushClose
    PROVE  IInv'
<1>1. /\ pushing = "close" /\ target \in Conns
      /\ sock' = [sock EXCEPT ![target] = "closed"]
      /\ pushing' = "idle" /\ target' = None
      /\ UNCHANGED <<clients, pc, crossed>>
  BY DEF IInv, TypeOK, PushClose
<1>2. TypeOK'
  BY <1>1 DEF IInv, TypeOK
<1>3. RegisteredIsServed' /\ Crossings' /\ GivenUp'
  BY <1>1 DEF IInv, RegisteredIsServed, Crossings, GivenUp, Serving
<1>4. sock[target] # "new"
  BY <1>1 DEF IInv, GivenUp, Upgraded
<1>5. Upgraded' /\ Registered'
  BY <1>1, <1>4 DEF IInv, TypeOK, Upgraded, Registered, Serving
<1> QED BY <1>2, <1>3, <1>5 DEF IInv

\* IInv is inductive.
LEMMA NextKeepsInv == IInv /\ [Next]_vars => IInv'
<1> SUFFICES ASSUME IInv, [Next]_vars PROVE IInv'
  OBVIOUS
<1>1. CASE UNCHANGED vars
  BY <1>1 DEF IInv, TypeOK, RegisteredIsServed, Crossings, GivenUp, Upgraded, Registered,
              Serving, vars
<1>2. CASE Next
  BY <1>2, UpgradeKeepsInv, RegisterKeepsInv, HandlerKeepsInv, UnregisterKeepsInv,
     LookupKeepsInv, WriteKeepsInv, PushUnregisterKeepsInv, PushCloseKeepsInv DEF Next
<1> QED BY <1>1, <1>2

\* IInv holds in every reachable state.
THEOREM Invariance == Spec => []IInv
  BY InitInv, NextKeepsInv, PTL DEF Spec

\* No entry of the hub outlives the handler of its connection, whoever has
\* connected, unregistered or pushed in between (Register, Unregister).
THEOREM NoEntryOutlivesHandler == Spec => []RegisteredIsServed
<1>1. IInv => RegisteredIsServed
  BY DEF IInv
<1> QED BY <1>1, Invariance, PTL

\* Pushes find a player with an open connection, unless it was opened while an
\* older one was in use (SendToPlayer, the deferred Unregister).
THEOREM OpenIsReachable == Spec => []Reachable
<1>1. IInv => Reachable
  BY DEF IInv, Registered, Reachable, Serving
<1> QED BY <1>1, Invariance, PTL

\* Every variable holds values of its kind.
THEOREM TypeCorrect == Spec => []TypeOK
<1>1. IInv => TypeOK
  BY DEF IInv
<1> QED BY <1>1, Invariance, PTL
-----------------------------------------------------------------------------
(* DelayQueue: a wakeUp channel with a buffer (the march service) is       *)
(* enough for the consumer never to sleep past a task.                     *)

\* The consumer could look, nobody is to wake it or has left it a value.
Undisturbed == first # Unread /\ token = 0 /\ waking = {}

\* Between its look and its sleep nothing has come before the first entry.
FirstIsFirst ==
    stage = "decide" /\ Undisturbed =>
        \A t \in queue : first # Empty /\ first <= t

LoopInv == LoopTypeOK /\ FirstIsFirst /\ NoOversleep

\* The sooner of two times is one of them, and neither comes before it.
LEMMA SoonerIsFirst ==
    ASSUME NEW s \in Nat, NEW t \in Nat
    PROVE  Sooner(s, t) \in {s, t} /\ Sooner(s, t) <= s /\ Sooner(s, t) <= t
  BY DEF Sooner

\* The invariant holds at the start.
LEMMA LoopInitInv == LoopInit => LoopInv
  BY SleepAssumption DEF LoopInit, LoopInv, LoopTypeOK, Stages, FirstIsFirst, NoOversleep

\* A request adds a task, and is then to wake the consumer.
LEMMA AddKeepsInv ==
    ASSUME LoopInv, NEW r \in Requests, AddTask(r)
    PROVE  LoopInv'
<1>1. LoopTypeOK'
  BY DelaysAssumption DEF LoopInv, LoopTypeOK, AddTask
<1>2. waking' # {} /\ FirstIsFirst' /\ NoOversleep'
  BY DEF AddTask, FirstIsFirst, NoOversleep, Undisturbed
<1> QED BY <1>1, <1>2 DEF LoopInv

\* A send is received, or leaves a value in the buffer.
LEMMA WakeKeepsInv ==
    ASSUME WakeCapacity > 0, LoopInv, NEW r \in Requests, WakeUp(r)
    PROVE  LoopInv'
<1>1. CASE stage = "sleep" /\ token = 0
  BY <1>1 DEF LoopInv, LoopTypeOK, WakeUp, FirstIsFirst, NoOversleep, Stages
<1>2. CASE ~(stage = "sleep" /\ token = 0)
  <2>1. token' \in 1..WakeCapacity
    BY <1>2, SleepAssumption DEF LoopInv, LoopTypeOK, WakeUp, Sooner
  <2>2. LoopTypeOK'
    BY <1>2, <2>1 DEF LoopInv, LoopTypeOK, WakeUp
  <2> QED BY <2>1, <2>2 DEF LoopInv, FirstIsFirst, NoOversleep, Undisturbed
<1> QED BY <1>1, <1>2

\* The consumer looks at the sorted set.
LEMMA LookKeepsInv ==
    ASSUME LoopInv, Look
    PROVE  LoopInv'
<1>1. LoopTypeOK'
  BY DEF LoopInv, LoopTypeOK, Look, Stages
<1>2. stage' = "decide" /\ \A t \in queue' : first' # Empty /\ first' <= t
  BY EmptyAssumption DEF LoopInv, LoopTypeOK, Look
<1> QED BY <1>1, <1>2 DEF LoopInv, FirstIsFirst, NoOversleep

\* The consumer falls asleep until the first task is due, or less long.
LEMMA SleepKeepsInv ==
    ASSUME LoopInv, FallAsleep
    PROVE  LoopInv'
<1>1. now + MaxSleep \in Nat
  BY SleepAssumption DEF LoopInv, LoopTypeOK
<1>2. until' \in Nat /\ (first \in Nat => until' <= first)
  <2>1. CASE first \in {Empty, Unread}
    BY <1>1, <2>1, EmptyAssumption DEF FallAsleep, WakeTime
  <2>2. CASE first \notin {Empty, Unread}
    BY <1>1, <2>2, SoonerIsFirst DEF LoopInv, LoopTypeOK, FallAsleep, WakeTime
  <2> QED BY <2>1, <2>2
<1>3. LoopTypeOK'
  BY <1>2 DEF LoopInv, LoopTypeOK, FallAsleep, Stages
<1>4. NoOversleep'
  <2> SUFFICES ASSUME Undisturbed', NEW t \in queue'
               PROVE  until' <= t
    BY DEF NoOversleep, Undisturbed
  <2>1. t \in Nat /\ first \in Nat /\ first <= t
    BY DEF LoopInv, LoopTypeOK, FallAsleep, FirstIsFirst, Undisturbed
  <2> QED BY <1>2, <2>1, EmptyAssumption
<1> QED BY <1>3, <1>4 DEF LoopInv, FirstIsFirst, FallAsleep

\* All other steps of the loop lead to no sleep.
LEMMA AwakeKeepsInv ==
    ASSUME LoopInv,
           Return \/ Consume \/ LookFails \/ StayAwake \/ TimerFires \/ TokenReceived \/ StopReceived
    PROVE  LoopInv'
<1>1. CASE Consume
  <2>1. \A d \in Delays : now + d \in Nat
    BY DelaysAssumption DEF LoopInv, LoopTypeOK
  <2>2. queue' \in SUBSET Nat
    BY <1>1, <2>1 DEF LoopInv, LoopTypeOK, Consume
  <2>3. Sooner(token + 1, WakeCapacity) \in 0..WakeCapacity
    BY SleepAssumption DEF LoopInv, LoopTypeOK, Sooner
  <2>4. /\ stage' = "look"
        /\ token' \in 0..WakeCapacity
        /\ UNCHANGED <<first, until, waking, stop, now>>
    BY <1>1, <2>3 DEF LoopInv, LoopTypeOK, Consume
  <2> QED BY <2>2, <2>4 DEF LoopInv, LoopTypeOK, Stages, FirstIsFirst, NoOversleep
<1>2. CASE TokenReceived
  BY <1>2, SleepAssumption
  DEF LoopInv, LoopTypeOK, TokenReceived, Stages, FirstIsFirst, NoOversleep
<1>3. CASE Return \/ StayAwake \/ TimerFires \/ StopReceived
  BY <1>3 DEF LoopInv, LoopTypeOK, Return, StayAwake, TimerFires, StopReceived, Stages,
              FirstIsFirst, NoOversleep
<1>4. CASE LookFails
  BY <1>4 DEF LoopInv, LoopTypeOK, LookFails, Stages, FirstIsFirst, NoOversleep, Undisturbed
<1> QED BY <1>1, <1>2, <1>3, <1>4

\* The clock, Stop and stuttering change nothing the invariant looks at.
LEMMA OthersKeepInv ==
    ASSUME LoopInv, Stop \/ Tick \/ UNCHANGED loopVars
    PROVE  LoopInv'
<1>1. UNCHANGED <<queue, stage, first, until, token, waking>>
  BY DEF Stop, Tick, loopVars
<1>2. stop' \in {"open", "closed"} /\ now' \in Nat
  BY DEF LoopInv, LoopTypeOK, Stop, Tick, loopVars
<1> QED BY <1>1, <1>2 DEF LoopInv, LoopTypeOK, FirstIsFirst, NoOversleep, Undisturbed

\* The invariant is inductive.
LEMMA LoopKeepsInv ==
    ASSUME WakeCapacity > 0, LoopInv, [LoopNext]_loopVars
    PROVE  LoopInv'
<1>1. ASSUME NEW r \in Requests, AddTask(r) \/ WakeUp(r) PROVE LoopInv'
  BY <1>1, AddKeepsInv, WakeKeepsInv
<1>2. CASE Loop
  BY <1>2, LookKeepsInv, SleepKeepsInv, AwakeKeepsInv DEF Loop
<1> QED BY <1>1, <1>2, OthersKeepInv DEF LoopNext

\* With a buffer of one or more, the consumer never sleeps past a task: one
\* that was there when it looked, or one added before or during its sleep.
THEOREM NeverOversleeps ==
    ASSUME WakeCapacity > 0
    PROVE  LoopSpec => []NoOversleep
<1>1. LoopInv /\ [LoopNext]_loopVars => LoopInv'
  BY LoopKeepsInv
<1>2. LoopInv => NoOversleep
  BY DEF LoopInv
<1> QED BY <1>1, <1>2, LoopInitInv, PTL DEF LoopSpec

\* Every variable holds values of its kind.
THEOREM LoopTypeCorrect ==
    ASSUME WakeCapacity > 0
    PROVE  LoopSpec => []LoopTypeOK
<1>1. LoopInv /\ [LoopNext]_loopVars => LoopInv'
  BY LoopKeepsInv
<1>2. LoopInv => LoopTypeOK
  BY DEF LoopInv
<1> QED BY <1>1, <1>2, LoopInitInv, PTL DEF LoopSpec
=============================================================================
