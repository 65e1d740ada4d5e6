----------------------------- MODULE DelayQueue -----------------------------
(***************************************************************************)
(* The loop of a delay queue's consumer and its dynamic sleep, the same in *)
(* the march service (game/march_service.go) and the troops service        *)
(* (game/troops_service.go): handle what is due, look at the first entry   *)
(* of the sorted set, sleep until it is due but never long, and be woken   *)
(* by a request that has added an entry, or by Stop.                       *)
(*                                                                         *)
(* A task is its score here: what a task does is the matter of March and   *)
(* of Training.  The two services differ in the capacity of the channel    *)
(* wakeUp: 1 for marches, 0 for troops.                                    *)
(***************************************************************************)
EXTENDS Integers

CONSTANTS
    Requests,       \* the goroutines that serve requests
    Delays,         \* seconds until a new task is due
    MaxSleep,       \* the longest sleep (30 seconds)
    WakeCapacity,   \* capacity of the channel wakeUp
    LastAdd,        \* bound: no task is added after this second
    LastSecond,     \* bound: the clock stops here if nothing waits
    Empty,          \* no first entry: the sorted set is empty
    Unread          \* no first entry: Redis has answered with an error

ASSUME DelaysAssumption == Delays \subseteq Nat
ASSUME SleepAssumption == MaxSleep \in Nat \ {0} /\ WakeCapacity \in Nat
ASSUME EmptyAssumption == Empty \notin Nat /\ Unread \notin Nat
ASSUME BoundsAssumption == LastAdd \in Nat /\ LastSecond \in Nat

VARIABLES
    queue,      \* Redis: the scores of the tasks in the sorted set
    stage,      \* consumer: what it does next
    first,      \* consumer: score of the first entry, when it looked
    until,      \* consumer: when time.After fires
    token,      \* wakeUp: values in the channel's buffer
    waking,     \* requests that have added a task and are to send
    stop,       \* the channel stop: "open" until Stop closes it
    now

loopVars == <<queue, stage, first, until, token, waking, stop, now>>

LoopInit ==
    /\ queue = {}
    /\ stage = "consume"
    /\ first = Empty
    /\ until = 0
    /\ token = 0
    /\ waking = {}
    /\ stop = "open"
    /\ now = 0

Due == {t \in queue : t <= now}
Sooner(s, t) == IF s < t THEN s ELSE t
-----------------------------------------------------------------------------
(* Requests *)

\* ZADD of a task.
AddTask(r) ==
    /\ r \notin waking
    /\ now <= LastAdd
    /\ \E d \in Delays : queue' = queue \cup {now + d}
    /\ waking' = waking \cup {r}
    /\ UNCHANGED <<stage, first, until, token, stop, now>>

\* Fault: the channel has no buffer, a send that finds no receiver is lost.
WakeUpUnbuffered(r) ==
    /\ r \in waking
    /\ waking' = waking \ {r}
    /\ stage' = IF stage = "sleep" THEN "consume" ELSE stage
    /\ UNCHANGED <<queue, first, until, token, stop, now>>

\* Fault: the buffer grows with every send.
WakeUpPilesUp(r) ==
    /\ r \in waking
    /\ waking' = waking \ {r}
    /\ token' = token + 1
    /\ UNCHANGED <<queue, stage, first, until, stop, now>>

\* The non-blocking send: to the consumer if it is waiting, else to the
\* buffer if there is room, else to nobody.
WakeUp(r) ==
    /\ r \in waking
    /\ waking' = waking \ {r}
    /\ IF stage = "sleep" /\ token = 0
       THEN stage' = "consume" /\ UNCHANGED token
       ELSE token' = Sooner(token + 1, WakeCapacity) /\ UNCHANGED stage
    /\ UNCHANGED <<queue, first, until, stop, now>>
-----------------------------------------------------------------------------
(* The consumer *)

\* Fault: the loop does not look at the channel stop.
RunOn == FALSE /\ UNCHANGED loopVars

\* The top of the loop, once stop is closed.
Return ==
    /\ stage = "consume"
    /\ stop = "closed"
    /\ stage' = "stopped"
    /\ UNCHANGED <<queue, first, until, token, waking, stop, now>>

\* The top of the loop: take the due tasks, but for those of busy players;
\* their handlers add the tasks that come after them and send, to the buffer
\* only, for the receiver is the sender itself.
Consume ==
    /\ stage = "consume"
    /\ stop = "open"
    /\ \E done \in SUBSET Due, next \in SUBSET {now + d : d \in Delays} :
           /\ next # {} => done # {} /\ now <= LastAdd
           /\ queue' = (queue \ done) \cup next
           /\ token' = IF next = {} THEN token ELSE Sooner(token + 1, WakeCapacity)
    /\ stage' = "look"
    /\ UNCHANGED <<first, until, waking, stop, now>>

\* ZRANGE 0 0 WITHSCORES.
Look ==
    /\ stage = "look"
    /\ \/ queue = {} /\ first' = Empty
       \/ \E t \in queue : (\A s \in queue : t <= s) /\ first' = t
    /\ stage' = "decide"
    /\ UNCHANGED <<queue, until, token, waking, stop, now>>

\* ZRANGE fails.
LookFails ==
    /\ stage = "look"
    /\ now < LastSecond
    /\ first' = Unread
    /\ stage' = "decide"
    /\ UNCHANGED <<queue, until, token, waking, stop, now>>

\* The first entry is due by now: back to the top at once.
StayAwake ==
    /\ stage = "decide"
    /\ first \notin {Empty, Unread}
    /\ first <= now
    /\ stage' = "consume"
    /\ UNCHANGED <<queue, first, until, token, waking, stop, now>>

\* The first entry is to come, or there is none, or it is not known.
WakeTime ==
    IF first \in {Empty, Unread} THEN now + MaxSleep
    ELSE Sooner(first, now + MaxSleep)

FallAsleep ==
    /\ stage = "decide"
    /\ WakeTime > now
    /\ until' = WakeTime
    /\ stage' = "sleep"
    /\ UNCHANGED <<queue, first, token, waking, stop, now>>

\* Fault: the select has no time.After.
NoTimer == FALSE /\ UNCHANGED loopVars

TimerFires ==
    /\ stage = "sleep"
    /\ now >= until
    /\ stage' = "consume"
    /\ UNCHANGED <<queue, first, until, token, waking, stop, now>>

TokenReceived ==
    /\ stage = "sleep"
    /\ token > 0
    /\ token' = token - 1
    /\ stage' = "consume"
    /\ UNCHANGED <<queue, first, until, waking, stop, now>>

StopReceived ==
    /\ stage = "sleep"
    /\ stop = "closed"
    /\ stage' = "consume"
    /\ UNCHANGED <<queue, first, until, token, waking, stop, now>>
-----------------------------------------------------------------------------
Stop ==
    /\ stop = "open"
    /\ stop' = "closed"
    /\ UNCHANGED <<queue, stage, first, until, token, waking, now>>

\* The clock runs to its bound, and to the end of a sleep with tasks waiting.
Tick ==
    /\ now < LastSecond \/ (stage = "sleep" /\ until > now /\ queue # {})
    /\ now' = now + 1
    /\ UNCHANGED <<queue, stage, first, until, token, waking, stop>>

Loop ==
    \/ Return \/ Consume \/ Look \/ LookFails \/ StayAwake \/ FallAsleep
    \/ TimerFires \/ TokenReceived \/ StopReceived

LoopNext ==
    \/ Loop \/ Stop \/ Tick
    \/ \E r \in Requests : AddTask(r) \/ WakeUp(r)

LoopSpec == LoopInit /\ [][LoopNext]_loopVars

\* The clock runs, the consumer goes on, and a request that has added its
\* task sends; nobody has to add a task or to stop the service.
LoopFairness ==
    /\ WF_loopVars(Loop)
    /\ WF_loopVars(Tick)
    /\ \A r \in Requests : WF_loopVars(WakeUp(r))

FairLoopSpec == LoopSpec /\ LoopFairness
-----------------------------------------------------------------------------
(* What the runs and the proofs check *)

Stages == {"consume", "look", "decide", "sleep", "stopped"}

\* Every variable holds values of its kind.
LoopTypeOK ==
    /\ queue \in SUBSET Nat
    /\ stage \in Stages
    /\ first \in Nat \cup {Empty, Unread}
    /\ until \in Nat
    /\ token \in 0..WakeCapacity
    /\ waking \in SUBSET Requests
    /\ stop \in {"open", "closed"}
    /\ now \in Nat

\* A consumer that sleeps on undisturbed wakes no later than the first task
\* is due, also when the task was added after it looked and before it slept
\* (sleepUntilNextMarch, sleepUntilNextTask: "sleep until the next task").
NoOversleep ==
    stage = "sleep" /\ first # Unread /\ token = 0 /\ waking = {} =>
        \A t \in queue : until <= t

\* A due task is looked for again, whatever the consumer slept for, until the
\* service is stopped: it cannot be left behind by a sleep.
DueIsConsumed == (\E t \in queue : t <= now) ~> stage \in {"consume", "stopped"}

\* Stop ends the consumer, asleep or awake, and it takes no task any more
\* once it has come to the top of its loop.
StopEnds == stop = "closed" ~> stage = "stopped"
=============================================================================
