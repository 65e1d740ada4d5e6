-------------------------------- MODULE March --------------------------------
(***************************************************************************)
(* The march system (game/march_service.go) with what it stands on: the    *)
(* troops row of each player (MySQL), the delay queue and the player locks *)
(* (Redis), the cell queues of the map service (memory with a Redis copy), *)
(* the consumer goroutine and the request handlers, and the crash and      *)
(* restart of the process.                                                 *)
(*                                                                         *)
(* Soldiers are tokens, so that "nobody is lost or doubled" is a statement *)
(* about sets; a troop count in the code is a set here (Party).  A row     *)
(* is loaded and saved whole under the player's lock; the cache between    *)
(* the service and the row is the subject of PlayerStore.                  *)
(***************************************************************************)
EXTENDS Integers, Sequences, FiniteSets, GoMap, DelaySet, MapCell, Party

CONSTANTS
    Players, Cells,
    Army,           \* Army[u]: the soldiers of player u
    Loans,          \* Loans[u]: bound: soldiers that parties below zero put at home
    Travel,         \* Travel[c]: seconds from a city to cell c, and back
    GatherTime,     \* seconds a gathering lasts
    StaleAfter,     \* age at which a cell drops a queue item (10 minutes)
    BatchSize,      \* tasks fetched at once (100)
    LastLaunch,     \* bound: launches and idle time stop after this second
    MaxCrashes,     \* bound: crashes of the process
    MaxFailures,    \* bound: saves of a row that fail
    SameSecond,     \* may a player launch twice within one second?
    None            \* no cell (in memory or in Redis), no key, no entry

ASSUME SoldiersAssumption ==
    /\ Army \in [Players -> SUBSET UNION {Army[u] : u \in Players}]
    /\ \A u \in Players : IsFiniteSet(Army[u])
ASSUME LoansAssumption ==
    /\ Loans \in [Players -> SUBSET UNION {Loans[u] : u \in Players}]
    /\ \A u \in Players :
           /\ IsFiniteSet(Loans[u])
           /\ Loans[u] \cap Army[u] = {}
           /\ Debts(Loans[u]) \cap (Army[u] \cup Loans[u]) = {}
ASSUME TimesAssumption ==
    /\ Travel \in [Cells -> Nat \ {0}]
    /\ GatherTime \in Nat \ {0}
    /\ StaleAfter \in Nat
    /\ BatchSize \in Nat \ {0}
ASSUME BoundsAssumption ==
    /\ LastLaunch \in Nat
    /\ MaxCrashes \in Nat
    /\ MaxFailures \in Nat
    /\ SameSecond \in BOOLEAN

VARIABLES
    home,       \* MySQL: home[u], Troops.Troops
    attack,     \* MySQL: attack[u], Troops.Attack, march key -> march
    resources,  \* MySQL: resources[u], User.Resources
    fallen,     \* history: soldiers lost in battle
    zset,       \* Redis: delay:queue:march
    lock,       \* Redis: lock[u], who holds lock:user:u
    cellCache,  \* Redis: cellCache[c], the copy of the cell's queue
    cellMem,    \* memory: cellMem[c], the cell in its shard
    loaded,     \* memory: cells InitializeMap has loaded
    stage,      \* consumer: what it does next
    batch,      \* consumer: entries fetched and not yet taken
    job,        \* consumer: [entry, add], the entry in hand and the one to add
    req,        \* req[u]: [stage, key], the request of u that is being served
    now,        \* time.Now().Unix()
    crashes, failures

row == <<home, attack, resources, fallen>>
redis == <<zset, lock, cellCache>>
cells == <<cellMem, cellCache>>
consumer == <<stage, batch, job>>
faults == <<crashes, failures>>
vars == <<row, zset, lock, cells, loaded, consumer, req, now, faults>>
-----------------------------------------------------------------------------
(* Marches, their keys and their tasks *)

Types == {"attack", "gather", "station"}
Statuses == {"going", "gathering", "returning"}

Keys == [uid : Players, leg : {"march", "return"}, at : 0..LastLaunch]

\* march_<uid>_<second>: one name for all launches of a player in a second.
MarchKey(u, t) == [uid |-> u, leg |-> "march", at |-> t]

\* Fault: the way back keeps the name of the way out.
ReturnKeyKept(k) == k

\* return_<uid>_<march key>_<nanosecond>: a name of its own for the way back.
ReturnKey(k) == [k EXCEPT !.leg = "return"]

\* No cell (a nil pointer, redis.Nil) is told apart from every queue.
ASSUME NoneAssumption == None \notin Seq([key : Keys, arriveAt : Nat])

Task(k, finish) == [key |-> k, finish |-> finish]

\* Fault: the task is scored with zero, as if it were due at once.
DueAtOnce(k, arrive) == Entry(Task(k, arrive), 0)

DueAt(k, arrive) == Entry(Task(k, arrive), arrive)

NewMarch(c, type, s) ==
    [cell |-> c, type |-> type, status |-> "going",
     arrive |-> now + Travel[c], troops |-> s, carry |-> 0]

GatheringMarch(m) ==
    [m EXCEPT !.status = "gathering", !.arrive = now + GatherTime]

\* createReturnMarch: as long as the way out, with what is carried.
ReturnMarch(m, lost, carry) ==
    [m EXCEPT !.status = "returning", !.arrive = now + Travel[m.cell],
              !.troops = @ \ lost, !.carry = carry]

\* calcGatherAmount: one unit, however long the gathering was.
GatherAmount == 1

\* SaveUser's INSERT has a comma before VALUES, so MySQL rejects it: the save
\* of a user row never succeeds, and handleReturn drops the error.
SaveUserWorks == FALSE
CreditResources(u, amount) ==
    resources' = IF SaveUserWorks THEN [resources EXCEPT ![u] = @ + amount]
                 ELSE resources
-----------------------------------------------------------------------------
(* The map service *)

\* LoadOrCreateCell: the shard's cell, else the copy in Redis, else an error.
CellQueue(c) == IF cellMem[c] # None THEN cellMem[c] ELSE cellCache[c]

\* Fault: being in the queue is enough.
CanActListed(c, k) ==
    CellQueue(c) # None /\ Listed(Purge(CellQueue(c), now, StaleAfter), k)

\* OnMarchArrive: the answer, and the purge it does on the way.
CanAct(c, k) ==
    CellQueue(c) # None /\ IsHead(Purge(CellQueue(c), now, StaleAfter), k)
OnMarchArrive(c) ==
    /\ cellMem' = [cellMem EXCEPT ![c] =
                     IF CellQueue(c) = None THEN None
                     ELSE Purge(CellQueue(c), now, StaleAfter)]
    /\ UNCHANGED cellCache

RegisterMarch(c, item) ==
    LET q == Enrol(CellQueue(c), item) IN
    /\ cellMem' = [cellMem EXCEPT ![c] = q]
    /\ cellCache' = [cellCache EXCEPT ![c] = q]

\* RemoveMarch: Redis is written only when the march was in the queue.
RemoveMarch(c, k) ==
    LET q == CellQueue(c) IN
    /\ cellMem' = [cellMem EXCEPT ![c] = IF q = None THEN q ELSE Strike(q, k)]
    /\ cellCache' = [cellCache EXCEPT ![c] =
                       IF q = None THEN @
                       ELSE IF Listed(q, k) THEN Strike(q, k) ELSE @]
-----------------------------------------------------------------------------
Idle == [stage |-> "idle", key |-> None]
NoJob == [entry |-> None, add |-> None]

Init ==
    /\ home = Army
    /\ attack = [u \in Players |-> <<>>]
    /\ resources = [u \in Players |-> 0]
    /\ fallen = [u \in Players |-> {}]
    /\ zset = {}
    /\ lock = [u \in Players |-> "free"]
    /\ cellCache = [c \in Cells |-> <<>>]
    /\ cellMem = [c \in Cells |-> <<>>]
    /\ loaded = Cells
    /\ stage = "rebuild"
    /\ batch = {}
    /\ job = NoJob
    /\ req = [u \in Players |-> Idle]
    /\ now = 0
    /\ crashes = 0
    /\ failures = 0

\* Faults: the march of the way out stays in the row, the one home does.
SaveReturnAdds(u, k, lost, carry) ==
    /\ attack' = [attack EXCEPT ![u] =
                    Put(@, ReturnKey(k), ReturnMarch(attack[u][k], lost, carry))]
    /\ fallen' = [fallen EXCEPT ![u] = @ \cup lost]
    /\ UNCHANGED <<home, resources>>
SaveHomeKeeps(u, k) ==
    /\ home' = [home EXCEPT ![u] = @ \cup attack[u][k].troops]
    /\ CreditResources(u, attack[u][k].carry)
    /\ UNCHANGED <<attack, fallen>>

(***************************************************************************)
(* The two saves that change where soldiers are on the way out and back;   *)
(* each is one UPDATE of one row.                                          *)
(***************************************************************************)
SaveReturn(u, k, lost, carry) ==
    /\ attack' = [attack EXCEPT ![u] =
                    Put(Drop(@, k), ReturnKey(k),
                        ReturnMarch(attack[u][k], lost, carry))]
    /\ fallen' = [fallen EXCEPT ![u] = @ \cup lost]
    /\ UNCHANGED <<home, resources>>

SaveHome(u, k) ==
    /\ home' = [home EXCEPT ![u] = @ \cup attack[u][k].troops]
    /\ attack' = [attack EXCEPT ![u] = Drop(@, k)]
    /\ CreditResources(u, attack[u][k].carry)
    /\ UNCHANGED fallen

\* The entry of a march that is due when it arrives.
Schedule(u, k) == DueAt(k, attack[u][k].arrive)
-----------------------------------------------------------------------------
(* LaunchMarch and CancelGather, each a request of player u.  Both hold    *)
(* the player's lock from the first step to the last.                      *)

\* The HTTP server listens once InitializeMap has returned.
Serving == loaded = Cells

\* Lock, load the row, check and deduct the party, save the new march.  That a
\* party is not below zero is not checked.
LaunchMarch(u, c, type, s) ==
    LET k == MarchKey(u, now) IN
    /\ Serving
    /\ now <= LastLaunch
    /\ SameSecond \/ k \notin DOMAIN attack[u]
    /\ lock[u] = "free"
    /\ lock' = [lock EXCEPT ![u] = "request"]
    /\ home' = [home EXCEPT ![u] = (@ \ s) \cup Lent(s, Loans[u])]
    /\ attack' = [attack EXCEPT ![u] = Put(@, k, NewMarch(c, type, s))]
    /\ req' = [req EXCEPT ![u] = [stage |-> "register", key |-> k]]
    /\ UNCHANGED <<resources, fallen, zset, cells, loaded, consumer, now, faults>>

LaunchRegister(u) ==
    LET k == req[u].key
        m == attack[u][k]
    IN  /\ req[u].stage = "register"
        /\ RegisterMarch(m.cell, Item(k, m.arrive))
        /\ req' = [req EXCEPT ![u].stage = "enqueue"]
        /\ UNCHANGED <<row, zset, lock, loaded, consumer, now, faults>>

\* The last step of a request: ZADD, wake the consumer, unlock.  The error of
\* the ZADD is not looked at.
RequestEnqueue(u) ==
    /\ req[u].stage = "enqueue"
    /\ zset' = ZAdd(zset, Schedule(u, req[u].key))
    /\ lock' = [lock EXCEPT ![u] = "free"]
    /\ req' = [req EXCEPT ![u] = Idle]
    /\ UNCHANGED <<row, cells, loaded, consumer, now, faults>>

RequestEnqueueFails(u) ==
    /\ req[u].stage = "enqueue"
    /\ failures < MaxFailures
    /\ failures' = failures + 1
    /\ lock' = [lock EXCEPT ![u] = "free"]
    /\ req' = [req EXCEPT ![u] = Idle]
    /\ UNCHANGED <<row, zset, cells, loaded, consumer, now, crashes>>

\* Lock, load, check that the march is gathering, take it off the cell.
CancelGather(u, k) ==
    /\ Serving
    /\ lock[u] = "free"
    /\ attack[u][k].status = "gathering"
    /\ lock' = [lock EXCEPT ![u] = "request"]
    /\ RemoveMarch(attack[u][k].cell, k)
    /\ req' = [req EXCEPT ![u] = [stage |-> "turn", key |-> k]]
    /\ UNCHANGED <<row, zset, loaded, consumer, now, faults>>

CancelTurnBack(u) ==
    LET k == req[u].key IN
    /\ req[u].stage = "turn"
    /\ SaveReturn(u, k, {}, GatherAmount)
    /\ req' = [req EXCEPT ![u] = [stage |-> "enqueue", key |-> ReturnKey(k)]]
    /\ UNCHANGED <<zset, lock, cells, loaded, consumer, now, faults>>

\* createReturnMarch's save fails: the request ends with an error.
CancelSaveFails(u) ==
    /\ req[u].stage = "turn"
    /\ failures < MaxFailures
    /\ failures' = failures + 1
    /\ lock' = [lock EXCEPT ![u] = "free"]
    /\ req' = [req EXCEPT ![u] = Idle]
    /\ UNCHANGED <<row, zset, cells, loaded, consumer, now, crashes>>

Request(u) ==
    \/ \E c \in Cells, type \in Types,
          s \in Parties(home[u], fallen[u], attack[u], Loans[u]) : LaunchMarch(u, c, type, s)
    \/ \E k \in DOMAIN attack[u] : CancelGather(u, k)

FinishRequest(u) ==
    \/ LaunchRegister(u)
    \/ RequestEnqueue(u)
    \/ RequestEnqueueFails(u)
    \/ CancelTurnBack(u)
    \/ CancelSaveFails(u)
-----------------------------------------------------------------------------
(* The consumer goroutine *)

MarchEntries == UNION {{Schedule(u, k) : k \in DOMAIN attack[u]} : u \in Players}

\* The entries go into the set, over what it has of the same tasks.
Readd(again) ==
    /\ stage = "rebuild"
    /\ zset' = {e \in zset : \A a \in again : a.task # e.task} \cup again
    /\ stage' = "next"
    /\ UNCHANGED <<row, lock, cells, loaded, batch, job, req, now, crashes>>

\* rebuildDelayQueue: every march of every row gets its task again.  No step
\* of the consumer can come between the query and the last ZADD.
Rebuild == Readd(MarchEntries) /\ UNCHANGED failures

\* The query fails or ends early, rows are passed over, or a ZADD fails: the
\* consumer goes on with what came.
RebuildFails ==
    /\ failures < MaxFailures
    /\ failures' = failures + 1
    /\ \E again \in SUBSET MarchEntries : Readd(again)

Fetch ==
    /\ stage = "next"
    /\ batch = {}
    /\ batch' \in Batches(zset, now, BatchSize) \ {{}}
    /\ UNCHANGED <<row, redis, cellMem, loaded, stage, job, req, now, faults>>

\* The player is busy: the task stays in the set for a later pass.
SkipLocked ==
    \E e \in First(batch) :
        /\ stage = "next"
        /\ lock[e.task.key.uid] # "free"
        /\ batch' = batch \ {e}
        /\ UNCHANGED <<row, redis, cellMem, loaded, stage, job, req, now, faults>>

TakeTask ==
    \E e \in First(batch) :
        /\ stage = "next"
        /\ lock[e.task.key.uid] = "free"
        /\ lock' = [lock EXCEPT ![e.task.key.uid] = "consumer"]
        /\ batch' = batch \ {e}
        /\ job' = [entry |-> e, add |-> None]
        /\ stage' = "handle"
        /\ UNCHANGED <<row, zset, cells, loaded, req, now, faults>>

\* The task in hand, its player and its march.
JobKey == job.entry.task.key
JobUid == JobKey.uid
JobMarch == attack[JobUid][JobKey]
Handling(status) ==
    /\ stage = "handle"
    /\ JobKey \in DOMAIN attack[JobUid]
    /\ JobMarch.status = status

\* Where the march in hand was, after its way back has replaced it, too.
JobCell ==
    IF JobKey \in DOMAIN attack[JobUid] THEN JobMarch.cell
    ELSE attack[JobUid][ReturnKey(JobKey)].cell

\* The row cannot be read: the task is dropped, though the march is there.
LoadFails ==
    /\ stage = "handle"
    /\ failures < MaxFailures
    /\ failures' = failures + 1
    /\ stage' = "finish"
    /\ UNCHANGED <<row, redis, cellMem, loaded, batch, job, req, now, crashes>>

\* The row has no such march: the task is dropped.
DropOrphan ==
    /\ stage = "handle"
    /\ JobKey \notin DOMAIN attack[JobUid]
    /\ stage' = "finish"
    /\ UNCHANGED <<row, redis, cellMem, loaded, batch, job, req, now, faults>>

\* handleArrival, not the head of the queue or not in it: nothing is done and
\* the caller removes the task.
ArriveWait ==
    /\ Handling("going")
    /\ ~CanAct(JobMarch.cell, JobKey)
    /\ OnMarchArrive(JobMarch.cell)
    /\ stage' = "finish"
    /\ UNCHANGED <<row, zset, lock, loaded, batch, job, req, now, faults>>

\* handleArrival, a raid or a station: turn back at once.
ArriveTurnBack ==
    /\ Handling("going")
    /\ CanAct(JobMarch.cell, JobKey)
    /\ OnMarchArrive(JobMarch.cell)
    /\ \/ /\ JobMarch.type = "attack"
          /\ \E lost \in Losses(JobMarch.troops, Loans[JobUid]) : SaveReturn(JobUid, JobKey, lost, 0)
       \/ /\ JobMarch.type = "station"
          /\ SaveReturn(JobUid, JobKey, {}, 0)
    /\ job' = [job EXCEPT !.add = DueAt(ReturnKey(JobKey), now + Travel[JobMarch.cell])]
    /\ stage' = "enqueueThenLeave"
    /\ UNCHANGED <<zset, lock, loaded, batch, req, now, faults>>

\* handleArrival, a gathering: it is due at arrive but scored with now.
ArriveGather ==
    LET m == GatheringMarch(JobMarch) IN
    /\ Handling("going")
    /\ JobMarch.type = "gather"
    /\ CanAct(JobMarch.cell, JobKey)
    /\ OnMarchArrive(JobMarch.cell)
    /\ attack' = [attack EXCEPT ![JobUid][JobKey] = m]
    /\ job' = [job EXCEPT !.add = Entry(Task(JobKey, m.arrive), now)]
    /\ stage' = "enqueue"
    /\ UNCHANGED <<home, resources, fallen, zset, lock, loaded, batch, req, now, faults>>

\* The save in handleArrival fails; a raid or a station leaves the cell still.
ArriveSaveFails ==
    /\ Handling("going")
    /\ CanAct(JobMarch.cell, JobKey)
    /\ OnMarchArrive(JobMarch.cell)
    /\ failures < MaxFailures
    /\ failures' = failures + 1
    /\ stage' = IF JobMarch.type = "gather" THEN "finish" ELSE "leave"
    /\ UNCHANGED <<row, zset, lock, loaded, batch, job, req, now, crashes>>

\* handleGatherComplete: off the cell first, then the way back.
GatherComplete ==
    /\ Handling("gathering")
    /\ RemoveMarch(JobMarch.cell, JobKey)
    /\ stage' = "turn"
    /\ UNCHANGED <<row, zset, lock, loaded, batch, job, req, now, faults>>

GatherTurnBack ==
    /\ stage = "turn"
    /\ SaveReturn(JobUid, JobKey, {}, GatherAmount)
    /\ job' = [job EXCEPT !.add = DueAt(ReturnKey(JobKey), now + Travel[JobMarch.cell])]
    /\ stage' = "enqueue"
    /\ UNCHANGED <<redis, cellMem, loaded, batch, req, now, faults>>

\* handleReturn: the party is home, what it carries is credited.
ReturnHome ==
    /\ Handling("returning")
    /\ SaveHome(JobUid, JobKey)
    /\ stage' = "finish"
    /\ UNCHANGED <<redis, cellMem, loaded, batch, job, req, now, faults>>

\* The save of handleGatherComplete or of handleReturn fails.
TurnSaveFails ==
    /\ stage = "turn" \/ Handling("returning")
    /\ failures < MaxFailures
    /\ failures' = failures + 1
    /\ stage' = "finish"
    /\ UNCHANGED <<row, redis, cellMem, loaded, batch, job, req, now, crashes>>

\* ZADD of the march's next task.
EnqueueNext ==
    /\ stage \in {"enqueue", "enqueueThenLeave"}
    /\ zset' = ZAdd(zset, job.add)
    /\ stage' = IF stage = "enqueue" THEN "finish" ELSE "leave"
    /\ UNCHANGED <<row, lock, cells, loaded, batch, job, req, now, faults>>

\* The ZADD fails, which nobody looks at.
EnqueueFails ==
    /\ stage \in {"enqueue", "enqueueThenLeave"}
    /\ failures < MaxFailures
    /\ failures' = failures + 1
    /\ stage' = IF stage = "enqueue" THEN "finish" ELSE "leave"
    /\ UNCHANGED <<row, redis, cellMem, loaded, batch, job, req, now, crashes>>

\* After a raid or a station the march is struck off the cell's queue.
LeaveCell ==
    /\ stage = "leave"
    /\ RemoveMarch(JobCell, JobKey)
    /\ stage' = "finish"
    /\ UNCHANGED <<row, zset, lock, loaded, batch, job, req, now, faults>>

\* ZREM of the task that was fetched, whatever became of it; unlock.
FinishTask ==
    /\ stage = "finish"
    /\ zset' = ZRem(zset, job.entry.task)
    /\ lock' = [lock EXCEPT ![JobUid] = "free"]
    /\ job' = NoJob
    /\ stage' = "next"
    /\ UNCHANGED <<row, cells, loaded, batch, req, now, faults>>

Consume ==
    \/ Rebuild \/ RebuildFails \/ Fetch \/ SkipLocked \/ TakeTask \/ LoadFails \/ DropOrphan
    \/ ArriveWait \/ ArriveTurnBack \/ ArriveGather \/ ArriveSaveFails
    \/ GatherComplete \/ GatherTurnBack \/ ReturnHome \/ TurnSaveFails
    \/ EnqueueNext \/ EnqueueFails \/ LeaveCell \/ FinishTask
-----------------------------------------------------------------------------
(* The process and the clock *)

\* The process dies and starts again; Redis may lose its data with it.
Crash(wiped) ==
    /\ crashes < MaxCrashes
    /\ crashes' = crashes + 1
    /\ zset' = IF wiped THEN {} ELSE zset
    /\ lock' = [u \in Players |-> IF wiped \/ lock[u] = "free" THEN "free" ELSE "orphan"]
    /\ cellCache' = [c \in Cells |-> IF wiped THEN None ELSE cellCache[c]]
    /\ cellMem' = [c \in Cells |-> None]
    /\ loaded' = {}
    /\ stage' = "rebuild"
    /\ batch' = {}
    /\ job' = NoJob
    /\ req' = [u \in Players |-> Idle]
    /\ UNCHANGED <<row, now, failures>>

\* loadAllCells, one cell: the row has no queue, memory and Redis get an
\* empty one.  The consumer is already running.
LoadCell(c) ==
    /\ c \notin loaded
    /\ cellMem' = [cellMem EXCEPT ![c] = <<>>]
    /\ cellCache' = [cellCache EXCEPT ![c] = <<>>]
    /\ loaded' = loaded \cup {c}
    /\ UNCHANGED <<row, zset, lock, consumer, req, now, faults>>

\* Fault: a lock without expiry.
LockStays(u) == FALSE /\ UNCHANGED vars

\* The lock of a dead process goes when its 5 seconds are over.
LockExpires(u) ==
    /\ lock[u] = "orphan"
    /\ lock' = [lock EXCEPT ![u] = "free"]
    /\ UNCHANGED <<row, zset, cells, loaded, consumer, req, now, faults>>

\* Time goes on while a launch is allowed or a task is still to come due.
Tick ==
    /\ now < LastLaunch \/ \E e \in zset : e.score > now
    /\ now' = now + 1
    /\ UNCHANGED <<row, redis, cellMem, loaded, consumer, req, faults>>

System ==
    \/ Consume
    \/ \E u \in Players : FinishRequest(u) \/ LockExpires(u)
    \/ \E c \in Cells : LoadCell(c)

Next ==
    \/ System
    \/ \E u \in Players : Request(u)
    \/ \E wiped \in BOOLEAN : Crash(wiped)
    \/ Tick

Spec == Init /\ [][Next]_vars

(***************************************************************************)
(* Fairness: the clock runs, Redis expires locks, and every goroutine that *)
(* can take a step takes it: the consumer, each request being served, and  *)
(* the loading of the map.                                                 *)
(***************************************************************************)
Fairness ==
    /\ WF_vars(Consume)
    /\ WF_vars(Tick)
    /\ \A u \in Players : WF_vars(FinishRequest(u)) /\ WF_vars(LockExpires(u))
    /\ \A c \in Cells : WF_vars(LoadCell(c))

FairSpec == Spec /\ Fairness
-----------------------------------------------------------------------------
(* What the runs and the proofs check *)

Tokens(u) == Army[u] \cup Loans[u] \cup Debts(Loans[u])
Soldiers == UNION {Tokens(u) : u \in Players}
Marches == [cell : Cells, type : Types, status : Statuses, arrive : Nat,
            troops : SUBSET Soldiers, carry : {0, GatherAmount}]
Entries == [task : [key : Keys, finish : Nat], score : Nat]

\* A row of player u: marches of u only, those on their way back exactly
\* under return keys.
Row(u, r) ==
    /\ DOMAIN r \subseteq Keys
    /\ r \in [DOMAIN r -> Marches]
    /\ \A k \in DOMAIN r :
           k.uid = u /\ (k.leg = "return" <=> r[k].status = "returning")

RowsTyped ==
    /\ home \in [Players -> SUBSET Soldiers]
    /\ fallen \in [Players -> SUBSET Soldiers]
    /\ resources \in [Players -> Nat]
    /\ attack = [u \in Players |-> attack[u]]
    /\ \A u \in Players : Row(u, attack[u])

RedisTyped ==
    /\ zset \in SUBSET Entries
    /\ lock \in [Players -> {"free", "request", "consumer", "orphan"}]
    /\ cellCache = [x \in Cells |-> cellCache[x]]

ProcessTyped ==
    /\ cellMem = [x \in Cells |-> cellMem[x]]
    /\ loaded \in SUBSET Cells
    /\ stage \in {"rebuild", "next", "handle", "turn", "enqueue",
                  "enqueueThenLeave", "leave", "finish"}
    /\ batch \in SUBSET Entries
    /\ job \in [entry : Entries \cup {None}, add : Entries \cup {None}]
    /\ req \in [Players -> [stage : {"idle", "register", "turn", "enqueue"},
                            key : Keys \cup {None}]]

CountersTyped ==
    /\ now \in Nat
    /\ crashes \in 0..MaxCrashes
    /\ failures \in 0..MaxFailures

\* Every variable holds values of its kind (LaunchMarch, createReturnMarch and
\* the consumer's handlers put nothing else in a row, a task or a lock).  What
\* a cell's queue holds is the matter of GathererHoldsCell.
TypeOK == RowsTyped /\ RedisTyped /\ ProcessTyped /\ CountersTyped

\* Every soldier of a player is at home, on exactly one march or fallen, and
\* one that a party below zero has put there is owed by exactly one march, by
\* those at home it has come back to, or by the fallen: crashes, tasks delivered
\* twice, cancelled gatherings and saves that fail (LaunchMarch,
\* createReturnMarch, handleReturn) lose and double nobody and no debt.  What
\* the fallen owe is forgotten: by a raid a party below zero leaves soldiers
\* from nowhere at home (handleAttack).
SoldiersConserved ==
    \A u \in Players :
        LET p == Places(home[u], fallen[u], attack[u]) IN
        /\ Army[u] \subseteq p /\ p \subseteq Tokens(u)
        /\ \A g \in Loans[u] : g \in p <=> Debt(g) \in p
        /\ home[u] \cap fallen[u] = {}
        /\ \A k \in DOMAIN attack[u] :
               /\ attack[u][k].troops \cap (home[u] \cup fallen[u]) = {}
               /\ \A l \in DOMAIN attack[u] \ {k} :
                      attack[u][k].troops \cap attack[u][l].troops = {}

\* The march has a task, or whoever saved it is about to add one, or the
\* process has yet to rebuild the queue.
HasTask(u, k) ==
    \/ stage = "rebuild"
    \/ \E e \in zset : e.task.key = k
    \/ /\ stage \in {"enqueue", "enqueueThenLeave"}
       /\ job.add.task.key = k
    \/ req[u].key = k

\* A march that gathers or comes back is never forgotten by the delay queue,
\* whatever dies between its save, its ZADD and the ZREM of the task before
\* (createReturnMarch, handleArrival, consumeMarchQueue, rebuildDelayQueue).
\* A query, save or ZADD that fails is the exception: its error is dropped, or
\* the task removed all the same.
MarchesScheduled ==
    failures = 0 =>
        \A u \in Players : \A k \in DOMAIN attack[u] :
            attack[u][k].status # "going" => HasTask(u, k)

\* Someone is turning the gathering march k of u back.
TurningBack(u, k) ==
    \/ stage = "turn" /\ JobKey = k
    \/ req[u] = [stage |-> "turn", key |-> k]

\* Who gathers in a cell is at the head of its queue, so no two gather there
\* at once (OnMarchArrive's answer), while saves succeed and the queue item is
\* not old enough to be purged.  A restart empties the queue: who came before
\* it is in no queue, and beside him one may gather that has come since.
GathererHoldsCell ==
    failures = 0 =>
        \A u \in Players : \A k \in DOMAIN attack[u] :
            LET m == attack[u][k]
                q == CellQueue(m.cell)
            IN  /\ m.status = "gathering"
                /\ ~TurningBack(u, k)
                /\ now <= k.at + Travel[m.cell] + StaleAfter
                /\ crashes = 0 \/ (q # None /\ Listed(q, k))
                => q # None /\ IsHead(Purge(q, now, StaleAfter), k)

\* The step changes the status of march k of u, or removes it.
Moves(u, k) ==
    \/ k \notin DOMAIN attack'[u]
    \/ attack'[u][k].status # attack[u][k].status

\* A march acts at its cell, and is home, no earlier than its ArriveTime,
\* however tasks are delayed, repeated or rebuilt (consumeMarchQueue).
NeverEarly ==
    [][\A u \in Players : \A k \in DOMAIN attack[u] :
          attack[u][k].status \in {"going", "returning"} /\ Moves(u, k)
              => attack[u][k].arrive <= now]_vars

\* The marches of a row as the trips the player sees.
Trip(m) == [troops |-> m.troops, type |-> m.type, status |-> m.status]
T == INSTANCE Trips
     WITH TripIds <- Keys,
          out <- [u \in Players |-> [k \in DOMAIN attack[u] |-> Trip(attack[u][k])]]

\* The service implements Trips: no step of the consumer, of a request, of a
\* crash or of a second delivery moves soldiers but by one step of a trip.
ImplementsTrips == T!Spec

\* A march that gathers turns back and one on its way back comes home, over
\* crashes, restarts and busy locks, unless a save fails.
MarchesEnd ==
    \A u \in Players, k \in Keys :
        (k \in DOMAIN attack[u] /\ attack[u][k].status # "going")
            ~> (k \notin DOMAIN attack[u] \/ failures > 0)

\* A march at the head of its cell with a task waiting acts, if the process
\* lives: others' tasks, requests and locks cannot starve it, those a dead
\* process has left behind included.  The loading of a cell ends that.
HeadMarchActs ==
    \A u \in Players, t \in 0..LastLaunch, n \in 0..MaxCrashes :
        LET k == MarchKey(u, t) IN
        (/\ crashes = n
         /\ k \in DOMAIN attack[u] /\ attack[u][k].status = "going"
         /\ attack[u][k].cell \in loaded
         /\ IsHead(cellMem[attack[u][k].cell], k)
         /\ \E e \in zset : e.task.key = k
         /\ stage = "next")
            ~> (crashes # n \/ (k \in DOMAIN attack[u] => attack[u][k].status # "going"))
-----------------------------------------------------------------------------
(* What comments and messages of the code say, and the code does not do *)

\* march_service.go:409, a march that has to wait keeps Status=Going and
\* "waits for the next timed trigger": it still has a task.
WaitingMarchKeepsTask ==
    crashes = 0 /\ failures = 0 =>
        \A u \in Players : \A k \in DOMAIN attack[u] :
            attack[u][k].status = "going" => HasTask(u, k)

\* march_service.go:98, a launch "deducts the troops": it adds nobody at home.
LaunchDeducts ==
    [][\A u \in Players :
          req[u].stage = "idle" /\ req'[u].stage = "register" => home'[u] \subseteq home[u]]_vars

\* march_service.go:448, a gathering "will finish in GatherDuration seconds":
\* it is turned back earlier only by the player's own request.
GatheringLasts ==
    [][\A u \in Players : \A k \in DOMAIN attack[u] :
          attack[u][k].status = "gathering" /\ Moves(u, k)
              => \/ attack[u][k].arrive <= now
                 \/ req[u].stage = "turn"]_vars

\* march_service.go:616, the march key is a "unique identifier": a key stays
\* the name of one party for as long as the row has it.
KeyNamesOneMarch ==
    [][\A u \in Players : \A k \in DOMAIN attack[u] \cap DOMAIN attack'[u] :
          attack'[u][k].troops = attack[u][k].troops]_vars
=============================================================================
