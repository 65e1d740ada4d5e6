------------------------------ MODULE Training ------------------------------
(***************************************************************************)
(* Training soldiers (game/troops_service.go): an order joins the player's *)
(* training queue in the troops row (MySQL) and a task joins the delay     *)
(* queue delay:queue:troops (Redis); the consumer goroutine turns a due    *)
(* task into soldiers.  The process may die between any two steps.         *)
(*                                                                         *)
(* The row's queue has at most one order of a kind (UpdateTroops refuses a *)
(* second), so it is a function from kinds to orders here.  The row is     *)
(* loaded and saved whole under the player's lock; the cache before it is  *)
(* the subject of PlayerStore, the consumer's sleep that of DelayQueue.    *)
(***************************************************************************)
EXTENDS Integers, FiniteSets, GoMap, DelaySet

CONSTANTS
    Players, Kinds,
    Nums,           \* how many soldiers an order may be for
    TrainTime,      \* TrainTime[k]: seconds to train one soldier of kind k
    BatchSize,      \* tasks fetched at once (100)
    LastOrder,      \* bound: orders and idle time stop after this second
    MaxCrashes,     \* bound: crashes of the process
    MaxFailures,    \* bound: loads and saves of a row, queries of all rows
                    \* and ZADDs that fail
    MaxStrays,      \* bound: tasks lost at once to another region's server;
                    \* none if it does not use the same Redis
    None            \* no kind, no entry

ASSUME NumsAssumption == Nums \subseteq Nat \ {0}
ASSUME TimesAssumption == TrainTime \in [Kinds -> Nat] /\ BatchSize \in Nat \ {0}
ASSUME NoneAssumption == None \notin Kinds
ASSUME BoundsAssumption ==
    /\ LastOrder \in Nat /\ MaxCrashes \in Nat /\ MaxFailures \in Nat
    /\ MaxStrays \in Nat

VARIABLES
    queue,      \* MySQL: queue[u], Troops.Queue, kind -> [num, finish]
    troops,     \* MySQL: troops[u][k], Troops.Troops
    ordered,    \* history: ordered[u][k], soldiers in accepted orders
    zset,       \* Redis: delay:queue:troops
    lock,       \* Redis: lock[u], who holds lock:user:u
    stage,      \* consumer: what it does next
    batch,      \* consumer: entries fetched and not yet taken
    job,        \* consumer: the entry in hand
    req,        \* req[u]: the kind of the order being added, or None
    lost,       \* history: tasks dropped because the row could not be
                \* loaded, here or elsewhere, and tasks of orders that
                \* ZADD or the last rebuild has not added
    now,        \* time.Now().Unix()
    crashes, failures

row == <<queue, troops, ordered>>
faults == <<crashes, failures>>
vars == <<row, zset, lock, stage, batch, job, req, lost, now, faults>>
-----------------------------------------------------------------------------
Order(n, finish) == [num |-> n, finish |-> finish]

\* The member {uid, key, num, finish_at}, its key the player and the kind.
Task(u, k, order) ==
    [key |-> [uid |-> u, kind |-> k], num |-> order.num, finish |-> order.finish]

\* Fault: the task is scored with zero, as if it were due at once.
EntryAtOnce(u, k, order) == Entry(Task(u, k, order), 0)

EntryOf(u, k, order) == Entry(Task(u, k, order), order.finish)

Init ==
    /\ queue = [u \in Players |-> <<>>]
    /\ troops = [u \in Players |-> [k \in Kinds |-> 0]]
    /\ ordered = [u \in Players |-> [k \in Kinds |-> 0]]
    /\ zset = {}
    /\ lock = [u \in Players |-> "free"]
    /\ stage = "rebuild"
    /\ batch = {}
    /\ job = None
    /\ req = [u \in Players |-> None]
    /\ lost = {}
    /\ now = 0
    /\ crashes = 0
    /\ failures = 0
-----------------------------------------------------------------------------
(* A request of player u *)

\* Lock, load, refuse a kind in training, save the order.
UpdateTroops(u, k, n) ==
    /\ now <= LastOrder
    /\ lock[u] = "free"
    /\ k \notin DOMAIN queue[u]
    /\ lock' = [lock EXCEPT ![u] = "request"]
    /\ queue' = [queue EXCEPT ![u] = Put(@, k, Order(n, now + TrainTime[k] * n))]
    /\ ordered' = [ordered EXCEPT ![u][k] = @ + n]
    /\ req' = [req EXCEPT ![u] = k]
    /\ UNCHANGED <<troops, zset, stage, batch, job, lost, now, faults>>

\* ZADD of the order's task; unlock.
EnqueueOrder(u) ==
    /\ req[u] # None
    /\ zset' = ZAdd(zset, EntryOf(u, req[u], queue[u][req[u]]))
    /\ lock' = [lock EXCEPT ![u] = "free"]
    /\ req' = [req EXCEPT ![u] = None]
    /\ UNCHANGED <<row, stage, batch, job, lost, now, faults>>

\* Redis refuses the ZADD and the error is dropped; unlock.
EnqueueFails(u) ==
    /\ req[u] # None
    /\ failures < MaxFailures
    /\ failures' = failures + 1
    /\ lost' = lost \cup {Task(u, req[u], queue[u][req[u]])}
    /\ lock' = [lock EXCEPT ![u] = "free"]
    /\ req' = [req EXCEPT ![u] = None]
    /\ UNCHANGED <<row, zset, stage, batch, job, now, crashes>>
-----------------------------------------------------------------------------
(* The consumer goroutine *)

\* Fault: the queue is trusted to have survived the crash.
SkipRebuild ==
    /\ stage = "rebuild"
    /\ stage' = "next"
    /\ UNCHANGED <<row, zset, lock, batch, job, req, lost, now, faults>>

\* The entries of all orders of all rows, and a rebuild that adds some of them.
OrderEntries ==
    UNION {{EntryOf(u, k, queue[u][k]) : k \in DOMAIN queue[u]} : u \in Players}

Readd(again) ==
    /\ stage = "rebuild"
    /\ zset' = {e \in zset : \A a \in again : a.task # e.task} \cup again
    /\ lost' = {a.task : a \in OrderEntries} \ {e.task : e \in zset'}
    /\ stage' = "next"
    /\ UNCHANGED <<row, lock, batch, job, req, now, crashes>>

\* rebuildDelayQueue: every order of every row gets its task again.
Rebuild == Readd(OrderEntries) /\ UNCHANGED failures

\* The query fails or ends early (nobody asks rows.Err), a row does not scan or
\* parse, a ZADD fails: some orders get no task, and the consumer goes on.
RebuildFails ==
    /\ failures < MaxFailures
    /\ failures' = failures + 1
    /\ \E again \in SUBSET OrderEntries : Readd(again)

Fetch ==
    /\ stage = "next"
    /\ batch = {}
    /\ batch' \in Batches(zset, now, BatchSize) \ {{}}
    /\ UNCHANGED <<row, zset, lock, stage, job, req, lost, now, faults>>

\* The player is busy: the task stays in the set for a later pass.
SkipLocked ==
    \E e \in First(batch) :
        /\ stage = "next"
        /\ lock[e.task.key.uid] # "free"
        /\ batch' = batch \ {e}
        /\ UNCHANGED <<row, zset, lock, stage, job, req, lost, now, faults>>

TakeTask ==
    \E e \in First(batch) :
        /\ stage = "next"
        /\ lock[e.task.key.uid] = "free"
        /\ lock' = [lock EXCEPT ![e.task.key.uid] = "consumer"]
        /\ batch' = batch \ {e}
        /\ job' = e
        /\ stage' = "handle"
        /\ UNCHANGED <<row, zset, req, lost, now, faults>>

\* The player and the kind of the task in hand, and the order it completes:
\* the test compares kind and number, and FinishAt of the order with itself.
JobUid == job.task.key.uid
JobKind == job.task.key.kind
Matches ==
    JobKind \in DOMAIN queue[JobUid] /\ queue[JobUid][JobKind].num = job.task.num

\* The row cannot be loaded: the task is dropped, though the order is there.
LoadFails ==
    /\ stage = "handle"
    /\ failures < MaxFailures
    /\ failures' = failures + 1
    /\ lost' = lost \cup {job.task}
    /\ stage' = "remove"
    /\ UNCHANGED <<row, zset, lock, batch, job, req, now, crashes>>

\* The row has no such order: nothing to complete.
NoOrder ==
    /\ stage = "handle"
    /\ ~Matches
    /\ stage' = "remove"
    /\ UNCHANGED <<row, zset, lock, batch, job, req, lost, now, faults>>

\* Fault: the order stays in the queue.
CompleteKeeps ==
    /\ stage = "handle"
    /\ Matches
    /\ troops' = [troops EXCEPT ![JobUid][JobKind] = @ + job.task.num]
    /\ stage' = "remove"
    /\ UNCHANGED <<queue, ordered, zset, lock, batch, job, req, lost, now, faults>>

\* The soldiers join the troops and the order leaves the queue, in one save.
Complete ==
    /\ stage = "handle"
    /\ Matches
    /\ troops' = [troops EXCEPT ![JobUid][JobKind] = @ + job.task.num]
    /\ queue' = [queue EXCEPT ![JobUid] = Drop(@, JobKind)]
    /\ stage' = "remove"
    /\ UNCHANGED <<ordered, zset, lock, batch, job, req, lost, now, faults>>

\* Fault: the task goes even though the save has failed.
SaveFailsRemoves ==
    /\ stage = "handle"
    /\ Matches
    /\ failures < MaxFailures
    /\ failures' = failures + 1
    /\ stage' = "remove"
    /\ UNCHANGED <<row, zset, lock, batch, job, req, lost, now, crashes>>

\* The save fails: the task stays in the set for a later pass.
SaveFails ==
    /\ stage = "handle"
    /\ Matches
    /\ failures < MaxFailures
    /\ failures' = failures + 1
    /\ lock' = [lock EXCEPT ![JobUid] = "free"]
    /\ job' = None
    /\ stage' = "next"
    /\ UNCHANGED <<row, zset, batch, req, lost, now, crashes>>

\* ZREM of the task that was fetched; unlock.
RemoveTask ==
    /\ stage = "remove"
    /\ zset' = ZRem(zset, job.task)
    /\ lock' = [lock EXCEPT ![JobUid] = "free"]
    /\ job' = None
    /\ stage' = "next"
    /\ UNCHANGED <<row, batch, req, lost, now, faults>>

Consume ==
    \/ Rebuild \/ RebuildFails \/ Fetch \/ SkipLocked \/ TakeTask \/ LoadFails
    \/ NoOrder \/ Complete \/ SaveFails \/ RemoveTask
-----------------------------------------------------------------------------
(* A server of another region on the same Redis *)

\* The consumer of another region's server, which runs the same code over its
\* own MySQL: neither the sorted set nor the lock has the region's prefix in
\* its name, so it takes a due task, finds no row of the player and removes it.
OtherRegionDrops ==
    \E e \in zset :
        /\ Cardinality(lost) < MaxStrays
        /\ e.score <= now
        /\ lock[e.task.key.uid] = "free"
        /\ zset' = ZRem(zset, e.task)
        /\ lost' = lost \cup {e.task}
        /\ UNCHANGED <<row, lock, stage, batch, job, req, now, faults>>
-----------------------------------------------------------------------------
(* The process and the clock *)

\* The process dies and starts again; Redis may lose its data with it.
Crash(wiped) ==
    /\ crashes < MaxCrashes
    /\ crashes' = crashes + 1
    /\ zset' = IF wiped THEN {} ELSE zset
    /\ lock' = [u \in Players |-> IF wiped \/ lock[u] = "free" THEN "free" ELSE "orphan"]
    /\ stage' = "rebuild"
    /\ batch' = {}
    /\ job' = None
    /\ req' = [u \in Players |-> None]
    /\ UNCHANGED <<row, lost, now, failures>>

\* The lock of a dead process goes when its 5 seconds are over.
LockExpires(u) ==
    /\ lock[u] = "orphan"
    /\ lock' = [lock EXCEPT ![u] = "free"]
    /\ UNCHANGED <<row, zset, stage, batch, job, req, lost, now, faults>>

\* Time goes on while an order is allowed or a task is still to come due.
Tick ==
    /\ now < LastOrder \/ \E e \in zset : e.score > now
    /\ now' = now + 1
    /\ UNCHANGED <<row, zset, lock, stage, batch, job, req, lost, faults>>

Next ==
    \/ Consume
    \/ \E u \in Players :
           \/ \E k \in Kinds, n \in Nums : UpdateTroops(u, k, n)
           \/ EnqueueOrder(u)
           \/ EnqueueFails(u)
           \/ LockExpires(u)
    \/ OtherRegionDrops
    \/ \E wiped \in BOOLEAN : Crash(wiped)
    \/ Tick

Spec == Init /\ [][Next]_vars

\* The clock runs, Redis expires locks, and the consumer and the requests
\* being served go on.
Fairness ==
    /\ WF_vars(Consume)
    /\ WF_vars(Tick)
    /\ \A u \in Players :
           WF_vars(EnqueueOrder(u) \/ EnqueueFails(u)) /\ WF_vars(LockExpires(u))

FairSpec == Spec /\ Fairness
-----------------------------------------------------------------------------
(* What the runs and the proofs check *)

Orders == [num : Nums, finish : Nat]
Tasks == [key : [uid : Players, kind : Kinds], num : Nums, finish : Nat]
Entries == [task : Tasks, score : Nat]

\* A training queue: orders by kind.
IsQueue(q) == DOMAIN q \subseteq Kinds /\ q \in [DOMAIN q -> Orders]

\* Every variable holds values of its kind, and locks tell who works.
TypeOK ==
    /\ queue = [u \in Players |-> queue[u]]
    /\ \A u \in Players : IsQueue(queue[u])
    /\ troops \in [Players -> [Kinds -> Nat]]
    /\ ordered \in [Players -> [Kinds -> Nat]]
    /\ zset \in SUBSET Entries
    /\ batch \in SUBSET Entries
    /\ lost \in SUBSET Tasks
    /\ lock \in [Players -> {"free", "request", "consumer", "orphan"}]
    /\ stage \in {"rebuild", "next", "handle", "remove"}
    /\ stage \in {"handle", "remove"} => job \in Entries /\ lock[JobUid] = "consumer"
    /\ req \in [Players -> Kinds \cup {None}]
    /\ now \in Nat
    /\ crashes \in 0..MaxCrashes
    /\ failures \in 0..MaxFailures

\* Soldiers of kind k that player u has in training.
InTraining(u, k) == IF k \in DOMAIN queue[u] THEN queue[u][k].num ELSE 0

\* What a player has ordered is in training or trained, and trained once:
\* a task delivered again after a crash, rebuilt, or left behind by a save
\* that failed neither loses nor doubles soldiers (consumeTrainQueue).
TrainedOnce ==
    \A u \in Players, k \in Kinds :
        troops[u][k] + InTraining(u, k) = ordered[u][k]

\* An order in training has its task, but while UpdateTroops is between its
\* save and its ZADD, before a restarted process has rebuilt the queue, or
\* when its task is known to be lost: the row could not be loaded when the task
\* was taken, by the server itself or by another region's, whose consumer takes
\* tasks of either; or ZADD, or the query of the last rebuild, failed.
\* A rebuild that does not fail mends it.
TrainingsScheduled ==
    stage # "rebuild" =>
        \A u \in Players : \A k \in DOMAIN queue[u] :
            LET task == Task(u, k, queue[u][k]) IN
            \/ \E e \in zset : e.task = task
            \/ req[u] = k
            \/ task \in lost

\* While the process lives, training takes its time: an order is completed
\* no earlier than its FinishAt.
TrainingLasts ==
    [][crashes = 0 =>
          \A u \in Players : \A k \in DOMAIN queue[u] :
              k \notin DOMAIN queue'[u] => queue[u][k].finish <= now]_vars

\* An order is completed in the end, over crashes, busy locks and saves that
\* fail, unless a task was lost: because the row could not be loaded when it
\* came due, or because ZADD or the query of the last rebuild failed.
TrainingsEnd ==
    \A u \in Players, k \in Kinds :
        k \in DOMAIN queue[u] ~> (k \notin DOMAIN queue[u] \/ lost # {})
-----------------------------------------------------------------------------
\* data/march.go:39, FinishAt is the "time stamp of completion" of an order:
\* no order is completed before it.
FinishAtHolds ==
    [][\A u \in Players : \A k \in DOMAIN queue[u] :
          k \notin DOMAIN queue'[u] => queue[u][k].finish <= now]_vars

\* config.yaml:22, the prefix is there for the "isolation" of Redis keys:
\* an order of a server that lives and does not fail is completed.
OrdersEnd ==
    \A u \in Players, k \in Kinds : k \in DOMAIN queue[u] ~> k \notin DOMAIN queue[u]
=============================================================================
