--------------------------- MODULE TrainingProofs ---------------------------
(***************************************************************************)
(* Proofs about Training, for any players, kinds, numbers, training times  *)
(* and bounds: nothing ordered is lost or trained twice, and an order in   *)
(* training keeps its task.                                                *)
(***************************************************************************)
EXTENDS Training, TLAPS

\* A request that has saved its order finds it in the row, under its lock.
RequestsHold ==
    \A u \in Players :
        req[u] # None => req[u] \in DOMAIN queue[u] /\ lock[u] = "request"

\* The task about to be removed is no order's, or is known to be lost.
RemovesNothingDue ==
    stage = "remove" =>
        \A u \in Players : \A k \in DOMAIN queue[u] :
            Task(u, k, queue[u][k]) = job.task => job.task \in lost

IInv ==
    /\ TypeOK
    /\ TrainedOnce
    /\ RequestsHold
    /\ RemovesNothingDue
    /\ TrainingsScheduled

\* An order joins a training queue (append to t.Queue).
LEMMA PutOrder ==
    ASSUME NEW q, IsQueue(q), NEW k \in Kinds, NEW o \in Orders
    PROVE  /\ IsQueue(Put(q, k, o))
           /\ DOMAIN Put(q, k, o) = DOMAIN q \cup {k}
           /\ Put(q, k, o)[k] = o
           /\ \A l \in DOMAIN q \ {k} : Put(q, k, o)[l] = q[l]
  BY DEF IsQueue, Put

\* An order leaves a training queue (the newQueue of consumeTrainQueue).
LEMMA DropOrder ==
    ASSUME NEW q, IsQueue(q), NEW k
    PROVE  /\ IsQueue(Drop(q, k))
           /\ DOMAIN Drop(q, k) = DOMAIN q \ {k}
           /\ \A l \in DOMAIN q \ {k} : Drop(q, k)[l] = q[l]
  BY DEF IsQueue, Drop

\* The task and the entry of an order.
LEMMA EntryTyped ==
    ASSUME NEW u \in Players, NEW k \in Kinds, NEW o \in Orders
    PROVE  /\ Task(u, k, o) \in Tasks
           /\ EntryOf(u, k, o) \in Entries
           /\ EntryOf(u, k, o).task = Task(u, k, o)
           /\ Task(u, k, o).key.uid = u
           /\ Task(u, k, o).key.kind = k
           /\ Task(u, k, o).num = o.num
  BY DEF Task, EntryOf, Entry, Entries, Tasks, Orders

\* The player and the kind of an entry.
LEMMA EntryNames ==
    ASSUME NEW e \in Entries
    PROVE  /\ e.task \in Tasks
           /\ e.task.key.uid \in Players
           /\ e.task.key.kind \in Kinds
           /\ e.task.num \in Nums
  BY DEF Entries, Tasks

\* The invariant holds at the start.
LEMMA InitInv == Init => IInv
<1> SUFFICES ASSUME Init PROVE IInv
  OBVIOUS
<1>1. TypeOK
  BY BoundsAssumption DEF Init, TypeOK, IsQueue
<1>2. TrainedOnce
  BY DEF Init, TrainedOnce, InTraining
<1>3. RequestsHold /\ RemovesNothingDue /\ TrainingsScheduled
  BY DEF Init, RequestsHold, RemovesNothingDue, TrainingsScheduled
<1> QED BY <1>1, <1>2, <1>3 DEF IInv

\* UpdateTroops saves an order; nobody else works on the row.
LEMMA UpdateKeepsInv ==
    ASSUME IInv, NEW u \in Players, NEW k \in Kinds, NEW n \in Nums,
           UpdateTroops(u, k, n)
    PROVE  IInv'
<1> DEFINE o == Order(n, now + TrainTime[k] * n)
<1>0. /\ TypeOK /\ TrainedOnce /\ RequestsHold /\ RemovesNothingDue
      /\ TrainingsScheduled /\ IsQueue(queue[u])
  BY DEF IInv, TypeOK
<1>1. o \in Orders /\ o.num = n /\ n \in Nat
  <2>1. n \in Nat /\ now \in Nat /\ TrainTime[k] \in Nat
    BY <1>0, NumsAssumption, TimesAssumption DEF TypeOK
  <2>2. now + TrainTime[k] * n \in Nat
    BY <2>1
  <2> QED BY <2>1, <2>2 DEF Order, Orders
<1>2. /\ lock[u] = "free" /\ k \notin DOMAIN queue[u]
      /\ lock' = [lock EXCEPT ![u] = "request"]
      /\ queue' = [queue EXCEPT ![u] = Put(queue[u], k, o)]
      /\ ordered' = [ordered EXCEPT ![u][k] = @ + n]
      /\ req' = [req EXCEPT ![u] = k]
      /\ UNCHANGED <<troops, zset, stage, batch, job, lost, now, crashes, failures>>
  BY DEF UpdateTroops, faults
<1> HIDE DEF o
<1>3. /\ queue' = [v \in Players |-> queue'[v]]
      /\ \A v \in Players \ {u} : queue'[v] = queue[v]
      /\ IsQueue(queue'[u])
      /\ DOMAIN queue'[u] = DOMAIN queue[u] \cup {k}
      /\ queue'[u][k] = o
      /\ \A l \in DOMAIN queue[u] : queue'[u][l] = queue[u][l]
  <2>1. queue'[u] = Put(queue[u], k, o)
    BY <1>0, <1>2 DEF TypeOK
  <2>2. /\ IsQueue(Put(queue[u], k, o))
        /\ DOMAIN Put(queue[u], k, o) = DOMAIN queue[u] \cup {k}
        /\ Put(queue[u], k, o)[k] = o
        /\ \A l \in DOMAIN queue[u] \ {k} : Put(queue[u], k, o)[l] = queue[u][l]
    BY <1>0, <1>1, PutOrder
  <2> QED BY <1>0, <1>2, <2>1, <2>2 DEF TypeOK
<1>4. ordered' \in [Players -> [Kinds -> Nat]]
  BY <1>0, <1>1, <1>2 DEF TypeOK
<1>5. stage \in {"handle", "remove"} => JobUid # u /\ JobUid' = JobUid /\ lock'[JobUid] = "consumer"
  BY <1>0, <1>2, EntryNames DEF TypeOK, JobUid
<1>6. TypeOK'
  BY <1>0, <1>2, <1>3, <1>4, <1>5 DEF TypeOK
<1>7. TrainedOnce'
  <2> SUFFICES ASSUME NEW v \in Players, NEW l \in Kinds
               PROVE  troops'[v][l] + InTraining(v, l)' = ordered'[v][l]
    BY DEF TrainedOnce
  <2>1. troops[v][l] + InTraining(v, l) = ordered[v][l] /\ troops[v][l] \in Nat
    BY <1>0 DEF TrainedOnce, TypeOK
  <2>2. CASE v = u /\ l = k
    <3>1. InTraining(v, l) = 0 /\ InTraining(v, l)' = n
      BY <1>1, <1>2, <1>3, <2>2 DEF InTraining
    <3>2. ordered'[v][l] = ordered[v][l] + n
      BY <1>0, <1>2, <2>2 DEF TypeOK
    <3> QED BY <1>1, <1>2, <2>1, <3>1, <3>2
  <2>3. CASE ~(v = u /\ l = k)
    <3>1. InTraining(v, l)' = InTraining(v, l)
      BY <1>3, <2>3 DEF InTraining
    <3>2. ordered'[v][l] = ordered[v][l]
      BY <1>0, <1>2, <2>3 DEF TypeOK
    <3> QED BY <1>2, <2>1, <3>1, <3>2
  <2> QED BY <2>2, <2>3
<1>8. RequestsHold'
  BY <1>0, <1>2, <1>3 DEF RequestsHold, TypeOK
<1>9. RemovesNothingDue'
  <2> SUFFICES ASSUME stage = "remove", NEW v \in Players, NEW l \in DOMAIN queue'[v],
                      Task(v, l, queue'[v][l]) = job.task
               PROVE  job.task \in lost
    BY <1>2 DEF RemovesNothingDue
  <2>1. v = JobUid
    BY DEF Task, JobUid
  <2> QED BY <1>0, <1>3, <1>5, <2>1 DEF RemovesNothingDue
<1>10. TrainingsScheduled'
  <2> SUFFICES ASSUME stage # "rebuild", NEW v \in Players, NEW l \in DOMAIN queue'[v]
               PROVE  \/ \E e \in zset : e.task = Task(v, l, queue'[v][l])
                      \/ req'[v] = l
                      \/ Task(v, l, queue'[v][l]) \in lost
    BY <1>2 DEF TrainingsScheduled
  <2>1. CASE v = u /\ l = k
    BY <1>0, <1>2, <2>1 DEF TypeOK
  <2>2. CASE v = u /\ l # k
    <3>1. req[u] = None
      BY <1>0, <1>2 DEF RequestsHold
    <3>2. l \in DOMAIN queue[u] /\ l \in Kinds /\ queue'[u][l] = queue[u][l]
      BY <1>0, <1>3, <2>2 DEF IsQueue
    <3> QED BY <1>0, <2>2, <3>1, <3>2, NoneAssumption DEF TrainingsScheduled
  <2>3. CASE v # u
    BY <1>0, <1>2, <1>3, <2>3 DEF TrainingsScheduled, TypeOK
  <2> QED BY <2>1, <2>2, <2>3
<1> QED BY <1>6, <1>7, <1>8, <1>9, <1>10 DEF IInv

\* ZADD of the order's task: the order has its task now.
LEMMA EnqueueKeepsInv ==
    ASSUME IInv, NEW u \in Players, EnqueueOrder(u)
    PROVE  IInv'
<1> DEFINE k == req[u]
           n == EntryOf(u, k, queue[u][k])
<1>0. /\ TypeOK /\ TrainedOnce /\ RequestsHold /\ RemovesNothingDue
      /\ TrainingsScheduled /\ IsQueue(queue[u])
  BY DEF IInv, TypeOK
<1>1. /\ req[u] # None /\ lock[u] = "request"
      /\ k \in DOMAIN queue[u] /\ k \in Kinds /\ queue[u][k] \in Orders
      /\ zset' = ZAdd(zset, n)
      /\ lock' = [lock EXCEPT ![u] = "free"]
      /\ req' = [req EXCEPT ![u] = None]
      /\ UNCHANGED <<queue, troops, ordered, stage, batch, job, lost, now, crashes, failures>>
  BY <1>0 DEF EnqueueOrder, row, faults, RequestsHold, IsQueue
<1>2. n \in Entries /\ n.task = Task(u, k, queue[u][k])
  BY <1>1, EntryTyped
<1> HIDE DEF n
<1>3. /\ zset' \in SUBSET Entries
      /\ n \in zset'
      /\ \A e \in zset : e.task # n.task => e \in zset'
  BY <1>0, <1>1, <1>2 DEF TypeOK, ZAdd
<1>4. stage \in {"handle", "remove"} => JobUid # u
  BY <1>0, <1>1 DEF TypeOK
<1>5. TypeOK'
  BY <1>0, <1>1, <1>3, <1>4, EntryNames DEF TypeOK, JobUid
<1>6. TrainedOnce' /\ RequestsHold' /\ RemovesNothingDue'
  BY <1>0, <1>1 DEF TypeOK, TrainedOnce, InTraining, RequestsHold, RemovesNothingDue
<1>7. TrainingsScheduled'
  BY <1>0, <1>1, <1>2, <1>3 DEF TrainingsScheduled, TypeOK
<1> QED BY <1>5, <1>6, <1>7 DEF IInv

\* ZADD fails: the task is known to be lost.
LEMMA EnqueueFailsKeepsInv ==
    ASSUME IInv, NEW u \in Players, EnqueueFails(u)
    PROVE  IInv'
<1> DEFINE k == req[u]
           t == Task(u, k, queue[u][k])
<1>0. /\ TypeOK /\ TrainedOnce /\ RequestsHold /\ RemovesNothingDue
      /\ TrainingsScheduled /\ IsQueue(queue[u])
  BY DEF IInv, TypeOK
<1>1. /\ req[u] # None /\ lock[u] = "request"
      /\ k \in Kinds /\ queue[u][k] \in Orders
      /\ lost' = lost \cup {t}
      /\ lock' = [lock EXCEPT ![u] = "free"]
      /\ req' = [req EXCEPT ![u] = None]
      /\ UNCHANGED <<queue, troops, ordered, zset, stage, batch, job, now, crashes>>
  BY <1>0 DEF EnqueueFails, row, RequestsHold, IsQueue
<1>2. t \in Tasks
  BY <1>1, EntryTyped
<1>3. failures' \in 0..MaxFailures
  BY <1>0, BoundsAssumption DEF EnqueueFails, TypeOK
<1>4. stage \in {"handle", "remove"} => JobUid # u
  BY <1>0, <1>1 DEF TypeOK
<1>5. TypeOK'
  <2>1. lost' \in SUBSET Tasks
    BY <1>0, <1>1, <1>2 DEF TypeOK
  <2> QED BY <1>0, <1>1, <1>3, <1>4, <2>1, EntryNames DEF TypeOK, JobUid
<1>6. TrainedOnce' /\ RequestsHold' /\ RemovesNothingDue'
  BY <1>0, <1>1 DEF TypeOK, TrainedOnce, InTraining, RequestsHold, RemovesNothingDue
<1>7. TrainingsScheduled'
  BY <1>0, <1>1 DEF TrainingsScheduled, TypeOK
<1> QED BY <1>5, <1>6, <1>7 DEF IInv

\* The entry of an order in a training queue.
LEMMA OrderEntryTyped ==
    ASSUME TypeOK, NEW u \in Players, NEW k \in DOMAIN queue[u]
    PROVE  /\ EntryOf(u, k, queue[u][k]) \in OrderEntries
           /\ EntryOf(u, k, queue[u][k]) \in Entries
           /\ EntryOf(u, k, queue[u][k]).task = Task(u, k, queue[u][k])
           /\ Task(u, k, queue[u][k]) \in Tasks
<1>1. k \in Kinds /\ queue[u][k] \in Orders
  BY DEF TypeOK, IsQueue
<1>2. EntryOf(u, k, queue[u][k]) \in OrderEntries
  BY DEF OrderEntries
<1> QED BY <1>1, <1>2, EntryTyped

\* rebuildDelayQueue, whatever it reads: an order gets its task, or has had
\* it all the time, or its task is known to be lost.
LEMMA ReaddKeepsInv ==
    ASSUME IInv, NEW again \in SUBSET OrderEntries, Readd(again),
           failures' \in 0..MaxFailures
    PROVE  IInv'
<1>0. /\ TypeOK /\ TrainedOnce /\ RequestsHold
  BY DEF IInv
<1>1. /\ stage = "rebuild" /\ stage' = "next"
      /\ zset' \subseteq zset \cup again
      /\ lost' = {a.task : a \in OrderEntries} \ {e.task : e \in zset'}
      /\ UNCHANGED <<queue, troops, ordered, lock, batch, job, req, now, crashes>>
  BY DEF Readd, row
<1>2. OrderEntries \subseteq Entries
  BY <1>0, OrderEntryTyped DEF OrderEntries
<1>3. zset' \in SUBSET Entries
  BY <1>0, <1>1, <1>2 DEF TypeOK
<1>4. lost' \in SUBSET Tasks
  BY <1>1, <1>2, EntryNames
<1>5. TypeOK'
  BY <1>0, <1>1, <1>3, <1>4 DEF TypeOK
<1>6. TrainedOnce' /\ RequestsHold' /\ RemovesNothingDue'
  BY <1>0, <1>1 DEF TrainedOnce, InTraining, RequestsHold, RemovesNothingDue
<1>7. TrainingsScheduled'
  <2> SUFFICES ASSUME NEW u \in Players, NEW k \in DOMAIN queue[u]
               PROVE  \/ \E e \in zset' : e.task = Task(u, k, queue[u][k])
                      \/ Task(u, k, queue[u][k]) \in lost'
    BY <1>1 DEF TrainingsScheduled
  <2>1. Task(u, k, queue[u][k]) \in {a.task : a \in OrderEntries}
    BY <1>0, OrderEntryTyped
  <2> QED BY <1>1, <2>1
<1> QED BY <1>5, <1>6, <1>7 DEF IInv

\* The rebuild that succeeds and the one that fails.
LEMMA RebuildKeepsInv ==
    ASSUME IInv, Rebuild \/ RebuildFails
    PROVE  IInv'
<1>1. PICK again \in SUBSET OrderEntries : Readd(again)
  BY DEF Rebuild, RebuildFails
<1>2. failures' \in 0..MaxFailures
  BY BoundsAssumption DEF Rebuild, RebuildFails, IInv, TypeOK
<1> QED BY <1>1, <1>2, ReaddKeepsInv

\* The consumer fetches what is due.
LEMMA FetchKeepsInv ==
    ASSUME IInv, Fetch
    PROVE  IInv'
<1>1. batch' \in SUBSET Entries
  BY DEF IInv, TypeOK, Fetch, Batches, Due
<1>2. stage = "next" /\ UNCHANGED <<queue, troops, ordered, zset, lock, stage, job, req,
                                    lost, now, crashes, failures>>
  BY DEF Fetch, row, faults
<1>3. TypeOK'
  BY <1>1, <1>2 DEF IInv, TypeOK
<1>4. TrainedOnce' /\ RequestsHold' /\ RemovesNothingDue' /\ TrainingsScheduled'
  BY <1>2 DEF IInv, TrainedOnce, InTraining, RequestsHold, RemovesNothingDue,
              TrainingsScheduled
<1> QED BY <1>3, <1>4 DEF IInv

\* The consumer leaves the task of a busy player, or takes one in hand.
LEMMA TakeKeepsInv ==
    ASSUME IInv, SkipLocked \/ TakeTask
    PROVE  IInv'
<1>0. UNCHANGED <<queue, troops, ordered, zset, req, lost, now, crashes, failures>>
  BY DEF SkipLocked, TakeTask, row, faults
<1>1. TrainedOnce'
  BY <1>0 DEF IInv, TrainedOnce, InTraining
<1>2. CASE SkipLocked
  <2>1. stage = "next" /\ batch' \subseteq batch /\ UNCHANGED <<lock, stage, job>>
    BY <1>2 DEF SkipLocked
  <2>2. TypeOK'
    BY <1>0, <2>1 DEF IInv, TypeOK
  <2>3. RequestsHold' /\ RemovesNothingDue' /\ TrainingsScheduled'
    BY <1>0, <2>1 DEF IInv, RequestsHold, RemovesNothingDue, TrainingsScheduled
  <2> QED BY <1>1, <2>2, <2>3 DEF IInv
<1>3. CASE TakeTask
  <2> PICK e \in First(batch) :
          /\ stage = "next"
          /\ lock[e.task.key.uid] = "free"
          /\ lock' = [lock EXCEPT ![e.task.key.uid] = "consumer"]
          /\ batch' = batch \ {e}
          /\ job' = e
          /\ stage' = "handle"
    BY <1>3 DEF TakeTask
  <2> DEFINE u == e.task.key.uid
  <2>1. e \in Entries /\ u \in Players
    BY EntryNames DEF IInv, TypeOK, First
  <2>2. lock[u] = "free" /\ lock' = [lock EXCEPT ![u] = "consumer"] /\ JobUid' = u
    BY DEF JobUid
  <2> HIDE DEF u
  <2>3. TypeOK'
    BY <1>0, <2>1, <2>2 DEF IInv, TypeOK
  <2>4. RequestsHold' /\ RemovesNothingDue' /\ TrainingsScheduled'
    BY <1>0, <2>1, <2>2 DEF IInv, TypeOK, RequestsHold, RemovesNothingDue,
                            TrainingsScheduled
  <2> QED BY <1>1, <2>3, <2>4 DEF IInv
<1> QED BY <1>2, <1>3

\* The task in hand names no order, or its order cannot be loaded.
LEMMA NoOrderKeepsInv ==
    ASSUME IInv, NoOrder \/ LoadFails
    PROVE  IInv'
<1>1. /\ stage = "handle" /\ stage' = "remove"
      /\ job \in Entries /\ lost \subseteq lost'
      /\ UNCHANGED <<queue, troops, ordered, zset, lock, batch, job, req, now, crashes>>
  BY DEF IInv, TypeOK, NoOrder, LoadFails, row, faults
<1>2. lost' \in SUBSET Tasks /\ failures' \in 0..MaxFailures
  BY <1>1, EntryNames, BoundsAssumption DEF IInv, TypeOK, NoOrder, LoadFails, faults
<1>3. TypeOK'
  BY <1>1, <1>2 DEF IInv, TypeOK, JobUid
<1>4. TrainedOnce' /\ RequestsHold' /\ TrainingsScheduled'
  BY <1>1 DEF IInv, TrainedOnce, InTraining, RequestsHold, TrainingsScheduled
<1>5. RemovesNothingDue'
  <2> SUFFICES ASSUME NEW u \in Players, NEW k \in DOMAIN queue[u],
                      Task(u, k, queue[u][k]) = job.task
               PROVE  job.task \in lost'
    BY <1>1 DEF RemovesNothingDue
  <2>1. Matches
    BY DEF Matches, JobUid, JobKind, Task
  <2> QED BY <2>1 DEF NoOrder, LoadFails
<1> QED BY <1>3, <1>4, <1>5 DEF IInv

\* The order of the task in hand is completed.
LEMMA CompleteKeepsInv ==
    ASSUME IInv, Complete
    PROVE  IInv'
<1> DEFINE u == JobUid
           k == JobKind
           n == job.task.num
<1>0. /\ TypeOK /\ TrainedOnce /\ RequestsHold /\ RemovesNothingDue
      /\ TrainingsScheduled /\ job \in Entries
  BY DEF IInv, TypeOK, Complete
<1>1. /\ u \in Players /\ k \in Kinds /\ n \in Nat
      /\ IsQueue(queue[u]) /\ lock[u] = "consumer"
  BY <1>0, EntryNames, NumsAssumption DEF TypeOK, Complete, JobUid, JobKind
<1>2. /\ k \in DOMAIN queue[u] /\ queue[u][k].num = n
      /\ troops' = [troops EXCEPT ![u][k] = @ + n]
      /\ queue' = [queue EXCEPT ![u] = Drop(queue[u], k)]
      /\ stage' = "remove"
      /\ UNCHANGED <<ordered, zset, lock, batch, job, req, lost, now, crashes, failures>>
  BY DEF Complete, Matches, faults
<1>3. Task(u, k, queue[u][k]).key.uid = u /\ JobUid' = u
  BY <1>2 DEF Task, JobUid
<1> HIDE DEF u, k, n
<1>4. /\ queue' = [v \in Players |-> queue'[v]]
      /\ \A v \in Players \ {u} : queue'[v] = queue[v]
      /\ IsQueue(queue'[u])
      /\ DOMAIN queue'[u] = DOMAIN queue[u] \ {k}
      /\ \A l \in DOMAIN queue'[u] : queue'[u][l] = queue[u][l]
  <2>1. queue'[u] = Drop(queue[u], k)
    BY <1>0, <1>1, <1>2 DEF TypeOK
  <2>2. /\ IsQueue(Drop(queue[u], k))
        /\ DOMAIN Drop(queue[u], k) = DOMAIN queue[u] \ {k}
        /\ \A l \in DOMAIN queue[u] \ {k} : Drop(queue[u], k)[l] = queue[u][l]
    BY <1>1, DropOrder
  <2> QED BY <1>0, <1>2, <2>1, <2>2 DEF TypeOK
<1>5. troops' \in [Players -> [Kinds -> Nat]]
  BY <1>0, <1>1, <1>2 DEF TypeOK
<1>6. TypeOK'
  BY <1>0, <1>1, <1>2, <1>3, <1>4, <1>5 DEF TypeOK
<1>7. TrainedOnce'
  <2> SUFFICES ASSUME NEW v \in Players, NEW l \in Kinds
               PROVE  troops'[v][l] + InTraining(v, l)' = ordered'[v][l]
    BY DEF TrainedOnce
  <2>1. troops[v][l] + InTraining(v, l) = ordered[v][l] /\ troops[v][l] \in Nat
    BY <1>0 DEF TrainedOnce, TypeOK
  <2>2. CASE v = u /\ l = k
    <3>1. InTraining(v, l) = n /\ InTraining(v, l)' = 0
      BY <1>2, <1>4, <2>2 DEF InTraining
    <3>2. troops'[v][l] = troops[v][l] + n
      BY <1>0, <1>2, <2>2 DEF TypeOK
    <3> QED BY <1>1, <1>2, <2>1, <3>1, <3>2
  <2>3. CASE ~(v = u /\ l = k)
    <3>1. InTraining(v, l)' = InTraining(v, l)
      BY <1>4, <2>3 DEF InTraining
    <3>2. troops'[v][l] = troops[v][l]
      BY <1>0, <1>2, <2>3 DEF TypeOK
    <3> QED BY <1>2, <2>1, <3>1, <3>2
  <2> QED BY <2>2, <2>3
<1>8. RequestsHold'
  BY <1>0, <1>1, <1>2, <1>4 DEF RequestsHold, TypeOK
<1>9. RemovesNothingDue'
  <2> SUFFICES ASSUME NEW v \in Players, NEW l \in DOMAIN queue'[v],
                      Task(v, l, queue'[v][l]) = job.task
               PROVE  FALSE
    BY <1>2 DEF RemovesNothingDue
  <2>1. v = u /\ l = k
    BY DEF Task, JobUid, JobKind, u, k
  <2> QED BY <1>4, <2>1
<1>10. TrainingsScheduled'
  BY <1>0, <1>2, <1>4 DEF TrainingsScheduled, Complete
<1> QED BY <1>6, <1>7, <1>8, <1>9, <1>10 DEF IInv

\* The consumer lets a task go: its save has failed, or it removes the task.
LEMMA ReleaseKeepsInv ==
    ASSUME IInv, SaveFails \/ RemoveTask
    PROVE  IInv'
<1>0. /\ TypeOK /\ TrainedOnce /\ RequestsHold /\ RemovesNothingDue
      /\ TrainingsScheduled
  BY DEF IInv
<1>1. /\ stage \in {"handle", "remove"} /\ stage' = "next"
      /\ lock' = [lock EXCEPT ![JobUid] = "free"]
      /\ UNCHANGED <<queue, troops, ordered, batch, req, lost, now, crashes>>
      /\ zset' \subseteq zset
      /\ \A e \in zset \ zset' : stage = "remove" /\ e.task = job.task
  BY DEF SaveFails, RemoveTask, row, faults, ZRem
<1>2. lock[JobUid] = "consumer" /\ failures' \in 0..MaxFailures
  BY <1>0, <1>1, BoundsAssumption DEF TypeOK, SaveFails, RemoveTask, faults
<1>3. TypeOK'
  BY <1>0, <1>1, <1>2 DEF TypeOK
<1>4. TrainedOnce' /\ RemovesNothingDue'
  BY <1>0, <1>1 DEF TrainedOnce, InTraining, RemovesNothingDue
<1>5. RequestsHold'
  BY <1>0, <1>1, <1>2 DEF RequestsHold, TypeOK
<1>6. TrainingsScheduled'
  <2> SUFFICES ASSUME NEW u \in Players, NEW k \in DOMAIN queue[u]
               PROVE  \/ \E e \in zset' : e.task = Task(u, k, queue[u][k])
                      \/ req[u] = k
                      \/ Task(u, k, queue[u][k]) \in lost
    BY <1>1 DEF TrainingsScheduled
  <2>1. \/ \E e \in zset : e.task = Task(u, k, queue[u][k])
        \/ req[u] = k
        \/ Task(u, k, queue[u][k]) \in lost
    BY <1>0, <1>1 DEF TrainingsScheduled
  <2> QED BY <1>0, <1>1, <2>1 DEF RemovesNothingDue
<1> QED BY <1>3, <1>4, <1>5, <1>6 DEF IInv

\* Another region's server takes a task, which is known to be lost.
LEMMA OtherRegionKeepsInv ==
    ASSUME IInv, OtherRegionDrops
    PROVE  IInv'
<1>0. /\ TypeOK /\ TrainedOnce /\ RequestsHold /\ RemovesNothingDue
      /\ TrainingsScheduled
  BY DEF IInv
<1> PICK e \in zset :
        /\ zset' = ZRem(zset, e.task)
        /\ lost' = lost \cup {e.task}
        /\ UNCHANGED <<row, lock, stage, batch, job, req, now, faults>>
  BY DEF OtherRegionDrops
<1>1. /\ zset' \subseteq zset
      /\ \A d \in zset \ zset' : d.task \in lost'
      /\ lost \subseteq lost' /\ lost' \in SUBSET Tasks
      /\ UNCHANGED <<queue, troops, ordered, lock, stage, batch, job, req, now, crashes,
                    failures>>
  <2>1. e.task \in Tasks
    BY <1>0, EntryNames DEF TypeOK
  <2> QED BY <1>0, <2>1 DEF TypeOK, ZRem, row, faults
<1>2. TypeOK'
  BY <1>0, <1>1 DEF TypeOK, JobUid
<1>3. TrainedOnce' /\ RequestsHold' /\ RemovesNothingDue'
  BY <1>0, <1>1 DEF TrainedOnce, InTraining, RequestsHold, RemovesNothingDue
<1>4. TrainingsScheduled'
  BY <1>0, <1>1 DEF TrainingsScheduled
<1> QED BY <1>2, <1>3, <1>4 DEF IInv

\* The process dies and starts again.
LEMMA CrashKeepsInv ==
    ASSUME IInv, NEW wiped \in BOOLEAN, Crash(wiped)
    PROVE  IInv'
<1>1. /\ zset' \subseteq zset
      /\ lock' \in [Players -> {"free", "orphan"}]
      /\ stage' = "rebuild" /\ batch' = {} /\ job' = None
      /\ req' = [u \in Players |-> None]
      /\ crashes' \in 0..MaxCrashes
      /\ UNCHANGED <<queue, troops, ordered, lost, now, failures>>
  <2>1. lock' \in [Players -> {"free", "orphan"}]
    BY DEF Crash
  <2>2. zset' \subseteq zset
    BY DEF Crash
  <2>3. crashes' \in 0..MaxCrashes
    BY BoundsAssumption DEF IInv, TypeOK, Crash
  <2> QED BY <2>1, <2>2, <2>3 DEF Crash, row
<1>2. TypeOK'
  BY <1>1 DEF IInv, TypeOK
<1>3. TrainedOnce' /\ RequestsHold' /\ RemovesNothingDue' /\ TrainingsScheduled'
  BY <1>1 DEF IInv, TrainedOnce, InTraining, RequestsHold, RemovesNothingDue,
              TrainingsScheduled
<1> QED BY <1>2, <1>3 DEF IInv

\* Locks of a dead process expire, the clock ticks, nothing happens.
LEMMA OthersKeepInv ==
    ASSUME IInv, (\E u \in Players : LockExpires(u)) \/ Tick \/ UNCHANGED vars
    PROVE  IInv'
<1>0. /\ UNCHANGED <<queue, troops, ordered, zset, stage, batch, job, req, lost, crashes,
                     failures>>
      /\ now' \in Nat
  BY DEF IInv, TypeOK, LockExpires, Tick, vars, row, faults
<1>1. lock' = lock \/ \E u \in Players : lock[u] = "orphan" /\ lock' = [lock EXCEPT ![u] = "free"]
  BY DEF LockExpires, Tick, vars
<1>2. TypeOK'
  <2>1. lock' \in [Players -> {"free", "request", "consumer", "orphan"}]
    BY <1>1 DEF IInv, TypeOK
  <2>2. stage \in {"handle", "remove"} => JobUid' = JobUid /\ lock'[JobUid] = "consumer"
    <3> SUFFICES ASSUME stage \in {"handle", "remove"}
                 PROVE  JobUid' = JobUid /\ lock'[JobUid] = "consumer"
      OBVIOUS
    <3>1. lock[JobUid] = "consumer" /\ JobUid \in Players
      BY EntryNames DEF IInv, TypeOK, JobUid
    <3>2. lock'[JobUid] = "consumer"
      BY <1>1, <3>1 DEF IInv, TypeOK
    <3> QED BY <1>0, <3>2 DEF JobUid
  <2> QED BY <1>0, <2>1, <2>2 DEF IInv, TypeOK
<1>3. RequestsHold'
  BY <1>0, <1>1 DEF IInv, TypeOK, RequestsHold
<1>4. TrainedOnce' /\ RemovesNothingDue' /\ TrainingsScheduled'
  BY <1>0 DEF IInv, TrainedOnce, InTraining, RemovesNothingDue, TrainingsScheduled
<1> QED BY <1>2, <1>3, <1>4 DEF IInv

\* The invariant is inductive.
LEMMA NextKeepsInv ==
    ASSUME IInv, [Next]_vars
    PROVE  IInv'
<1>1. CASE Consume
  BY <1>1, RebuildKeepsInv, FetchKeepsInv, TakeKeepsInv, NoOrderKeepsInv,
     CompleteKeepsInv, ReleaseKeepsInv DEF Consume
<1>2. ASSUME NEW u \in Players, NEW k \in Kinds, NEW n \in Nums, UpdateTroops(u, k, n)
      PROVE  IInv'
  BY <1>2, UpdateKeepsInv
<1>3. ASSUME NEW u \in Players, EnqueueOrder(u)
      PROVE  IInv'
  BY <1>3, EnqueueKeepsInv
<1>5. ASSUME NEW u \in Players, EnqueueFails(u)
      PROVE  IInv'
  BY <1>5, EnqueueFailsKeepsInv
<1>4. ASSUME NEW wiped \in BOOLEAN, Crash(wiped)
      PROVE  IInv'
  BY <1>4, CrashKeepsInv
<1> QED BY <1>1, <1>2, <1>3, <1>4, <1>5, OtherRegionKeepsInv, OthersKeepInv DEF Next

\* IInv holds in every state.
THEOREM Invariance == Spec => []IInv
<1>1. IInv /\ [Next]_vars => IInv'
  BY NextKeepsInv
<1> QED BY <1>1, InitInv, PTL DEF Spec

\* Nothing ordered is lost and nothing is trained twice, over any number of
\* crashes, failed loads and saves, and deliveries of a task.
THEOREM OrdersTrainedOnce == Spec => []TrainedOnce
<1>1. IInv => TrainedOnce
  BY DEF IInv
<1> QED BY <1>1, Invariance, PTL

\* An order in training keeps its task in the delay queue, unless the task is
\* known to be lost, over rebuilds and ZADDs that fail, too.
THEOREM OrdersStayScheduled == Spec => []TrainingsScheduled
<1>1. IInv => TrainingsScheduled
  BY DEF IInv
<1> QED BY <1>1, Invariance, PTL

\* Every variable holds values of its kind.
THEOREM TypeCorrect == Spec => []TypeOK
<1>1. IInv => TypeOK
  BY DEF IInv
<1> QED BY <1>1, Invariance, PTL
-----------------------------------------------------------------------------
(* Training takes its time *)

\* The entry is that of an order as the row has it, due when the order is over.
Fresh(e) ==
    LET u == e.task.key.uid
        k == e.task.key.kind
    IN  /\ e.score = e.task.finish
        /\ k \in DOMAIN queue[u]
        /\ e.task = Task(u, k, queue[u][k])

\* Before the first crash every entry is fresh, but for the one whose order has
\* just been completed, and what the consumer has is due.
TasksFresh ==
    crashes = 0 =>
        /\ \A e \in zset : Fresh(e) \/ (stage = "remove" /\ e.task = job.task)
        /\ \A e \in batch : Fresh(e) /\ e.score <= now
        /\ stage = "handle" => job \notin batch /\ Fresh(job) /\ job.score <= now

\* Entries in different places name different orders.
LEMMA OrderOfEntry ==
    ASSUME NEW d \in Entries, NEW e \in Entries, Fresh(d), Fresh(e),
           d.task.key = e.task.key
    PROVE  d = e
  BY DEF Fresh, Entries

\* An order is completed: the entries of others stay fresh.
LEMMA CompleteKeepsFresh ==
    ASSUME IInv, TasksFresh, Complete
    PROVE  TasksFresh'
<1> SUFFICES ASSUME crashes = 0
             PROVE  /\ \A e \in zset : Fresh(e)' \/ e.task = job.task
                    /\ \A e \in batch : Fresh(e)' /\ e.score <= now
  BY DEF Complete, TasksFresh, faults
<1>1. /\ TypeOK /\ stage = "handle" /\ job \in Entries /\ Fresh(job) /\ job \notin batch
      /\ queue' = [queue EXCEPT ![JobUid] = Drop(@, JobKind)]
  BY DEF IInv, TypeOK, TasksFresh, Complete
<1>2. ASSUME NEW e \in Entries, Fresh(e), e # job
      PROVE  Fresh(e)'
  <2> DEFINE u == e.task.key.uid
             k == e.task.key.kind
  <2>1. e.task.key # job.task.key
    BY <1>1, <1>2, OrderOfEntry
  <2>2. /\ u \in Players /\ IsQueue(queue[u])
        /\ e.task.key = [uid |-> u, kind |-> k]
        /\ job.task.key = [uid |-> JobUid, kind |-> JobKind]
    BY <1>1, <1>2 DEF TypeOK, Entries, Tasks, JobUid, JobKind
  <2>3. u # JobUid \/ k # JobKind
    BY <2>1, <2>2
  <2>4. k \in DOMAIN queue[u] /\ e.task = Task(u, k, queue[u][k]) /\ e.score = e.task.finish
    BY <1>2 DEF Fresh
  <2> HIDE DEF u, k
  <2>5. k \in DOMAIN queue'[u] /\ queue'[u][k] = queue[u][k]
    <3>1. CASE u # JobUid
      <4>1. queue = [v \in Players |-> queue[v]]
        BY <1>1 DEF TypeOK
      <4>2. queue'[u] = queue[u]
        BY <1>1, <2>2, <3>1, <4>1
      <4> QED BY <2>4, <4>2
    <3>2. CASE u = JobUid /\ k # JobKind
      <4>1. queue'[u] = Drop(queue[u], JobKind)
        BY <1>1, <2>2, <3>2 DEF TypeOK
      <4> QED BY <2>4, <3>2, <4>1 DEF Drop
    <3> QED BY <2>3, <3>1, <3>2
  <2> QED BY <2>4, <2>5 DEF Fresh, Task, u, k
<1>3. ASSUME NEW e \in zset
      PROVE  Fresh(e)' \/ e.task = job.task
  BY <1>1, <1>2, <1>3 DEF TasksFresh, IInv, TypeOK
<1>4. ASSUME NEW e \in batch
      PROVE  Fresh(e)' /\ e.score <= now
  BY <1>1, <1>2, <1>4 DEF TasksFresh, IInv, TypeOK
<1> QED BY <1>3, <1>4

\* A new order leaves the entries of the others fresh.
LEMMA UpdateKeepsFresh ==
    ASSUME IInv, TasksFresh, NEW u \in Players, NEW k \in Kinds, NEW n \in Nums,
           UpdateTroops(u, k, n)
    PROVE  TasksFresh'
<1>1. \A v \in Players : \A l \in DOMAIN queue[v] :
          l \in DOMAIN queue'[v] /\ queue'[v][l] = queue[v][l]
  <2> SUFFICES ASSUME NEW v \in Players, NEW l \in DOMAIN queue[v]
               PROVE  l \in DOMAIN queue'[v] /\ queue'[v][l] = queue[v][l]
    OBVIOUS
  <2> DEFINE o == Order(n, now + TrainTime[k] * n)
  <2>1. /\ k \notin DOMAIN queue[u] /\ queue = [w \in Players |-> queue[w]]
        /\ queue' = [queue EXCEPT ![u] = Put(queue[u], k, o)]
    BY DEF IInv, TypeOK, UpdateTroops
  <2> HIDE DEF o
  <2>2. CASE v = u
    BY <2>1, <2>2 DEF Put
  <2>3. CASE v # u
    BY <2>1, <2>3
  <2> QED BY <2>2, <2>3
<1>2. \A e \in Entries : Fresh(e) => Fresh(e)'
  BY <1>1, EntryNames DEF Fresh, Task
<1>3. /\ TypeOK
      /\ UNCHANGED <<zset, stage, batch, job, now, crashes>>
  BY DEF IInv, UpdateTroops, faults
<1> QED BY <1>2, <1>3 DEF TasksFresh, TypeOK

\* The other steps leave the rows alone and add only entries of orders.
LEMMA OthersKeepFresh ==
    ASSUME IInv, TasksFresh, [Next]_vars, queue' = queue
    PROVE  TasksFresh'
<1>0. TypeOK
  BY DEF IInv
<1>1. \A e : Fresh(e)' = Fresh(e)
  BY DEF Fresh, Task
<1>2. \A v \in Players : \A l \in DOMAIN queue[v] :
          LET d == EntryOf(v, l, queue[v][l]) IN Fresh(d)
  BY DEF Fresh, EntryOf, Entry, Task
<1>3. CASE Rebuild \/ RebuildFails
  <2> PICK again \in SUBSET OrderEntries : Readd(again)
    BY <1>3 DEF Rebuild, RebuildFails
  <2>1. \A e \in zset' : e \in zset \/ \E v \in Players : \E l \in DOMAIN queue[v] :
                                             e = EntryOf(v, l, queue[v][l])
    BY DEF Readd, OrderEntries
  <2>2. stage = "rebuild" /\ stage' = "next" /\ UNCHANGED <<batch, job, now, crashes>>
    BY DEF Readd
  <2> QED BY <1>1, <1>2, <2>1, <2>2 DEF TasksFresh
<1>4. CASE Fetch
  <2>1. batch' \subseteq {e \in zset : e.score <= now}
    BY <1>4 DEF Fetch, Batches, Due
  <2>2. stage = "next" /\ UNCHANGED <<zset, stage, job, now, crashes>>
    BY <1>4 DEF Fetch, faults
  <2> QED BY <1>1, <2>1, <2>2 DEF TasksFresh
<1>5. CASE SkipLocked
  BY <1>1, <1>5 DEF SkipLocked, TasksFresh, faults
<1>6. CASE TakeTask
  BY <1>1, <1>6 DEF TakeTask, TasksFresh, First, faults
<1>7. CASE LoadFails \/ NoOrder
  BY <1>1, <1>7 DEF LoadFails, NoOrder, TasksFresh, faults
<1>8. CASE SaveFails
  BY <1>1, <1>8 DEF SaveFails, TasksFresh
<1>9. CASE RemoveTask
  BY <1>1, <1>9 DEF RemoveTask, TasksFresh, ZRem, faults
<1>10. CASE OtherRegionDrops
  BY <1>1, <1>10 DEF OtherRegionDrops, TasksFresh, ZRem, faults
<1>11. ASSUME NEW u \in Players, EnqueueOrder(u) PROVE TasksFresh'
  <2>1. req[u] \in DOMAIN queue[u] /\ zset' = ZAdd(zset, EntryOf(u, req[u], queue[u][req[u]]))
    BY <1>11 DEF EnqueueOrder, IInv, RequestsHold
  <2>2. \A e \in zset' : e \in zset \/ e = EntryOf(u, req[u], queue[u][req[u]])
    BY <2>1 DEF ZAdd
  <2>3. UNCHANGED <<stage, batch, job, now, crashes>>
    BY <1>11 DEF EnqueueOrder, faults
  <2> QED BY <1>1, <1>2, <2>1, <2>2, <2>3 DEF TasksFresh
<1>12. CASE \E wiped \in BOOLEAN : Crash(wiped)
  BY <1>0, <1>12 DEF Crash, TasksFresh, TypeOK
<1>13. CASE Tick \/ (\E u \in Players : LockExpires(u)) \/ UNCHANGED vars
  <2>1. /\ now' \in {now, now + 1} /\ now \in Nat
        /\ UNCHANGED <<zset, stage, batch, job, crashes>>
    BY <1>0, <1>13 DEF Tick, LockExpires, vars, faults, TypeOK
  <2>2. \A e \in zset \cup batch \cup {job} : e.score <= now /\ e \in Entries => e.score <= now'
    BY <2>1 DEF Entries
  <2>3. stage = "handle" => job \in Entries
    BY <1>0 DEF TypeOK
  <2> QED BY <1>0, <1>1, <2>1, <2>2, <2>3 DEF TasksFresh, TypeOK
<1>16. ASSUME NEW u \in Players, EnqueueFails(u) PROVE TasksFresh'
  BY <1>1, <1>16 DEF EnqueueFails, TasksFresh
<1>14. CASE Complete
  BY <1>14, CompleteKeepsFresh
<1>15. ASSUME NEW u \in Players, NEW k \in Kinds, NEW n \in Nums, UpdateTroops(u, k, n)
       PROVE  TasksFresh'
  BY <1>15, UpdateKeepsFresh
<1> QED BY <1>3, <1>4, <1>5, <1>6, <1>7, <1>8, <1>9, <1>10, <1>11, <1>12, <1>13, <1>14,
           <1>15, <1>16 DEF Next, Consume

\* An order is completed by its own task, which is due.
LEMMA CompletesInTime ==
    ASSUME IInv, TasksFresh, [Next]_vars, crashes = 0,
           NEW u \in Players, NEW k \in DOMAIN queue[u], k \notin DOMAIN queue'[u]
    PROVE  queue[u][k].finish <= now
<1>1. ASSUME NEW v \in Players, NEW l \in Kinds, NEW n \in Nums, UpdateTroops(v, l, n)
      PROVE  FALSE
  <2> DEFINE o == Order(n, now + TrainTime[l] * n)
  <2>1. queue = [w \in Players |-> queue[w]] /\ queue' = [queue EXCEPT ![v] = Put(queue[v], l, o)]
    BY <1>1 DEF IInv, TypeOK, UpdateTroops
  <2> HIDE DEF o
  <2> QED BY <2>1 DEF Put
<1>2. CASE Complete
  <2>1. /\ stage = "handle" /\ queue = [v \in Players |-> queue[v]] /\ IsQueue(queue[JobUid])
        /\ queue' = [queue EXCEPT ![JobUid] = Drop(queue[JobUid], JobKind)]
        /\ JobUid \in Players /\ job \in Entries
    BY <1>2, EntryNames DEF Complete, IInv, TypeOK, JobUid
  <2>2. Fresh(job) /\ job.score <= now
    BY <2>1 DEF TasksFresh
  <2>3. u = JobUid /\ k = JobKind
    <3>1. u = JobUid
      BY <2>1
    <3>2. queue'[u] = Drop(queue[u], JobKind)
      BY <2>1, <3>1
    <3> QED BY <3>1, <3>2 DEF Drop
  <2> QED BY <2>2, <2>3 DEF Fresh, Task, JobUid, JobKind
<1>3. CASE queue' = queue
  BY <1>3
<1>4. queue' = queue \/ Complete \/ \E v \in Players, l \in Kinds, n \in Nums : UpdateTroops(v, l, n)
  BY DEF Next, Consume, Rebuild, RebuildFails, Readd, Fetch, SkipLocked, TakeTask, LoadFails, NoOrder, SaveFails,
         RemoveTask, EnqueueOrder, EnqueueFails, LockExpires, OtherRegionDrops, Crash, Tick, vars, row
<1> QED BY <1>1, <1>2, <1>3, <1>4

\* While the process lives no order is completed before its FinishAt, though
\* the consumer compares an order's FinishAt with itself.
THEOREM TrainingTakesItsTime == Spec => TrainingLasts
<1>1. Init => TasksFresh
  BY DEF Init, TasksFresh
<1>2. IInv /\ TasksFresh /\ [Next]_vars => TasksFresh'
  <2> SUFFICES ASSUME IInv, TasksFresh, [Next]_vars PROVE TasksFresh'
    OBVIOUS
  <2>1. queue' = queue \/ Complete \/ \E v \in Players, l \in Kinds, n \in Nums : UpdateTroops(v, l, n)
    BY DEF Next, Consume, Rebuild, RebuildFails, Readd, Fetch, SkipLocked, TakeTask, LoadFails, NoOrder, SaveFails,
           RemoveTask, EnqueueOrder, EnqueueFails, LockExpires, OtherRegionDrops, Crash, Tick, vars, row
  <2> QED BY <2>1, OthersKeepFresh, CompleteKeepsFresh, UpdateKeepsFresh
<1>3. IInv /\ TasksFresh /\ [Next]_vars =>
        [crashes = 0 =>
          \A u \in Players : \A k \in DOMAIN queue[u] :
              k \notin DOMAIN queue'[u] => queue[u][k].finish <= now]_vars
  BY CompletesInTime
<1> QED BY <1>1, <1>2, <1>3, Invariance, PTL DEF Spec, TrainingLasts
=============================================================================
