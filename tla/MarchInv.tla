------------------------------ MODULE MarchInv ------------------------------
(***************************************************************************)
(* The inductive invariants of March, in named parts.                      *)
(***************************************************************************)
EXTENDS March

\* The consumer has a task in hand, or an entry to add.
Busy == stage \in {"handle", "turn", "enqueue", "enqueueThenLeave", "leave", "finish"}
Adding == stage \in {"enqueue", "enqueueThenLeave"}

\* A request and the consumer work on a row under its lock only, and find
\* there what they left.
LocksHeld ==
    /\ \A u \in Players :
           req[u].stage # "idle" =>
               /\ lock[u] = "request"
               /\ req[u].key \in DOMAIN attack[u]
               /\ req[u].stage = "turn" =>
                      attack[u][req[u].key].status = "gathering"
    /\ Busy => job.entry \in Entries /\ lock[JobUid] = "consumer"
    /\ stage = "turn" =>
           JobKey \in DOMAIN attack[JobUid] /\ JobMarch.status = "gathering"
    /\ Adding => job.add \in Entries

\* The march a return key was made from.
MarchOf(k) == [k EXCEPT !.leg = "march"]

\* Keys are of the past, a march is older than its ArriveTime, and a return key
\* excludes the key it was made from.
KeyPast(r, k, t) ==
    /\ k.at <= t
    /\ k.at < r[k].arrive
    /\ r[k].status = "gathering" => k.at < t
    /\ k.leg = "return" => k.at < t /\ MarchOf(k) \notin DOMAIN r
KeysPast ==
    \A u \in Players : \A k \in DOMAIN attack[u] : KeyPast(attack[u], k, now)

\* Every entry there is: in Redis, fetched, in hand, or about to be added.
AllEntries ==
    zset \cup batch \cup (IF Busy THEN {job.entry} ELSE {})
         \cup (IF Adding THEN {job.add} ELSE {})

\* No entry comes before the ArriveTime of the march it names, unless a second
\* launch of the same second has taken the name; none comes in the second of its
\* key's launch, and none names a key of the future, so none waits for a march
\* yet to be launched.
EntryOK(r, k, score, t) ==
    /\ k \in DOMAIN r /\ r[k].status = "returning" => r[k].arrive <= score
    /\ k \in DOMAIN r /\ r[k].status = "going" => SameSecond \/ r[k].arrive <= score
    /\ k.at < score
    /\ k.at <= t
    /\ k.leg = "march" /\ k.at = t => k \in DOMAIN r
    /\ k.leg = "return" => k.at < t /\ MarchOf(k) \notin DOMAIN r
EntriesOK ==
    \A e \in AllEntries :
        EntryOK(attack[e.task.key.uid], e.task.key, e.score, now)

\* What was fetched was due.
FetchedDue == \A e \in batch \cup (IF Busy THEN {job.entry} ELSE {}) : e.score <= now

IInv == TypeOK /\ LocksHeld /\ KeysPast /\ EntriesOK /\ FetchedDue
-----------------------------------------------------------------------------
(***************************************************************************)
(* What a step may do to the soldiers: nothing, or one of these four.      *)
(***************************************************************************)
Departs(u, k, m) ==
    /\ k \in Keys
    /\ SameSecond \/ k \notin DOMAIN attack[u]
    /\ k.leg = "march" /\ k.at = now
    /\ m \in Marches
    /\ m.status = "going"
    /\ m.troops \in Parties(home[u], fallen[u], attack[u], Loans[u])
    /\ home' = [home EXCEPT ![u] = (@ \ m.troops) \cup Lent(m.troops, Loans[u])]
    /\ attack' = [attack EXCEPT ![u] = Put(@, k, m)]
    /\ fallen' = fallen

StartsGathering(u, k) ==
    /\ attack[u][k].status = "going"
    /\ attack[u][k].type = "gather"
    /\ SameSecond \/ attack[u][k].arrive <= now
    /\ attack' = [attack EXCEPT ![u][k] = GatheringMarch(attack[u][k])]
    /\ UNCHANGED <<home, fallen>>

TurnsBack(u, k, lost, carry) ==
    /\ \/ /\ attack[u][k].status = "going"
          /\ SameSecond \/ attack[u][k].arrive <= now
          /\ \/ attack[u][k].type = "attack" /\ lost \in Losses(attack[u][k].troops, Loans[u])
             \/ attack[u][k].type = "station" /\ lost = {}
       \/ attack[u][k].status = "gathering" /\ lost = {}
    /\ SaveReturn(u, k, lost, carry)

ComesHome(u, k) ==
    /\ attack[u][k].status = "returning"
    /\ attack[u][k].arrive <= now
    /\ SaveHome(u, k)

RowStep ==
    \/ UNCHANGED <<home, attack, fallen>>
    \/ \E u \in Players :
           \/ \E k \in Keys, m \in Marches : Departs(u, k, m)
           \/ \E k \in DOMAIN attack[u] :
                  \/ StartsGathering(u, k)
                  \/ \E lost \in SUBSET attack[u][k].troops, carry \in {0, GatherAmount} :
                         TurnsBack(u, k, lost, carry)
                  \/ ComesHome(u, k)

\* Who is at home h, fallen f or on a march of row r is of the army, or lent and
\* owed, and there only; all the army is, and of what is lent also what is owed,
\* unless a launch replaced one of the same second.
Conserved(army, loans, h, f, r) ==
    /\ Places(h, f, r) \subseteq army \cup loans \cup Debts(loans)
    /\ \/ SameSecond
       \/ /\ army \subseteq Places(h, f, r)
          /\ \A g \in loans : g \in Places(h, f, r) <=> Debt(g) \in Places(h, f, r)
    /\ h \cap f = {}
    /\ \A k \in DOMAIN r :
           /\ r[k].troops \cap (h \cup f) = {}
           /\ \A l \in DOMAIN r \ {k} : r[k].troops \cap r[l].troops = {}

\* Only a gathering gathers.
GathersTyped ==
    \A u \in Players : \A k \in DOMAIN attack[u] :
        attack[u][k].status = "gathering" => attack[u][k].type = "gather"

\* Whoever is anywhere is a soldier of the player, or one lent or owed by a party
\* below zero, and at one place only: two launches of one second may lose a
\* party, and still double nobody.
NobodyTwice ==
    \A u \in Players :
        /\ Places(home[u], fallen[u], attack[u]) \subseteq Tokens(u)
        /\ home[u] \cap fallen[u] = {}
        /\ \A k \in DOMAIN attack[u] :
               /\ attack[u][k].troops \cap (home[u] \cup fallen[u]) = {}
               /\ \A l \in DOMAIN attack[u] \ {k} :
                      attack[u][k].troops \cap attack[u][l].troops = {}

\* The strengthening of SoldiersConserved, of NobodyTwice and of the refinement.
SoldiersInv ==
    /\ \A u \in Players : Conserved(Army[u], Loans[u], home[u], fallen[u], attack[u])
    /\ GathersTyped

\* The trips of a row, and of all rows.
TripsOf(r) == [k \in DOMAIN r |-> Trip(r[k])]
Out == [u \in Players |-> TripsOf(attack[u])]
-----------------------------------------------------------------------------
(***************************************************************************)
(* The strengthening of MarchesScheduled: the entry of a march survives    *)
(* the ZREM the consumer is about to do.                                   *)
(***************************************************************************)

\* The march of u is due to get its task in a later step of what is running.
Coming(u, k) ==
    \/ Adding /\ job.add.task.key = k
    \/ req[u].stage # "idle" /\ req[u].key = k

\* Its handler is done with the row: what is left is ZADD, the cell and ZREM.
Handled == stage \in {"enqueue", "enqueueThenLeave", "leave", "finish"}

Kept(k) ==
    \E e \in zset : e.task.key = k /\ (Handled => e.task # job.entry.task)

\* The task of a march on its way out is scored no earlier than it says, so
\* the task of the gathering that follows is another member of the set.
FinishOK(e, r) ==
    e.task.key \in DOMAIN r /\ r[e.task.key].status = "going" => e.task.finish <= e.score

TasksOK ==
    /\ \A e \in AllEntries : FinishOK(e, attack[e.task.key.uid])
    /\ Adding => job.add.task # job.entry.task

Scheduled ==
    stage # "rebuild" /\ failures = 0 =>
        \A u \in Players : \A k \in DOMAIN attack[u] :
            attack[u][k].status # "going" => Coming(u, k) \/ Kept(k)

TaskInv == TasksOK /\ Scheduled

\* A new entry is scored no earlier than its task says, or names a gathering.
EntryNew(e) ==
    \/ e.task.finish <= e.score
    \/ e.task.key \in DOMAIN attack'[e.task.key.uid]
           => attack'[e.task.key.uid][e.task.key].status # "going"
-----------------------------------------------------------------------------
(***************************************************************************)
(* The strengthening of GathererHoldsCell: what the queue of a cell holds, *)
(* in memory and in Redis.                                                 *)
(***************************************************************************)
QueueItems == [key : Keys, arriveAt : Nat]

\* No purge before t + 1 drops the item.
Fresh(item, t) == item.arriveAt >= t - StaleAfter

Waits(q, k, t) == \E i \in DOMAIN q : q[i].key = k /\ Fresh(q[i], t)

\* The march is the first the purge at t leaves in the queue.
Leads(q, k, t) ==
    \E i \in DOMAIN q :
        /\ q[i].key = k
        /\ Fresh(q[i], t)
        /\ \A j \in DOMAIN q : j < i => ~Fresh(q[j], t)

\* A march is at most once in a queue, with the time it was to arrive; rows r
\* still have those launched in this second t.
QueueOK(q, c, r, t) ==
    /\ q \in Seq(QueueItems)
    /\ \A i, j \in DOMAIN q : q[i].key = q[j].key => i = j
    /\ \A i \in DOMAIN q :
           LET k == q[i].key IN
           /\ q[i].arriveAt = k.at + Travel[c]
           /\ k.at <= t
           /\ k.at = t => k \in DOMAIN r[k.uid]

\* From second t on, two queues tell the same about every march.
Agree(p, q, t) ==
    \A k \in Keys, s \in Nat :
        s >= t => /\ Waits(p, k, s) <=> Waits(q, k, s)
                  /\ Leads(p, k, s) <=> Leads(q, k, s)

\* A cell's queue m in memory has a copy d in Redis that lags in purges only.
CellOK(m, d, c, r, t) ==
    /\ m # None => QueueOK(m, c, r, t) /\ d # None /\ Agree(m, d, t)
    /\ d # None => QueueOK(d, c, r, t)

CellsOK == \A c \in Cells : CellOK(cellMem[c], cellCache[c], c, attack, now)

\* Requests are served, and the first run goes on, with the map in memory.
CellsLoaded ==
    /\ crashes = 0 => loaded = Cells
    /\ \A u \in Players : req[u].stage # "idle" => loaded = Cells
    /\ \A c \in loaded : cellMem[c] # None

\* What was launched is on its way as it was launched.
GoingArrives ==
    \A u \in Players : \A k \in DOMAIN attack[u] :
        attack[u][k].status = "going" =>
            attack[u][k].arrive = k.at + Travel[attack[u][k].cell]

InQueue(m, d, k) == (m # None /\ Listed(m, k)) \/ (d # None /\ Listed(d, k))

\* A march to be registered is in no queue yet.
Registering ==
    \A u \in Players :
        req[u].stage = "register" =>
            /\ attack[u][req[u].key].status = "going"
            /\ \A c \in Cells : ~InQueue(cellMem[c], cellCache[c], req[u].key)

\* The consumer strikes off a march that is no longer in the row.
Leaving ==
    stage \in {"enqueueThenLeave", "leave"} /\ failures = 0 =>
        JobKey \notin DOMAIN attack[JobUid]

\* Who gathers and waits in the queue leads it, and nobody is turning him
\* back; before the first crash he waits in it until someone does.
Holds(u, k) ==
    LET m == attack[u][k]
        q == CellQueue(m.cell)
    IN  m.status = "gathering" =>
            /\ q # None /\ Waits(q, k, now) => Leads(q, k, now) /\ ~TurningBack(u, k)
            /\ /\ crashes = 0
               /\ ~TurningBack(u, k)
               /\ now <= k.at + Travel[m.cell] + StaleAfter
               => q # None /\ Waits(q, k, now)
Gatherers ==
    failures = 0 => \A u \in Players : \A k \in DOMAIN attack[u] : Holds(u, k)

CellInv ==
    CellsOK /\ CellsLoaded /\ GoingArrives /\ Registering /\ Leaving /\ Gatherers

\* No two marches gather in one cell, in the first run and while items are fresh.
InField(u, k) ==
    /\ attack[u][k].status = "gathering"
    /\ ~TurningBack(u, k)
    /\ now <= k.at + Travel[attack[u][k].cell] + StaleAfter
OneGatherer ==
    failures = 0 /\ crashes = 0 =>
        \A u, v \in Players : \A k \in DOMAIN attack[u], l \in DOMAIN attack[v] :
            /\ InField(u, k) /\ InField(v, l)
            /\ attack[u][k].cell = attack[v][l].cell
            => k = l
=============================================================================
