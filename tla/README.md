# Formal models of slg-serverD

TLA+ models of the region server of a strategy game written in Go: marches over
a world map, training of troops, buildings, alliances, registration, the generation of the
map, the WebSocket connections, and the storage they share. The server is one
process with a goroutine per request and one per delay queue; MySQL holds a row
per player, Redis holds locks, cached copies and the delay queues, and the map
lives in memory with a copy in Redis.

Run a model with `tlc -config MCMarch_crash.cfg MCMarch.tla`; check a proof with
`tlapm MarchProofs.tla`. `PROJECT.json` maps every definition to the lines it
models and lists runs, mutants, findings, hazards and theorems.

## Inventory

| component | state | operations | hard because | correct if |
|---|---|---|---|---|
| march service (`game/march_service.go`) | row: `Troops.Troops`, `Troops.Attack`; Redis: `delay:queue:march` | `LaunchMarch`, `CancelGather`, consumer (`handleArrival`, `handleGatherComplete`, `handleReturn`), `rebuildDelayQueue` | row, sorted set and cell queue are written one after the other; crash and failed save between any two; tasks delivered again | no soldier lost or doubled, no march forgotten, none acts early, a march ends |
| delay queues (both services) | sorted set, channels `wakeUp`, `stop` | consume, sleep until the next task, wake-up, stop | a task added between look and sleep | never sleeps past a task, comes back, stops |
| training (`game/troops_service.go`) | row: `Troops.Queue`, `Troops.Troops`; Redis: `delay:queue:troops` | `UpdateTroops`, `CancelTrain`, consumer, `rebuildDelayQueue` | as marches; another region's consumer on the same Redis | every order trained once, and in the end |
| player store (`troops_service.go` Load/Save, `cache/troops_cache.go`, `db/troops_repo.go`) | row, cached copy | load, save, evict | readers without the lock, lost deletions | the copy is the row, no save undoes another |
| lock service (`game/lock_service.go`) | `lock:*` keys of 5 seconds | `Lock`, `LockMulti` | expiry under a holder, unlock by anyone, `LockMulti` going on after a failure | one holder |
| cell queues (`game/map_service.go`) | cells in memory and in Redis | `RegisterMarch`, `OnMarchArrive`, `RemoveMarch`, `GetGatherElapsed` | purge by age, restart empties them | one gatherer per cell, the head acts |
| world map (`game/map_service.go`, `db/map_repo.go`) | cells in memory, in Redis, in MySQL | `InitializeMap`, `generateMap`, `loadAllCells`, `LoadOrCreateCell` | a goroutine per cell writes three stores, a death in the middle, lookups during the start | every placement everywhere, the stores agree, no cell replaced |
| relocation and flush (`map_service.go`) | city coordinates, dirty marks | `RelocateCity`, `flushDirtyCells` | rollback after a failed transaction | one owner per city; it never changes a cell today |
| users (`game/user_service.go`, `db/user_repo.go`) | users, bags, buildings, troops rows, cached copy | `Register`, `AddGold`, `SyncCrossData` | check-then-insert of names and coordinates, a transaction whose commit's answer is lost | whole accounts, one city per place, truthful answers |
| alliances (`game/alliance_service.go`) | `alliances`, `alliance_members`, `users.alliance_id`, copies of alliance and user in Redis | `Create`, `Join`, `Approved`, `KickMember` | counts and memberships read from copies and written back, a transaction followed by writes of their own, locks that keep nobody out | a player in one alliance, the count is that of the members, at most `MaxMember`, only leaders kick |
| buildings (`game/building_service.go`) | row with levels and queue, cached copy | `Load`, `Save`, `Upgrade`, `checkAndCompleteQueues` | a load that writes, a scan that reads the clock before it has the lock | no level beyond the last, a level once per upgrade and not too soon |
| arena (`game/arena_service.go`) | ranks, daily counters in Redis | `Challenge`, `BuyChance`, `UpdatePower`, `InitRank` | two ranks read and written under one player's lock | one player per rank; no operation gets that far today |
| WebSocket hub (`ws/`) | connections by player | `Register`, `Unregister`, `SendToPlayer` | reconnect before the old handler ends | an open connection is reachable |
| cross-server (`game/cross_service.go`) | none of its own | `HandleCrossAttack` | two servers written one after the other | `cmd/cross_server` returns before it serves |
| authentication (`auth/`) | a blacklist of token ids in Redis | issue, refresh, revoke | | access control is not a subject here |
| bag, API, configuration | none, or files read once | | | not modelled |

How they interact: a request handler takes the player's lock in Redis, loads the
row (cache, else MySQL), changes it, saves it (MySQL, then deletes the copy),
adds a task to a sorted set and pokes the consumer's channel. The consumer
fetches due tasks, takes the same lock, loads the row again and handles the
task, calling the map service for the cell's queue. Readers load without the
lock. On a restart each service rebuilds its sorted set from MySQL, in a
goroutine that starts before the map is loaded and the HTTP server listens.

## Modules

| module | models |
|---|---|
| `GoMap` | assignment to and deletion from a Go map |
| `DelaySet` | the Redis sorted set as a delay queue (ZADD, ZREM, ZRANGEBYSCORE with a limit) |
| `MapCell` | the march queue of a cell |
| `Party` | counts of soldiers as sets, counts below zero as debts |
| `Trips` | what the march system promises: the abstract specification |
| `March` | the march service with rows, Redis, cells, consumer, requests, crash |
| `MarchInv`, `MarchProofs` | its inductive invariants, the four changes of a row, what queues hold, and the proofs |
| `DelayQueue` | the consumers' loop, sleep and wake-up |
| `Training`, `TrainingProofs` | orders, their tasks and their completion |
| `PlayerStore`, `PlayerStoreProofs` | lock, cached copy and row, one step at a time |
| `Building`, `BuildingProofs` | upgrades, the scan, the row and its copy |
| `Hub` | connections, their handlers, pushes |
| `ServiceProofs` | the proofs about `DelayQueue` and `Hub` |
| `WorldMap`, `WorldMapProofs` | the first start, later starts, lookups of cells |
| `Account`, `AccountProofs` | registration and its transaction |
| `Alliance`, `AllianceProofs` | founding, joining, approval and kick, over tables, copies and locks |
| `MCMarch`, `MCDelayQueue`, ... | small instances, one per checked module |

**March.** `home[u]` and `attack[u]` are the two fields of the row that the
service writes; soldiers are tokens, so that losing and doubling are statements
about sets. `LaunchMarch` checks that a party has not more than there are at home,
not that its counts are positive, and the handler passes on what the client sends
(`march_service.go:113`, `map_handler.go:61`). A count below zero therefore adds
soldiers at home; `Party` has them as loans, and the party on the march as the set of
what it owes, each debt counting minus one, so that `SoldiersConserved` and `Trips` say
what becomes of both. `Loans` bounds such soldiers. `LaunchMarch` is the part of the function under the lock up to the
save, `LaunchRegister` and `RequestEnqueue` what follows. The consumer is one
variable `stage`: `Rebuild` or `RebuildFails` (the query fails or passes over rows, or
a ZADD fails: any part of the tasks is added), then `Fetch`, `TakeTask` or `SkipLocked`, one of
the handlers (`ArriveWait`, `ArriveTurnBack`, `ArriveGather`, `GatherComplete`,
`ReturnHome`, or a load or save that fails), the calls a handler makes after its
save (`EnqueueNext` or `EnqueueFails`, `LeaveCell`), and `FinishTask`, which removes the task
whatever became of it. Requests stop between any two of their steps when the
process crashes. `cellMem` and `cellCache` are the cell in memory and its copy
in Redis; `LoadCell` is the loading of the map after a restart, which runs
beside the consumer. The save of a user never succeeds (`db/user_repo.go:98` has
a comma before `VALUES`), so what a party carries is never credited.

**DelayQueue.** A task is its score; `stage` is the consumer's place in the
loop, `token` the buffer of `wakeUp`. `WakeCapacity` is 1 for marches and 0 for
troops, the only difference between the two loops.

**Training.** The row's queue is a function from kinds to orders, since
`UpdateTroops` refuses a second order of a kind. `Matches` is the consumer's
test, which compares `FinishAt` with itself. `lost` remembers the tasks dropped
because the row could not be loaded and those a ZADD failed to add; a rebuild sets it
to the orders it has added no task for, which after `RebuildFails` (a failed query adds
none, a row that does not parse is passed over) may be any. `OtherRegionDrops` is
a server of another region: `config.yaml` gives every region a prefix for its keys on
one Redis, but the names of the delay queues and of the locks are constants that
do not have it (`troops_service.go:20`), so that its consumer finds a due task, loads no
row for the player from its own MySQL, and removes the task (309-312).

**PlayerStore.** A row is the set of changes it has seen. `pc[c]` follows a
goroutine through `Load`, change, `Save` and unlock. Readers use `Load` alone.

**Building.** One player: players share only the list the scan goes through. All
loads and saves are under the player's lock, so `stage` is both the lock and the
place in the code, `holder` the request or the scan that has it, `view` the row
it works on. A request is `Upgrade` (lock), a load (`CacheHit`, `CacheMiss`,
`GetBuilding`, `GetBuildingFails`), `RefuseUpgrade` or `StartUpgrade`,
`DeleteCopy`, `Unlock`; the scan is `Scan` (the clock is read here), `ScanLock` or
`ScanSkip`, the same load, `CompleteUpgrades` or `NothingDue`, and the rest.
`GetBuildingFails` is lines 77-88: any error of the query, not only that there is
no row, writes an empty row over the player's. `started`, `since` and `dropped`
record what players were told; `intact` ends when a row was emptied or a deletion
of the copy was lost.

**Hub.** `pc[c]` follows the handler of connection `c` (`Upgrade`, `Register`,
reading, the deferred `Unregister` and `Close`), `sock[c]` is what the network
made of it, `clients` is the hub's map. A push is `Lookup`, `WriteDone` or
`WriteFails`, `PushUnregister`, `PushClose`, each a step because `SendToPlayer`
holds the mutex for the lookup only. Pushes come from one goroutine, the consumer
of the troops service. `crossed` has the connections that were opened while an
older one of the player was in use.

**WorldMap.** `stage` is where `InitializeMap` is. `Generate` draws a coordinate for
every placement and starts the goroutines, `SetCached`, `PutCell` and `SaveCell` are
the three writes of each, `GenerateEnds` is `wg.Wait`. `Load` and `LoadCell` are the
other starts, `LoadShort` a query that fails or ends early, which the code takes
for the whole table. `Seek`, `Fetch`, `Keep` are `LoadOrCreateCell`, whose three parts
take the shard's mutex one after another. A cell is its kind of content; the
coordinates of a restart are kept in `site`, since the properties compare
later starts with the only generation. `OtherRegionSets` is another region's server on
the same Redis: the name of a cell there, `map:x:y`, has no prefix
(`map_cache.go:52`), so it writes cells of its own map (`Theirs`) over or where this
map has none, at any time, and every lookup may find one. The march queue of a cell is in `MapCell`.

**Account.** `pc[r]` follows a request: `NameTaken`, `NameFree` or `NameUnknown` (the
query's error is dropped), draws until a coordinate is free, gives up or fails
(which puts the city at the origin, as the error is overwritten), an insert per
table within the transaction `pending[r]`, `Commit` or `CommitFails` (the answer is
lost, the commit may be done), `Cache`. MySQL keeps the primary key of `users`, so
a second insert of a uid waits for the first transaction and fails if it commits.
`known[r]` remembers who had an account when `r` came in.

**Alliance.** `pc[h]` follows a goroutine through one request, each statement to MySQL
or Redis a step, each transaction one. A user is loaded by `UserHit` or by `UserMiss`
and `Keep` (which writes the copy), an alliance by `AllianceHit` or by `AllianceMiss`
and `Fill`; `After` and `WithView` say what a request makes of the user. `Create` goes
on to `InsertAlliance`; `Join` and `Approved` to `AddMember` (the member's and the
player's rows, one transaction), `UpdateAlliance` (the count that was read plus one, in
a statement that fails when the row has it already, since MySQL reports no row
affected), `SetCopy` and a last load of the user; `KickMember` to `CheckOperator`,
`CheckTarget`, `LockAlliance` and `LockTarget` (`LockMulti` passes over a key it could not
set, and deletes what it had), `KickMemberTx`, `ForgetTarget`, `ForgetOperator`,
`Unlock`. `AllianceCache.Del` deletes a key nobody writes, so it is not a step. Every
save of a user fails, so no copy of a user is ever refreshed by one. `Stop` is an
error or a death between two steps, the expiries are those of 30 minutes and, for
locks nobody will delete, of 5 seconds.

The code keeps its promises only where no request went by something old, so three
variables remember where one did. `misled` has the players of whom a request found
an old copy, who were let in by an approval while in another alliance, or of whom
another request had read the membership when it changed (`Deciding`, from the load of
the user, or of the member, to the transaction). `shaken` has the alliances whose
count or copy was changed while another request had read one to write it back
(`Counting`), that lost a request within `directJoin`, or whose copy outlived a kick.
`waived` has those with a member by approval, which does not look at the count.
Each of these is necessary: without any of them a property fails in small instances
(one needs six requests).

## Runs and what they show

| run | bounds | shows |
|---|---|---|
| `march_crash` | 1 player, 1 soldier and 1 that may come from nowhere, 1 cell, launches in seconds 0-1, batch of 1, 1 crash, 1 failure, cell items stale at once | types, conservation of soldiers and debts, no march forgotten, nothing early, `Trips` implemented |
| `march_recovery` | 1 player, 2 soldiers, launches in second 0, 2 crashes, 1 failure | `MarchesEnd` |
| `march_contention` | 2 players at one cell, launches in second 0, batch of 1, 1 crash | one gatherer per cell, the head acts, over the restart too |
| `march_gather` | 1 player, launches in second 0, no crash | a disagreement of code and message |
| `delayqueue_march` | 2 requests, delays 1 and 4, sleep at most 2, 6 seconds | never oversleeps, due tasks are looked for, Stop ends the loop |
| `training_crash` | 1 player, 2 kinds, 1 or 2 soldiers, orders in seconds 0-2, 2 crashes, 1 failure, 1 task taken by another region | orders are trained once, keep their task, take their time, end |
| `playerstore_all` | 3 goroutines, 3 changes, 1 expiry, 1 leak | exclusion, coherence, no lost update |
| `building_all` | 2 buildings of 2 and 1 levels, 3 requests, 2 failures, 1 crash | levels are bounded, upgrades counted, and last |
| `hub_all` | 1 player, 3 connections | entries are served, open connections found, lost ones forgotten |
| `worldmap_all` | 2 placements on 2 coordinates, another region's cell at one of them, 2 readers, 1 failure, 1 crash | the map is complete, memory is the rows, cells stay, the server starts |
| `account_all` | 2 requests, 2 names, 2 uids, 2 coordinates (one the origin), 2 draws, 1 failure, 1 crash | accounts are whole, shared only by requests that overlap, answers are true, requests end |
| `alliance_all` | 3 players, 2 goroutines, 2 alliances of at most 2 members, 4 requests, 1 that breaks off | rows and members agree, one alliance each, true counts, no overflow, leaders kick |

Why the bounds are enough. Players touch one another only at a cell and in the
batch, so two players and one cell make the contention, and one player makes all
that happens to a row. In `march_crash` the player's own soldier and the one from nowhere
are at home together after a party below zero has left, and two soldiers are the
least of which a raid loses one; a launch may then take both, or one, or none while
the debt is out. Two
launches give one player two marches, a batch of one leaves a due task behind,
and a crash at every step, with Redis kept or wiped, meets every pair of steps
of which one is done. The second crash of `march_recovery` and `training_crash`
hits the recovery itself. In `playerstore_all` a third goroutine is what a late
holder's unlock lets in. Two buildings are the least whose upgrades share a row,
and three requests the least that upgrade one twice and meet the other; with two
failures a row is emptied after a deletion was lost. Three connections are an
old one, a new one and one that replaces it while the old handler ends; players
do not meet in the hub's map. Two placements on two coordinates meet or leave a
cell empty; two readers meet at a cell; the other region has a cell at one coordinate,
which may be a placement's or empty; the crash of `worldmap_all` hits the generation, or
follows it, and the start after it loads. Two requests with two uids meet in name, city and uid, alone or
together. Three players are a leader, a member and one too many for an
alliance of two; two goroutines meet at every step, and a third request finds what
they left in the copies; four requests are two foundings and two joins, or a
founding, a join and two kicks at once. Requests of different players and
goroutines are alike (`Symmetry`). Counters (`crashes`, `failures`, `expiries`, `leaks`)
and the clock are the only things bounded besides the inputs; every bound is a
constant with `bound:` in its comment. `CHECK_DEADLOCK FALSE` in the bounded
models, which stop when the clock's bound is reached and no task waits;
`PlayerStore` never stops and is checked for deadlock. The runs of `Building`, `Hub`,
`WorldMap`, `Account` and `Alliance` stop when the requests, connections or deaths are used up
and everything is done, so they say `CHECK_DEADLOCK FALSE` too; their liveness
properties are what forbids an early stop.

Fairness. `WF` of the consumer, of requests being served, of the loading of the
map and of the clock: goroutines that can run do run, and time passes. `WF` of
`LockExpires`: Redis expires keys. In `Training` a request's ZADD may fail each time, so
the fairness is of its coming to an end either way. `Building` has no fairness and no
liveness property, as the program never starts the scan that completes upgrades; in `Hub` of `ReadFails` on a connection that is no longer open, which is
the deadline of 5 minutes the handler sets before each read; in `WorldMap` of
`InitializeMap` and the goroutines it waits for, not of readers; in `Account` of a
request's own steps, where a statement that waits for another transaction is
not enabled. No fairness is assumed of players, crashes or failures.

Properties that are conditional say so in their text: `MarchesScheduled` holds
while no load, save, ZADD or rebuilding query fails (the error is dropped, or the task removed all the same),
`MarchesEnd` until one fails, `GathererHoldsCell` while the map is in memory and
the queue item is younger than `StaleAfter` (after a restart for marches that are in
the queue again), `TrainingsScheduled` and `TrainingsEnd` for tasks that were not dropped or left out of the last rebuild, `TrainingLasts` while the process
lives, `UpgradesCounted` and `UpgradeLasts` while no row was emptied and no deletion
lost, `OneAlliance`, `CountsMembers` and `NotOverfull` for players and alliances that no
request went by something old for (`misled`, `shaken`, `waived`), `Reachable` for connections that did not cross another, those of `WorldMap`
while no row was missed, and the three of `PlayerStore` while no lock expires under a holder, no
deletion is lost and no reader fills the cache late. The findings are what
happens otherwise.

## Findings

Shown by a run of its own:

- `march_gather`: a gathering is completed at once (`march_service.go:440`).

Shown by a property that stands in the module, under other constants than the
runs above have (start from the configuration named):

- `WaitingMarchKeepsTask` of `March` (`MCMarch_contention.cfg`): a march that has to
  wait at its cell loses its task (`march_service.go:393`).
- `KicksExclude` of `Alliance` (`MCAlliance_all.cfg` with `MaxStops = 0`): two kicks of
  one member run at once under the same locks (`lock_service.go:39`).
- `OrdersEnd` of `Training` (`MCTraining_crash.cfg`, no crash, no failure): an order
  whose task another region's server has taken waits for a restart
  (`troops_service.go:20`).
- `KeyNamesOneMarch` of `March` (`MCMarch_gather.cfg` with `SameSecond = TRUE`): a
  second launch within a second erases the first (`march_service.go:618`).
- `NoOversleep` of `DelayQueue` (`MCDelayQueue_march.cfg` with `WakeCapacity = 0`):
  the `wakeUp` of the troops service has no buffer and loses wake-ups
  (`troops_service.go:46`).
- `FinishAtHolds` of `Training` (`MCTraining_crash.cfg` with `LastOrder = 1`, 1 crash):
  an order is completed early, `q.FinishAt == q.FinishAt` (`troops_service.go:318`).
- `LoadsLatest` of `PlayerStore` (`MCPlayerStore_all.cfg` with 2 goroutines, 2 changes,
  no expiry, no leak): a reader brings an old row back (`troops_service.go:87`).
- `LaunchDeducts` of `March` (`MCMarch_crash.cfg`): a party below zero adds soldiers at
  home (`march_service.go:113`).
- `OnlyOwnCells` of `WorldMap` (`MCWorldMap_all.cfg`): another region's cell comes into
  memory (`map_cache.go:52`). The names of the delay queues, of the locks and of the
  cells are the ones that lack the region's prefix.

Exceptions a property of a passing run has to make, where code and comment part:

- `SoldiersConserved`, `Trips`: a raid by a party below zero forgets what it owes
  (`march_service.go:528`).
- `SharedIfConcurrent`: two players get one city (`user_service.go:136`).
- `MemoryIsRow`: two placements on one coordinate leave the stores with different
  cells (`map_service.go:259`).
- `MapComplete`: a map half generated is taken for the whole (`map_service.go:80`).
- `MapComplete`, `MemoryIsRow`, `NotReplaced`: another region's cell comes into memory, where
  this map has nothing or during the start (`map_cache.go:52`).
- `UpgradesCounted`: an upgrade that is over is deleted by the next request
  (`building_service.go:134`).
- `OneAlliance`: the founder's copy says that he is in no alliance
  (`alliance_service.go:61`), and an approval does not ask (164).
- `CountsMembers`: a kick leaves the copy of the alliance (`alliance_cache.go:51`), and
  joins write back what they read (`alliance_service.go:123`).
- `Reachable`: an old handler removes a player's new connection (`hub.go:38`).

Seen while reading, outside what the models have:

- cities are drawn from 0..1000, the map is 600 by 600 (`user_service.go:206`);
- no save of a user is valid SQL (`user_repo.go:98`), nor is the flush of cells;
- the scan that completes upgrades is never started (`main.go:157`), so no upgrade of
  the program as it is ends, though all of `Building` but that is checked with it;
- `Approved` approves whatever state it is given, where its comment says that any but 1
  refuses (`alliance_service.go:147`); `Alliance` has it so, without a refusal;
- a connection is given up after 5 minutes, where the comment says 5 seconds
  (`ws/handler.go:19`); `Hub` is untimed;
- with no server configured for the id the prefix is empty (`main.go:38`), and
  `AllianceCache.Del` then deletes the lock of the alliance, `lock:alliance:<id>`, instead
  of a key nobody writes; `Alliance` has a prefix, as every server of `config.yaml` does.

## Proofs

TLAPS checks, for every value of the constants that meets the modules'
assumptions:

- `MarchProofs!Invariance`, `TypeCorrect`: `IInv` of `MarchInv` is inductive.
  `TypeOK` is not inductive alone: that a return key is new needs that its march
  key is in no row, that needs that keys are of the past, and that needs that
  nobody acts in the second of his launch, which holds because no entry, wherever
  it is (sorted set, batch, in hand, about to be added), scores less than the march
  it was made for. Hence `LocksHeld`, `KeysPast`, `EntriesOK` and `FetchedDue`. One
  lemma per action; the saves are lemmas of their own.
- `SameSecond` (may a player launch twice within one second?) is a constant, as some
  of what `March` promises depends on it: the second launch takes the key of the first
  and overwrites it (`march_service.go:618`, 154). What survives that is proved without a
  hypothesis: `Invariance`, `TypeCorrect`, `NoMarchForgotten`, and `NobodyDoubled`, that no
  soldier and no debt is at two places. What does not is proved under `~SameSecond`, which
  stands in the theorem: with two launches, the first party is lost
  (`SoldiersConserved`, `ImplementsTrips`), the first one's task moves the second party before its time
  (`NeverEarly`), and one march is twice in a queue (`GathererHoldsCell`).
- `MarchProofs!NobodyLostOrDoubled`, `NobodyDoubled`, `NoMarchEarly`,
  `ImplementsTripsAlways`: `EveryRowStep` says that a step leaves the soldiers alone or is one of four
  changes of one row (`RowStep`: a departure, the start of a gathering, a
  turning back, a coming home), and each theorem looks at those four. For parties
  below zero it needs that a party is either of soldiers at home or of debts of soldiers
  who are nowhere yet (`PartyKinds`), that two debts differ if their soldiers do
  (`DebtOwed`), and that soldiers, loans and debts are apart (`TokensApart`, from
  `LoansAssumption`). Conservation
  needs nothing more; the refinement adds `GathersTyped` and conservation itself, as
  `Trips` lets only soldiers of the player fall.
- `MarchProofs!NoMarchForgotten`: `TaskInv` says that the entry of a
  march outlives the `ZREM` to come, as it is of another task: a way back has another
  key, and a gathering ends later than the task of its arrival said (`TasksOK`).
- `MarchProofs!GatherersHoldCells`, `OneGathererEach`, under `~SameSecond`. `CellInv` has
  three layers. *Queues*: in memory and in Redis an item is of one march and as old as
  it (`QueueOK`), and the two queues of a cell agree, from this second on, on who
  waits and who leads (`Agree`): a purge is not written to Redis, so the copy may be
  longer, but only by what every later purge drops too. *Marches*: one to be registered is in no
  queue (`Registering`), one to be struck off after a raid is in no row (`Leaving`).
  *Gatherers*: who waits leads and is not being turned back (`Holds`). A step
  of the living process is told by what it does to the queues (`CellsMove(ks)`: who is
  not in `ks` keeps his place), so that each handler is looked at once; crashes, the
  loading of a cell and the clock have lemmas of their own.
  What the loop of `Purge` computes, for a queue of any length, is `LoopPicks`: an increasing
  choice of exactly the items that are fresh. It is by induction on the items
  done, and since the library's induction theorems cannot be used, the induction is
  a lemma, `ClosedUnderSucc`: a set of naturals with 0 and with each number the next has all,
  for otherwise `i -> i + 1` would put a finite set into one with fewer members (the
  library's pigeonhole theorem).
  `OneGathererEach` is what follows for two marches: until the first crash no two gather in
  one cell.
  The one assumption it adds is that the absence of a queue (a nil pointer,
  `redis.Nil`) is no queue (`NoneAssumption`).
- `ServiceProofs!NeverOversleeps`, under `WakeCapacity > 0`: the strengthening
  is that between look and sleep no task has come before the first entry unless
  a wake-up is on its way or in the buffer.
- `TrainingProofs!OrdersTrainedOnce`, `OrdersStayScheduled`: the strengthening
  says which task an order has, or that it is in `lost`, which every rebuild, whole or
  in part, sets anew, and that the consumer holds the lock of the
  player whose task is in hand. `TrainingTakesItsTime` is of an action property, from
  the same invariant and `TasksFresh`: before the first crash every entry, wherever
  it is, names an order exactly as the row has it, though the consumer's test
  would accept others.
- `PlayerStoreProofs!OneHolder`, `CacheIsRow`, `NothingLost`: while no lock has
  expired under its holder, a goroutine that is about to save has the row in its
  view and is the only one.
- `BuildingProofs!LevelsStayBounded`, `UpgradesAllCounted`, `UpgradesTakeTheirTime`.
  `RowsBounded` says the bound of every row there is, since an old copy may be
  saved; `CopyIsRow` that what the holder changes is the row; `RowCounted` that an
  upgrade ends its duration after it was saved. The last theorem is of an action
  property, from the same invariant: the scan's clock is not ahead of `now`.
- `ServiceProofs!NoEntryOutlivesHandler`, `OpenIsReachable`. The invariant says of two
  connections of a player in use at once that the later has crossed (`Crossings`),
  that a push gives up only what is not open (`GivenUp`), and that what has not
  crossed is registered while it is served, before it is read from (`Registered`).
- `AccountProofs!AccountsAreWhole`, `AnswersAreTrue`, `SharedOnlyByConcurrent`. `PendingInv`
  ties the place of a request to the tables its transaction has been through, so
  that a commit adds to all tables or to none; `NamesInv` and `CitiesInv` say that
  whoever had an account when a request came in has another name, if no query has
  failed, and another city, unless it is the origin, from the moment the request has
  chosen its own.
- `WorldMapProofs!MapIsComplete`, `MemoryTellsRows`, `CellsStay`. `Copies` says that
  every copy of a cell is of a placement drawn for it or of another region's map, and
  the latter never in MySQL, and in memory only after a lookup during the start or where
  nothing is placed; `Fresh` that before the map is generated there are only another
  region's (a second generation would break `Copies`),
  `Generated` and `Rows` how far each placement has come, `Loaded` and `Drawn` what
  memory has after either start, and `Lookups` and `Early` that a lookup which finds
  nothing in memory is of a coordinate without a placement or was made during the start.
- `AllianceProofs!MembersAreKnown`, `OneAllianceEach`, `CountsAreMembers`, `NeverOverfull`,
  `OnlyLeadersKick`. The invariant says of each request what it has read and
  what of that is still so where it stands: a kick that has passed a check passed
  it for good, as an alliance never changes its leader (`KickChecked`); a request
  about a player nobody misled decides by the alliance he is in (`DecidedRight`); in an
  alliance that is not shaken one join at a time is between its members and its
  count, what others read of the count is right or one less while a copy is due, and
  the count is that of the members but for that join (`AllianceGood`); a join adds only where it saw
  room (`JoinFits`). Cardinalities need that members are finite, which is inductive by itself
  (`MembersFinite`), not a bound on players.

`Training`, `Building`, `Hub`, `WorldMap`, `Account` and `Alliance` are proved for any number of
players, connections, cells, alliances, requests, failures and crashes; the bounds of the
runs are parameters the proofs leave open.

Every safety property of a passing run is a theorem. Left to TLC is what needs fairness
(`MarchesEnd`, `HeadMarchActs`, `DueIsConsumed`, `StopEnds`, `TrainingsEnd`,
`LostIsForgotten`, `StartupEnds`, `RegistrationsEnd`): liveness under `WF` rests on
`ENABLED`, which the prover does not reason about. Each module has a `TypeOK` (`LoopTypeOK` in
`DelayQueue`), a conjunct of its inductive invariant and a theorem (`TypeCorrect`,
`LoopTypeCorrect`); TLC checks it in `march_crash`, `delayqueue_march` and `alliance_all`.

## What the models leave out

- In `March` and `Training` a load or save of the row is one step, and `Load`
  returns the row. `PlayerStore` says when that is so and when not.
- Locks of living holders do not expire in `March` and `Training`; again
  `PlayerStore` has it.
- A malformed member of a sorted set, and a fetch that Redis does not answer (the loop
  comes back, `DelayQueue` has it).
- The kinds of soldiers in a party (one count stands for all, each being checked by
  itself), and the width of a count: one that overflows `int` is not modelled. Whether
  the row has a count of zero or none at all, once nobody is at home, is not told
  apart: `LaunchMarch` may then take a party below zero or not (`Parties`).
- A launch whose save fails changes nothing and is not a step. The rollback
  after a failed `RegisterMarch` (168-175) is unreachable: line 75 has found the
  cell. The `default` of line 388 is unreachable: no code saves such a status.
- `RegisterMarch` and the other operations of a cell are atomic; that the loading
  of the map may replace the cell between its lookup and its mutex is not
  modelled.
- Types of march other than the three constants; speed bonus and duration of a
  gathering chosen by the player (the API passes zero for both).
- The expiry of a cell's copy in Redis, which a crash with Redis wiped covers.
- `Rebuild` is one step, though requests may be served between its query and its
  last ZADD: such a request only adds a march (an order) with a task of its own,
  or turns one back, whose old task the consumer drops as an orphan. The
  consumer's other steps wait for it, being the same goroutine, and a crash
  within it leads to the next `Rebuild`.
- `CancelGather` has no route today; it is modelled as the service offers it.
- `CancelTrain` refuses every order that exists and panics on one that does not
  (`troops_service.go:226`), so it changes nothing.
- In `Building` the lock of a living holder does not expire either. Its scan goes
  through one player; the order of players in a pass changes nothing for each.
- `Hub` has the route with a token; a failing upgrade of the connection leaves no
  state. Messages of clients are read and dropped by the code.
- `Alliance` takes a transaction for one step and `(aid, uid)` for the key of
  `alliance_members`, since the repository has no schema; that a player has no row, or
  an alliance is disbanded (no code does that), is not modelled, nor are applications,
  which no code reaches, and the log of kicks. Failures of Redis in a load are those of
  a copy that has expired. Rollbacks in a goroutine (`alliance_repo.go:130`, `195`) see no
  error yet; the transaction ends with the request.
- `March` has the foreign consumer of `Training` only as a failing load of its own
  (`march_service.go:369`), and the queues of cells only in this region's Redis; what
  another region does to names without a prefix is in `Training` and `WorldMap`.
- `WorldMap` has no dirty marks: `flushDirtyCells` visits the first shard alone and
  its statement is not valid SQL. The refresh of resources is an empty function.
- `Account` ends with the answer. `Login` panics (the arena service it calls at
  `user_service.go:197` is never set), so an account is only ever used by token.
- Relocation panics at its first call, on a march service nobody has set (and its
  handler passes `ToY` for both coordinates, `map_handler.go:107`). With the service
  set it would end at `map_service.go:506`: only relocation itself makes a cell a
  player's or an empty one, so there is none to start from and none to go to. The arena has
  routes but no ranks: `InitRank` has no caller, and the only `UpdatePower` is the one
  on which `Login` panics, so every challenge ends at `getRank` (`arena_service.go:124`),
  and `BuyChance` asks for the lock it holds (213). The routes of alliances are
  commented out (`api/server.go:70`); the service is whole and is modelled as it is.

## Plan

*City* and *Arena* once the code gives them a state to work on: a first city cell, a
first rank.
