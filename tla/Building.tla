------------------------------ MODULE Building ------------------------------
(***************************************************************************)
(* The buildings of one player (game/building_service.go): requests to     *)
(* upgrade, the periodic scan that completes upgrades, and Load and Save   *)
(* over the cached copy in Redis and the row in MySQL.                     *)
(*                                                                         *)
(* Every Load and Save is made under the player's lock, so one place in    *)
(* the code (stage) and one row in hand (view) belong to the holder.       *)
(* Players share nothing but the scan's list.  The scan is modelled as the *)
(* service offers it; main.go:157 has its start commented out, which is    *)
(* CheckerStarted = FALSE.                                                 *)
(***************************************************************************)
EXTENDS Integers

CONSTANTS
    Buildings,          \* the buildings of building_config.yaml
    MaxLevel,           \* MaxLevel[b]
    BaseTime,           \* BaseTime[b], in seconds
    CheckerStarted,     \* whether main starts the scan
    MaxRequests,        \* bound: requests to upgrade
    MaxFailures,        \* bound: queries, updates and deletions that fail
    MaxCrashes          \* bound: deaths of the process

ASSUME ConfigAssumption ==
    /\ MaxLevel \in [Buildings -> Nat]
    /\ BaseTime \in [Buildings -> Nat \ {0}]
    /\ CheckerStarted \in BOOLEAN
ASSUME BoundsAssumption ==
    MaxRequests \in Nat /\ MaxFailures \in Nat /\ MaxCrashes \in Nat
ASSUME HolderAssumption == "scan" \notin Buildings /\ "nobody" \notin Buildings

VARIABLES
    now,        \* the clock
    row,        \* MySQL: levels and ends of the upgrades, 0 if there is none
    copy,       \* Redis: the cached copy, a set of at most one row
    stage,      \* the lock ("free", "dead") and what its holder does next
    holder,     \* the building a request is for, "scan" or "nobody"
    view,       \* the row in the holder's hands
    scan,       \* when the scan that runs has begun, 0 if none runs
    requests,
    failures,
    crashes,
    intact,     \* history: no row has been wiped and no old copy left
    started,    \* history: started[b] upgrades have been saved
    since,      \* history: since[b] is when the last of them was
    dropped     \* history: dropped[b] of them a later request has removed

bounds == <<requests, failures, crashes>>
history == <<started, since, dropped>>
vars == <<now, row, copy, stage, holder, view, scan, bounds, intact, history>>

Rows == [level : [Buildings -> Nat], finish : [Buildings -> Nat]]

\* A row without entries: a level or an upgrade that is not in the map is 0.
EmptyRow == [level |-> [b \in Buildings |-> 0], finish |-> [b \in Buildings |-> 0]]

\* upgradeDuration: it grows with the level.
Duration(b, level) == BaseTime[b] + level * 2

Init ==
    /\ now = 1
    /\ row = EmptyRow
    /\ copy = {}
    /\ stage = "free"
    /\ holder = "nobody"
    /\ view = EmptyRow
    /\ scan = 0
    /\ requests = 0 /\ failures = 0 /\ crashes = 0
    /\ intact = TRUE
    /\ started = [b \in Buildings |-> 0]
    /\ since = [b \in Buildings |-> 0]
    /\ dropped = [b \in Buildings |-> 0]
-----------------------------------------------------------------------------
(* The player's lock *)

\* A request takes the lock; one that finds it taken changes nothing.
Upgrade(b) ==
    /\ stage = "free"
    /\ requests < MaxRequests
    /\ requests' = requests + 1
    /\ stage' = "load"
    /\ holder' = b
    /\ UNCHANGED <<now, row, copy, view, scan, failures, crashes, intact, history>>

\* checkAndCompleteQueues: the query for rows with a queue; now is read here.
Scan ==
    /\ CheckerStarted
    /\ scan = 0
    /\ \E b \in Buildings : row.finish[b] # 0
    /\ scan' = now
    /\ UNCHANGED <<now, row, copy, stage, holder, view, bounds, intact, history>>

\* The scan takes the lock.
ScanLock ==
    /\ scan # 0 /\ stage = "free"
    /\ stage' = "load"
    /\ holder' = "scan"
    /\ UNCHANGED <<now, row, copy, view, scan, bounds, intact, history>>

\* The lock is taken: not in this scan.
ScanSkip ==
    /\ scan # 0 /\ stage # "free" /\ holder # "scan"
    /\ scan' = 0
    /\ UNCHANGED <<now, row, copy, stage, holder, view, bounds, intact, history>>

Unlock ==
    /\ stage = "unlock"
    /\ stage' = "free"
    /\ holder' = "nobody"
    /\ view' = EmptyRow
    /\ scan' = IF holder = "scan" THEN 0 ELSE scan
    /\ UNCHANGED <<now, row, copy, bounds, intact, history>>

\* The lock of a process that has died expires.
LockExpires ==
    /\ stage = "dead"
    /\ stage' = "free"
    /\ UNCHANGED <<now, row, copy, holder, view, scan, bounds, intact, history>>
-----------------------------------------------------------------------------
(* Load *)

CacheHit ==
    /\ stage = "load"
    /\ view' \in copy
    /\ stage' = "change"
    /\ UNCHANGED <<now, row, copy, holder, scan, bounds, intact, history>>

\* There is no copy, or Redis does not answer.
CacheMiss ==
    /\ stage = "load"
    /\ stage' = "query"
    /\ UNCHANGED <<now, row, copy, holder, view, scan, bounds, intact, history>>

\* The row is read and put in the cache, if Redis answers.
GetBuilding ==
    /\ stage = "query"
    /\ view' = row
    /\ copy' \in {{row}, copy}
    /\ stage' = "change"
    /\ UNCHANGED <<now, row, holder, scan, bounds, intact, history>>

\* Whatever the error of the query, Load writes an empty row, if it can.
GetBuildingFails ==
    /\ stage = "query"
    /\ failures < MaxFailures
    /\ failures' = failures + 1
    /\ row' \in {row, EmptyRow}
    /\ intact' = (intact /\ row' = row)
    /\ stage' = "unlock"
    /\ UNCHANGED <<now, copy, holder, view, scan, requests, crashes, history>>
-----------------------------------------------------------------------------
(* What the holder changes *)

\* Fault: the highest level is taken for the last from which to upgrade.
RefusedLate(b) == view.finish[b] > now \/ view.level[b] > MaxLevel[b]

\* An upgrade of the building is on, or its level is the highest.
Refused(b) == view.finish[b] > now \/ view.level[b] >= MaxLevel[b]

RefuseUpgrade ==
    /\ stage = "change"
    /\ holder \in Buildings
    /\ Refused(holder)
    /\ stage' = "unlock"
    /\ UNCHANGED <<now, row, copy, holder, view, scan, bounds, intact, history>>

\* The upgrade is put in the queue, over one that is over but not completed.
StartUpgrade ==
    /\ stage = "change"
    /\ holder \in Buildings
    /\ ~Refused(holder)
    /\ row' = [view EXCEPT !.finish[holder] = now + Duration(holder, view.level[holder])]
    /\ started' = [started EXCEPT ![holder] = @ + 1]
    /\ since' = [since EXCEPT ![holder] = now]
    /\ dropped' = [dropped EXCEPT ![holder] = IF view.finish[holder] # 0 THEN @ + 1 ELSE @]
    /\ stage' = "delete"
    /\ UNCHANGED <<now, copy, holder, view, scan, bounds, intact>>

\* Fault: whatever is in the queue is completed.
InQueue(b) == view.finish[b] # 0

Due(b) == view.finish[b] # 0 /\ view.finish[b] <= scan

\* Fault: the completed upgrade stays in the queue.
CompleteAgain ==
    /\ stage = "change"
    /\ holder = "scan"
    /\ \E b \in Buildings : Due(b)
    /\ row' = [view EXCEPT !.level = [b \in Buildings |-> @[b] + (IF Due(b) THEN 1 ELSE 0)]]
    /\ stage' = "delete"
    /\ UNCHANGED <<now, copy, holder, view, scan, bounds, intact, history>>

\* Each upgrade that was over when the scan began raises its level.
CompleteUpgrades ==
    /\ stage = "change"
    /\ holder = "scan"
    /\ \E b \in Buildings : Due(b)
    /\ row' = [level |-> [b \in Buildings |-> view.level[b] + (IF Due(b) THEN 1 ELSE 0)],
               finish |-> [b \in Buildings |-> IF Due(b) THEN 0 ELSE view.finish[b]]]
    /\ stage' = "delete"
    /\ UNCHANGED <<now, copy, holder, view, scan, bounds, intact, history>>

NothingDue ==
    /\ stage = "change"
    /\ holder = "scan"
    /\ \A b \in Buildings : ~Due(b)
    /\ stage' = "unlock"
    /\ UNCHANGED <<now, row, copy, holder, view, scan, bounds, intact, history>>

\* The update of the row fails.
SaveFails ==
    /\ stage = "change"
    /\ failures < MaxFailures
    /\ failures' = failures + 1
    /\ stage' = "unlock"
    /\ UNCHANGED <<now, row, copy, holder, view, scan, requests, crashes, intact, history>>

DeleteCopy ==
    /\ stage = "delete"
    /\ copy' = {}
    /\ stage' = "unlock"
    /\ UNCHANGED <<now, row, holder, view, scan, bounds, intact, history>>

\* The error of the deletion is ignored.
DeleteFails ==
    /\ stage = "delete"
    /\ failures < MaxFailures
    /\ failures' = failures + 1
    /\ intact' = FALSE
    /\ stage' = "unlock"
    /\ UNCHANGED <<now, row, copy, holder, view, scan, requests, crashes, history>>
-----------------------------------------------------------------------------
(* The environment *)

\* The copy's 30 minutes are over.
Evict ==
    /\ copy # {}
    /\ copy' = {}
    /\ UNCHANGED <<now, row, stage, holder, view, scan, bounds, intact, history>>

\* The process dies and starts again; a lock it held stays in Redis.
Crash ==
    /\ crashes < MaxCrashes
    /\ crashes' = crashes + 1
    /\ stage' = IF stage = "free" THEN "free" ELSE "dead"
    /\ intact' = (intact /\ stage # "delete")
    /\ holder' = "nobody"
    /\ view' = EmptyRow
    /\ scan' = 0
    /\ UNCHANGED <<now, row, copy, requests, failures, history>>

\* Ends of upgrades anybody could see.
Finishes == {r.finish[b] : r \in {row, view} \cup copy, b \in Buildings}

\* Time matters while an upgrade lasts.
Tick ==
    /\ \E t \in Finishes : t > now
    /\ now' = now + 1
    /\ UNCHANGED <<row, copy, stage, holder, view, scan, bounds, intact, history>>
-----------------------------------------------------------------------------
Next ==
    \/ \E b \in Buildings : Upgrade(b)
    \/ Scan \/ ScanLock \/ ScanSkip
    \/ CacheHit \/ CacheMiss \/ GetBuilding \/ GetBuildingFails
    \/ RefuseUpgrade \/ StartUpgrade \/ CompleteUpgrades \/ NothingDue \/ SaveFails
    \/ DeleteCopy \/ DeleteFails \/ Unlock
    \/ LockExpires \/ Evict \/ Crash \/ Tick

Spec == Init /\ [][Next]_vars
-----------------------------------------------------------------------------
(* What the runs and the proofs check *)

Stages == {"free", "load", "query", "change", "delete", "unlock", "dead"}

\* Every variable holds values of its kind; the lock is free or dead exactly
\* when it has no holder.
TypeOK ==
    /\ now \in Nat \ {0}
    /\ row \in Rows
    /\ copy \in SUBSET Rows
    /\ stage \in Stages
    /\ holder \in Buildings \cup {"scan", "nobody"}
    /\ holder = "nobody" <=> stage \in {"free", "dead"}
    /\ view \in Rows
    /\ scan \in 0..now
    /\ holder = "scan" => scan # 0
    /\ requests \in 0..MaxRequests
    /\ failures \in 0..MaxFailures
    /\ crashes \in 0..MaxCrashes
    /\ intact \in BOOLEAN
    /\ started \in [Buildings -> Nat]
    /\ since \in [Buildings -> Nat]
    /\ dropped \in [Buildings -> Nat]

Upgrading(r, b) == IF r.finish[b] # 0 THEN 1 ELSE 0

\* No building gets, or is on its way to, more levels than it may have,
\* whatever old copy or emptied row a request or a scan has worked on
\* (Upgrade, checkAndCompleteQueues).
LevelsBounded == \A b \in Buildings : row.level[b] + Upgrading(row, b) <= MaxLevel[b]

\* Every upgrade a player was told has started is a level now, is on, or was
\* removed by the next request after it was over: none is counted twice and no
\* other is lost, unless Load has emptied the row or a deletion of the copy was
\* lost (Upgrade, checkAndCompleteQueues, Load, Save).
UpgradesCounted ==
    intact => \A b \in Buildings :
        row.level[b] + Upgrading(row, b) + dropped[b] = started[b]

\* A level is gained no sooner than upgradeDuration after its upgrade was
\* saved, though the scan compares with a time read before it had the lock.
UpgradeLasts ==
    [][intact => \A b \in Buildings :
           row'.level[b] > row.level[b] => now >= since[b] + Duration(b, row.level[b])]_vars
=============================================================================
