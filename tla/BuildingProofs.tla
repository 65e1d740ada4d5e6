--------------------------- MODULE BuildingProofs ---------------------------
(***************************************************************************)
(* Proofs about Building, for any buildings, levels, times and bounds.     *)
(***************************************************************************)
EXTENDS Building, TLAPS

\* In a row, levels and upgrades keep to the configuration.
Bounded(r) == \A b \in Buildings : r.level[b] + Upgrading(r, b) <= MaxLevel[b]

\* Every row there is: stored, cached, in the holder's hands.
RowsBounded == Bounded(row) /\ Bounded(view) /\ \A r \in copy : Bounded(r)

\* What the holder changes is the row, and so is the copy until the next save.
CopyIsRow ==
    intact => /\ stage = "change" => view = row
              /\ stage # "delete" => copy \subseteq {row}

\* The row against what has been promised.
RowCounted ==
    intact => \A b \in Buildings :
        /\ row.level[b] + Upgrading(row, b) + dropped[b] = started[b]
        /\ row.finish[b] # 0 => row.finish[b] = since[b] + Duration(b, row.level[b])

IInv == TypeOK /\ RowsBounded /\ CopyIsRow /\ RowCounted

\* The empty row is a row, and keeps to every configuration.
LEMMA EmptyRowBounded == EmptyRow \in Rows /\ Bounded(EmptyRow)
  BY ConfigAssumption DEF EmptyRow, Rows, Bounded, Upgrading

\* The invariant holds at the start.
LEMMA InitInv == Init => IInv
<1> SUFFICES ASSUME Init PROVE IInv
  OBVIOUS
<1>1. TypeOK
  BY EmptyRowBounded, BoundsAssumption, HolderAssumption DEF Init, TypeOK, Stages
<1>2. RowsBounded /\ CopyIsRow
  BY EmptyRowBounded DEF Init, RowsBounded, CopyIsRow
<1>3. RowCounted
  <2>1. \A b \in Buildings : row.level[b] = 0 /\ row.finish[b] = 0 /\ dropped[b] = 0 /\ started[b] = 0
    BY DEF Init, EmptyRow
  <2>2. ASSUME NEW b \in Buildings
        PROVE  row.level[b] + Upgrading(row, b) + dropped[b] = started[b]
    <3>1. Upgrading(row, b) = 0
      BY <2>1 DEF Upgrading
    <3> QED BY <2>1, <3>1
  <2> QED BY <2>1, <2>2 DEF RowCounted
<1> QED BY <1>1, <1>2, <1>3 DEF IInv

\* A step that leaves rows and promises alone, and after which the holder has
\* no row to change, keeps what is said of them.
LEMMA RowsUntouched ==
    ASSUME IInv, UNCHANGED <<row, copy, started, since, dropped>>,
           view' \in {view, EmptyRow}, stage' # "change",
           intact' => intact /\ stage # "delete"
    PROVE  RowsBounded' /\ CopyIsRow' /\ RowCounted'
<1>1. RowsBounded'
  BY EmptyRowBounded DEF IInv, RowsBounded, Bounded, Upgrading
<1>2. CopyIsRow'
  BY DEF IInv, CopyIsRow
<1>3. RowCounted'
  BY DEF IInv, RowCounted, Upgrading, Duration
<1> QED BY <1>1, <1>2, <1>3

\* Taking and giving back the lock, misses, refusals, failed saves, a crash.
LEMMA QuietKeepsInv ==
    ASSUME IInv,
           \/ \E b \in Buildings : Upgrade(b)
           \/ ScanLock \/ Unlock \/ LockExpires \/ CacheMiss
           \/ RefuseUpgrade \/ NothingDue \/ SaveFails \/ DeleteFails \/ Crash
    PROVE  IInv'
<1>1. /\ UNCHANGED <<row, copy, started, since, dropped, now>>
      /\ view' \in {view, EmptyRow} /\ stage' # "change"
      /\ intact' => intact /\ stage # "delete"
  <2>1. CASE \/ \E b \in Buildings : Upgrade(b)
             \/ ScanLock \/ Unlock \/ LockExpires \/ CacheMiss
    BY <2>1 DEF Upgrade, ScanLock, Unlock, LockExpires, CacheMiss, history, bounds
  <2>2. CASE RefuseUpgrade \/ NothingDue \/ SaveFails \/ DeleteFails
    BY <2>2 DEF RefuseUpgrade, NothingDue, SaveFails, DeleteFails, history, bounds
  <2>3. CASE Crash
    BY <2>3 DEF Crash, history
  <2> QED BY <2>1, <2>2, <2>3
<1>2. RowsBounded' /\ CopyIsRow' /\ RowCounted'
  BY <1>1, RowsUntouched
<1>3. TypeOK'
  <2>1. ASSUME NEW b \in Buildings, Upgrade(b) PROVE TypeOK'
    BY <2>1, HolderAssumption, BoundsAssumption
    DEF IInv, TypeOK, Upgrade, Stages, history
  <2>2. CASE ScanLock
    BY <2>2 DEF IInv, TypeOK, ScanLock, Stages, history, bounds
  <2>3. CASE Unlock
    BY <2>3, EmptyRowBounded DEF IInv, TypeOK, Unlock, Stages, history, bounds
  <2>4. CASE LockExpires
    BY <2>4 DEF IInv, TypeOK, LockExpires, Stages, history, bounds
  <2>5. CASE CacheMiss
    BY <2>5 DEF IInv, TypeOK, CacheMiss, Stages, history, bounds
  <2>6. CASE RefuseUpgrade \/ NothingDue
    BY <2>6 DEF IInv, TypeOK, RefuseUpgrade, NothingDue, Stages, history, bounds
  <2>7. CASE SaveFails \/ DeleteFails
    <3>1. /\ UNCHANGED <<now, row, copy, holder, view, scan, requests, crashes, started, since, dropped>>
          /\ stage \in {"change", "delete"} /\ stage' = "unlock"
          /\ failures' \in 0..MaxFailures /\ intact' \in BOOLEAN
      <4>1. CASE SaveFails
        <5>1. failures' \in 0..MaxFailures
          BY <4>1, BoundsAssumption DEF IInv, TypeOK, SaveFails
        <5>2. intact' \in BOOLEAN
          BY <4>1 DEF IInv, TypeOK, SaveFails
        <5> QED BY <4>1, <5>1, <5>2 DEF SaveFails, history
      <4>2. CASE DeleteFails
        <5>1. failures' \in 0..MaxFailures
          BY <4>2, BoundsAssumption DEF IInv, TypeOK, DeleteFails
        <5>2. intact' \in BOOLEAN
          BY <4>2 DEF DeleteFails
        <5> QED BY <4>2, <5>1, <5>2 DEF DeleteFails, history
      <4> QED BY <2>7, <4>1, <4>2
    <3> QED BY <3>1 DEF IInv, TypeOK, Stages
  <2>8. CASE Crash
    BY <2>8, EmptyRowBounded, BoundsAssumption DEF IInv, TypeOK, Crash, Stages, history
  <2> QED BY <2>1, <2>2, <2>3, <2>4, <2>5, <2>6, <2>7, <2>8
<1> QED BY <1>2, <1>3 DEF IInv

\* Steps of the scan and of time change no row and no stage.
LEMMA ClockKeepsInv ==
    ASSUME IInv, Scan \/ ScanSkip \/ Tick
    PROVE  IInv'
<1>1. /\ UNCHANGED <<row, copy, stage, holder, view, requests, failures, crashes,
                     intact, started, since, dropped>>
      /\ now' \in Nat \ {0} /\ scan' \in 0..now'
      /\ holder = "scan" => scan' # 0
  BY DEF IInv, TypeOK, Scan, ScanSkip, Tick, history, bounds
<1>2. TypeOK'
  BY <1>1 DEF IInv, TypeOK
<1>3. RowsBounded' /\ CopyIsRow' /\ RowCounted'
  BY <1>1 DEF IInv, RowsBounded, Bounded, CopyIsRow, RowCounted, Upgrading, Duration
<1> QED BY <1>2, <1>3 DEF IInv

\* What Load returns is a row that keeps to the configuration, and the row.
LEMMA LoadKeepsInv ==
    ASSUME IInv, CacheHit \/ GetBuilding
    PROVE  IInv'
<1>1. /\ UNCHANGED <<now, row, holder, scan, requests, failures, crashes, intact,
                     started, since, dropped>>
      /\ stage \in {"load", "query"} /\ stage' = "change"
      /\ view' \in {row} \cup copy
      /\ copy' \in {copy, {row}}
  BY DEF CacheHit, GetBuilding, history, bounds
<1>2. TypeOK'
  BY <1>1 DEF IInv, TypeOK, Stages
<1>3. RowsBounded' /\ CopyIsRow'
  BY <1>1 DEF IInv, RowsBounded, CopyIsRow, Bounded, Upgrading
<1>4. RowCounted'
  BY <1>1 DEF IInv, RowCounted, Upgrading, Duration
<1> QED BY <1>2, <1>3, <1>4 DEF IInv

\* A failed query empties the row, or leaves all as it is.
LEMMA QueryFailureKeepsInv ==
    ASSUME IInv, GetBuildingFails
    PROVE  IInv'
<1>1. TypeOK'
  BY EmptyRowBounded, BoundsAssumption DEF IInv, TypeOK, GetBuildingFails, Stages, history
<1>2. RowsBounded'
  BY EmptyRowBounded DEF IInv, RowsBounded, Bounded, Upgrading, GetBuildingFails
<1>3. CopyIsRow'
  BY DEF IInv, CopyIsRow, GetBuildingFails
<1>4. RowCounted'
  BY DEF IInv, RowCounted, Upgrading, Duration, GetBuildingFails, history
<1> QED BY <1>1, <1>2, <1>3, <1>4 DEF IInv

\* A copy that is deleted or evicted is no row to be wrong about.
LEMMA DeletionKeepsInv ==
    ASSUME IInv, DeleteCopy \/ Evict
    PROVE  IInv'
<1>1. /\ UNCHANGED <<now, row, holder, view, scan, requests, failures, crashes,
                     intact, started, since, dropped>>
      /\ copy' = {}
      /\ stage' = stage \/ (stage = "delete" /\ stage' = "unlock")
  BY DEF DeleteCopy, Evict, history, bounds
<1>2. TypeOK'
  BY <1>1 DEF IInv, TypeOK, Stages
<1>3. RowsBounded' /\ CopyIsRow'
  BY <1>1 DEF IInv, RowsBounded, CopyIsRow, Bounded, Upgrading
<1>4. RowCounted'
  BY <1>1 DEF IInv, RowCounted, Upgrading, Duration
<1> QED BY <1>2, <1>3, <1>4 DEF IInv

\* An upgrade is started below the highest level, and counted.
LEMMA StartKeepsInv ==
    ASSUME IInv, StartUpgrade
    PROVE  IInv'
<1> DEFINE h == holder
           end == now + Duration(h, view.level[h])
<1>1. /\ stage = "change" /\ h \in Buildings
      /\ view.finish[h] <= now /\ view.level[h] < MaxLevel[h]
      /\ view \in Rows /\ now \in Nat /\ now > 0
  <2>1. stage = "change" /\ h \in Buildings /\ ~Refused(h)
    BY DEF StartUpgrade
  <2>2. view \in Rows /\ now \in Nat /\ now > 0
    BY DEF IInv, TypeOK
  <2>3. view.finish[h] \in Nat /\ view.level[h] \in Nat /\ MaxLevel[h] \in Nat
    BY <2>1, <2>2, ConfigAssumption DEF Rows
  <2> QED BY <2>1, <2>2, <2>3 DEF Refused
<1>2. end \in Nat /\ end > 0
  BY <1>1, ConfigAssumption DEF Duration, Rows
<1>3. /\ row' = [level |-> view.level, finish |-> [view.finish EXCEPT ![h] = end]]
      /\ started' = [started EXCEPT ![h] = started[h] + 1]
      /\ since' = [since EXCEPT ![h] = now]
      /\ dropped' = [dropped EXCEPT ![h] =
                        IF view.finish[h] # 0 THEN dropped[h] + 1 ELSE dropped[h]]
      /\ stage' = "delete"
      /\ UNCHANGED <<now, copy, holder, view, scan, requests, failures, crashes, intact>>
  BY <1>1 DEF StartUpgrade, bounds, Rows
<1>4. row' \in Rows
  BY <1>1, <1>2, <1>3 DEF Rows
<1>5. TypeOK'
  BY <1>1, <1>3, <1>4 DEF IInv, TypeOK, Stages
<1>6. RowsBounded'
  <2>1. Bounded(row)'
    BY <1>1, <1>2, <1>3, ConfigAssumption DEF IInv, RowsBounded, Bounded, Upgrading, Rows
  <2> QED BY <2>1, <1>3 DEF IInv, RowsBounded, Bounded, Upgrading
<1>7. CopyIsRow'
  BY <1>3 DEF CopyIsRow
<1>8. RowCounted'
  <2> SUFFICES ASSUME intact, NEW b \in Buildings
               PROVE  /\ row'.level[b] + Upgrading(row', b) + dropped'[b] = started'[b]
                      /\ row'.finish[b] # 0 =>
                             row'.finish[b] = since'[b] + Duration(b, row'.level[b])
    BY <1>3 DEF RowCounted, Upgrading, Duration
  <2>1. /\ view = row
        /\ row.level[b] + Upgrading(row, b) + dropped[b] = started[b]
        /\ row.finish[b] # 0 => row.finish[b] = since[b] + Duration(b, row.level[b])
        /\ row.level[b] \in Nat /\ dropped[b] \in Nat /\ started[b] \in Nat
        /\ started \in [Buildings -> Nat] /\ dropped \in [Buildings -> Nat]
        /\ since \in [Buildings -> Nat] /\ row \in Rows
    BY <1>1 DEF IInv, CopyIsRow, RowCounted, TypeOK, Rows
  <2>2. CASE b = h
    BY <1>1, <1>2, <1>3, <2>1, <2>2 DEF Upgrading, Rows
  <2>3. CASE b # h
    BY <1>1, <1>3, <2>1, <2>3 DEF Upgrading, Rows
  <2> QED BY <2>2, <2>3
<1> QED BY <1>5, <1>6, <1>7, <1>8 DEF IInv

\* A completed upgrade becomes a level.
LEMMA CompleteKeepsInv ==
    ASSUME IInv, CompleteUpgrades
    PROVE  IInv'
<1>1. /\ stage = "change" /\ stage' = "delete"
      /\ row' = [level |-> [b \in Buildings |-> view.level[b] + (IF Due(b) THEN 1 ELSE 0)],
                 finish |-> [b \in Buildings |-> IF Due(b) THEN 0 ELSE view.finish[b]]]
      /\ UNCHANGED <<now, copy, holder, view, scan, requests, failures, crashes, intact,
                     started, since, dropped>>
  BY DEF CompleteUpgrades, bounds, history
<1>2. view \in Rows
  BY DEF IInv, TypeOK
<1>3. row' \in Rows
  BY <1>1, <1>2 DEF Rows
<1>4. TypeOK'
  BY <1>1, <1>3 DEF IInv, TypeOK, Stages
<1>5. ASSUME NEW b \in Buildings
      PROVE  row'.level[b] + Upgrading(row', b) = view.level[b] + Upgrading(view, b)
  BY <1>1, <1>2 DEF Upgrading, Due, Rows
<1>6. RowsBounded'
  <2>1. Bounded(row)'
    BY <1>5 DEF IInv, RowsBounded, Bounded
  <2> QED BY <2>1, <1>1 DEF IInv, RowsBounded, Bounded, Upgrading
<1>7. CopyIsRow'
  BY <1>1 DEF CopyIsRow
<1>8. RowCounted'
  <2> SUFFICES ASSUME intact, NEW b \in Buildings
               PROVE  /\ row'.level[b] + Upgrading(row', b) + dropped[b] = started[b]
                      /\ row'.finish[b] # 0 =>
                             row'.finish[b] = since[b] + Duration(b, row'.level[b])
    BY <1>1 DEF RowCounted, Upgrading, Duration
  <2>1. /\ view = row
        /\ row.level[b] + Upgrading(row, b) + dropped[b] = started[b]
        /\ row.finish[b] # 0 => row.finish[b] = since[b] + Duration(b, row.level[b])
        /\ row.level[b] \in Nat
    BY <1>1 DEF IInv, CopyIsRow, RowCounted, TypeOK, Rows
  <2>2. row'.finish[b] # 0 => row'.finish[b] = row.finish[b] /\ row'.level[b] = row.level[b]
    BY <1>1, <2>1
  <2> QED BY <1>5, <2>1, <2>2
<1> QED BY <1>4, <1>6, <1>7, <1>8 DEF IInv

\* IInv is inductive.
LEMMA NextKeepsInv == IInv /\ [Next]_vars => IInv'
<1> SUFFICES ASSUME IInv, [Next]_vars PROVE IInv'
  OBVIOUS
<1>1. CASE UNCHANGED vars
  BY <1>1 DEF IInv, TypeOK, RowsBounded, Bounded, CopyIsRow, RowCounted, Upgrading,
              Duration, vars, bounds, history
<1>2. CASE Next
  BY <1>2, QuietKeepsInv, ClockKeepsInv, LoadKeepsInv, QueryFailureKeepsInv,
     DeletionKeepsInv, StartKeepsInv, CompleteKeepsInv DEF Next
<1> QED BY <1>1, <1>2

\* IInv holds in every reachable state.
THEOREM Invariance == Spec => []IInv
  BY InitInv, NextKeepsInv, PTL DEF Spec

\* Every variable keeps to its kind, and the lock to its holder.
THEOREM TypeCorrect == Spec => []TypeOK
<1>1. IInv => TypeOK
  BY DEF IInv
<1> QED BY <1>1, Invariance, PTL

\* No building gets more levels than building_config.yaml allows (Upgrade).
THEOREM LevelsStayBounded == Spec => []LevelsBounded
<1>1. IInv => LevelsBounded
  BY DEF IInv, RowsBounded, Bounded, LevelsBounded
<1> QED BY <1>1, Invariance, PTL

\* Upgrades become levels one for one, but for those Upgrade removes when they
\* are over, while Load empties no row and no old copy is left.
THEOREM UpgradesAllCounted == Spec => []UpgradesCounted
<1>1. IInv => UpgradesCounted
  BY DEF IInv, RowCounted, UpgradesCounted
<1> QED BY <1>1, Invariance, PTL

\* No upgrade is completed before its time is over (checkAndCompleteQueues).
THEOREM UpgradesTakeTheirTime == Spec => UpgradeLasts
<1> DEFINE InTime == intact => \A b \in Buildings :
               row'.level[b] > row.level[b] => now >= since[b] + Duration(b, row.level[b])
<1>1. ASSUME IInv, [Next]_vars PROVE [InTime]_vars
  <2> SUFFICES ASSUME Next, intact, NEW b \in Buildings, row'.level[b] > row.level[b]
               PROVE  now >= since[b] + Duration(b, row.level[b])
    BY <1>1
  <2>1. row \in Rows /\ row.level[b] \in Nat
    BY <1>1 DEF IInv, TypeOK, Rows
  <2>2. row' # row
    BY <2>1
  <2>3. CASE CompleteUpgrades
    <3>1. /\ view = row
          /\ row'.level[b] = view.level[b] + (IF Due(b) THEN 1 ELSE 0)
          /\ scan \in 0..now /\ now \in Nat
      BY <1>1, <2>3 DEF IInv, TypeOK, CopyIsRow, CompleteUpgrades
    <3>2. Due(b)
      BY <2>1, <3>1
    <3>3. row.finish[b] # 0 /\ row.finish[b] <= scan /\ row.finish[b] \in Nat
      BY <2>1, <3>1, <3>2 DEF Due, Rows
    <3>4. row.finish[b] = since[b] + Duration(b, row.level[b])
      BY <1>1, <3>3 DEF IInv, RowCounted
    <3> QED BY <3>1, <3>3, <3>4
  <2>4. CASE StartUpgrade
    <3>1. view = row /\ row'.level = view.level
      BY <1>1, <2>1, <2>4 DEF IInv, CopyIsRow, StartUpgrade, Rows
    <3> QED BY <2>1, <3>1
  <2>5. CASE GetBuildingFails
    BY <2>1, <2>2, <2>5 DEF GetBuildingFails, EmptyRow
  <2> QED
    BY <2>2, <2>3, <2>4, <2>5
    DEF Next, Upgrade, Scan, ScanLock, ScanSkip, Unlock, LockExpires, CacheHit, CacheMiss,
        GetBuilding, RefuseUpgrade, NothingDue, SaveFails, DeleteCopy, DeleteFails,
        Evict, Crash, Tick
<1>2. IInv /\ [Next]_vars => [InTime]_vars
  BY <1>1
<1> QED BY <1>2, Invariance, PTL DEF Spec, UpgradeLasts
=============================================================================
