----------------------------- MODULE MarchProofs -----------------------------
(***************************************************************************)
(* Proofs about March, for any players, cells, armies, times and bounds.   *)
(***************************************************************************)
EXTENDS MarchInv, FiniteSetTheorems, SequenceTheorems, TLAPS
LOCAL INSTANCE SequencesExt

\* A debt names the soldier who is owed.
LEMMA DebtOwed == \A g, o : Debt(g) = Debt(o) => g = o
<1> SUFFICES ASSUME NEW g, NEW o, Debt(g) = Debt(o) PROVE g = o
  OBVIOUS
<1>1. Debt(g).owed = g /\ Debt(o).owed = o
  BY DEF Debt
<1> QED BY <1>1

\* The two kinds of parties LaunchMarch takes: soldiers who are at home, and
\* debts of soldiers who are nowhere yet, nor is what is owed for them.
LEMMA PartyKinds ==
    ASSUME NEW h, NEW f, NEW r, NEW loans, NEW s \in Parties(h, f, r, loans)
    PROVE  \/ s \subseteq h /\ Lent(s, loans) = {}
           \/ /\ Lent(s, loans) \subseteq loans
              /\ s = Debts(Lent(s, loans))
              /\ \A g \in Lent(s, loans) : /\ g \notin Places(h, f, r)
                                           /\ Debt(g) \notin Places(h, f, r)
<1>1. CASE s \subseteq h \ Debts(loans)
  BY <1>1 DEF Lent, Debts
<1>2. CASE \E l \in SUBSET Unlent(loans, Places(h, f, r)) : s = Debts(l)
  <2>1. PICK l \in SUBSET Unlent(loans, Places(h, f, r)) : s = Debts(l)
    BY <1>2
  <2>2. Lent(s, loans) = l
    BY <2>1, DebtOwed DEF Lent, Debts, Unlent
  <2> QED BY <2>1, <2>2 DEF Unlent
<1> QED BY <1>1, <1>2 DEF Parties

\* A party and what it leaves at home are soldiers of the player.
LEMMA PartyTyped ==
    ASSUME RowsTyped, NEW u \in Players,
           NEW s \in Parties(home[u], fallen[u], attack[u], Loans[u])
    PROVE  s \subseteq Soldiers /\ Lent(s, Loans[u]) \subseteq Soldiers
<1>1. \/ s \subseteq home[u] /\ Lent(s, Loans[u]) = {}
      \/ Lent(s, Loans[u]) \subseteq Loans[u] /\ s = Debts(Lent(s, Loans[u]))
  BY PartyKinds
<1>2. home[u] \subseteq Soldiers
  BY DEF RowsTyped
<1>3. Loans[u] \subseteq Soldiers /\ Debts(Loans[u]) \subseteq Soldiers
  BY DEF Soldiers, Tokens
<1> QED BY <1>1, <1>2, <1>3 DEF Debts

\* A row stays a row when a march of the player is put in (t.Attack[k] = m).
LEMMA PutRow ==
    ASSUME NEW u, NEW r, Row(u, r), NEW k \in Keys, k.uid = u, NEW m \in Marches,
           k.leg = "return" <=> m.status = "returning"
    PROVE  /\ Row(u, Put(r, k, m))
           /\ DOMAIN Put(r, k, m) = DOMAIN r \cup {k}
           /\ Put(r, k, m)[k] = m
           /\ \A l \in DOMAIN r \ {k} : Put(r, k, m)[l] = r[l]
  BY DEF Row, Put

\* A row stays a row when a march is taken out (delete(t.Attack, k)).
LEMMA DropRow ==
    ASSUME NEW u, NEW r, Row(u, r), NEW k \in Keys
    PROVE  /\ Row(u, Drop(r, k))
           /\ DOMAIN Drop(r, k) = DOMAIN r \ {k}
           /\ \A l \in DOMAIN r \ {k} : Drop(r, k)[l] = r[l]
  BY DEF Row, Drop

\* Whatever may become a task in hand names a march of a player.
LEMMA EntriesTyped ==
    ASSUME IInv
    PROVE  \A e \in AllEntries :
               /\ e.task.key \in Keys
               /\ e.task.key.uid \in Players
               /\ e.task.key.leg \in {"march", "return"}
               /\ e.task.key.at \in 0..LastLaunch
               /\ e.score \in Nat
<1>1. AllEntries \subseteq Entries
  BY DEF IInv, TypeOK, RedisTyped, ProcessTyped, LocksHeld, AllEntries
<1> QED BY <1>1 DEF Entries, Keys

\* The key of a launch within the bound is a march key of the player.
LEMMA MarchKeyType ==
    ASSUME NEW u \in Players, NEW t \in 0..LastLaunch
    PROVE  /\ MarchKey(u, t) \in Keys
           /\ MarchKey(u, t).uid = u
           /\ MarchKey(u, t).leg = "march"
           /\ MarchKey(u, t).at = t
  BY DEF MarchKey, Keys

\* The key of a way back names the march it was made from, and no other.
LEMMA ReturnKeyType ==
    ASSUME NEW k \in Keys, k.leg = "march"
    PROVE  /\ ReturnKey(k) \in Keys
           /\ ReturnKey(k).uid = k.uid
           /\ ReturnKey(k).leg = "return"
           /\ ReturnKey(k).at = k.at
           /\ MarchOf(ReturnKey(k)) = k
  BY DEF ReturnKey, MarchOf, Keys

\* A launch keeps the invariant: a march of the same key was launched in the
\* same second, is still on its way out and is replaced.
LEMMA LaunchKeepsInv ==
    ASSUME IInv,
           NEW u \in Players, NEW c \in Cells, NEW type \in Types,
           NEW s \in Parties(home[u], fallen[u], attack[u], Loans[u]), LaunchMarch(u, c, type, s)
    PROVE  IInv'
<1> DEFINE k == MarchKey(u, now)
           m == NewMarch(c, type, s)
<1>0. /\ RowsTyped /\ RedisTyped /\ ProcessTyped /\ CountersTyped
      /\ LocksHeld /\ KeysPast /\ EntriesOK /\ FetchedDue
      /\ Row(u, attack[u])
  BY DEF IInv, TypeOK, RowsTyped
<1>1. /\ k \in Keys /\ k.uid = u /\ k.leg = "march" /\ k.at = now
      /\ now \in Nat
      /\ SameSecond \/ k \notin DOMAIN attack[u]
  BY <1>0, MarchKeyType, BoundsAssumption DEF CountersTyped, LaunchMarch
<1>2. m \in Marches /\ m.status = "going" /\ m.arrive > now
  <2>1. s \subseteq Soldiers
    BY <1>0, PartyTyped
  <2> QED BY <1>0, <2>1, TimesAssumption DEF CountersTyped, NewMarch, Marches, Statuses, GatherAmount
<1>3. /\ attack' = [attack EXCEPT ![u] = Put(attack[u], k, m)]
      /\ attack'[u] = Put(attack[u], k, m)
      /\ \A v \in Players \ {u} : attack'[v] = attack[v]
      /\ home' = [home EXCEPT ![u] = (@ \ s) \cup Lent(s, Loans[u])]
      /\ lock' = [lock EXCEPT ![u] = "request"]
      /\ lock[u] = "free"
      /\ req' = [req EXCEPT ![u] = [stage |-> "register", key |-> k]]
      /\ UNCHANGED <<resources, fallen, zset, cellMem, cellCache, loaded, stage, batch,
                     job, now, crashes, failures>>
  BY <1>0 DEF LaunchMarch, RowsTyped, cells, consumer, faults
<1> HIDE DEF k, m
<1>4. /\ Row(u, attack'[u])
      /\ DOMAIN attack'[u] = DOMAIN attack[u] \cup {k}
      /\ attack'[u][k] = m
      /\ \A l \in DOMAIN attack[u] \ {k} : attack'[u][l] = attack[u][l]
  <2>1. /\ Row(u, Put(attack[u], k, m))
        /\ DOMAIN Put(attack[u], k, m) = DOMAIN attack[u] \cup {k}
        /\ Put(attack[u], k, m)[k] = m
        /\ \A l \in DOMAIN attack[u] \ {k} : Put(attack[u], k, m)[l] = attack[u][l]
    BY <1>0, <1>1, <1>2, PutRow
  <2> QED BY <1>1, <1>3, <2>1
<1>5. TypeOK'
  <2>1. RowsTyped'
    <3>1. Lent(s, Loans[u]) \subseteq Soldiers
      BY <1>0, PartyTyped
    <3> QED BY <1>0, <1>3, <1>4, <3>1 DEF RowsTyped
  <2>2. RedisTyped'
    BY <1>0, <1>3 DEF RedisTyped
  <2>3. ProcessTyped'
    BY <1>0, <1>1, <1>3 DEF ProcessTyped
  <2>4. CountersTyped'
    BY <1>0, <1>3 DEF CountersTyped
  <2> QED BY <2>1, <2>2, <2>3, <2>4 DEF TypeOK
<1>6. LocksHeld'
  BY <1>0, <1>1, <1>3, <1>4
  DEF RowsTyped, RedisTyped, ProcessTyped, LocksHeld, Busy, Adding, JobUid, JobKey, JobMarch
<1>7. KeysPast'
  <2> SUFFICES ASSUME NEW v \in Players, NEW l \in DOMAIN attack'[v]
               PROVE  KeyPast(attack'[v], l, now')
    BY DEF KeysPast
  <2>1. CASE v # u
    BY <1>0, <1>3, <2>1 DEF KeysPast, KeyPast
  <2>2. CASE v = u /\ l = k
    BY <1>1, <1>2, <1>3, <1>4, <2>2 DEF KeyPast
  <2>3. CASE v = u /\ l # k
    <3>1. l \in DOMAIN attack[u] /\ KeyPast(attack[u], l, now)
      BY <1>0, <1>4, <2>3 DEF KeysPast
    <3>2. l.leg = "return" => MarchOf(l) # k
      BY <1>1, <3>1 DEF KeyPast, MarchOf, Row, Keys
    <3> QED BY <1>1, <1>3, <1>4, <2>3, <3>1, <3>2 DEF KeyPast
  <2> QED BY <2>1, <2>2, <2>3
<1>8. EntriesOK'
  <2> SUFFICES ASSUME NEW e \in AllEntries'
               PROVE  EntryOK(attack'[e.task.key.uid], e.task.key, e.score, now')
    BY DEF EntriesOK
  <2> DEFINE l == e.task.key
  <2>1. e \in AllEntries
    BY <1>3 DEF AllEntries, Busy, Adding
  <2>2. /\ EntryOK(attack[l.uid], l, e.score, now)
        /\ l \in Keys /\ l.uid \in Players
    BY <1>0, <2>1, EntriesTyped DEF EntriesOK
  <2> SUFFICES EntryOK(attack'[l.uid], l, e.score, now')
    OBVIOUS
  <2> HIDE DEF l
  <2>3. CASE l.uid # u
    BY <1>3, <2>2, <2>3 DEF EntryOK
  <2>4. CASE l.uid = u
    <3>1. l = k => SameSecond
      BY <1>1, <2>2, <2>4 DEF EntryOK
    <3>2. l.leg = "return" => MarchOf(l) # k
      BY <1>1, <2>2, <2>4 DEF EntryOK, MarchOf, Keys
    <3> QED BY <1>1, <1>2, <1>3, <1>4, <2>2, <2>4, <3>1, <3>2 DEF EntryOK
  <2> QED BY <2>3, <2>4
<1>9. FetchedDue'
  BY <1>0, <1>3 DEF FetchedDue, Busy
<1> QED BY <1>5, <1>6, <1>7, <1>8, <1>9 DEF IInv

\* createReturnMarch's save: the march is replaced by its way back, under a
\* key no entry names yet.
LEMMA SaveReturnKeepsRows ==
    ASSUME IInv, NEW u \in Players, NEW k \in DOMAIN attack[u],
           k.leg = "march", k.at < now,
           NEW lost \in SUBSET attack[u][k].troops, NEW carry \in {0, GatherAmount},
           SaveReturn(u, k, lost, carry), now' = now
    PROVE  /\ RowsTyped' /\ KeysPast'
           /\ \A e \in AllEntries :
                  EntryOK(attack'[e.task.key.uid], e.task.key, e.score, now')
           /\ ReturnKey(k) \in Keys /\ ReturnKey(k).uid = u
           /\ DOMAIN attack'[u] = (DOMAIN attack[u] \ {k}) \cup {ReturnKey(k)}
           /\ now + Travel[attack[u][k].cell] \in Nat
           /\ EntryOK(attack'[u], ReturnKey(k), now + Travel[attack[u][k].cell], now')
           /\ \A v \in Players \ {u} : attack'[v] = attack[v]
<1> DEFINE r == ReturnKey(k)
           m == ReturnMarch(attack[u][k], lost, carry)
           o == attack[u]
<1>1. /\ RowsTyped /\ CountersTyped /\ KeysPast /\ EntriesOK /\ Row(u, o)
      /\ k \in Keys /\ k.uid = u /\ k.at \in Nat /\ now \in Nat /\ o[k] \in Marches
  BY BoundsAssumption DEF IInv, TypeOK, RowsTyped, CountersTyped, Row, Keys
<1>2. r \in Keys /\ r.uid = u /\ r.leg = "return" /\ r.at = k.at /\ MarchOf(r) = k
  BY <1>1, ReturnKeyType
<1>3. now + Travel[o[k].cell] \in Nat /\ k.at < now + Travel[o[k].cell]
  BY <1>1, TimesAssumption DEF CountersTyped, Marches
<1>4. m \in Marches /\ m.status = "returning" /\ m.arrive = now + Travel[o[k].cell]
  BY <1>1, <1>3 DEF ReturnMarch, Marches, Statuses
<1>5. r \notin DOMAIN o /\ k # r
  BY <1>1, <1>2 DEF KeysPast, KeyPast
<1> HIDE DEF r, m
<1>6. /\ Row(u, Put(Drop(o, k), r, m))
      /\ DOMAIN Put(Drop(o, k), r, m) = (DOMAIN o \ {k}) \cup {r}
      /\ Put(Drop(o, k), r, m)[r] = m
      /\ \A l \in DOMAIN o \ {k} : Put(Drop(o, k), r, m)[l] = o[l]
  <2>1. /\ Row(u, Drop(o, k))
        /\ DOMAIN Drop(o, k) = DOMAIN o \ {k}
        /\ \A l \in DOMAIN o \ {k} : Drop(o, k)[l] = o[l]
    BY <1>1, DropRow
  <2>2. /\ Row(u, Put(Drop(o, k), r, m))
        /\ DOMAIN Put(Drop(o, k), r, m) = DOMAIN Drop(o, k) \cup {r}
        /\ Put(Drop(o, k), r, m)[r] = m
        /\ \A l \in DOMAIN Drop(o, k) \ {r} : Put(Drop(o, k), r, m)[l] = Drop(o, k)[l]
    BY <1>2, <1>4, <2>1, PutRow
  <2> QED BY <1>5, <2>1, <2>2
<1>7. /\ attack' = [attack EXCEPT ![u] = Put(Drop(o, k), r, m)]
      /\ fallen' = [fallen EXCEPT ![u] = @ \cup lost]
      /\ UNCHANGED <<home, resources>>
  BY DEF SaveReturn, r, m
<1>8. /\ attack'[u] = Put(Drop(o, k), r, m)
      /\ \A v \in Players \ {u} : attack'[v] = attack[v]
  BY <1>1, <1>7 DEF RowsTyped
<1>9. /\ Row(u, attack'[u])
      /\ DOMAIN attack'[u] = (DOMAIN o \ {k}) \cup {r}
      /\ attack'[u][r] = m
      /\ \A l \in DOMAIN o \ {k} : attack'[u][l] = o[l]
  BY <1>6, <1>8
<1>10. RowsTyped'
  <2>1. lost \subseteq Soldiers
    BY <1>1 DEF Marches
  <2> QED BY <1>1, <1>7, <1>8, <1>9, <2>1 DEF RowsTyped
<1>11. KeysPast'
  <2> SUFFICES ASSUME NEW v \in Players, NEW l \in DOMAIN attack'[v]
               PROVE  KeyPast(attack'[v], l, now')
    BY DEF KeysPast
  <2>1. CASE v # u
    BY <1>1, <1>8, <2>1 DEF KeysPast
  <2>2. CASE v = u /\ l = r
    <3>1. k \notin DOMAIN attack'[u]
      BY <1>5, <1>9
    <3> QED BY <1>1, <1>2, <1>3, <1>4, <1>9, <2>2, <3>1 DEF KeyPast, CountersTyped
  <2>3. CASE v = u /\ l # r
    <3>1. l \in DOMAIN o /\ KeyPast(o, l, now)
      BY <1>1, <1>9, <2>3 DEF KeysPast
    <3>2. MarchOf(l) # r
      BY <1>1, <1>2, <3>1 DEF MarchOf, Row, Keys
    <3> QED BY <1>9, <2>3, <3>1, <3>2 DEF KeyPast
  <2> QED BY <2>1, <2>2, <2>3
<1>12. ASSUME NEW e \in AllEntries
       PROVE  EntryOK(attack'[e.task.key.uid], e.task.key, e.score, now')
  <2> DEFINE l == e.task.key
  <2>1. EntryOK(attack[l.uid], l, e.score, now) /\ l \in Keys /\ l.uid \in Players
    BY <1>1, EntriesTyped DEF EntriesOK
  <2> SUFFICES EntryOK(attack'[l.uid], l, e.score, now')
    OBVIOUS
  <2> HIDE DEF l
  <2>2. CASE l.uid # u
    BY <1>8, <2>1, <2>2
  <2>3. CASE l.uid = u
    <3>1. l # r /\ MarchOf(l) # r
      BY <1>2, <2>1, <2>3 DEF EntryOK, MarchOf, Keys
    <3>2. EntryOK(o, l, e.score, now)
      BY <2>1, <2>3
    <3> QED BY <1>1, <1>9, <2>3, <3>1, <3>2 DEF EntryOK
  <2> QED BY <2>2, <2>3
<1>13. EntryOK(attack'[u], r, now + Travel[o[k].cell], now')
  <2>1. k \notin DOMAIN attack'[u]
    BY <1>5, <1>9
  <2>2. r \in DOMAIN attack'[u] /\ attack'[u][r].arrive = now + Travel[o[k].cell]
    BY <1>4, <1>9
  <2> QED BY <1>1, <1>2, <1>3, <2>1, <2>2 DEF EntryOK, CountersTyped
<1> QED BY <1>2, <1>3, <1>8, <1>9, <1>10, <1>11, <1>12, <1>13 DEF r

\* The save of handleArrival that starts a gathering keeps key and row.
LEMMA ArriveGatherKeepsRows ==
    ASSUME IInv, NEW u \in Players, NEW k \in DOMAIN attack[u],
           attack[u][k].status = "going", k.at < now,
           attack' = [attack EXCEPT ![u][k] = GatheringMarch(attack[u][k])],
           UNCHANGED <<home, fallen, resources, now>>
    PROVE  /\ RowsTyped' /\ KeysPast'
           /\ \A e \in AllEntries :
                  EntryOK(attack'[e.task.key.uid], e.task.key, e.score, now')
           /\ DOMAIN attack'[u] = DOMAIN attack[u]
           /\ now + GatherTime \in Nat
           /\ EntryOK(attack'[u], k, now, now')
           /\ \A v \in Players \ {u} : attack'[v] = attack[v]
<1> DEFINE m == GatheringMarch(attack[u][k])
           o == attack[u]
<1>1. /\ RowsTyped /\ CountersTyped /\ KeysPast /\ EntriesOK /\ Row(u, o)
      /\ k \in Keys /\ k.uid = u /\ k.at \in Nat /\ now \in Nat /\ o[k] \in Marches
      /\ k.leg # "return" /\ k.leg \in {"march", "return"} /\ k.at < now
  BY BoundsAssumption
  DEF IInv, TypeOK, RowsTyped, CountersTyped, Row, Keys, KeysPast, KeyPast, Marches
<1>2. now + GatherTime \in Nat /\ k.at < now + GatherTime
  BY <1>1, TimesAssumption
<1>3. m \in Marches /\ m.status = "gathering" /\ k.at < m.arrive
  <2>1. m.arrive = now + GatherTime
    BY <1>1 DEF GatheringMarch, Marches
  <2> QED BY <1>1, <1>2, <2>1 DEF GatheringMarch, Marches, Statuses
<1> HIDE DEF m
<1>4. /\ attack'[u] = [o EXCEPT ![k] = m]
      /\ \A v \in Players \ {u} : attack'[v] = attack[v]
      /\ attack' = [v \in Players |-> attack'[v]]
  BY <1>1 DEF RowsTyped, m
<1>5. /\ Row(u, attack'[u])
      /\ DOMAIN attack'[u] = DOMAIN o
      /\ attack'[u][k] = m
      /\ \A l \in DOMAIN o \ {k} : attack'[u][l] = o[l]
  BY <1>1, <1>3, <1>4 DEF Row
<1>6. RowsTyped'
  BY <1>1, <1>4, <1>5 DEF RowsTyped
<1>7. KeysPast'
  <2> SUFFICES ASSUME NEW v \in Players, NEW l \in DOMAIN attack'[v]
               PROVE  KeyPast(attack'[v], l, now')
    BY DEF KeysPast
  <2>1. CASE v # u
    BY <1>1, <1>4, <2>1 DEF KeysPast
  <2>2. CASE v = u /\ l = k
    BY <1>1, <1>3, <1>5, <2>2 DEF KeyPast
  <2>3. CASE v = u /\ l # k
    <3>1. KeyPast(o, l, now)
      BY <1>1, <1>5, <2>3 DEF KeysPast
    <3> QED BY <1>5, <2>3, <3>1 DEF KeyPast
  <2> QED BY <2>1, <2>2, <2>3
<1>8. ASSUME NEW e \in AllEntries
      PROVE  EntryOK(attack'[e.task.key.uid], e.task.key, e.score, now')
  <2> DEFINE l == e.task.key
  <2>1. EntryOK(attack[l.uid], l, e.score, now) /\ l \in Keys /\ l.uid \in Players
    BY <1>1, EntriesTyped DEF EntriesOK
  <2> SUFFICES EntryOK(attack'[l.uid], l, e.score, now')
    OBVIOUS
  <2> HIDE DEF l
  <2>2. CASE l.uid # u
    BY <1>4, <2>1, <2>2
  <2>3. CASE l.uid = u
    BY <1>3, <1>5, <2>1, <2>3 DEF EntryOK
  <2> QED BY <2>2, <2>3
<1>9. EntryOK(attack'[u], k, now, now')
  BY <1>1, <1>3, <1>5 DEF EntryOK
<1> QED BY <1>2, <1>4, <1>5, <1>6, <1>7, <1>8, <1>9

\* handleReturn's save: the party is home and its march is gone.
LEMMA SaveHomeKeepsRows ==
    ASSUME IInv, NEW u \in Players, NEW k \in DOMAIN attack[u],
           attack[u][k].status = "returning", SaveHome(u, k), now' = now
    PROVE  /\ RowsTyped' /\ KeysPast'
           /\ \A e \in AllEntries :
                  EntryOK(attack'[e.task.key.uid], e.task.key, e.score, now')
           /\ \A v \in Players \ {u} : attack'[v] = attack[v]
<1> DEFINE o == attack[u]
<1>1. /\ RowsTyped /\ CountersTyped /\ KeysPast /\ EntriesOK /\ Row(u, o)
      /\ k \in Keys /\ k.uid = u /\ k.leg = "return" /\ o[k] \in Marches
  BY DEF IInv, TypeOK, RowsTyped, Row
<1>2. /\ attack' = [attack EXCEPT ![u] = Drop(o, k)]
      /\ home' = [home EXCEPT ![u] = @ \cup o[k].troops]
      /\ UNCHANGED <<resources, fallen>>
  BY DEF SaveHome, CreditResources, SaveUserWorks
<1>3. /\ attack'[u] = Drop(o, k)
      /\ \A v \in Players \ {u} : attack'[v] = attack[v]
  BY <1>1, <1>2 DEF RowsTyped
<1>4. /\ Row(u, attack'[u])
      /\ DOMAIN attack'[u] = DOMAIN o \ {k}
      /\ \A l \in DOMAIN o \ {k} : attack'[u][l] = o[l]
  BY <1>1, <1>3, DropRow
<1>5. RowsTyped'
  <2>1. o[k].troops \subseteq Soldiers
    BY <1>1 DEF Marches
  <2> QED BY <1>1, <1>2, <1>3, <1>4, <2>1 DEF RowsTyped
<1>6. KeysPast'
  <2> SUFFICES ASSUME NEW v \in Players, NEW l \in DOMAIN attack'[v]
               PROVE  KeyPast(attack'[v], l, now')
    BY DEF KeysPast
  <2>1. CASE v # u
    BY <1>1, <1>3, <2>1 DEF KeysPast
  <2>2. CASE v = u
    <3>1. l \in DOMAIN o /\ l # k /\ KeyPast(o, l, now)
      BY <1>1, <1>4, <2>2 DEF KeysPast
    <3> QED BY <1>4, <2>2, <3>1 DEF KeyPast
  <2> QED BY <2>1, <2>2
<1>7. ASSUME NEW e \in AllEntries
      PROVE  EntryOK(attack'[e.task.key.uid], e.task.key, e.score, now')
  <2> DEFINE l == e.task.key
  <2>1. EntryOK(attack[l.uid], l, e.score, now) /\ l \in Keys /\ l.uid \in Players
    BY <1>1, EntriesTyped DEF EntriesOK
  <2> SUFFICES EntryOK(attack'[l.uid], l, e.score, now')
    OBVIOUS
  <2> HIDE DEF l
  <2>2. CASE l.uid # u
    BY <1>3, <2>1, <2>2
  <2>3. CASE l.uid = u
    BY <1>1, <1>4, <2>1, <2>3 DEF EntryOK
  <2> QED BY <2>2, <2>3
<1> QED BY <1>3, <1>5, <1>6, <1>7

\* A step that leaves the rows and the clock alone, and whose new entries are
\* right, keeps what is said of rows, keys and entries.
LEMMA NoRowChange ==
    ASSUME IInv, UNCHANGED <<row, now>>,
           \A e \in AllEntries' : e \in AllEntries \/ EntryOK(attack[e.task.key.uid], e.task.key, e.score, now)
    PROVE  RowsTyped' /\ KeysPast' /\ EntriesOK'
<1>1. /\ RowsTyped /\ KeysPast /\ EntriesOK
      /\ UNCHANGED <<home, attack, resources, fallen, now>>
  BY DEF IInv, TypeOK, row
<1>2. EntriesOK'
  BY <1>1 DEF EntriesOK
<1> QED BY <1>1, <1>2 DEF RowsTyped, KeysPast

\* RegisterMarch: the march joins its cell.
LEMMA RegisterKeepsInv ==
    ASSUME IInv, NEW u \in Players, LaunchRegister(u)
    PROVE  IInv'
<1>0. /\ RowsTyped /\ RedisTyped /\ ProcessTyped /\ CountersTyped
      /\ LocksHeld /\ KeysPast /\ EntriesOK /\ FetchedDue
  BY DEF IInv, TypeOK
<1>1. RowsTyped' /\ KeysPast' /\ EntriesOK'
  <2>1. \A e \in AllEntries' : e \in AllEntries
    BY <1>0 DEF LaunchRegister, RegisterMarch, row, redis, cells, consumer, faults, AllEntries, Busy, Adding
  <2> QED BY <2>1, NoRowChange DEF LaunchRegister, RegisterMarch, row, redis, cells, consumer, faults
<1>2. RedisTyped' /\ ProcessTyped' /\ CountersTyped'
  BY <1>0, BoundsAssumption DEF LaunchRegister, RegisterMarch, row, redis, cells, consumer, faults, RedisTyped, ProcessTyped, CountersTyped
<1>3. LocksHeld'
  BY <1>0 DEF LaunchRegister, RegisterMarch, row, redis, cells, consumer, faults, LocksHeld, RedisTyped, ProcessTyped, Busy, Adding, JobUid, JobKey, JobMarch
<1>4. FetchedDue'
  BY <1>0 DEF LaunchRegister, RegisterMarch, row, redis, cells, consumer, faults, FetchedDue, Busy
<1> QED BY <1>1, <1>2, <1>3, <1>4 DEF IInv, TypeOK


\* CancelGather takes the lock and the cell.
LEMMA CancelKeepsInv ==
    ASSUME IInv, NEW u \in Players, NEW k \in DOMAIN attack[u], CancelGather(u, k)
    PROVE  IInv'
<1>0. /\ RowsTyped /\ RedisTyped /\ ProcessTyped /\ CountersTyped
      /\ LocksHeld /\ KeysPast /\ EntriesOK /\ FetchedDue
  BY DEF IInv, TypeOK
<1>1. RowsTyped' /\ KeysPast' /\ EntriesOK'
  <2>1. \A e \in AllEntries' : e \in AllEntries
    BY <1>0 DEF CancelGather, RemoveMarch, row, redis, cells, consumer, faults, AllEntries, Busy, Adding
  <2> QED BY <2>1, NoRowChange DEF CancelGather, RemoveMarch, row, redis, cells, consumer, faults
<1>2. RedisTyped' /\ ProcessTyped' /\ CountersTyped'
  <2>1. RedisTyped'
    BY <1>0 DEF CancelGather, RemoveMarch, row, redis, cells, consumer, faults, RedisTyped
  <2>2. ProcessTyped'
    BY <1>0 DEF CancelGather, RemoveMarch, row, redis, cells, consumer, faults, ProcessTyped, RowsTyped, Row
  <2>3. CountersTyped'
    BY <1>0, BoundsAssumption DEF CancelGather, RemoveMarch, row, redis, cells, consumer, faults, CountersTyped
  <2> QED BY <2>1, <2>2, <2>3
<1>3. LocksHeld'
  BY <1>0 DEF CancelGather, RemoveMarch, row, redis, cells, consumer, faults, LocksHeld, RedisTyped, ProcessTyped, Busy, Adding, JobUid, JobKey, JobMarch
<1>4. FetchedDue'
  BY <1>0 DEF CancelGather, RemoveMarch, row, redis, cells, consumer, faults, FetchedDue, Busy
<1> QED BY <1>1, <1>2, <1>3, <1>4 DEF IInv, TypeOK


\* CancelGather ends with an error.
LEMMA CancelFailsKeepsInv ==
    ASSUME IInv, NEW u \in Players, CancelSaveFails(u)
    PROVE  IInv'
<1>0. /\ RowsTyped /\ RedisTyped /\ ProcessTyped /\ CountersTyped
      /\ LocksHeld /\ KeysPast /\ EntriesOK /\ FetchedDue
  BY DEF IInv, TypeOK
<1>1. RowsTyped' /\ KeysPast' /\ EntriesOK'
  <2>1. \A e \in AllEntries' : e \in AllEntries
    BY <1>0 DEF CancelSaveFails, Idle, row, redis, cells, consumer, faults, AllEntries, Busy, Adding
  <2> QED BY <2>1, NoRowChange DEF CancelSaveFails, Idle, row, redis, cells, consumer, faults
<1>2. RedisTyped' /\ ProcessTyped' /\ CountersTyped'
  BY <1>0, BoundsAssumption DEF CancelSaveFails, Idle, row, redis, cells, consumer, faults, RedisTyped, ProcessTyped, CountersTyped
<1>3. LocksHeld'
  BY <1>0 DEF CancelSaveFails, Idle, row, redis, cells, consumer, faults, LocksHeld, RedisTyped, ProcessTyped, Busy, Adding, JobUid, JobKey, JobMarch
<1>4. FetchedDue'
  BY <1>0 DEF CancelSaveFails, Idle, row, redis, cells, consumer, faults, FetchedDue, Busy
<1> QED BY <1>1, <1>2, <1>3, <1>4 DEF IInv, TypeOK

\* The ZADD of a request fails, and the request ends all the same.
LEMMA RequestEnqueueFailsKeepsInv ==
    ASSUME IInv, NEW u \in Players, RequestEnqueueFails(u)
    PROVE  IInv'
<1>0. /\ RowsTyped /\ RedisTyped /\ ProcessTyped /\ CountersTyped
      /\ LocksHeld /\ KeysPast /\ EntriesOK /\ FetchedDue
  BY DEF IInv, TypeOK
<1>1. RowsTyped' /\ KeysPast' /\ EntriesOK'
  <2>1. \A e \in AllEntries' : e \in AllEntries
    BY <1>0 DEF RequestEnqueueFails, Idle, row, redis, cells, consumer, faults, AllEntries, Busy, Adding
  <2> QED BY <2>1, NoRowChange DEF RequestEnqueueFails, Idle, row, redis, cells, consumer, faults
<1>2. RedisTyped' /\ ProcessTyped' /\ CountersTyped'
  BY <1>0, BoundsAssumption DEF RequestEnqueueFails, Idle, row, redis, cells, consumer, faults, RedisTyped, ProcessTyped, CountersTyped
<1>3. LocksHeld'
  BY <1>0 DEF RequestEnqueueFails, Idle, row, redis, cells, consumer, faults, LocksHeld, RedisTyped, ProcessTyped, Busy, Adding, JobUid, JobKey, JobMarch
<1>4. FetchedDue'
  BY <1>0 DEF RequestEnqueueFails, Idle, row, redis, cells, consumer, faults, FetchedDue, Busy
<1> QED BY <1>1, <1>2, <1>3, <1>4 DEF IInv, TypeOK


\* The consumer fetches what is due.
LEMMA FetchKeepsInv ==
    ASSUME IInv, Fetch
    PROVE  IInv'
<1>0. /\ RowsTyped /\ RedisTyped /\ ProcessTyped /\ CountersTyped
      /\ LocksHeld /\ KeysPast /\ EntriesOK /\ FetchedDue
  BY DEF IInv, TypeOK
<1>1. RowsTyped' /\ KeysPast' /\ EntriesOK'
  <2>1. \A e \in AllEntries' : e \in AllEntries
    BY <1>0 DEF Fetch, Batches, Due, row, redis, cells, consumer, faults, AllEntries, Busy, Adding
  <2> QED BY <2>1, NoRowChange DEF Fetch, Batches, Due, row, redis, cells, consumer, faults
<1>2. RedisTyped' /\ ProcessTyped' /\ CountersTyped'
  BY <1>0, BoundsAssumption DEF Fetch, Batches, Due, row, redis, cells, consumer, faults, RedisTyped, ProcessTyped, CountersTyped
<1>3. LocksHeld'
  BY <1>0 DEF Fetch, Batches, Due, row, redis, cells, consumer, faults, LocksHeld, RedisTyped, ProcessTyped, Busy, Adding, JobUid, JobKey, JobMarch
<1>4. FetchedDue'
  BY <1>0 DEF Fetch, Batches, Due, row, redis, cells, consumer, faults, FetchedDue, Busy
<1> QED BY <1>1, <1>2, <1>3, <1>4 DEF IInv, TypeOK


\* The consumer leaves the task of a busy player.
LEMMA SkipKeepsInv ==
    ASSUME IInv, SkipLocked
    PROVE  IInv'
<1>0. /\ RowsTyped /\ RedisTyped /\ ProcessTyped /\ CountersTyped
      /\ LocksHeld /\ KeysPast /\ EntriesOK /\ FetchedDue
  BY DEF IInv, TypeOK
<1>1. RowsTyped' /\ KeysPast' /\ EntriesOK'
  <2>1. \A e \in AllEntries' : e \in AllEntries
    BY <1>0 DEF SkipLocked, First, row, redis, cells, consumer, faults, AllEntries, Busy, Adding
  <2> QED BY <2>1, NoRowChange DEF SkipLocked, First, row, redis, cells, consumer, faults
<1>2. RedisTyped' /\ ProcessTyped' /\ CountersTyped'
  BY <1>0, BoundsAssumption DEF SkipLocked, First, row, redis, cells, consumer, faults, RedisTyped, ProcessTyped, CountersTyped
<1>3. LocksHeld'
  BY <1>0 DEF SkipLocked, First, row, redis, cells, consumer, faults, LocksHeld, RedisTyped, ProcessTyped, Busy, Adding, JobUid, JobKey, JobMarch
<1>4. FetchedDue'
  BY <1>0 DEF SkipLocked, First, row, redis, cells, consumer, faults, FetchedDue, Busy
<1> QED BY <1>1, <1>2, <1>3, <1>4 DEF IInv, TypeOK


\* The consumer takes a task in hand.
LEMMA TakeKeepsInv ==
    ASSUME IInv, TakeTask
    PROVE  IInv'
<1>0. /\ RowsTyped /\ RedisTyped /\ ProcessTyped /\ CountersTyped
      /\ LocksHeld /\ KeysPast /\ EntriesOK /\ FetchedDue
  BY DEF IInv, TypeOK
<1> PICK e \in First(batch) :
           /\ stage = "next"
           /\ lock[e.task.key.uid] = "free"
           /\ lock' = [lock EXCEPT ![e.task.key.uid] = "consumer"]
           /\ batch' = batch \ {e}
           /\ job' = [entry |-> e, add |-> None]
           /\ stage' = "handle"
           /\ UNCHANGED <<home, attack, resources, fallen, zset, cellMem, cellCache,
                          loaded, req, now, crashes, failures>>
  BY DEF TakeTask, row, cells, faults
<1>1. e \in batch /\ e \in Entries /\ e.task.key.uid \in Players
  <2>1. e \in batch /\ e \in AllEntries
    BY DEF First, AllEntries
  <2> QED BY <1>0, <2>1, EntriesTyped DEF ProcessTyped
<1>2. RowsTyped' /\ KeysPast' /\ EntriesOK'
  <2>1. \A x \in AllEntries' : x \in AllEntries
    BY <1>1 DEF AllEntries, Busy, Adding
  <2> QED BY <2>1, NoRowChange DEF row
<1>3. RedisTyped'
  BY <1>0, <1>1 DEF RedisTyped
<1>4. ProcessTyped'
  BY <1>0, <1>1 DEF ProcessTyped
<1>5. CountersTyped'
  BY <1>0 DEF CountersTyped
<1>6. LocksHeld'
  BY <1>0, <1>1 DEF RedisTyped, LocksHeld, Busy, Adding, JobUid, JobKey, JobMarch
<1>7. FetchedDue'
  BY <1>0, <1>1 DEF FetchedDue, Busy
<1> QED BY <1>2, <1>3, <1>4, <1>5, <1>6, <1>7 DEF IInv, TypeOK


\* The row of the task in hand cannot be read.
LEMMA LoadFailsKeepsInv ==
    ASSUME IInv, LoadFails
    PROVE  IInv'
<1>0. /\ RowsTyped /\ RedisTyped /\ ProcessTyped /\ CountersTyped
      /\ LocksHeld /\ KeysPast /\ EntriesOK /\ FetchedDue
  BY DEF IInv, TypeOK
<1>1. RowsTyped' /\ KeysPast' /\ EntriesOK'
  <2>1. \A e \in AllEntries' : e \in AllEntries
    BY <1>0 DEF LoadFails, row, redis, cells, consumer, faults, AllEntries, Busy, Adding
  <2> QED BY <2>1, NoRowChange DEF LoadFails, row, redis, cells, consumer, faults
<1>2. RedisTyped' /\ ProcessTyped' /\ CountersTyped'
  BY <1>0, BoundsAssumption DEF LoadFails, row, redis, cells, consumer, faults, RedisTyped, ProcessTyped, CountersTyped
<1>3. LocksHeld'
  BY <1>0 DEF LoadFails, row, redis, cells, consumer, faults, LocksHeld, RedisTyped, ProcessTyped, Busy, Adding, JobUid, JobKey, JobMarch
<1>4. FetchedDue'
  BY <1>0 DEF LoadFails, row, redis, cells, consumer, faults, FetchedDue, Busy
<1> QED BY <1>1, <1>2, <1>3, <1>4 DEF IInv, TypeOK


\* The task names no march of the row.
LEMMA DropKeepsInv ==
    ASSUME IInv, DropOrphan
    PROVE  IInv'
<1>0. /\ RowsTyped /\ RedisTyped /\ ProcessTyped /\ CountersTyped
      /\ LocksHeld /\ KeysPast /\ EntriesOK /\ FetchedDue
  BY DEF IInv, TypeOK
<1>1. RowsTyped' /\ KeysPast' /\ EntriesOK'
  <2>1. \A e \in AllEntries' : e \in AllEntries
    BY <1>0 DEF DropOrphan, row, redis, cells, consumer, faults, AllEntries, Busy, Adding
  <2> QED BY <2>1, NoRowChange DEF DropOrphan, row, redis, cells, consumer, faults
<1>2. RedisTyped' /\ ProcessTyped' /\ CountersTyped'
  BY <1>0, BoundsAssumption DEF DropOrphan, row, redis, cells, consumer, faults, RedisTyped, ProcessTyped, CountersTyped
<1>3. LocksHeld'
  BY <1>0 DEF DropOrphan, row, redis, cells, consumer, faults, LocksHeld, RedisTyped, ProcessTyped, Busy, Adding, JobUid, JobKey, JobMarch
<1>4. FetchedDue'
  BY <1>0 DEF DropOrphan, row, redis, cells, consumer, faults, FetchedDue, Busy
<1> QED BY <1>1, <1>2, <1>3, <1>4 DEF IInv, TypeOK


\* A march that cannot act yet.
LEMMA WaitKeepsInv ==
    ASSUME IInv, ArriveWait
    PROVE  IInv'
<1>0. /\ RowsTyped /\ RedisTyped /\ ProcessTyped /\ CountersTyped
      /\ LocksHeld /\ KeysPast /\ EntriesOK /\ FetchedDue
  BY DEF IInv, TypeOK
<1>1. RowsTyped' /\ KeysPast' /\ EntriesOK'
  <2>1. \A e \in AllEntries' : e \in AllEntries
    BY <1>0 DEF ArriveWait, OnMarchArrive, Handling, row, redis, cells, consumer, faults, AllEntries, Busy, Adding
  <2> QED BY <2>1, NoRowChange DEF ArriveWait, OnMarchArrive, Handling, row, redis, cells, consumer, faults
<1>2. RedisTyped' /\ ProcessTyped' /\ CountersTyped'
  BY <1>0, BoundsAssumption DEF ArriveWait, OnMarchArrive, Handling, row, redis, cells, consumer, faults, RedisTyped, ProcessTyped, CountersTyped
<1>3. LocksHeld'
  BY <1>0 DEF ArriveWait, OnMarchArrive, Handling, row, redis, cells, consumer, faults, LocksHeld, RedisTyped, ProcessTyped, Busy, Adding, JobUid, JobKey, JobMarch
<1>4. FetchedDue'
  BY <1>0 DEF ArriveWait, OnMarchArrive, Handling, row, redis, cells, consumer, faults, FetchedDue, Busy
<1> QED BY <1>1, <1>2, <1>3, <1>4 DEF IInv, TypeOK


\* A failed save at the arrival.
LEMMA ArriveFailsKeepsInv ==
    ASSUME IInv, ArriveSaveFails
    PROVE  IInv'
<1>0. /\ RowsTyped /\ RedisTyped /\ ProcessTyped /\ CountersTyped
      /\ LocksHeld /\ KeysPast /\ EntriesOK /\ FetchedDue
  BY DEF IInv, TypeOK
<1>1. RowsTyped' /\ KeysPast' /\ EntriesOK'
  <2>1. \A e \in AllEntries' : e \in AllEntries
    BY <1>0 DEF ArriveSaveFails, OnMarchArrive, Handling, row, redis, cells, consumer, faults, AllEntries, Busy, Adding
  <2> QED BY <2>1, NoRowChange DEF ArriveSaveFails, OnMarchArrive, Handling, row, redis, cells, consumer, faults
<1>2. RedisTyped' /\ ProcessTyped' /\ CountersTyped'
  <2>1. RedisTyped'
    BY <1>0 DEF ArriveSaveFails, OnMarchArrive, Handling, row, redis, cells, consumer, faults, RedisTyped
  <2>2. ProcessTyped'
    BY <1>0 DEF ArriveSaveFails, OnMarchArrive, Handling, row, redis, cells, consumer, faults, ProcessTyped
  <2>3. CountersTyped'
    BY <1>0, BoundsAssumption DEF ArriveSaveFails, OnMarchArrive, Handling, row, redis, cells, consumer, faults, CountersTyped
  <2> QED BY <2>1, <2>2, <2>3
<1>3. LocksHeld'
  BY <1>0 DEF ArriveSaveFails, OnMarchArrive, Handling, row, redis, cells, consumer, faults, LocksHeld, RedisTyped, ProcessTyped, Busy, Adding, JobUid, JobKey, JobMarch
<1>4. FetchedDue'
  BY <1>0 DEF ArriveSaveFails, OnMarchArrive, Handling, row, redis, cells, consumer, faults, FetchedDue, Busy
<1> QED BY <1>1, <1>2, <1>3, <1>4 DEF IInv, TypeOK


\* A gathering leaves its cell.
LEMMA GatherCompleteKeepsInv ==
    ASSUME IInv, GatherComplete
    PROVE  IInv'
<1>0. /\ RowsTyped /\ RedisTyped /\ ProcessTyped /\ CountersTyped
      /\ LocksHeld /\ KeysPast /\ EntriesOK /\ FetchedDue
  BY DEF IInv, TypeOK
<1>1. RowsTyped' /\ KeysPast' /\ EntriesOK'
  <2>1. \A e \in AllEntries' : e \in AllEntries
    BY <1>0 DEF GatherComplete, RemoveMarch, Handling, row, redis, cells, consumer, faults, AllEntries, Busy, Adding
  <2> QED BY <2>1, NoRowChange DEF GatherComplete, RemoveMarch, Handling, row, redis, cells, consumer, faults
<1>2. RedisTyped' /\ ProcessTyped' /\ CountersTyped'
  BY <1>0, BoundsAssumption DEF GatherComplete, RemoveMarch, Handling, row, redis, cells, consumer, faults, RedisTyped, ProcessTyped, CountersTyped
<1>3. LocksHeld'
  BY <1>0 DEF GatherComplete, RemoveMarch, Handling, row, redis, cells, consumer, faults, LocksHeld, RedisTyped, ProcessTyped, Busy, Adding, JobUid, JobKey, JobMarch
<1>4. FetchedDue'
  BY <1>0 DEF GatherComplete, RemoveMarch, Handling, row, redis, cells, consumer, faults, FetchedDue, Busy
<1> QED BY <1>1, <1>2, <1>3, <1>4 DEF IInv, TypeOK


\* A failed save on the way back.
LEMMA TurnFailsKeepsInv ==
    ASSUME IInv, TurnSaveFails
    PROVE  IInv'
<1>0. /\ RowsTyped /\ RedisTyped /\ ProcessTyped /\ CountersTyped
      /\ LocksHeld /\ KeysPast /\ EntriesOK /\ FetchedDue
  BY DEF IInv, TypeOK
<1>1. RowsTyped' /\ KeysPast' /\ EntriesOK'
  <2>1. \A e \in AllEntries' : e \in AllEntries
    BY <1>0 DEF TurnSaveFails, Handling, row, redis, cells, consumer, faults, AllEntries, Busy, Adding
  <2> QED BY <2>1, NoRowChange DEF TurnSaveFails, Handling, row, redis, cells, consumer, faults
<1>2. RedisTyped' /\ ProcessTyped' /\ CountersTyped'
  BY <1>0, BoundsAssumption DEF TurnSaveFails, Handling, row, redis, cells, consumer, faults, RedisTyped, ProcessTyped, CountersTyped
<1>3. LocksHeld'
  BY <1>0 DEF TurnSaveFails, Handling, row, redis, cells, consumer, faults, LocksHeld, RedisTyped, ProcessTyped, Busy, Adding, JobUid, JobKey, JobMarch
<1>4. FetchedDue'
  BY <1>0 DEF TurnSaveFails, Handling, row, redis, cells, consumer, faults, FetchedDue, Busy
<1> QED BY <1>1, <1>2, <1>3, <1>4 DEF IInv, TypeOK


\* ZADD of the next task.
LEMMA EnqueueNextKeepsInv ==
    ASSUME IInv, EnqueueNext
    PROVE  IInv'
<1>0. /\ RowsTyped /\ RedisTyped /\ ProcessTyped /\ CountersTyped
      /\ LocksHeld /\ KeysPast /\ EntriesOK /\ FetchedDue
  BY DEF IInv, TypeOK
<1>1. RowsTyped' /\ KeysPast' /\ EntriesOK'
  <2>1. \A e \in AllEntries' : e \in AllEntries
    BY <1>0 DEF EnqueueNext, ZAdd, row, redis, cells, consumer, faults, AllEntries, Busy, Adding
  <2> QED BY <2>1, NoRowChange DEF EnqueueNext, ZAdd, row, redis, cells, consumer, faults
<1>2. RedisTyped' /\ ProcessTyped' /\ CountersTyped'
  <2>1. RedisTyped'
    BY <1>0 DEF EnqueueNext, ZAdd, row, redis, cells, consumer, faults, RedisTyped, LocksHeld, Adding
  <2>2. ProcessTyped'
    BY <1>0 DEF EnqueueNext, ZAdd, row, redis, cells, consumer, faults, ProcessTyped
  <2>3. CountersTyped'
    BY <1>0, BoundsAssumption DEF EnqueueNext, ZAdd, row, redis, cells, consumer, faults, CountersTyped
  <2> QED BY <2>1, <2>2, <2>3
<1>3. LocksHeld'
  BY <1>0 DEF EnqueueNext, ZAdd, row, redis, cells, consumer, faults, LocksHeld, RedisTyped, ProcessTyped, Busy, Adding, JobUid, JobKey, JobMarch
<1>4. FetchedDue'
  BY <1>0 DEF EnqueueNext, ZAdd, row, redis, cells, consumer, faults, FetchedDue, Busy
<1> QED BY <1>1, <1>2, <1>3, <1>4 DEF IInv, TypeOK


\* That ZADD fails.
LEMMA EnqueueFailsKeepsInv ==
    ASSUME IInv, EnqueueFails
    PROVE  IInv'
<1>0. /\ RowsTyped /\ RedisTyped /\ ProcessTyped /\ CountersTyped
      /\ LocksHeld /\ KeysPast /\ EntriesOK /\ FetchedDue
  BY DEF IInv, TypeOK
<1>1. RowsTyped' /\ KeysPast' /\ EntriesOK'
  <2>1. \A e \in AllEntries' : e \in AllEntries
    BY <1>0 DEF EnqueueFails, row, redis, cells, consumer, faults, AllEntries, Busy, Adding
  <2> QED BY <2>1, NoRowChange DEF EnqueueFails, row, redis, cells, consumer, faults
<1>2. RedisTyped' /\ ProcessTyped' /\ CountersTyped'
  BY <1>0, BoundsAssumption DEF EnqueueFails, row, redis, cells, consumer, faults, RedisTyped, ProcessTyped, CountersTyped
<1>3. LocksHeld'
  BY <1>0 DEF EnqueueFails, row, redis, cells, consumer, faults, LocksHeld, RedisTyped, ProcessTyped, Busy, Adding, JobUid, JobKey, JobMarch
<1>4. FetchedDue'
  BY <1>0 DEF EnqueueFails, row, redis, cells, consumer, faults, FetchedDue, Busy
<1> QED BY <1>1, <1>2, <1>3, <1>4 DEF IInv, TypeOK


\* RemoveMarch after a raid or a station.
LEMMA LeaveKeepsInv ==
    ASSUME IInv, LeaveCell
    PROVE  IInv'
<1>0. /\ RowsTyped /\ RedisTyped /\ ProcessTyped /\ CountersTyped
      /\ LocksHeld /\ KeysPast /\ EntriesOK /\ FetchedDue
  BY DEF IInv, TypeOK
<1>1. RowsTyped' /\ KeysPast' /\ EntriesOK'
  <2>1. \A e \in AllEntries' : e \in AllEntries
    BY <1>0 DEF LeaveCell, RemoveMarch, row, redis, cells, consumer, faults, AllEntries, Busy, Adding
  <2> QED BY <2>1, NoRowChange DEF LeaveCell, RemoveMarch, row, redis, cells, consumer, faults
<1>2. RedisTyped' /\ ProcessTyped' /\ CountersTyped'
  BY <1>0, BoundsAssumption DEF LeaveCell, RemoveMarch, row, redis, cells, consumer, faults, RedisTyped, ProcessTyped, CountersTyped
<1>3. LocksHeld'
  BY <1>0 DEF LeaveCell, RemoveMarch, row, redis, cells, consumer, faults, LocksHeld, RedisTyped, ProcessTyped, Busy, Adding, JobUid, JobKey, JobMarch
<1>4. FetchedDue'
  BY <1>0 DEF LeaveCell, RemoveMarch, row, redis, cells, consumer, faults, FetchedDue, Busy
<1> QED BY <1>1, <1>2, <1>3, <1>4 DEF IInv, TypeOK


\* ZREM and unlock.
LEMMA FinishKeepsInv ==
    ASSUME IInv, FinishTask
    PROVE  IInv'
<1>0. /\ RowsTyped /\ RedisTyped /\ ProcessTyped /\ CountersTyped
      /\ LocksHeld /\ KeysPast /\ EntriesOK /\ FetchedDue
  BY DEF IInv, TypeOK
<1>1. RowsTyped' /\ KeysPast' /\ EntriesOK'
  <2>1. \A e \in AllEntries' : e \in AllEntries
    BY <1>0 DEF FinishTask, ZRem, NoJob, row, redis, cells, consumer, faults, AllEntries, Busy, Adding
  <2> QED BY <2>1, NoRowChange DEF FinishTask, ZRem, NoJob, row, redis, cells, consumer, faults
<1>2. RedisTyped' /\ ProcessTyped' /\ CountersTyped'
  BY <1>0, BoundsAssumption DEF FinishTask, ZRem, NoJob, row, redis, cells, consumer, faults, RedisTyped, ProcessTyped, CountersTyped
<1>3. LocksHeld'
  BY <1>0 DEF FinishTask, ZRem, NoJob, row, redis, cells, consumer, faults, LocksHeld, RedisTyped, ProcessTyped, Busy, Adding, JobUid, JobKey, JobMarch
<1>4. FetchedDue'
  BY <1>0 DEF FinishTask, ZRem, NoJob, row, redis, cells, consumer, faults, FetchedDue, Busy
<1> QED BY <1>1, <1>2, <1>3, <1>4 DEF IInv, TypeOK


\* Crash and restart.
LEMMA CrashKeepsInv ==
    ASSUME IInv, NEW wiped \in BOOLEAN, Crash(wiped)
    PROVE  IInv'
<1>0. /\ RowsTyped /\ RedisTyped /\ ProcessTyped /\ CountersTyped
      /\ LocksHeld /\ KeysPast /\ EntriesOK /\ FetchedDue
  BY DEF IInv, TypeOK
<1>1. RowsTyped' /\ KeysPast' /\ EntriesOK'
  <2>1. \A e \in AllEntries' : e \in AllEntries
    BY <1>0 DEF Crash, NoJob, Idle, row, redis, cells, consumer, faults, AllEntries, Busy, Adding
  <2> QED BY <2>1, NoRowChange DEF Crash, NoJob, Idle, row, redis, cells, consumer, faults
<1>2. RedisTyped' /\ ProcessTyped' /\ CountersTyped'
  BY <1>0, BoundsAssumption DEF Crash, NoJob, Idle, row, redis, cells, consumer, faults, RedisTyped, ProcessTyped, CountersTyped
<1>3. LocksHeld'
  BY <1>0 DEF Crash, NoJob, Idle, row, redis, cells, consumer, faults, LocksHeld, RedisTyped, ProcessTyped, Busy, Adding, JobUid, JobKey, JobMarch
<1>4. FetchedDue'
  BY <1>0 DEF Crash, NoJob, Idle, row, redis, cells, consumer, faults, FetchedDue, Busy
<1> QED BY <1>1, <1>2, <1>3, <1>4 DEF IInv, TypeOK


\* loadAllCells, one cell.
LEMMA LoadKeepsInv ==
    ASSUME IInv, NEW c \in Cells, LoadCell(c)
    PROVE  IInv'
<1>0. /\ RowsTyped /\ RedisTyped /\ ProcessTyped /\ CountersTyped
      /\ LocksHeld /\ KeysPast /\ EntriesOK /\ FetchedDue
  BY DEF IInv, TypeOK
<1>1. RowsTyped' /\ KeysPast' /\ EntriesOK'
  <2>1. \A e \in AllEntries' : e \in AllEntries
    BY <1>0 DEF LoadCell, row, redis, cells, consumer, faults, AllEntries, Busy, Adding
  <2> QED BY <2>1, NoRowChange DEF LoadCell, row, redis, cells, consumer, faults
<1>2. RedisTyped' /\ ProcessTyped' /\ CountersTyped'
  BY <1>0, BoundsAssumption DEF LoadCell, row, redis, cells, consumer, faults, RedisTyped, ProcessTyped, CountersTyped
<1>3. LocksHeld'
  BY <1>0 DEF LoadCell, row, redis, cells, consumer, faults, LocksHeld, RedisTyped, ProcessTyped, Busy, Adding, JobUid, JobKey, JobMarch
<1>4. FetchedDue'
  BY <1>0 DEF LoadCell, row, redis, cells, consumer, faults, FetchedDue, Busy
<1> QED BY <1>1, <1>2, <1>3, <1>4 DEF IInv, TypeOK


\* The lock of a dead process expires.
LEMMA ExpireKeepsInv ==
    ASSUME IInv, NEW u \in Players, LockExpires(u)
    PROVE  IInv'
<1>0. /\ RowsTyped /\ RedisTyped /\ ProcessTyped /\ CountersTyped
      /\ LocksHeld /\ KeysPast /\ EntriesOK /\ FetchedDue
  BY DEF IInv, TypeOK
<1>1. RowsTyped' /\ KeysPast' /\ EntriesOK'
  <2>1. \A e \in AllEntries' : e \in AllEntries
    BY <1>0 DEF LockExpires, row, redis, cells, consumer, faults, AllEntries, Busy, Adding
  <2> QED BY <2>1, NoRowChange DEF LockExpires, row, redis, cells, consumer, faults
<1>2. RedisTyped' /\ ProcessTyped' /\ CountersTyped'
  BY <1>0, BoundsAssumption DEF LockExpires, row, redis, cells, consumer, faults, RedisTyped, ProcessTyped, CountersTyped
<1>3. LocksHeld'
  BY <1>0 DEF LockExpires, row, redis, cells, consumer, faults, LocksHeld, RedisTyped, ProcessTyped, Busy, Adding, JobUid, JobKey, JobMarch
<1>4. FetchedDue'
  BY <1>0 DEF LockExpires, row, redis, cells, consumer, faults, FetchedDue, Busy
<1> QED BY <1>1, <1>2, <1>3, <1>4 DEF IInv, TypeOK

\* The task in hand names a player and a key; a march on its way that it finds
\* in the row has arrived.
LEMMA TaskInHand ==
    ASSUME IInv, Busy
    PROVE  /\ job.entry \in AllEntries /\ JobKey \in Keys /\ JobUid \in Players
           /\ lock[JobUid] = "consumer" /\ req[JobUid].stage = "idle"
           /\ JobKey \in DOMAIN attack[JobUid] =>
                  /\ JobMarch \in Marches
                  /\ JobMarch.status = "returning" <=> JobKey.leg = "return"
                  /\ JobMarch.status = "returning" => JobMarch.arrive <= now
                  /\ JobMarch.status = "going" => SameSecond \/ JobMarch.arrive <= now
                  /\ JobKey.leg # "return" => JobKey.leg = "march"
                  /\ JobKey.at < now
<1>1. /\ RowsTyped /\ RedisTyped /\ ProcessTyped /\ CountersTyped
      /\ LocksHeld /\ KeysPast /\ EntriesOK /\ FetchedDue
  BY DEF IInv, TypeOK
<1>2. /\ job.entry \in AllEntries /\ JobKey \in Keys /\ JobUid \in Players
      /\ job.entry.score \in Nat /\ job.entry.score <= now
      /\ JobKey.leg \in {"march", "return"} /\ JobKey.at \in Nat
  BY <1>1, EntriesTyped, BoundsAssumption DEF AllEntries, FetchedDue, JobKey, JobUid
<1>3. lock[JobUid] = "consumer" /\ req[JobUid].stage = "idle"
  BY <1>1, <1>2 DEF LocksHeld
<1>4. ASSUME JobKey \in DOMAIN attack[JobUid]
      PROVE  /\ JobMarch \in Marches
             /\ JobMarch.status = "returning" <=> JobKey.leg = "return"
             /\ JobMarch.status = "returning" => JobMarch.arrive <= now
             /\ JobMarch.status = "going" => SameSecond \/ JobMarch.arrive <= now
             /\ JobKey.leg # "return" => JobKey.leg = "march"
             /\ JobKey.at < now
  <2>1. /\ JobMarch \in Marches
        /\ JobMarch.status = "returning" <=> JobKey.leg = "return"
    BY <1>1, <1>2, <1>4 DEF RowsTyped, Row, JobMarch
  <2>2. JobMarch.status \in Statuses /\ JobMarch.arrive \in Nat /\ now \in Nat
    BY <1>1, <2>1 DEF Marches, CountersTyped
  <2>3. EntryOK(attack[JobUid], JobKey, job.entry.score, now)
    BY <1>1, <1>2 DEF EntriesOK, JobKey, JobUid
  <2>4. /\ JobMarch.status = "returning" => JobMarch.arrive <= now
        /\ JobMarch.status = "going" => SameSecond \/ JobMarch.arrive <= now
        /\ JobKey.at < now
    BY <1>2, <1>4, <2>2, <2>3 DEF EntryOK, JobMarch
  <2> QED BY <1>2, <2>1, <2>4
<1> QED BY <1>2, <1>3, <1>4

\* The last step of a request: the task of its march, and the unlock.
LEMMA RequestEnqueueKeepsInv ==
    ASSUME IInv, NEW u \in Players, RequestEnqueue(u)
    PROVE  IInv'
<1>0. /\ RowsTyped /\ RedisTyped /\ ProcessTyped /\ CountersTyped
      /\ LocksHeld /\ KeysPast /\ EntriesOK /\ FetchedDue
  BY DEF IInv, TypeOK
<1> DEFINE k == req[u].key
<1>1. /\ k \in DOMAIN attack[u] /\ k \in Keys /\ k.uid = u
      /\ attack[u][k].arrive \in Nat
      /\ KeyPast(attack[u], k, now)
  BY <1>0 DEF RequestEnqueue, LocksHeld, RowsTyped, Row, KeysPast, Marches
<1>2. Schedule(u, k) \in Entries /\ Schedule(u, k).task.key = k
      /\ Schedule(u, k).score = attack[u][k].arrive
  BY <1>1 DEF Schedule, DueAt, Entry, Task, Entries
<1>3. EntryOK(attack[u], k, attack[u][k].arrive, now)
  BY <1>0, <1>1 DEF EntryOK, KeyPast, CountersTyped
<1>4. /\ zset' = ZAdd(zset, Schedule(u, k))
      /\ req' = [req EXCEPT ![u] = Idle]
      /\ lock' = [lock EXCEPT ![u] = "free"]
      /\ lock[u] = "request"
      /\ UNCHANGED <<home, attack, resources, fallen, cellMem, cellCache, loaded,
                     stage, batch, job, now, crashes, failures>>
  BY <1>0 DEF RequestEnqueue, LocksHeld, row, cells, consumer, faults
<1> HIDE DEF k
<1>5. RowsTyped' /\ KeysPast' /\ EntriesOK'
  <2>1. \A e \in AllEntries' : e \in AllEntries \/ e = Schedule(u, k)
    BY <1>4 DEF AllEntries, Busy, Adding, ZAdd
  <2>2. \A e \in AllEntries' :
            e \in AllEntries \/ EntryOK(attack[e.task.key.uid], e.task.key, e.score, now)
    BY <1>1, <1>2, <1>3, <2>1
  <2> QED BY <1>4, <2>2, NoRowChange DEF row
<1>6. RedisTyped' /\ ProcessTyped' /\ CountersTyped'
  BY <1>0, <1>2, <1>4 DEF RedisTyped, ProcessTyped, CountersTyped, ZAdd, Idle
<1>7. LocksHeld'
  BY <1>0, <1>4 DEF LocksHeld, RedisTyped, ProcessTyped, Busy, Adding, JobUid, JobKey, JobMarch, Idle
<1>8. FetchedDue'
  BY <1>0, <1>4 DEF FetchedDue, Busy
<1> QED BY <1>5, <1>6, <1>7, <1>8 DEF IInv, TypeOK

\* CancelGather saves the way back.
LEMMA CancelTurnKeepsInv ==
    ASSUME IInv, NEW u \in Players, CancelTurnBack(u)
    PROVE  IInv'
<1>0. /\ RowsTyped /\ RedisTyped /\ ProcessTyped /\ CountersTyped
      /\ LocksHeld /\ KeysPast /\ EntriesOK /\ FetchedDue
  BY DEF IInv, TypeOK
<1> DEFINE k == req[u].key
           r == ReturnKey(k)
<1>1. /\ k \in DOMAIN attack[u] /\ attack[u][k].status = "gathering"
      /\ lock[u] = "request"
  BY <1>0 DEF CancelTurnBack, LocksHeld
<1>2. k.leg = "march" /\ k.at < now
  BY <1>0, <1>1 DEF RowsTyped, Row, Keys, KeysPast, KeyPast
<1>3. /\ SaveReturn(u, k, {}, GatherAmount)
      /\ req' = [req EXCEPT ![u] = [stage |-> "enqueue", key |-> r]]
      /\ UNCHANGED <<zset, lock, cellMem, cellCache, loaded, stage, batch, job, now,
                     crashes, failures>>
  BY DEF CancelTurnBack, cells, consumer, faults
<1>4. /\ RowsTyped' /\ KeysPast'
      /\ \A e \in AllEntries :
             EntryOK(attack'[e.task.key.uid], e.task.key, e.score, now')
      /\ r \in Keys
      /\ DOMAIN attack'[u] = (DOMAIN attack[u] \ {k}) \cup {r}
      /\ \A v \in Players \ {u} : attack'[v] = attack[v]
  BY <1>1, <1>2, <1>3, SaveReturnKeepsRows
<1> HIDE DEF k, r
<1>5. EntriesOK'
  <2>1. AllEntries' = AllEntries
    BY <1>3 DEF AllEntries, Busy, Adding
  <2> QED BY <1>4, <2>1 DEF EntriesOK
<1>6. RedisTyped' /\ ProcessTyped' /\ CountersTyped'
  BY <1>0, <1>3, <1>4 DEF RedisTyped, ProcessTyped, CountersTyped
<1>7. LocksHeld'
  <2>1. Busy => JobUid \in Players /\ JobUid # u
    BY <1>1, TaskInHand
  <2> QED BY <1>0, <1>1, <1>3, <1>4, <2>1
          DEF LocksHeld, ProcessTyped, Busy, Adding, JobUid, JobKey, JobMarch
<1>8. FetchedDue'
  BY <1>0, <1>3 DEF FetchedDue, Busy
<1> QED BY <1>4, <1>5, <1>6, <1>7, <1>8 DEF IInv, TypeOK

\* rebuildDelayQueue schedules marches at their ArriveTime: all of them, or
\* those it gets to before something fails.
LEMMA ReaddKeepsInv ==
    ASSUME IInv, NEW again \in SUBSET MarchEntries, Readd(again),
           failures' = failures \/ (failures' = failures + 1 /\ failures < MaxFailures)
    PROVE  IInv'
<1>0. /\ RowsTyped /\ RedisTyped /\ ProcessTyped /\ CountersTyped
      /\ LocksHeld /\ KeysPast /\ EntriesOK /\ FetchedDue
  BY DEF IInv, TypeOK
<1>1. \A u \in Players : \A k \in DOMAIN attack[u] :
          /\ Schedule(u, k) \in Entries
          /\ EntryOK(attack[Schedule(u, k).task.key.uid], Schedule(u, k).task.key,
                     Schedule(u, k).score, now)
  <2> SUFFICES ASSUME NEW u \in Players, NEW k \in DOMAIN attack[u]
               PROVE  /\ Schedule(u, k) \in Entries
                      /\ EntryOK(attack[Schedule(u, k).task.key.uid],
                                 Schedule(u, k).task.key, Schedule(u, k).score, now)
    OBVIOUS
  <2>1. /\ k \in Keys /\ k.uid = u /\ attack[u][k].arrive \in Nat
        /\ KeyPast(attack[u], k, now)
    BY <1>0 DEF RowsTyped, Row, KeysPast, Marches
  <2>2. /\ Schedule(u, k) \in Entries /\ Schedule(u, k).task.key = k
        /\ Schedule(u, k).score = attack[u][k].arrive
    BY <2>1 DEF Schedule, DueAt, Entry, Task, Entries
  <2>3. EntryOK(attack[u], k, attack[u][k].arrive, now)
    BY <1>0, <2>1 DEF EntryOK, KeyPast, CountersTyped
  <2> QED BY <2>1, <2>2, <2>3
<1>2. /\ stage = "rebuild" /\ stage' = "next"
      /\ \A e \in zset' : e \in zset \/ \E u \in Players : \E k \in DOMAIN attack[u] : e = Schedule(u, k)
      /\ UNCHANGED <<home, attack, resources, fallen, lock, cellMem, cellCache, loaded,
                     batch, job, req, now, crashes>>
  BY DEF Readd, MarchEntries, row, cells
<1>3. RowsTyped' /\ KeysPast' /\ EntriesOK'
  <2>1. \A e \in AllEntries' :
            e \in AllEntries \/ EntryOK(attack[e.task.key.uid], e.task.key, e.score, now)
    BY <1>1, <1>2 DEF AllEntries, Busy, Adding
  <2> QED BY <1>2, <2>1, NoRowChange DEF row
<1>4. RedisTyped' /\ ProcessTyped'
  BY <1>0, <1>1, <1>2 DEF RedisTyped, ProcessTyped
<1>5. CountersTyped'
  BY <1>0, <1>2, BoundsAssumption DEF CountersTyped
<1>6. LocksHeld'
  BY <1>0, <1>2 DEF LocksHeld, Busy, Adding
<1>7. FetchedDue'
  BY <1>0, <1>2 DEF FetchedDue, Busy
<1> QED BY <1>3, <1>4, <1>5, <1>6, <1>7 DEF IInv, TypeOK

LEMMA RebuildKeepsInv ==
    ASSUME IInv, Rebuild \/ RebuildFails
    PROVE  IInv'
<1>1. \E again \in SUBSET MarchEntries : Readd(again)
  BY DEF Rebuild, RebuildFails
<1>2. failures' = failures \/ (failures' = failures + 1 /\ failures < MaxFailures)
  BY DEF Rebuild, RebuildFails
<1> QED BY <1>1, <1>2, ReaddKeepsInv

\* The clock ticks.
LEMMA TickKeepsInv ==
    ASSUME IInv, Tick
    PROVE  IInv'
<1>0. /\ RowsTyped /\ RedisTyped /\ ProcessTyped /\ CountersTyped
      /\ LocksHeld /\ KeysPast /\ EntriesOK /\ FetchedDue
  BY DEF IInv, TypeOK
<1>1. /\ now' = now + 1 /\ now \in Nat
      /\ UNCHANGED <<home, attack, resources, fallen, zset, lock, cellMem, cellCache,
                     loaded, stage, batch, job, req, crashes, failures>>
  BY <1>0 DEF Tick, row, redis, consumer, faults, CountersTyped
<1>2. RowsTyped' /\ RedisTyped' /\ ProcessTyped' /\ CountersTyped' /\ LocksHeld'
  BY <1>0, <1>1
  DEF RowsTyped, RedisTyped, ProcessTyped, CountersTyped, LocksHeld, Busy, Adding,
      JobUid, JobKey, JobMarch
<1>3. KeysPast'
  <2> SUFFICES ASSUME NEW u \in Players, NEW k \in DOMAIN attack[u]
               PROVE  KeyPast(attack[u], k, now')
    BY <1>1 DEF KeysPast
  <2>1. KeyPast(attack[u], k, now) /\ k.at \in Nat
    BY <1>0, BoundsAssumption DEF KeysPast, RowsTyped, Row, Keys
  <2> QED BY <1>1, <2>1 DEF KeyPast
<1>4. EntriesOK'
  <2> SUFFICES ASSUME NEW e \in AllEntries
               PROVE  EntryOK(attack[e.task.key.uid], e.task.key, e.score, now')
    BY <1>1 DEF EntriesOK, AllEntries, Busy, Adding
  <2>1. EntryOK(attack[e.task.key.uid], e.task.key, e.score, now) /\ e.task.key.at \in Nat
    BY <1>0, EntriesTyped, BoundsAssumption DEF EntriesOK
  <2> QED BY <1>1, <2>1 DEF EntryOK
<1>5. FetchedDue'
  <2>1. \A e \in batch \cup (IF Busy THEN {job.entry} ELSE {}) : e.score \in Nat
    BY <1>0, EntriesTyped DEF AllEntries
  <2> QED BY <1>0, <1>1, <2>1 DEF FetchedDue, Busy
<1> QED BY <1>2, <1>3, <1>4, <1>5 DEF IInv, TypeOK

\* The consumer saves a way back and means to add its task: at an arrival or
\* at the end of a gathering.
LEMMA ConsumerTurnKeepsInv ==
    ASSUME IInv, stage \in {"handle", "turn"}, JobKey \in DOMAIN attack[JobUid],
           JobMarch.status # "returning",
           NEW lost \in SUBSET JobMarch.troops, NEW carry \in {0, GatherAmount},
           SaveReturn(JobUid, JobKey, lost, carry),
           job' = [job EXCEPT !.add = DueAt(ReturnKey(JobKey), now + Travel[JobMarch.cell])],
           stage' \in {"enqueue", "enqueueThenLeave"},
           cellMem' = [x \in Cells |-> cellMem'[x]],
           UNCHANGED <<zset, lock, cellCache, loaded, batch, req, now, crashes, failures>>
    PROVE  IInv'
<1>0. /\ RowsTyped /\ RedisTyped /\ ProcessTyped /\ CountersTyped
      /\ LocksHeld /\ KeysPast /\ EntriesOK /\ FetchedDue
  BY DEF IInv, TypeOK
<1> DEFINE u == JobUid
           k == JobKey
           r == ReturnKey(k)
           e == DueAt(r, now + Travel[JobMarch.cell])
<1>1. Busy /\ Busy' /\ Adding'
  BY DEF Busy, Adding
<1>2. /\ u \in Players /\ k \in DOMAIN attack[u] /\ k.leg = "march" /\ k.at < now
      /\ lock[u] = "consumer" /\ req[u].stage = "idle" /\ job.entry \in AllEntries
  BY <1>1, TaskInHand
<1>3. JobMarch = attack[u][k]
  BY DEF JobMarch
<1>4. /\ RowsTyped' /\ KeysPast'
      /\ \A x \in AllEntries :
             EntryOK(attack'[x.task.key.uid], x.task.key, x.score, now')
      /\ r \in Keys /\ r.uid = u
      /\ now + Travel[JobMarch.cell] \in Nat
      /\ EntryOK(attack'[u], r, now + Travel[JobMarch.cell], now')
      /\ \A v \in Players \ {u} : attack'[v] = attack[v]
  BY <1>2, <1>3, SaveReturnKeepsRows
<1>5. e \in Entries /\ e.task.key = r /\ e.score = now + Travel[JobMarch.cell]
  BY <1>4 DEF DueAt, Entry, Task, Entries
<1>6. job'.entry = job.entry /\ job'.add = e /\ job' \in [entry : Entries \cup {None}, add : Entries \cup {None}]
  BY <1>0, <1>5 DEF ProcessTyped
<1> HIDE DEF e, r
<1>7. EntriesOK'
  <2>1. \A x \in AllEntries' : x \in AllEntries \/ x = e
    BY <1>1, <1>2, <1>6 DEF AllEntries
  <2> QED BY <1>4, <1>5, <2>1 DEF EntriesOK
<1>8. RedisTyped' /\ CountersTyped'
  BY <1>0 DEF RedisTyped, CountersTyped
<1>9. ProcessTyped'
  BY <1>0, <1>6 DEF ProcessTyped
<1>10. LocksHeld'
  <2>1. JobUid' = u
    BY <1>6 DEF JobUid, JobKey
  <2>2. stage' # "turn"
    OBVIOUS
  <2>3. job'.entry \in Entries
    BY <1>0, <1>1, <1>6 DEF LocksHeld
  <2>4. \A v \in Players : req[v].stage # "idle" =>
               /\ lock[v] = "request"
               /\ req[v].key \in DOMAIN attack'[v]
               /\ req[v].stage = "turn" => attack'[v][req[v].key].status = "gathering"
    BY <1>0, <1>2, <1>4 DEF LocksHeld
  <2> QED BY <1>2, <1>5, <1>6, <2>1, <2>2, <2>3, <2>4 DEF LocksHeld
<1>11. FetchedDue'
  BY <1>0, <1>1, <1>6 DEF FetchedDue
<1> QED BY <1>4, <1>7, <1>8, <1>9, <1>10, <1>11 DEF IInv, TypeOK

\* A raid or a station turns back on arrival.
LEMMA ArriveTurnKeepsInv ==
    ASSUME IInv, ArriveTurnBack
    PROVE  IInv'
<1>1. PICK lost \in SUBSET JobMarch.troops : SaveReturn(JobUid, JobKey, lost, 0)
  BY DEF ArriveTurnBack, Losses
<1>2. cellMem' = [x \in Cells |-> cellMem'[x]]
  BY DEF IInv, TypeOK, ProcessTyped, ArriveTurnBack, OnMarchArrive
<1>3. /\ stage \in {"handle", "turn"} /\ JobKey \in DOMAIN attack[JobUid]
      /\ JobMarch.status # "returning"
      /\ job' = [job EXCEPT !.add = DueAt(ReturnKey(JobKey), now + Travel[JobMarch.cell])]
      /\ stage' \in {"enqueue", "enqueueThenLeave"}
      /\ UNCHANGED <<zset, lock, cellCache, loaded, batch, req, now, crashes, failures>>
  BY DEF ArriveTurnBack, Handling, OnMarchArrive, faults
<1> QED BY <1>1, <1>2, <1>3, ConsumerTurnKeepsInv

\* A gathering that is over turns back.
LEMMA GatherTurnKeepsInv ==
    ASSUME IInv, GatherTurnBack
    PROVE  IInv'
<1>1. /\ stage \in {"handle", "turn"} /\ JobKey \in DOMAIN attack[JobUid]
      /\ JobMarch.status # "returning"
  BY DEF IInv, LocksHeld, GatherTurnBack
<1>2. cellMem' = [x \in Cells |-> cellMem'[x]]
  BY DEF IInv, TypeOK, ProcessTyped, GatherTurnBack
<1>3. /\ SaveReturn(JobUid, JobKey, {}, GatherAmount)
      /\ job' = [job EXCEPT !.add = DueAt(ReturnKey(JobKey), now + Travel[JobMarch.cell])]
      /\ stage' \in {"enqueue", "enqueueThenLeave"}
      /\ UNCHANGED <<zset, lock, cellCache, loaded, batch, req, now, crashes, failures>>
  BY DEF GatherTurnBack, redis, faults
<1> QED BY <1>1, <1>2, <1>3, ConsumerTurnKeepsInv

\* The arrival of a gathering.
LEMMA ArriveGatherKeepsInv ==
    ASSUME IInv, ArriveGather
    PROVE  IInv'
<1>0. /\ RowsTyped /\ RedisTyped /\ ProcessTyped /\ CountersTyped
      /\ LocksHeld /\ KeysPast /\ EntriesOK /\ FetchedDue
  BY DEF IInv, TypeOK
<1> DEFINE u == JobUid
           k == JobKey
           e == Entry(Task(k, now + GatherTime), now)
<1>1. Busy /\ Busy' /\ Adding'
  BY DEF ArriveGather, Handling, Busy, Adding
<1>2. /\ u \in Players /\ k \in Keys /\ k \in DOMAIN attack[u]
      /\ lock[u] = "consumer" /\ req[u].stage = "idle" /\ job.entry \in AllEntries
      /\ attack[u][k].status = "going" /\ k.at < now
  BY <1>1, TaskInHand DEF ArriveGather, Handling, JobMarch
<1>3. /\ attack' = [attack EXCEPT ![u][k] = GatheringMarch(attack[u][k])]
      /\ job' = [job EXCEPT !.add = e]
      /\ stage' = "enqueue"
      /\ cellMem' = [x \in Cells |-> cellMem'[x]]
      /\ UNCHANGED <<home, resources, fallen, zset, lock, cellCache, loaded, batch, req,
                     now, crashes, failures>>
  BY <1>0 DEF ArriveGather, OnMarchArrive, GatheringMarch, JobMarch, faults, ProcessTyped
<1>4. /\ RowsTyped' /\ KeysPast'
      /\ \A x \in AllEntries :
             EntryOK(attack'[x.task.key.uid], x.task.key, x.score, now')
      /\ DOMAIN attack'[u] = DOMAIN attack[u]
      /\ now + GatherTime \in Nat
      /\ EntryOK(attack'[u], k, now, now')
      /\ \A v \in Players \ {u} : attack'[v] = attack[v]
  BY <1>2, <1>3, ArriveGatherKeepsRows
<1>5. e \in Entries /\ e.task.key = k /\ e.score = now /\ k.uid = u
  BY <1>0, <1>2, <1>4 DEF Entry, Task, Entries, CountersTyped, JobUid
<1>6. job'.entry = job.entry /\ job'.add = e /\ job' \in [entry : Entries \cup {None}, add : Entries \cup {None}]
  BY <1>0, <1>3, <1>5 DEF ProcessTyped
<1> HIDE DEF e
<1>7. EntriesOK'
  <2>1. \A x \in AllEntries' : x \in AllEntries \/ x = e
    BY <1>1, <1>2, <1>3, <1>6 DEF AllEntries
  <2> QED BY <1>4, <1>5, <2>1 DEF EntriesOK
<1>8. RedisTyped' /\ CountersTyped'
  BY <1>0, <1>3 DEF RedisTyped, CountersTyped
<1>9. ProcessTyped'
  BY <1>0, <1>3, <1>6 DEF ProcessTyped
<1>10. LocksHeld'
  <2>1. JobUid' = u
    BY <1>6 DEF JobUid, JobKey
  <2>2. job'.entry \in Entries
    BY <1>0, <1>1, <1>6 DEF LocksHeld
  <2>3. \A v \in Players : req[v].stage # "idle" =>
               /\ lock[v] = "request"
               /\ req[v].key \in DOMAIN attack'[v]
               /\ req[v].stage = "turn" => attack'[v][req[v].key].status = "gathering"
    BY <1>0, <1>2, <1>4 DEF LocksHeld
  <2> QED BY <1>2, <1>3, <1>5, <1>6, <2>1, <2>2, <2>3 DEF LocksHeld
<1>11. FetchedDue'
  BY <1>0, <1>1, <1>3, <1>6 DEF FetchedDue
<1> QED BY <1>4, <1>7, <1>8, <1>9, <1>10, <1>11 DEF IInv, TypeOK

\* The party is home.
LEMMA ReturnHomeKeepsInv ==
    ASSUME IInv, ReturnHome
    PROVE  IInv'
<1>0. /\ RowsTyped /\ RedisTyped /\ ProcessTyped /\ CountersTyped
      /\ LocksHeld /\ KeysPast /\ EntriesOK /\ FetchedDue
  BY DEF IInv, TypeOK
<1> DEFINE u == JobUid
           k == JobKey
<1>1. Busy /\ Busy' /\ ~Adding'
  BY DEF ReturnHome, Handling, Busy, Adding
<1>2. /\ u \in Players /\ k \in DOMAIN attack[u] /\ attack[u][k].status = "returning"
      /\ req[u].stage = "idle" /\ lock[u] = "consumer"
  BY <1>1, TaskInHand DEF ReturnHome, Handling, JobMarch
<1>3. /\ SaveHome(u, k) /\ stage' = "finish"
      /\ UNCHANGED <<zset, lock, cellMem, cellCache, loaded, batch, job, req, now,
                     crashes, failures>>
  BY DEF ReturnHome, redis, faults
<1>4. /\ RowsTyped' /\ KeysPast'
      /\ \A e \in AllEntries :
             EntryOK(attack'[e.task.key.uid], e.task.key, e.score, now')
      /\ \A v \in Players \ {u} : attack'[v] = attack[v]
  BY <1>2, <1>3, SaveHomeKeepsRows
<1>5. EntriesOK'
  <2>1. \A e \in AllEntries' : e \in AllEntries
    BY <1>1, <1>3 DEF AllEntries
  <2> QED BY <1>4, <2>1 DEF EntriesOK
<1>6. RedisTyped' /\ ProcessTyped' /\ CountersTyped'
  BY <1>0, <1>3 DEF RedisTyped, ProcessTyped, CountersTyped
<1>7. LocksHeld'
  <2>1. \A v \in Players : req[v].stage # "idle" =>
               /\ lock[v] = "request"
               /\ req[v].key \in DOMAIN attack'[v]
               /\ req[v].stage = "turn" => attack'[v][req[v].key].status = "gathering"
    BY <1>0, <1>2, <1>4 DEF LocksHeld
  <2>2. job'.entry \in Entries /\ JobUid' = u
    BY <1>0, <1>1, <1>3 DEF LocksHeld, JobUid, JobKey
  <2> QED BY <1>1, <1>2, <1>3, <2>1, <2>2 DEF LocksHeld
<1>8. FetchedDue'
  BY <1>0, <1>1, <1>3 DEF FetchedDue
<1> QED BY <1>4, <1>5, <1>6, <1>7, <1>8 DEF IInv, TypeOK

\* A step that changes nothing.
LEMMA StutterKeepsInv ==
    ASSUME IInv, UNCHANGED vars
    PROVE  IInv'
  BY DEF IInv, vars, row, cells, consumer, faults, TypeOK, RowsTyped, RedisTyped,
         ProcessTyped, CountersTyped, LocksHeld, KeysPast, EntriesOK, FetchedDue,
         AllEntries, Busy, Adding, JobUid, JobKey, JobMarch

\* The invariant holds at the start.
LEMMA InitInv == Init => IInv
<1> SUFFICES ASSUME Init PROVE IInv
  OBVIOUS
<1>1. RowsTyped
  BY SoldiersAssumption DEF Init, RowsTyped, Row, Soldiers, Tokens
<1>2. RedisTyped /\ ProcessTyped /\ CountersTyped
  BY BoundsAssumption DEF Init, RedisTyped, ProcessTyped, CountersTyped, NoJob, Idle
<1>3. LocksHeld /\ KeysPast /\ EntriesOK /\ FetchedDue
  BY DEF Init, LocksHeld, KeysPast, EntriesOK, FetchedDue, AllEntries, Busy, Adding, Idle
<1> QED BY <1>1, <1>2, <1>3 DEF IInv, TypeOK

\* The invariant is inductive: one lemma per action of March.
LEMMA NextKeepsInv ==
    ASSUME IInv, [Next]_vars
    PROVE  IInv'
<1>1. ASSUME NEW u \in Players, Request(u) PROVE IInv'
  BY <1>1, LaunchKeepsInv, CancelKeepsInv DEF Request
<1>2. ASSUME NEW u \in Players, FinishRequest(u) PROVE IInv'
  BY <1>2, RegisterKeepsInv, RequestEnqueueKeepsInv, CancelTurnKeepsInv,
     CancelFailsKeepsInv, RequestEnqueueFailsKeepsInv DEF FinishRequest
<1>3. CASE Consume
  BY <1>3, RebuildKeepsInv, FetchKeepsInv, SkipKeepsInv, TakeKeepsInv, LoadFailsKeepsInv, DropKeepsInv,
     WaitKeepsInv, ArriveTurnKeepsInv, ArriveGatherKeepsInv, ArriveFailsKeepsInv,
     GatherCompleteKeepsInv, GatherTurnKeepsInv, ReturnHomeKeepsInv,
     TurnFailsKeepsInv, EnqueueNextKeepsInv, EnqueueFailsKeepsInv, LeaveKeepsInv, FinishKeepsInv
  DEF Consume
<1>4. CASE System
  BY <1>2, <1>3, <1>4, ExpireKeepsInv, LoadKeepsInv DEF System
<1>5. ASSUME NEW wiped \in BOOLEAN, Crash(wiped) PROVE IInv'
  BY <1>5, CrashKeepsInv
<1>6. CASE Tick
  BY <1>6, TickKeepsInv
<1>7. CASE UNCHANGED vars
  BY <1>7, StutterKeepsInv
<1> QED BY <1>1, <1>4, <1>5, <1>6, <1>7 DEF Next

\* IInv holds in every state, launches of one second included.
THEOREM Invariance == Spec => []IInv
<1>1. Init => IInv
  BY InitInv
<1>2. IInv /\ [Next]_vars => IInv'
  BY NextKeepsInv
<1> QED BY <1>1, <1>2, PTL DEF Spec

\* Rows, tasks and locks always hold values of their kinds, however the steps
\* of requests, the consumer, crashes and restarts interleave, launches that take
\* the key of another of the same second included.
THEOREM TypeCorrect == Spec => []TypeOK
<1>1. IInv => TypeOK
  BY DEF IInv
<1> QED BY <1>1, Invariance, PTL
-----------------------------------------------------------------------------
(* What the steps do to the soldiers *)

\* What the row is after each of the four changes: a launch adds a march, or
\* replaces one that left in the same second.
LEMMA DepartRow ==
    ASSUME IInv, NEW u \in Players, NEW k \in Keys, NEW m \in Marches, Departs(u, k, m)
    PROVE  /\ home'[u] = (home[u] \ m.troops) \cup Lent(m.troops, Loans[u])
           /\ fallen' = fallen
           /\ SameSecond \/ k \notin DOMAIN attack[u]
           /\ DOMAIN attack'[u] = DOMAIN attack[u] \cup {k}
           /\ attack'[u][k] = m
           /\ \A l \in DOMAIN attack[u] \ {k} : attack'[u][l] = attack[u][l]
           /\ \A v \in Players \ {u} : attack'[v] = attack[v] /\ home'[v] = home[v]
  BY DEF IInv, TypeOK, RowsTyped, Departs, Put

\* A gathering that starts changes one march of the row.
LEMMA GatherRow ==
    ASSUME IInv, NEW u \in Players, NEW k \in DOMAIN attack[u], StartsGathering(u, k)
    PROVE  /\ home' = home /\ fallen' = fallen
           /\ DOMAIN attack'[u] = DOMAIN attack[u]
           /\ attack'[u][k].troops = attack[u][k].troops
           /\ attack'[u][k].type = attack[u][k].type
           /\ attack'[u][k].status = "gathering"
           /\ \A l \in DOMAIN attack[u] \ {k} : attack'[u][l] = attack[u][l]
           /\ \A v \in Players \ {u} : attack'[v] = attack[v]
<1>1. attack[u][k] \in Marches
  BY DEF IInv, TypeOK, RowsTyped, Row
<1>2. /\ GatheringMarch(attack[u][k]).troops = attack[u][k].troops
      /\ GatheringMarch(attack[u][k]).type = attack[u][k].type
      /\ GatheringMarch(attack[u][k]).status = "gathering"
  BY <1>1 DEF GatheringMarch, Marches
<1> QED BY <1>2 DEF IInv, TypeOK, RowsTyped, Row, StartsGathering

\* A party that turns back has a new name, which the row did not have.
LEMMA TurnRow ==
    ASSUME IInv, NEW u \in Players, NEW k \in DOMAIN attack[u],
           NEW lost \in SUBSET attack[u][k].troops, NEW carry \in {0, GatherAmount},
           TurnsBack(u, k, lost, carry)
    PROVE  /\ home' = home /\ fallen'[u] = fallen[u] \cup lost
           /\ ReturnKey(k) \in Keys \ DOMAIN attack[u] /\ ReturnKey(k) # k
           /\ DOMAIN attack'[u] = (DOMAIN attack[u] \ {k}) \cup {ReturnKey(k)}
           /\ attack'[u][ReturnKey(k)] = ReturnMarch(attack[u][k], lost, carry)
           /\ attack'[u][ReturnKey(k)].troops = attack[u][k].troops \ lost
           /\ attack'[u][ReturnKey(k)].type = attack[u][k].type
           /\ attack'[u][ReturnKey(k)].status = "returning"
           /\ \A l \in DOMAIN attack[u] \ {k} : attack'[u][l] = attack[u][l]
           /\ \A v \in Players \ {u} : attack'[v] = attack[v] /\ fallen'[v] = fallen[v]
<1> DEFINE b == ReturnKey(k)
           m == ReturnMarch(attack[u][k], lost, carry)
<1>1. /\ Row(u, attack[u]) /\ k \in Keys /\ attack[u][k] \in Marches
      /\ attack[u][k].status # "returning" /\ k.leg = "march"
  BY DEF IInv, TypeOK, RowsTyped, Row, TurnsBack, Keys
<1>2. b \in Keys /\ b.leg = "return" /\ MarchOf(b) = k
  BY <1>1, ReturnKeyType
<1>3. b \notin DOMAIN attack[u] /\ b # k
  BY <1>1, <1>2 DEF IInv, KeysPast, KeyPast
<1>4. m.troops = attack[u][k].troops \ lost /\ m.type = attack[u][k].type /\ m.status = "returning"
  BY <1>1 DEF ReturnMarch, Marches
<1>5. /\ attack' = [attack EXCEPT ![u] = Put(Drop(@, k), b, m)]
      /\ fallen' = [fallen EXCEPT ![u] = @ \cup lost]
      /\ home' = home
  BY DEF TurnsBack, SaveReturn
<1> HIDE DEF b, m
<1>6. /\ DOMAIN attack'[u] = (DOMAIN attack[u] \ {k}) \cup {b}
      /\ attack'[u][b] = m
      /\ \A l \in DOMAIN attack[u] \ {k} : attack'[u][l] = attack[u][l]
  BY <1>3, <1>5 DEF IInv, TypeOK, RowsTyped, Put, Drop
<1>7. /\ fallen'[u] = fallen[u] \cup lost
      /\ \A v \in Players \ {u} : attack'[v] = attack[v] /\ fallen'[v] = fallen[v]
  BY <1>5 DEF IInv, TypeOK, RowsTyped
<1> QED BY <1>2, <1>3, <1>4, <1>5, <1>6, <1>7 DEF b, m

\* A march that is home leaves the row.
LEMMA HomeRow ==
    ASSUME IInv, NEW u \in Players, NEW k \in DOMAIN attack[u], ComesHome(u, k)
    PROVE  /\ home'[u] = home[u] \cup attack[u][k].troops /\ fallen' = fallen
           /\ DOMAIN attack'[u] = DOMAIN attack[u] \ {k}
           /\ \A l \in DOMAIN attack'[u] : attack'[u][l] = attack[u][l]
           /\ \A v \in Players \ {u} : attack'[v] = attack[v] /\ home'[v] = home[v]
  BY DEF IInv, TypeOK, RowsTyped, ComesHome, SaveHome, Drop

\* The entry of a march that is due when it arrives.
LEMMA ScheduleIs ==
    ASSUME IInv, NEW u \in Players, NEW k \in DOMAIN attack[u]
    PROVE  /\ Schedule(u, k).task.key = k
           /\ Schedule(u, k).task.finish = attack[u][k].arrive
           /\ Schedule(u, k).score = attack[u][k].arrive
           /\ attack[u][k].arrive \in Nat
  BY DEF Schedule, DueAt, Entry, Task, IInv, TypeOK, RowsTyped, Row, Marches

\* The new entry of a gathering, and what was there before it.
LEMMA GatherEntry ==
    ASSUME IInv, ArriveGather
    PROVE  /\ JobUid \in Players /\ JobKey \in DOMAIN attack[JobUid]
           /\ JobMarch.status = "going"
           /\ StartsGathering(JobUid, JobKey)
           /\ job'.entry = job.entry
           /\ job'.add.task.key = JobKey
           /\ job'.add.task.finish = now + GatherTime
           /\ job.entry.score <= now
<1>1. Busy /\ JobKey \in DOMAIN attack[JobUid] /\ JobMarch.status = "going"
  BY DEF ArriveGather, Handling, Busy
<1>2. JobUid \in Players /\ JobMarch \in Marches /\ (SameSecond \/ JobMarch.arrive <= now)
  BY <1>1, TaskInHand
<1>3. StartsGathering(JobUid, JobKey)
  BY <1>1, <1>2 DEF ArriveGather, StartsGathering, GatheringMarch, JobMarch
<1>4. GatheringMarch(JobMarch).arrive = now + GatherTime
  BY <1>2 DEF GatheringMarch, Marches
<1>5. job'.entry = job.entry /\ job'.add = Entry(Task(JobKey, now + GatherTime), now)
  BY <1>4 DEF ArriveGather, IInv, TypeOK, ProcessTyped
<1> QED BY <1>1, <1>2, <1>3, <1>5 DEF Entry, Task, IInv, FetchedDue

\* The new entry of a way back that the consumer has saved.
LEMMA TurnEntry ==
    ASSUME IInv, ArriveTurnBack \/ GatherTurnBack
    PROVE  /\ JobUid \in Players /\ JobKey \in DOMAIN attack[JobUid]
           /\ job'.entry = job.entry
           /\ job'.add.task.key = ReturnKey(JobKey) /\ ReturnKey(JobKey) # JobKey
           /\ job'.add.task.finish = job'.add.score
           /\ job'.add.score \in Nat
           /\ \E lost \in SUBSET JobMarch.troops, carry \in {0, GatherAmount} :
                  TurnsBack(JobUid, JobKey, lost, carry)
<1>1. /\ Busy /\ JobKey \in DOMAIN attack[JobUid]
      /\ JobMarch.status \in {"going", "gathering"}
      /\ job' = [job EXCEPT !.add = DueAt(ReturnKey(JobKey), now + Travel[JobMarch.cell])]
  BY DEF ArriveTurnBack, GatherTurnBack, Handling, Busy, IInv, LocksHeld
<1>2. /\ JobUid \in Players /\ JobMarch \in Marches /\ JobMarch = attack[JobUid][JobKey]
      /\ JobMarch.status = "going" => SameSecond \/ JobMarch.arrive <= now
  BY <1>1, TaskInHand DEF JobMarch
<1>3. \E lost \in SUBSET JobMarch.troops, carry \in {0, GatherAmount} :
          TurnsBack(JobUid, JobKey, lost, carry)
  <2>1. CASE ArriveTurnBack
    <3>1. JobMarch.status = "going"
      BY <2>1 DEF ArriveTurnBack, Handling
    <3>2. PICK lost \in SUBSET JobMarch.troops :
              /\ SaveReturn(JobUid, JobKey, lost, 0)
              /\ \/ JobMarch.type = "attack" /\ lost \in Losses(JobMarch.troops, Loans[JobUid])
                 \/ JobMarch.type = "station" /\ lost = {}
      BY <2>1 DEF ArriveTurnBack, Losses
    <3> QED BY <1>2, <3>1, <3>2 DEF TurnsBack
  <2>2. CASE GatherTurnBack
    <3>1. JobMarch.status = "gathering" /\ SaveReturn(JobUid, JobKey, {}, GatherAmount)
      BY <2>2 DEF GatherTurnBack, IInv, LocksHeld
    <3> QED BY <1>2, <3>1 DEF TurnsBack
  <2> QED BY <2>1, <2>2
<1>4. ReturnKey(JobKey) # JobKey
  BY <1>2, <1>3, <1>1, TurnRow
<1>5. now + Travel[JobMarch.cell] \in Nat
  BY <1>2, TimesAssumption DEF Marches, IInv, TypeOK, CountersTyped
<1>6. job'.entry = job.entry /\ job'.add = DueAt(ReturnKey(JobKey), now + Travel[JobMarch.cell])
  BY <1>1 DEF IInv, TypeOK, ProcessTyped
<1> QED BY <1>1, <1>2, <1>3, <1>4, <1>5, <1>6 DEF DueAt, Entry, Task

\* A request moves soldiers as RowStep says: LaunchMarch takes a party from
\* home under a key of this second.
LEMMA RequestRowStep ==
    ASSUME IInv, NEW u \in Players, Request(u)
    PROVE  RowStep
<1>1. ASSUME NEW c \in Cells, NEW type \in Types, NEW s \in Parties(home[u], fallen[u], attack[u], Loans[u]),
             LaunchMarch(u, c, type, s)
      PROVE  RowStep
  <2> DEFINE k == MarchKey(u, now)
             m == NewMarch(c, type, s)
  <2>1. now \in 0..LastLaunch
    BY <1>1, BoundsAssumption DEF IInv, TypeOK, CountersTyped, LaunchMarch
  <2>2. /\ k \in Keys /\ k.leg = "march" /\ k.at = now
        /\ SameSecond \/ k \notin DOMAIN attack[u]
    BY <1>1, <2>1, MarchKeyType DEF LaunchMarch
  <2>3. s \in SUBSET Soldiers
    BY PartyTyped DEF IInv, TypeOK
  <2>4. m \in Marches /\ m.status = "going" /\ m.troops = s
    BY <2>1, <2>3, TimesAssumption DEF NewMarch, Marches, Statuses
  <2>5. /\ home' = [home EXCEPT ![u] = (@ \ s) \cup Lent(s, Loans[u])]
        /\ attack' = [attack EXCEPT ![u] = Put(@, k, m)]
        /\ fallen' = fallen
    BY <1>1 DEF LaunchMarch
  <2> HIDE DEF k, m
  <2>6. Departs(u, k, m)
    BY <2>2, <2>4, <2>5 DEF Departs
  <2> QED BY <2>2, <2>4, <2>6 DEF RowStep
<1>2. ASSUME NEW k \in DOMAIN attack[u], CancelGather(u, k)
      PROVE  RowStep
  BY <1>2 DEF CancelGather, row, RowStep
<1> QED BY <1>1, <1>2 DEF Request

\* So do the steps that finish a request: CancelGather turns back a gathering.
LEMMA FinishRequestRowStep ==
    ASSUME IInv, NEW u \in Players, FinishRequest(u)
    PROVE  RowStep
<1>1. CASE CancelTurnBack(u)
  <2>1. /\ req[u].key \in DOMAIN attack[u]
        /\ attack[u][req[u].key].status = "gathering"
        /\ SaveReturn(u, req[u].key, {}, GatherAmount)
    BY <1>1 DEF IInv, LocksHeld, CancelTurnBack
  <2>2. TurnsBack(u, req[u].key, {}, GatherAmount)
    BY <2>1 DEF TurnsBack
  <2> QED BY <2>1, <2>2 DEF RowStep
<1>2. CASE \/ LaunchRegister(u) \/ RequestEnqueue(u) \/ RequestEnqueueFails(u)
           \/ CancelSaveFails(u)
  BY <1>2 DEF LaunchRegister, RequestEnqueue, RequestEnqueueFails, CancelSaveFails, row, RowStep
<1> QED BY <1>1, <1>2 DEF FinishRequest

\* So does the consumer, whose tasks are never early (TaskInHand).
LEMMA ConsumeRowStep ==
    ASSUME IInv, Consume
    PROVE  RowStep
<1>1. CASE ArriveTurnBack \/ GatherTurnBack
  BY <1>1, TurnEntry DEF RowStep, JobMarch
<1>2. CASE ArriveGather
  BY <1>2, GatherEntry DEF RowStep
<1>3. CASE ReturnHome
  <2>1. /\ Busy /\ JobKey \in DOMAIN attack[JobUid] /\ JobMarch.status = "returning"
        /\ SaveHome(JobUid, JobKey)
    BY <1>3 DEF ReturnHome, Handling, Busy
  <2>2. JobUid \in Players /\ ComesHome(JobUid, JobKey)
    BY <2>1, TaskInHand DEF ComesHome, JobMarch
  <2> QED BY <2>1, <2>2 DEF RowStep
<1>4. CASE \/ Rebuild \/ RebuildFails \/ Fetch \/ SkipLocked \/ TakeTask \/ LoadFails
           \/ DropOrphan \/ ArriveWait \/ ArriveSaveFails \/ GatherComplete \/ TurnSaveFails
           \/ EnqueueNext \/ EnqueueFails \/ LeaveCell \/ FinishTask
  BY <1>4 DEF Rebuild, RebuildFails, Readd, Fetch, SkipLocked, TakeTask, LoadFails, DropOrphan,
              ArriveWait, ArriveSaveFails, GatherComplete, TurnSaveFails, EnqueueNext,
              EnqueueFails, LeaveCell, FinishTask, row, RowStep
<1> QED BY <1>1, <1>2, <1>3, <1>4 DEF Consume

\* Every step of March moves soldiers as RowStep says.
LEMMA EveryRowStep ==
    ASSUME IInv, [Next]_vars
    PROVE  RowStep
<1>1. CASE System
  BY <1>1, ConsumeRowStep, FinishRequestRowStep
  DEF System, LockExpires, LoadCell, row, RowStep
<1>2. CASE \E u \in Players : Request(u)
  BY <1>2, RequestRowStep
<1>3. CASE (\E wiped \in BOOLEAN : Crash(wiped)) \/ Tick \/ UNCHANGED vars
  BY <1>3 DEF Crash, Tick, vars, row, RowStep
<1> QED BY <1>1, <1>2, <1>3 DEF Next
-----------------------------------------------------------------------------
(* Nobody is lost or doubled *)

\* The assumptions about what the player u owns and may be lent.
LEMMA TokensApart ==
    ASSUME NEW u \in Players
    PROVE  Loans[u] \cap Army[u] = {} /\ Debts(Loans[u]) \cap (Army[u] \cup Loans[u]) = {}
  BY LoansAssumption

\* A party leaves home on a march, which may replace one of the same second; or
\* a party below zero leaves soldiers at home, and owes them.
LEMMA DepartConserves ==
    ASSUME NEW army, NEW loans, NEW h, NEW f, NEW r, NEW q, NEW k,
           Debts(loans) \cap (army \cup loans) = {}, loans \cap army = {},
           NEW s \in Parties(h, f, r, loans), Conserved(army, loans, h, f, r),
           SameSecond \/ k \notin DOMAIN r, DOMAIN q = DOMAIN r \cup {k},
           q[k].troops = s, \A l \in DOMAIN r \ {k} : q[l].troops = r[l].troops
    PROVE  Conserved(army, loans, (h \ s) \cup Lent(s, loans), f, q)
<1> DEFINE lent == Lent(s, loans)
           p == Places(h, f, r)
           o == Places((h \ s) \cup lent, f, q)
<1>1. \/ s \subseteq h /\ lent = {}
      \/ /\ lent \subseteq loans /\ s = Debts(lent)
         /\ \A g \in lent : g \notin p /\ Debt(g) \notin p
  BY PartyKinds
<1> HIDE DEF lent
<1>2. /\ lent \subseteq loans /\ lent \cap p = {} /\ s \cap lent = {}
      /\ s \subseteq h \/ s \cap p = {}
      /\ s \subseteq h \/ s \subseteq Debts(loans)
  BY <1>1 DEF Debts
<1>3. /\ h \subseteq p /\ f \subseteq p
      /\ \A l \in DOMAIN r : r[l].troops \subseteq p
      /\ p \subseteq army \cup loans \cup Debts(loans)
  BY DEF Conserved, Places
<1>4. o \subseteq p \cup s \cup lent
  BY DEF Places
<1>5. SameSecond \/ o = p \cup s \cup lent
  <2>1. ASSUME ~SameSecond PROVE p \cup s \cup lent \subseteq o
    <3>1. \A l \in DOMAIN r : l \in DOMAIN q /\ q[l].troops = r[l].troops
      BY <2>1
    <3>2. k \in DOMAIN q /\ q[k].troops = s
      OBVIOUS
    <3> QED BY <3>1, <3>2 DEF Places
  <2> QED BY <1>4, <2>1
<1> HIDE DEF p, o
<1>6. o \subseteq army \cup loans \cup Debts(loans)
  BY <1>2, <1>3, <1>4
<1>7. ASSUME ~SameSecond
      PROVE  army \subseteq o /\ \A g \in loans : g \in o <=> Debt(g) \in o
  <2>1. o = p \cup s \cup lent /\ army \subseteq p
    BY <1>5, <1>7 DEF Conserved, p
  <2>2. \A g \in loans : g \in p <=> Debt(g) \in p
    BY <1>7 DEF Conserved, p
  <2>3. CASE s \subseteq h /\ lent = {}
    BY <1>3, <2>1, <2>2, <2>3
  <2>4. CASE s = Debts(lent)
    <3>1. \A g \in loans : g \in s \/ g \in lent <=> g \in lent
      BY <1>2, <2>4 DEF Debts
    <3>2. \A g \in loans : Debt(g) \in Debts(lent) <=> g \in lent
      BY DebtOwed DEF Debts
    <3>3. \A g \in loans : Debt(g) \notin lent
      BY <1>2 DEF Debts
    <3> QED BY <2>1, <2>2, <2>4, <3>1, <3>2, <3>3
  <2> QED BY <1>1, <2>3, <2>4
<1>8. ((h \ s) \cup lent) \cap f = {}
  BY <1>2, <1>3 DEF Conserved
<1>9. ASSUME NEW x \in DOMAIN q
      PROVE  /\ q[x].troops \cap ((h \ s) \cup lent \cup f) = {}
             /\ \A l \in DOMAIN q \ {x} : q[x].troops \cap q[l].troops = {}
  <2>1. s \cap f = {} /\ \A l \in DOMAIN r : r[l].troops \cap s = {}
    BY <1>2, <1>3 DEF Conserved
  <2>2. CASE x = k
    BY <1>2, <2>1, <2>2
  <2>3. CASE x # k
    <3>1. x \in DOMAIN r /\ q[x].troops = r[x].troops
      BY <2>3
    <3>2. r[x].troops \cap ((h \ s) \cup lent \cup f) = {}
      BY <1>2, <1>3, <3>1 DEF Conserved
    <3>3. ASSUME NEW l \in DOMAIN q \ {x} PROVE q[x].troops \cap q[l].troops = {}
      BY <2>1, <3>1 DEF Conserved
    <3> QED BY <3>1, <3>2, <3>3
  <2> QED BY <2>2, <2>3
<1> QED BY <1>6, <1>7, <1>8, <1>9 DEF Conserved, o, lent

\* A party is renamed, and some of it falls.
LEMMA TurnConserves ==
    ASSUME NEW army, NEW loans, NEW h, NEW f, NEW r, NEW q, NEW k \in DOMAIN r, NEW b, NEW lost,
           Conserved(army, loans, h, f, r),
           lost \subseteq r[k].troops, b \notin DOMAIN r,
           DOMAIN q = (DOMAIN r \ {k}) \cup {b},
           q[b].troops = r[k].troops \ lost,
           \A l \in DOMAIN r \ {k} : q[l].troops = r[l].troops
    PROVE  Conserved(army, loans, h, f \cup lost, q)
<1>1. Places(h, f \cup lost, q) = Places(h, f, r)
  BY DEF Places
<1> QED BY <1>1 DEF Conserved

\* A party comes home.
LEMMA HomeConserves ==
    ASSUME NEW army, NEW loans, NEW h, NEW f, NEW r, NEW q, NEW k \in DOMAIN r,
           Conserved(army, loans, h, f, r), DOMAIN q = DOMAIN r \ {k},
           \A l \in DOMAIN q : q[l].troops = r[l].troops
    PROVE  Conserved(army, loans, h \cup r[k].troops, f, q)
<1>1. Places(h \cup r[k].troops, f, q) = Places(h, f, r)
  BY DEF Places
<1> QED BY <1>1 DEF Conserved

\* Nothing but other fields of the marches changes.
LEMMA SameConserves ==
    ASSUME NEW army, NEW loans, NEW h, NEW f, NEW r, NEW q,
           Conserved(army, loans, h, f, r), DOMAIN q = DOMAIN r,
           \A l \in DOMAIN q : q[l].troops = r[l].troops
    PROVE  Conserved(army, loans, h, f, q)
<1>1. Places(h, f, q) = Places(h, f, r)
  BY DEF Places
<1> QED BY <1>1 DEF Conserved

\* A step that moves soldiers as RowStep says keeps SoldiersInv.
LEMMA RowStepConserves ==
    ASSUME IInv, SoldiersInv, RowStep
    PROVE  SoldiersInv'
<1>0. \A u \in Players : Conserved(Army[u], Loans[u], home[u], fallen[u], attack[u])
  BY DEF SoldiersInv
<1>1. CASE UNCHANGED <<home, attack, fallen>>
  BY <1>1 DEF SoldiersInv, GathersTyped
<1>2. ASSUME NEW u \in Players, NEW k \in Keys, NEW m \in Marches, Departs(u, k, m)
      PROVE  SoldiersInv'
  <2>1. Conserved(Army[u], Loans[u], (home[u] \ m.troops) \cup Lent(m.troops, Loans[u]),
                  fallen[u], attack'[u])
    <3>1. m.troops \in Parties(home[u], fallen[u], attack[u], Loans[u])
      BY <1>2 DEF Departs
    <3>2. /\ SameSecond \/ k \notin DOMAIN attack[u]
          /\ DOMAIN attack'[u] = DOMAIN attack[u] \cup {k}
          /\ attack'[u][k].troops = m.troops
          /\ \A l \in DOMAIN attack[u] \ {k} : attack'[u][l].troops = attack[u][l].troops
      BY <1>2, DepartRow
    <3> QED BY <1>0, <3>1, <3>2, TokensApart, DepartConserves
  <2>2. \A v \in Players : Conserved(Army[v], Loans[v], home'[v], fallen'[v], attack'[v])
    <3>1. /\ home'[u] = (home[u] \ m.troops) \cup Lent(m.troops, Loans[u])
          /\ fallen' = fallen
          /\ \A v \in Players \ {u} : attack'[v] = attack[v] /\ home'[v] = home[v]
      BY <1>2, DepartRow
    <3> QED BY <1>0, <2>1, <3>1
  <2>3. m.status # "gathering"
    BY <1>2 DEF Departs
  <2>4. GathersTyped'
    BY <1>2, <2>3, DepartRow DEF SoldiersInv, GathersTyped
  <2> QED BY <2>2, <2>4 DEF SoldiersInv
<1>3. ASSUME NEW u \in Players, NEW k \in DOMAIN attack[u], StartsGathering(u, k)
      PROVE  SoldiersInv'
  <2>1. /\ attack'[u][k].troops = attack[u][k].troops
        /\ attack'[u][k].type = "gather"
    BY <1>3, GatherRow DEF StartsGathering
  <2>2. Conserved(Army[u], Loans[u], home[u], fallen[u], attack'[u])
    <3>1. /\ DOMAIN attack'[u] = DOMAIN attack[u]
          /\ \A l \in DOMAIN attack'[u] : attack'[u][l].troops = attack[u][l].troops
      BY <1>3, <2>1, GatherRow
    <3> QED BY <1>0, <3>1, SameConserves
  <2>3. \A v \in Players : Conserved(Army[v], Loans[v], home'[v], fallen'[v], attack'[v])
    BY <1>0, <1>3, <2>2, GatherRow
  <2>4. GathersTyped'
    BY <1>3, <2>1, GatherRow DEF SoldiersInv, GathersTyped
  <2> QED BY <2>3, <2>4 DEF SoldiersInv
<1>4. ASSUME NEW u \in Players, NEW k \in DOMAIN attack[u],
             NEW lost \in SUBSET attack[u][k].troops, NEW carry \in {0, GatherAmount},
             TurnsBack(u, k, lost, carry)
      PROVE  SoldiersInv'
  <2> DEFINE b == ReturnKey(k)
  <2>1. Conserved(Army[u], Loans[u], home[u], fallen[u] \cup lost, attack'[u])
    <3>1. /\ b \notin DOMAIN attack[u]
          /\ DOMAIN attack'[u] = (DOMAIN attack[u] \ {k}) \cup {b}
          /\ attack'[u][b].troops = attack[u][k].troops \ lost
          /\ \A l \in DOMAIN attack[u] \ {k} : attack'[u][l].troops = attack[u][l].troops
      BY <1>4, TurnRow
    <3> HIDE DEF b
    <3> QED BY <1>0, <3>1, TurnConserves
  <2>2. \A v \in Players : Conserved(Army[v], Loans[v], home'[v], fallen'[v], attack'[v])
    <3>1. /\ home' = home /\ fallen'[u] = fallen[u] \cup lost
          /\ \A v \in Players \ {u} : attack'[v] = attack[v] /\ fallen'[v] = fallen[v]
      BY <1>4, TurnRow
    <3> QED BY <1>0, <2>1, <3>1
  <2>3. GathersTyped'
    BY <1>4, TurnRow DEF SoldiersInv, GathersTyped
  <2> QED BY <2>2, <2>3 DEF SoldiersInv
<1>5. ASSUME NEW u \in Players, NEW k \in DOMAIN attack[u], ComesHome(u, k)
      PROVE  SoldiersInv'
  <2>1. Conserved(Army[u], Loans[u], home[u] \cup attack[u][k].troops, fallen[u], attack'[u])
    <3>1. /\ DOMAIN attack'[u] = DOMAIN attack[u] \ {k}
          /\ \A l \in DOMAIN attack'[u] : attack'[u][l].troops = attack[u][l].troops
      BY <1>5, HomeRow
    <3> QED BY <1>0, <3>1, HomeConserves
  <2>2. \A v \in Players : Conserved(Army[v], Loans[v], home'[v], fallen'[v], attack'[v])
    BY <1>0, <1>5, <2>1, HomeRow
  <2>3. GathersTyped'
    BY <1>5, HomeRow DEF SoldiersInv, GathersTyped
  <2> QED BY <2>2, <2>3 DEF SoldiersInv
<1> QED BY <1>1, <1>2, <1>3, <1>4, <1>5 DEF RowStep

\* At the start everyone is at home.
LEMMA InitConserves == Init => SoldiersInv
<1> SUFFICES ASSUME Init PROVE SoldiersInv
  OBVIOUS
<1>1. ASSUME NEW u \in Players
      PROVE  Conserved(Army[u], Loans[u], home[u], fallen[u], attack[u])
  <2>1. home[u] = Army[u] /\ fallen[u] = {} /\ DOMAIN attack[u] = {}
    BY DEF Init
  <2>2. Places(home[u], fallen[u], attack[u]) = Army[u]
    BY <2>1 DEF Places
  <2>3. \A g \in Loans[u] : g \notin Army[u] /\ Debt(g) \notin Army[u]
    BY TokensApart DEF Debts
  <2> QED BY <2>1, <2>2, <2>3 DEF Conserved
<1> QED BY <1>1 DEF Init, SoldiersInv, GathersTyped

\* SoldiersInv holds in every state, on top of IInv.
LEMMA SoldiersInvariance == Spec => [](IInv /\ SoldiersInv)
<1>1. Init => IInv /\ SoldiersInv
  BY InitInv, InitConserves
<1>2. IInv /\ SoldiersInv /\ [Next]_vars => IInv' /\ SoldiersInv'
  BY NextKeepsInv, EveryRowStep, RowStepConserves
<1> QED BY <1>1, <1>2, PTL DEF Spec

\* However requests, the consumer, crashes and failing saves interleave, each
\* soldier of a player is at home, fallen, or on exactly one march, and one that
\* a party below zero has put at home is owed there or fallen, or by exactly one
\* march, when the player does not launch twice within one second.
THEOREM NobodyLostOrDoubled ==
    ASSUME ~SameSecond
    PROVE  Spec => []SoldiersConserved
<1>1. SoldiersInv => SoldiersConserved
  BY DEF SoldiersInv, SoldiersConserved, Conserved, Tokens
<1> QED BY <1>1, SoldiersInvariance, PTL

\* Even two launches of one second, of which the second overwrites the first
\* (LaunchMarch, t.Attack[marchKey] = march), put no soldier in two places.
THEOREM NobodyDoubled == Spec => []NobodyTwice
<1>1. SoldiersInv => NobodyTwice
  BY DEF SoldiersInv, NobodyTwice, Conserved, Tokens
<1> QED BY <1>1, SoldiersInvariance, PTL

\* A march that has not begun to gather changes in a RowStep only if it is due.
LEMMA RowStepNotEarly ==
    ASSUME ~SameSecond, IInv, RowStep, NEW u \in Players, NEW k \in DOMAIN attack[u],
           attack[u][k].status \in {"going", "returning"}, Moves(u, k)
    PROVE  attack[u][k].arrive <= now
<1>1. CASE UNCHANGED <<home, attack, fallen>>
  BY <1>1 DEF Moves
<1>2. ASSUME NEW v \in Players, NEW l \in Keys, NEW m \in Marches, Departs(v, l, m)
      PROVE  FALSE
  BY <1>2, DepartRow DEF Moves
<1>3. ASSUME NEW v \in Players, NEW l \in DOMAIN attack[v], StartsGathering(v, l)
      PROVE  attack[u][k].arrive <= now
  BY <1>3, GatherRow DEF Moves, StartsGathering
<1>4. ASSUME NEW v \in Players, NEW l \in DOMAIN attack[v],
             NEW lost \in SUBSET attack[v][l].troops, NEW carry \in {0, GatherAmount},
             TurnsBack(v, l, lost, carry)
      PROVE  attack[u][k].arrive <= now
  <2>1. v = u /\ l = k
    BY <1>4, TurnRow DEF Moves
  <2> QED BY <1>4, <2>1 DEF TurnsBack
<1>5. ASSUME NEW v \in Players, NEW l \in DOMAIN attack[v], ComesHome(v, l)
      PROVE  attack[u][k].arrive <= now
  <2>1. v = u /\ l = k
    BY <1>5, HomeRow DEF Moves
  <2> QED BY <1>5, <2>1 DEF ComesHome
<1> QED BY <1>1, <1>2, <1>3, <1>4, <1>5 DEF RowStep

\* A march acts at its cell, or is home, no earlier than its ArriveTime,
\* however its tasks are delayed, repeated or rebuilt (consumeMarchQueue).
THEOREM NoMarchEarly ==
    ASSUME ~SameSecond
    PROVE  Spec => NeverEarly
<1> DEFINE A == \A u \in Players : \A k \in DOMAIN attack[u] :
                    attack[u][k].status \in {"going", "returning"} /\ Moves(u, k)
                        => attack[u][k].arrive <= now
<1>1. IInv /\ [Next]_vars => [A]_vars
  BY EveryRowStep, RowStepNotEarly
<1> HIDE DEF A
<1>2. Spec => [][A]_vars
  BY <1>1, Invariance, PTL DEF Spec
<1>3. Spec => NeverEarly
  BY <1>2 DEF NeverEarly, A
<1> QED BY <1>3
-----------------------------------------------------------------------------
(* March implements Trips *)

\* When one row changes, the trips of one player do.
LEMMA OutOfOne ==
    ASSUME IInv, RowsTyped', NEW u \in Players, \A v \in Players \ {u} : attack'[v] = attack[v]
    PROVE  Out' = [Out EXCEPT ![u] = TripsOf(attack'[u])]
  BY DEF Out

\* A player's soldiers are in the same places for Trips, which names the same
\* operators.
LEMMA PartyOfTrips ==
    /\ \A h, f, r, loans : T!Parties(h, f, r, loans) = Parties(h, f, r, loans)
    /\ \A s, loans : T!Lent(s, loans) = Lent(s, loans)
    /\ \A s, loans : T!Losses(s, loans) = Losses(s, loans)
    /\ \A h, f, r, loans : Parties(h, f, TripsOf(r), loans) = Parties(h, f, r, loans)
<1>1. \A S : T!Cardinality(S) = Cardinality(S)
  BY DEF T!Cardinality, Cardinality
<1>2. \A loans : T!Debts(loans) = Debts(loans)
  BY DEF T!Debts, T!Debt, Debts, Debt
<1>3. \A h, f, r : T!Places(h, f, r) = Places(h, f, r)
  BY DEF T!Places, Places
<1>4. \A loans, p : T!Unlent(loans, p) = Unlent(loans, p)
  BY DEF T!Unlent, Unlent, T!Debt, Debt
<1>5. \A s, loans : T!Count(s, loans) = Count(s, loans)
  BY <1>1, <1>2 DEF T!Count, Count
<1>6. \A h, f, r, loans : T!Parties(h, f, r, loans) = Parties(h, f, r, loans)
  BY <1>1, <1>2, <1>3, <1>4, <1>5 DEF T!Parties, Parties
<1>7. \A s, loans : T!Lent(s, loans) = Lent(s, loans)
  BY DEF T!Lent, Lent, T!Debt, Debt
<1>8. \A s, loans : T!Losses(s, loans) = Losses(s, loans)
  BY <1>1, <1>2 DEF T!Losses, Losses
<1>9. ASSUME NEW h, NEW f, NEW r, NEW loans
      PROVE  Parties(h, f, TripsOf(r), loans) = Parties(h, f, r, loans)
  <2>1. Places(h, f, TripsOf(r)) = Places(h, f, r)
    BY DEF Places, TripsOf, Trip
  <2> QED BY <2>1 DEF Parties
<1> QED BY <1>6, <1>7, <1>8, <1>9

\* A launch is a departure.
LEMMA DepartImplements ==
    ASSUME ~SameSecond, IInv, IInv', NEW u \in Players, NEW k \in Keys, NEW m \in Marches, Departs(u, k, m)
    PROVE  /\ T!Depart(u, k, m.troops, m.type)
           /\ m.troops \in T!Parties(home[u], fallen[u], Out[u], Loans[u])
           /\ k \notin DOMAIN Out[u]
<1>1. Out' = [Out EXCEPT ![u] = TripsOf(attack'[u])]
  BY DepartRow, OutOfOne DEF IInv, TypeOK
<1>2. TripsOf(attack'[u]) = Put(TripsOf(attack[u]), k, [troops |-> m.troops, type |-> m.type, status |-> "going"])
  <2>1. Trip(m) = [troops |-> m.troops, type |-> m.type, status |-> "going"]
    BY DEF Trip, Departs
  <2>2. /\ DOMAIN attack'[u] = DOMAIN attack[u] \cup {k} /\ attack'[u][k] = m
        /\ k \notin DOMAIN attack[u]
        /\ \A l \in DOMAIN attack[u] : attack'[u][l] = attack[u][l]
    BY DepartRow
  <2> QED BY <2>1, <2>2 DEF TripsOf, Put
<1>3. Out[u] = TripsOf(attack[u]) /\ Out \in [Players -> {TripsOf(attack[v]) : v \in Players}]
  BY DEF Out
<1>4. Out' = [Out EXCEPT ![u] = Put(@, k, [troops |-> m.troops, type |-> m.type, status |-> "going"])]
  BY <1>1, <1>2, <1>3
<1>5. k \notin DOMAIN Out[u]
  BY <1>3 DEF TripsOf, Departs
<1>6. m.troops \in T!Parties(home[u], fallen[u], Out[u], Loans[u])
  BY <1>3, PartyOfTrips DEF Departs
<1>7. /\ home' = [home EXCEPT ![u] = (@ \ m.troops) \cup T!Lent(m.troops, Loans[u])]
      /\ fallen' = fallen
  BY PartyOfTrips DEF Departs
<1>8. T!Depart(u, k, m.troops, m.type)
  BY <1>4, <1>7 DEF T!Depart, T!Put, Put, Out, TripsOf
<1> QED BY <1>5, <1>6, <1>8

\* The trip of a march that is in the row.
LEMMA OutAt ==
    ASSUME NEW u \in Players
    PROVE  /\ Out[u] = TripsOf(attack[u]) /\ DOMAIN Out[u] = DOMAIN attack[u]
           /\ \A k \in DOMAIN attack[u] :
                  /\ Out[u][k] = Trip(attack[u][k])
                  /\ Out[u][k].troops = attack[u][k].troops
                  /\ Out[u][k].type = attack[u][k].type
                  /\ Out[u][k].status = attack[u][k].status
           /\ Out = [v \in Players |-> Out[v]]
  BY DEF Out, TripsOf, Trip

\* The arrival of a gathering starts it.
LEMMA GatherImplements ==
    ASSUME IInv, IInv', NEW u \in Players, NEW k \in DOMAIN attack[u], StartsGathering(u, k)
    PROVE  T!StartGathering(u, k)
<1>1. Out' = [Out EXCEPT ![u] = TripsOf(attack'[u])]
  BY GatherRow, OutOfOne DEF IInv, TypeOK
<1>2. TripsOf(attack'[u]) = [Out[u] EXCEPT ![k].status = "gathering"]
  <2>1. Trip(attack'[u][k]) = [Out[u][k] EXCEPT !.status = "gathering"]
    <3>1. Trip(attack'[u][k]) = [troops |-> attack[u][k].troops, type |-> attack[u][k].type,
                                 status |-> "gathering"]
      BY GatherRow DEF Trip
    <3>2. Out[u][k] = [troops |-> attack[u][k].troops, type |-> attack[u][k].type,
                       status |-> attack[u][k].status]
      BY OutAt DEF Trip
    <3> QED BY <3>1, <3>2
  <2>2. /\ DOMAIN attack'[u] = DOMAIN attack[u]
        /\ \A l \in DOMAIN attack[u] \ {k} : attack'[u][l] = attack[u][l]
    BY GatherRow
  <2>3. /\ Out[u] = TripsOf(attack[u]) /\ DOMAIN Out[u] = DOMAIN attack[u]
        /\ \A l \in DOMAIN attack[u] : Out[u][l] = Trip(attack[u][l])
    BY OutAt
  <2> QED BY <2>1, <2>2, <2>3 DEF TripsOf
<1>3. Out' = [Out EXCEPT ![u][k].status = "gathering"]
  BY <1>1, <1>2, OutAt
<1>4. Out[u][k].status = "going" /\ Out[u][k].type = "gather"
  BY OutAt DEF StartsGathering
<1>5. home' = home /\ fallen' = fallen
  BY DEF StartsGathering
<1> QED BY <1>3, <1>4, <1>5 DEF T!StartGathering, Out, TripsOf

\* The save of a way back turns a trip back.
LEMMA TurnImplements ==
    ASSUME IInv, IInv', SoldiersInv, NEW u \in Players, NEW k \in DOMAIN attack[u],
           NEW lost \in SUBSET attack[u][k].troops, NEW carry \in {0, GatherAmount},
           TurnsBack(u, k, lost, carry)
    PROVE  T!TurnBack(u, k, ReturnKey(k), lost) /\ ReturnKey(k) \notin DOMAIN Out[u]
<1> DEFINE b == ReturnKey(k)
           trip == [troops |-> attack[u][k].troops \ lost, type |-> attack[u][k].type,
                    status |-> "returning"]
<1>1. Out' = [Out EXCEPT ![u] = TripsOf(attack'[u])]
  <2>1. RowsTyped' /\ \A v \in Players \ {u} : attack'[v] = attack[v]
    BY TurnRow DEF IInv, TypeOK
  <2> QED BY <2>1, OutOfOne
<1>2. /\ b \notin DOMAIN attack[u] /\ b # k
      /\ DOMAIN attack'[u] = (DOMAIN attack[u] \ {k}) \cup {b}
      /\ \A l \in DOMAIN attack[u] \ {k} : attack'[u][l] = attack[u][l]
      /\ Trip(attack'[u][b]) = trip
  <2>1. /\ b \notin DOMAIN attack[u] /\ b # k
        /\ DOMAIN attack'[u] = (DOMAIN attack[u] \ {k}) \cup {b}
        /\ \A l \in DOMAIN attack[u] \ {k} : attack'[u][l] = attack[u][l]
    BY TurnRow
  <2>2. /\ attack'[u][b].troops = attack[u][k].troops \ lost
        /\ attack'[u][b].type = attack[u][k].type
        /\ attack'[u][b].status = "returning"
    BY TurnRow
  <2> QED BY <2>1, <2>2 DEF Trip
<1>3. TripsOf(attack'[u]) = Put(Drop(Out[u], k), b, trip)
  <2>1. /\ DOMAIN Out[u] = DOMAIN attack[u]
        /\ \A l \in DOMAIN attack[u] : Out[u][l] = Trip(attack[u][l])
    BY OutAt
  <2> HIDE DEF b, trip
  <2> QED BY <1>2, <2>1 DEF TripsOf, Put, Drop
<1>4. Out' = [Out EXCEPT ![u] = Put(Drop(@, k), b, trip)]
  BY <1>1, <1>3
<1>5. /\ \/ /\ Out[u][k].type = "attack" /\ Out[u][k].status = "going"
            /\ lost \in T!Losses(Out[u][k].troops, Loans[u])
         \/ Out[u][k].type = "gather" /\ Out[u][k].status = "gathering" /\ lost = {}
         \/ Out[u][k].type = "station" /\ Out[u][k].status = "going" /\ lost = {}
      /\ lost \subseteq Out[u][k].troops
      /\ trip = [troops |-> Out[u][k].troops \ lost, type |-> Out[u][k].type,
                 status |-> "returning"]
  <2>1. /\ Out[u][k].troops = attack[u][k].troops /\ Out[u][k].type = attack[u][k].type
        /\ Out[u][k].status = attack[u][k].status
    BY OutAt
  <2>2. \A s : T!Losses(s, Loans[u]) = Losses(s, Loans[u])
    BY PartyOfTrips
  <2> QED BY <2>1, <2>2 DEF TurnsBack, SoldiersInv, GathersTyped
<1>6. fallen' = [fallen EXCEPT ![u] = @ \cup lost] /\ home' = home
  BY DEF TurnsBack, SaveReturn
<1>7. b \notin DOMAIN Out[u]
  BY <1>2, OutAt
<1> HIDE DEF b
<1>8. Out' = [Out EXCEPT ![u] = Put(Drop(@, k), b, [troops |-> Out[u][k].troops \ lost,
                                                   type |-> Out[u][k].type, status |-> "returning"])]
  BY <1>4, <1>5
<1>9. T!TurnBack(u, k, b, lost)
  BY <1>5, <1>6, <1>8 DEF T!TurnBack, T!Put, T!Drop, Put, Drop, Out, TripsOf
<1> QED BY <1>7, <1>9 DEF b

\* A march that is home ends its trip.
LEMMA HomeImplements ==
    ASSUME IInv, IInv', NEW u \in Players, NEW k \in DOMAIN attack[u], ComesHome(u, k)
    PROVE  T!ComeHome(u, k)
<1>1. Out' = [Out EXCEPT ![u] = TripsOf(attack'[u])]
  BY HomeRow, OutOfOne DEF IInv, TypeOK
<1>2. TripsOf(attack'[u]) = Drop(Out[u], k)
  <2>1. /\ DOMAIN Out[u] = DOMAIN attack[u]
        /\ \A l \in DOMAIN attack[u] : Out[u][l] = Trip(attack[u][l])
    BY OutAt
  <2>2. /\ DOMAIN attack'[u] = DOMAIN attack[u] \ {k}
        /\ \A l \in DOMAIN attack'[u] : attack'[u][l] = attack[u][l]
    BY HomeRow
  <2> QED BY <2>1, <2>2 DEF TripsOf, Drop
<1>3. Out' = [Out EXCEPT ![u] = Drop(@, k)]
  BY <1>1, <1>2
<1>4. Out[u][k].status = "returning" /\ Out[u][k].troops = attack[u][k].troops
  BY OutAt DEF ComesHome
<1>5. home' = [home EXCEPT ![u] = @ \cup Out[u][k].troops] /\ fallen' = fallen
  BY <1>4 DEF ComesHome, SaveHome
<1> QED BY <1>3, <1>4, <1>5 DEF T!ComeHome, T!Drop, Drop, Out, TripsOf

\* Every step is a step of Trips or leaves the trips alone.
LEMMA StepImplements ==
    ASSUME ~SameSecond, IInv, IInv', SoldiersInv, RowStep
    PROVE  [T!Next]_(T!vars)
<1>1. CASE UNCHANGED <<home, attack, fallen>>
  BY <1>1 DEF T!vars
<1>2. ASSUME NEW u \in Players, NEW k \in Keys, NEW m \in Marches, Departs(u, k, m)
      PROVE  T!Next
  <2>1. m.type \in T!Types
    BY <1>2 DEF Marches, Types, T!Types
  <2>2. /\ T!Depart(u, k, m.troops, m.type)
        /\ m.troops \in T!Parties(home[u], fallen[u], Out[u], Loans[u])
        /\ k \in Keys \ DOMAIN Out[u]
    BY <1>2, DepartImplements
  <2> QED BY <2>1, <2>2 DEF T!Next, Out, TripsOf
<1>3. ASSUME NEW u \in Players, NEW k \in DOMAIN attack[u], StartsGathering(u, k)
      PROVE  T!Next
  <2>1. T!StartGathering(u, k) /\ k \in DOMAIN Out[u]
    BY <1>3, GatherImplements, OutAt
  <2> QED BY <2>1 DEF T!Next, Out, TripsOf
<1>4. ASSUME NEW u \in Players, NEW k \in DOMAIN attack[u],
             NEW lost \in SUBSET attack[u][k].troops, NEW carry \in {0, GatherAmount},
             TurnsBack(u, k, lost, carry)
      PROVE  T!Next
  <2>1. T!TurnBack(u, k, ReturnKey(k), lost) /\ ReturnKey(k) \notin DOMAIN Out[u]
    BY <1>4, TurnImplements
  <2>2. ReturnKey(k) \in Keys
    BY <1>4, TurnRow
  <2>3. k \in DOMAIN Out[u] /\ lost \in SUBSET Out[u][k].troops
    BY OutAt
  <2> HIDE DEF ReturnKey
  <2> QED BY <2>1, <2>2, <2>3 DEF T!Next, Out, TripsOf
<1>5. ASSUME NEW u \in Players, NEW k \in DOMAIN attack[u], ComesHome(u, k)
      PROVE  T!Next
  <2>1. T!ComeHome(u, k) /\ k \in DOMAIN Out[u]
    BY <1>5, HomeImplements, OutAt
  <2> QED BY <2>1 DEF T!Next, Out, TripsOf
<1> QED BY <1>1, <1>2, <1>3, <1>4, <1>5 DEF RowStep

\* The march system implements what Trips promises a player: soldiers leave
\* on a trip, fight once, gather once and come home, over crashes, repeated
\* tasks and failing saves.
THEOREM ImplementsTripsAlways ==
    ASSUME ~SameSecond
    PROVE  Spec => ImplementsTrips
<1>1. Init => T!Init
  BY DEF Init, T!Init
<1>2. IInv /\ SoldiersInv /\ IInv' /\ [Next]_vars => [T!Next]_(T!vars)
  BY EveryRowStep, StepImplements
<1>3. Spec => T!Spec
  BY <1>1, <1>2, SoldiersInvariance, PTL DEF Spec, T!Spec
<1> QED BY <1>3 DEF ImplementsTrips
-----------------------------------------------------------------------------
(* No march in the field or on its way back is forgotten *)

\* A march is on its way out only since its launch.
LEMMA GoingBefore ==
    ASSUME IInv, RowStep, NEW u \in Players, NEW k \in DOMAIN attack'[u],
           attack'[u][k].status = "going"
    PROVE  \/ k \in DOMAIN attack[u] /\ attack[u][k].status = "going"
           \/ /\ k.leg = "march" /\ k.at = now
              /\ SameSecond \/ k \notin DOMAIN attack[u]
<1>1. CASE UNCHANGED <<home, attack, fallen>>
  BY <1>1
<1>2. ASSUME NEW v \in Players, NEW l \in Keys, NEW m \in Marches, Departs(v, l, m)
      PROVE  \/ k \in DOMAIN attack[u] /\ attack[u][k].status = "going"
             \/ /\ k.leg = "march" /\ k.at = now
                /\ SameSecond \/ k \notin DOMAIN attack[u]
  <2>1. l.leg = "march" /\ l.at = now
    BY <1>2 DEF Departs
  <2> QED BY <1>2, <2>1, DepartRow
<1>3. ASSUME NEW v \in Players, NEW l \in DOMAIN attack[v], StartsGathering(v, l)
      PROVE  k \in DOMAIN attack[u] /\ attack[u][k].status = "going"
  BY <1>3, GatherRow
<1>4. ASSUME NEW v \in Players, NEW l \in DOMAIN attack[v],
             NEW lost \in SUBSET attack[v][l].troops, NEW carry \in {0, GatherAmount},
             TurnsBack(v, l, lost, carry)
      PROVE  k \in DOMAIN attack[u] /\ attack[u][k].status = "going"
  BY <1>4, TurnRow
<1>5. ASSUME NEW v \in Players, NEW l \in DOMAIN attack[v], ComesHome(v, l)
      PROVE  k \in DOMAIN attack[u] /\ attack[u][k].status = "going"
  BY <1>5, HomeRow
<1> QED BY <1>1, <1>2, <1>3, <1>4, <1>5 DEF RowStep

\* A march that was launched in this second is still on its way out.
LEMMA LaunchedNow ==
    ASSUME IInv, NEW u \in Players, NEW k \in DOMAIN attack[u], k.leg = "march", k.at = now
    PROVE  attack[u][k].status = "going"
<1>1. /\ KeyPast(attack[u], k, now) /\ now \in Nat
      /\ attack[u][k].status \in Statuses
      /\ attack[u][k].status # "returning"
  BY DEF IInv, KeysPast, TypeOK, CountersTyped, RowsTyped, Row, Marches
<1> QED BY <1>1 DEF KeyPast, Statuses

\* A request adds the task of a march at its ArriveTime, and no other.
LEMMA RequestEntries ==
    ASSUME IInv, NEW u \in Players, Request(u) \/ FinishRequest(u), NEW e \in AllEntries'
    PROVE  e \in AllEntries \/ EntryNew(e)
<1>1. CASE RequestEnqueue(u)
  <2>1. req[u].key \in DOMAIN attack[u]
    BY <1>1 DEF RequestEnqueue, IInv, LocksHeld
  <2>2. e \in AllEntries \/ e = Schedule(u, req[u].key)
    BY <1>1 DEF RequestEnqueue, AllEntries, Busy, Adding, ZAdd, consumer
  <2> QED BY <2>1, <2>2, ScheduleIs DEF EntryNew
<1>2. CASE \/ Request(u) \/ LaunchRegister(u) \/ CancelTurnBack(u) \/ CancelSaveFails(u)
           \/ RequestEnqueueFails(u)
  BY <1>2 DEF Request, LaunchMarch, CancelGather, LaunchRegister, CancelTurnBack,
              CancelSaveFails, RequestEnqueueFails, AllEntries, Busy, Adding, consumer
<1> QED BY <1>1, <1>2 DEF FinishRequest

\* So does the consumer, but for the task of a gathering that starts.
LEMMA ConsumeEntries ==
    ASSUME IInv, Consume, NEW e \in AllEntries'
    PROVE  e \in AllEntries \/ EntryNew(e)
<1>1. CASE Rebuild \/ RebuildFails
  <2>1. \/ e \in AllEntries
        \/ \E u \in Players : \E k \in DOMAIN attack[u] : e = Schedule(u, k)
    BY <1>1 DEF Rebuild, RebuildFails, Readd, MarchEntries, AllEntries, Busy, Adding
  <2> QED BY <2>1, ScheduleIs DEF EntryNew
<1>2. CASE ArriveTurnBack \/ GatherTurnBack
  <2>1. Busy /\ UNCHANGED <<zset, batch>>
    BY <1>2 DEF ArriveTurnBack, GatherTurnBack, Handling, Busy, redis
  <2>2. job'.entry = job.entry /\ EntryNew(job'.add)
    BY <1>2, TurnEntry DEF EntryNew
  <2> QED BY <2>1, <2>2 DEF AllEntries
<1>3. CASE ArriveGather
  <2>1. Busy /\ UNCHANGED <<zset, batch>>
    BY <1>3 DEF ArriveGather, Handling, Busy
  <2>2. JobUid = JobKey.uid
    BY DEF JobUid
  <2>3. job'.entry = job.entry /\ EntryNew(job'.add)
    BY <1>3, <2>2, GatherEntry, GatherRow DEF EntryNew
  <2> QED BY <2>1, <2>3 DEF AllEntries
<1>4. CASE Fetch
  BY <1>4 DEF Fetch, Batches, Due, AllEntries, Busy, Adding, redis
<1>5. CASE SkipLocked \/ TakeTask
  BY <1>5 DEF SkipLocked, TakeTask, First, AllEntries, Busy, Adding, redis
<1>6. CASE \/ LoadFails \/ DropOrphan \/ ArriveWait \/ ArriveSaveFails \/ GatherComplete
           \/ ReturnHome \/ TurnSaveFails \/ EnqueueNext \/ EnqueueFails \/ LeaveCell
  BY <1>6 DEF LoadFails, DropOrphan, ArriveWait, ArriveSaveFails, GatherComplete,
              ReturnHome, TurnSaveFails, EnqueueNext, EnqueueFails, LeaveCell, Handling, ZAdd,
              AllEntries, Busy, Adding, redis
<1>7. CASE FinishTask
  BY <1>7 DEF FinishTask, ZRem, AllEntries, Busy, Adding
<1> QED BY <1>1, <1>2, <1>3, <1>4, <1>5, <1>6, <1>7 DEF Consume

\* No other step adds an entry.
LEMMA NewEntries ==
    ASSUME IInv, [Next]_vars, NEW e \in AllEntries'
    PROVE  e \in AllEntries \/ EntryNew(e)
<1>1. CASE System
  BY <1>1, ConsumeEntries, RequestEntries
  DEF System, LockExpires, LoadCell, AllEntries, Busy, Adding, consumer
<1>2. CASE \E u \in Players : Request(u)
  BY <1>2, RequestEntries
<1>3. CASE (\E wiped \in BOOLEAN : Crash(wiped)) \/ Tick \/ UNCHANGED vars
  BY <1>3 DEF Crash, Tick, vars, AllEntries, Busy, Adding, redis, consumer
<1> QED BY <1>1, <1>2, <1>3 DEF Next

\* The entry the consumer is to add is never the one it is to remove.
LEMMA AddsOther ==
    ASSUME IInv, TasksOK, [Next]_vars, Adding'
    PROVE  job'.add.task # job'.entry.task
<1>1. CASE ArriveTurnBack \/ GatherTurnBack
  BY <1>1, TurnEntry DEF JobKey
<1>2. CASE ArriveGather
  <2>1. job.entry \in AllEntries /\ job.entry \in Entries
    BY <1>2 DEF ArriveGather, Handling, IInv, LocksHeld, Busy, AllEntries
  <2>2. job.entry.task.finish <= job.entry.score
    BY <1>2, <2>1, GatherEntry DEF TasksOK, FinishOK, JobUid, JobKey, JobMarch
  <2>3. job.entry.task.finish < now + GatherTime
    BY <1>2, <2>1, <2>2, GatherEntry, TimesAssumption
    DEF Entries, IInv, TypeOK, CountersTyped
  <2>4. job'.add.task.finish # job.entry.task.finish
    BY <1>2, <2>1, <2>3, GatherEntry, TimesAssumption
    DEF Entries, IInv, TypeOK, CountersTyped
  <2> QED BY <1>2, <2>4, GatherEntry
<1>3. CASE Adding /\ UNCHANGED job
  BY <1>3 DEF TasksOK
<1>4. ArriveTurnBack \/ GatherTurnBack \/ ArriveGather \/ (Adding /\ UNCHANGED job)
  BY DEF Next, System, Consume, Request, FinishRequest, Rebuild, RebuildFails, Readd,
         RequestEnqueueFails, EnqueueFails, Fetch, SkipLocked, TakeTask,
         LoadFails, DropOrphan, ArriveWait, ArriveSaveFails, GatherComplete, ReturnHome,
         TurnSaveFails, EnqueueNext, LeaveCell, FinishTask, LaunchMarch, CancelGather,
         LaunchRegister, RequestEnqueue, CancelTurnBack, CancelSaveFails, Crash, LoadCell,
         LockExpires, Tick, vars, consumer, Adding
<1> QED BY <1>1, <1>2, <1>3, <1>4

\* TasksOK is inductive on top of IInv.
LEMMA TasksStay ==
    ASSUME IInv, TasksOK, [Next]_vars
    PROVE  TasksOK'
<1>1. RowStep /\ IInv'
  BY EveryRowStep, NextKeepsInv
<1>2. ASSUME NEW e \in AllEntries',
             e.task.key \in DOMAIN attack'[e.task.key.uid],
             attack'[e.task.key.uid][e.task.key].status = "going"
      PROVE  e.task.finish <= e.score
  <2>1. CASE e \in AllEntries
    <3>1. /\ e.task.key.uid \in Players
          /\ EntryOK(attack[e.task.key.uid], e.task.key, e.score, now)
      BY <2>1, EntriesTyped DEF IInv, EntriesOK
    <3>2. e.task.key \in DOMAIN attack[e.task.key.uid]
      BY <1>1, <1>2, <3>1, GoingBefore DEF EntryOK
    <3>3. attack[e.task.key.uid][e.task.key].status = "going"
      BY <1>1, <1>2, <3>1, <3>2, GoingBefore, LaunchedNow
    <3> QED BY <2>1, <3>2, <3>3 DEF TasksOK, FinishOK
  <2>2. CASE EntryNew(e)
    BY <1>2, <2>2 DEF EntryNew
  <2> QED BY <2>1, <2>2, NewEntries
<1>3. \A e \in AllEntries' : FinishOK(e, attack'[e.task.key.uid])
  BY <1>2 DEF FinishOK
<1>4. (Adding => job.add.task # job.entry.task)'
  BY AddsOther
<1> QED BY <1>3, <1>4 DEF TasksOK

\* Scheduled, and a march that is not on its way out, before the step.
LEMMA WasScheduled ==
    ASSUME Scheduled, stage # "rebuild", failures = 0,
           NEW u \in Players, NEW k \in DOMAIN attack[u], attack[u][k].status # "going"
    PROVE  Coming(u, k) \/ Kept(k)
  BY DEF Scheduled

\* The requests: whoever turns a gathering back is about to add its task.
LEMMA RequestSchedules ==
    ASSUME IInv, Scheduled, NEW u \in Players, Request(u) \/ FinishRequest(u)
    PROVE  Scheduled'
<1> SUFFICES ASSUME stage' # "rebuild", failures' = 0,
                    NEW v \in Players, NEW k \in DOMAIN attack'[v],
                    attack'[v][k].status # "going"
             PROVE  (Coming(v, k) \/ Kept(k))'
  BY DEF Scheduled
<1>0. /\ stage' = stage /\ job' = job /\ failures \in Nat /\ v \in Players
      /\ Adding' = Adding /\ Handled' = Handled
      /\ req \in [Players -> [stage : {"idle", "register", "turn", "enqueue"},
                              key : Keys \cup {None}]]
  BY DEF Request, FinishRequest, LaunchMarch, CancelGather, LaunchRegister, RequestEnqueue,
         RequestEnqueueFails, CancelTurnBack, CancelSaveFails, consumer, IInv, TypeOK, CountersTyped, ProcessTyped,
         Adding, Handled
<1>1. ASSUME NEW c \in Cells, NEW type \in Types, NEW s \in Parties(home[u], fallen[u], attack[u], Loans[u]),
             LaunchMarch(u, c, type, s)
      PROVE  (Coming(v, k) \/ Kept(k))'
  <2> DEFINE l == MarchKey(u, now)
             m == NewMarch(c, type, s)
  <2>1. /\ m.status = "going" /\ attack' = [attack EXCEPT ![u] = Put(attack[u], l, m)]
        /\ req' = [req EXCEPT ![u] = [stage |-> "register", key |-> l]]
        /\ lock[u] = "free" /\ zset' = zset /\ failures' = failures
    BY <1>1 DEF LaunchMarch, NewMarch, faults
  <2> HIDE DEF l, m
  <2>2. k \in DOMAIN attack[v] /\ attack[v][k].status # "going"
    BY <2>1 DEF Put, IInv, TypeOK, RowsTyped
  <2>3. Coming(v, k) \/ Kept(k)
    BY <1>0, <2>1, <2>2, WasScheduled
  <2>4. req[u].stage = "idle"
    BY <2>1 DEF IInv, LocksHeld
  <2> QED BY <1>0, <2>1, <2>3, <2>4 DEF Coming, Kept
<1>2. ASSUME NEW l \in DOMAIN attack[u], CancelGather(u, l)
      PROVE  (Coming(v, k) \/ Kept(k))'
  <2>1. /\ attack' = attack /\ req' = [req EXCEPT ![u] = [stage |-> "turn", key |-> l]]
        /\ lock[u] = "free" /\ zset' = zset /\ failures' = failures
    BY <1>2 DEF CancelGather, row, faults
  <2>2. Coming(v, k) \/ Kept(k)
    BY <1>0, <2>1, WasScheduled
  <2>3. req[u].stage = "idle"
    BY <2>1 DEF IInv, LocksHeld
  <2> QED BY <1>0, <2>1, <2>2, <2>3 DEF Coming, Kept
<1>3. CASE LaunchRegister(u)
  <2>1. /\ attack' = attack /\ req' = [req EXCEPT ![u].stage = "enqueue"]
        /\ req[u].stage = "register" /\ zset' = zset /\ failures' = failures
    BY <1>3 DEF LaunchRegister, row, faults
  <2>2. Coming(v, k) \/ Kept(k)
    BY <1>0, <2>1, WasScheduled
  <2> QED BY <1>0, <2>1, <2>2 DEF Coming, Kept
<1>4. CASE RequestEnqueue(u)
  <2> DEFINE l == req[u].key
             e == Schedule(u, l)
  <2>1. /\ attack' = attack /\ req' = [req EXCEPT ![u] = Idle]
        /\ req[u].stage = "enqueue" /\ zset' = ZAdd(zset, e) /\ failures' = failures
    BY <1>4 DEF RequestEnqueue, row, faults
  <2>2. Coming(v, k) \/ Kept(k)
    BY <1>0, <2>1, WasScheduled
  <2>3. /\ e.task.key = l /\ l \in DOMAIN attack[u] /\ l.uid = u /\ lock[u] = "request"
    BY <2>1, ScheduleIs DEF IInv, LocksHeld, TypeOK, RowsTyped, Row
  <2>4. Handled => job.entry.task.key # l
    BY <2>3 DEF Handled, Busy, IInv, LocksHeld, JobUid, JobKey
  <2> HIDE DEF e, l
  <2>5. CASE k = l
    BY <1>0, <2>1, <2>3, <2>4, <2>5 DEF Kept, ZAdd
  <2>6. CASE k # l
    <3>1. CASE Kept(k)
      BY <1>0, <2>1, <2>3, <2>6, <3>1 DEF Kept, ZAdd
    <3>2. CASE Coming(v, k)
      <4>1. req[u].key = l
        BY DEF l
      <4> QED BY <1>0, <2>1, <2>6, <3>2, <4>1 DEF Coming
    <3> QED BY <2>2, <3>1, <3>2
  <2> QED BY <2>5, <2>6
<1>5. CASE CancelTurnBack(u)
  <2> DEFINE l == req[u].key
             b == ReturnKey(l)
  <2>1. /\ l \in DOMAIN attack[u] /\ attack[u][l].status = "gathering"
        /\ SaveReturn(u, l, {}, GatherAmount)
        /\ req' = [req EXCEPT ![u] = [stage |-> "enqueue", key |-> b]]
        /\ req[u].stage = "turn" /\ zset' = zset /\ failures' = failures
    BY <1>5 DEF IInv, LocksHeld, CancelTurnBack, faults
  <2>2. TurnsBack(u, l, {}, GatherAmount)
    BY <2>1 DEF TurnsBack
  <2>3. /\ DOMAIN attack'[u] = (DOMAIN attack[u] \ {l}) \cup {b}
        /\ \A x \in DOMAIN attack[u] \ {l} : attack'[u][x] = attack[u][x]
        /\ \A x \in Players \ {u} : attack'[x] = attack[x]
    BY <2>1, <2>2, TurnRow
  <2>4. CASE v = u /\ k = b
    BY <1>0, <2>1, <2>4 DEF Coming
  <2>5. CASE ~(v = u /\ k = b)
    <3>1. /\ k \in DOMAIN attack[v] /\ attack[v][k].status # "going"
          /\ v = u => k # l
      BY <2>3, <2>5
    <3>2. Coming(v, k) \/ Kept(k)
      BY <1>0, <2>1, <3>1, WasScheduled
    <3> QED BY <1>0, <2>1, <3>1, <3>2 DEF Coming, Kept
  <2> QED BY <2>4, <2>5
<1>6. CASE CancelSaveFails(u) \/ RequestEnqueueFails(u)
  BY <1>0, <1>6 DEF CancelSaveFails, RequestEnqueueFails
<1> QED BY <1>1, <1>2, <1>3, <1>4, <1>5, <1>6 DEF Request, FinishRequest

\* The end of a handler: every march but the one in hand keeps the entry it
\* has, as the ZREM to come is of the task in hand.
LEMMA HandledSchedules ==
    ASSUME IInv, Scheduled, stage \in {"handle", "turn"}, failures = 0,
           job'.entry = job.entry, UNCHANGED <<zset, req>>,
           NEW u \in Players, NEW k \in DOMAIN attack[u], k # JobKey,
           attack[u][k].status # "going"
    PROVE  (Coming(u, k) \/ Kept(k))'
<1>1. Coming(u, k) \/ Kept(k)
  BY WasScheduled
<1> QED BY <1>1 DEF Coming, Kept, Adding, Handled, JobKey

\* The consumer: a way back is about to be added, a gathering has a new task,
\* and no other task of a march is removed.
LEMMA ConsumeSchedules ==
    ASSUME IInv, TasksOK, Scheduled, Consume
    PROVE  Scheduled'
<1> SUFFICES ASSUME stage' # "rebuild", failures' = 0,
                    NEW u \in Players, NEW k \in DOMAIN attack'[u],
                    attack'[u][k].status # "going"
             PROVE  (Coming(u, k) \/ Kept(k))'
  BY DEF Scheduled
<1>0. failures \in Nat
  BY DEF IInv, TypeOK, CountersTyped
<1>1. CASE Rebuild
  <2>1. k \in DOMAIN attack[u] /\ Schedule(u, k) \in zset' /\ stage' = "next"
    BY <1>1 DEF Rebuild, Readd, MarchEntries, row
  <2>2. Schedule(u, k).task.key = k
    BY <2>1, ScheduleIs
  <2> QED BY <2>1, <2>2 DEF Kept, Handled
<1>2. CASE Fetch \/ SkipLocked \/ TakeTask
  <2>1. /\ stage = "next" /\ stage' \in {"next", "handle"} /\ failures = 0
        /\ UNCHANGED <<attack, zset, req>>
    BY <1>2 DEF Fetch, SkipLocked, TakeTask, row, redis, faults
  <2>2. Coming(u, k) \/ Kept(k)
    BY <2>1, WasScheduled
  <2> QED BY <2>1, <2>2 DEF Coming, Kept, Adding, Handled
<1>3. CASE LoadFails \/ ArriveSaveFails \/ TurnSaveFails \/ RebuildFails \/ EnqueueFails
  BY <1>0, <1>3 DEF LoadFails, ArriveSaveFails, TurnSaveFails, RebuildFails, EnqueueFails
<1>4. CASE DropOrphan \/ ArriveWait
  <2>1. /\ stage = "handle" /\ failures = 0 /\ UNCHANGED <<attack, zset, req, job>>
    BY <1>4 DEF DropOrphan, ArriveWait, Handling, row, redis, faults
  <2>2. k # JobKey
    <3>1. k.uid = u
      BY <2>1 DEF IInv, TypeOK, RowsTyped, Row
    <3> QED BY <1>4, <2>1, <3>1 DEF DropOrphan, ArriveWait, Handling, JobUid, JobMarch
  <2> QED BY <2>1, <2>2, HandledSchedules
<1>5. CASE ArriveTurnBack \/ GatherTurnBack
  <2> DEFINE b == ReturnKey(JobKey)
  <2>1. /\ stage \in {"handle", "turn"} /\ failures = 0 /\ UNCHANGED <<zset, req>>
        /\ stage' \in {"enqueue", "enqueueThenLeave"}
    BY <1>5 DEF ArriveTurnBack, GatherTurnBack, Handling, redis, faults
  <2>2. PICK lost \in SUBSET JobMarch.troops, carry \in {0, GatherAmount} :
            TurnsBack(JobUid, JobKey, lost, carry)
    BY <1>5, TurnEntry
  <2>3. /\ JobUid \in Players /\ JobKey \in DOMAIN attack[JobUid]
        /\ job'.entry = job.entry /\ job'.add.task.key = b
    BY <1>5, TurnEntry
  <2>4. JobMarch = attack[JobUid][JobKey]
    BY DEF JobMarch
  <2>5. /\ DOMAIN attack'[JobUid] = (DOMAIN attack[JobUid] \ {JobKey}) \cup {b}
        /\ \A l \in DOMAIN attack[JobUid] \ {JobKey} : attack'[JobUid][l] = attack[JobUid][l]
        /\ \A v \in Players \ {JobUid} : attack'[v] = attack[v]
    BY <2>2, <2>3, <2>4, TurnRow
  <2>6. CASE u = JobUid /\ k = b
    BY <2>1, <2>3, <2>6 DEF Coming, Adding
  <2>7. CASE ~(u = JobUid /\ k = b)
    <3>1. /\ k \in DOMAIN attack[u] /\ attack[u][k].status # "going"
          /\ u = JobUid => k # JobKey
      BY <2>5, <2>7
    <3>2. k # JobKey
      BY <3>1 DEF JobUid, IInv, TypeOK, RowsTyped, Row
    <3> QED BY <2>1, <2>3, <3>1, <3>2, HandledSchedules
  <2> QED BY <2>6, <2>7
<1>6. CASE ArriveGather
  <2>1. /\ stage = "handle" /\ stage' = "enqueue" /\ failures = 0 /\ UNCHANGED <<zset, req>>
    BY <1>6 DEF ArriveGather, Handling, faults
  <2>2. /\ JobUid \in Players /\ JobKey \in DOMAIN attack[JobUid]
        /\ StartsGathering(JobUid, JobKey)
        /\ job'.entry = job.entry /\ job'.add.task.key = JobKey
    BY <1>6, GatherEntry
  <2>3. CASE k = JobKey
    BY <2>1, <2>2, <2>3 DEF Coming, Adding
  <2>4. CASE k # JobKey
    <3>1. k \in DOMAIN attack[u] /\ attack[u][k].status # "going"
      BY <2>2, <2>4, GatherRow
    <3> QED BY <2>1, <2>2, <2>4, <3>1, HandledSchedules
  <2> QED BY <2>3, <2>4
<1>7. CASE GatherComplete
  <2>1. /\ stage = "handle" /\ stage' = "turn" /\ failures = 0
        /\ UNCHANGED <<attack, zset, req, job>>
    BY <1>7 DEF GatherComplete, Handling, row, faults
  <2>2. Coming(u, k) \/ Kept(k)
    BY <2>1, WasScheduled
  <2> QED BY <2>1, <2>2 DEF Coming, Kept, Adding, Handled
<1>8. CASE ReturnHome
  <2>1. /\ stage = "handle" /\ failures = 0 /\ UNCHANGED <<zset, req, job>>
        /\ JobKey \in DOMAIN attack[JobUid] /\ Busy
    BY <1>8 DEF ReturnHome, Handling, redis, faults, Busy
  <2>2. JobUid \in Players /\ ComesHome(JobUid, JobKey)
    BY <1>8, <2>1, TaskInHand DEF ReturnHome, Handling, ComesHome, JobMarch
  <2>3. /\ k \in DOMAIN attack[u] /\ attack[u][k].status # "going"
        /\ u = JobUid => k # JobKey
    BY <2>1, <2>2, HomeRow
  <2>4. k # JobKey
    BY <2>3 DEF JobUid, IInv, TypeOK, RowsTyped, Row
  <2> QED BY <2>1, <2>3, <2>4, HandledSchedules
<1>9. CASE EnqueueNext
  <2>1. /\ Adding /\ Handled /\ Handled' /\ ~Adding' /\ stage # "rebuild" /\ failures = 0
        /\ UNCHANGED <<attack, req, job>> /\ zset' = ZAdd(zset, job.add)
    BY <1>9 DEF EnqueueNext, Adding, Handled, row, faults
  <2>2. job.add.task # job.entry.task
    BY <2>1 DEF TasksOK
  <2>3. Coming(u, k) \/ Kept(k)
    BY <2>1, WasScheduled
  <2>4. CASE job.add.task.key = k
    BY <2>1, <2>2, <2>4 DEF Kept, ZAdd
  <2>5. CASE job.add.task.key # k
    BY <2>1, <2>3, <2>5 DEF Coming, Kept, ZAdd
  <2> QED BY <2>4, <2>5
<1>10. CASE LeaveCell
  <2>1. /\ stage = "leave" /\ stage' = "finish" /\ failures = 0
        /\ UNCHANGED <<attack, zset, req, job>>
    BY <1>10 DEF LeaveCell, row, faults
  <2>2. Coming(u, k) \/ Kept(k)
    BY <2>1, WasScheduled
  <2> QED BY <2>1, <2>2 DEF Coming, Kept, Adding, Handled
<1>11. CASE FinishTask
  <2>1. /\ stage = "finish" /\ stage' = "next" /\ failures = 0
        /\ UNCHANGED <<attack, req>> /\ zset' = ZRem(zset, job.entry.task)
    BY <1>11 DEF FinishTask, row, faults
  <2>2. Coming(u, k) \/ Kept(k)
    BY <2>1, WasScheduled
  <2> QED BY <2>1, <2>2 DEF Coming, Kept, Adding, Handled, ZRem
<1> QED BY <1>1, <1>2, <1>3, <1>4, <1>5, <1>6, <1>7, <1>8, <1>9, <1>10, <1>11 DEF Consume

\* TaskInv holds at the start and is inductive on top of IInv.
LEMMA TasksInvariance == Spec => [](IInv /\ TaskInv)
<1>1. Init => IInv /\ TaskInv
  <2>1. Init => IInv
    BY InitInv
  <2>2. Init => TaskInv
    BY DEF Init, TaskInv, TasksOK, Scheduled, FinishOK, AllEntries, Busy, Adding
  <2> QED BY <2>1, <2>2
<1>2. IInv /\ TaskInv /\ [Next]_vars => IInv' /\ TaskInv'
  <2> SUFFICES ASSUME IInv, TaskInv, [Next]_vars PROVE IInv' /\ TaskInv'
    OBVIOUS
  <2>1. IInv' /\ TasksOK'
    BY NextKeepsInv, TasksStay DEF TaskInv
  <2>2. Scheduled'
    <3>1. CASE Consume
      BY <3>1, ConsumeSchedules DEF TaskInv
    <3>2. ASSUME NEW u \in Players, Request(u) \/ FinishRequest(u) PROVE Scheduled'
      BY <3>2, RequestSchedules DEF TaskInv
    <3>3. ASSUME NEW wiped \in BOOLEAN, Crash(wiped) PROVE Scheduled'
      BY <3>3 DEF Crash, Scheduled
    <3>4. CASE \/ \E u \in Players : LockExpires(u)
               \/ \E c \in Cells : LoadCell(c)
               \/ Tick
               \/ UNCHANGED vars
      BY <3>4 DEF LockExpires, LoadCell, Tick, vars, row, redis, consumer, faults,
                  TaskInv, Scheduled, Coming, Kept, Adding, Handled
    <3> QED BY <3>1, <3>2, <3>3, <3>4 DEF Next, System
  <2> QED BY <2>1, <2>2 DEF TaskInv
<1> QED BY <1>1, <1>2, PTL DEF Spec

\* A march that gathers or is on its way back always has a task or is about
\* to get one, whatever dies between its save, the ZADD and the ZREM of the
\* task before, as long as no row fails to be read or saved.  A launch that
\* takes the key of another of the same second has no part in it.
THEOREM NoMarchForgotten == Spec => []MarchesScheduled
<1>1. IInv /\ TaskInv => MarchesScheduled
  BY DEF TaskInv, Scheduled, Coming, Kept, MarchesScheduled, HasTask, Adding
<1> QED BY <1>1, TasksInvariance, PTL
-----------------------------------------------------------------------------
(* What the queue operations of a cell compute *)

\* A set of naturals that has 0 and with each number the next has them all:
\* otherwise i -> i + 1 would put its part below a gap into that part less 0.
LEMMA ClosedUnderSucc ==
    ASSUME NEW S \in SUBSET Nat, 0 \in S, \A n \in S : n + 1 \in S
    PROVE  S = Nat
<1> SUFFICES ASSUME NEW n \in Nat, n \notin S PROVE FALSE
  OBVIOUS
<1> DEFINE low == {i \in S : i <= n}
           f == [i \in low |-> i + 1]
<1>1. IsFiniteSet(low)
  BY FS_BoundedSetOfNaturals
<1>2. /\ IsFiniteSet(low \ {0})
      /\ Cardinality(low \ {0}) = Cardinality(low) - 1
  <2>1. 0 \in low
    OBVIOUS
  <2> QED BY <1>1, <2>1, FS_RemoveElement
<1>3. \A i \in low : i + 1 \in low \ {0}
  OBVIOUS
<1>4. f \in [low -> low \ {0}]
  BY <1>3
<1>5. Cardinality(low) \in Nat
  BY <1>1, FS_CardinalityType
<1>6. \A i, j \in low : f[i] = f[j] => i = j
  OBVIOUS
<1> HIDE DEF f, low
<1>7. Cardinality(low \ {0}) < Cardinality(low)
  BY <1>2, <1>5
<1>8. \E i, j \in low : i # j /\ f[i] = f[j]
  BY <1>1, <1>2, <1>4, <1>7, FS_PigeonHole
<1> QED BY <1>6, <1>8

\* What the loop of OnMarchArrive has kept after each of the first n items.
Loop(q, low, n, valid) ==
    valid = [m \in 0..n |->
                IF m = 0 THEN <<>>
                ELSE IF q[m].arriveAt < low THEN valid[m - 1]
                ELSE Append(valid[m - 1], q[m])]

\* p is what a purge leaves of the first n items of q; item i of p is item
\* f[i] of q.
Picks(q, low, n, p, f) ==
    /\ p \in Seq(QueueItems)
    /\ f \in [1..Len(p) -> 1..n]
    /\ \A i \in 1..Len(p) : p[i] = q[f[i]] /\ q[f[i]].arriveAt >= low
    /\ \A i, j \in 1..Len(p) : i < j => f[i] < f[j]
    /\ \A j \in 1..n : q[j].arriveAt >= low => \E i \in 1..Len(p) : f[i] = j

\* The loop over a queue can be run to its end.
LEMMA LoopRuns ==
    ASSUME NEW q, NEW low, NEW N \in Nat
    PROVE  \E valid : Loop(q, low, N, valid)
<1> DEFINE S == {n \in Nat : \E valid : Loop(q, low, n, valid)}
<1>1. 0 \in S
  <2>1. Loop(q, low, 0, [m \in 0..0 |-> <<>>])
    BY DEF Loop
  <2> QED BY <2>1
<1>2. ASSUME NEW n \in S PROVE n + 1 \in S
  <2>1. PICK v : Loop(q, low, n, v)
    OBVIOUS
  <2>0. n \in Nat
    OBVIOUS
  <2> HIDE DEF S
  <2> DEFINE w == [m \in 0..n + 1 |->
                      IF m = n + 1
                      THEN IF q[m].arriveAt < low THEN v[n] ELSE Append(v[n], q[m])
                      ELSE v[m]]
  <2>2. ASSUME NEW m \in 0..n + 1
        PROVE  w[m] = IF m = 0 THEN <<>>
                      ELSE IF q[m].arriveAt < low THEN w[m - 1]
                      ELSE Append(w[m - 1], q[m])
    <3>1. CASE m = n + 1
      <4>1. w[n + 1] = IF q[n + 1].arriveAt < low THEN v[n] ELSE Append(v[n], q[n + 1])
        BY <2>0
      <4>2. w[n] = v[n] /\ m # 0 /\ m - 1 = n
        BY <2>0, <3>1
      <4> HIDE DEF w
      <4> QED BY <3>1, <4>1, <4>2
    <3>2. CASE m \in 0..n
      <4>1. v[m] = IF m = 0 THEN <<>>
                   ELSE IF q[m].arriveAt < low THEN v[m - 1]
                   ELSE Append(v[m - 1], q[m])
        <5> DEFINE h == [x \in 0..n |->
                            IF x = 0 THEN <<>>
                            ELSE IF q[x].arriveAt < low THEN v[x - 1]
                            ELSE Append(v[x - 1], q[x])]
        <5>1. v = h
          BY <2>1 DEF Loop
        <5>2. h[m] = IF m = 0 THEN <<>>
                     ELSE IF q[m].arriveAt < low THEN v[m - 1]
                     ELSE Append(v[m - 1], q[m])
          BY <3>2
        <5> HIDE DEF h
        <5> QED BY <5>1, <5>2
      <4>2. w[m] = v[m] /\ (m # 0 => w[m - 1] = v[m - 1])
        BY <2>0, <3>2
      <4> HIDE DEF w
      <4> QED BY <4>1, <4>2
    <3> QED BY <2>0, <3>1, <3>2
  <2>3. w = [m \in 0..n + 1 |-> w[m]]
    OBVIOUS
  <2> HIDE DEF w
  <2>4. Loop(q, low, n + 1, w)
    BY <2>2, <2>3 DEF Loop
  <2> QED BY <2>0, <2>4 DEF S
<1> HIDE DEF S
<1>3. S = Nat
  <2>1. S \in SUBSET Nat
    BY DEF S
  <2> QED BY <1>1, <1>2, <2>1, ClosedUnderSucc
<1> QED BY <1>3 DEF S

\* One turn of the loop: the item is dropped or comes last.
LEMMA LoopTurn ==
    ASSUME NEW q \in Seq(QueueItems), NEW low \in Int,
           NEW n \in Nat, n + 1 <= Len(q), NEW p, NEW f, Picks(q, low, n, p, f)
    PROVE  \E g : Picks(q, low, n + 1,
                       IF q[n + 1].arriveAt < low THEN p ELSE Append(p, q[n + 1]), g)
<1> DEFINE e == q[n + 1]
           L == Len(p)
<1>1. /\ p \in Seq(QueueItems) /\ L \in Nat
      /\ f \in [1..L -> 1..n]
      /\ \A i \in 1..L : f[i] \in 1..n /\ p[i] = q[f[i]] /\ q[f[i]].arriveAt >= low
      /\ \A i, j \in 1..L : i < j => f[i] < f[j]
      /\ \A j \in 1..n : q[j].arriveAt >= low => \E i \in 1..L : f[i] = j
  BY DEF Picks
<1>2. e \in QueueItems
  OBVIOUS
<1>3. e.arriveAt \in Nat
  BY <1>2 DEF QueueItems
<1>4. CASE e.arriveAt < low
  <2>1. Picks(q, low, n + 1, p, f)
    BY <1>1, <1>3, <1>4 DEF Picks
  <2> QED BY <1>4, <2>1
<1>5. CASE e.arriveAt >= low
  <2> DEFINE g == [i \in 1..L + 1 |-> IF i = L + 1 THEN n + 1 ELSE f[i]]
             r == Append(p, e)
  <2>1. /\ r \in Seq(QueueItems) /\ Len(r) = L + 1
        /\ \A i \in 1..L : r[i] = p[i]
        /\ r[L + 1] = e
    BY <1>1, <1>2
  <2>2. /\ \A i \in 1..L : g[i] = f[i]
        /\ g[L + 1] = n + 1
    BY <1>1
  <2>3. g \in [1..L + 1 -> 1..n + 1]
    BY <1>1
  <2>4. /\ q[n + 1] = e
        /\ r = Append(p, q[n + 1])
    OBVIOUS
  <2> HIDE DEF g, r, L, e
  <2>5. \A i \in 1..L + 1 : i = L + 1 \/ i \in 1..L
    BY <1>1
  <2>6. \A i \in 1..L + 1 : r[i] = q[g[i]] /\ q[g[i]].arriveAt >= low
    BY <1>1, <1>5, <2>1, <2>2, <2>4, <2>5
  <2>7. \A i, j \in 1..L + 1 : i < j => g[i] < g[j]
    <3> SUFFICES ASSUME NEW i \in 1..L + 1, NEW j \in 1..L + 1, i < j
                 PROVE  g[i] < g[j]
      OBVIOUS
    <3>1. i \in 1..L
      BY <1>1
    <3>2. CASE j = L + 1
      BY <1>1, <2>2, <3>1, <3>2
    <3>3. CASE j \in 1..L
      BY <1>1, <2>2, <3>1, <3>3
    <3> QED BY <2>5, <3>2, <3>3
  <2>8. \A j \in 1..n + 1 : q[j].arriveAt >= low => \E i \in 1..L + 1 : g[i] = j
    <3> SUFFICES ASSUME NEW j \in 1..n + 1, q[j].arriveAt >= low
                 PROVE  \E i \in 1..L + 1 : g[i] = j
      OBVIOUS
    <3>1. CASE j = n + 1
      BY <1>1, <2>2, <3>1
    <3>2. CASE j \in 1..n
      <4>1. PICK i \in 1..L : f[i] = j
        BY <1>1, <3>2
      <4>2. i \in 1..L + 1 /\ g[i] = j
        BY <1>1, <2>2, <4>1
      <4> QED BY <4>2
    <3> QED BY <3>1, <3>2
  <2>9. Picks(q, low, n + 1, r, g)
    BY <2>1, <2>3, <2>6, <2>7, <2>8 DEF Picks
  <2> QED BY <1>3, <1>5, <2>4, <2>9
<1> QED BY <1>3, <1>4, <1>5

\* What it keeps are the items not too old, in their order.
LEMMA LoopPicks ==
    ASSUME NEW q \in Seq(QueueItems), NEW low \in Int, NEW valid, Loop(q, low, Len(q), valid)
    PROVE  \E f : Picks(q, low, Len(q), valid[Len(q)], f)
<1> DEFINE S == {n \in Nat : n <= Len(q) => \E f : Picks(q, low, n, valid[n], f)}
<1>1. 0 \in S
  <2>1. valid[0] = <<>>
    BY DEF Loop
  <2>2. Picks(q, low, 0, <<>>, [i \in 1..0 |-> 0])
    BY DEF Picks
  <2> QED BY <2>1, <2>2
<1>2. ASSUME NEW n \in S PROVE n + 1 \in S
  <2> SUFFICES ASSUME n + 1 <= Len(q)
               PROVE  \E f : Picks(q, low, n + 1, valid[n + 1], f)
    OBVIOUS
  <2>1. n \in Nat
    OBVIOUS
  <2>2. PICK f : Picks(q, low, n, valid[n], f)
    OBVIOUS
  <2> HIDE DEF S
  <2>3. Len(q) \in Nat /\ n + 1 \in 0..Len(q) /\ n + 1 # 0
    BY <2>1
  <2>4. valid[n + 1] = IF q[n + 1].arriveAt < low THEN valid[n]
                       ELSE Append(valid[n], q[n + 1])
    <3> DEFINE h == [m \in 0..Len(q) |->
                        IF m = 0 THEN <<>>
                        ELSE IF q[m].arriveAt < low THEN valid[m - 1]
                        ELSE Append(valid[m - 1], q[m])]
    <3>0. valid = h
      BY DEF Loop
    <3> DEFINE m == n + 1
    <3>1. m \in 0..Len(q) /\ m # 0 /\ m - 1 = n
      BY <2>1, <2>3
    <3> HIDE DEF m
    <3>2. h[m] = IF q[m].arriveAt < low THEN valid[m - 1] ELSE Append(valid[m - 1], q[m])
      BY <3>1
    <3> HIDE DEF h
    <3> QED BY <3>0, <3>1, <3>2 DEF m
  <2> QED BY <2>1, <2>2, <2>4, LoopTurn
<1> HIDE DEF S
<1>3. S = Nat
  <2>1. S \in SUBSET Nat
    BY DEF S
  <2> QED BY <1>1, <1>2, <2>1, ClosedUnderSucc
<1> QED BY <1>3 DEF S

\* OnMarchArrive's purge.
LEMMA PurgePicks ==
    ASSUME NEW q \in Seq(QueueItems), NEW t \in Nat
    PROVE  \E f : Picks(q, t - StaleAfter, Len(q), Purge(q, t, StaleAfter), f)
<1> DEFINE low == t - StaleAfter
           v == CHOOSE valid : Loop(q, low, Len(q), valid)
<1>1. low \in Int
  BY TimesAssumption
<1>2. Loop(q, low, Len(q), v)
  <2>1. \E valid : Loop(q, low, Len(q), valid)
    BY LoopRuns
  <2> QED BY <2>1
<1>3. Purge(q, t, StaleAfter) = v[Len(q)]
  BY DEF Purge, Loop
<1> HIDE DEF low, v
<1>4. \E f : Picks(q, low, Len(q), v[Len(q)], f)
  BY <1>1, <1>2, LoopPicks
<1> QED BY <1>3, <1>4 DEF low

\* OnMarchArrive answers true to the march that leads the queue.
LEMMA HeadLeads ==
    ASSUME NEW q \in Seq(QueueItems), NEW k, NEW t \in Nat
    PROVE  IsHead(Purge(q, t, StaleAfter), k) <=> Leads(q, k, t)
<1> DEFINE p == Purge(q, t, StaleAfter)
           low == t - StaleAfter
<1>1. PICK f : Picks(q, low, Len(q), p, f)
  BY PurgePicks
<1> HIDE DEF p
<1>2. /\ p \in Seq(QueueItems) /\ Len(p) \in Nat
      /\ f \in [1..Len(p) -> 1..Len(q)]
      /\ \A i \in 1..Len(p) : f[i] \in 1..Len(q) /\ p[i] = q[f[i]] /\ q[f[i]].arriveAt >= low
      /\ \A i, j \in 1..Len(p) : i < j => f[i] < f[j]
      /\ \A j \in 1..Len(q) : q[j].arriveAt >= low => \E i \in 1..Len(p) : f[i] = j
  BY <1>1 DEF Picks
<1>3. ASSUME IsHead(p, k) PROVE Leads(q, k, t)
  <2>1. 1 \in 1..Len(p) /\ p[1].key = k
    BY <1>2, <1>3 DEF IsHead
  <2>2. ASSUME NEW j \in DOMAIN q, j < f[1] PROVE ~Fresh(q[j], t)
    <3>1. ASSUME Fresh(q[j], t) PROVE FALSE
      <4>1. PICK i \in 1..Len(p) : f[i] = j
        BY <1>2, <3>1 DEF Fresh
      <4>2. f[1] <= f[i]
        BY <1>2, <2>1, <4>1
      <4> QED BY <1>2, <2>1, <2>2, <4>1, <4>2
    <3> QED BY <3>1
  <2>3. f[1] \in DOMAIN q /\ q[f[1]].key = k /\ Fresh(q[f[1]], t)
    BY <1>2, <2>1 DEF Fresh
  <2> QED BY <2>2, <2>3 DEF Leads
<1>4. ASSUME Leads(q, k, t) PROVE IsHead(p, k)
  <2>1. PICK j \in DOMAIN q : /\ q[j].key = k /\ Fresh(q[j], t)
                              /\ \A i \in DOMAIN q : i < j => ~Fresh(q[i], t)
    BY <1>4 DEF Leads
  <2>2. PICK i \in 1..Len(p) : f[i] = j
    BY <1>2, <2>1 DEF Fresh
  <2>3. i = 1
    <3>1. ASSUME i # 1 PROVE FALSE
      <4>1. 1 \in 1..Len(p) /\ f[1] < f[i] /\ Fresh(q[f[1]], t)
        BY <1>2, <2>2, <3>1 DEF Fresh
      <4> QED BY <1>2, <2>1, <2>2, <4>1
    <3> QED BY <3>1
  <2>4. p # <<>> /\ p[1].key = k
    BY <1>2, <2>1, <2>2, <2>3
  <2> QED BY <1>2, <2>4 DEF IsHead
<1> QED BY <1>3, <1>4 DEF p

\* The purge keeps who waits, and who leads, then and later.
LEMMA PurgeKeeps ==
    ASSUME NEW q \in Seq(QueueItems), NEW t \in Nat, NEW p, p = Purge(q, t, StaleAfter)
    PROVE  /\ p \in Seq(QueueItems)
           /\ \A k : Listed(p, k) => Listed(q, k)
           /\ \A k, s : s \in Nat /\ s >= t =>
                  /\ Waits(p, k, s) <=> Waits(q, k, s)
                  /\ Leads(p, k, s) <=> Leads(q, k, s)
           /\ \A c, r, n : QueueOK(q, c, r, n) => QueueOK(p, c, r, n)
<1> DEFINE low == t - StaleAfter
<1>1. PICK f : Picks(q, low, Len(q), p, f)
  BY PurgePicks
<1>2. /\ p \in Seq(QueueItems) /\ Len(p) \in Nat /\ DOMAIN p = 1..Len(p)
      /\ f \in [1..Len(p) -> 1..Len(q)] /\ DOMAIN q = 1..Len(q)
      /\ \A i \in 1..Len(p) : f[i] \in 1..Len(q) /\ p[i] = q[f[i]] /\ q[f[i]].arriveAt >= low
      /\ \A i, j \in 1..Len(p) : i < j => f[i] < f[j]
      /\ \A j \in 1..Len(q) : q[j].arriveAt >= low => \E i \in 1..Len(p) : f[i] = j
  BY <1>1 DEF Picks
<1>3. \A i, j \in 1..Len(p) : f[i] < f[j] => i < j
  BY <1>2
<1>4. \A j \in 1..Len(q) : q[j].arriveAt \in Nat
  <2>1. \A j \in 1..Len(q) : q[j] \in QueueItems
    OBVIOUS
  <2> QED BY <2>1 DEF QueueItems
<1>5. ASSUME NEW k, Listed(p, k) PROVE Listed(q, k)
  BY <1>2, <1>5 DEF Listed
<1>6. ASSUME NEW s \in Nat, s >= t, NEW j \in 1..Len(q), Fresh(q[j], s)
      PROVE  q[j].arriveAt >= low
  BY <1>4, <1>6, TimesAssumption DEF Fresh
<1>7. ASSUME NEW k, NEW s \in Nat, s >= t
      PROVE  Waits(p, k, s) <=> Waits(q, k, s)
  <2>1. ASSUME Waits(p, k, s) PROVE Waits(q, k, s)
    BY <1>2, <2>1 DEF Waits
  <2>2. ASSUME Waits(q, k, s) PROVE Waits(p, k, s)
    <3>1. PICK j \in 1..Len(q) : q[j].key = k /\ Fresh(q[j], s)
      BY <1>2, <2>2 DEF Waits
    <3>2. PICK i \in 1..Len(p) : f[i] = j
      BY <1>2, <1>6, <1>7, <3>1
    <3> QED BY <1>2, <3>1, <3>2 DEF Waits
  <2> QED BY <2>1, <2>2
<1>8. ASSUME NEW k, NEW s \in Nat, s >= t
      PROVE  Leads(p, k, s) <=> Leads(q, k, s)
  <2>1. ASSUME Leads(p, k, s) PROVE Leads(q, k, s)
    <3>1. PICK i \in 1..Len(p) : /\ p[i].key = k /\ Fresh(p[i], s)
                                 /\ \A j \in 1..Len(p) : j < i => ~Fresh(p[j], s)
      BY <1>2, <2>1 DEF Leads
    <3>2. ASSUME NEW j \in 1..Len(q), j < f[i] PROVE ~Fresh(q[j], s)
      <4>1. ASSUME Fresh(q[j], s) PROVE FALSE
        <5>1. PICK l \in 1..Len(p) : f[l] = j
          BY <1>2, <1>6, <1>8, <4>1
        <5>2. l < i
          BY <1>3, <3>2, <5>1
        <5> QED BY <1>2, <3>1, <4>1, <5>1, <5>2
      <4> QED BY <4>1
    <3>3. f[i] \in 1..Len(q) /\ q[f[i]].key = k /\ Fresh(q[f[i]], s)
      BY <1>2, <3>1
    <3> QED BY <1>2, <3>2, <3>3 DEF Leads
  <2>2. ASSUME Leads(q, k, s) PROVE Leads(p, k, s)
    <3>1. PICK j \in 1..Len(q) : /\ q[j].key = k /\ Fresh(q[j], s)
                                 /\ \A l \in 1..Len(q) : l < j => ~Fresh(q[l], s)
      BY <1>2, <2>2 DEF Leads
    <3>2. PICK i \in 1..Len(p) : f[i] = j
      BY <1>2, <1>6, <1>8, <3>1
    <3>3. ASSUME NEW l \in 1..Len(p), l < i PROVE ~Fresh(p[l], s)
      BY <1>2, <3>1, <3>2, <3>3
    <3>4. p[i].key = k /\ Fresh(p[i], s)
      BY <1>2, <3>1, <3>2
    <3> QED BY <1>2, <3>3, <3>4 DEF Leads
  <2> QED BY <2>1, <2>2
<1>9. ASSUME NEW c, NEW r, NEW n, QueueOK(q, c, r, n) PROVE QueueOK(p, c, r, n)
  <2>1. \A i, j \in 1..Len(p) : p[i].key = p[j].key => i = j
    <3> SUFFICES ASSUME NEW i \in 1..Len(p), NEW j \in 1..Len(p), p[i].key = p[j].key
                 PROVE  i = j
      OBVIOUS
    <3>1. f[i] = f[j]
      BY <1>2, <1>9 DEF QueueOK
    <3>2. ~(i < j) /\ ~(j < i)
      BY <1>2, <3>1
    <3> QED BY <3>2
  <2>2. ASSUME NEW i \in 1..Len(p)
        PROVE  LET k == p[i].key IN
               /\ p[i].arriveAt = k.at + Travel[c]
               /\ k.at <= n
               /\ k.at = n => k \in DOMAIN r[k.uid]
    <3>1. f[i] \in DOMAIN q /\ p[i] = q[f[i]]
      BY <1>2
    <3> QED BY <1>9, <3>1 DEF QueueOK
  <2> QED BY <1>2, <2>1, <2>2 DEF QueueOK
<1> QED BY <1>2, <1>5, <1>7, <1>8, <1>9

\* RegisterMarch: the newcomer waits behind all others.
LEMMA EnrolKeeps ==
    ASSUME NEW q \in Seq(QueueItems), NEW item \in QueueItems, NEW e, e = Enrol(q, item)
    PROVE  /\ e \in Seq(QueueItems)
           /\ \A k : Listed(e, k) <=> Listed(q, k) \/ k = item.key
           /\ \A k, s : Leads(q, k, s) => Leads(e, k, s)
           /\ \A c, r, n :
                  /\ QueueOK(q, c, r, n)
                  /\ ~Listed(q, item.key)
                  /\ item.arriveAt = item.key.at + Travel[c]
                  /\ item.key.at <= n
                  /\ item.key.at = n => item.key \in DOMAIN r[item.key.uid]
                  => QueueOK(e, c, r, n)
<1> DEFINE L == Len(q)
<1>1. /\ e \in Seq(QueueItems) /\ Len(e) = L + 1 /\ L \in Nat
      /\ DOMAIN e = 1..L + 1 /\ DOMAIN q = 1..L
      /\ \A i \in 1..L : e[i] = q[i]
      /\ e[L + 1] = item
  BY DEF Enrol
<1> HIDE DEF L
<1>2. \A i \in 1..L + 1 : i \in 1..L \/ i = L + 1
  BY <1>1
<1>3. 1..L \subseteq 1..L + 1 /\ L + 1 \in 1..L + 1
  BY <1>1
<1>4. ASSUME NEW k PROVE Listed(e, k) <=> Listed(q, k) \/ k = item.key
  BY <1>1, <1>2, <1>3 DEF Listed
<1>5. ASSUME NEW k, NEW s, Leads(q, k, s) PROVE Leads(e, k, s)
  <2>1. PICK i \in 1..L : /\ q[i].key = k /\ Fresh(q[i], s)
                          /\ \A j \in 1..L : j < i => ~Fresh(q[j], s)
    BY <1>1, <1>5 DEF Leads
  <2>2. \A j \in 1..L + 1 : j < i => j \in 1..L
    BY <1>1
  <2> QED BY <1>1, <1>3, <2>1, <2>2 DEF Leads
<1>6. ASSUME NEW c, NEW r, NEW n,
             QueueOK(q, c, r, n), ~Listed(q, item.key),
             item.arriveAt = item.key.at + Travel[c], item.key.at <= n,
             item.key.at = n => item.key \in DOMAIN r[item.key.uid]
      PROVE  QueueOK(e, c, r, n)
  <2>1. \A i, j \in 1..L + 1 : e[i].key = e[j].key => i = j
    BY <1>1, <1>2, <1>6 DEF QueueOK, Listed
  <2>2. ASSUME NEW i \in 1..L + 1
        PROVE  LET k == e[i].key IN
               /\ e[i].arriveAt = k.at + Travel[c]
               /\ k.at <= n
               /\ k.at = n => k \in DOMAIN r[k.uid]
    BY <1>1, <1>2, <1>6 DEF QueueOK
  <2> QED BY <1>1, <2>1, <2>2 DEF QueueOK
<1> QED BY <1>1, <1>4, <1>5, <1>6

\* RemoveMarch cuts out the item of the march, its only one.
LEMMA StrikeCuts ==
    ASSUME NEW S, NEW q \in Seq(S), NEW k, NEW i \in 1..Len(q),
           \A j \in 1..Len(q) : q[j].key = k <=> j = i
    PROVE  Strike(q, k) = SubSeq(q, 1, i - 1) \o SubSeq(q, i + 1, Len(q))
<1> DEFINE I == {j \in 1..Len(q) : q[j].key = k}
<1>1. Strike(q, k) = IF \E j \in 1..Len(q) : q[j].key = k
                     THEN RemoveAt(q, IF I # {} THEN Min(I) ELSE 0)
                     ELSE q
  BY DEF Strike, RemoveFirstMatch, SelectInSeq
<1>2. I = {i}
  OBVIOUS
<1>3. \E j \in 1..Len(q) : q[j].key = k
  OBVIOUS
<1>4. Min({i}) = i
  BY DEF Min
<1> HIDE DEF I
<1>5. Strike(q, k) = RemoveAt(q, i)
  BY <1>1, <1>2, <1>3, <1>4
<1> QED BY <1>5 DEF RemoveAt

\* What is left of the queue, item by item.
LEMMA StrikeAt ==
    ASSUME NEW q \in Seq(QueueItems), NEW k, NEW a \in 1..Len(q),
           \A i \in 1..Len(q) : q[i].key = k <=> i = a
    PROVE  /\ Strike(q, k) \in Seq(QueueItems)
           /\ Len(Strike(q, k)) = Len(q) - 1
           /\ \A i \in 1..a - 1 : Strike(q, k)[i] = q[i]
           /\ \A i \in a..Len(q) - 1 : Strike(q, k)[i] = q[i + 1]
<1> DEFINE l == SubSeq(q, 1, a - 1)
           r == SubSeq(q, a + 1, Len(q))
<1>1. Strike(q, k) = l \o r
  BY StrikeCuts
<1>2. l \in Seq(QueueItems) /\ Len(l) = a - 1 /\ \A i \in 1..a - 1 : l[i] = q[i]
  OBVIOUS
<1>3. r \in Seq(QueueItems) /\ Len(r) = Len(q) - a /\ \A i \in 1..Len(q) - a : r[i] = q[a + i]
  OBVIOUS
<1> HIDE DEF l, r
<1>4. /\ l \o r \in Seq(QueueItems)
      /\ Len(l \o r) = Len(l) + Len(r)
      /\ \A i \in 1..Len(l) + Len(r) : (l \o r)[i] = IF i <= Len(l) THEN l[i] ELSE r[i - Len(l)]
  BY <1>2, <1>3, ConcatProperties
<1>5. Len(q) \in Nat
  OBVIOUS
<1>6. \A i \in 1..a - 1 : (l \o r)[i] = q[i]
  BY <1>2, <1>3, <1>4, <1>5
<1>7. ASSUME NEW i \in a..Len(q) - 1 PROVE (l \o r)[i] = q[i + 1]
  <2>1. i - (a - 1) \in 1..Len(q) - a /\ a + (i - (a - 1)) = i + 1
    BY <1>5
  <2>2. (l \o r)[i] = r[i - (a - 1)]
    BY <1>2, <1>3, <1>4, <1>5
  <2>3. r[i - (a - 1)] = q[a + (i - (a - 1))]
    BY <1>3, <2>1
  <2> QED BY <2>1, <2>2, <2>3
<1>8. Len(l \o r) = Len(q) - 1
  BY <1>2, <1>3, <1>4, <1>5
<1> QED BY <1>1, <1>4, <1>6, <1>7, <1>8

\* What a queue is after RemoveMarch.
LEMMA StrikeKeeps ==
    ASSUME NEW q \in Seq(QueueItems), NEW c, NEW r, NEW n, QueueOK(q, c, r, n),
           NEW h, NEW s, s = Strike(q, h)
    PROVE  /\ QueueOK(s, c, r, n)
           /\ \A k : Listed(s, k) <=> Listed(q, k) /\ k # h
           /\ \A k, t : Leads(q, k, t) /\ k # h => Leads(s, k, t)
           /\ ~Listed(q, h) => s = q
<1>1. DOMAIN q = 1..Len(q) /\ Len(q) \in Nat
  OBVIOUS
<1>2. CASE ~Listed(q, h)
  <2>1. s = q
    BY <1>1, <1>2 DEF Strike, RemoveFirstMatch, Listed
  <2> QED BY <1>2, <2>1
<1>3. CASE Listed(q, h)
  <2>1. PICK a \in 1..Len(q) : q[a].key = h
    BY <1>1, <1>3 DEF Listed
  <2>2. \A i \in 1..Len(q) : q[i].key = h <=> i = a
    BY <1>1, <2>1 DEF QueueOK
  <2> DEFINE M == Len(q) - 1
             g(i) == IF i < a THEN i ELSE i + 1
  <2>3. /\ s \in Seq(QueueItems) /\ Len(s) = M
        /\ \A i \in 1..a - 1 : s[i] = q[i]
        /\ \A i \in a..M : s[i] = q[i + 1]
    BY <2>2, StrikeAt
  <2>4. DOMAIN s = 1..M /\ M \in Nat
    BY <1>1, <2>3
  <2>5. ASSUME NEW i \in 1..M
        PROVE  g(i) \in 1..Len(q) /\ g(i) # a /\ s[i] = q[g(i)]
    <3>1. CASE i < a
      <4>1. i \in 1..a - 1
        BY <2>4, <3>1
      <4> QED BY <1>1, <2>3, <3>1, <4>1
    <3>2. CASE ~(i < a)
      <4>1. i \in a..M
        BY <2>4, <3>2
      <4> QED BY <1>1, <2>3, <3>2, <4>1
    <3> QED BY <3>1, <3>2
  <2>6. ASSUME NEW j \in 1..Len(q), j # a
        PROVE  \E i \in 1..M : g(i) = j
    <3>1. CASE j < a
      BY <1>1, <3>1
    <3>2. CASE j > a
      <4>1. j - 1 \in 1..M /\ g(j - 1) = j
        BY <1>1, <3>2
      <4> QED BY <4>1
    <3> QED BY <1>1, <2>6, <3>1, <3>2
  <2>7. \A i, j \in 1..M : (g(i) = g(j) => i = j) /\ (i < j <=> g(i) < g(j))
    BY <1>1
  <2> HIDE DEF M, g
  <2>8. QueueOK(s, c, r, n)
    <3>1. \A i, j \in 1..M : s[i].key = s[j].key => i = j
      BY <1>1, <2>5, <2>7 DEF QueueOK
    <3>2. ASSUME NEW i \in 1..M
          PROVE  LET k == s[i].key IN
                 /\ s[i].arriveAt = k.at + Travel[c]
                 /\ k.at <= n
                 /\ k.at = n => k \in DOMAIN r[k.uid]
      BY <1>1, <2>5 DEF QueueOK
    <3> QED BY <2>3, <2>4, <3>1, <3>2 DEF QueueOK
  <2>9. ASSUME NEW k PROVE Listed(s, k) <=> Listed(q, k) /\ k # h
    <3>1. ASSUME Listed(s, k) PROVE Listed(q, k) /\ k # h
      <4>1. PICK i \in 1..M : s[i].key = k
        BY <2>4, <3>1 DEF Listed
      <4> QED BY <1>1, <2>2, <2>5, <4>1 DEF Listed
    <3>2. ASSUME Listed(q, k), k # h PROVE Listed(s, k)
      <4>1. PICK j \in 1..Len(q) : q[j].key = k
        BY <1>1, <3>2 DEF Listed
      <4>2. PICK i \in 1..M : g(i) = j
        BY <2>2, <2>6, <3>2, <4>1
      <4> QED BY <2>4, <2>5, <4>1, <4>2 DEF Listed
    <3> QED BY <3>1, <3>2
  <2>10. ASSUME NEW k, NEW t, Leads(q, k, t), k # h PROVE Leads(s, k, t)
    <3>1. PICK j \in 1..Len(q) : /\ q[j].key = k /\ Fresh(q[j], t)
                                 /\ \A l \in 1..Len(q) : l < j => ~Fresh(q[l], t)
      BY <1>1, <2>10 DEF Leads
    <3>2. PICK i \in 1..M : g(i) = j
      BY <2>2, <2>6, <2>10, <3>1
    <3>3. ASSUME NEW l \in 1..M, l < i PROVE ~Fresh(s[l], t)
      BY <2>5, <2>7, <3>1, <3>2, <3>3
    <3>4. s[i].key = k /\ Fresh(s[i], t)
      BY <2>5, <3>1, <3>2
    <3> QED BY <2>4, <3>3, <3>4 DEF Leads
  <2> QED BY <1>3, <2>8, <2>9, <2>10
<1> QED BY <1>2, <1>3
-----------------------------------------------------------------------------
(* A cell's queue in memory and its copy in Redis *)

\* A cell's queue as LoadOrCreateCell finds it.
QueueOf(m, d) == IF m # None THEN m ELSE d

\* Queues m2, d2 follow m, d: who waits in them waited before and leads if he
\* led, and nobody has come in.
Follows(m, d, m2, d2, k, t) ==
    LET q == QueueOf(m, d)
        q2 == QueueOf(m2, d2)
    IN  /\ q2 # None /\ Waits(q2, k, t) =>
               q # None /\ Waits(q, k, t) /\ (Leads(q, k, t) => Leads(q2, k, t))
        /\ InQueue(m2, d2, k) => InQueue(m, d, k)

\* The march goes on waiting.
Stays(m, d, m2, d2, k, t) ==
    QueueOf(m, d) # None /\ Waits(QueueOf(m, d), k, t) =>
        QueueOf(m2, d2) # None /\ Waits(QueueOf(m2, d2), k, t)

\* A queue is not the absence of one.
LEMMA QueueIsThere ==
    ASSUME NEW q \in Seq(QueueItems)
    PROVE  q # None
  BY NoneAssumption DEF QueueItems

\* What waits and what leads is in the queue; so is what waited before.
LEMMA WaitsListed ==
    ASSUME NEW q \in Seq(QueueItems), NEW k, NEW t \in Nat
    PROVE  /\ Waits(q, k, t) => Listed(q, k)
           /\ Leads(q, k, t) => Waits(q, k, t)
           /\ Waits(q, k, t + 1) => Waits(q, k, t)
<1>1. \A i \in DOMAIN q : q[i] \in QueueItems
  OBVIOUS
<1>2. \A i \in DOMAIN q : Fresh(q[i], t + 1) => Fresh(q[i], t)
  BY <1>1, TimesAssumption DEF Fresh, QueueItems
<1> QED BY <1>2 DEF Waits, Listed, Leads

\* In a cell's queue an item is as old as its march.
LEMMA WaitsAge ==
    ASSUME NEW q, NEW c \in Cells, NEW r, NEW n \in Nat, QueueOK(q, c, r, n),
           NEW k \in Keys, NEW t \in Nat
    PROVE  Waits(q, k, t) <=> Listed(q, k) /\ t <= k.at + Travel[c] + StaleAfter
<1>1. k.at \in Nat /\ Travel[c] \in Nat /\ StaleAfter \in Nat
  BY TimesAssumption, BoundsAssumption DEF Keys
<1>2. \A i \in DOMAIN q : q[i].key = k => q[i].arriveAt = k.at + Travel[c]
  BY DEF QueueOK
<1> QED BY <1>1, <1>2 DEF Waits, Listed, Fresh

\* Agreement of two queues is that of equals.
LEMMA AgreeSame ==
    ASSUME NEW q, NEW t
    PROVE  Agree(q, q, t)
  BY DEF Agree

\* OnMarchArrive on a cell that is there.
LEMMA ArrivePair ==
    ASSUME NEW m, NEW d, NEW c, NEW r, NEW t \in Nat, CellOK(m, d, c, r, t),
           QueueOf(m, d) # None, NEW p, p = Purge(QueueOf(m, d), t, StaleAfter)
    PROVE  /\ CellOK(p, d, c, r, t)
           /\ p # None
           /\ \A k \in Keys : Follows(m, d, p, d, k, t) /\ Stays(m, d, p, d, k, t)
<1> DEFINE q == QueueOf(m, d)
<1>1. QueueOK(q, c, r, t) /\ d # None /\ QueueOK(d, c, r, t) /\ Agree(q, d, t)
  BY AgreeSame DEF CellOK, QueueOf
<1>2. q \in Seq(QueueItems)
  BY <1>1 DEF QueueOK
<1>3. q = m \/ q = d
  BY DEF QueueOf
<1> HIDE DEF q
<1>0. p = Purge(q, t, StaleAfter)
  BY DEF q
<1>4. /\ p \in Seq(QueueItems)
      /\ \A k : Listed(p, k) => Listed(q, k)
      /\ \A k, s : s \in Nat /\ s >= t =>
             /\ Waits(p, k, s) <=> Waits(q, k, s)
             /\ Leads(p, k, s) <=> Leads(q, k, s)
      /\ QueueOK(p, c, r, t)
  BY <1>0, <1>1, <1>2, PurgeKeeps
<1>5. p # None /\ q # None
  BY <1>2, <1>4, QueueIsThere
<1>6. Agree(p, d, t)
  BY <1>1, <1>4 DEF Agree
<1>7. CellOK(p, d, c, r, t)
  BY <1>1, <1>4, <1>6 DEF CellOK
<1>8. ASSUME NEW k \in Keys
      PROVE  Follows(m, d, p, d, k, t) /\ Stays(m, d, p, d, k, t)
  <2>1. QueueOf(p, d) = p /\ QueueOf(m, d) = q
    BY <1>5 DEF QueueOf, q
  <2>2. /\ Waits(p, k, t) <=> Waits(q, k, t)
        /\ Leads(p, k, t) <=> Leads(q, k, t)
    BY <1>4
  <2>3. InQueue(p, d, k) => InQueue(m, d, k)
    BY <1>1, <1>3, <1>4, <1>5 DEF InQueue
  <2> QED BY <1>5, <2>1, <2>2, <2>3 DEF Follows, Stays
<1> QED BY <1>5, <1>7, <1>8

\* RegisterMarch on a cell that is there.
LEMMA EnrolPair ==
    ASSUME NEW m, NEW d, NEW c, NEW r, NEW t \in Nat, CellOK(m, d, c, r, t),
           QueueOf(m, d) # None, NEW item \in QueueItems,
           ~InQueue(m, d, item.key),
           item.arriveAt = item.key.at + Travel[c], item.key.at <= t,
           item.key.at = t => item.key \in DOMAIN r[item.key.uid],
           NEW e, e = Enrol(QueueOf(m, d), item)
    PROVE  /\ CellOK(e, e, c, r, t)
           /\ e # None
           /\ \A k \in Keys \ {item.key} :
                  Follows(m, d, e, e, k, t) /\ Stays(m, d, e, e, k, t)
<1> DEFINE q == QueueOf(m, d)
<1>1. QueueOK(q, c, r, t) /\ ~Listed(q, item.key)
  BY DEF CellOK, QueueOf, InQueue
<1>2. q \in Seq(QueueItems)
  BY <1>1 DEF QueueOK
<1>3. q # None /\ (q = m \/ q = d)
  BY DEF QueueOf
<1> HIDE DEF q
<1>0. e = Enrol(q, item)
  BY DEF q
<1>4. /\ e \in Seq(QueueItems)
      /\ \A k : Listed(e, k) <=> Listed(q, k) \/ k = item.key
      /\ \A k, s : Leads(q, k, s) => Leads(e, k, s)
      /\ QueueOK(e, c, r, t)
  BY <1>0, <1>1, <1>2, EnrolKeeps
<1>5. e # None
  BY <1>4, QueueIsThere
<1>6. CellOK(e, e, c, r, t)
  BY <1>4, <1>5, AgreeSame DEF CellOK
<1>7. ASSUME NEW k \in Keys \ {item.key}
      PROVE  Follows(m, d, e, e, k, t) /\ Stays(m, d, e, e, k, t)
  <2>1. QueueOf(e, e) = e /\ QueueOf(m, d) = q
    BY DEF QueueOf, q
  <2>2. Waits(e, k, t) <=> Waits(q, k, t)
    <3>1. \A i \in 1..Len(q) : e[i] = q[i]
      BY <1>0, <1>2 DEF Enrol
    <3>2. e[Len(q) + 1] = item /\ Len(q) \in Nat /\ DOMAIN q = 1..Len(q)
          /\ DOMAIN e = 1..Len(q) + 1
      BY <1>0, <1>2 DEF Enrol
    <3> QED BY <3>1, <3>2 DEF Waits
  <2>3. InQueue(e, e, k) => InQueue(m, d, k)
    BY <1>3, <1>4, <1>5 DEF InQueue
  <2> QED BY <1>3, <1>4, <1>5, <2>1, <2>2, <2>3 DEF Follows, Stays
<1> QED BY <1>5, <1>6, <1>7

\* RemoveMarch on a cell that is there.
LEMMA StrikePair ==
    ASSUME NEW m, NEW d, NEW c, NEW r, NEW t \in Nat, CellOK(m, d, c, r, t),
           QueueOf(m, d) # None, NEW h, NEW s, s = Strike(QueueOf(m, d), h),
           NEW d2, d2 = IF Listed(QueueOf(m, d), h) THEN s ELSE d
    PROVE  /\ CellOK(s, d2, c, r, t)
           /\ s # None
           /\ ~Listed(s, h)
           /\ \A k \in Keys \ {h} :
                  Follows(m, d, s, d2, k, t) /\ Stays(m, d, s, d2, k, t)
<1> DEFINE q == QueueOf(m, d)
<1>1. QueueOK(q, c, r, t) /\ d # None /\ QueueOK(d, c, r, t) /\ Agree(q, d, t)
  BY AgreeSame DEF CellOK, QueueOf
<1>2. q \in Seq(QueueItems)
  BY <1>1 DEF QueueOK
<1>3. q # None /\ (q = m \/ q = d)
  BY DEF QueueOf
<1> HIDE DEF q
<1>0. s = Strike(q, h) /\ d2 = IF Listed(q, h) THEN s ELSE d
  BY DEF q
<1>4. /\ QueueOK(s, c, r, t)
      /\ \A k : Listed(s, k) <=> Listed(q, k) /\ k # h
      /\ \A k, n : Leads(q, k, n) /\ k # h => Leads(s, k, n)
      /\ ~Listed(q, h) => s = q
  BY <1>0, <1>1, <1>2, StrikeKeeps
<1>5. s # None
  BY <1>4, QueueIsThere DEF QueueOK
<1>6. CellOK(s, d2, c, r, t)
  BY <1>0, <1>1, <1>4, <1>5, AgreeSame DEF CellOK
<1>7. ASSUME NEW k \in Keys \ {h}
      PROVE  Follows(m, d, s, d2, k, t) /\ Stays(m, d, s, d2, k, t)
  <2>1. QueueOf(s, d2) = s /\ QueueOf(m, d) = q
    BY <1>5 DEF QueueOf, q
  <2>2. Waits(s, k, t) <=> Waits(q, k, t)
    <3>1. s \in Seq(QueueItems)
      BY <1>4 DEF QueueOK
    <3>2. k.at \in Nat
      BY BoundsAssumption DEF Keys
    <3>3. CASE ~Listed(q, k)
      BY <1>2, <1>4, <3>1, <3>3, WaitsListed
    <3>4. CASE Listed(q, k)
      <4>1. PICK i \in DOMAIN q : q[i].key = k
        BY <3>4 DEF Listed
      <4>2. PICK j \in DOMAIN s : s[j].key = k
        BY <1>4, <3>4 DEF Listed
      <4>3. q[i].arriveAt = k.at + Travel[c] /\ s[j].arriveAt = k.at + Travel[c]
        BY <1>1, <1>4, <4>1, <4>2 DEF QueueOK
      <4>4. \A l \in DOMAIN q : q[l].key = k => q[l].arriveAt = k.at + Travel[c]
        BY <1>1 DEF QueueOK
      <4>5. \A l \in DOMAIN s : s[l].key = k => s[l].arriveAt = k.at + Travel[c]
        BY <1>4 DEF QueueOK
      <4> QED BY <4>1, <4>2, <4>3, <4>4, <4>5 DEF Waits, Fresh
    <3> QED BY <3>3, <3>4
  <2>3. InQueue(s, d2, k) => InQueue(m, d, k)
    BY <1>0, <1>3, <1>4, <1>5 DEF InQueue
  <2> QED BY <1>3, <1>4, <1>5, <2>1, <2>2, <2>3 DEF Follows, Stays
<1> QED BY <1>4, <1>5, <1>6, <1>7

\* The process dies: Redis has its copy, or nothing.
LEMMA CrashPair ==
    ASSUME NEW m, NEW d, NEW c, NEW r, NEW t \in Nat, CellOK(m, d, c, r, t),
           NEW d2 \in {None, d}
    PROVE  /\ CellOK(None, d2, c, r, t)
           /\ \A k \in Keys : Follows(m, d, None, d2, k, t)
<1>1. QueueOf(None, d2) = d2
  BY DEF QueueOf
<1>2. CellOK(None, d2, c, r, t)
  BY DEF CellOK
<1>3. ASSUME NEW k \in Keys PROVE Follows(m, d, None, d2, k, t)
  <2>1. CASE m # None
    <3>1. Agree(m, d, t) /\ QueueOf(m, d) = m
      BY <2>1 DEF CellOK, QueueOf
    <3>2. /\ Waits(m, k, t) <=> Waits(d, k, t)
          /\ Leads(m, k, t) <=> Leads(d, k, t)
      BY <3>1 DEF Agree
    <3> QED BY <1>1, <2>1, <3>1, <3>2 DEF Follows, InQueue
  <2>2. CASE m = None
    BY <1>1, <2>2 DEF Follows, InQueue, QueueOf
  <2> QED BY <2>1, <2>2
<1> QED BY <1>2, <1>3

\* loadAllCells puts an empty queue in both places.
LEMMA LoadPair ==
    ASSUME NEW m, NEW d, NEW c, NEW r, NEW t
    PROVE  /\ CellOK(<<>>, <<>>, c, r, t)
           /\ <<>> # None
           /\ \A k : Follows(m, d, <<>>, <<>>, k, t)
<1>0. <<>> \in Seq(QueueItems)
  OBVIOUS
<1>1. <<>> # None
  BY <1>0, QueueIsThere
<1>2. QueueOK(<<>>, c, r, t)
  BY DEF QueueOK
<1>3. QueueOf(<<>>, <<>>) = <<>>
  BY DEF QueueOf
<1>4. \A k : ~Waits(<<>>, k, t) /\ ~Listed(<<>>, k)
  BY DEF Waits, Listed
<1> QED BY <1>1, <1>2, <1>3, <1>4, AgreeSame DEF CellOK, Follows, InQueue

\* A queue that is left alone.
LEMMA SamePair ==
    ASSUME NEW m, NEW d, NEW k, NEW t
    PROVE  Follows(m, d, m, d, k, t) /\ Stays(m, d, m, d, k, t)
  BY DEF Follows, Stays

\* Rows lose no march of this second, and a second goes by.
LEMMA LaterPair ==
    ASSUME NEW m, NEW d, NEW c, NEW r, NEW t \in Nat, CellOK(m, d, c, r, t),
           NEW r2, NEW t2,
           \/ t2 = t + 1
           \/ /\ t2 = t
              /\ \A u \in Players : \A k \in DOMAIN r[u] : k.at = t => k \in DOMAIN r2[u]
    PROVE  CellOK(m, d, c, r2, t2)
<1>1. ASSUME NEW q, QueueOK(q, c, r, t) PROVE QueueOK(q, c, r2, t2)
  <2>1. q \in Seq(QueueItems)
    BY <1>1 DEF QueueOK
  <2>2. \A i \in DOMAIN q : q[i].key \in Keys
    <3>1. \A i \in DOMAIN q : q[i] \in QueueItems
      BY <2>1
    <3> QED BY <3>1 DEF QueueItems
  <2>3. \A k \in Keys : k.uid \in Players /\ k.at \in Nat
    BY BoundsAssumption DEF Keys
  <2>4. ASSUME NEW i \in DOMAIN q
        PROVE  LET k == q[i].key IN
               /\ q[i].arriveAt = k.at + Travel[c]
               /\ k.at <= t2
               /\ k.at = t2 => k \in DOMAIN r2[k.uid]
    <3> DEFINE k == q[i].key
    <3>1. k \in Keys /\ k.uid \in Players /\ k.at \in Nat
      BY <2>2, <2>3
    <3>2. q[i].arriveAt = k.at + Travel[c] /\ k.at <= t /\ (k.at = t => k \in DOMAIN r[k.uid])
      BY <1>1 DEF QueueOK
    <3> HIDE DEF k
    <3>3. k.at <= t2 /\ (k.at = t2 => k \in DOMAIN r2[k.uid])
      BY <3>1, <3>2
    <3> QED BY <3>2, <3>3 DEF k
  <2> QED BY <1>1, <2>4 DEF QueueOK
<1>2. \A p, q : Agree(p, q, t) => Agree(p, q, t2)
  BY DEF Agree
<1> QED BY <1>1, <1>2 DEF CellOK
-----------------------------------------------------------------------------
(* The steps and the queues *)

\* A march the row has after a step was there, is a new one, has begun to
\* gather, or is on its way back, saved by who holds the lock.
LEMMA RowCases ==
    ASSUME ~SameSecond, IInv, [Next]_vars, NEW u \in Players, NEW k \in DOMAIN attack'[u]
    PROVE  \/ k \in DOMAIN attack[u] /\ attack'[u][k] = attack[u][k]
           \/ /\ k \notin DOMAIN attack[u] /\ attack'[u][k].status = "returning"
              /\ \/ req[u].stage = "turn"
                 \/ stage \in {"handle", "turn"} /\ JobUid = u
           \/ \E c \in Cells, type \in Types, s \in Parties(home[u], fallen[u], attack[u], Loans[u]) :
                  /\ LaunchMarch(u, c, type, s)
                  /\ k = MarchKey(u, now) /\ k \notin DOMAIN attack[u]
                  /\ attack'[u][k] = NewMarch(c, type, s)
           \/ /\ ArriveGather /\ u = JobUid /\ k = JobKey
              /\ k \in DOMAIN attack[u] /\ attack[u][k].status = "going"
              /\ attack'[u][k] = GatheringMarch(attack[u][k])
<1>0. attack = [v \in Players |-> attack[v]] /\ LocksHeld
  BY DEF IInv, TypeOK, RowsTyped
<1>1. CASE attack' = attack
  BY <1>1
<1>2. ASSUME NEW v \in Players, NEW c \in Cells, NEW type \in Types, NEW s \in Parties(home[v], fallen[v], attack[v], Loans[v]),
             LaunchMarch(v, c, type, s)
      PROVE  \/ k \in DOMAIN attack[u] /\ attack'[u][k] = attack[u][k]
             \/ /\ u = v
                /\ k = MarchKey(u, now) /\ k \notin DOMAIN attack[u]
                /\ attack'[u][k] = NewMarch(c, type, s)
  <2> DEFINE l == MarchKey(v, now)
             m == NewMarch(c, type, s)
  <2>1. attack' = [attack EXCEPT ![v] = Put(@, l, m)] /\ l \notin DOMAIN attack[v]
    BY <1>2 DEF LaunchMarch
  <2> HIDE DEF l, m
  <2>2. CASE u = v
    <3>1. attack'[u] = Put(attack[u], l, m)
      BY <1>0, <2>1, <2>2
    <3> QED BY <2>1, <2>2, <3>1 DEF Put, l, m
  <2>3. CASE u # v
    BY <1>0, <2>1, <2>3
  <2> QED BY <2>2, <2>3
<1>3. ASSUME NEW v \in Players, NEW l \in DOMAIN attack[v],
             NEW lost \in SUBSET attack[v][l].troops, NEW carry \in {0, GatherAmount},
             TurnsBack(v, l, lost, carry)
      PROVE  \/ k \in DOMAIN attack[u] /\ attack'[u][k] = attack[u][k]
             \/ u = v /\ k \notin DOMAIN attack[u] /\ attack'[u][k].status = "returning"
  BY <1>3, TurnRow
<1>4. CASE ArriveTurnBack \/ GatherTurnBack
  <2>1. PICK lost \in SUBSET JobMarch.troops, carry \in {0, GatherAmount} :
            TurnsBack(JobUid, JobKey, lost, carry)
    BY <1>4, TurnEntry
  <2>2. JobUid \in Players /\ JobKey \in DOMAIN attack[JobUid] /\ JobMarch = attack[JobUid][JobKey]
    BY <1>4, TurnEntry DEF JobMarch
  <2>3. stage \in {"handle", "turn"}
    BY <1>4 DEF ArriveTurnBack, GatherTurnBack, Handling
  <2> QED BY <1>3, <2>1, <2>2, <2>3
<1>5. ASSUME NEW v \in Players, CancelTurnBack(v)
      PROVE  \/ k \in DOMAIN attack[u] /\ attack'[u][k] = attack[u][k]
             \/ /\ u = v /\ k \notin DOMAIN attack[u] /\ attack'[u][k].status = "returning"
                /\ req[u].stage = "turn"
  <2>1. /\ req[v].stage = "turn" /\ req[v].key \in DOMAIN attack[v]
        /\ TurnsBack(v, req[v].key, {}, GatherAmount)
    BY <1>0, <1>5 DEF LocksHeld, CancelTurnBack, TurnsBack
  <2> QED BY <1>3, <2>1
<1>6. CASE ArriveGather
  <2>1. /\ JobUid \in Players /\ JobKey \in DOMAIN attack[JobUid]
        /\ attack[JobUid][JobKey].status = "going" /\ JobMarch = attack[JobUid][JobKey]
        /\ StartsGathering(JobUid, JobKey)
    BY <1>6, GatherEntry DEF JobMarch
  <2>2. attack' = [attack EXCEPT ![JobUid][JobKey] = GatheringMarch(attack[JobUid][JobKey])]
    BY <2>1 DEF StartsGathering
  <2>3. attack[JobUid] = [l \in DOMAIN attack[JobUid] |-> attack[JobUid][l]]
    BY <2>1 DEF IInv, TypeOK, RowsTyped, Row
  <2> QED BY <1>0, <1>6, <2>1, <2>2, <2>3
<1>7. CASE ReturnHome
  <2>1. /\ Busy /\ JobKey \in DOMAIN attack[JobUid] /\ JobMarch.status = "returning"
        /\ SaveHome(JobUid, JobKey)
    BY <1>7 DEF ReturnHome, Handling, Busy
  <2>2. JobUid \in Players /\ ComesHome(JobUid, JobKey)
    BY <2>1, TaskInHand DEF ComesHome, JobMarch
  <2> QED BY <2>1, <2>2, HomeRow
<1>8. CASE Consume
  BY <1>1, <1>4, <1>6, <1>7, <1>8
  DEF Consume, Rebuild, RebuildFails, Readd, Fetch, SkipLocked, TakeTask, LoadFails, DropOrphan, ArriveWait,
      ArriveSaveFails, GatherComplete, TurnSaveFails, EnqueueNext, EnqueueFails, LeaveCell,
      FinishTask, row
<1>9. ASSUME NEW v \in Players, Request(v) \/ FinishRequest(v)
      PROVE  \/ attack' = attack
             \/ CancelTurnBack(v)
             \/ \E c \in Cells, type \in Types, s \in Parties(home[v], fallen[v], attack[v], Loans[v]) : LaunchMarch(v, c, type, s)
  BY <1>9 DEF Request, FinishRequest, CancelGather, LaunchRegister, RequestEnqueue,
              CancelSaveFails, RequestEnqueueFails, row
<1>10. CASE \E v \in Players : Request(v) \/ FinishRequest(v)
  BY <1>1, <1>2, <1>5, <1>9, <1>10
<1>11. CASE \/ \E v \in Players : LockExpires(v)
            \/ \E c \in Cells : LoadCell(c)
            \/ \E wiped \in BOOLEAN : Crash(wiped)
            \/ Tick
            \/ UNCHANGED vars
  BY <1>1, <1>11 DEF LockExpires, LoadCell, Crash, Tick, vars, row
<1> QED BY <1>8, <1>10, <1>11 DEF Next, System

\* A march launched in this second does not leave the row in it.
LEMMA NewStays ==
    ASSUME ~SameSecond, IInv, RowStep, NEW u \in Players, NEW k \in DOMAIN attack[u], k.at = now
    PROVE  k \in DOMAIN attack'[u]
<1>0. KeyPast(attack[u], k, now) /\ k.at \in Nat
  BY BoundsAssumption DEF IInv, TypeOK, RowsTyped, Row, KeysPast, CountersTyped
<1>1. CASE UNCHANGED <<home, attack, fallen>>
  BY <1>1
<1>2. ASSUME NEW v \in Players, NEW l \in Keys, NEW m \in Marches, Departs(v, l, m)
      PROVE  k \in DOMAIN attack'[u]
  BY <1>2, DepartRow
<1>3. ASSUME NEW v \in Players, NEW l \in DOMAIN attack[v], StartsGathering(v, l)
      PROVE  k \in DOMAIN attack'[u]
  BY <1>3, GatherRow
<1>4. attack[u][k].arrive \in Nat /\ (k.leg = "return" <=> attack[u][k].status = "returning")
  BY DEF IInv, TypeOK, RowsTyped, Row, Marches
<1>5. ASSUME NEW v \in Players, NEW l \in DOMAIN attack[v],
             NEW lost \in SUBSET attack[v][l].troops, NEW carry \in {0, GatherAmount},
             TurnsBack(v, l, lost, carry)
      PROVE  k \in DOMAIN attack'[u]
  <2>1. ~(u = v /\ k = l)
    BY <1>0, <1>4, <1>5 DEF TurnsBack, KeyPast
  <2> QED BY <1>5, <2>1, TurnRow
<1>6. ASSUME NEW v \in Players, NEW l \in DOMAIN attack[v], ComesHome(v, l)
      PROVE  k \in DOMAIN attack'[u]
  <2>1. ~(u = v /\ k = l)
    BY <1>0, <1>4, <1>6 DEF ComesHome, KeyPast
  <2> QED BY <1>6, <2>1, HomeRow
<1> QED BY <1>1, <1>2, <1>3, <1>5, <1>6 DEF RowStep

\* A step on the cells' queues: who is not one of ks keeps his place.
CellsMove(ks) ==
    \A c \in Cells :
        /\ CellOK(cellMem'[c], cellCache'[c], c, attack, now)
        /\ cellMem[c] # None => cellMem'[c] # None
        /\ \A k \in Keys \ ks :
               /\ Follows(cellMem[c], cellCache[c], cellMem'[c], cellCache'[c], k, now)
               /\ Stays(cellMem[c], cellCache[c], cellMem'[c], cellCache'[c], k, now)

\* The queues as functions on the cells.
LEMMA CellsTyped ==
    ASSUME IInv
    PROVE  /\ cellMem = [c \in Cells |-> cellMem[c]]
           /\ cellCache = [c \in Cells |-> cellCache[c]]
           /\ now \in Nat
           /\ \A c \in Cells : CellQueue(c) = QueueOf(cellMem[c], cellCache[c])
  BY DEF IInv, TypeOK, RedisTyped, ProcessTyped, CountersTyped, CellQueue, QueueOf

\* A step that leaves the cells alone.
LEMMA CellsSame ==
    ASSUME CellsOK, UNCHANGED <<cellMem, cellCache>>
    PROVE  CellsMove({})
  BY SamePair DEF CellsOK, CellsMove

\* OnMarchArrive: the purge.
LEMMA ArriveMoves ==
    ASSUME IInv, CellsOK, NEW x \in Cells, OnMarchArrive(x)
    PROVE  CellsMove({})
<1> DEFINE p == Purge(CellQueue(x), now, StaleAfter)
<1>1. /\ cellMem' = [cellMem EXCEPT ![x] = IF CellQueue(x) = None THEN None ELSE p]
      /\ cellCache' = cellCache
      /\ now \in Nat
      /\ CellQueue(x) = QueueOf(cellMem[x], cellCache[x])
  BY CellsTyped DEF OnMarchArrive
<1> SUFFICES ASSUME NEW c \in Cells
             PROVE  /\ CellOK(cellMem'[c], cellCache'[c], c, attack, now)
                    /\ cellMem[c] # None => cellMem'[c] # None
                    /\ \A k \in Keys :
                           /\ Follows(cellMem[c], cellCache[c], cellMem'[c], cellCache'[c], k, now)
                           /\ Stays(cellMem[c], cellCache[c], cellMem'[c], cellCache'[c], k, now)
  BY DEF CellsMove
<1>2. CellOK(cellMem[c], cellCache[c], c, attack, now)
  BY DEF CellsOK
<1>3. CASE c # x \/ CellQueue(x) = None
  <2>1. cellMem'[c] = cellMem[c] /\ cellCache'[c] = cellCache[c]
    BY <1>1, <1>3, CellsTyped DEF QueueOf
  <2> QED BY <1>2, <2>1, SamePair
<1>4. CASE c = x /\ CellQueue(x) # None
  <2>1. cellMem'[c] = p /\ cellCache'[c] = cellCache[c]
    BY <1>1, <1>4, CellsTyped
  <2> QED BY <1>1, <1>2, <1>4, <2>1, ArrivePair
<1> QED BY <1>3, <1>4

\* RegisterMarch of a march that is in no queue.
LEMMA RegisterMoves ==
    ASSUME IInv, CellsOK, NEW x \in Cells, NEW item \in QueueItems, RegisterMarch(x, item),
           CellQueue(x) # None,
           \A c \in Cells : ~InQueue(cellMem[c], cellCache[c], item.key),
           item.arriveAt = item.key.at + Travel[x], item.key.at <= now,
           item.key.at = now => item.key \in DOMAIN attack[item.key.uid]
    PROVE  CellsMove({item.key})
<1> DEFINE e == Enrol(CellQueue(x), item)
<1>1. /\ cellMem' = [cellMem EXCEPT ![x] = e]
      /\ cellCache' = [cellCache EXCEPT ![x] = e]
      /\ now \in Nat
      /\ CellQueue(x) = QueueOf(cellMem[x], cellCache[x])
  BY CellsTyped DEF RegisterMarch
<1> SUFFICES ASSUME NEW c \in Cells
             PROVE  /\ CellOK(cellMem'[c], cellCache'[c], c, attack, now)
                    /\ cellMem[c] # None => cellMem'[c] # None
                    /\ \A k \in Keys \ {item.key} :
                           /\ Follows(cellMem[c], cellCache[c], cellMem'[c], cellCache'[c], k, now)
                           /\ Stays(cellMem[c], cellCache[c], cellMem'[c], cellCache'[c], k, now)
  BY DEF CellsMove
<1>2. CellOK(cellMem[c], cellCache[c], c, attack, now)
  BY DEF CellsOK
<1>3. CASE c # x
  <2>1. cellMem'[c] = cellMem[c] /\ cellCache'[c] = cellCache[c]
    BY <1>1, <1>3, CellsTyped
  <2> QED BY <1>2, <2>1, SamePair
<1>4. CASE c = x
  <2>1. cellMem'[c] = e /\ cellCache'[c] = e
    BY <1>1, <1>4, CellsTyped
  <2>2. ~InQueue(cellMem[c], cellCache[c], item.key)
    OBVIOUS
  <2> QED BY <1>1, <1>2, <1>4, <2>1, <2>2, EnrolPair
<1> QED BY <1>3, <1>4

\* RemoveMarch: the march is in the cell's queue no more.
LEMMA RemoveMoves ==
    ASSUME IInv, CellsOK, NEW x, NEW h, RemoveMarch(x, h)
    PROVE  /\ CellsMove({h})
           /\ x \in Cells =>
                  \/ QueueOf(cellMem'[x], cellCache'[x]) = None
                  \/ ~Listed(QueueOf(cellMem'[x], cellCache'[x]), h)
<1> DEFINE q == CellQueue(x)
<1>1. /\ cellMem' = [cellMem EXCEPT ![x] = IF q = None THEN q ELSE Strike(q, h)]
      /\ cellCache' = [cellCache EXCEPT ![x] = IF q = None THEN @
                                               ELSE IF Listed(q, h) THEN Strike(q, h) ELSE @]
      /\ now \in Nat
      /\ x \in Cells => q = QueueOf(cellMem[x], cellCache[x])
  BY CellsTyped DEF RemoveMarch
<1> HIDE DEF q
<1>2. ASSUME NEW c \in Cells
      PROVE  /\ CellOK(cellMem'[c], cellCache'[c], c, attack, now)
             /\ cellMem[c] # None => cellMem'[c] # None
             /\ \A k \in Keys \ {h} :
                    /\ Follows(cellMem[c], cellCache[c], cellMem'[c], cellCache'[c], k, now)
                    /\ Stays(cellMem[c], cellCache[c], cellMem'[c], cellCache'[c], k, now)
             /\ c = x => \/ QueueOf(cellMem'[c], cellCache'[c]) = None
                         \/ ~Listed(QueueOf(cellMem'[c], cellCache'[c]), h)
  <2>1. CellOK(cellMem[c], cellCache[c], c, attack, now)
    BY DEF CellsOK
  <2>2. CASE c # x \/ q = None
    <3>1. cellMem'[c] = cellMem[c] /\ cellCache'[c] = cellCache[c]
      BY <1>1, <2>2, CellsTyped DEF QueueOf
    <3> QED BY <1>1, <2>1, <2>2, <3>1, SamePair
  <2>3. CASE c = x /\ q # None
    <3>1. /\ q = QueueOf(cellMem[c], cellCache[c])
          /\ cellMem'[c] = Strike(q, h)
          /\ cellCache'[c] = IF Listed(q, h) THEN Strike(q, h) ELSE cellCache[c]
      BY <1>1, <2>3, CellsTyped
    <3>2. /\ CellOK(cellMem'[c], cellCache'[c], c, attack, now)
          /\ cellMem'[c] # None
          /\ ~Listed(cellMem'[c], h)
          /\ \A k \in Keys \ {h} :
                 /\ Follows(cellMem[c], cellCache[c], cellMem'[c], cellCache'[c], k, now)
                 /\ Stays(cellMem[c], cellCache[c], cellMem'[c], cellCache'[c], k, now)
      BY <1>1, <2>1, <2>3, <3>1, StrikePair
    <3> QED BY <3>2 DEF QueueOf
  <2> QED BY <2>2, <2>3
<1> QED BY <1>2 DEF CellsMove

\* After any such step, in the row as it is now, the cells' queues are right.
LEMMA MovedCellsOK ==
    ASSUME ~SameSecond, IInv, [Next]_vars, now' = now, NEW ks, CellsMove(ks)
    PROVE  CellsOK'
<1>1. now \in Nat
  BY CellsTyped
<1>2. \A u \in Players : \A k \in DOMAIN attack[u] : k.at = now => k \in DOMAIN attack'[u]
  BY EveryRowStep, NewStays
<1>3. ASSUME NEW c \in Cells
      PROVE  CellOK(cellMem'[c], cellCache'[c], c, attack', now')
  <2>1. CellOK(cellMem'[c], cellCache'[c], c, attack, now)
    BY DEF CellsMove
  <2> QED BY <1>1, <1>2, <2>1, LaterPair
<1> QED BY <1>3 DEF CellsOK
-----------------------------------------------------------------------------
(* Who gathers holds his cell *)

\* A step in which the process lives on and the clock stands still.
Calm ==
    \/ Consume
    \/ \E u \in Players : Request(u) \/ FinishRequest(u) \/ LockExpires(u)
    \/ UNCHANGED vars

\* LaunchMarch's registration.
LEMMA RegisterCells ==
    ASSUME IInv, CellInv, NEW u \in Players, LaunchRegister(u)
    PROVE  CellsMove({req[u].key})
<1> DEFINE k == req[u].key
           m == attack[u][k]
<1>1. /\ k \in DOMAIN attack[u] /\ k \in Keys /\ k.uid = u
      /\ m \in Marches /\ m.status = "going"
      /\ KeyPast(attack[u], k, now)
      /\ req[u].stage = "register"
  BY DEF LaunchRegister, IInv, LocksHeld, KeysPast, TypeOK, RowsTyped, Row, CellInv, Registering
<1>2. RegisterMarch(m.cell, Item(k, m.arrive))
  BY DEF LaunchRegister
<1>3. m.cell \in Cells /\ m.arrive \in Nat /\ m.arrive = k.at + Travel[m.cell] /\ k.at <= now
  BY <1>1 DEF Marches, CellInv, GoingArrives, KeyPast
<1>4. CellQueue(m.cell) # None
  BY <1>1, <1>3 DEF CellInv, CellsLoaded, CellQueue
<1>5. \A c \in Cells : ~InQueue(cellMem[c], cellCache[c], k)
  BY <1>1 DEF CellInv, Registering
<1> HIDE DEF k, m
<1>6. /\ Item(k, m.arrive) \in QueueItems
      /\ Item(k, m.arrive).key = k /\ Item(k, m.arrive).arriveAt = m.arrive
  BY <1>1, <1>3 DEF Item, QueueItems
<1>7. CellsMove({Item(k, m.arrive).key})
  <2> DEFINE i == Item(k, m.arrive)
  <2> HIDE DEF i
  <2>1. /\ i \in QueueItems /\ RegisterMarch(m.cell, i)
        /\ \A c \in Cells : ~InQueue(cellMem[c], cellCache[c], i.key)
        /\ i.arriveAt = i.key.at + Travel[m.cell] /\ i.key.at <= now
        /\ i.key \in DOMAIN attack[i.key.uid]
    BY <1>1, <1>2, <1>3, <1>5, <1>6 DEF i
  <2>2. CellsMove({i.key})
    BY <1>3, <1>4, <2>1, RegisterMoves DEF CellInv
  <2> QED BY <2>2 DEF i
<1> QED BY <1>6, <1>7 DEF k

\* What the steps of a living process do to the queues, and for whom.
LEMMA CalmMoves ==
    ASSUME IInv, CellInv, Calm
    PROVE  /\ UNCHANGED <<now, crashes, loaded>>
           /\ \/ CellsMove({})
              \/ \E u \in Players : LaunchRegister(u) /\ CellsMove({req[u].key})
              \/ \E u \in Players : \E k \in DOMAIN attack[u] :
                     /\ CancelGather(u, k)
                     /\ RemoveMarch(attack[u][k].cell, k) /\ CellsMove({k})
              \/ /\ GatherComplete
                 /\ RemoveMarch(JobMarch.cell, JobKey) /\ CellsMove({JobKey})
              \/ LeaveCell /\ CellsMove({JobKey})
<1>0. CellsOK
  BY DEF CellInv
<1>1. CASE UNCHANGED <<now, crashes, loaded, cellMem, cellCache>>
  BY <1>0, <1>1, CellsSame
<1>2. ASSUME NEW u \in Players, LaunchRegister(u)
      PROVE  UNCHANGED <<now, crashes, loaded>> /\ CellsMove({req[u].key})
  BY <1>2, RegisterCells DEF LaunchRegister, faults
<1>3. ASSUME NEW u \in Players, NEW k \in DOMAIN attack[u], CancelGather(u, k)
      PROVE  /\ UNCHANGED <<now, crashes, loaded>>
             /\ RemoveMarch(attack[u][k].cell, k) /\ CellsMove({k})
  BY <1>0, <1>3, RemoveMoves DEF CancelGather, faults
<1>4. CASE GatherComplete
  BY <1>0, <1>4, RemoveMoves DEF GatherComplete, faults
<1>5. CASE LeaveCell
  BY <1>0, <1>5, RemoveMoves DEF LeaveCell, faults
<1>6. CASE ArriveWait \/ ArriveTurnBack \/ ArriveGather \/ ArriveSaveFails
  <2>1. /\ UNCHANGED <<now, crashes, loaded>>
        /\ OnMarchArrive(JobMarch.cell)
        /\ Busy /\ JobKey \in DOMAIN attack[JobUid]
    BY <1>6 DEF ArriveWait, ArriveTurnBack, ArriveGather, ArriveSaveFails, Handling, Busy, faults
  <2>2. JobMarch.cell \in Cells
    BY <2>1, TaskInHand DEF Marches
  <2> QED BY <1>0, <2>1, <2>2, ArriveMoves
<1>7. CASE Consume
  <2>1. CASE \/ Rebuild \/ RebuildFails \/ Fetch \/ SkipLocked \/ TakeTask \/ LoadFails \/ DropOrphan
             \/ GatherTurnBack \/ ReturnHome \/ TurnSaveFails \/ EnqueueNext \/ EnqueueFails \/ FinishTask
    <3>1. UNCHANGED <<now, crashes, loaded, cellMem, cellCache>>
      BY <2>1 DEF Rebuild, RebuildFails, Readd, Fetch, SkipLocked, TakeTask, LoadFails, DropOrphan, GatherTurnBack,
                  ReturnHome, TurnSaveFails, EnqueueNext, EnqueueFails, FinishTask, cells, redis, faults
    <3> QED BY <1>1, <3>1
  <2> QED BY <1>4, <1>5, <1>6, <1>7, <2>1 DEF Consume
<1>8. CASE \E u \in Players : Request(u) \/ FinishRequest(u) \/ LockExpires(u)
  <2>1. PICK u \in Players : Request(u) \/ FinishRequest(u) \/ LockExpires(u)
    BY <1>8
  <2>2. CASE \/ \E c \in Cells, type \in Types, s \in Parties(home[u], fallen[u], attack[u], Loans[u]) : LaunchMarch(u, c, type, s)
             \/ RequestEnqueue(u) \/ CancelTurnBack(u) \/ CancelSaveFails(u) \/ RequestEnqueueFails(u) \/ LockExpires(u)
    <3>1. UNCHANGED <<now, crashes, loaded, cellMem, cellCache>>
      BY <2>2 DEF LaunchMarch, RequestEnqueue, CancelTurnBack, CancelSaveFails, RequestEnqueueFails, LockExpires,
                  cells, faults
    <3> QED BY <1>1, <3>1
  <2> QED BY <1>2, <1>3, <2>1, <2>2 DEF Request, FinishRequest
<1>9. CASE UNCHANGED vars
  <2>1. UNCHANGED <<now, crashes, loaded, cellMem, cellCache>>
    BY <1>9 DEF vars, cells, faults
  <2> QED BY <1>1, <2>1
<1> QED BY <1>7, <1>8, <1>9 DEF Calm

\* Who is turned back goes on being turned back until he is gone or a save
\* fails; a request or the consumer begins it as it takes him off the cell.
LEMMA TurningKept ==
    ASSUME IInv, Calm, failures' = failures,
           NEW u \in Players, NEW k \in DOMAIN attack'[u], k \in DOMAIN attack[u]
    PROVE  /\ TurningBack(u, k) => TurningBack(u, k)'
           /\ TurningBack(u, k)' =>
                  TurningBack(u, k) \/ CancelGather(u, k) \/ (GatherComplete /\ JobKey = k)
<1>0. /\ k.uid = u /\ k \in Keys /\ failures \in Nat /\ failures # failures + 1
      /\ LocksHeld
      /\ req = [v \in Players |-> req[v]]
      /\ job = [entry |-> job.entry, add |-> job.add]
      /\ req[u] = [stage |-> req[u].stage, key |-> req[u].key]
  BY BoundsAssumption DEF IInv, TypeOK, RowsTyped, Row, CountersTyped, ProcessTyped
<1>1. CASE UNCHANGED <<req, stage, job>>
  BY <1>1 DEF TurningBack, JobKey
<1>2. CASE Consume
  <2>1. req' = req
    BY <1>2 DEF Consume, Rebuild, RebuildFails, Readd, Fetch, SkipLocked, TakeTask, LoadFails, DropOrphan, ArriveWait,
                ArriveTurnBack, ArriveGather, ArriveSaveFails, GatherComplete, GatherTurnBack,
                ReturnHome, TurnSaveFails, EnqueueNext, EnqueueFails, LeaveCell, FinishTask, faults
  <2>2. CASE GatherComplete
    BY <2>1, <2>2 DEF GatherComplete, Handling, TurningBack, JobKey
  <2>3. CASE GatherTurnBack
    <3>1. PICK lost \in SUBSET JobMarch.troops, carry \in {0, GatherAmount} :
              TurnsBack(JobUid, JobKey, lost, carry)
      BY <2>3, TurnEntry
    <3>2. /\ JobUid \in Players /\ JobKey \in DOMAIN attack[JobUid]
          /\ JobMarch = attack[JobUid][JobKey]
          /\ JobKey # ReturnKey(JobKey)
      BY <2>3, TurnEntry DEF JobMarch
    <3>3. JobKey \notin DOMAIN attack'[JobUid]
      BY <3>1, <3>2, TurnRow
    <3>4. JobKey # k
      BY <1>0, <3>3 DEF JobUid
    <3> QED BY <2>1, <2>3, <3>4 DEF GatherTurnBack, TurningBack, JobKey
  <2>4. CASE \/ Rebuild \/ Fetch \/ SkipLocked \/ TakeTask \/ DropOrphan \/ ArriveWait
             \/ ArriveTurnBack \/ ArriveGather \/ ReturnHome \/ EnqueueNext \/ LeaveCell
             \/ FinishTask
    <3>1. stage # "turn" /\ stage' # "turn"
      BY <2>4 DEF Rebuild, RebuildFails, Readd, Fetch, SkipLocked, TakeTask, DropOrphan, ArriveWait,
                  ArriveTurnBack, ArriveGather, ReturnHome, EnqueueNext, EnqueueFails, LeaveCell,
                  FinishTask, Handling
    <3> QED BY <2>1, <3>1 DEF TurningBack
  <2>5. ~(LoadFails \/ ArriveSaveFails \/ TurnSaveFails \/ RebuildFails \/ EnqueueFails)
    BY <1>0 DEF LoadFails, ArriveSaveFails, TurnSaveFails, RebuildFails, EnqueueFails
  <2> QED BY <1>2, <2>2, <2>3, <2>4, <2>5 DEF Consume
<1>3. ASSUME NEW v \in Players, Request(v) \/ FinishRequest(v)
      PROVE  /\ TurningBack(u, k) => TurningBack(u, k)'
             /\ TurningBack(u, k)' => TurningBack(u, k) \/ CancelGather(u, k)
  <2>1. /\ UNCHANGED <<stage, job>>
        /\ \A w \in Players \ {v} : req'[w] = req[w]
    BY <1>0, <1>3 DEF Request, FinishRequest, LaunchMarch, CancelGather, LaunchRegister,
                      RequestEnqueue, CancelTurnBack, CancelSaveFails, RequestEnqueueFails, consumer
  <2>2. CASE v # u
    BY <2>1, <2>2 DEF TurningBack, JobKey
  <2>3. CASE v = u
    <3>1. ASSUME NEW c \in Cells, NEW type \in Types, NEW s \in Parties(home[u], fallen[u], attack[u], Loans[u]),
                 LaunchMarch(u, c, type, s)
          PROVE  req[u].stage = "idle" /\ req'[u].stage = "register"
      BY <1>0, <3>1 DEF LaunchMarch, LocksHeld
    <3>2. ASSUME NEW h \in DOMAIN attack[u], CancelGather(u, h)
          PROVE  req[u].stage = "idle" /\ req'[u] = [stage |-> "turn", key |-> h]
      BY <1>0, <3>2 DEF CancelGather, LocksHeld
    <3>3. CASE LaunchRegister(u) \/ RequestEnqueue(u)
      BY <1>0, <2>1, <3>3 DEF LaunchRegister, RequestEnqueue, TurningBack, JobKey, Idle
    <3>4. CASE CancelTurnBack(u)
      <4>1. /\ req[u].stage = "turn" /\ req[u].key \in DOMAIN attack[u]
            /\ TurnsBack(u, req[u].key, {}, GatherAmount)
            /\ req'[u].stage = "enqueue"
        BY <1>0, <3>4 DEF LocksHeld, CancelTurnBack, TurnsBack
      <4>2. req[u].key \notin DOMAIN attack'[u]
        BY <4>1, TurnRow
      <4> QED BY <2>1, <4>1, <4>2 DEF TurningBack, JobKey
    <3>5. ~(CancelSaveFails(u) \/ RequestEnqueueFails(u))
      BY <1>0 DEF CancelSaveFails, RequestEnqueueFails
    <3>6. CASE \E c \in Cells, type \in Types, s \in Parties(home[u], fallen[u], attack[u], Loans[u]) : LaunchMarch(u, c, type, s)
      BY <2>1, <3>1, <3>6 DEF TurningBack, JobKey
    <3>7. CASE \E h \in DOMAIN attack[u] : CancelGather(u, h)
      <4>1. PICK h \in DOMAIN attack[u] : CancelGather(u, h)
        BY <3>7
      <4>2. req[u].stage = "idle" /\ req'[u] = [stage |-> "turn", key |-> h]
        BY <3>2, <4>1
      <4>3. ~(TurningBack(u, k) /\ ~TurningBack(u, k)')
        BY <2>1, <4>2 DEF TurningBack, JobKey
      <4>4. CASE h = k
        <5>1. CancelGather(u, k)
          BY <4>1, <4>4
        <5> QED BY <4>3, <5>1
      <4>5. CASE h # k
        <5>1. TurningBack(u, k)' => TurningBack(u, k)
          BY <2>1, <4>2, <4>5 DEF TurningBack, JobKey
        <5> QED BY <4>3, <5>1
      <4> QED BY <4>4, <4>5
    <3>8. \/ LaunchRegister(u) \/ RequestEnqueue(u) \/ CancelTurnBack(u) \/ CancelSaveFails(u) \/ RequestEnqueueFails(u)
          \/ \E c \in Cells, type \in Types, s \in Parties(home[u], fallen[u], attack[u], Loans[u]) : LaunchMarch(u, c, type, s)
          \/ \E h \in DOMAIN attack[u] : CancelGather(u, h)
      BY <1>3, <2>3 DEF Request, FinishRequest
    <3> QED BY <2>3, <3>3, <3>4, <3>5, <3>6, <3>7, <3>8
  <2> QED BY <2>2, <2>3
<1>4. CASE (\E v \in Players : LockExpires(v)) \/ UNCHANGED vars
  BY <1>1, <1>4 DEF LockExpires, vars, consumer
<1> QED BY <1>2, <1>3, <1>4 DEF Calm

\* Launches are on their way as they were launched, whatever the step.
LEMMA GoingKept ==
    ASSUME ~SameSecond, IInv, GoingArrives, [Next]_vars
    PROVE  GoingArrives'
<1> SUFFICES ASSUME NEW u \in Players, NEW k \in DOMAIN attack'[u],
                    attack'[u][k].status = "going"
             PROVE  attack'[u][k].arrive = k.at + Travel[attack'[u][k].cell]
  BY DEF GoingArrives
<1>1. CASE k \in DOMAIN attack[u] /\ attack'[u][k] = attack[u][k]
  BY <1>1 DEF GoingArrives
<1>2. ASSUME NEW c \in Cells, NEW type \in Types, NEW s \in Parties(home[u], fallen[u], attack[u], Loans[u]),
             k = MarchKey(u, now), attack'[u][k] = NewMarch(c, type, s)
      PROVE  attack'[u][k].arrive = k.at + Travel[attack'[u][k].cell]
  BY <1>2 DEF NewMarch, MarchKey
<1>3. ~(/\ k \in DOMAIN attack[u] /\ attack'[u][k] = GatheringMarch(attack[u][k]))
  <2>1. k \in DOMAIN attack[u] => GatheringMarch(attack[u][k]).status = "gathering"
    BY DEF IInv, TypeOK, RowsTyped, Row, Marches, GatheringMarch
  <2> QED BY <2>1
<1> QED BY <1>1, <1>2, <1>3, RowCases

\* The cells that are loaded stay so, and requests are served when all are.
LEMMA LoadedKept ==
    ASSUME IInv, CellInv, Calm
    PROVE  CellsLoaded'
<1>1. /\ UNCHANGED <<crashes, loaded>> /\ loaded \in SUBSET Cells
      /\ \A c \in Cells : cellMem[c] # None => cellMem'[c] # None
  BY CalmMoves DEF CellsMove, IInv, TypeOK, ProcessTyped
<1>2. ASSUME NEW u \in Players, req'[u].stage # "idle" PROVE loaded = Cells
  <2>0. req = [v \in Players |-> req[v]]
    BY DEF IInv, TypeOK, ProcessTyped
  <2>1. CASE req[u].stage # "idle"
    BY <2>1 DEF CellInv, CellsLoaded
  <2>2. CASE req' # req /\ req[u].stage = "idle"
    <3>1. PICK v \in Players : Request(v) \/ FinishRequest(v)
      BY <2>2
      DEF Calm, Consume, Rebuild, RebuildFails, Readd, Fetch, SkipLocked, TakeTask, LoadFails, DropOrphan, ArriveWait,
          ArriveTurnBack, ArriveGather, ArriveSaveFails, GatherComplete, GatherTurnBack,
          ReturnHome, TurnSaveFails, EnqueueNext, EnqueueFails, LeaveCell, FinishTask, LockExpires, vars
    <3>2. CASE Request(v)
      BY <3>2 DEF Request, LaunchMarch, CancelGather, Serving
    <3>3. CASE FinishRequest(v)
      <4>1. req[v].stage # "idle"
        BY <3>3 DEF FinishRequest, LaunchRegister, RequestEnqueue, CancelTurnBack, CancelSaveFails, RequestEnqueueFails
      <4> QED BY <4>1 DEF CellInv, CellsLoaded
    <3> QED BY <3>1, <3>2, <3>3
  <2> QED BY <1>2, <2>1, <2>2
<1> QED BY <1>1, <1>2 DEF CellInv, CellsLoaded

\* A march to be registered is in no queue: another's place in a queue is
\* none of it, and a launch finds no queue with a march of this second.
LEMMA RegisteringKept ==
    ASSUME ~SameSecond, IInv, IInv', CellInv, [Next]_vars, Calm
    PROVE  Registering'
<1> SUFFICES ASSUME NEW u \in Players, req'[u].stage = "register"
             PROVE  /\ attack'[u][req'[u].key].status = "going"
                    /\ \A c \in Cells : ~InQueue(cellMem'[c], cellCache'[c], req'[u].key)
  BY DEF Registering
<1>0. /\ LocksHeld /\ LocksHeld' /\ req = [v \in Players |-> req[v]] /\ CellsOK
      /\ \A v \in Players : Row(v, attack[v]) /\ Row(v, attack'[v])
      /\ \A v \in Players : req[v] = [stage |-> req[v].stage, key |-> req[v].key]
  BY DEF IInv, TypeOK, RowsTyped, ProcessTyped, CellInv
<1>1. CASE req[u].stage = "register" /\ req'[u] = req[u]
  <2> DEFINE k == req[u].key
  <2>1. /\ k \in DOMAIN attack[u] /\ k \in DOMAIN attack'[u] /\ k \in Keys /\ k.uid = u
        /\ attack[u][k].status = "going" /\ lock[u] = "request" /\ k.leg # "return"
    BY <1>0, <1>1 DEF LocksHeld, Row, CellInv, Registering
  <2>2. attack'[u][k].status # "returning"
    BY <1>0, <2>1 DEF Row
  <2>3. attack'[u][k].status = "going"
    <3>1. ~(ArriveGather /\ u = JobUid)
      BY <1>0, <2>1 DEF ArriveGather, Handling, LocksHeld, Busy
    <3>2. k \in DOMAIN attack[u] /\ attack'[u][k] = attack[u][k]
      BY <2>1, <2>2, <3>1, RowCases
    <3> QED BY <2>1, <3>2
  <2>4. ASSUME NEW c \in Cells PROVE ~InQueue(cellMem'[c], cellCache'[c], k)
    <3>1. ~InQueue(cellMem[c], cellCache[c], k)
      BY <1>1 DEF CellInv, Registering
    <3>2. ASSUME NEW ks, CellsMove(ks), k \notin ks
          PROVE  ~InQueue(cellMem'[c], cellCache'[c], k)
      BY <2>1, <3>1, <3>2 DEF CellsMove, Follows
    <3>3. ASSUME NEW v \in Players, LaunchRegister(v), CellsMove({req[v].key})
          PROVE  k \notin {req[v].key}
      <4>1. v # u
        BY <1>0, <1>1, <3>3 DEF LaunchRegister
      <4>2. req[v].key.uid = v
        BY <1>0, <3>3 DEF LaunchRegister, LocksHeld, Row
      <4> QED BY <2>1, <4>1, <4>2
    <3>4. ASSUME NEW v \in Players, NEW h \in DOMAIN attack[v], CancelGather(v, h)
          PROVE  k \notin {h}
      <4>1. v # u
        BY <2>1, <3>4 DEF CancelGather
      <4>2. h.uid = v
        BY <1>0 DEF Row
      <4> QED BY <2>1, <4>1, <4>2
    <3>5. ASSUME GatherComplete \/ LeaveCell PROVE k \notin {JobKey}
      <4>1. lock[JobUid] = "consumer"
        BY <1>0, <3>5 DEF GatherComplete, LeaveCell, Handling, LocksHeld, Busy
      <4> QED BY <2>1, <4>1 DEF JobUid
    <3>6. CASE CellsMove({})
      BY <3>2, <3>6
    <3>7. CASE \E v \in Players : LaunchRegister(v) /\ CellsMove({req[v].key})
      BY <3>2, <3>3, <3>7
    <3>8. CASE \E v \in Players : \E h \in DOMAIN attack[v] : CancelGather(v, h) /\ CellsMove({h})
      BY <3>2, <3>4, <3>8
    <3>9. CASE (GatherComplete \/ LeaveCell) /\ CellsMove({JobKey})
      BY <3>2, <3>5, <3>9
    <3> QED BY <3>6, <3>7, <3>8, <3>9, CalmMoves
  <2> QED BY <1>1, <2>3, <2>4
<1>2. ASSUME NEW c \in Cells, NEW type \in Types, NEW s \in Parties(home[u], fallen[u], attack[u], Loans[u]),
             LaunchMarch(u, c, type, s)
      PROVE  /\ attack'[u][req'[u].key].status = "going"
             /\ \A x \in Cells : ~InQueue(cellMem'[x], cellCache'[x], req'[u].key)
  <2> DEFINE k == MarchKey(u, now)
             m == NewMarch(c, type, s)
  <2>1. /\ k \notin DOMAIN attack[u] /\ k.at = now /\ k.uid = u /\ m.status = "going"
        /\ req' = [req EXCEPT ![u] = [stage |-> "register", key |-> k]]
        /\ attack' = [attack EXCEPT ![u] = Put(@, k, m)]
        /\ UNCHANGED <<cellMem, cellCache>>
    BY <1>2 DEF LaunchMarch, cells, MarchKey, NewMarch
  <2> HIDE DEF k, m
  <2>2. req'[u].key = k /\ attack'[u][k] = m
    BY <1>0, <2>1 DEF Put, IInv, TypeOK, RowsTyped
  <2>3. ASSUME NEW x \in Cells PROVE ~InQueue(cellMem[x], cellCache[x], k)
    <3>1. CellOK(cellMem[x], cellCache[x], x, attack, now)
      BY <1>0 DEF CellsOK
    <3>2. \A q : QueueOK(q, x, attack, now) => ~Listed(q, k)
      BY <2>1 DEF QueueOK, Listed
    <3> QED BY <3>1, <3>2 DEF CellOK, InQueue
  <2> QED BY <2>1, <2>2, <2>3
<1>3. \/ req'[u] = req[u]
      \/ \E c \in Cells, type \in Types, s \in Parties(home[u], fallen[u], attack[u], Loans[u]) : LaunchMarch(u, c, type, s)
  <2>1. CASE \E v \in Players : Request(v) \/ FinishRequest(v)
    <3>1. PICK v \in Players : Request(v) \/ FinishRequest(v)
      BY <2>1
    <3>2. CASE v # u
      BY <1>0, <3>1, <3>2 DEF Request, FinishRequest, LaunchMarch, CancelGather, LaunchRegister,
                              RequestEnqueue, CancelTurnBack, CancelSaveFails, RequestEnqueueFails
    <3>3. CASE v = u
      <4>1. ~(\E h \in DOMAIN attack[u] : CancelGather(u, h))
        BY <1>0 DEF CancelGather
      <4>2. ~FinishRequest(u)
        BY <1>0 DEF FinishRequest, LaunchRegister, RequestEnqueue, CancelTurnBack,
                    CancelSaveFails, RequestEnqueueFails, Idle
      <4> QED BY <3>1, <3>3, <4>1, <4>2 DEF Request
    <3> QED BY <3>2, <3>3
  <2>2. CASE Consume \/ (\E v \in Players : LockExpires(v)) \/ UNCHANGED vars
    BY <2>2
    DEF Consume, Rebuild, RebuildFails, Readd, Fetch, SkipLocked, TakeTask, LoadFails, DropOrphan, ArriveWait,
        ArriveTurnBack, ArriveGather, ArriveSaveFails, GatherComplete, GatherTurnBack,
        ReturnHome, TurnSaveFails, EnqueueNext, EnqueueFails, LeaveCell, FinishTask, LockExpires, vars
  <2> QED BY <2>1, <2>2 DEF Calm
<1> QED BY <1>1, <1>2, <1>3

\* The march the consumer strikes off is gone from the row and stays gone.
LEMMA LeavingKept ==
    ASSUME ~SameSecond, IInv, IInv', CellInv, [Next]_vars, Calm
    PROVE  Leaving'
<1> SUFFICES ASSUME stage' \in {"enqueueThenLeave", "leave"}, failures' = 0
             PROVE  JobKey' \notin DOMAIN attack'[JobUid']
  BY DEF Leaving
<1>0. /\ LocksHeld /\ failures \in Nat /\ failures # failures + 1
      /\ job = [entry |-> job.entry, add |-> job.add]
  BY DEF IInv, TypeOK, CountersTyped, ProcessTyped
<1>1. CASE ArriveTurnBack
  <2>1. PICK lost \in SUBSET JobMarch.troops, carry \in {0, GatherAmount} :
            TurnsBack(JobUid, JobKey, lost, carry)
    BY <1>1, TurnEntry
  <2>2. /\ JobUid \in Players /\ JobKey \in DOMAIN attack[JobUid]
        /\ JobMarch = attack[JobUid][JobKey]
        /\ JobKey # ReturnKey(JobKey)
        /\ job'.entry = job.entry
    BY <1>1, TurnEntry DEF JobMarch
  <2>3. JobKey \notin DOMAIN attack'[JobUid]
    BY <2>1, <2>2, TurnRow
  <2> QED BY <2>2, <2>3 DEF JobUid, JobKey
<1>2. CASE stage \in {"enqueueThenLeave", "leave"} /\ job' = job /\ failures = 0
  <2>1. /\ JobUid' = JobUid /\ JobKey' = JobKey /\ JobKey \notin DOMAIN attack[JobUid]
        /\ JobUid \in Players /\ req[JobUid].stage = "idle" /\ lock[JobUid] = "consumer"
    BY <1>2, TaskInHand DEF CellInv, Leaving, JobUid, JobKey, Busy
  <2>2. ASSUME JobKey \in DOMAIN attack'[JobUid] PROVE FALSE
    <3>1. stage \notin {"handle", "turn"} /\ req[JobUid].stage # "turn"
      BY <1>2, <2>1
    <3>2. \A c \in Cells, type \in Types, s \in Parties(home[JobUid], fallen[JobUid], attack[JobUid], Loans[JobUid]) :
              ~LaunchMarch(JobUid, c, type, s)
      BY <2>1 DEF LaunchMarch
    <3> HIDE DEF JobUid, JobKey
    <3> QED BY <2>1, <2>2, <3>1, <3>2, RowCases
  <2> QED BY <2>1, <2>2
<1>3. CASE UNCHANGED <<stage, job, failures>>
  BY <1>2, <1>3
<1>4. CASE \E v \in Players : Request(v) \/ FinishRequest(v) \/ LockExpires(v)
  <2>1. CASE \E v \in Players : CancelSaveFails(v) \/ RequestEnqueueFails(v)
    BY <1>0, <2>1 DEF CancelSaveFails, RequestEnqueueFails, IInv, TypeOK, CountersTyped
  <2>2. CASE \E v \in Players : Request(v) \/ LockExpires(v) \/ LaunchRegister(v)
                                 \/ RequestEnqueue(v) \/ CancelTurnBack(v)
    BY <1>3, <2>2 DEF Request, LaunchMarch, CancelGather, LaunchRegister, RequestEnqueue,
                      CancelTurnBack, LockExpires, consumer, faults
  <2> QED BY <1>4, <2>1, <2>2 DEF FinishRequest
<1>5. CASE Consume
  <2>1. CASE EnqueueNext
    BY <1>2, <2>1 DEF EnqueueNext, faults
  <2>2. CASE ArriveSaveFails \/ EnqueueFails
    BY <1>0, <2>2 DEF ArriveSaveFails, EnqueueFails
  <2>3. CASE \/ Rebuild \/ RebuildFails \/ TakeTask \/ LoadFails \/ DropOrphan \/ ArriveWait \/ ArriveGather
             \/ GatherComplete \/ GatherTurnBack \/ ReturnHome \/ TurnSaveFails
             \/ LeaveCell \/ FinishTask
    BY <2>3 DEF Rebuild, RebuildFails, Readd, TakeTask, LoadFails, DropOrphan, ArriveWait, ArriveGather,
                GatherComplete, GatherTurnBack, ReturnHome, TurnSaveFails, LeaveCell, FinishTask
  <2>4. CASE Fetch \/ SkipLocked
    BY <1>3, <2>4 DEF Fetch, SkipLocked, faults
  <2> QED BY <1>1, <1>5, <2>1, <2>2, <2>3, <2>4 DEF Consume
<1>6. CASE UNCHANGED vars
  BY <1>3, <1>6 DEF vars, consumer, faults
<1> QED BY <1>4, <1>5, <1>6 DEF Calm

\* The queue a march is in is a sequence of items.
LEMMA QueueTyped ==
    ASSUME NEW m, NEW d, NEW c, NEW r, NEW t, CellOK(m, d, c, r, t), QueueOf(m, d) # None
    PROVE  QueueOK(QueueOf(m, d), c, r, t) /\ QueueOf(m, d) \in Seq(QueueItems)
  BY DEF CellOK, QueueOf, QueueOK

\* Who gathers, is not struck off and has not just begun holds on.
LEMMA HoldsOn ==
    ASSUME IInv, IInv', NEW u \in Players, NEW k \in DOMAIN attack[u], Holds(u, k),
           k \in DOMAIN attack'[u], attack'[u][k] = attack[u][k], now' = now,
           NEW c \in Cells, c = attack[u][k].cell,
           Follows(cellMem[c], cellCache[c], cellMem'[c], cellCache'[c], k, now),
           TurningBack(u, k)' => TurningBack(u, k) \/ crashes' # 0,
           crashes' = 0 =>
               /\ crashes = 0
               /\ Stays(cellMem[c], cellCache[c], cellMem'[c], cellCache'[c], k, now)
               /\ TurningBack(u, k) => TurningBack(u, k)',
           crashes' # 0 => (TurningBack(u, k)' => TurningBack(u, k))
    PROVE  Holds(u, k)'
<1> DEFINE q == QueueOf(cellMem[c], cellCache[c])
           q2 == QueueOf(cellMem'[c], cellCache'[c])
           m == attack[u][k]
<1>1. CellQueue(c) = q /\ CellQueue(c)' = q2
  BY DEF CellQueue, QueueOf
<1>2. Follows(cellMem[c], cellCache[c], cellMem'[c], cellCache'[c], k, now)
        => (q2 # None /\ Waits(q2, k, now) =>
               q # None /\ Waits(q, k, now) /\ (Leads(q, k, now) => Leads(q2, k, now)))
  BY DEF Follows
<1>3. Stays(cellMem[c], cellCache[c], cellMem'[c], cellCache'[c], k, now)
        => (q # None /\ Waits(q, k, now) => q2 # None /\ Waits(q2, k, now))
  BY DEF Stays
<1> HIDE DEF q, q2
<1>4. m.status = "gathering" =>
         /\ q # None /\ Waits(q, k, now) => Leads(q, k, now) /\ ~TurningBack(u, k)
         /\ /\ crashes = 0
            /\ ~TurningBack(u, k)
            /\ now <= k.at + Travel[c] + StaleAfter
            => q # None /\ Waits(q, k, now)
  BY <1>1 DEF Holds
<1>5. m.status = "gathering" =>
         /\ q2 # None /\ Waits(q2, k, now) => Leads(q2, k, now) /\ ~TurningBack(u, k)'
         /\ /\ crashes' = 0
            /\ ~TurningBack(u, k)'
            /\ now <= k.at + Travel[c] + StaleAfter
            => q2 # None /\ Waits(q2, k, now)
  BY <1>2, <1>3, <1>4
<1>6. Holds(u, k)' <=> (m.status = "gathering" =>
         /\ q2 # None /\ Waits(q2, k, now) => Leads(q2, k, now) /\ ~TurningBack(u, k)'
         /\ /\ crashes' = 0
            /\ ~TurningBack(u, k)'
            /\ now <= k.at + Travel[c] + StaleAfter
            => q2 # None /\ Waits(q2, k, now))
  BY <1>1 DEF Holds
<1> QED BY <1>5, <1>6

\* Who is struck off is being turned back.
LEMMA StruckHolds ==
    ASSUME IInv, CellsOK, NEW u \in Players, NEW k \in DOMAIN attack[u],
           attack' = attack, now' = now,
           RemoveMarch(attack[u][k].cell, k), TurningBack(u, k)'
    PROVE  Holds(u, k)'
<1> DEFINE c == attack[u][k].cell
           q2 == QueueOf(cellMem'[c], cellCache'[c])
<1>1. c \in Cells /\ now \in Nat
  BY DEF IInv, TypeOK, RowsTyped, Row, Marches, CountersTyped
<1>2. /\ CellsMove({k})
      /\ q2 = None \/ ~Listed(q2, k)
  BY <1>1, RemoveMoves
<1>3. CellOK(cellMem'[c], cellCache'[c], c, attack, now)
  BY <1>1, <1>2 DEF CellsMove
<1>4. q2 # None => q2 \in Seq(QueueItems)
  BY <1>3, QueueTyped
<1>5. CellQueue(c)' = q2
  BY DEF CellQueue, QueueOf
<1> HIDE DEF q2
<1>6. ~(q2 # None /\ Waits(q2, k, now))
  BY <1>1, <1>2, <1>4, WaitsListed
<1> QED BY <1>5, <1>6 DEF Holds

\* OnMarchArrive answers true to the head of the queue, and the march gathers.
LEMMA ArriverHolds ==
    ASSUME IInv, CellsOK, ArriveGather, NEW u, NEW k, NEW c,
           u = JobUid, k = JobKey, c = JobMarch.cell
    PROVE  Holds(u, k)'
<1> DEFINE q == QueueOf(cellMem[c], cellCache[c])
           q2 == QueueOf(cellMem'[c], cellCache'[c])
<1>1. /\ u \in Players /\ k \in DOMAIN attack[u] /\ k \in Keys
      /\ JobMarch \in Marches /\ c \in Cells /\ now \in Nat
      /\ req[u].stage = "idle"
      /\ JobMarch = attack[u][k]
  <2>1. Busy /\ JobKey \in DOMAIN attack[JobUid]
    BY DEF ArriveGather, Handling, Busy
  <2>2. JobMarch.cell \in Cells
    BY <2>1, TaskInHand DEF Marches
  <2>3. JobUid \in Players /\ JobKey \in Keys /\ JobMarch \in Marches /\ req[JobUid].stage = "idle"
    BY <2>1, TaskInHand
  <2>4. JobMarch = attack[JobUid][JobKey]
    BY DEF JobMarch
  <2>5. now \in Nat
    BY DEF IInv, TypeOK, CountersTyped
  <2> QED BY <2>1, <2>2, <2>3, <2>4, <2>5
<1>2. /\ CanAct(c, k) /\ OnMarchArrive(c)
      /\ now' = now /\ req' = req /\ stage' = "enqueue"
  BY DEF ArriveGather
<1>3. CellsMove({}) /\ CellQueue(c) = q /\ CellQueue(c)' = q2
  BY <1>1, <1>2, ArriveMoves DEF CellQueue, QueueOf
<1>4. q # None /\ IsHead(Purge(q, now, StaleAfter), k)
  BY <1>2, <1>3 DEF CanAct
<1>5. q \in Seq(QueueItems)
  BY <1>1, <1>4, QueueTyped DEF CellsOK
<1>6. Leads(q, k, now) /\ Waits(q, k, now)
  <2> HIDE DEF q
  <2>1. Leads(q, k, now)
    BY <1>1, <1>4, <1>5, HeadLeads
  <2> QED BY <1>1, <1>5, <2>1, WaitsListed
<1>7. /\ Follows(cellMem[c], cellCache[c], cellMem'[c], cellCache'[c], k, now)
      /\ Stays(cellMem[c], cellCache[c], cellMem'[c], cellCache'[c], k, now)
  BY <1>1, <1>3 DEF CellsMove
<1>8. q2 # None /\ Waits(q2, k, now) /\ Leads(q2, k, now)
  BY <1>4, <1>6, <1>7 DEF Follows, Stays
<1>9. attack'[u][k].cell = c
  <2>1. attack' = [attack EXCEPT ![u][k] = GatheringMarch(JobMarch)]
    BY DEF ArriveGather
  <2>2. attack = [v \in Players |-> attack[v]] /\ attack[u] = [l \in DOMAIN attack[u] |-> attack[u][l]]
    BY <1>1 DEF IInv, TypeOK, RowsTyped, Row
  <2>3. GatheringMarch(JobMarch).cell = c
    BY <1>1 DEF GatheringMarch, Marches
  <2>4. attack'[u][k] = GatheringMarch(JobMarch)
    BY <1>1, <2>1, <2>2
  <2> QED BY <2>3, <2>4
<1>10. ~TurningBack(u, k)'
  <2>1. req'[u].stage # "turn"
    BY <1>1, <1>2
  <2> QED BY <1>2, <2>1 DEF TurningBack
<1> HIDE DEF q, q2
<1> QED BY <1>2, <1>3, <1>8, <1>9, <1>10 DEF Holds

\* No save fails in a step after which none has failed.
LEMMA NoFailure ==
    ASSUME IInv, Calm, failures' = 0
    PROVE  failures = 0
<1>1. failures \in Nat
  BY BoundsAssumption DEF IInv, TypeOK, CountersTyped
<1>2. failures' = failures \/ failures' = failures + 1
  BY DEF Calm, Consume, Rebuild, RebuildFails, Readd, Fetch, SkipLocked, TakeTask, LoadFails, DropOrphan, ArriveWait,
         ArriveTurnBack, ArriveGather, ArriveSaveFails, GatherComplete, GatherTurnBack,
         ReturnHome, TurnSaveFails, EnqueueNext, EnqueueFails, LeaveCell, FinishTask, LockExpires,
         Request, FinishRequest, LaunchMarch, CancelGather, LaunchRegister,
         RequestEnqueue, CancelTurnBack, CancelSaveFails, RequestEnqueueFails, vars, faults
<1> QED BY <1>1, <1>2

\* A gathering march that was there before the step and is left as it was.
LEMMA GathererStays ==
    ASSUME ~SameSecond, IInv, IInv', CellInv, Calm, failures' = 0,
           NEW u \in Players, NEW k \in DOMAIN attack[u],
           k \in DOMAIN attack'[u], attack'[u][k] = attack[u][k],
           attack[u][k].status = "gathering"
    PROVE  Holds(u, k)'
<1> DEFINE c == attack[u][k].cell
<1>1. /\ failures = 0 /\ failures' = failures /\ CellsOK
      /\ Holds(u, k)
      /\ LocksHeld
  BY NoFailure DEF CellInv, Gatherers, IInv
<1>2. /\ k \in Keys /\ k.uid = u /\ c \in Cells
  BY DEF IInv, TypeOK, RowsTyped, Row, Marches
<1>3. CASE CancelGather(u, k)
  <2>1. attack' = attack /\ now' = now /\ RemoveMarch(attack[u][k].cell, k)
    BY <1>3 DEF CancelGather, row
  <2>2. req' = [req EXCEPT ![u] = [stage |-> "turn", key |-> k]] /\ req = [v \in Players |-> req[v]]
    BY <1>3 DEF CancelGather, IInv, TypeOK, ProcessTyped
  <2>3. req'[u] = [stage |-> "turn", key |-> k]
    BY <2>2
  <2>4. TurningBack(u, k)'
    BY <2>3 DEF TurningBack
  <2> QED BY <1>1, <2>1, <2>4, StruckHolds
<1>4. CASE GatherComplete /\ JobKey = k
  <2>1. attack' = attack /\ now' = now /\ RemoveMarch(attack[u][k].cell, k)
    BY <1>2, <1>4 DEF GatherComplete, row, JobMarch, JobUid
  <2>2. TurningBack(u, k)'
    BY <1>4 DEF GatherComplete, TurningBack, JobKey
  <2> QED BY <1>1, <2>1, <2>2, StruckHolds
<1>5. ASSUME ~CancelGather(u, k), ~(GatherComplete /\ JobKey = k)
      PROVE  Holds(u, k)'
  <2>1. (TurningBack(u, k) => TurningBack(u, k)') /\ (TurningBack(u, k)' => TurningBack(u, k))
    BY <1>1, <1>5, TurningKept
  <2>2. ASSUME NEW ks, CellsMove(ks), k \notin ks
        PROVE  /\ Follows(cellMem[c], cellCache[c], cellMem'[c], cellCache'[c], k, now)
               /\ Stays(cellMem[c], cellCache[c], cellMem'[c], cellCache'[c], k, now)
    BY <1>2, <2>2 DEF CellsMove
  <2>3. ASSUME NEW v \in Players, LaunchRegister(v), k \in {req[v].key} PROVE FALSE
    <3>1. req[v].stage = "register" /\ req[v].key = k
      BY <2>3 DEF LaunchRegister
    <3>2. req[v].key \in DOMAIN attack[v]
      BY <1>1, <3>1 DEF LocksHeld
    <3>3. v = u
      BY <1>2, <3>1, <3>2 DEF IInv, TypeOK, RowsTyped, Row
    <3>4. attack[u][k].status = "going"
      BY <3>1, <3>3 DEF CellInv, Registering
    <3> QED BY <3>4
  <2>4. ASSUME NEW v \in Players, NEW h \in DOMAIN attack[v], CancelGather(v, h), k \in {h}
        PROVE  FALSE
    <3>1. h = k
      BY <2>4
    <3>2. v = u
      BY <1>2, <3>1 DEF IInv, TypeOK, RowsTyped, Row
    <3>3. CancelGather(u, k)
      BY <2>4, <3>1, <3>2
    <3> QED BY <1>5, <3>3
  <2>5. ASSUME GatherComplete, k \in {JobKey} PROVE FALSE
    BY <1>5, <2>5
  <2>6. ASSUME LeaveCell, k \in {JobKey} PROVE FALSE
    <3>1. stage \in {"enqueueThenLeave", "leave"} /\ JobUid = u
      BY <1>2, <2>6 DEF LeaveCell, JobUid
    <3> QED BY <1>1, <2>6, <3>1 DEF CellInv, Leaving
  <2>7. /\ UNCHANGED <<now, crashes>>
        /\ Follows(cellMem[c], cellCache[c], cellMem'[c], cellCache'[c], k, now)
        /\ Stays(cellMem[c], cellCache[c], cellMem'[c], cellCache'[c], k, now)
    <3> HIDE DEF c
    <3>0. UNCHANGED <<now, crashes>>
      BY CalmMoves
    <3>1. CASE CellsMove({})
      BY <2>2, <3>0, <3>1
    <3>2. CASE \E v \in Players : LaunchRegister(v) /\ CellsMove({req[v].key})
      BY <2>2, <2>3, <3>0, <3>2
    <3>3. CASE \E v \in Players : \E h \in DOMAIN attack[v] : CancelGather(v, h) /\ CellsMove({h})
      BY <2>2, <2>4, <3>0, <3>3
    <3>4. CASE GatherComplete /\ CellsMove({JobKey})
      BY <2>2, <2>5, <3>0, <3>4
    <3>5. CASE LeaveCell /\ CellsMove({JobKey})
      BY <2>2, <2>6, <3>0, <3>5
    <3> QED BY <3>1, <3>2, <3>3, <3>4, <3>5, CalmMoves
  <2> HIDE DEF c
  <2>8. c = attack[u][k].cell
    BY DEF c
  <2> QED BY <1>1, <1>2, <2>1, <2>7, <2>8, HoldsOn
<1> QED BY <1>3, <1>4, <1>5

\* Whatever a living process does, who gathers holds his cell.
LEMMA GatherersKept ==
    ASSUME ~SameSecond, IInv, IInv', CellInv, [Next]_vars, Calm
    PROVE  Gatherers'
<1> SUFFICES ASSUME failures' = 0, NEW u \in Players, NEW k \in DOMAIN attack'[u]
             PROVE  Holds(u, k)'
  BY DEF Gatherers
<1>1. attack'[u][k].status # "gathering" => Holds(u, k)'
  BY DEF Holds
<1>2. CASE k \in DOMAIN attack[u] /\ attack'[u][k] = attack[u][k]
  BY <1>1, <1>2, GathererStays
<1>3. CASE ArriveGather /\ u = JobUid /\ k = JobKey
  BY <1>3, ArriverHolds DEF CellInv
<1>4. ASSUME NEW c \in Cells, NEW type \in Types, NEW s \in Parties(home[u], fallen[u], attack[u], Loans[u]),
             attack'[u][k] = NewMarch(c, type, s)
      PROVE  attack'[u][k].status # "gathering"
  BY <1>4 DEF NewMarch
<1> QED BY <1>1, <1>2, <1>3, <1>4, RowCases

\* A step of a living process keeps all of it.
LEMMA CalmKeepsCells ==
    ASSUME ~SameSecond, IInv, IInv', CellInv, [Next]_vars, Calm
    PROVE  CellInv'
<1>1. CellsOK'
  <2>1. now' = now
    BY CalmMoves
  <2>2. \E ks : CellsMove(ks)
    BY CalmMoves
  <2> QED BY <2>1, <2>2, MovedCellsOK
<1>2. GoingArrives'
  BY GoingKept DEF CellInv
<1> QED BY <1>1, <1>2, LoadedKept, RegisteringKept, LeavingKept, GatherersKept DEF CellInv

\* The process dies: nobody is struck off, registered or turned back.
LEMMA CrashKeepsCells ==
    ASSUME ~SameSecond, IInv, IInv', CellInv, NEW wiped \in BOOLEAN, Crash(wiped)
    PROVE  CellInv'
<1>1. /\ crashes' = crashes + 1 /\ crashes \in Nat /\ now' = now /\ now \in Nat
      /\ attack' = attack /\ failures' = failures
      /\ cellCache' = [c \in Cells |-> IF wiped THEN None ELSE cellCache[c]]
      /\ cellMem' = [c \in Cells |-> None]
      /\ loaded' = {} /\ stage' = "rebuild"
      /\ req' = [u \in Players |-> Idle]
  BY BoundsAssumption DEF Crash, IInv, TypeOK, CountersTyped, row
<1>2. ASSUME NEW c \in Cells
      PROVE  /\ CellOK(cellMem'[c], cellCache'[c], c, attack, now)
             /\ \A k \in Keys :
                    Follows(cellMem[c], cellCache[c], cellMem'[c], cellCache'[c], k, now)
  <2>1. CellOK(cellMem[c], cellCache[c], c, attack, now)
    BY DEF CellInv, CellsOK
  <2>2. cellMem'[c] = None /\ cellCache'[c] \in {None, cellCache[c]}
    BY <1>1
  <2> QED BY <1>1, <2>1, <2>2, CrashPair
<1>3. CellsOK'
  BY <1>1, <1>2 DEF CellsOK
<1>4. \A u \in Players : req'[u].stage = "idle"
  BY <1>1 DEF Idle
<1>5. CellsLoaded' /\ Registering' /\ Leaving'
  BY <1>1, <1>4 DEF CellsLoaded, Registering, Leaving
<1>6. GoingArrives'
  BY <1>1 DEF CellInv, GoingArrives
<1>7. ASSUME failures' = 0, NEW u \in Players, NEW k \in DOMAIN attack[u] PROVE Holds(u, k)'
  <2>1. /\ k \in Keys /\ attack[u][k].cell \in Cells
        /\ Holds(u, k)
    BY <1>1, <1>7 DEF CellInv, Gatherers, IInv, TypeOK, RowsTyped, Row, Marches
  <2>2. ~TurningBack(u, k)'
    <3>1. req'[u].stage # "turn" /\ stage' # "turn"
      BY <1>1, <1>4
    <3> QED BY <3>1 DEF TurningBack
  <2>3. PICK c \in Cells : c = attack[u][k].cell
    BY <2>1
  <2>4. crashes' # 0
    BY <1>1
  <2> QED BY <1>1, <1>2, <2>1, <2>2, <2>3, <2>4, HoldsOn
<1>8. Gatherers'
  BY <1>1, <1>7 DEF Gatherers
<1> QED BY <1>3, <1>5, <1>6, <1>8 DEF CellInv

\* The loading of a cell, which no request sees, leaves nobody in its queue.
LEMMA LoadKeepsCells ==
    ASSUME ~SameSecond, IInv, IInv', CellInv, NEW x \in Cells, LoadCell(x)
    PROVE  CellInv'
<1>1. /\ x \notin loaded /\ now' = now /\ now \in Nat /\ crashes' = crashes
      /\ attack' = attack /\ failures' = failures /\ req' = req /\ stage' = stage /\ job' = job
      /\ cellCache' = [cellCache EXCEPT ![x] = <<>>]
      /\ cellMem' = [cellMem EXCEPT ![x] = <<>>]
      /\ loaded' = loaded \cup {x}
  BY DEF LoadCell, IInv, TypeOK, CountersTyped, row, faults, consumer
<1>2. crashes # 0 /\ \A u \in Players : req[u].stage = "idle"
  BY <1>1 DEF CellInv, CellsLoaded
<1>3. ASSUME NEW c \in Cells
      PROVE  /\ CellOK(cellMem'[c], cellCache'[c], c, attack, now)
             /\ c \in loaded' => cellMem'[c] # None
             /\ \A k \in Keys :
                    Follows(cellMem[c], cellCache[c], cellMem'[c], cellCache'[c], k, now)
  <2>1. CellOK(cellMem[c], cellCache[c], c, attack, now)
    BY DEF CellInv, CellsOK
  <2>2. CASE c = x
    <3>1. cellMem'[c] = <<>> /\ cellCache'[c] = <<>>
      BY <1>1, <2>2, CellsTyped
    <3> QED BY <3>1, LoadPair
  <2>3. CASE c # x
    <3>1. cellMem'[c] = cellMem[c] /\ cellCache'[c] = cellCache[c]
      BY <1>1, <2>3, CellsTyped
    <3>2. c \in loaded' => c \in loaded
      BY <1>1, <2>3
    <3> QED BY <2>1, <3>1, <3>2, SamePair DEF CellInv, CellsLoaded
  <2> QED BY <2>2, <2>3
<1>4. CellsOK'
  BY <1>1, <1>3 DEF CellsOK
<1>5. CellsLoaded'
  <2>1. \A c \in loaded' : c \in Cells
    BY <1>1 DEF IInv, TypeOK, ProcessTyped
  <2> QED BY <1>1, <1>2, <1>3, <2>1 DEF CellsLoaded
<1>6. Registering'
  BY <1>1, <1>2 DEF Registering
<1>7. Leaving' /\ GoingArrives'
  BY <1>1 DEF CellInv, Leaving, GoingArrives, JobKey, JobUid
<1>8. ASSUME failures' = 0, NEW u \in Players, NEW k \in DOMAIN attack[u] PROVE Holds(u, k)'
  <2>1. /\ k \in Keys /\ attack[u][k].cell \in Cells
        /\ Holds(u, k)
    BY <1>1, <1>8 DEF CellInv, Gatherers, IInv, TypeOK, RowsTyped, Row, Marches
  <2>2. TurningBack(u, k)' => TurningBack(u, k)
    BY <1>1 DEF TurningBack, JobKey
  <2>3. PICK c \in Cells : c = attack[u][k].cell
    BY <2>1
  <2> QED BY <1>1, <1>2, <1>3, <2>1, <2>2, <2>3, HoldsOn
<1>9. Gatherers'
  BY <1>1, <1>8 DEF Gatherers
<1> QED BY <1>4, <1>5, <1>6, <1>7, <1>9 DEF CellInv

\* Who leads a queue and is still fresh a second later still leads it.
LEMMA LeadsOn ==
    ASSUME NEW q, NEW c, NEW r, NEW t \in Nat, QueueOK(q, c, r, t), NEW k,
           Leads(q, k, t), Waits(q, k, t + 1)
    PROVE  Leads(q, k, t + 1)
<1>1. q \in Seq(QueueItems) /\ \A i, j \in DOMAIN q : q[i].key = q[j].key => i = j
  BY DEF QueueOK
<1>2. PICK i \in DOMAIN q :
          q[i].key = k /\ Fresh(q[i], t) /\ \A j \in DOMAIN q : j < i => ~Fresh(q[j], t)
  BY DEF Leads
<1>3. PICK l \in DOMAIN q : q[l].key = k /\ Fresh(q[l], t + 1)
  BY DEF Waits
<1>4. l = i
  BY <1>1, <1>2, <1>3
<1>5. \A j \in DOMAIN q : Fresh(q[j], t + 1) => Fresh(q[j], t)
  <2>1. \A j \in DOMAIN q : q[j] \in QueueItems
    BY <1>1
  <2> QED BY <2>1, TimesAssumption DEF Fresh, QueueItems
<1> QED BY <1>2, <1>3, <1>4, <1>5 DEF Leads

\* A second goes by.
LEMMA TickKeepsCells ==
    ASSUME ~SameSecond, IInv, IInv', CellInv, Tick
    PROVE  CellInv'
<1>1. /\ now' = now + 1 /\ now \in Nat /\ crashes' = crashes
      /\ attack' = attack /\ failures' = failures /\ req' = req /\ stage' = stage /\ job' = job
      /\ cellCache' = cellCache /\ cellMem' = cellMem /\ loaded' = loaded
  BY DEF Tick, IInv, TypeOK, CountersTyped, row, faults, consumer, redis
<1>2. CellsOK'
  <2>1. ASSUME NEW c \in Cells PROVE CellOK(cellMem[c], cellCache[c], c, attack, now + 1)
    BY <1>1, LaterPair DEF CellInv, CellsOK
  <2> QED BY <1>1, <2>1 DEF CellsOK
<1>3. CellsLoaded' /\ Registering' /\ Leaving' /\ GoingArrives'
  BY <1>1
  DEF CellInv, CellsLoaded, Registering, Leaving, GoingArrives, JobKey, JobUid
<1>4. ASSUME failures' = 0, NEW u \in Players, NEW k \in DOMAIN attack[u],
             attack[u][k].status = "gathering"
      PROVE  Holds(u, k)'
  <2>0. /\ k \in Keys /\ attack[u][k].cell \in Cells /\ Holds(u, k)
    BY <1>1, <1>4 DEF CellInv, Gatherers, IInv, TypeOK, RowsTyped, Row, Marches
  <2>6. PICK c \in Cells : c = attack[u][k].cell
    BY <2>0
  <2> PICK q : q = QueueOf(cellMem[c], cellCache[c])
    OBVIOUS
  <2>1. /\ k \in Keys /\ c \in Cells /\ Holds(u, k)
        /\ CellQueue(c) = q /\ CellQueue(c)' = q
    BY <1>1, <2>0 DEF CellQueue, QueueOf
  <2>2. TurningBack(u, k)' <=> TurningBack(u, k)
    BY <1>1 DEF TurningBack, JobKey
  <2>3. CellOK(cellMem[c], cellCache[c], c, attack, now)
    BY <2>1 DEF CellInv, CellsOK
  <2>4. q # None => QueueOK(q, c, attack, now) /\ q \in Seq(QueueItems)
    BY <2>3, QueueTyped
  <2>5. /\ q # None /\ Waits(q, k, now) => Leads(q, k, now) /\ ~TurningBack(u, k)
        /\ /\ crashes = 0 /\ ~TurningBack(u, k)
           /\ now <= k.at + Travel[c] + StaleAfter
           => q # None /\ Waits(q, k, now)
    BY <1>4, <2>1, <2>6 DEF Holds
  <2>7. k.at + Travel[c] + StaleAfter \in Nat
    BY <2>1, TimesAssumption, BoundsAssumption DEF Keys
  <2>8. ASSUME q # None, Waits(q, k, now + 1)
        PROVE  Leads(q, k, now + 1) /\ ~TurningBack(u, k)
    <3>1. Waits(q, k, now)
      BY <1>1, <2>4, <2>8, WaitsListed
    <3>2. Leads(q, k, now) /\ ~TurningBack(u, k)
      BY <2>5, <2>8, <3>1
    <3> QED BY <1>1, <2>4, <2>8, <3>2, LeadsOn
  <2>9. ASSUME crashes = 0, ~TurningBack(u, k), now + 1 <= k.at + Travel[c] + StaleAfter
        PROVE  q # None /\ Waits(q, k, now + 1)
    <3>1. q # None /\ Waits(q, k, now)
      BY <1>1, <2>5, <2>7, <2>9
    <3>2. Listed(q, k)
      BY <1>1, <2>4, <3>1, WaitsListed
    <3>3. now + 1 \in Nat
      BY <1>1
    <3> QED BY <1>1, <2>1, <2>4, <2>9, <3>1, <3>2, <3>3, WaitsAge
  <2>10. Holds(u, k)' <=>
            (attack[u][k].status = "gathering" =>
               /\ q # None /\ Waits(q, k, now + 1) =>
                      Leads(q, k, now + 1) /\ ~TurningBack(u, k)'
               /\ /\ crashes = 0 /\ ~TurningBack(u, k)'
                  /\ now + 1 <= k.at + Travel[c] + StaleAfter
                  => q # None /\ Waits(q, k, now + 1))
    BY <1>1, <2>1, <2>6 DEF Holds
  <2> QED BY <2>2, <2>8, <2>9, <2>10
<1>5. Gatherers'
  <2>1. \A u \in Players : \A k \in DOMAIN attack[u] :
            attack[u][k].status # "gathering" => Holds(u, k)'
    BY <1>1 DEF Holds
  <2> QED BY <1>1, <1>4, <2>1 DEF Gatherers
<1> QED BY <1>2, <1>3, <1>5 DEF CellInv

\* The map starts empty, in memory and in Redis.
LEMMA InitCells == Init => CellInv
<1> SUFFICES ASSUME Init PROVE CellInv
  OBVIOUS
<1>1. CellsOK
  BY LoadPair DEF Init, CellsOK
<1>2. CellsLoaded
  BY LoadPair DEF Init, CellsLoaded, Idle
<1>3. GoingArrives /\ Registering /\ Leaving /\ Gatherers
  BY DEF Init, GoingArrives, Registering, Leaving, Gatherers, Idle
<1> QED BY <1>1, <1>2, <1>3 DEF CellInv

\* The strengthening of GathererHoldsCell is inductive.
LEMMA NextKeepsCells ==
    ASSUME ~SameSecond, IInv, CellInv, [Next]_vars
    PROVE  CellInv'
<1>1. IInv'
  BY NextKeepsInv
<1>2. CASE Calm
  BY <1>1, <1>2, CalmKeepsCells
<1>3. CASE \E c \in Cells : LoadCell(c)
  BY <1>1, <1>3, LoadKeepsCells
<1>4. CASE \E wiped \in BOOLEAN : Crash(wiped)
  BY <1>1, <1>4, CrashKeepsCells
<1>5. CASE Tick
  BY <1>1, <1>5, TickKeepsCells
<1> QED BY <1>2, <1>3, <1>4, <1>5 DEF Next, System, Calm

\* In every reachable state the queues of the cells are right.
LEMMA CellsInvariance ==
    ASSUME ~SameSecond
    PROVE  Spec => [](IInv /\ CellInv)
<1>1. Init => IInv /\ CellInv
  BY InitInv, InitCells
<1>2. IInv /\ CellInv /\ [Next]_vars => IInv' /\ CellInv'
  BY NextKeepsInv, NextKeepsCells
<1> QED BY <1>1, <1>2, PTL DEF Spec

\* Who gathers in a cell is at the head of its queue, however marches to it,
\* cancelled gatherings, purges and restarts interleave, while saves succeed
\* and his item is fresh: OnMarchArrive lets no two gather there at once.
THEOREM GatherersHoldCells ==
    ASSUME ~SameSecond
    PROVE  Spec => []GathererHoldsCell
<1>1. IInv /\ CellInv => GathererHoldsCell
  <2> SUFFICES ASSUME IInv, CellInv, failures = 0,
                      NEW u \in Players, NEW k \in DOMAIN attack[u],
                      NEW c, c = attack[u][k].cell, NEW q, q = CellQueue(c),
                      attack[u][k].status = "gathering",
                      ~TurningBack(u, k),
                      now <= k.at + Travel[c] + StaleAfter,
                      crashes = 0 \/ (q # None /\ Listed(q, k))
               PROVE  q # None /\ IsHead(Purge(q, now, StaleAfter), k)
    BY DEF GathererHoldsCell
  <2>1. k \in Keys /\ c \in Cells /\ now \in Nat
    BY DEF IInv, TypeOK, RowsTyped, Row, Marches, CountersTyped
  <2>2. q = QueueOf(cellMem[c], cellCache[c])
    BY DEF CellQueue, QueueOf
  <2>3. q # None => QueueOK(q, c, attack, now) /\ q \in Seq(QueueItems)
    BY <2>1, <2>2, QueueTyped DEF CellInv, CellsOK
  <2>4. /\ q # None /\ Waits(q, k, now) => Leads(q, k, now)
        /\ crashes = 0 => q # None /\ Waits(q, k, now)
    BY DEF CellInv, Gatherers, Holds
  <2>5. q # None /\ Listed(q, k) => Waits(q, k, now)
    BY <2>1, <2>3, WaitsAge
  <2>6. q # None /\ Leads(q, k, now)
    BY <2>4, <2>5
  <2> QED BY <2>1, <2>3, <2>6, HeadLeads
<1> QED BY <1>1, CellsInvariance, PTL

\* Two players' gatherings never share a cell (OnMarchArrive lets the head of
\* the queue act, and a gatherer is the head), before the first crash.
THEOREM OneGathererEach ==
    ASSUME ~SameSecond
    PROVE  Spec => []OneGatherer
<1>1. GathererHoldsCell => OneGatherer
  <2> SUFFICES ASSUME GathererHoldsCell, failures = 0, crashes = 0,
                      NEW u \in Players, NEW v \in Players,
                      NEW k \in DOMAIN attack[u], NEW l \in DOMAIN attack[v],
                      InField(u, k), InField(v, l),
                      attack[u][k].cell = attack[v][l].cell
               PROVE  k = l
    BY DEF OneGatherer
  <2> DEFINE p == Purge(CellQueue(attack[u][k].cell), now, StaleAfter)
  <2>1. IsHead(p, k) /\ IsHead(p, l)
    BY DEF GathererHoldsCell, InField
  <2> QED BY <2>1 DEF IsHead
<1> QED BY <1>1, GatherersHoldCells, PTL
=============================================================================
