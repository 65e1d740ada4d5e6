-------------------------- MODULE PlayerStoreProofs --------------------------
(***************************************************************************)
(* Proofs about PlayerStore, for any clients, changes and bounds: a lock   *)
(* that expires under its holder, a cached copy a Save leaves behind and a *)
(* reader that fills the cache late are the only ways to lose a change.    *)
(***************************************************************************)
EXTENDS PlayerStore, TLAPS

\* The one client that changes the row has the lock.
LockInv ==
    expiries = 0 =>
        \A c \in Clients : ~Reads(c) =>
            lock = "held" /\ \A d \in Clients : ~Reads(d) => d = c

\* Without hazards the cached copy, what the holder has loaded and what was
\* saved agree with the row.
DataInv ==
    expiries = 0 /\ leaks = 0 /\ races = 0 =>
        /\ (\A c \in Clients : pc[c] # "delete") => cached \in {None, saved}
        /\ \A c \in Clients : ~Reads(c) /\ pc[c] \in {"fill", "save"} => view[c] = saved
        /\ done \subseteq saved

IInv == TypeOK /\ LockInv /\ DataInv

\* The invariant holds at the start.
LEMMA InitInv == Init => IInv
<1> SUFFICES ASSUME Init PROVE IInv
  OBVIOUS
<1>1. TypeOK
  <2>1. /\ pc \in [Clients -> Working \cup {"idle"}]
        /\ change \in [Clients -> Changes \cup {None}]
        /\ view \in [Clients -> SUBSET Changes]
        /\ \A c \in Clients : pc[c] = "idle" /\ Reads(c)
    BY DEF Init, Reads
  <2>2. /\ cached \in (SUBSET Changes) \cup {None} /\ lock \in {"free", "held"}
        /\ saved \in SUBSET Changes /\ done \in SUBSET Changes
        /\ expiries \in 0..MaxExpiries /\ leaks \in 0..MaxLeaks /\ races \in {0, 1}
    BY BoundsAssumption DEF Init
  <2> QED BY <2>1, <2>2 DEF TypeOK
<1>2. LockInv /\ DataInv
  BY DEF Init, LockInv, DataInv, Reads
<1> QED BY <1>1, <1>2 DEF IInv

\* SETNX gives the lock to one client.
LEMMA LockKeepsInv ==
    ASSUME IInv, NEW c \in Clients, NEW w \in Changes, Lock(c, w)
    PROVE  IInv'
<1>1. /\ pc[c] = "idle" /\ lock = "free" /\ lock' = "held"
      /\ change' = [change EXCEPT ![c] = w]
      /\ pc' = [pc EXCEPT ![c] = "load"]
      /\ UNCHANGED <<saved, cached, view, done, expiries, leaks, races>>
  BY DEF Lock, hazards
<1>2. TypeOK'
  BY <1>1, NoneAssumption DEF IInv, TypeOK, Working, Reads
<1>3. LockInv'
  BY <1>1 DEF IInv, TypeOK, LockInv, Reads
<1>4. DataInv'
  BY <1>1 DEF IInv, TypeOK, DataInv, Reads
<1> QED BY <1>2, <1>3, <1>4 DEF IInv

\* A step that leaves locks, rows and hazards alone, and moves one client on.
LEMMA LoadKeepsInv ==
    ASSUME IInv, NEW c \in Clients,
           Read(c) \/ CacheHit(c) \/ CacheMiss(c) \/ Query(c)
    PROVE  IInv'
<1>1. /\ UNCHANGED <<saved, cached, lock, change, done, expiries, leaks, races>>
      /\ pc[c] \in {"idle", "load", "query"}
      /\ \E s \in Working \cup {"idle"} : pc' = [pc EXCEPT ![c] = s]
      /\ \E v \in SUBSET Changes : view' = [view EXCEPT ![c] = v]
  <2>0. /\ pc \in [Clients -> Working \cup {"idle"}] /\ view \in [Clients -> SUBSET Changes]
        /\ Loaded(c) \in Working \cup {"idle"}
        /\ saved \in SUBSET Changes
        /\ cached # None => cached \in SUBSET Changes
    BY DEF IInv, TypeOK, Loaded, Working
  <2>1. CASE Read(c)
    BY <2>0, <2>1 DEF Read, Working, hazards
  <2>2. CASE CacheHit(c)
    BY <2>0, <2>2 DEF CacheHit, hazards
  <2>3. CASE CacheMiss(c)
    BY <2>0, <2>3 DEF CacheMiss, Working, hazards
  <2>4. CASE Query(c)
    BY <2>0, <2>4 DEF Query, Working, hazards
  <2> QED BY <2>1, <2>2, <2>3, <2>4
<1>2. /\ pc'[c] \in {"idle", "load", "query", "fill", "save"}
      /\ pc'[c] = "save" => ~Reads(c)
      /\ pc'[c] = "idle" => Reads(c)
      /\ ~Reads(c) /\ pc'[c] = "fill" => view'[c] = saved
      /\ ~Reads(c) /\ pc'[c] = "save" => cached # None /\ view'[c] = cached /\ pc[c] = "load"
  BY DEF IInv, TypeOK, Read, CacheHit, CacheMiss, Query, Loaded
<1>3. TypeOK'
  BY <1>1, <1>2 DEF IInv, TypeOK, Working, Reads
<1>4. LockInv'
  BY <1>1 DEF IInv, LockInv, Reads
<1>5. DataInv'
  <2> SUFFICES ASSUME expiries = 0, leaks = 0, races = 0
               PROVE  /\ (\A d \in Clients : pc'[d] # "delete") => cached \in {None, saved}
                      /\ \A d \in Clients :
                             ~Reads(d) /\ pc'[d] \in {"fill", "save"} => view'[d] = saved
                      /\ done \subseteq saved
    BY <1>1 DEF DataInv, Reads
  <2>1. \A d \in Clients : (pc'[d] = "delete") <=> (pc[d] = "delete")
    BY <1>1, <1>2 DEF IInv, TypeOK
  <2>2. ASSUME ~Reads(c), pc[c] = "load" PROVE cached \in {None, saved}
    BY <2>2 DEF IInv, TypeOK, LockInv, DataInv
  <2>3. ~Reads(c) /\ pc'[c] \in {"fill", "save"} => view'[c] = saved
    BY <1>2, <2>2
  <2>4. ASSUME NEW d \in Clients \ {c}, ~Reads(d), pc'[d] \in {"fill", "save"}
        PROVE  view'[d] = saved
    BY <1>1, <2>4 DEF IInv, TypeOK, DataInv
  <2> QED BY <2>1, <2>3, <2>4 DEF IInv, DataInv
<1> QED BY <1>3, <1>4, <1>5 DEF IInv

\* A copy goes to the cache: the row, or an old one and a hazard.
LEMMA FillKeepsInv ==
    ASSUME IInv, NEW c \in Clients, Fill(c)
    PROVE  IInv'
<1>1. /\ pc[c] = "fill"
      /\ pc' = [pc EXCEPT ![c] = Loaded(c)]
      /\ UNCHANGED <<saved, lock, change, view, done, expiries, leaks>>
      /\ \/ cached' = view[c] /\ races' = (IF Outdated(c) THEN 1 ELSE races)
         \/ UNCHANGED <<cached, races>>
  BY DEF Fill
<1>2. TypeOK'
  BY <1>1 DEF IInv, TypeOK, Working, Reads, Loaded
<1>3. LockInv'
  BY <1>1 DEF IInv, LockInv, Reads
<1>4. \A d \in Clients : (pc'[d] = "delete") <=> (pc[d] = "delete")
  BY <1>1 DEF IInv, TypeOK, Loaded
<1>5. \A d \in Clients : ~Reads(d) /\ pc'[d] \in {"fill", "save"}
                             => pc[d] \in {"fill", "save"}
  BY <1>1 DEF IInv, TypeOK
<1>6. DataInv'
  BY <1>1, <1>4, <1>5 DEF IInv, DataInv, Outdated, Reads
<1> QED BY <1>2, <1>3, <1>6 DEF IInv

\* The holder gives up, or saves the row it has loaded with its change.
LEMMA SaveKeepsInv ==
    ASSUME IInv, NEW c \in Clients, GiveUp(c) \/ SaveRow(c)
    PROVE  IInv'
<1>1. CASE GiveUp(c)
  <2>1. /\ pc[c] \in {"query", "save"}
        /\ pc' = [pc EXCEPT ![c] = IF Reads(c) THEN "idle" ELSE "unlock"]
        /\ UNCHANGED <<saved, cached, lock, change, view, done, expiries, leaks, races>>
    BY <1>1 DEF GiveUp, hazards
  <2>2. TypeOK'
    BY <2>1 DEF IInv, TypeOK, Working, Reads
  <2>3. LockInv'
    BY <2>1 DEF IInv, LockInv, Reads
  <2>4. DataInv'
    BY <2>1 DEF IInv, TypeOK, DataInv, Reads
  <2> QED BY <2>2, <2>3, <2>4 DEF IInv
<1>2. CASE SaveRow(c)
  <2>1. /\ pc[c] = "save" /\ ~Reads(c)
        /\ saved' = view[c] \cup {change[c]}
        /\ done' = done \cup {change[c]}
        /\ pc' = [pc EXCEPT ![c] = "delete"]
        /\ UNCHANGED <<cached, lock, change, view, expiries, leaks, races>>
    BY <1>2 DEF IInv, TypeOK, SaveRow, hazards
  <2>2. TypeOK'
    BY <2>1 DEF IInv, TypeOK, Working, Reads
  <2>3. LockInv'
    BY <2>1 DEF IInv, LockInv, Reads
  <2>4. DataInv'
    BY <2>1 DEF IInv, TypeOK, LockInv, DataInv, Reads
  <2> QED BY <2>2, <2>3, <2>4 DEF IInv
<1> QED BY <1>1, <1>2

\* The holder deletes the copy, or fails to, and unlocks.
LEMMA ReleaseKeepsInv ==
    ASSUME IInv, NEW c \in Clients, DeleteCached(c) \/ DeleteFails(c) \/ Unlock(c)
    PROVE  IInv'
<1>1. CASE DeleteCached(c)
  <2>1. /\ pc[c] = "delete" /\ cached' = None
        /\ pc' = [pc EXCEPT ![c] = "unlock"]
        /\ UNCHANGED <<saved, lock, change, view, done, expiries, leaks, races>>
    BY <1>1 DEF DeleteCached, hazards
  <2>2. TypeOK'
    BY <2>1 DEF IInv, TypeOK, Working, Reads
  <2>3. LockInv' /\ DataInv'
    BY <2>1 DEF IInv, TypeOK, LockInv, DataInv, Reads
  <2> QED BY <2>2, <2>3 DEF IInv
<1>2. CASE DeleteFails(c)
  <2>1. /\ pc[c] = "delete" /\ leaks < MaxLeaks /\ leaks' = leaks + 1
        /\ pc' = [pc EXCEPT ![c] = "unlock"]
        /\ UNCHANGED <<saved, cached, lock, change, view, done, expiries, races>>
    BY <1>2 DEF DeleteFails
  <2>2. TypeOK'
    BY <2>1, BoundsAssumption DEF IInv, TypeOK, Working, Reads
  <2>3. LockInv' /\ DataInv'
    BY <2>1, BoundsAssumption DEF IInv, TypeOK, LockInv, DataInv, Reads
  <2> QED BY <2>2, <2>3 DEF IInv
<1>3. CASE Unlock(c)
  <2>1. /\ pc[c] = "unlock" /\ ~Reads(c) /\ lock' = "free"
        /\ change' = [change EXCEPT ![c] = None]
        /\ pc' = [pc EXCEPT ![c] = "idle"]
        /\ UNCHANGED <<saved, cached, view, done, expiries, leaks, races>>
    BY <1>3 DEF IInv, TypeOK, Unlock, hazards
  <2>2. TypeOK'
    BY <2>1 DEF IInv, TypeOK, Working, Reads
  <2>3. LockInv'
    BY <2>1 DEF IInv, TypeOK, LockInv, Reads
  <2>4. DataInv'
    BY <2>1 DEF IInv, TypeOK, DataInv, Reads
  <2> QED BY <2>2, <2>3, <2>4 DEF IInv
<1> QED BY <1>1, <1>2, <1>3

\* Redis drops a lock or a copy, the process restarts, nothing happens.
LEMMA OthersKeepInv ==
    ASSUME IInv, Expire \/ Evict \/ Crash \/ UNCHANGED vars
    PROVE  IInv'
<1>1. CASE Expire
  <2>1. /\ lock' = "free"
        /\ UNCHANGED <<saved, cached, pc, change, view, done, leaks, races>>
        /\ \/ expiries < MaxExpiries /\ expiries' = expiries + 1
           \/ (\A c \in Clients : Reads(c)) /\ expiries' = expiries
    BY <1>1 DEF Expire
  <2>2. TypeOK'
    BY <2>1, BoundsAssumption DEF IInv, TypeOK, Reads
  <2>3. LockInv' /\ DataInv'
    BY <2>1, BoundsAssumption DEF IInv, TypeOK, LockInv, DataInv, Reads
  <2> QED BY <2>2, <2>3 DEF IInv
<1>2. CASE Evict
  <2>1. /\ cached' = None
        /\ UNCHANGED <<saved, lock, pc, change, view, done, expiries, leaks, races>>
    BY <1>2 DEF Evict, hazards
  <2>2. TypeOK'
    BY <2>1 DEF IInv, TypeOK, Reads
  <2>3. LockInv' /\ DataInv'
    BY <2>1 DEF IInv, LockInv, DataInv, Reads
  <2> QED BY <2>2, <2>3 DEF IInv
<1>3. CASE Crash
  <2>1. /\ pc' = [c \in Clients |-> "idle"]
        /\ change' = [c \in Clients |-> None]
        /\ UNCHANGED <<saved, cached, lock, view, done, expiries, races>>
        /\ \/ leaks < MaxLeaks /\ leaks' = leaks + 1
           \/ (\A c \in Clients : pc[c] # "delete") /\ leaks' = leaks
    BY <1>3 DEF Crash
  <2>2. TypeOK'
    BY <2>1, BoundsAssumption DEF IInv, TypeOK, Reads
  <2>3. LockInv' /\ DataInv'
    BY <2>1, BoundsAssumption DEF IInv, TypeOK, LockInv, DataInv, Reads
  <2> QED BY <2>2, <2>3 DEF IInv
<1>4. CASE UNCHANGED vars
  BY <1>4 DEF IInv, TypeOK, LockInv, DataInv, vars, hazards, Reads
<1> QED BY <1>1, <1>2, <1>3, <1>4

\* The invariant is inductive.
LEMMA NextKeepsInv ==
    ASSUME IInv, [Next]_vars
    PROVE  IInv'
<1>1. ASSUME NEW c \in Clients, NEW w \in Changes, Lock(c, w) PROVE IInv'
  BY <1>1, LockKeepsInv
<1>2. ASSUME NEW c \in Clients,
             \/ Read(c) \/ CacheHit(c) \/ CacheMiss(c) \/ Query(c) \/ Fill(c)
             \/ GiveUp(c) \/ SaveRow(c) \/ DeleteCached(c) \/ DeleteFails(c)
             \/ Unlock(c)
      PROVE  IInv'
  BY <1>2, LoadKeepsInv, FillKeepsInv, SaveKeepsInv, ReleaseKeepsInv
<1> QED BY <1>1, <1>2, OthersKeepInv DEF Next

\* IInv holds in every state.
THEOREM Invariance == Spec => []IInv
<1>1. IInv /\ [Next]_vars => IInv'
  BY NextKeepsInv
<1> QED BY <1>1, InitInv, PTL DEF Spec

\* At most one goroutine changes a player while no lock expires under its
\* holder, for any number of goroutines and crashes.
THEOREM OneHolder == Spec => []MutualExclusion
<1>1. IInv => MutualExclusion
  BY DEF IInv, LockInv, MutualExclusion
<1> QED BY <1>1, Invariance, PTL

\* Without the three hazards a cached copy is the row.
THEOREM CacheIsRow == Spec => []CacheCoherent
<1>1. IInv => CacheCoherent
  BY DEF IInv, DataInv, CacheCoherent
<1> QED BY <1>1, Invariance, PTL

\* Without the three hazards no Save undoes another.
THEOREM NothingLost == Spec => []NoLostUpdate
<1>1. IInv => NoLostUpdate
  BY DEF IInv, DataInv, NoLostUpdate
<1> QED BY <1>1, Invariance, PTL

\* Every variable holds values of its kind.
THEOREM TypeCorrect == Spec => []TypeOK
<1>1. IInv => TypeOK
  BY DEF IInv
<1> QED BY <1>1, Invariance, PTL
=============================================================================
