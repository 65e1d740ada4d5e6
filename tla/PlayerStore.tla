---------------------------- MODULE PlayerStore ----------------------------
(***************************************************************************)
(* How a player's troops are read and written: the lock of the player in   *)
(* Redis (game/lock_service.go), the cached copy in Redis                  *)
(* (cache/troops_cache.go) before the row in MySQL (db/troops_repo.go),    *)
(* and Load and Save (game/troops_service.go), one step at a time.         *)
(*                                                                         *)
(* Every change of the row is made by a goroutine that holds the lock:     *)
(* Load, change, Save, unlock.  Readers (GetUserInfo, internalGetTroops)   *)
(* Load without the lock.  A row is the set of the changes it has seen.    *)
(***************************************************************************)
EXTENDS Integers

CONSTANTS
    Clients,        \* goroutines: request handlers and queue consumers
    Changes,        \* the changes to the row, each made at most once
    MaxExpiries,    \* bound: locks that expire while their holder works
    MaxLeaks,       \* bound: saves that leave the cached copy behind
    None            \* no cached copy, no change

ASSUME NoneAssumption == None \notin Changes /\ \A s \in SUBSET Changes : s # None
ASSUME BoundsAssumption == MaxExpiries \in Nat /\ MaxLeaks \in Nat

VARIABLES
    saved,      \* MySQL: the row
    cached,     \* Redis: the cached copy, or None
    lock,       \* Redis: "held" if the key lock:user:uid exists
    pc,         \* pc[c]: what client c does next
    change,     \* change[c]: the change c is to make, None for a reader
    view,       \* view[c]: the row as Load has given it to c
    done,       \* history: changes whose Save has returned
    expiries,   \* history: locks expired under their holders
    leaks,      \* history: copies that a Save has left behind
    races       \* history: old copies put in the cache after a Save

vars == <<saved, cached, lock, pc, change, view, done, expiries, leaks, races>>
hazards == <<expiries, leaks, races>>

\* The stages of a client in Load or Save.
Working == {"load", "query", "fill", "save", "delete", "unlock"}

Init ==
    /\ saved = {}
    /\ cached = None
    /\ lock = "free"
    /\ pc = [c \in Clients |-> "idle"]
    /\ change = [c \in Clients |-> None]
    /\ view = [c \in Clients |-> {}]
    /\ done = {}
    /\ expiries = 0
    /\ leaks = 0
    /\ races = 0

Reads(c) == change[c] = None
-----------------------------------------------------------------------------
(* The lock *)

\* Fault: the answer of SETNX is not looked at.
LockAnyway(c, w) ==
    /\ pc[c] = "idle"
    /\ w \notin done \cup {change[d] : d \in Clients}
    /\ lock' = "held"
    /\ change' = [change EXCEPT ![c] = w]
    /\ pc' = [pc EXCEPT ![c] = "load"]
    /\ UNCHANGED <<saved, cached, view, done, hazards>>

\* SETNX; a client that finds the key gives up at once.
Lock(c, w) ==
    /\ pc[c] = "idle"
    /\ w \notin done \cup {change[d] : d \in Clients}
    /\ lock = "free"
    /\ lock' = "held"
    /\ change' = [change EXCEPT ![c] = w]
    /\ pc' = [pc EXCEPT ![c] = "load"]
    /\ UNCHANGED <<saved, cached, view, done, hazards>>

\* DEL of the key, whoever has set it.
Unlock(c) ==
    /\ pc[c] = "unlock"
    /\ lock' = "free"
    /\ change' = [change EXCEPT ![c] = None]
    /\ pc' = [pc EXCEPT ![c] = "idle"]
    /\ UNCHANGED <<saved, cached, view, done, hazards>>

\* The 5 seconds are over: the holder works on, or is dead.
Expire ==
    /\ lock = "held"
    /\ lock' = "free"
    /\ IF \E c \in Clients : ~Reads(c)
       THEN expiries < MaxExpiries /\ expiries' = expiries + 1
       ELSE UNCHANGED expiries
    /\ UNCHANGED <<saved, cached, pc, change, view, done, leaks, races>>
-----------------------------------------------------------------------------
(* Load *)

\* A reader begins; it takes no lock.
Read(c) ==
    /\ pc[c] = "idle"
    /\ pc' = [pc EXCEPT ![c] = "load"]
    /\ UNCHANGED <<saved, cached, lock, change, view, done, hazards>>

\* Where Load returns to.
Loaded(c) == IF Reads(c) THEN "idle" ELSE "save"

CacheHit(c) ==
    /\ pc[c] = "load"
    /\ cached # None
    /\ view' = [view EXCEPT ![c] = cached]
    /\ pc' = [pc EXCEPT ![c] = Loaded(c)]
    /\ UNCHANGED <<saved, cached, lock, change, done, hazards>>

CacheMiss(c) ==
    /\ pc[c] = "load"
    /\ cached = None
    /\ pc' = [pc EXCEPT ![c] = "query"]
    /\ UNCHANGED <<saved, cached, lock, change, view, done, hazards>>

\* SELECT of the row.
Query(c) ==
    /\ pc[c] = "query"
    /\ view' = [view EXCEPT ![c] = saved]
    /\ pc' = [pc EXCEPT ![c] = "fill"]
    /\ UNCHANGED <<saved, cached, lock, change, done, hazards>>

\* The copy put in the cache is old, and no Save is about to delete it.
Outdated(c) == view[c] # saved /\ \A d \in Clients : pc[d] # "delete"

\* SET of the copy; its error is ignored.
Fill(c) ==
    /\ pc[c] = "fill"
    /\ pc' = [pc EXCEPT ![c] = Loaded(c)]
    /\ \/ /\ cached' = view[c]
          /\ races' = IF Outdated(c) THEN 1 ELSE races
       \/ UNCHANGED <<cached, races>>
    /\ UNCHANGED <<saved, lock, change, view, done, expiries, leaks>>
-----------------------------------------------------------------------------
(* Save *)

\* The query, a check of the change or the UPDATE fails: nothing is saved.
GiveUp(c) ==
    /\ pc[c] \in {"query", "save"}
    /\ pc' = [pc EXCEPT ![c] = IF Reads(c) THEN "idle" ELSE "unlock"]
    /\ UNCHANGED <<saved, cached, lock, change, view, done, hazards>>

\* UPDATE of the whole row.
SaveRow(c) ==
    /\ pc[c] = "save"
    /\ saved' = view[c] \cup {change[c]}
    /\ done' = done \cup {change[c]}
    /\ pc' = [pc EXCEPT ![c] = "delete"]
    /\ UNCHANGED <<cached, lock, change, view, hazards>>

\* Fault: the row is saved and the copy left for the next Load.
KeepCached(c) ==
    /\ pc[c] = "delete"
    /\ pc' = [pc EXCEPT ![c] = "unlock"]
    /\ UNCHANGED <<saved, cached, lock, change, view, done, hazards>>

\* DEL of the cached copy.
DeleteCached(c) ==
    /\ pc[c] = "delete"
    /\ cached' = None
    /\ pc' = [pc EXCEPT ![c] = "unlock"]
    /\ UNCHANGED <<saved, lock, change, view, done, hazards>>

\* DEL fails, and its error is ignored.
DeleteFails(c) ==
    /\ pc[c] = "delete"
    /\ leaks < MaxLeaks
    /\ leaks' = leaks + 1
    /\ pc' = [pc EXCEPT ![c] = "unlock"]
    /\ UNCHANGED <<saved, cached, lock, change, view, done, expiries, races>>
-----------------------------------------------------------------------------
\* The copy's 30 minutes are over.
Evict ==
    /\ cached' = None
    /\ UNCHANGED <<saved, lock, pc, change, view, done, hazards>>

\* The process dies and starts again; Redis and MySQL keep what they have.
Crash ==
    /\ IF \E c \in Clients : pc[c] = "delete"
       THEN leaks < MaxLeaks /\ leaks' = leaks + 1
       ELSE UNCHANGED leaks
    /\ pc' = [c \in Clients |-> "idle"]
    /\ change' = [c \in Clients |-> None]
    /\ UNCHANGED <<saved, cached, lock, view, done, expiries, races>>

Next ==
    \/ \E c \in Clients :
           \/ \E w \in Changes : Lock(c, w)
           \/ Read(c) \/ CacheHit(c) \/ CacheMiss(c) \/ Query(c) \/ Fill(c)
           \/ GiveUp(c) \/ SaveRow(c) \/ DeleteCached(c) \/ DeleteFails(c)
           \/ Unlock(c)
    \/ Expire \/ Evict \/ Crash

Spec == Init /\ [][Next]_vars
-----------------------------------------------------------------------------
(* What the runs and the proofs check *)

\* Every variable holds values of its kind; an idle client is to change nothing.
TypeOK ==
    /\ saved \in SUBSET Changes
    /\ cached \in (SUBSET Changes) \cup {None}
    /\ lock \in {"free", "held"}
    /\ pc \in [Clients -> Working \cup {"idle"}]
    /\ change \in [Clients -> Changes \cup {None}]
    /\ view \in [Clients -> SUBSET Changes]
    /\ done \in SUBSET Changes
    /\ expiries \in 0..MaxExpiries
    /\ leaks \in 0..MaxLeaks
    /\ races \in {0, 1}
    /\ \A c \in Clients : pc[c] \in {"save", "delete", "unlock"} => ~Reads(c)
    /\ \A c \in Clients : pc[c] = "idle" => Reads(c)

\* Two goroutines never change a player at once, over crashes and restarts,
\* unless a lock expires under its holder: then the late holder's unlock lets
\* in a third one, too (Lock: 5 seconds, DEL by anyone).
MutualExclusion ==
    expiries = 0 => \A c, d \in Clients : ~Reads(c) /\ ~Reads(d) => c = d

\* A cached copy is the row, but while a Save has still to delete it: it gets
\* old only by a lock that expires, a DEL that never happens, or a reader
\* that fills the cache with what it read before a Save (Load, Save).
CacheCoherent ==
    /\ expiries = 0 /\ leaks = 0 /\ races = 0
    /\ \A c \in Clients : pc[c] # "delete"
    => cached \in {None, saved}

\* What a Save has saved no later Save undoes: these three are the only ways
\* to lose a change that a player was told is made.
NoLostUpdate == expiries = 0 /\ leaks = 0 /\ races = 0 => done \subseteq saved

\* troops_service.go:151, UpdateTroops "loads the latest troops" once it has
\* the lock.
LoadsLatest == \A c \in Clients : pc[c] = "save" => view[c] = saved
=============================================================================
