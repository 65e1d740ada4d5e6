--------------------------- MODULE AccountProofs ---------------------------
(***************************************************************************)
(* Proofs about Account, for any requests, names, coordinates and bounds.  *)
(***************************************************************************)
EXTENDS Account, TLAPS

\* The tables a transaction has been through when the request is at p.
Inserted(p) ==
    IF p = "bags" THEN {"users"}
    ELSE IF p = "buildings" THEN {"users", "bags"}
    ELSE IF p = "troops" THEN {"users", "bags", "buildings"}
    ELSE IF p = "commit" THEN Tables ELSE {}

\* A transaction has been through the tables before the one its request is at.
PendingInv == \A r \in Requests : pending[r] = Inserted(pc[r])

\* Who has an account has been through the commit, and who is at the cache has
\* an account.
UsersInv ==
    \A r \in Requests :
        /\ r \in Users => pc[r] \in {"cache", "done"}
        /\ pc[r] = "cache" => r \in Users
        /\ answer[r] # None => pc[r] = "done"

\* Those a request found when it was taken up have accounts, and other names if
\* it could ask.
NamesInv ==
    \A s \in Requests :
        /\ known[s] \subseteq Users
        /\ pc[s] = "idle" => uid[s] = None
        /\ pc[s] \in Tables \cup {"city", "commit", "cache"} \/ s \in Users => uid[s] # None
        /\ uid[s] # None /\ failures = 0 => \A r \in known[s] : name[r] # name[s]

\* They have other cities, too, but for the origin.
CitiesInv ==
    \A s \in Requests :
        /\ pc[s] = "idle" => city[s] = None
        /\ pc[s] \in Tables \cup {"commit", "cache"} \/ s \in Users => city[s] # None
        /\ city[s] # None => \A r \in known[s] : city[r] # city[s] \/ city[s] = Origin

IInv ==
    TypeOK /\ WholeAccounts /\ PendingInv /\ UsersInv /\ NamesInv /\ CitiesInv /\ AnswersHold

LEMMA InitInv == Init => IInv
<1> SUFFICES ASSUME Init PROVE IInv
  OBVIOUS
<1>1. TypeOK
  BY BoundsAssumption DEF Init, TypeOK, Tables
<1>2. WholeAccounts
  BY DEF Init, WholeAccounts, Tables, Users
<1>3. PendingInv
  BY DEF Init, PendingInv, Inserted
<1>4. UsersInv /\ NamesInv /\ CitiesInv
  BY NoneAssumption DEF Init, UsersInv, NamesInv, CitiesInv, Users, Tables
<1>5. AnswersHold
  BY NoneAssumption DEF Init, AnswersHold
<1> QED BY <1>1, <1>2, <1>3, <1>4, <1>5 DEF IInv

\* A failure is counted.
LEMMA FailIsSeen ==
    ASSUME IInv
    PROVE  failures \in Nat /\ (Fail => failures' # 0)
BY BoundsAssumption DEF IInv, TypeOK, Fail

\* A step that changes only the place, the uid, the tries, the transaction and
\* the answer of requests without an account, keeps what is said of accounts.
LEMMA PrivateStep ==
    ASSUME IInv, NEW r \in Requests, r \notin Users, pc[r] # "done",
           UNCHANGED <<name, city, uid, rows, cached, known>>, failures' = 0 => failures = 0,
           NEW p, p \notin {"idle", "name", "city", "cache"}, pc[r] \in Tables,
           pc' = [pc EXCEPT ![r] = p],
           pending' = [pending EXCEPT ![r] = Inserted(p)],
           \/ answer' = answer
           \/ p = "done" /\ answer' = [answer EXCEPT ![r] = "failed"]
    PROVE  /\ WholeAccounts' /\ PendingInv' /\ UsersInv'
           /\ NamesInv' /\ CitiesInv' /\ AnswersHold'
<1>0. /\ pc \in [Requests -> {"idle", "name", "city", "commit", "cache", "done"} \cup Tables]
      /\ pending \in [Requests -> SUBSET Tables]
      /\ answer \in [Requests -> {None, "created", "taken", "failed"}]
      /\ Users' = Users
  BY DEF IInv, TypeOK, Users
<1>1. WholeAccounts'
  BY DEF IInv, WholeAccounts, Users
<1>2. PendingInv'
  BY <1>0 DEF IInv, PendingInv
<1>3. UsersInv'
  BY <1>0 DEF IInv, UsersInv
<1>4. NamesInv' /\ CitiesInv'
  BY <1>0 DEF IInv, NamesInv, CitiesInv
<1>5. AnswersHold'
  BY <1>0, NoneAssumption DEF IInv, AnswersHold
<1> QED BY <1>1, <1>2, <1>3, <1>4, <1>5

\* A request is taken up.
LEMMA RegisterKeepsInv ==
    ASSUME IInv, NEW r \in Requests, Register(r)
    PROVE  IInv'
<1>0. /\ pc[r] = "idle" /\ r \notin Users /\ Users' = Users
      /\ \A s \in Users : name'[s] = name[s]
  BY DEF IInv, TypeOK, UsersInv, Register, Users, Tables
<1>p. pending[r] = {}
  BY <1>0 DEF IInv, PendingInv, Inserted
<1>1. TypeOK'
  <2>1. Users \subseteq Requests
    BY DEF IInv, TypeOK, Users, Tables
  <2> QED BY <1>0, <1>p, <2>1 DEF IInv, TypeOK, Register, bounds, Users
<1>2. WholeAccounts'
  BY DEF IInv, WholeAccounts, Register, Users
<1>3. PendingInv'
  BY DEF IInv, TypeOK, PendingInv, Inserted, Register
<1>4. UsersInv'
  BY <1>0 DEF IInv, TypeOK, UsersInv, Register
<1>k. /\ \A s \in Requests : known'[s] = (IF s = r THEN Users ELSE known[s])
      /\ \A s \in Requests : pc'[s] = (IF s = r THEN "name" ELSE pc[s])
      /\ \A s \in Requests : s # r => name'[s] = name[s]
      /\ UNCHANGED <<uid, city, failures>>
  BY DEF IInv, TypeOK, Register, bounds, Users
<1>5. NamesInv'
  <2>1. uid[r] = None
    BY <1>0 DEF IInv, NamesInv
  <2>2. \A s \in Requests : r \notin known[s] /\ known[s] \subseteq Requests
    BY <1>0 DEF IInv, TypeOK, NamesInv
  <2> QED BY <1>0, <1>k, <2>1, <2>2 DEF IInv, NamesInv, Tables
<1>6. CitiesInv'
  <2>1. city[r] = None
    BY <1>0 DEF IInv, CitiesInv
  <2> QED BY <1>0, <1>k, <2>1 DEF IInv, CitiesInv, Tables
<1>7. AnswersHold'
  <2>1. \A q \in Requests : answer[q] = "taken" => q # r
    BY <1>0, NoneAssumption DEF IInv, UsersInv
  <2> QED BY <1>0, <2>1 DEF IInv, TypeOK, AnswersHold, Register
<1> QED BY <1>1, <1>2, <1>3, <1>4, <1>5, <1>6, <1>7 DEF IInv

\* The question for the name.
LEMMA NameKeepsInv ==
    ASSUME IInv, NEW r \in Requests, NameTaken(r) \/ NameFree(r) \/ NameUnknown(r)
    PROVE  IInv'
<1>0. pc[r] = "name" /\ r \notin Users /\ Users' = Users /\ Users \subseteq Requests
  BY DEF IInv, TypeOK, UsersInv, NameTaken, NameFree, NameUnknown, Users, Tables
<1>p. pending[r] = {}
  BY <1>0 DEF IInv, PendingInv, Inserted
<1>1. TypeOK'
  <2>1. CASE NameTaken(r)
    BY <2>1, <1>p DEF IInv, TypeOK, NameTaken, Answer, bounds
  <2>2. CASE NameFree(r)
    BY <2>2, <1>0, <1>p DEF IInv, TypeOK, NameFree, Users, bounds
  <2>3. CASE NameUnknown(r)
    BY <2>3, <1>p, BoundsAssumption DEF IInv, TypeOK, NameUnknown, Fail
  <2> QED BY <2>1, <2>2, <2>3
<1>2. WholeAccounts'
  BY <1>0 DEF IInv, WholeAccounts, NameTaken, NameFree, NameUnknown
<1>3. PendingInv'
  <2>1. \E p \in {"done", "city"} : pc' = [pc EXCEPT ![r] = p]
    BY DEF NameTaken, NameFree, NameUnknown, Answer
  <2>2. pending' = pending
    BY DEF NameTaken, NameFree, NameUnknown
  <2> QED BY <1>0, <2>1, <2>2 DEF IInv, TypeOK, PendingInv, Inserted
<1>4. UsersInv'
  <2>1. CASE NameTaken(r)
    BY <2>1, <1>0 DEF IInv, TypeOK, UsersInv, NameTaken, Answer
  <2>2. CASE NameFree(r) \/ NameUnknown(r)
    BY <2>2, <1>0 DEF IInv, TypeOK, UsersInv, NameFree, NameUnknown
  <2> QED BY <2>1, <2>2
<1>k. /\ \E p \in {"city", "done"} :
            /\ \A s \in Requests : pc'[s] = (IF s = r THEN p ELSE pc[s])
            /\ \/ p = "done" /\ uid' = uid
               \/ p = "city" /\ \E u \in Uids : uid' = [uid EXCEPT ![r] = u]
      /\ UNCHANGED <<name, city, known>>
  BY DEF IInv, TypeOK, NameTaken, NameFree, NameUnknown, Answer
<1>5. NamesInv'
  <2>1. \A s \in Requests : s # r => uid'[s] = uid[s]
    BY <1>k DEF IInv, TypeOK
  <2>2. uid'[r] = uid[r] \/ uid'[r] # None
    BY <1>k, NoneAssumption DEF IInv, TypeOK
  <2>3. \A s \in Requests :
            /\ known'[s] \subseteq Users'
            /\ pc'[s] = "idle" => uid'[s] = None
            /\ pc'[s] \in Tables \cup {"city", "commit", "cache"} \/ s \in Users' => uid'[s] # None
    <3>1. \A s \in Requests : s # r => pc'[s] = pc[s]
      BY <1>k
    <3>2. CASE pc'[r] = "done"
      BY <1>0, <1>k, <2>1, <3>1, <3>2 DEF IInv, NamesInv, Tables
    <3>3. CASE pc'[r] = "city"
      <4>1. uid'[r] # None
        BY <1>k, <3>3, NoneAssumption DEF IInv, TypeOK
      <4> QED BY <1>0, <1>k, <2>1, <3>1, <3>3, <4>1 DEF IInv, NamesInv
    <3> QED BY <1>k, <3>2, <3>3
  <2>4. ASSUME NEW s \in Requests, uid'[s] # None, failures' = 0, NEW q \in known'[s]
        PROVE  name'[q] # name'[s]
    <3>1. failures = 0 /\ ~NameUnknown(r)
      BY <2>4, FailIsSeen DEF NameTaken, NameFree, NameUnknown, bounds
    <3>2. CASE uid'[s] = uid[s]
      BY <1>k, <2>4, <3>1, <3>2 DEF IInv, NamesInv
    <3>3. CASE uid'[s] # uid[s]
      <4>1. s = r /\ NameFree(r)
        BY <2>1, <3>1, <3>3 DEF NameTaken
      <4>2. q \in Users
        BY <1>k, <2>4 DEF IInv, NamesInv
      <4> QED BY <1>k, <4>1, <4>2 DEF NameFree, Users
    <3> QED BY <3>2, <3>3
  <2> QED BY <2>3, <2>4 DEF NamesInv
<1>6. CitiesInv'
  BY <1>0, <1>k DEF IInv, CitiesInv, Tables
<1>7. AnswersHold'
  <2>1. CASE NameTaken(r)
    BY <2>1, <1>0 DEF IInv, TypeOK, AnswersHold, NameTaken, Answer, Users
  <2>2. CASE NameFree(r) \/ NameUnknown(r)
    BY <2>2, <1>0 DEF IInv, AnswersHold, NameFree, NameUnknown
  <2> QED BY <2>1, <2>2
<1> QED BY <1>1, <1>2, <1>3, <1>4, <1>5, <1>6, <1>7 DEF IInv

\* The draws of a city.
LEMMA DrawKeepsInv ==
    ASSUME IInv, NEW r \in Requests,
           DrawOccupied(r) \/ DrawFree(r) \/ DrawGivesUp(r) \/ DrawFails(r)
    PROVE  IInv'
<1>0. pc[r] = "city" /\ r \notin Users /\ Users' = Users /\ Users \subseteq Requests
  BY DEF IInv, TypeOK, UsersInv, DrawOccupied, DrawFree, DrawGivesUp, DrawFails, Users, Tables
<1>1. TypeOK'
  <2>1. CASE DrawOccupied(r)
    BY <2>1, BoundsAssumption DEF IInv, TypeOK, DrawOccupied, CanDraw, bounds
  <2>2. CASE DrawFree(r)
    BY <2>2, <1>0 DEF IInv, TypeOK, DrawFree, Users, Tables, bounds
  <2>3. CASE DrawGivesUp(r)
    BY <2>3, OriginAssumption DEF IInv, TypeOK, DrawGivesUp, Tables, bounds
  <2>4. CASE DrawFails(r)
    BY <2>4, OriginAssumption, BoundsAssumption DEF IInv, TypeOK, DrawFails, Fail, Tables
  <2> QED BY <2>1, <2>2, <2>3, <2>4
<1>2. UNCHANGED <<name, uid, pending, rows, cached, answer, known>>
  BY DEF DrawOccupied, DrawFree, DrawGivesUp, DrawFails
<1>3. pc' = pc \/ pc' = [pc EXCEPT ![r] = "users"]
  BY DEF DrawOccupied, DrawFree, DrawGivesUp, DrawFails
<1>4. WholeAccounts' /\ AnswersHold'
  BY <1>0, <1>2 DEF IInv, WholeAccounts, AnswersHold
<1>5. PendingInv'
  BY <1>0, <1>2, <1>3 DEF IInv, TypeOK, PendingInv, Inserted
<1>6. UsersInv'
  BY <1>0, <1>2, <1>3 DEF IInv, TypeOK, UsersInv
<1>8. NamesInv'
  <2>1. failures' = 0 => failures = 0
    BY FailIsSeen DEF DrawOccupied, DrawFree, DrawGivesUp, DrawFails, bounds
  <2> QED BY <1>0, <1>2, <1>3, <2>1 DEF IInv, TypeOK, NamesInv, Tables
<1>7. CitiesInv'
  <2>1. CASE DrawOccupied(r)
    BY <2>1, <1>0 DEF IInv, CitiesInv, DrawOccupied
  <2>2. CASE ~DrawOccupied(r)
    <3>1. PICK c \in Coords : city' = [city EXCEPT ![r] = c] /\ (c = Origin \/ ~Occupied(c))
      BY <2>2, OriginAssumption DEF DrawFree, DrawGivesUp, DrawFails
    <3>2. pc' = [pc EXCEPT ![r] = "users"]
      BY <2>2 DEF DrawFree, DrawGivesUp, DrawFails
    <3>3. \A s \in Requests : known[s] \subseteq Users
      BY DEF IInv, NamesInv
    <3>4. /\ \A s \in Requests : city'[s] = (IF s = r THEN c ELSE city[s])
          /\ \A s \in Requests : pc'[s] = (IF s = r THEN "users" ELSE pc[s])
          /\ c # None
      BY <3>1, <3>2, NoneAssumption DEF IInv, TypeOK
    <3>5. \A q \in known[r] : q # r /\ (city[q] # c \/ c = Origin)
      BY <1>0, <3>1, <3>3 DEF Occupied, Users
    <3>6. \A s \in Requests : r \notin known[s]
      BY <1>0, <3>3
    <3> QED BY <1>0, <1>2, <3>3, <3>4, <3>5, <3>6 DEF IInv, CitiesInv
  <2> QED BY <2>1, <2>2
<1> QED BY <1>1, <1>4, <1>5, <1>6, <1>7, <1>8 DEF IInv

\* The transaction's statements, done or failed.
LEMMA InsertKeepsInv ==
    ASSUME IInv, NEW r \in Requests, Insert(r) \/ InsertDuplicate(r) \/ InsertFails(r)
    PROVE  IInv'
<1>0. pc[r] \in Tables /\ r \notin Users
  BY DEF IInv, UsersInv, Insert, InsertDuplicate, InsertFails, Tables
<1>p. pending[r] = Inserted(pc[r])
  BY DEF IInv, PendingInv
<1>1. TypeOK'
  <2>1. CASE Insert(r)
    BY <2>1, <1>0 DEF IInv, TypeOK, Insert, NextTable, Tables, bounds
  <2>2. CASE InsertDuplicate(r)
    BY <2>2, <1>p DEF IInv, TypeOK, InsertDuplicate, Answer, Inserted, bounds
  <2>3. CASE InsertFails(r)
    BY <2>3, BoundsAssumption DEF IInv, TypeOK, InsertFails, Answer, Fail
  <2> QED BY <2>1, <2>2, <2>3
<1>f. failures' = 0 => failures = 0
  BY FailIsSeen DEF Insert, InsertDuplicate, InsertFails, bounds
<1>2. CASE Insert(r)
  <2> DEFINE p == NextTable[pc[r]]
  <2>1. p \in {"bags", "buildings", "troops", "commit"} /\ pc[r] # "done"
    BY <1>0 DEF NextTable, Tables
  <2>2. Inserted(pc[r]) \cup {pc[r]} = Inserted(p)
    BY <1>0 DEF NextTable, Tables, Inserted
  <2>3. pending' = [pending EXCEPT ![r] = Inserted(p)]
    BY <1>2, <1>p, <2>2 DEF Insert
  <2>4. /\ UNCHANGED <<name, city, uid, rows, cached, known, answer>>
        /\ pc' = [pc EXCEPT ![r] = p]
    BY <1>2 DEF Insert
  <2> HIDE DEF p
  <2> QED BY <1>0, <1>1, <1>f, <2>1, <2>3, <2>4, PrivateStep DEF IInv
<1>3. CASE InsertDuplicate(r) \/ InsertFails(r)
  <2>1. pc[r] # "done"
    BY <1>0 DEF Tables
  <2>2. pending' = [pending EXCEPT ![r] = Inserted("done")]
    BY <1>3, <1>p DEF IInv, TypeOK, InsertDuplicate, InsertFails, Inserted
  <2>3. /\ UNCHANGED <<name, city, uid, rows, cached, known>>
        /\ pc' = [pc EXCEPT ![r] = "done"]
        /\ answer' = [answer EXCEPT ![r] = "failed"]
    BY <1>3 DEF InsertDuplicate, InsertFails, Answer
  <2> QED BY <1>0, <1>1, <1>f, <2>1, <2>2, <2>3, PrivateStep DEF IInv
<1> QED BY <1>2, <1>3

\* The commit, done, failed, or done and taken for failed.
LEMMA CommitKeepsInv ==
    ASSUME IInv, NEW r \in Requests, Commit(r) \/ CommitFails(r)
    PROVE  IInv'
<1>0. /\ pc[r] = "commit" /\ r \notin Users /\ pending[r] = Tables
      /\ pending' = [pending EXCEPT ![r] = {}]
      /\ UNCHANGED <<name, city, uid, tries, cached, known>>
  BY DEF IInv, UsersInv, PendingInv, Inserted, Commit, CommitFails, Tables
<1>1. \/ rows' = rows /\ CommitFails(r)
      \/ rows' = [t \in Tables |-> rows[t] \cup {r}]
  BY <1>0 DEF Commit, CommitFails, Committed
<1>2. TypeOK'
  <2>1. rows' \in [Tables -> SUBSET Requests]
    BY <1>1 DEF IInv, TypeOK
  <2>2. CASE Commit(r)
    BY <1>0, <2>1, <2>2 DEF IInv, TypeOK, Commit, bounds
  <2>3. CASE CommitFails(r)
    BY <1>0, <2>1, <2>3, BoundsAssumption DEF IInv, TypeOK, CommitFails, Answer, Fail
  <2> QED BY <2>2, <2>3
<1>3. WholeAccounts' /\ (Users' = Users \/ Users' = Users \cup {r}) /\ Users \subseteq Users'
  BY <1>1 DEF IInv, WholeAccounts, Users, Tables
<1>4. PendingInv'
  <2>1. \E p \in {"cache", "done"} : pc' = [pc EXCEPT ![r] = p]
    BY DEF Commit, CommitFails, Answer
  <2> QED BY <1>0, <2>1 DEF IInv, TypeOK, PendingInv, Inserted
<1>5. UsersInv'
  <2>1. CASE Commit(r)
    <3>1. Users' = Users \cup {r}
      BY <2>1, <1>0 DEF Commit, Committed, Users, Tables
    <3> QED BY <2>1, <3>1, <1>0 DEF IInv, TypeOK, UsersInv, Commit
  <2>2. CASE CommitFails(r)
    BY <2>2, <1>0, <1>3 DEF IInv, TypeOK, UsersInv, CommitFails, Answer
  <2> QED BY <2>1, <2>2
<1>6. NamesInv' /\ CitiesInv'
  <2>1. \A s \in Requests : s # r => pc'[s] = pc[s]
    BY <1>0 DEF IInv, TypeOK, Commit, CommitFails, Answer
  <2>2. pc'[r] # "idle" /\ uid[r] # None /\ city[r] # None
    BY <1>0 DEF IInv, TypeOK, NamesInv, CitiesInv, Commit, CommitFails, Answer
  <2>3. failures' = 0 => failures = 0
    BY FailIsSeen DEF Commit, CommitFails, bounds
  <2> QED BY <1>0, <1>3, <2>1, <2>2, <2>3 DEF IInv, NamesInv, CitiesInv
<1>7. AnswersHold'
  <2>1. answer' = answer \/ answer' = [answer EXCEPT ![r] = "failed"]
    BY DEF Commit, CommitFails, Answer
  <2>2. answer[r] = None
    BY <1>0 DEF IInv, UsersInv
  <2>3. \A q \in Requests : answer'[q] \in {"created", "taken"} => answer'[q] = answer[q] /\ q # r
    BY <2>1, <2>2, NoneAssumption DEF IInv, TypeOK
  <2> QED BY <1>0, <1>3, <2>3 DEF IInv, AnswersHold
<1> QED BY <1>2, <1>3, <1>4, <1>5, <1>6, <1>7 DEF IInv

\* The account goes to Redis and the client gets its answer.
LEMMA CacheKeepsInv ==
    ASSUME IInv, NEW r \in Requests, Cache(r)
    PROVE  IInv'
<1>0. pc[r] = "cache" /\ r \in Users /\ Users' = Users /\ pending[r] = {}
  BY DEF IInv, UsersInv, PendingInv, Inserted, Cache, Users
<1>1. TypeOK'
  BY <1>0 DEF IInv, TypeOK, Cache, Answer, bounds
<1>2. WholeAccounts' /\ PendingInv'
  BY <1>0 DEF IInv, TypeOK, WholeAccounts, PendingInv, Inserted, Cache, Answer
<1>3. UsersInv'
  BY <1>0 DEF IInv, TypeOK, UsersInv, Cache, Answer
<1>4. NamesInv' /\ CitiesInv'
  <2>1. /\ \A s \in Requests : pc'[s] = (IF s = r THEN "done" ELSE pc[s])
        /\ UNCHANGED <<name, city, uid, known, failures>>
    BY DEF IInv, TypeOK, Cache, Answer, bounds
  <2> QED BY <1>0, <2>1 DEF IInv, NamesInv, CitiesInv, Tables
<1>5. AnswersHold'
  BY <1>0 DEF IInv, TypeOK, AnswersHold, Cache, Answer
<1> QED BY <1>1, <1>2, <1>3, <1>4, <1>5 DEF IInv

\* The process dies.
LEMMA CrashKeepsInv ==
    ASSUME IInv, Crash
    PROVE  IInv'
<1>0. Users' = Users
  BY DEF Crash, Users
<1>1. TypeOK'
  BY BoundsAssumption DEF IInv, TypeOK, Crash
<1>2. WholeAccounts' /\ PendingInv'
  BY <1>0 DEF IInv, TypeOK, WholeAccounts, PendingInv, Inserted, Crash
<1>3. UsersInv' /\ NamesInv' /\ CitiesInv'
  <2>1. \A s \in Requests : /\ pc'[s] \in {"idle", "done"}
                            /\ pc'[s] = "idle" => pc[s] = "idle"
                            /\ pc[s] \in {"cache", "done"} => pc'[s] = "done"
    BY DEF IInv, TypeOK, Crash
  <2>2. UNCHANGED <<name, city, uid, known, failures, answer>>
    BY DEF Crash
  <2>3. UsersInv'
    BY <1>0, <2>1, <2>2 DEF IInv, UsersInv
  <2> QED BY <1>0, <2>1, <2>2, <2>3 DEF IInv, NamesInv, CitiesInv, Tables
<1>4. AnswersHold'
  BY <1>0 DEF IInv, AnswersHold, Crash
<1> QED BY <1>1, <1>2, <1>3, <1>4 DEF IInv

\* Every step keeps the invariant, and so does a stutter.
LEMMA NextInv == IInv /\ [Next]_vars => IInv'
<1> SUFFICES ASSUME IInv, [Next]_vars PROVE IInv'
  OBVIOUS
<1>1. CASE Crash
  BY <1>1, CrashKeepsInv
<1>2. ASSUME NEW r \in Requests, Register(r) PROVE IInv'
  BY <1>2, RegisterKeepsInv
<1>3. ASSUME NEW r \in Requests, NameTaken(r) \/ NameFree(r) \/ NameUnknown(r) PROVE IInv'
  BY <1>3, NameKeepsInv
<1>4. ASSUME NEW r \in Requests,
             DrawOccupied(r) \/ DrawFree(r) \/ DrawGivesUp(r) \/ DrawFails(r)
      PROVE  IInv'
  BY <1>4, DrawKeepsInv
<1>5. ASSUME NEW r \in Requests, Insert(r) \/ InsertDuplicate(r) \/ InsertFails(r) PROVE IInv'
  BY <1>5, InsertKeepsInv
<1>6. ASSUME NEW r \in Requests, Commit(r) \/ CommitFails(r) PROVE IInv'
  BY <1>6, CommitKeepsInv
<1>7. ASSUME NEW r \in Requests, Cache(r) PROVE IInv'
  BY <1>7, CacheKeepsInv
<1>8. CASE UNCHANGED vars
  BY <1>8 DEF vars, bounds, IInv, TypeOK, WholeAccounts, PendingInv, UsersInv,
              NamesInv, CitiesInv, AnswersHold, Users
<1> QED BY <1>1, <1>2, <1>3, <1>4, <1>5, <1>6, <1>7, <1>8 DEF Next

\* The invariant holds in every reachable state of Account.
THEOREM Invariance == Spec => []IInv
<1>1. Init => IInv
  BY InitInv
<1>2. IInv /\ [Next]_vars => IInv'
  BY NextInv
<1> QED BY <1>1, <1>2, PTL DEF Spec

\* Every variable of Account keeps to its kind (TypeOK).
THEOREM TypeCorrect == Spec => []TypeOK
<1>1. IInv => TypeOK
  BY DEF IInv
<1> QED BY <1>1, Invariance, PTL

\* A user has all its rows and no row is without its user (CreateUser).
THEOREM AccountsAreWhole == Spec => []WholeAccounts
<1>1. IInv => WholeAccounts
  BY DEF IInv
<1> QED BY <1>1, Invariance, PTL

\* What clients are told is so, and what Redis has is in MySQL (Register).
THEOREM AnswersAreTrue == Spec => []AnswersHold
<1>1. IInv => AnswersHold
  BY DEF IInv
<1> QED BY <1>1, Invariance, PTL

\* Requests of which one came in after the other was done never share a name or
\* a city, unless a query failed or at the origin (Register, assignCoordinate).
THEOREM SharedOnlyByConcurrent == Spec => []SharedIfConcurrent
<1>1. IInv => SharedIfConcurrent
  BY DEF IInv, TypeOK, NamesInv, CitiesInv, SharedIfConcurrent, Concurrent, Users, Tables
<1> QED BY <1>1, Invariance, PTL
=============================================================================
