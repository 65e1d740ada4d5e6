------------------------------ MODULE Account ------------------------------
(***************************************************************************)
(* Registration (game/user_service.go Register, db/user_repo.go): a        *)
(* request asks whether its name is taken, draws coordinates until one is  *)
(* free, and inserts the four rows of the account in one transaction.      *)
(* Nothing is locked between the questions and the inserts.                *)
(*                                                                         *)
(* MySQL keeps the primary key of users (generateUID may repeat itself);   *)
(* of other unique keys the repository says nothing.                       *)
(***************************************************************************)
EXTENDS Naturals

CONSTANTS
    Requests,       \* requests to register
    Names,
    Coords,         \* coordinates a city may be drawn at
    Origin,         \* (0,0), which assignCoordinate returns with an error
    Uids,
    MaxAttempts,    \* draws before assignCoordinate gives up, 100 in the code
    MaxFailures,    \* bound: statements that fail
    MaxCrashes,     \* bound: deaths of the process
    None            \* not chosen yet

ASSUME OriginAssumption == Origin \in Coords
ASSUME NoneAssumption ==
    None \notin Names \cup Coords \cup Uids \cup {"created", "taken", "failed"}
ASSUME BoundsAssumption == MaxAttempts \in Nat /\ MaxFailures \in Nat /\ MaxCrashes \in Nat

Tables == {"users", "bags", "buildings", "troops"}

VARIABLES
    pc,         \* pc[r]: what request r does next
    name,       \* name[r], city[r], uid[r]: what r is about to insert
    city,
    uid,
    tries,      \* tries[r]: coordinates found occupied
    pending,    \* pending[r]: the tables r's transaction has inserted into
    rows,       \* rows[t]: the requests whose row is committed in table t
    cached,     \* requests whose account is in Redis
    answer,     \* answer[r]: what the client was told
    failures,
    crashes,
    known       \* history: known[r] had an account when r was taken up

bounds == <<failures, crashes>>
vars == <<pc, name, city, uid, tries, pending, rows, cached, answer, bounds, known>>

Init ==
    /\ pc = [r \in Requests |-> "idle"]
    /\ name = [r \in Requests |-> None]
    /\ city = [r \in Requests |-> None]
    /\ uid = [r \in Requests |-> None]
    /\ tries = [r \in Requests |-> 0]
    /\ pending = [r \in Requests |-> {}]
    /\ rows = [t \in Tables |-> {}]
    /\ cached = {}
    /\ answer = [r \in Requests |-> None]
    /\ failures = 0 /\ crashes = 0
    /\ known = [r \in Requests |-> {}]

\* The request is answered.
Answer(r, a) ==
    /\ pc' = [pc EXCEPT ![r] = "done"]
    /\ answer' = [answer EXCEPT ![r] = a]

Fail ==
    /\ failures < MaxFailures
    /\ failures' = failures + 1
    /\ UNCHANGED crashes
-----------------------------------------------------------------------------
(* Name and city *)

Register(r) ==
    /\ pc[r] = "idle"
    /\ \E n \in Names : name' = [name EXCEPT ![r] = n]
    /\ pc' = [pc EXCEPT ![r] = "name"]
    /\ known' = [known EXCEPT ![r] = rows["users"]]
    /\ UNCHANGED <<city, uid, tries, pending, rows, cached, answer, bounds>>

NameTaken(r) ==
    /\ pc[r] = "name"
    /\ \E s \in rows["users"] : name[s] = name[r]
    /\ Answer(r, "taken")
    /\ UNCHANGED <<name, city, uid, tries, pending, rows, cached, bounds, known>>

\* No user has the name; the uid is drawn.
NameFree(r) ==
    /\ pc[r] = "name"
    /\ \A s \in rows["users"] : name[s] # name[r]
    /\ \E u \in Uids : uid' = [uid EXCEPT ![r] = u]
    /\ pc' = [pc EXCEPT ![r] = "city"]
    /\ UNCHANGED <<name, city, tries, pending, rows, cached, answer, bounds, known>>

\* The error of the query is dropped: the name passes for free.
NameUnknown(r) ==
    /\ pc[r] = "name"
    /\ Fail
    /\ \E u \in Uids : uid' = [uid EXCEPT ![r] = u]
    /\ pc' = [pc EXCEPT ![r] = "city"]
    /\ UNCHANGED <<name, city, tries, pending, rows, cached, answer, known>>

Occupied(c) == \E s \in rows["users"] : city[s] = c

CanDraw(r) == tries[r] < MaxAttempts

DrawOccupied(r) ==
    /\ pc[r] = "city" /\ CanDraw(r)
    /\ \E c \in Coords : Occupied(c)
    /\ tries' = [tries EXCEPT ![r] = @ + 1]
    /\ UNCHANGED <<pc, name, city, uid, pending, rows, cached, answer, bounds, known>>

\* Fault: a coordinate is drawn and not asked about.
DrawAny(r) ==
    /\ pc[r] = "city" /\ CanDraw(r)
    /\ \E c \in Coords : city' = [city EXCEPT ![r] = c]
    /\ pc' = [pc EXCEPT ![r] = "users"]
    /\ UNCHANGED <<name, uid, tries, pending, rows, cached, answer, bounds, known>>

DrawFree(r) ==
    /\ pc[r] = "city" /\ CanDraw(r)
    /\ \E c \in Coords : ~Occupied(c) /\ city' = [city EXCEPT ![r] = c]
    /\ pc' = [pc EXCEPT ![r] = "users"]
    /\ UNCHANGED <<name, uid, tries, pending, rows, cached, answer, bounds, known>>

\* Fault: without a coordinate the request is left where it is.
DrawOn(r) == FALSE

\* No attempt is left: the error is overwritten, the city is at the origin.
DrawGivesUp(r) ==
    /\ pc[r] = "city" /\ ~CanDraw(r)
    /\ city' = [city EXCEPT ![r] = Origin]
    /\ pc' = [pc EXCEPT ![r] = "users"]
    /\ UNCHANGED <<name, uid, tries, pending, rows, cached, answer, bounds, known>>

\* The query fails: the same.
DrawFails(r) ==
    /\ pc[r] = "city" /\ CanDraw(r)
    /\ Fail
    /\ city' = [city EXCEPT ![r] = Origin]
    /\ pc' = [pc EXCEPT ![r] = "users"]
    /\ UNCHANGED <<name, uid, tries, pending, rows, cached, answer, known>>
-----------------------------------------------------------------------------
(* CreateUser *)

NextTable == [users |-> "bags", bags |-> "buildings", buildings |-> "troops", troops |-> "commit"]

\* Requests that have, or are about to commit, an account with r's uid.
SameUid(r) ==
    {s \in Requests \ {r} : uid[s] = uid[r] /\ (s \in rows["users"] \/ "users" \in pending[s])}

\* An insert into users waits for a transaction that has inserted the uid, and
\* fails when it has been committed (InsertFails).
Insert(r) ==
    /\ pc[r] \in Tables
    /\ pc[r] = "users" => SameUid(r) = {}
    /\ pending' = [pending EXCEPT ![r] = @ \cup {pc[r]}]
    /\ pc' = [pc EXCEPT ![r] = NextTable[pc[r]]]
    /\ UNCHANGED <<name, city, uid, tries, rows, cached, answer, bounds, known>>

\* The uid is taken: nothing was inserted.
InsertDuplicate(r) ==
    /\ pc[r] = "users"
    /\ SameUid(r) \cap rows["users"] # {}
    /\ Answer(r, "failed")
    /\ UNCHANGED <<name, city, uid, tries, pending, rows, cached, bounds, known>>

\* Fault: the transaction is not rolled back but committed.
InsertFailsCommits(r) ==
    /\ pc[r] \in Tables
    /\ Fail
    /\ rows' = [t \in Tables |-> IF t \in pending[r] THEN rows[t] \cup {r} ELSE rows[t]]
    /\ pending' = [pending EXCEPT ![r] = {}]
    /\ Answer(r, "failed")
    /\ UNCHANGED <<name, city, uid, tries, cached, known>>

\* A statement fails, and the transaction is rolled back.
InsertFails(r) ==
    /\ pc[r] \in Tables
    /\ Fail
    /\ pending' = [pending EXCEPT ![r] = {}]
    /\ Answer(r, "failed")
    /\ UNCHANGED <<name, city, uid, tries, rows, cached, known>>

Committed(r) == [t \in Tables |-> IF t \in pending[r] THEN rows[t] \cup {r} ELSE rows[t]]

\* Fault: the client is answered, and Redis written, with the transaction open.
CacheFirst(r) ==
    /\ pc[r] = "commit"
    /\ cached' = cached \cup {r}
    /\ Answer(r, "created")
    /\ UNCHANGED <<name, city, uid, tries, pending, rows, bounds, known>>

Commit(r) ==
    /\ pc[r] = "commit"
    /\ rows' = Committed(r)
    /\ pending' = [pending EXCEPT ![r] = {}]
    /\ pc' = [pc EXCEPT ![r] = "cache"]
    /\ UNCHANGED <<name, city, uid, tries, cached, answer, bounds, known>>

\* The commit's answer is lost: it may have been done.
CommitFails(r) ==
    /\ pc[r] = "commit"
    /\ Fail
    /\ rows' \in {rows, Committed(r)}
    /\ pending' = [pending EXCEPT ![r] = {}]
    /\ Answer(r, "failed")
    /\ UNCHANGED <<name, city, uid, tries, cached, known>>

\* The account goes to Redis, if it answers, and the client gets its tokens.
Cache(r) ==
    /\ pc[r] = "cache"
    /\ cached' \in {cached, cached \cup {r}}
    /\ Answer(r, "created")
    /\ UNCHANGED <<name, city, uid, tries, pending, rows, bounds, known>>
-----------------------------------------------------------------------------
\* The process dies: clients hear nothing, MySQL rolls back what is open.
Crash ==
    /\ crashes < MaxCrashes
    /\ crashes' = crashes + 1
    /\ pc' = [r \in Requests |-> IF pc[r] = "idle" THEN "idle" ELSE "done"]
    /\ pending' = [r \in Requests |-> {}]
    /\ UNCHANGED <<name, city, uid, tries, rows, cached, answer, failures, known>>

\* What a request does that has been taken up.
Step(r) ==
    \/ NameTaken(r) \/ NameFree(r) \/ NameUnknown(r)
    \/ DrawOccupied(r) \/ DrawFree(r) \/ DrawGivesUp(r) \/ DrawFails(r)
    \/ Insert(r) \/ InsertDuplicate(r) \/ InsertFails(r)
    \/ Commit(r) \/ CommitFails(r) \/ Cache(r)

Next ==
    \/ Crash
    \/ \E r \in Requests :
           \/ Register(r) \/ NameTaken(r) \/ NameFree(r) \/ NameUnknown(r)
           \/ DrawOccupied(r) \/ DrawFree(r) \/ DrawGivesUp(r) \/ DrawFails(r)
           \/ Insert(r) \/ InsertDuplicate(r) \/ InsertFails(r)
           \/ Commit(r) \/ CommitFails(r) \/ Cache(r)

Spec == Init /\ [][Next]_vars

\* A goroutine that can go on does.
FairSpec == Spec /\ \A r \in Requests : WF_vars(Step(r))
-----------------------------------------------------------------------------
(* What the runs and the proofs check *)

Users == rows["users"]

\* Every variable holds values of its kind; a transaction is open only while
\* its statements are made.
TypeOK ==
    /\ pc \in [Requests -> {"idle", "name", "city", "commit", "cache", "done"} \cup Tables]
    /\ name \in [Requests -> Names \cup {None}]
    /\ city \in [Requests -> Coords \cup {None}]
    /\ uid \in [Requests -> Uids \cup {None}]
    /\ tries \in [Requests -> 0..MaxAttempts]
    /\ pending \in [Requests -> SUBSET Tables]
    /\ \A r \in Requests : pending[r] # {} => pc[r] \in Tables \cup {"commit"}
    /\ rows \in [Tables -> SUBSET Requests]
    /\ cached \in SUBSET Requests
    /\ answer \in [Requests -> {None, "created", "taken", "failed"}]
    /\ failures \in 0..MaxFailures
    /\ crashes \in 0..MaxCrashes
    /\ known \in [Requests -> SUBSET Requests]

\* An account is whole: a user has a bag, buildings and troops, and none of
\* them is there without its user, whichever statement failed and wherever the
\* process died (CreateUser).
WholeAccounts == \A t \in Tables : rows[t] = Users

\* Each was taken up before the other had its account.
Concurrent(r, s) == r \notin known[s] /\ s \notin known[r]

\* Two accounts have one name only if their requests overlapped or a query has
\* failed, and one city only if they overlapped or both are at the origin: what
\* was committed when a request came in is seen by it, however many draws, other
\* requests and deaths are in between, as no lock holds the answers it got
\* (Register, assignCoordinate).
SharedIfConcurrent ==
    \A r, s \in Users :
        r # s /\ ~Concurrent(r, s) =>
            /\ name[r] = name[s] => failures > 0
            /\ city[r] = city[s] => city[r] = Origin

\* A client told that it is registered has an account, and what Redis has of an
\* account is in MySQL; a client told that the name is taken meets another
\* account, and has none.  Only "failed" may hide an account (Register).
AnswersHold ==
    /\ cached \subseteq Users
    /\ \A r \in Requests :
           /\ answer[r] = "created" => r \in Users
           /\ answer[r] = "taken" => r \notin Users /\ \E s \in Users : name[s] = name[r]

\* A request that is taken up comes to an end, however often it draws and
\* whichever transactions it waits for.
RegistrationsEnd == \A r \in Requests : pc[r] = "name" ~> pc[r] = "done"
=============================================================================
