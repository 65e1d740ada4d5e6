------------------------------ MODULE Alliance ------------------------------
(***************************************************************************)
(* Alliances (game/alliance_service.go, db/alliance_repo.go): founding,    *)
(* joining, the approval of an application, and the kick.  MySQL has the   *)
(* alliances, their members and each player's alliance; Redis has a copy   *)
(* of an alliance and of a player for 30 minutes.  Only a kick locks, and  *)
(* its locks keep nobody out (LockMulti).                                  *)
(*                                                                         *)
(* Every alliance is free to join: Create stores MemberPosLeader, 1, as    *)
(* its JoinType, and 1 is JoinTypeFree.  The save of a user never succeeds *)
(* (db/user_repo.go:98), so Create ends with it and a join drops its       *)
(* error.  (aid, uid) is taken to be the key of alliance_members.          *)
(***************************************************************************)
EXTENDS Integers, FiniteSets

CONSTANTS
    Players,
    Handlers,       \* goroutines that serve requests
    MaxAlliances,   \* bound: alliances founded
    MaxMember,      \* members of an alliance, 50 in the code
    MaxRequests,    \* bound: requests
    MaxStops,       \* bound: requests that end between two steps
    None            \* no leader, no copy, nobody

ASSUME NoneAssumption == None \notin Players \cup Int
ASSUME BoundsAssumption ==
    /\ MaxAlliances \in Nat /\ MaxMember \in Nat \ {0}
    /\ MaxRequests \in Nat /\ MaxStops \in Nat

\* Alliances by id, which MySQL counts up; 0 is no alliance.
Aids == 1..MaxAlliances

VARIABLES
    leader,     \* MySQL: leader[a] of the alliance, or None: not founded
    count,      \* MySQL: count[a], alliances.member_count
    members,    \* MySQL: members[a], the rows of alliance_members
    allianceOf, \* MySQL: allianceOf[u], users.alliance_id
    copy,       \* Redis: copy[a], the member count of the cached alliance
    userCopy,   \* Redis: userCopy[u], the alliance of the cached user
    locks,      \* Redis: keys that are set
    pc,         \* pc[h]: what the request of h does next
    job,        \* job[h]: what it works with
    requests, stops,
    misled,     \* history: players for whom a request went by an old alliance
    shaken,     \* history: alliances whose count was written by an old one
    waived      \* history: alliances with a member by approval

tables == <<leader, count, members, allianceOf>>
caches == <<copy, userCopy>>
history == <<misled, shaken, waived>>
vars == <<tables, caches, locks, pc, job, requests, stops, history>>

Founded == {a \in Aids : leader[a] # None}

AllianceLockKey(a) == <<"alliance", a>>
UserLockKey(u) == <<"user", u>>

\* who joins, founds or is kicked; by whom; n, the member count read;
\* view, the alliance read for a user.
NoJob == [kind |-> "none", who |-> None, by |-> None, aid |-> 0, n |-> 0, view |-> 0]

Init ==
    /\ leader = [a \in Aids |-> None]
    /\ count = [a \in Aids |-> 0]
    /\ members = [a \in Aids |-> {}]
    /\ allianceOf = [u \in Players |-> 0]
    /\ copy = [a \in Aids |-> None]
    /\ userCopy = [u \in Players |-> None]
    /\ locks = {}
    /\ pc = [h \in Handlers |-> "idle"]
    /\ job = [h \in Handlers |-> NoJob]
    /\ requests = 0 /\ stops = 0
    /\ misled = {} /\ shaken = {} /\ waived = {}

\* h goes on at p with job j; "idle" is the end of the request.
GoOn(h, p, j) ==
    /\ pc' = [pc EXCEPT ![h] = p]
    /\ job' = [job EXCEPT ![h] = IF p = "idle" THEN NoJob ELSE j]

Accept(h, p, j) ==
    /\ pc[h] = "idle"
    /\ requests < MaxRequests
    /\ requests' = requests + 1
    /\ GoOn(h, p, j)
    /\ UNCHANGED <<tables, caches, locks, stops, history>>
-----------------------------------------------------------------------------
(* What a request has read and not yet acted on *)

\* g is about to change u's membership by what it has read of it.
Deciding(g, u) ==
    /\ job[g].who = u
    /\ \/ job[g].kind \in {"create", "join"} /\ pc[g] \in {"keep", "insert", "add"}
       \/ job[g].kind = "kick" /\ pc[g] \in {"lockAlliance", "lockTarget", "kick"}

\* g has read the member count of a, or a membership in it, and writes later.
Counting(g, a) ==
    /\ job[g].aid = a
    /\ \/ job[g].kind \in {"join", "approve"} /\ pc[g] # "alliance"
       \/ job[g].kind = "kick" /\ Deciding(g, job[g].who)

\* h changes the membership of u, which others may have read.
Overtakes(h, u) == IF \E g \in Handlers \ {h} : Deciding(g, u) THEN {u} ELSE {}

\* h changes the count or a copy of a, which others may have read.
Shakes(h, a) ==
    IF \E g \in Handlers \ {h} :
           Counting(g, a) /\ (job[g].kind = "kick" => job[g].who = job[h].who)
    THEN {a} ELSE {}
-----------------------------------------------------------------------------
(* UserService.Load *)

\* The user a request loads: who asks for a kick, or who joins or founds.
Subject(h) == IF job[h].kind = "kick" THEN job[h].by ELSE job[h].who

\* Fault: nobody asks for the player's alliance.
MayJoinAny(h, v) == job[h].n < MaxMember

\* Fault: an alliance is full only beyond MaxMember.
MayJoinFull(h, v) == v = 0 /\ job[h].n <= MaxMember

MayJoin(h, v) == v = 0 /\ job[h].n < MaxMember

\* Where a request goes on once it knows the user's alliance v: founding and
\* joining are for who has none, joining for what is not full, kicking for who
\* has one; an approval looks at nothing, and a join that has been done ends
\* with a save that fails.
After(h, v) ==
    CASE job[h].kind = "create" -> IF v = 0 THEN "insert" ELSE "idle"
      [] job[h].kind = "join" -> IF MayJoin(h, v) THEN "add" ELSE "idle"
      [] job[h].kind = "approve" -> "add"
      [] job[h].kind = "kick" -> IF v # 0 THEN "rank" ELSE "idle"
      [] OTHER -> "idle"

\* A kick is about the alliance of its operator.
WithView(h, v) ==
    IF job[h].kind = "kick" THEN [job[h] EXCEPT !.aid = v, !.view = 0]
                            ELSE [job[h] EXCEPT !.view = 0]

UserHit(h) ==
    LET u == Subject(h) IN
    /\ pc[h] = "user"
    /\ userCopy[u] # None
    /\ GoOn(h, After(h, userCopy[u]), WithView(h, userCopy[u]))
    /\ misled' = IF job[h].kind \in {"create", "join"} /\ userCopy[u] = 0 /\ allianceOf[u] # 0
                 THEN misled \cup {u} ELSE misled
    /\ UNCHANGED <<tables, caches, locks, requests, stops, shaken, waived>>

UserMiss(h) ==
    /\ pc[h] = "user"
    /\ userCopy[Subject(h)] = None
    /\ GoOn(h, "keep", [job[h] EXCEPT !.view = allianceOf[Subject(h)]])
    /\ UNCHANGED <<tables, caches, locks, requests, stops, history>>

\* What was read becomes the copy.
Keep(h) ==
    /\ pc[h] = "keep"
    /\ userCopy' = [userCopy EXCEPT ![Subject(h)] = job[h].view]
    /\ GoOn(h, After(h, job[h].view), WithView(h, job[h].view))
    /\ UNCHANGED <<tables, copy, locks, requests, stops, history>>
-----------------------------------------------------------------------------
(* Create *)

Create(h, u) == Accept(h, "user", [NoJob EXCEPT !.kind = "create", !.who = u])

\* CreateAlliance, one transaction; the save that follows fails, so that the
\* founder's copy still says that he has no alliance.
InsertAlliance(h) ==
    LET u == job[h].who
        a == Cardinality(Founded) + 1
    IN  /\ pc[h] = "insert"
        /\ a \in Aids
        /\ leader' = [leader EXCEPT ![a] = u]
        /\ count' = [count EXCEPT ![a] = 1]
        /\ members' = [members EXCEPT ![a] = {u}]
        /\ allianceOf' = [allianceOf EXCEPT ![u] = a]
        /\ misled' = misled \cup Overtakes(h, u)
        /\ GoOn(h, "idle", NoJob)
        /\ UNCHANGED <<caches, locks, requests, stops, shaken, waived>>
-----------------------------------------------------------------------------
(* Join and Approved *)

Join(h, u, a) == Accept(h, "alliance", [NoJob EXCEPT !.kind = "join", !.who = u, !.aid = a])

Approved(h, u, a) ==
    Accept(h, "alliance", [NoJob EXCEPT !.kind = "approve", !.who = u, !.aid = a])

\* LoadAlliance: the copy, or the row, which then becomes the copy.
AllianceHit(h) ==
    /\ pc[h] = "alliance"
    /\ copy[job[h].aid] # None
    /\ GoOn(h, "user", [job[h] EXCEPT !.n = copy[job[h].aid]])
    /\ UNCHANGED <<tables, caches, locks, requests, stops, history>>

\* Fault: what the query returns beside its error is taken for an alliance.
AnyRow(h) == TRUE

RowFound(h) == job[h].aid \in Founded

AllianceMiss(h) ==
    /\ pc[h] = "alliance"
    /\ copy[job[h].aid] = None
    /\ GoOn(h, IF RowFound(h) THEN "fill" ELSE "idle",
            [job[h] EXCEPT !.n = count[job[h].aid]])
    /\ UNCHANGED <<tables, caches, locks, requests, stops, history>>

Fill(h) ==
    /\ pc[h] = "fill"
    /\ copy' = [copy EXCEPT ![job[h].aid] = job[h].n]
    /\ GoOn(h, "user", job[h])
    /\ UNCHANGED <<tables, userCopy, locks, requests, stops, history>>

\* AddMember: the player is a member already, and the insert fails.
AddMemberTwice(h) ==
    /\ pc[h] = "add"
    /\ job[h].who \in members[job[h].aid]
    /\ GoOn(h, "idle", NoJob)
    /\ UNCHANGED <<tables, caches, locks, requests, stops, history>>

\* AddMember: the member and the player's alliance, one transaction.
AddMember(h) ==
    LET u == job[h].who
        a == job[h].aid
    IN  /\ pc[h] = "add"
        /\ u \notin members[a]
        /\ members' = [members EXCEPT ![a] = @ \cup {u}]
        /\ allianceOf' = [allianceOf EXCEPT ![u] = a]
        /\ GoOn(h, "update", job[h])
        /\ misled' = misled \cup Overtakes(h, u)
                     \cup (IF job[h].kind = "approve" /\ allianceOf[u] # 0 THEN {u} ELSE {})
        /\ shaken' = shaken \cup Shakes(h, a)
        /\ waived' = IF job[h].kind = "approve" THEN waived \cup {a} ELSE waived
        /\ UNCHANGED <<leader, count, caches, locks, requests, stops>>

\* Fault: the count that was read is written back as it is.
SameCount(h) == job[h].n

NextCount(h) == job[h].n + 1

\* UpdateAlliance: the count that was read, plus one.  A row that has that
\* count already is not affected, which the code takes for no row.
UpdateAlliance(h) ==
    LET a == job[h].aid
        n == NextCount(h)
    IN  /\ pc[h] = "update"
        /\ count' = [count EXCEPT ![a] = n]
        /\ GoOn(h, IF count[a] = n THEN "idle" ELSE "copy", [job[h] EXCEPT !.n = n])
        /\ UNCHANGED <<leader, members, allianceOf, caches, locks, requests, stops, history>>

SetCopy(h) ==
    LET a == job[h].aid IN
    /\ pc[h] = "copy"
    /\ copy' = [copy EXCEPT ![a] = job[h].n]
    /\ GoOn(h, "user", [NoJob EXCEPT !.kind = "joined", !.who = job[h].who])
    /\ shaken' = shaken \cup Shakes(h, a)
    /\ UNCHANGED <<tables, userCopy, locks, requests, stops, misled, waived>>
-----------------------------------------------------------------------------
(* KickMember *)

KickMember(h, by, u) ==
    Accept(h, "user", [NoJob EXCEPT !.kind = "kick", !.who = u, !.by = by])

\* GetMember of the operator: only a leader goes on (no code makes a vice).
CheckOperator(h) ==
    LET j == job[h] IN
    /\ pc[h] = "rank"
    /\ GoOn(h, IF j.by \in members[j.aid] /\ j.by = leader[j.aid] THEN "target" ELSE "idle", j)
    /\ UNCHANGED <<tables, caches, locks, requests, stops, history>>

\* Fault: a leader may be kicked.
CheckTargetAny(h) ==
    LET j == job[h] IN
    /\ pc[h] = "target"
    /\ GoOn(h, IF j.who \in members[j.aid] THEN "lockAlliance" ELSE "idle", j)
    /\ UNCHANGED <<tables, caches, locks, requests, stops, history>>

CheckTarget(h) ==
    LET j == job[h] IN
    /\ pc[h] = "target"
    /\ GoOn(h, IF j.who \in members[j.aid] /\ j.who # leader[j.aid]
               THEN "lockAlliance" ELSE "idle", j)
    /\ UNCHANGED <<tables, caches, locks, requests, stops, history>>

\* LockMulti: a key that is set by another is passed over, and what was set
\* before it is deleted, whoever set it.
LockAlliance(h) ==
    /\ pc[h] = "lockAlliance"
    /\ locks' = locks \cup {AllianceLockKey(job[h].aid)}
    /\ GoOn(h, "lockTarget", job[h])
    /\ UNCHANGED <<tables, caches, requests, stops, history>>

LockTarget(h) ==
    LET key == UserLockKey(job[h].who) IN
    /\ pc[h] = "lockTarget"
    /\ locks' = IF key \in locks THEN locks \ {AllianceLockKey(job[h].aid)}
                                 ELSE locks \cup {key}
    /\ GoOn(h, "kick", job[h])
    /\ UNCHANGED <<tables, caches, requests, stops, history>>

\* Fault: the player's own row is not updated.
NotCleared(u) == allianceOf

Cleared(u) == [allianceOf EXCEPT ![u] = 0]

\* KickMemberTx, one transaction, whether the player is a member still or not.
\* AllianceCache.Del names a key nobody sets: the alliance's copy stays.
KickMemberTx(h) ==
    LET u == job[h].who
        a == job[h].aid
    IN  /\ pc[h] = "kick"
        /\ members' = [members EXCEPT ![a] = @ \ {u}]
        /\ count' = [count EXCEPT ![a] = @ - 1]
        /\ allianceOf' = Cleared(u)
        /\ GoOn(h, "forgetTarget", job[h])
        /\ misled' = misled \cup Overtakes(h, u)
        /\ shaken' = shaken \cup Shakes(h, a) \cup (IF copy[a] # None THEN {a} ELSE {})
        /\ UNCHANGED <<leader, caches, locks, requests, stops, waived>>

ForgetTarget(h) ==
    /\ pc[h] = "forgetTarget"
    /\ userCopy' = [userCopy EXCEPT ![job[h].who] = None]
    /\ GoOn(h, "forgetOperator", job[h])
    /\ UNCHANGED <<tables, copy, locks, requests, stops, history>>

ForgetOperator(h) ==
    /\ pc[h] = "forgetOperator"
    /\ userCopy' = [userCopy EXCEPT ![job[h].by] = None]
    /\ GoOn(h, "unlock", job[h])
    /\ UNCHANGED <<tables, copy, locks, requests, stops, history>>

\* Both keys go, whoever set them.
Unlock(h) ==
    /\ pc[h] = "unlock"
    /\ locks' = locks \ {AllianceLockKey(job[h].aid), UserLockKey(job[h].who)}
    /\ GoOn(h, "idle", NoJob)
    /\ UNCHANGED <<tables, caches, requests, stops, history>>
-----------------------------------------------------------------------------
(* Redis forgets, requests break off *)

ExpireCopy(a) ==
    /\ copy[a] # None
    /\ copy' = [copy EXCEPT ![a] = None]
    /\ UNCHANGED <<tables, userCopy, locks, pc, job, requests, stops, history>>

ExpireUser(u) ==
    /\ userCopy[u] # None
    /\ userCopy' = [userCopy EXCEPT ![u] = None]
    /\ UNCHANGED <<tables, copy, locks, pc, job, requests, stops, history>>

\* Keys g has in LockMulti, which it deletes in the end.
Acquired(g) ==
    IF pc[g] \in {"lockTarget", "kick", "forgetTarget", "forgetOperator", "unlock"}
    THEN {AllianceLockKey(job[g].aid), UserLockKey(job[g].who)} ELSE {}

\* The keys of a request that is gone, after their 5 seconds.
LockExpires(k) ==
    /\ k \in locks
    /\ \A g \in Handlers : k \notin Acquired(g)
    /\ locks' = locks \ {k}
    /\ UNCHANGED <<tables, caches, pc, job, requests, stops, history>>

\* A statement fails, the answer to one is lost, or the process dies: in that
\* case the locks stay.
Stop(h) ==
    /\ stops < MaxStops
    /\ stops' = stops + 1
    /\ pc[h] # "idle"
    /\ GoOn(h, "idle", NoJob)
    /\ locks' \in {locks, locks \ Acquired(h)}
    /\ shaken' = IF pc[h] \in {"update", "copy"} THEN shaken \cup {job[h].aid} ELSE shaken
    /\ UNCHANGED <<tables, caches, requests, misled, waived>>

Next ==
    \/ \E h \in Handlers :
           \/ \E u \in Players : Create(h, u)
           \/ \E u \in Players, a \in Aids : Join(h, u, a) \/ Approved(h, u, a)
           \/ \E u, by \in Players : KickMember(h, by, u)
           \/ UserHit(h) \/ UserMiss(h) \/ Keep(h) \/ InsertAlliance(h)
           \/ AllianceHit(h) \/ AllianceMiss(h) \/ Fill(h)
           \/ AddMemberTwice(h) \/ AddMember(h) \/ UpdateAlliance(h) \/ SetCopy(h)
           \/ CheckOperator(h) \/ CheckTarget(h) \/ LockAlliance(h) \/ LockTarget(h)
           \/ KickMemberTx(h) \/ ForgetTarget(h) \/ ForgetOperator(h) \/ Unlock(h)
           \/ Stop(h)
    \/ \E a \in Aids : ExpireCopy(a)
    \/ \E u \in Players : ExpireUser(u)
    \/ \E k \in locks : LockExpires(k)

Spec == Init /\ [][Next]_vars
-----------------------------------------------------------------------------
(* What the runs check *)

Places ==
    {"idle", "user", "keep", "insert", "alliance", "fill", "add", "update", "copy",
     "rank", "target", "lockAlliance", "lockTarget", "kick", "forgetTarget",
     "forgetOperator", "unlock"}

\* Every variable holds values of its kind; who is not founded has no copy.
TypeOK ==
    /\ leader \in [Aids -> Players \cup {None}]
    /\ count \in [Aids -> Int]
    /\ members \in [Aids -> SUBSET Players]
    /\ allianceOf \in [Players -> Aids \cup {0}]
    /\ copy \in [Aids -> Int \cup {None}]
    /\ \A a \in Aids \ Founded : copy[a] = None /\ members[a] = {}
    /\ userCopy \in [Players -> Aids \cup {0, None}]
    /\ locks \subseteq {AllianceLockKey(a) : a \in Aids} \cup {UserLockKey(u) : u \in Players}
    /\ pc \in [Handlers -> Places]
    /\ \A h \in Handlers : pc[h] = "idle" <=> job[h] = NoJob
    /\ requests \in 0..MaxRequests /\ stops \in 0..MaxStops
    /\ misled \subseteq Players /\ shaken \subseteq Aids /\ waived \subseteq Aids

\* The alliance in a player's row has him as a member, and an alliance has its
\* leader: AddMember, CreateAlliance and KickMemberTx change both tables or
\* none, wherever a request breaks off, and no kick strikes a leader.
MembersKnown ==
    /\ \A u \in Players : allianceOf[u] # 0 => u \in members[allianceOf[u]]
    /\ \A a \in Founded : leader[a] \in members[a]

\* A player is in one alliance, the one in his row, unless a request of his
\* found an old copy of his row (a founder's says "none" for 30 minutes), two
\* requests about him crossed, or an approval did not ask (Create, Join).
OneAlliance ==
    \A u \in Players \ misled : \A a \in Aids : u \in members[a] => allianceOf[u] = a

InPlace(p, a) == Cardinality({h \in Handlers : pc[h] = p /\ job[h].aid = a})

\* The count of an alliance is that of its members, and the copy has it too,
\* but for a join on its way: unless two requests about it crossed, a request
\* broke off within directJoin, or a kick met a copy, which it does not delete.
CountsMembers ==
    \A a \in Founded \ shaken :
        /\ count[a] + InPlace("update", a) = Cardinality(members[a])
        /\ copy[a] \in {None, count[a], count[a] - InPlace("copy", a)}

\* An alliance has at most MaxMember members, unless its count was shaken or
\* one was let in by an approval, which does not count (Join, directJoin).
NotOverfull ==
    \A a \in Aids \ (shaken \cup waived) : Cardinality(members[a]) <= MaxMember

\* A member goes only by a kick that the leader of this alliance asked for, and
\* the leader does not go, though his alliance is read from a copy and his and
\* the member's position before the locks (KickMember).
LeaderKicks ==
    [][\A a \in Aids :
          \/ members[a] \subseteq members'[a]
          \/ \E h \in Handlers :
                 /\ pc[h] = "kick" /\ job[h].aid = a
                 /\ job[h].by = leader[a] /\ job[h].who # leader[a]
                 /\ members'[a] = members[a] \ {job[h].who}]_vars
-----------------------------------------------------------------------------
\* game/alliance_service.go:201, the locks are there "against concurrent kicks":
\* two kicks of one member are not between lock and unlock at once.
KicksExclude ==
    \A g, h \in Handlers :
        g # h /\ pc[g] = "kick" /\ pc[h] = "kick" => Acquired(g) \cap Acquired(h) = {}
=============================================================================
