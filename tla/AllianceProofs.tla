--------------------------- MODULE AllianceProofs ---------------------------
(***************************************************************************)
(* The safety properties of Alliance, for any players, any number of       *)
(* alliances, requests and broken-off requests, and any MaxMember.         *)
(***************************************************************************)
EXTENDS Alliance, FiniteSetTheorems, TLAPS

Jobs ==
    [kind : {"none", "create", "join", "approve", "joined", "kick"},
     who : Players \cup {None}, by : Players \cup {None},
     aid : Aids \cup {0}, n : Int, view : Aids \cup {0}]

\* Job j of a request at p has the players and the alliance that the next step
\* needs; the alliance of a join was found.
Fits(j, p) ==
    /\ j.kind # "none" /\ j.who \in Players
    /\ j.kind = "create" => p \in {"user", "keep", "insert"}
    /\ j.kind = "joined" => p \in {"user", "keep"}
    /\ j.kind \in {"join", "approve"} =>
           /\ p \in {"alliance", "fill", "user", "keep", "add", "update", "copy"}
           /\ j.aid \in (IF p = "alliance" THEN Aids ELSE Founded)
    /\ j.kind = "kick" =>
           /\ p \in {"user", "keep", "rank", "target", "lockAlliance", "lockTarget", "kick",
                     "forgetTarget", "forgetOperator", "unlock"}
           /\ j.by \in Players
           /\ p \notin {"user", "keep"} => j.aid \in Aids

JobOK ==
    /\ job \in [Handlers -> Jobs]
    /\ \A h \in Handlers : pc[h] # "idle" => Fits(job[h], pc[h])

\* MySQL counts the alliances up.
IdsCounted == \E n \in 0..MaxAlliances : Founded = 1..n

Typed == TypeOK /\ JobOK /\ IdsCounted

\* A kick that has passed CheckOperator is the leader's, and one that has
\* passed CheckTarget does not strike him.
KickChecked ==
    \A h \in Handlers : job[h].kind = "kick" =>
        /\ pc[h] \in {"target", "lockAlliance", "lockTarget", "kick"} =>
               job[h].by = leader[job[h].aid]
        /\ pc[h] \in {"lockAlliance", "lockTarget", "kick"} =>
               job[h].who # leader[job[h].aid]

\* What a request decides by is so still, unless its player was misled.
DecidedRight ==
    \A h \in Handlers : job[h].who \notin misled =>
        /\ job[h].kind \in {"create", "join"} /\ pc[h] = "keep" =>
               job[h].view = allianceOf[job[h].who]
        /\ job[h].kind \in {"create", "join"} /\ pc[h] \in {"insert", "add"} =>
               allianceOf[job[h].who] = 0
        /\ job[h].kind = "kick" /\ pc[h] \in {"lockAlliance", "lockTarget", "kick"} =>
               allianceOf[job[h].who] = job[h].aid

At(h, p, a) == pc[h] = p /\ job[h].aid = a

\* A count read is the alliance's, or that of before the join at "copy".
Current(n, a) ==
    \/ n = count[a]
    \/ n = count[a] - 1 /\ \E h \in Handlers : At(h, "copy", a)

\* As long as no requests about an alliance cross, one join at a time writes.
OneWriter(a) ==
    \A g, h \in Handlers :
        /\ At(g, "update", a) \/ At(g, "copy", a)
        /\ At(h, "update", a) \/ At(h, "copy", a)
        => g = h

\* What job j has read of an alliance before p is so still.
ReadRight(j, p, a) ==
    /\ j.kind \in {"join", "approve"} /\ p \in {"fill", "user", "keep", "add"} => Current(j.n, a)
    /\ p \in {"update", "copy"} => j.n = count[a]
    /\ j.kind = "kick" /\ p \in {"lockAlliance", "lockTarget", "kick"} => j.who \in members[a]

CountsRead(a) == \A h \in Handlers : job[h].aid = a => ReadRight(job[h], pc[h], a)

CountRight(a) ==
    /\ Cardinality(members[a]) =
           IF \E h \in Handlers : At(h, "update", a) THEN count[a] + 1 ELSE count[a]
    /\ copy[a] # None => Current(copy[a], a)

MembersFinite == \A a \in Aids : IsFiniteSet(members[a])

\* A join looked at the count before it goes on to add its player.
JoinFits ==
    \A h \in Handlers : job[h].kind = "join" /\ pc[h] = "add" => job[h].n < MaxMember

AllianceGood(a) == OneWriter(a) /\ CountsRead(a) /\ CountRight(a)

Counted == \A a \in Founded \ shaken : AllianceGood(a)

IInv ==
    /\ Typed /\ KickChecked /\ MembersKnown
    /\ DecidedRight /\ OneAlliance
    /\ MembersFinite /\ Counted /\ JoinFits /\ NotOverfull

\* What Typed says of the requests.
JobGood ==
    /\ JobOK
    /\ pc \in [Handlers -> Places]
    /\ \A g \in Handlers : pc[g] = "idle" <=> job[g] = NoJob

-----------------------------------------------------------------------------
(* The steps, by what they may change *)

\* A request comes in.
Requested(h) ==
    \/ \E u \in Players : Create(h, u)
    \/ \E u \in Players, a \in Aids : Join(h, u, a) \/ Approved(h, u, a)
    \/ \E u, by \in Players : KickMember(h, by, u)

\* It reads, or makes a copy of what it has read.
Reads(h) ==
    \/ UserHit(h) \/ UserMiss(h) \/ Keep(h) \/ AllianceHit(h) \/ AllianceMiss(h) \/ Fill(h)
    \/ AddMemberTwice(h) \/ CheckOperator(h) \/ CheckTarget(h)

\* It changes a table, or the copy that its join ends with.
Writes(h) == InsertAlliance(h) \/ AddMember(h) \/ UpdateAlliance(h) \/ SetCopy(h) \/ KickMemberTx(h)

\* A kick locks and unlocks, and takes copies away; a request breaks off.
Locks(h) ==
    \/ LockAlliance(h) \/ LockTarget(h) \/ ForgetTarget(h) \/ ForgetOperator(h) \/ Unlock(h)
    \/ Stop(h)

Step(h) == Requested(h) \/ Reads(h) \/ Writes(h) \/ Locks(h)

\* Redis may forget what it has.
Forgets ==
    \/ \E a \in Aids : ExpireCopy(a)
    \/ \E u \in Players : ExpireUser(u)
    \/ \E k \in locks : LockExpires(k)

-----------------------------------------------------------------------------
(* Requests and values *)

\* What a step of a request changes of all requests.
LEMMA GoOnEffect ==
    ASSUME Typed, NEW h \in Handlers, NEW p, NEW j, GoOn(h, p, j)
    PROVE  /\ pc'[h] = p
           /\ job'[h] = IF p = "idle" THEN NoJob ELSE j
           /\ \A g \in Handlers \ {h} : pc'[g] = pc[g] /\ job'[g] = job[g]
  BY DEF Typed, TypeOK, JobOK, GoOn

\* A request may go on with a job that fits.
LEMMA JobStep ==
    ASSUME Typed, NEW h \in Handlers, NEW p \in Places, NEW j, GoOn(h, p, j),
           UNCHANGED leader \/ Founded \subseteq Founded',
           p = "idle" \/ (j \in Jobs /\ Fits(j, p))
    PROVE  /\ JobOK'
           /\ pc' \in [Handlers -> Places]
           /\ \A g \in Handlers : pc'[g] = "idle" <=> job'[g] = NoJob
<1>1. NoJob \in Jobs /\ NoJob.kind = "none"
  BY DEF NoJob, Jobs
<1>2. Founded \subseteq Founded'
  BY DEF Founded
<1>3. pc' \in [Handlers -> Places] /\ job' \in [Handlers -> Jobs]
  BY <1>1 DEF Typed, TypeOK, JobOK, GoOn
<1>4. ASSUME NEW g \in Handlers
      PROVE  /\ pc'[g] # "idle" => Fits(job'[g], pc'[g])
             /\ pc'[g] = "idle" <=> job'[g] = NoJob
  <2>1. CASE g = h
    BY <1>1, <2>1, GoOnEffect DEF Fits
  <2>2. CASE g # h
    BY <2>2, GoOnEffect DEF Typed, TypeOK, JobOK
  <2> QED BY <2>1, <2>2
<1>5. ASSUME NEW i, NEW q, Fits(i, q) PROVE Fits(i, q)'
  BY <1>2, <1>5 DEF Fits
<1> QED BY <1>3, <1>4, <1>5 DEF JobOK
\* A job goes on at the next step with what it needs there.
LEMMA RequestedAccepts ==
    ASSUME Typed, NEW h \in Handlers, Requested(h)
    PROVE  \E p \in Places, j \in Jobs :
               /\ Accept(h, p, j) /\ Fits(j, p) /\ p \in {"user", "alliance"}
               /\ p = "user" => j.kind \in {"create", "kick"}
<1>1. NoJob \in Jobs
  BY DEF NoJob, Jobs
<1>2. ASSUME NEW u \in Players
      PROVE  /\ [NoJob EXCEPT !.kind = "create", !.who = u] \in Jobs
             /\ Fits([NoJob EXCEPT !.kind = "create", !.who = u], "user")
             /\ [NoJob EXCEPT !.kind = "create", !.who = u].kind = "create"
  <2> DEFINE j == [NoJob EXCEPT !.kind = "create", !.who = u]
  <2>1. j \in Jobs /\ j.kind = "create" /\ j.who = u
    BY <1>1 DEF Jobs
  <2> QED BY <2>1 DEF Fits
<1>3. ASSUME NEW u \in Players, NEW a \in Aids, NEW k \in {"join", "approve"}
      PROVE  /\ [NoJob EXCEPT !.kind = k, !.who = u, !.aid = a] \in Jobs
             /\ Fits([NoJob EXCEPT !.kind = k, !.who = u, !.aid = a], "alliance")
  <2> DEFINE j == [NoJob EXCEPT !.kind = k, !.who = u, !.aid = a]
  <2>1. j \in Jobs /\ j.kind = k /\ j.who = u /\ j.aid = a
    BY <1>1 DEF Jobs
  <2> QED BY <2>1 DEF Fits
<1>4. ASSUME NEW u \in Players, NEW by \in Players
      PROVE  /\ [NoJob EXCEPT !.kind = "kick", !.who = u, !.by = by] \in Jobs
             /\ Fits([NoJob EXCEPT !.kind = "kick", !.who = u, !.by = by], "user")
             /\ [NoJob EXCEPT !.kind = "kick", !.who = u, !.by = by].kind = "kick"
  <2> DEFINE j == [NoJob EXCEPT !.kind = "kick", !.who = u, !.by = by]
  <2>1. j \in Jobs /\ j.kind = "kick" /\ j.who = u /\ j.by = by
    BY <1>1 DEF Jobs
  <2> QED BY <2>1 DEF Fits
<1>5. "user" \in Places /\ "alliance" \in Places
  BY DEF Places
<1>6. ASSUME NEW u \in Players, Create(h, u)
      PROVE  \E p \in Places, j \in Jobs :
                 /\ Accept(h, p, j) /\ Fits(j, p) /\ p \in {"user", "alliance"}
                 /\ p = "user" => j.kind \in {"create", "kick"}
  BY <1>2, <1>5, <1>6 DEF Create
<1>7. ASSUME NEW u \in Players, NEW a \in Aids, Join(h, u, a) \/ Approved(h, u, a)
      PROVE  \E p \in Places, j \in Jobs :
                 /\ Accept(h, p, j) /\ Fits(j, p) /\ p \in {"user", "alliance"}
                 /\ p = "user" => j.kind \in {"create", "kick"}
  BY <1>3, <1>5, <1>7 DEF Join, Approved
<1>8. ASSUME NEW u \in Players, NEW by \in Players, KickMember(h, by, u)
      PROVE  \E p \in Places, j \in Jobs :
                 /\ Accept(h, p, j) /\ Fits(j, p) /\ p \in {"user", "alliance"}
                 /\ p = "user" => j.kind \in {"create", "kick"}
  BY <1>4, <1>5, <1>8 DEF KickMember
<1> QED BY <1>6, <1>7, <1>8 DEF Requested

\* What a request goes on with once it knows its user's alliance fits.
LEMMA AfterFits ==
    ASSUME Typed, NEW h \in Handlers, pc[h] \in {"user", "keep"}, NEW v \in Aids \cup {0}
    PROVE  /\ After(h, v) \in Places /\ WithView(h, v) \in Jobs
           /\ After(h, v) = "idle" \/ Fits(WithView(h, v), After(h, v))
<1>1. job[h] \in Jobs /\ Fits(job[h], pc[h])
  BY DEF Typed, JobOK
<1>2. /\ WithView(h, v) \in Jobs
      /\ \A f \in {"kind", "who", "by", "n"} : WithView(h, v)[f] = job[h][f]
      /\ WithView(h, v).aid = IF job[h].kind = "kick" THEN v ELSE job[h].aid
  BY <1>1 DEF WithView, Jobs
<1>3. After(h, v) \in {"idle", "insert", "add", "rank"}
  BY DEF After
<1>4. /\ After(h, v) = "insert" => job[h].kind = "create"
      /\ After(h, v) = "add" => job[h].kind \in {"join", "approve"}
      /\ After(h, v) = "rank" => job[h].kind = "kick" /\ v # 0
  BY DEF After
<1>5. After(h, v) # "idle" => Fits(WithView(h, v), After(h, v))
  <2>1. CASE After(h, v) = "insert"
    BY <1>1, <1>2, <1>4, <2>1 DEF Fits
  <2>2. CASE After(h, v) = "add"
    BY <1>1, <1>2, <1>4, <2>2 DEF Fits
  <2>3. CASE After(h, v) = "rank"
    BY <1>1, <1>2, <1>4, <2>3 DEF Fits
  <2> QED BY <1>3, <2>1, <2>2, <2>3
<1> QED BY <1>2, <1>3, <1>5 DEF Places


\* The kinds of requests that pass a place.
LEMMA Kinds ==
    ASSUME Typed, NEW h \in Handlers, pc[h] # "idle"
    PROVE  LET j == job[h]
               p == pc[h]
           IN  /\ j \in Jobs /\ j.who \in Players
               /\ p \in {"alliance", "fill", "add", "update", "copy"} =>
                      j.kind \in {"join", "approve"} /\ j.aid \in Aids
               /\ p \in {"fill", "add", "update", "copy"} => j.aid \in Founded
               /\ p = "insert" => j.kind = "create"
               /\ p \in {"rank", "target", "lockAlliance", "lockTarget", "kick",
                         "forgetTarget", "forgetOperator", "unlock"} =>
                      j.kind = "kick" /\ j.aid \in Aids /\ j.by \in Players
               /\ p \in {"user", "keep"} => Subject(h) \in Players
<1>1. job[h] \in Jobs /\ Fits(job[h], pc[h])
  BY DEF Typed, JobOK
<1>2. job[h].kind \in {"none", "create", "join", "approve", "joined", "kick"}
  BY <1>1 DEF Jobs
<1>3. Founded \subseteq Aids
  BY DEF Founded
<1> QED BY <1>1, <1>2, <1>3 DEF Fits, Subject

\* A job that goes on to a next step of its kind fits there.
LEMMA OnFits ==
    ASSUME Typed, NEW h \in Handlers, pc[h] # "idle", NEW n \in Int, NEW v \in Aids \cup {0},
           NEW p \in Places,
           \/ pc[h] = "user" /\ p = "keep"
           \/ pc[h] = "alliance" /\ job[h].aid \in Founded /\ p \in {"user", "fill"}
           \/ pc[h] = "fill" /\ p = "user"
           \/ pc[h] = "add" /\ p = "update"
           \/ pc[h] = "update" /\ p = "copy"
           \/ /\ pc[h] \in {"rank", "target", "lockAlliance", "lockTarget", "kick",
                             "forgetTarget", "forgetOperator"}
              /\ p \in {"target", "lockAlliance", "lockTarget", "kick", "forgetTarget",
                        "forgetOperator", "unlock"}
    PROVE  /\ Fits(job[h], p)
           /\ Fits([job[h] EXCEPT !.n = n], p) /\ [job[h] EXCEPT !.n = n] \in Jobs
           /\ Fits([job[h] EXCEPT !.view = v], p) /\ [job[h] EXCEPT !.view = v] \in Jobs
<1>1. job[h] \in Jobs /\ Fits(job[h], pc[h])
  BY DEF Typed, JobOK
<1>2. job[h].kind \in {"none", "create", "join", "approve", "joined", "kick"}
  BY <1>1 DEF Jobs
<1>3. Fits(job[h], p)
  BY <1>1, <1>2 DEF Fits
<1>4. /\ [job[h] EXCEPT !.n = n] \in Jobs
      /\ \A f \in {"kind", "who", "by", "aid"} : [job[h] EXCEPT !.n = n][f] = job[h][f]
  BY <1>1 DEF Jobs
<1>5. /\ [job[h] EXCEPT !.view = v] \in Jobs
      /\ \A f \in {"kind", "who", "by", "aid"} : [job[h] EXCEPT !.view = v][f] = job[h][f]
  BY <1>1 DEF Jobs
<1> QED BY <1>3, <1>4, <1>5 DEF Fits

\* Jobs stay good, whatever a request does next.
LEMMA ReadsKeepJobs ==
    ASSUME Typed, NEW h \in Handlers,
           \/ UserHit(h) \/ UserMiss(h) \/ Keep(h)
           \/ AllianceHit(h) \/ AllianceMiss(h) \/ Fill(h)
    PROVE  JobGood'
<1> USE DEF JobGood
<1>1. CASE UserHit(h)
  <2>1. userCopy[Subject(h)] \in Aids \cup {0}
    BY <1>1, Kinds DEF UserHit, Typed, TypeOK
  <2> QED BY <1>1, <2>1, JobStep, AfterFits DEF UserHit, tables
<1>2. CASE UserMiss(h)
  <2>1. allianceOf[Subject(h)] \in Aids \cup {0}
    BY <1>2, Kinds DEF UserMiss, Typed, TypeOK
  <2>2. "keep" \in Places /\ 0 \in Int
    BY DEF Places
  <2> QED BY <1>2, <2>1, <2>2, JobStep, OnFits DEF UserMiss, tables
<1>3. CASE Keep(h)
  <2>1. job[h].view \in Aids \cup {0}
    BY <1>3, Kinds DEF Keep, Jobs
  <2> QED BY <1>3, <2>1, JobStep, AfterFits DEF Keep, tables
<1>4. CASE AllianceHit(h)
  <2>1. copy[job[h].aid] \in Int /\ job[h].aid \in Founded
    BY <1>4, Kinds DEF AllianceHit, Typed, TypeOK
  <2>2. "user" \in Places /\ 0 \in Aids \cup {0}
    BY DEF Places
  <2> QED BY <1>4, <2>1, <2>2, JobStep, OnFits DEF AllianceHit, tables
<1>5. CASE AllianceMiss(h)
  <2>1. count[job[h].aid] \in Int
    BY <1>5, Kinds DEF AllianceMiss, Typed, TypeOK
  <2>2. "fill" \in Places /\ "idle" \in Places /\ 0 \in Aids \cup {0}
    BY DEF Places
  <2> QED BY <1>5, <2>1, <2>2, JobStep, OnFits DEF AllianceMiss, RowFound, tables
<1>6. CASE Fill(h)
  <2>1. "user" \in Places /\ 0 \in Aids \cup {0} /\ 0 \in Int /\ job[h] \in Jobs
    BY <1>6, Kinds DEF Places, Fill
  <2> QED BY <1>6, <2>1, JobStep, OnFits DEF Fill, tables
<1> QED BY <1>1, <1>2, <1>3, <1>4, <1>5, <1>6

\* A founded alliance gets the next id, which nobody has.
LEMMA NextId ==
    ASSUME Typed, NEW h \in Handlers, InsertAlliance(h)
    PROVE  LET a == Cardinality(Founded) + 1 IN
           /\ a \in Aids \ Founded
           /\ Founded' = Founded \cup {a}
           /\ IdsCounted'
<1>1. PICK n \in 0..MaxAlliances : Founded = 1..n
  BY DEF Typed, IdsCounted
<1>2. Cardinality(Founded) = n
  BY <1>1, FS_Interval, BoundsAssumption
<1>3. n + 1 \in Aids /\ n + 1 \notin Founded
  BY <1>1, <1>2, BoundsAssumption DEF InsertAlliance
<1>4. job[h].who \in Players /\ job[h].who # None
  BY Kinds, NoneAssumption DEF InsertAlliance
<1>5. Founded' = Founded \cup {n + 1}
  BY <1>2, <1>3, <1>4 DEF InsertAlliance, Founded, Typed, TypeOK
<1>6. Founded' = 1..(n + 1)
  BY <1>1, <1>5
<1>7. n + 1 \in 0..MaxAlliances
  BY <1>3, BoundsAssumption DEF Aids
<1>8. IdsCounted'
  BY <1>6, <1>7 DEF IdsCounted
<1> QED BY <1>2, <1>3, <1>5, <1>8

\* ... those that change a table or the copy, and the checks of a kick,
LEMMA WritesKeepJobs ==
    ASSUME Typed, NEW h \in Handlers,
           \/ InsertAlliance(h) \/ AddMemberTwice(h) \/ AddMember(h) \/ UpdateAlliance(h)
           \/ SetCopy(h) \/ CheckOperator(h) \/ CheckTarget(h)
    PROVE  JobGood'
<1> USE DEF JobGood
<1>0. "idle" \in Places /\ "update" \in Places /\ "copy" \in Places /\ "user" \in Places
      /\ "target" \in Places /\ "lockAlliance" \in Places /\ 0 \in Int /\ 0 \in Aids \cup {0}
  BY DEF Places
<1>1. CASE InsertAlliance(h)
  BY <1>0, <1>1, NextId, JobStep DEF InsertAlliance
<1>2. CASE AddMemberTwice(h)
  BY <1>0, <1>2, JobStep DEF AddMemberTwice, tables
<1>3. CASE AddMember(h)
  <2>1. Fits(job[h], "update") /\ job[h] \in Jobs
    BY <1>0, <1>3, OnFits, Kinds DEF AddMember
  <2> QED BY <1>0, <1>3, <2>1, JobStep DEF AddMember
<1>4. CASE UpdateAlliance(h)
  <2>1. NextCount(h) \in Int
    BY <1>4, Kinds DEF UpdateAlliance, NextCount, Jobs
  <2> DEFINE j == [job[h] EXCEPT !.n = NextCount(h)]
  <2>2. Fits(j, "copy") /\ j \in Jobs
    BY <1>0, <1>4, <2>1, OnFits DEF UpdateAlliance
  <2> QED BY <1>0, <1>4, <2>2, JobStep DEF UpdateAlliance
<1>5. CASE SetCopy(h)
  <2> DEFINE j == [NoJob EXCEPT !.kind = "joined", !.who = job[h].who]
  <2>0. job[h].who \in Players /\ NoJob \in Jobs
    BY <1>5, Kinds DEF SetCopy, Jobs, NoJob
  <2>1. j \in Jobs /\ j.kind = "joined" /\ j.who \in Players
    BY <2>0 DEF Jobs
  <2>2. Fits(j, "user")
    BY <2>1 DEF Fits
  <2>3. GoOn(h, "user", j) /\ UNCHANGED leader
    BY <1>5 DEF SetCopy, tables
  <2> QED BY <1>0, <2>1, <2>2, <2>3, JobStep
<1>6. CASE CheckOperator(h)
  <2>1. Fits(job[h], "target") /\ job[h] \in Jobs
    BY <1>0, <1>6, OnFits, Kinds DEF CheckOperator
  <2> QED BY <1>0, <1>6, <2>1, JobStep DEF CheckOperator, tables
<1>7. CASE CheckTarget(h)
  <2>1. Fits(job[h], "lockAlliance") /\ job[h] \in Jobs
    BY <1>0, <1>7, OnFits, Kinds DEF CheckTarget
  <2> QED BY <1>0, <1>7, <2>1, JobStep DEF CheckTarget, tables
<1> QED BY <1>1, <1>2, <1>3, <1>4, <1>5, <1>6, <1>7

\* ... and those of a kick that has been checked, or of a request that breaks off.
LEMMA KicksKeepJobs ==
    ASSUME Typed, NEW h \in Handlers,
           \/ LockAlliance(h) \/ LockTarget(h) \/ KickMemberTx(h)
           \/ ForgetTarget(h) \/ ForgetOperator(h) \/ Unlock(h) \/ Stop(h)
    PROVE  JobGood'
<1> USE DEF JobGood
<1>0. {"idle", "lockTarget", "kick", "forgetTarget", "forgetOperator", "unlock"} \subseteq Places
      /\ 0 \in Int /\ 0 \in Aids \cup {0}
  BY DEF Places
<1>1. ASSUME NEW p \in {"lockTarget", "kick", "forgetTarget", "forgetOperator", "unlock"},
             pc[h] \in {"lockAlliance", "lockTarget", "kick", "forgetTarget", "forgetOperator"}
      PROVE  Fits(job[h], p) /\ job[h] \in Jobs
  BY <1>0, <1>1, OnFits, Kinds
<1>2. CASE LockAlliance(h) \/ LockTarget(h)
  BY <1>0, <1>1, <1>2, JobStep DEF LockAlliance, LockTarget, tables
<1>3. CASE KickMemberTx(h)
  BY <1>0, <1>1, <1>3, JobStep DEF KickMemberTx
<1>4. CASE ForgetTarget(h) \/ ForgetOperator(h)
  BY <1>0, <1>1, <1>4, JobStep DEF ForgetTarget, ForgetOperator, tables
<1>5. CASE Unlock(h) \/ Stop(h)
  BY <1>0, <1>5, JobStep DEF Unlock, Stop, tables
<1> QED BY <1>2, <1>3, <1>4, <1>5

\* What TypeOK says of all but the requests themselves.
DataOK ==
    /\ leader \in [Aids -> Players \cup {None}]
    /\ count \in [Aids -> Int]
    /\ members \in [Aids -> SUBSET Players]
    /\ allianceOf \in [Players -> Aids \cup {0}]
    /\ copy \in [Aids -> Int \cup {None}]
    /\ \A a \in Aids \ Founded : copy[a] = None /\ members[a] = {}
    /\ userCopy \in [Players -> Aids \cup {0, None}]
    /\ locks \subseteq {AllianceLockKey(a) : a \in Aids} \cup {UserLockKey(u) : u \in Players}
    /\ requests \in 0..MaxRequests /\ stops \in 0..MaxStops
    /\ misled \subseteq Players /\ shaken \subseteq Aids /\ waived \subseteq Aids

\* Typed is made of what follows.
LEMMA TypedParts == DataOK' /\ JobGood' /\ IdsCounted' => Typed'
  BY DEF Typed, TypeOK, DataOK, JobGood

\* Alliances are founded by their leader.
LEMMA SameFounded == UNCHANGED leader => Founded' = Founded /\ (IdsCounted => IdsCounted')
  BY DEF Founded, IdsCounted

\* No request writes a value of another kind.
LEMMA ReadsKeepData ==
    ASSUME Typed, NEW h \in Handlers,
           \/ UserHit(h) \/ UserMiss(h) \/ Keep(h)
           \/ AllianceHit(h) \/ AllianceMiss(h) \/ Fill(h)
           \/ AddMemberTwice(h) \/ CheckOperator(h) \/ CheckTarget(h)
           \/ \E p, j : Accept(h, p, j)
    PROVE  DataOK' /\ UNCHANGED tables
<1>1. CASE \E p, j : Accept(h, p, j)
  BY <1>1, SameFounded, BoundsAssumption DEF Typed, TypeOK, DataOK, Accept, tables, caches, history
<1>2. CASE UserHit(h)
  BY <1>2, Kinds, SameFounded DEF Typed, TypeOK, DataOK, UserHit, tables, caches
<1>3. CASE Keep(h)
  <2>1. Subject(h) \in Players /\ job[h].view \in Aids \cup {0}
    BY <1>3, Kinds DEF Keep, Jobs
  <2> QED BY <1>3, <2>1, SameFounded DEF Typed, TypeOK, DataOK, Keep, tables, history
<1>4. CASE Fill(h)
  <2>1. job[h].aid \in Founded /\ job[h].n \in Int
    BY <1>4, Kinds DEF Fill, Jobs
  <2> QED BY <1>4, <2>1, SameFounded DEF Typed, TypeOK, DataOK, Fill, tables, history
<1>5. CASE UserMiss(h) \/ AllianceHit(h) \/ AllianceMiss(h) \/ AddMemberTwice(h)
           \/ CheckOperator(h) \/ CheckTarget(h)
  <2>1. UNCHANGED <<tables, caches, locks, requests, stops, history>>
    BY <1>5 DEF UserMiss, AllianceHit, AllianceMiss, AddMemberTwice, CheckOperator, CheckTarget
  <2> QED BY <2>1, SameFounded DEF Typed, TypeOK, DataOK, tables, caches, history
<1> QED BY <1>1, <1>2, <1>3, <1>4, <1>5

\* ... those that change a table or the copy,
LEMMA WritesKeepData ==
    ASSUME Typed, NEW h \in Handlers,
           \/ InsertAlliance(h) \/ AddMember(h) \/ UpdateAlliance(h) \/ SetCopy(h)
           \/ KickMemberTx(h)
    PROVE  DataOK'
<1> DEFINE u == job[h].who
           a == job[h].aid
<1>1. CASE InsertAlliance(h)
  <2>1. u \in Players
    BY <1>1, Kinds DEF InsertAlliance
  <2>2. misled' \subseteq Players
    BY <1>1, <2>1 DEF InsertAlliance, Overtakes, Typed, TypeOK
  <2> DEFINE new == Cardinality(Founded) + 1
  <2>3. new \in Aids /\ Founded' = Founded \cup {new}
    BY <1>1, NextId
  <2>4. /\ leader' = [leader EXCEPT ![new] = u]
        /\ count' = [count EXCEPT ![new] = 1]
        /\ members' = [members EXCEPT ![new] = {u}]
        /\ allianceOf' = [allianceOf EXCEPT ![u] = new]
        /\ UNCHANGED <<copy, userCopy, locks, requests, stops, shaken, waived>>
    BY <1>1 DEF InsertAlliance, caches
  <2> HIDE DEF new, u
  <2> QED BY <2>1, <2>2, <2>3, <2>4 DEF Typed, TypeOK, DataOK
<1>2. CASE AddMember(h)
  <2>1. u \in Players /\ a \in Founded /\ a \in Aids
    BY <1>2, Kinds DEF AddMember
  <2>2. misled' \subseteq Players /\ shaken' \subseteq Aids /\ waived' \subseteq Aids
    BY <1>2, <2>1 DEF AddMember, Overtakes, Shakes, Typed, TypeOK
  <2> QED BY <1>2, <2>1, <2>2, SameFounded DEF Typed, TypeOK, DataOK, AddMember, caches
<1>3. CASE UpdateAlliance(h)
  <2>1. a \in Aids /\ NextCount(h) \in Int
    BY <1>3, Kinds DEF UpdateAlliance, NextCount, Jobs
  <2> QED BY <1>3, <2>1, SameFounded
          DEF Typed, TypeOK, DataOK, UpdateAlliance, caches, history
<1>4. CASE SetCopy(h)
  <2>1. a \in Founded /\ a \in Aids /\ job[h].n \in Int
    BY <1>4, Kinds DEF SetCopy, Jobs
  <2>2. shaken' \subseteq Aids
    BY <1>4, <2>1 DEF SetCopy, Shakes, Typed, TypeOK
  <2> QED BY <1>4, <2>1, <2>2, SameFounded DEF Typed, TypeOK, DataOK, SetCopy, tables
<1>5. CASE KickMemberTx(h)
  <2>1. u \in Players /\ a \in Aids
    BY <1>5, Kinds DEF KickMemberTx
  <2>2. misled' \subseteq Players /\ shaken' \subseteq Aids
    BY <1>5, <2>1 DEF KickMemberTx, Overtakes, Shakes, Typed, TypeOK
  <2> QED BY <1>5, <2>1, <2>2, SameFounded
          DEF Typed, TypeOK, DataOK, KickMemberTx, Cleared, caches
<1> QED BY <1>1, <1>2, <1>3, <1>4, <1>5

\* ... and those of a kick, or of a request that breaks off.
LEMMA KicksKeepData ==
    ASSUME Typed, NEW h \in Handlers,
           LockAlliance(h) \/ LockTarget(h) \/ ForgetTarget(h) \/ ForgetOperator(h)
           \/ Unlock(h) \/ Stop(h)
    PROVE  DataOK' /\ UNCHANGED tables
<1> DEFINE Keys == {AllianceLockKey(a) : a \in Aids} \cup {UserLockKey(u) : u \in Players}
<1>1. CASE LockAlliance(h) \/ LockTarget(h)
  <2>1. AllianceLockKey(job[h].aid) \in Keys /\ UserLockKey(job[h].who) \in Keys
    BY <1>1, Kinds DEF LockAlliance, LockTarget
  <2>2. locks' \subseteq Keys
    BY <1>1, <2>1 DEF LockAlliance, LockTarget, Typed, TypeOK
  <2>3. UNCHANGED <<tables, caches, requests, stops, history>>
    BY <1>1 DEF LockAlliance, LockTarget
  <2> QED BY <2>2, <2>3, SameFounded DEF Typed, TypeOK, DataOK, tables, caches, history
<1>2. CASE ForgetTarget(h) \/ ForgetOperator(h)
  <2>1. job[h].who \in Players /\ job[h].by \in Players
    BY <1>2, Kinds DEF ForgetTarget, ForgetOperator
  <2> QED BY <1>2, <2>1, SameFounded
          DEF Typed, TypeOK, DataOK, ForgetTarget, ForgetOperator, tables, history
<1>3. CASE Unlock(h)
  <2>1. locks' \subseteq locks
    BY <1>3 DEF Unlock
  <2> QED BY <1>3, <2>1, SameFounded DEF Typed, TypeOK, DataOK, Unlock, tables, caches, history
<1>4. CASE Stop(h)
  <2>1. locks' \subseteq locks
    BY <1>4 DEF Stop
  <2>2. shaken' \subseteq Aids
    BY <1>4, Kinds DEF Stop, Typed, TypeOK
  <2> QED BY <1>4, <2>1, <2>2, SameFounded, BoundsAssumption
          DEF Typed, TypeOK, DataOK, Stop, tables, caches
<1> QED BY <1>1, <1>2, <1>3, <1>4

\* What Redis forgets leaves tables and requests alone.
LEMMA ForgetsKeepTyped ==
    ASSUME Typed, Forgets \/ UNCHANGED vars
    PROVE  Typed' /\ UNCHANGED <<tables, pc, job>>
<1>1. UNCHANGED <<leader, count, members, allianceOf, pc, job, requests, stops, misled, shaken, waived>>
  BY DEF Forgets, ExpireCopy, ExpireUser, LockExpires, vars, tables, history
<1>2. copy' \in [Aids -> Int \cup {None}] /\ \A a \in Aids : copy[a] = None => copy'[a] = None
  BY DEF Forgets, ExpireCopy, ExpireUser, LockExpires, vars, caches, Typed, TypeOK
<1>3. userCopy' \in [Players -> Aids \cup {0, None}] /\ locks' \subseteq locks
  BY DEF Forgets, ExpireCopy, ExpireUser, LockExpires, vars, caches, Typed, TypeOK
<1>4. JobOK'
  BY <1>1, SameFounded DEF Typed, JobOK, Fits
<1> QED BY <1>1, <1>2, <1>3, <1>4, SameFounded DEF Typed, TypeOK, tables

\* Every step is one of a request or of Redis.
LEMMA NextIsStep == Next <=> (\E h \in Handlers : Step(h)) \/ Forgets
  BY DEF Next, Step, Requested, Reads, Writes, Locks, Forgets

\* Values stay of their kind.
LEMMA StepKeepsTyped ==
    ASSUME Typed, NEW h \in Handlers, Step(h)
    PROVE  Typed'
<1>1. CASE Requested(h)
  <2>1. PICK p \in Places, j \in Jobs : Accept(h, p, j) /\ Fits(j, p)
    BY <1>1, RequestedAccepts
  <2>2. DataOK' /\ UNCHANGED tables
    BY <2>1, ReadsKeepData
  <2>3. JobGood'
    BY <2>1, <2>2, JobStep DEF Accept, JobGood, tables
  <2> QED BY <2>2, <2>3, TypedParts, SameFounded DEF tables, Typed
<1>2. CASE Reads(h)
  <2>1. DataOK' /\ UNCHANGED tables
    BY <1>2, ReadsKeepData DEF Reads
  <2>2. JobGood'
    BY <1>2, ReadsKeepJobs, WritesKeepJobs DEF Reads
  <2> QED BY <2>1, <2>2, TypedParts, SameFounded DEF tables, Typed
<1>3. CASE Writes(h)
  <2>1. DataOK'
    BY <1>3, WritesKeepData DEF Writes
  <2>2. JobGood'
    BY <1>3, WritesKeepJobs, KicksKeepJobs DEF Writes
  <2>3. IdsCounted'
    <3>1. CASE InsertAlliance(h)
      BY <3>1, NextId
    <3>2. CASE ~InsertAlliance(h)
      BY <1>3, <3>2, SameFounded
      DEF Writes, AddMember, UpdateAlliance, SetCopy, KickMemberTx, tables, Typed
    <3> QED BY <3>1, <3>2
  <2> QED BY <2>1, <2>2, <2>3, TypedParts
<1>4. CASE Locks(h)
  <2>1. DataOK' /\ UNCHANGED tables
    BY <1>4, KicksKeepData DEF Locks
  <2>2. JobGood'
    BY <1>4, KicksKeepJobs DEF Locks
  <2> QED BY <2>1, <2>2, TypedParts, SameFounded DEF tables, Typed
<1> QED BY <1>1, <1>2, <1>3, <1>4 DEF Step

\* A step of one request is none of another.
LEMMA OthersWait ==
    ASSUME Typed, NEW h \in Handlers, Step(h)
    PROVE  \A g \in Handlers \ {h} : pc'[g] = pc[g] /\ job'[g] = job[g]
<1>1. \E p, j : GoOn(h, p, j)
  <2>1. CASE Requested(h)
    BY <2>1, RequestedAccepts DEF Accept
  <2>2. CASE Reads(h)
    BY <2>2 DEF Reads, UserHit, UserMiss, Keep, AllianceHit, AllianceMiss, Fill, AddMemberTwice,
                CheckOperator, CheckTarget
  <2>3. CASE Writes(h)
    BY <2>3 DEF Writes, InsertAlliance, AddMember, UpdateAlliance, SetCopy, KickMemberTx
  <2>4. CASE Locks(h)
    BY <2>4 DEF Locks, LockAlliance, LockTarget, ForgetTarget, ForgetOperator, Unlock, Stop
  <2> QED BY <2>1, <2>2, <2>3, <2>4 DEF Step
<1> QED BY <1>1, GoOnEffect

-----------------------------------------------------------------------------
(* The tables and a kick's checks *)

\* Three steps change who leads, who is a member and whose alliance is which.
LEMMA TablesStep ==
    ASSUME Typed, NEW h \in Handlers, Step(h)
    PROVE  \/ InsertAlliance(h) \/ AddMember(h) \/ KickMemberTx(h)
           \/ UNCHANGED <<leader, members, allianceOf>>
<1>1. CASE Requested(h)
  BY <1>1, RequestedAccepts DEF Accept, tables
<1>2. CASE Reads(h)
  BY <1>2, ReadsKeepData DEF Reads, tables
<1>3. CASE Writes(h)
  BY <1>3 DEF Writes, UpdateAlliance, SetCopy, tables
<1>4. CASE Locks(h)
  BY <1>4, KicksKeepData DEF Locks, tables
<1> QED BY <1>1, <1>2, <1>3, <1>4 DEF Step

\* Nobody takes over an alliance.
LEMMA LeaderStays ==
    ASSUME Typed, NEW h \in Handlers, Step(h), NEW a \in Founded
    PROVE  leader'[a] = leader[a]
<1>1. CASE InsertAlliance(h)
  <2>1. a # Cardinality(Founded) + 1
    BY <1>1, NextId
  <2> QED BY <1>1, <2>1 DEF InsertAlliance, Typed, TypeOK, Founded
<1>2. CASE AddMember(h) \/ KickMemberTx(h)
  BY <1>2 DEF AddMember, KickMemberTx
<1> QED BY <1>1, <1>2, TablesStep

\* A kick passes its checks one after the other.
LEMMA KickGoesOn ==
    ASSUME Typed, NEW h \in Handlers, Step(h),
           pc'[h] \in {"target", "lockAlliance", "lockTarget", "kick"}
    PROVE  /\ job'[h] = job[h] /\ UNCHANGED tables
           /\ \/ CheckOperator(h) /\ pc'[h] = "target" /\ job[h].by = leader[job[h].aid]
              \/ /\ CheckTarget(h) /\ pc'[h] = "lockAlliance"
                 /\ job[h].who \in members[job[h].aid] /\ job[h].who # leader[job[h].aid]
              \/ LockAlliance(h) /\ pc'[h] = "lockTarget"
              \/ LockTarget(h) /\ pc'[h] = "kick"
<1>1. CASE Requested(h)
  BY <1>1, RequestedAccepts, GoOnEffect DEF Accept
<1>2. CASE Reads(h)
  <2>1. CASE UserHit(h) \/ Keep(h)
    BY <2>1, GoOnEffect DEF UserHit, Keep, After
  <2>2. CASE UserMiss(h) \/ AllianceHit(h) \/ AllianceMiss(h) \/ Fill(h) \/ AddMemberTwice(h)
    BY <2>2, GoOnEffect DEF UserMiss, AllianceHit, AllianceMiss, Fill, AddMemberTwice
  <2>3. CASE CheckOperator(h)
    BY <2>3, GoOnEffect DEF CheckOperator
  <2>4. CASE CheckTarget(h)
    BY <2>4, GoOnEffect DEF CheckTarget
  <2> QED BY <1>2, <2>1, <2>2, <2>3, <2>4 DEF Reads
<1>3. CASE Writes(h)
  BY <1>3, GoOnEffect DEF Writes, InsertAlliance, AddMember, UpdateAlliance, SetCopy, KickMemberTx
<1>4. CASE Locks(h)
  <2>1. CASE LockAlliance(h) \/ LockTarget(h)
    BY <2>1, GoOnEffect DEF LockAlliance, LockTarget
  <2>2. CASE ForgetTarget(h) \/ ForgetOperator(h) \/ Unlock(h) \/ Stop(h)
    BY <2>2, GoOnEffect DEF ForgetTarget, ForgetOperator, Unlock, Stop
  <2> QED BY <1>4, <2>1, <2>2 DEF Locks
<1> QED BY <1>1, <1>2, <1>3, <1>4 DEF Step

\* What a kick has checked stays so: nobody takes over an alliance.
LEMMA StepKeepsChecks ==
    ASSUME Typed, KickChecked, NEW h \in Handlers, Step(h)
    PROVE  KickChecked'
<1> SUFFICES ASSUME NEW g \in Handlers, job'[g].kind = "kick",
                    pc'[g] \in {"target", "lockAlliance", "lockTarget", "kick"}
             PROVE  /\ job'[g].by = leader'[job'[g].aid]
                    /\ pc'[g] # "target" => job'[g].who # leader'[job'[g].aid]
  BY DEF KickChecked
<1>1. CASE g = h
  <2>1. leader' = leader /\ job'[h] = job[h]
    BY <1>1, KickGoesOn DEF tables
  <2>2. CASE CheckOperator(h) /\ pc'[h] = "target" /\ job[h].by = leader[job[h].aid]
    BY <1>1, <2>1, <2>2
  <2>3. CASE CheckTarget(h) \/ LockAlliance(h) \/ LockTarget(h)
    BY <1>1, <2>1, <2>3, KickGoesOn DEF KickChecked, CheckOperator, CheckTarget, LockAlliance, LockTarget
  <2> QED BY <1>1, <2>2, <2>3, KickGoesOn
<1>2. CASE g # h
  <2>1. pc'[g] = pc[g] /\ job'[g] = job[g]
    BY <1>2, OthersWait
  <2>2. job[g].by \in Players /\ job[g].aid \in Aids /\ job[g].by = leader[job[g].aid]
    BY <2>1, Kinds DEF KickChecked
  <2>3. job[g].aid \in Founded
    BY <2>2, NoneAssumption DEF Founded
  <2> QED BY <2>1, <2>2, <2>3, LeaderStays DEF KickChecked
<1> QED BY <1>1, <1>2

\* A kick strikes another than the leader.
LEMMA KickSparesLeader ==
    ASSUME Typed, KickChecked, NEW h \in Handlers, pc[h] = "kick"
    PROVE  /\ job[h].aid \in Founded /\ job[h].who \in Players
           /\ job[h].by = leader[job[h].aid] /\ job[h].who # leader[job[h].aid]
  BY Kinds, NoneAssumption DEF KickChecked, Founded

\* CreateAlliance, AddMember and KickMemberTx change both tables.
LEMMA StepKeepsMembersKnown ==
    ASSUME Typed, KickChecked, MembersKnown, NEW h \in Handlers, Step(h)
    PROVE  MembersKnown'
<1> DEFINE u == job[h].who
           a == job[h].aid
<1>1. CASE InsertAlliance(h)
  <2> DEFINE new == Cardinality(Founded) + 1
  <2>1. new \in Aids \ Founded /\ Founded' = Founded \cup {new} /\ u \in Players
    BY <1>1, NextId, Kinds DEF InsertAlliance
  <2>2. /\ leader' = [leader EXCEPT ![new] = u]
        /\ members' = [members EXCEPT ![new] = {u}]
        /\ allianceOf' = [allianceOf EXCEPT ![u] = new]
    BY <1>1 DEF InsertAlliance
  <2>3. members[new] = {}
    BY <2>1 DEF Typed, TypeOK
  <2> HIDE DEF new, u
  <2> QED BY <2>1, <2>2, <2>3 DEF Typed, TypeOK, MembersKnown, Founded
<1>2. CASE AddMember(h)
  <2>1. u \in Players /\ a \in Aids
    BY <1>2, Kinds DEF AddMember
  <2>2. leader' = leader /\ Founded' = Founded
    BY <1>2, SameFounded DEF AddMember
  <2> QED BY <1>2, <2>1, <2>2 DEF Typed, TypeOK, AddMember, MembersKnown, Founded, Aids
<1>3. CASE KickMemberTx(h)
  <2>1. pc[h] = "kick" /\ leader' = leader /\ Founded' = Founded
    BY <1>3, SameFounded DEF KickMemberTx
  <2>2. u \in Players /\ a \in Founded /\ u # leader[a]
    BY <2>1, KickSparesLeader
  <2> QED BY <1>3, <2>1, <2>2 DEF Typed, TypeOK, KickMemberTx, Cleared, MembersKnown, Founded
<1>4. CASE UNCHANGED <<leader, members, allianceOf>>
  BY <1>4, SameFounded DEF MembersKnown
<1> QED BY <1>1, <1>2, <1>3, <1>4, TablesStep

\* The step that takes a member away is the kick of his leader.
LEMMA StepIsLeaders ==
    ASSUME Typed, KickChecked, NEW h \in Handlers, Step(h), NEW a \in Aids,
           ~(members[a] \subseteq members'[a])
    PROVE  /\ pc[h] = "kick" /\ job[h].aid = a
           /\ job[h].by = leader[a] /\ job[h].who # leader[a]
           /\ members'[a] = members[a] \ {job[h].who}
<1>1. ~InsertAlliance(h)
  <2> SUFFICES ASSUME InsertAlliance(h) PROVE FALSE
    OBVIOUS
  <2> DEFINE new == Cardinality(Founded) + 1
  <2>1. new \in Aids \ Founded
    BY NextId
  <2>2. members[new] = {}
    BY <2>1 DEF Typed, TypeOK
  <2>3. members' = [members EXCEPT ![new] = {job[h].who}]
    BY DEF InsertAlliance
  <2> HIDE DEF new
  <2> QED BY <2>2, <2>3 DEF Typed, TypeOK
<1>2. ~AddMember(h)
  BY DEF AddMember, Typed, TypeOK
<1>3. KickMemberTx(h)
  BY <1>1, <1>2, TablesStep
<1>4. job[h].aid = a /\ members'[a] = members[a] \ {job[h].who}
  BY <1>3 DEF KickMemberTx, Typed, TypeOK
<1> QED BY <1>3, <1>4, KickSparesLeader DEF KickMemberTx

-----------------------------------------------------------------------------
(* What requests decide by *)

\* What a user's request makes of the alliance v that it has read.
LEMMA AfterDecides ==
    ASSUME Typed, NEW h \in Handlers, pc[h] \in {"user", "keep"}, NEW v
    PROVE  /\ WithView(h, v).kind = job[h].kind /\ WithView(h, v).who = job[h].who
           /\ WithView(h, v).n = job[h].n
           /\ WithView(h, v).aid = IF job[h].kind = "kick" THEN v ELSE job[h].aid
           /\ After(h, v) \in {"idle", "insert", "add", "rank"}
           /\ After(h, v) = "insert" => job[h].kind = "create" /\ v = 0
           /\ After(h, v) = "add" => job[h].kind \in {"join", "approve"}
           /\ After(h, v) = "rank" => job[h].kind = "kick"
           /\ After(h, v) = "add" /\ job[h].kind = "join" => v = 0 /\ job[h].n < MaxMember
<1>1. job[h] \in Jobs
  BY Kinds
<1>2. /\ WithView(h, v).kind = job[h].kind /\ WithView(h, v).who = job[h].who
      /\ WithView(h, v).n = job[h].n
      /\ WithView(h, v).aid = IF job[h].kind = "kick" THEN v ELSE job[h].aid
  BY <1>1 DEF WithView, Jobs
<1> QED BY <1>2 DEF After, MayJoin

\* The steps of a founder or a newcomer to the decision.
LEMMA DecisionGoesOn ==
    ASSUME Typed, NEW h \in Handlers, Step(h), pc'[h] \in {"keep", "insert", "add"},
           job'[h].kind \in {"create", "join"}
    PROVE  /\ UNCHANGED tables
           /\ job'[h].kind = job[h].kind /\ job'[h].who = job[h].who
           /\ \/ /\ pc'[h] = "keep" /\ job'[h].view = allianceOf[job[h].who]
              \/ /\ pc'[h] # "keep" /\ pc[h] = "keep" /\ job[h].view = 0
              \/ /\ pc'[h] # "keep"
                 /\ allianceOf[job[h].who] = 0 \/ job[h].who \in misled'
<1>1. CASE UserHit(h)
  <2>1. /\ pc'[h] = After(h, userCopy[Subject(h)])
        /\ pc'[h] # "idle" => job'[h] = WithView(h, userCopy[Subject(h)])
    BY <1>1, GoOnEffect DEF UserHit
  <2>2. job[h].kind \in {"create", "join"} /\ job'[h].who = job[h].who
        /\ job'[h].kind = job[h].kind /\ userCopy[Subject(h)] = 0 /\ Subject(h) = job[h].who
    BY <1>1, <2>1, AfterDecides DEF UserHit, Subject
  <2>3. pc'[h] # "keep"
    BY <1>1, <2>1, AfterDecides DEF UserHit
  <2> QED BY <1>1, <2>2, <2>3 DEF UserHit
<1>2. CASE Keep(h)
  <2>1. /\ pc'[h] = After(h, job[h].view)
        /\ pc'[h] # "idle" => job'[h] = WithView(h, job[h].view)
    BY <1>2, GoOnEffect DEF Keep
  <2>2. /\ job'[h].who = job[h].who /\ job'[h].kind = job[h].kind
        /\ job[h].view = 0 /\ pc'[h] # "keep"
    BY <1>2, <2>1, AfterDecides DEF Keep
  <2> QED BY <1>2, <2>2 DEF Keep
<1>3. CASE UserMiss(h)
  <2>1. pc'[h] = "keep" /\ job'[h] = [job[h] EXCEPT !.view = allianceOf[Subject(h)]]
    BY <1>3, GoOnEffect DEF UserMiss
  <2>2. job[h] \in Jobs
    BY <1>3, Kinds DEF UserMiss
  <2>3. /\ job'[h].kind = job[h].kind /\ job'[h].who = job[h].who
        /\ job'[h].view = allianceOf[Subject(h)]
    BY <2>1, <2>2 DEF Jobs
  <2>4. Subject(h) = job[h].who
    BY <2>3 DEF Subject
  <2> QED BY <1>3, <2>1, <2>3, <2>4 DEF UserMiss
<1>4. ~Requested(h)
  BY RequestedAccepts, GoOnEffect DEF Accept
<1>5. ~(AllianceHit(h) \/ AllianceMiss(h) \/ Fill(h) \/ AddMemberTwice(h) \/ CheckOperator(h) \/ CheckTarget(h))
  BY GoOnEffect DEF AllianceHit, AllianceMiss, Fill, AddMemberTwice, CheckOperator, CheckTarget
<1>6. ~Writes(h)
  BY GoOnEffect DEF Writes, InsertAlliance, AddMember, UpdateAlliance, SetCopy, KickMemberTx
<1>7. ~Locks(h)
  BY GoOnEffect DEF Locks, LockAlliance, LockTarget, ForgetTarget, ForgetOperator, Unlock, Stop
<1> QED BY <1>1, <1>2, <1>3, <1>4, <1>5, <1>6, <1>7 DEF Step, Reads

\* Who was misled stays so.
LEMMA MisledGrows ==
    ASSUME Typed, NEW h \in Handlers, Step(h)
    PROVE  misled \subseteq misled'
<1>1. CASE Requested(h)
  BY <1>1, RequestedAccepts DEF Accept, history
<1>2. CASE Reads(h)
  BY <1>2 DEF Reads, UserHit, UserMiss, Keep, AllianceHit, AllianceMiss, Fill, AddMemberTwice,
              CheckOperator, CheckTarget, history
<1>3. CASE Writes(h)
  BY <1>3 DEF Writes, InsertAlliance, AddMember, UpdateAlliance, SetCopy, KickMemberTx, history
<1>4. CASE Locks(h)
  BY <1>4 DEF Locks, LockAlliance, LockTarget, ForgetTarget, ForgetOperator, Unlock, Stop, history
<1> QED BY <1>1, <1>2, <1>3, <1>4 DEF Step

\* Who changes a player's alliance misleads those who decide by it.
LEMMA RowChange ==
    ASSUME Typed, NEW h \in Handlers, Step(h), NEW w \in Players,
           allianceOf'[w] # allianceOf[w]
    PROVE  /\ w = job[h].who
           /\ \A g \in Handlers \ {h} : Deciding(g, w) => w \in misled'
<1>1. InsertAlliance(h) \/ AddMember(h) \/ KickMemberTx(h)
  BY TablesStep
<1>2. w = job[h].who /\ Overtakes(h, w) \subseteq misled'
  BY <1>1 DEF InsertAlliance, AddMember, KickMemberTx, Cleared, Typed, TypeOK
<1> QED BY <1>2 DEF Overtakes

\* Who decides by an alliance that changes is misled.
LEMMA StepKeepsDecisions ==
    ASSUME Typed, DecidedRight, OneAlliance, NEW h \in Handlers, Step(h)
    PROVE  DecidedRight'
<1> SUFFICES ASSUME NEW g \in Handlers, job'[g].who \notin misled'
             PROVE  /\ job'[g].kind \in {"create", "join"} /\ pc'[g] = "keep" =>
                           job'[g].view = allianceOf'[job'[g].who]
                    /\ job'[g].kind \in {"create", "join"} /\ pc'[g] \in {"insert", "add"} =>
                           allianceOf'[job'[g].who] = 0
                    /\ job'[g].kind = "kick" /\ pc'[g] \in {"lockAlliance", "lockTarget", "kick"} =>
                           allianceOf'[job'[g].who] = job'[g].aid
  BY DEF DecidedRight
<1>1. CASE g = h
  <2>1. CASE job'[h].kind \in {"create", "join"} /\ pc'[h] \in {"keep", "insert", "add"}
    BY <1>1, <2>1, DecisionGoesOn, MisledGrows DEF DecidedRight, tables
  <2>2. CASE job'[h].kind = "kick" /\ pc'[h] \in {"lockAlliance", "lockTarget", "kick"}
    <3>1. allianceOf' = allianceOf /\ job'[h] = job[h]
      BY <2>2, KickGoesOn DEF tables
    <3>2. CASE CheckTarget(h) /\ job[h].who \in members[job[h].aid]
      <4>1. job[h].who \in Players /\ job[h].aid \in Aids
        BY <3>2, Kinds DEF CheckTarget
      <4> QED BY <1>1, <2>2, <3>1, <3>2, <4>1, MisledGrows DEF OneAlliance
    <3>3. CASE LockAlliance(h) \/ LockTarget(h)
      BY <1>1, <2>2, <3>1, <3>3, MisledGrows DEF DecidedRight, LockAlliance, LockTarget
    <3> QED BY <2>2, <3>2, <3>3, KickGoesOn
  <2> QED BY <1>1, <2>1, <2>2
<1>2. CASE g # h
  <2>1. pc'[g] = pc[g] /\ job'[g] = job[g] /\ job[g].who \notin misled
    BY <1>2, OthersWait, MisledGrows
  <2>2. CASE Deciding(g, job[g].who)
    <3>1. job[g].who \in Players
      BY <2>2, Kinds DEF Deciding
    <3>2. allianceOf'[job[g].who] = allianceOf[job[g].who]
      BY <1>2, <2>1, <2>2, <3>1, RowChange
    <3> QED BY <2>1, <3>2 DEF DecidedRight
  <2>3. CASE ~Deciding(g, job[g].who)
    BY <2>1, <2>3 DEF Deciding
  <2> QED BY <2>2, <2>3
<1> QED BY <1>1, <1>2

\* A player joins who has no alliance, and is kicked from the one he has.
LEMMA StepKeepsOneAlliance ==
    ASSUME Typed, DecidedRight, OneAlliance, MembersKnown, NEW h \in Handlers, Step(h)
    PROVE  OneAlliance'
<1> DEFINE u == job[h].who
           a == job[h].aid
<1> SUFFICES ASSUME NEW w \in Players, w \notin misled', NEW b \in Aids, w \in members'[b]
             PROVE  allianceOf'[w] = b
  BY DEF OneAlliance
<1>0. w \notin misled
  BY MisledGrows
<1>1. CASE InsertAlliance(h)
  <2> DEFINE new == Cardinality(Founded) + 1
  <2>1. new \in Aids \ Founded /\ u \in Players
    BY <1>1, NextId, Kinds DEF InsertAlliance
  <2>2. members' = [members EXCEPT ![new] = {u}] /\ allianceOf' = [allianceOf EXCEPT ![u] = new]
    BY <1>1 DEF InsertAlliance
  <2>3. job[h].kind = "create" /\ pc[h] = "insert"
    BY <1>1, Kinds DEF InsertAlliance
  <2>4. w = u => allianceOf[u] = 0
    BY <1>0, <2>3 DEF DecidedRight
  <2> HIDE DEF new, u
  <2>5. CASE b = new
    BY <2>1, <2>2, <2>5 DEF Typed, TypeOK
  <2>6. CASE b # new
    BY <1>0, <2>1, <2>2, <2>4, <2>6 DEF Typed, TypeOK, OneAlliance, Aids
  <2> QED BY <2>5, <2>6
<1>2. CASE AddMember(h)
  <2>1. /\ pc[h] = "add" /\ u \in Players /\ a \in Aids /\ job[h].kind \in {"join", "approve"}
        /\ members' = [members EXCEPT ![a] = @ \cup {u}]
        /\ allianceOf' = [allianceOf EXCEPT ![u] = a]
    BY <1>2, Kinds DEF AddMember
  <2>2. w = u => allianceOf[u] = 0
    BY <1>0, <1>2, <2>1 DEF DecidedRight, AddMember
  <2> HIDE DEF u, a
  <2> QED BY <1>0, <2>1, <2>2 DEF Typed, TypeOK, OneAlliance, Aids
<1>3. CASE KickMemberTx(h)
  <2>1. /\ pc[h] = "kick" /\ u \in Players /\ a \in Aids /\ job[h].kind = "kick"
        /\ members' = [members EXCEPT ![a] = @ \ {u}]
        /\ allianceOf' = [allianceOf EXCEPT ![u] = 0]
    BY <1>3, Kinds DEF KickMemberTx, Cleared
  <2>2. w = u => allianceOf[u] = a
    BY <1>0, <2>1 DEF DecidedRight
  <2> HIDE DEF u, a
  <2> QED BY <1>0, <2>1, <2>2 DEF Typed, TypeOK, OneAlliance
<1>4. CASE UNCHANGED <<leader, members, allianceOf>>
  BY <1>0, <1>4 DEF OneAlliance
<1> QED BY <1>1, <1>2, <1>3, <1>4, TablesStep

-----------------------------------------------------------------------------
(* The member counts *)

\* An alliance whose count was shaken stays so.
LEMMA ShakenGrows ==
    ASSUME Typed, NEW h \in Handlers, Step(h)
    PROVE  shaken \subseteq shaken' /\ waived \subseteq waived'
<1>1. CASE Requested(h)
  BY <1>1, RequestedAccepts DEF Accept, history
<1>2. CASE Reads(h)
  BY <1>2 DEF Reads, UserHit, UserMiss, Keep, AllianceHit, AllianceMiss, Fill, AddMemberTwice,
              CheckOperator, CheckTarget, history
<1>3. CASE Writes(h)
  BY <1>3 DEF Writes, InsertAlliance, AddMember, UpdateAlliance, SetCopy, KickMemberTx, history
<1>4. CASE Locks(h)
  BY <1>4 DEF Locks, LockAlliance, LockTarget, ForgetTarget, ForgetOperator, Unlock, Stop, history
<1> QED BY <1>1, <1>2, <1>3, <1>4 DEF Step

WritesTo(h, a) ==
    job[h].aid = a /\ (AddMember(h) \/ UpdateAlliance(h) \/ SetCopy(h) \/ KickMemberTx(h))

\* What all other steps do to an alliance: nothing but to make a copy of it.
LEMMA AllianceRests ==
    ASSUME Typed, NEW h \in Handlers, Step(h), NEW a \in Founded, ~WritesTo(h, a)
    PROVE  /\ count'[a] = count[a] /\ members'[a] = members[a]
           /\ \/ copy'[a] = copy[a]
              \/ Fill(h) /\ job[h].aid = a /\ copy'[a] = job[h].n
<1>0. a \in Aids /\ (pc[h] \in {"fill", "add", "update", "copy", "kick"} => job[h].aid \in Aids)
  BY Kinds DEF Founded
<1>1. CASE Requested(h)
  BY <1>1, RequestedAccepts DEF Accept, tables, caches
<1>2. CASE Reads(h)
  <2>1. CASE Fill(h)
    BY <1>0, <2>1 DEF Fill, Typed, TypeOK, tables
  <2>2. CASE ~Fill(h)
    BY <1>2, <2>2 DEF Reads, UserHit, UserMiss, Keep, AllianceHit, AllianceMiss, AddMemberTwice,
                      CheckOperator, CheckTarget, tables, caches
  <2> QED BY <2>1, <2>2
<1>3. CASE Writes(h)
  <2>1. CASE InsertAlliance(h)
    <3>1. a # Cardinality(Founded) + 1
      BY <2>1, NextId
    <3> QED BY <1>0, <2>1, <3>1 DEF InsertAlliance, Typed, TypeOK, caches
  <2>2. CASE ~InsertAlliance(h)
    <3>1. job[h].aid # a
      BY <1>3, <2>2 DEF Writes, WritesTo
    <3> QED BY <1>0, <1>3, <2>2, <3>1
            DEF Writes, AddMember, UpdateAlliance, SetCopy, KickMemberTx, Typed, TypeOK, caches, tables
  <2> QED BY <2>1, <2>2
<1>4. CASE Locks(h)
  BY <1>4 DEF Locks, LockAlliance, LockTarget, ForgetTarget, ForgetOperator, Unlock, Stop, tables, caches
<1> QED BY <1>1, <1>2, <1>3, <1>4 DEF Step

\* The joins between their insert and their copy stay where they are.
LEMMA WritersStay ==
    ASSUME Typed, NEW h \in Handlers, Step(h), NEW a \in Founded, a \notin shaken',
           ~WritesTo(h, a), NEW p \in {"update", "copy"}
    PROVE  At(h, p, a)' <=> At(h, p, a)
<1>1. ASSUME At(h, p, a) PROVE FALSE
  <2>1. ~Requested(h)
    BY <1>1, RequestedAccepts DEF Accept, At
  <2>2. ~Reads(h)
    BY <1>1 DEF At, Reads, UserHit, UserMiss, Keep, AllianceHit, AllianceMiss, Fill, AddMemberTwice,
                CheckOperator, CheckTarget
  <2>3. ~Writes(h)
    BY <1>1 DEF At, Writes, WritesTo, InsertAlliance, AddMember, UpdateAlliance, SetCopy, KickMemberTx
  <2>4. ~Locks(h)
    BY <1>1 DEF At, Locks, LockAlliance, LockTarget, ForgetTarget, ForgetOperator, Unlock, Stop
  <2> QED BY <2>1, <2>2, <2>3, <2>4 DEF Step
<1>2. ASSUME At(h, p, a)' PROVE FALSE
  <2>1. ~Requested(h)
    BY <1>2, RequestedAccepts, GoOnEffect DEF Accept, At
  <2>2. ~Reads(h)
    <3>1. ~UserHit(h) /\ ~Keep(h)
      BY <1>2, GoOnEffect, AfterDecides DEF UserHit, Keep, At
    <3> QED BY <1>2, <3>1, GoOnEffect
            DEF At, Reads, UserMiss, AllianceHit, AllianceMiss, Fill, AddMemberTwice,
                CheckOperator, CheckTarget
  <2>3. ~Writes(h)
    <3>1. ~AddMember(h)
      BY <1>2, GoOnEffect DEF AddMember, At, WritesTo
    <3>2. ~UpdateAlliance(h)
      <4> SUFFICES ASSUME UpdateAlliance(h) PROVE FALSE
        OBVIOUS
      <4>1. job'[h] = [job[h] EXCEPT !.n = NextCount(h)] /\ job[h] \in Jobs
        BY <1>2, GoOnEffect, Kinds DEF UpdateAlliance, At
      <4>2. job'[h].aid = job[h].aid
        BY <4>1 DEF Jobs
      <4> QED BY <1>2, <4>2 DEF At, WritesTo
    <3> QED BY <1>2, <3>1, <3>2, GoOnEffect DEF At, Writes, InsertAlliance, SetCopy, KickMemberTx
  <2>4. ~Locks(h)
    BY <1>2, GoOnEffect DEF At, Locks, LockAlliance, LockTarget, ForgetTarget, ForgetOperator, Unlock, Stop
  <2> QED BY <2>1, <2>2, <2>3, <2>4 DEF Step
<1> QED BY <1>1, <1>2

\* What a request has read of an alliance once it has made a step that does
\* not write to it.
LEMMA ReadIsRight ==
    ASSUME Typed, NEW h \in Handlers, Step(h), NEW a \in Founded, ~WritesTo(h, a),
           AllianceGood(a), job'[h].aid = a
    PROVE  ReadRight(job'[h], pc'[h], a)
<1>0. /\ a \in Aids /\ a # 0 /\ NoJob.aid = 0
      /\ job[h].aid = a => ReadRight(job[h], pc[h], a)
  BY DEF Founded, Aids, NoJob, AllianceGood, CountsRead
<1>1. CASE Requested(h)
  <2>1. PICK p \in Places, j \in Jobs :
            /\ Accept(h, p, j) /\ Fits(j, p) /\ p \in {"user", "alliance"}
            /\ p = "user" => j.kind \in {"create", "kick"}
    BY <1>1, RequestedAccepts
  <2>2. pc'[h] = p /\ job'[h] = j
    BY <2>1, GoOnEffect DEF Accept
  <2> QED BY <2>1, <2>2 DEF ReadRight
<1>2. ASSUME NEW v, pc[h] \in {"user", "keep"}, GoOn(h, After(h, v), WithView(h, v))
      PROVE  ReadRight(job'[h], pc'[h], a)
  <2>1. pc'[h] = After(h, v) /\ pc'[h] # "idle" => job'[h] = WithView(h, v)
    BY <1>2, GoOnEffect
  <2> QED BY <1>0, <1>2, <2>1, AfterDecides, GoOnEffect DEF ReadRight
<1>3. CASE UserMiss(h)
  <2>1. /\ pc'[h] = "keep" /\ pc[h] = "user" /\ job[h] \in Jobs
        /\ job'[h] = [job[h] EXCEPT !.view = allianceOf[Subject(h)]]
    BY <1>3, GoOnEffect, Kinds DEF UserMiss
  <2>2. job'[h].kind = job[h].kind /\ job'[h].n = job[h].n /\ job'[h].aid = job[h].aid
    BY <2>1 DEF Jobs
  <2> QED BY <1>0, <2>1, <2>2 DEF ReadRight
<1>4. CASE AllianceHit(h) \/ AllianceMiss(h)
  <2>1. PICK n \in {copy[job[h].aid], count[job[h].aid]} :
            /\ pc'[h] # "idle" => job'[h] = [job[h] EXCEPT !.n = n]
            /\ pc[h] = "alliance" /\ pc'[h] \in {"idle", "user", "fill"}
            /\ n = copy[job[h].aid] => copy[job[h].aid] # None \/ n = count[job[h].aid]
    BY <1>4, GoOnEffect DEF AllianceHit, AllianceMiss
  <2>2. pc'[h] # "idle"
    BY <1>0, <1>4, GoOnEffect DEF AllianceHit, AllianceMiss
  <2>3. job'[h].n = n /\ job'[h].aid = job[h].aid
    BY <2>1, <2>2, Kinds DEF Jobs
  <2>4. Current(n, a)
    BY <2>1, <2>3 DEF AllianceGood, CountRight, Current
  <2> QED BY <2>1, <2>2, <2>3, <2>4 DEF ReadRight
<1>5. CASE Fill(h)
  <2>1. pc'[h] = "user" /\ job'[h] = job[h] /\ pc[h] = "fill"
    BY <1>5, GoOnEffect DEF Fill
  <2> QED BY <1>0, <2>1 DEF ReadRight
<1>6. CASE AddMemberTwice(h) \/ InsertAlliance(h) \/ SetCopy(h) \/ Unlock(h) \/ Stop(h)
  <2>1. job'[h] \in {NoJob, [NoJob EXCEPT !.kind = "joined", !.who = job[h].who]}
    BY <1>6, GoOnEffect DEF AddMemberTwice, InsertAlliance, SetCopy, Unlock, Stop
  <2>2. NoJob \in Jobs
    BY DEF NoJob, Jobs
  <2> QED BY <1>0, <2>1, <2>2 DEF Jobs
<1>7. CASE AddMember(h) \/ KickMemberTx(h) \/ UpdateAlliance(h)
  <2>1. \/ pc'[h] = "idle" /\ job'[h] = NoJob
        \/ job'[h] = job[h]
        \/ job'[h] = [job[h] EXCEPT !.n = NextCount(h)] /\ job[h] \in Jobs
    BY <1>7, GoOnEffect, Kinds DEF AddMember, KickMemberTx, UpdateAlliance
  <2>2. job[h].aid # a
    BY <1>7 DEF WritesTo
  <2> QED BY <1>0, <2>1, <2>2 DEF Jobs
<1>8. CASE \/ CheckOperator(h) \/ CheckTarget(h) \/ LockAlliance(h) \/ LockTarget(h)
           \/ ForgetTarget(h) \/ ForgetOperator(h)
  <2>1. CASE pc'[h] \in {"target", "lockAlliance", "lockTarget", "kick"}
    <3>1. job'[h] = job[h] /\ (pc'[h] = "lockAlliance" => job[h].who \in members[job[h].aid])
      BY <2>1, KickGoesOn DEF LockAlliance, LockTarget, CheckOperator
    <3>2. /\ pc'[h] = "lockTarget" => pc[h] = "lockAlliance"
          /\ pc'[h] = "kick" => pc[h] = "lockTarget"
          /\ pc[h] # "idle"
      BY <2>1, KickGoesOn, GoOnEffect DEF CheckOperator, CheckTarget, LockAlliance, LockTarget
    <3>3. job[h].kind = "kick"
      BY <1>8, Kinds DEF CheckOperator, CheckTarget, LockAlliance, LockTarget, ForgetTarget,
                         ForgetOperator
    <3> QED BY <1>0, <2>1, <3>1, <3>2, <3>3 DEF ReadRight
  <2>2. CASE pc'[h] \notin {"target", "lockAlliance", "lockTarget", "kick"}
    <3>1. pc'[h] \in {"idle", "forgetOperator", "unlock"}
      BY <1>8, <2>2, GoOnEffect DEF CheckOperator, CheckTarget, LockAlliance, LockTarget,
                                    ForgetTarget, ForgetOperator
    <3> QED BY <3>1 DEF ReadRight
  <2> QED BY <2>1, <2>2
<1> QED BY <1>1, <1>2, <1>3, <1>4, <1>5, <1>6, <1>7, <1>8
        DEF Step, Reads, Writes, Locks, UserHit, Keep

\* A step that does not write to an alliance leaves it in order.
LEMMA RestKeepsGood ==
    ASSUME Typed, NEW h \in Handlers, Step(h), NEW a \in Founded, a \notin shaken',
           ~WritesTo(h, a), AllianceGood(a)
    PROVE  AllianceGood(a)'
<1>1. ASSUME NEW g \in Handlers, NEW p \in {"update", "copy"}
      PROVE  At(g, p, a)' <=> At(g, p, a)
  <2>1. CASE g = h
    BY <1>1, <2>1, WritersStay
  <2>2. CASE g # h
    BY <2>2, OthersWait DEF At
  <2> QED BY <2>1, <2>2
<1>2. /\ count'[a] = count[a] /\ members'[a] = members[a]
      /\ copy'[a] = copy[a] \/ Current(copy'[a], a)
  <2>1. Fill(h) /\ job[h].aid = a => Current(job[h].n, a)
    BY Kinds DEF Fill, AllianceGood, CountsRead, ReadRight
  <2> QED BY <2>1, AllianceRests
<1>3. ASSUME NEW n PROVE Current(n, a) => Current(n, a)'
  BY <1>1, <1>2 DEF Current
<1>4. OneWriter(a)'
  BY <1>1 DEF AllianceGood, OneWriter
<1>5. CountRight(a)'
  <2>1. /\ Cardinality(members[a]) =
               IF \E g \in Handlers : At(g, "update", a) THEN count[a] + 1 ELSE count[a]
        /\ copy'[a] # None => Current(copy'[a], a)
    BY <1>2 DEF AllianceGood, CountRight
  <2> QED BY <1>1, <1>2, <1>3, <2>1 DEF CountRight
<1>6. CountsRead(a)'
  <2> SUFFICES ASSUME NEW g \in Handlers, job'[g].aid = a
               PROVE  ReadRight(job[g], pc[g], a)'
    BY DEF CountsRead
  <2> DEFINE j == job'[g]
             p == pc'[g]
  <2>1. ReadRight(j, p, a)
    <3>1. CASE g = h
      BY <3>1, ReadIsRight
    <3>2. CASE g # h
      BY <3>2, OthersWait DEF AllianceGood, CountsRead
    <3> QED BY <3>1, <3>2
  <2>2. /\ j.kind \in {"join", "approve"} /\ p \in {"fill", "user", "keep", "add"} =>
               Current(j.n, a)
        /\ p \in {"update", "copy"} => j.n = count'[a]
        /\ j.kind = "kick" /\ p \in {"lockAlliance", "lockTarget", "kick"} =>
               j.who \in members'[a]
    BY <1>2, <2>1 DEF ReadRight
  <2>3. Current(j.n, a) => Current(job[g].n, a)'
    BY <1>1, <1>2 DEF Current
  <2> QED BY <2>2, <2>3 DEF ReadRight
<1> QED BY <1>4, <1>5, <1>6 DEF AllianceGood

\* A step that shakes an alliance not: nobody else has read what it changes.
LEMMA NotShaken ==
    ASSUME Typed, NEW h \in Handlers, NEW a \in Founded, a \notin Shakes(h, a),
           NEW g \in Handlers \ {h}, job[g].aid = a
    PROVE  /\ pc[g] \notin {"fill", "add", "update", "copy"}
           /\ job[g].kind \in {"join", "approve"} => pc[g] \in {"alliance", "idle"}
           /\ job[g].kind = "kick" /\ pc[g] \in {"lockAlliance", "lockTarget", "kick"} =>
                  job[g].who # job[h].who
<1>1. Counting(g, a) => job[g].kind = "kick" /\ job[g].who # job[h].who
  BY DEF Shakes
<1>2. job[g].kind \in {"join", "approve"} => pc[g] = "alliance"
  BY <1>1 DEF Counting
<1>3. pc[g] \in {"fill", "add", "update", "copy"} => job[g].kind \in {"join", "approve"}
  BY Kinds
<1> QED BY <1>1, <1>2, <1>3 DEF Counting, Deciding

\* A join's insert: the count follows in the next step.
LEMMA AddKeepsGood ==
    ASSUME Typed, NEW h \in Handlers, AddMember(h), NEW a \in Founded \ shaken', job[h].aid = a,
           AllianceGood(a), MembersFinite
    PROVE  /\ AllianceGood(a)'
           /\ Cardinality(members'[a]) = job[h].n + 1
<1> DEFINE u == job[h].who
<1>1. /\ a \notin Shakes(h, a) /\ a \in Aids /\ pc[h] = "add" /\ u \notin members[a]
      /\ job[h].kind \in {"join", "approve"} /\ u \in Players
  BY Kinds DEF AddMember
<1>2. /\ pc'[h] = "update" /\ job'[h] = job[h]
      /\ \A g \in Handlers \ {h} : pc'[g] = pc[g] /\ job'[g] = job[g]
  BY GoOnEffect DEF AddMember
<1>3. members'[a] = members[a] \cup {u} /\ count' = count /\ copy' = copy
  BY <1>1 DEF AddMember, Typed, TypeOK, caches
<1>4. \A g \in Handlers : ~At(g, "update", a) /\ ~At(g, "copy", a)
  BY <1>1, NotShaken DEF At
<1>5. job[h].n = count[a] /\ Cardinality(members[a]) = count[a] /\ copy[a] \in {None, count[a]}
  BY <1>1, <1>4 DEF AllianceGood, CountsRead, CountRight, ReadRight, Current
<1>6. Cardinality(members'[a]) = count[a] + 1
  BY <1>1, <1>3, <1>5, FS_AddElement DEF MembersFinite
<1>7. \A g \in Handlers : /\ At(g, "update", a)' <=> g = h
                          /\ ~At(g, "copy", a)'
  BY <1>2, <1>4 DEF At
<1>8. OneWriter(a)' /\ CountRight(a)'
  BY <1>3, <1>5, <1>6, <1>7 DEF OneWriter, CountRight, Current
<1>9. CountsRead(a)'
  <2> SUFFICES ASSUME NEW g \in Handlers, job'[g].aid = a
               PROVE  ReadRight(job[g], pc[g], a)'
    BY DEF CountsRead
  <2>1. CASE g = h
    BY <1>1, <1>2, <1>3, <1>5, <2>1 DEF ReadRight
  <2>2. CASE g # h
    <3>1. /\ pc'[g] = pc[g] /\ job'[g] = job[g] /\ pc[g] \notin {"update", "copy"}
          /\ ~(job[g].kind \in {"join", "approve"} /\ pc[g] \in {"fill", "user", "keep", "add"})
      BY <1>1, <1>2, <2>2, NotShaken
    <3>2. ReadRight(job[g], pc[g], a)
      BY <2>2, <3>1 DEF AllianceGood, CountsRead
    <3> QED BY <1>3, <3>1, <3>2 DEF ReadRight
  <2> QED BY <2>1, <2>2
<1> QED BY <1>5, <1>6, <1>8, <1>9 DEF AllianceGood

\* A join's update: the count is that of the members again.
LEMMA UpdateKeepsGood ==
    ASSUME Typed, NEW h \in Handlers, UpdateAlliance(h), NEW a \in Founded, job[h].aid = a,
           AllianceGood(a)
    PROVE  AllianceGood(a)'
<1>1. a \in Aids /\ pc[h] = "update" /\ job[h] \in Jobs
  BY Kinds DEF UpdateAlliance
<1>2. At(h, "update", a) /\ job[h].n = count[a] /\ count[a] \in Int
  BY <1>1 DEF At, AllianceGood, CountsRead, ReadRight, Typed, TypeOK
<1>3. count'[a] = count[a] + 1 /\ members' = members /\ copy' = copy
  BY <1>1, <1>2 DEF UpdateAlliance, NextCount, Typed, TypeOK, caches
<1>4. /\ pc'[h] = "copy" /\ job'[h] = [job[h] EXCEPT !.n = count[a] + 1]
      /\ \A g \in Handlers \ {h} : pc'[g] = pc[g] /\ job'[g] = job[g]
  BY <1>2, GoOnEffect DEF UpdateAlliance, NextCount
<1>5. job'[h].n = count[a] + 1 /\ job'[h].aid = a
  BY <1>1, <1>4 DEF Jobs
<1>6. \A g \in Handlers \ {h} : ~At(g, "update", a) /\ ~At(g, "copy", a)
  BY <1>2 DEF AllianceGood, OneWriter
<1>7. \A g \in Handlers : /\ ~At(g, "update", a)'
                          /\ At(g, "copy", a)' <=> g = h
  BY <1>4, <1>5, <1>6 DEF At
<1>8. ~At(h, "copy", a)
  BY <1>1 DEF At
<1>9. ASSUME NEW n, Current(n, a) PROVE n = count'[a] - 1
  BY <1>2, <1>3, <1>6, <1>8, <1>9 DEF Current
<1>10. OneWriter(a)'
  BY <1>7 DEF OneWriter
<1>11. CountRight(a)'
  BY <1>2, <1>3, <1>7, <1>9 DEF CountRight, Current, AllianceGood
<1>12. CountsRead(a)'
  <2> SUFFICES ASSUME NEW g \in Handlers, job'[g].aid = a
               PROVE  ReadRight(job[g], pc[g], a)'
    BY DEF CountsRead
  <2>1. CASE g = h
    BY <1>3, <1>4, <1>5, <2>1 DEF ReadRight
  <2>2. CASE g # h
    <3>1. pc'[g] = pc[g] /\ job'[g] = job[g] /\ pc[g] \notin {"update", "copy"}
      BY <1>4, <1>6, <2>2 DEF At
    <3>2. ReadRight(job[g], pc[g], a)
      BY <2>2, <3>1 DEF AllianceGood, CountsRead
    <3> QED BY <1>3, <1>7, <1>9, <3>1, <3>2 DEF ReadRight, Current
  <2> QED BY <2>1, <2>2
<1> QED BY <1>10, <1>11, <1>12 DEF AllianceGood

\* The end of a join: the copy has the count.
LEMMA SetCopyKeepsGood ==
    ASSUME Typed, NEW h \in Handlers, SetCopy(h), NEW a \in Founded \ shaken', job[h].aid = a,
           AllianceGood(a)
    PROVE  AllianceGood(a)'
<1>1. a \notin Shakes(h, a) /\ a \in Aids /\ pc[h] = "copy" /\ a # 0 /\ NoJob.aid = 0 /\ NoJob \in Jobs
  BY Kinds DEF SetCopy, Aids, NoJob, Jobs
<1>2. /\ pc'[h] = "user" /\ job'[h] = [NoJob EXCEPT !.kind = "joined", !.who = job[h].who]
      /\ \A g \in Handlers \ {h} : pc'[g] = pc[g] /\ job'[g] = job[g]
  BY GoOnEffect DEF SetCopy
<1>3. job'[h].aid # a
  BY <1>1, <1>2 DEF Jobs
<1>4. At(h, "copy", a) /\ job[h].n = count[a] /\ count[a] \in Int
  BY <1>1 DEF At, AllianceGood, CountsRead, ReadRight, Typed, TypeOK
<1>5. copy'[a] = count[a] /\ members' = members /\ count' = count
  BY <1>1, <1>4 DEF SetCopy, Typed, TypeOK, tables
<1>6. \A g \in Handlers : ~At(g, "update", a) /\ (g # h => ~At(g, "copy", a))
  BY <1>1, NotShaken DEF At
<1>7. \A g \in Handlers : ~At(g, "update", a)' /\ ~At(g, "copy", a)'
  BY <1>2, <1>3, <1>6 DEF At
<1>8. OneWriter(a)' /\ CountRight(a)'
  BY <1>5, <1>6, <1>7 DEF OneWriter, CountRight, Current, AllianceGood
<1>9. CountsRead(a)'
  <2> SUFFICES ASSUME NEW g \in Handlers, job'[g].aid = a
               PROVE  ReadRight(job[g], pc[g], a)'
    BY DEF CountsRead
  <2>1. g # h /\ pc'[g] = pc[g] /\ job'[g] = job[g]
    BY <1>2, <1>3
  <2>2. /\ pc[g] \notin {"update", "copy"}
        /\ ~(job[g].kind \in {"join", "approve"} /\ pc[g] \in {"fill", "user", "keep", "add"})
    BY <1>1, <2>1, NotShaken
  <2>3. ReadRight(job[g], pc[g], a)
    BY <2>1 DEF AllianceGood, CountsRead
  <2> QED BY <1>5, <2>1, <2>2, <2>3 DEF ReadRight
<1> QED BY <1>8, <1>9 DEF AllianceGood

\* A kick that meets no copy takes one member and counts one less.
LEMMA KickKeepsGood ==
    ASSUME Typed, NEW h \in Handlers, KickMemberTx(h), NEW a \in Founded \ shaken', job[h].aid = a,
           AllianceGood(a), MembersFinite
    PROVE  AllianceGood(a)'
<1> DEFINE u == job[h].who
<1>1. a \notin Shakes(h, a) /\ a \in Aids /\ pc[h] = "kick" /\ job[h].kind = "kick" /\ copy[a] = None
  BY Kinds DEF KickMemberTx
<1>2. /\ pc'[h] = "forgetTarget" /\ job'[h] = job[h]
      /\ \A g \in Handlers \ {h} : pc'[g] = pc[g] /\ job'[g] = job[g]
  BY GoOnEffect DEF KickMemberTx
<1>3. members'[a] = members[a] \ {u} /\ count'[a] = count[a] - 1 /\ copy' = copy
  BY <1>1 DEF KickMemberTx, Typed, TypeOK, caches
<1>4. \A g \in Handlers : ~At(g, "update", a) /\ ~At(g, "copy", a)
  BY <1>1, NotShaken DEF At
<1>5. u \in members[a] /\ Cardinality(members[a]) = count[a]
  BY <1>1, <1>4 DEF AllianceGood, CountsRead, CountRight, ReadRight
<1>6. Cardinality(members'[a]) = count'[a]
  BY <1>1, <1>3, <1>5, FS_RemoveElement DEF MembersFinite
<1>7. \A g \in Handlers : ~At(g, "update", a)' /\ ~At(g, "copy", a)'
  BY <1>2, <1>4 DEF At
<1>8. OneWriter(a)' /\ CountRight(a)'
  BY <1>1, <1>3, <1>6, <1>7 DEF OneWriter, CountRight
<1>9. CountsRead(a)'
  <2> SUFFICES ASSUME NEW g \in Handlers, job'[g].aid = a
               PROVE  ReadRight(job[g], pc[g], a)'
    BY DEF CountsRead
  <2>1. CASE g = h
    BY <1>1, <1>2, <2>1 DEF ReadRight
  <2>2. CASE g # h
    <3>1. /\ pc'[g] = pc[g] /\ job'[g] = job[g] /\ pc[g] \notin {"update", "copy"}
          /\ ~(job[g].kind \in {"join", "approve"} /\ pc[g] \in {"fill", "user", "keep", "add"})
          /\ job[g].kind = "kick" /\ pc[g] \in {"lockAlliance", "lockTarget", "kick"} =>
                 job[g].who # u
      BY <1>1, <1>2, <2>2, NotShaken
    <3>2. ReadRight(job[g], pc[g], a)
      BY <2>2, <3>1 DEF AllianceGood, CountsRead
    <3> QED BY <1>3, <3>1, <3>2 DEF ReadRight
  <2> QED BY <2>1, <2>2
<1> QED BY <1>8, <1>9 DEF AllianceGood

\* Nobody has read anything of an alliance that is being founded.
LEMMA InsertMakesGood ==
    ASSUME Typed, KickChecked, NEW h \in Handlers, InsertAlliance(h), NEW a, a = Cardinality(Founded) + 1
    PROVE  AllianceGood(a)'
<1>1. a \in Aids \ Founded /\ a # 0 /\ NoJob.aid = 0
  BY NextId DEF Aids, NoJob
<1>2. /\ pc'[h] = "idle" /\ job'[h] = NoJob
      /\ \A g \in Handlers \ {h} : pc'[g] = pc[g] /\ job'[g] = job[g]
  BY GoOnEffect DEF InsertAlliance
<1>3. members'[a] = {job[h].who} /\ count'[a] = 1 /\ copy'[a] = None
  BY <1>1 DEF InsertAlliance, Typed, TypeOK, caches
<1>4. ASSUME NEW g \in Handlers, job'[g].aid = a
      PROVE  /\ g # h /\ pc'[g] = pc[g] /\ job'[g] = job[g]
             /\ pc[g] \notin {"update", "copy"}
             /\ ~(job[g].kind \in {"join", "approve"} /\ pc[g] \in {"fill", "user", "keep", "add"})
             /\ ~(job[g].kind = "kick" /\ pc[g] \in {"lockAlliance", "lockTarget", "kick"})
  <2>1. g # h /\ pc'[g] = pc[g] /\ job'[g] = job[g]
    BY <1>1, <1>2, <1>4
  <2>2. job[g].aid \notin Founded
    BY <1>1, <1>4, <2>1
  <2>3. pc[g] # "idle" => Fits(job[g], pc[g])
    BY DEF Typed, JobOK
  <2>4. ~(job[g].kind = "kick" /\ pc[g] \in {"lockAlliance", "lockTarget", "kick"})
    BY <2>2, Kinds, NoneAssumption DEF KickChecked, Founded
  <2>5. pc[g] \notin {"fill", "add", "update", "copy"}
    BY <2>2, Kinds
  <2> QED BY <2>1, <2>2, <2>3, <2>4, <2>5 DEF Fits
<1>5. \A g \in Handlers : ~At(g, "update", a)' /\ ~At(g, "copy", a)'
  BY <1>4 DEF At
<1>6. Cardinality(members'[a]) = 1
  BY <1>3, FS_Singleton
<1> QED BY <1>3, <1>4, <1>5, <1>6 DEF AllianceGood, OneWriter, CountRight, CountsRead, ReadRight

\* An alliance that a step leaves unshaken is left in order.
LEMMA StepKeepsCounted ==
    ASSUME Typed, KickChecked, MembersFinite, Counted, NEW h \in Handlers, Step(h)
    PROVE  Counted'
<1> SUFFICES ASSUME NEW a \in Founded', a \notin shaken'
             PROVE  AllianceGood(a)'
  BY DEF Counted
<1>1. CASE a \notin Founded
  <2>1. InsertAlliance(h)
    BY <1>1, TablesStep, SameFounded DEF AddMember, KickMemberTx
  <2>2. a = Cardinality(Founded) + 1
    BY <1>1, <2>1, NextId
  <2> QED BY <2>1, <2>2, InsertMakesGood
<1>2. CASE a \in Founded
  <2>1. AllianceGood(a)
    BY <1>2, ShakenGrows DEF Counted
  <2>2. CASE WritesTo(h, a)
    BY <1>2, <2>1, <2>2, AddKeepsGood, UpdateKeepsGood, SetCopyKeepsGood, KickKeepsGood
    DEF WritesTo
  <2>3. CASE ~WritesTo(h, a)
    BY <1>2, <2>1, <2>3, RestKeepsGood
  <2> QED BY <2>2, <2>3
<1> QED BY <1>1, <1>2

\* Members come one by one.
LEMMA StepKeepsFinite ==
    ASSUME Typed, MembersFinite, NEW h \in Handlers, Step(h)
    PROVE  MembersFinite'
<1> SUFFICES ASSUME NEW a \in Aids PROVE IsFiniteSet(members'[a])
  BY DEF MembersFinite
<1>1. members'[a] \in {members[a], {job[h].who}, members[a] \cup {job[h].who},
                       members[a] \ {job[h].who}}
  BY TablesStep DEF InsertAlliance, AddMember, KickMemberTx, Typed, TypeOK
<1>2. ASSUME NEW S, IsFiniteSet(S), NEW u
      PROVE  IsFiniteSet({u}) /\ IsFiniteSet(S \cup {u}) /\ IsFiniteSet(S \ {u})
  BY <1>2, FS_AddElement, FS_RemoveElement, FS_Singleton
<1>3. IsFiniteSet(members[a])
  BY DEF MembersFinite
<1> DEFINE S == members[a]
           u == job[h].who
<1>4. IsFiniteSet({u}) /\ IsFiniteSet(S \cup {u}) /\ IsFiniteSet(S \ {u})
  BY <1>2, <1>3
<1> QED BY <1>1, <1>3, <1>4

\* A join is let in below MaxMember, and the count it saw was that of the members.
LEMMA StepKeepsJoinFits ==
    ASSUME Typed, JoinFits, NEW h \in Handlers, Step(h)
    PROVE  JoinFits'
<1> SUFFICES ASSUME NEW g \in Handlers, job'[g].kind = "join", pc'[g] = "add"
             PROVE  job'[g].n < MaxMember
  BY DEF JoinFits
<1>1. CASE g # h
  BY <1>1, OthersWait DEF JoinFits
<1>2. CASE g = h
  <2>1. ASSUME NEW v, pc[h] \in {"user", "keep"}, GoOn(h, After(h, v), WithView(h, v))
        PROVE  job'[h].n < MaxMember
    <3>1. After(h, v) = "add" /\ job'[h] = WithView(h, v)
      BY <1>2, <2>1, GoOnEffect
    <3> QED BY <1>2, <2>1, <3>1, AfterDecides
  <2>2. CASE UserHit(h) \/ Keep(h)
    BY <1>2, <2>1, <2>2 DEF UserHit, Keep
  <2>3. ~Requested(h)
    BY <1>2, RequestedAccepts, GoOnEffect DEF Accept
  <2>4. Reads(h) => UserHit(h) \/ Keep(h)
    BY <1>2, GoOnEffect DEF Reads, UserMiss, AllianceHit, AllianceMiss, Fill, AddMemberTwice,
                            CheckOperator, CheckTarget
  <2>5. ~Writes(h)
    BY <1>2, GoOnEffect DEF Writes, InsertAlliance, AddMember, UpdateAlliance, SetCopy, KickMemberTx
  <2>6. ~Locks(h)
    BY <1>2, GoOnEffect DEF Locks, LockAlliance, LockTarget, ForgetTarget, ForgetOperator, Unlock, Stop
  <2> QED BY <1>2, <2>2, <2>3, <2>4, <2>5, <2>6 DEF Step
<1> QED BY <1>1, <1>2

\* A join that nothing crosses has counted the members.
LEMMA StepKeepsNotOverfull ==
    ASSUME Typed, KickChecked, MembersFinite, Counted, JoinFits, NotOverfull,
           NEW h \in Handlers, Step(h)
    PROVE  NotOverfull'
<1> SUFFICES ASSUME NEW a \in Aids, a \notin shaken', a \notin waived'
             PROVE  Cardinality(members'[a]) <= MaxMember
  BY DEF NotOverfull
<1>0. Cardinality(members[a]) <= MaxMember
  BY ShakenGrows DEF NotOverfull
<1>1. CASE AddMember(h) /\ job[h].aid = a
  <2>1. a \in Founded /\ pc[h] = "add" /\ job[h].kind = "join" /\ job[h].n \in Int
    BY <1>1, Kinds DEF AddMember, Jobs
  <2>2. AllianceGood(a)
    BY <2>1, ShakenGrows DEF Counted
  <2>3. Cardinality(members'[a]) = job[h].n + 1
    BY <1>1, <2>1, <2>2, AddKeepsGood
  <2> QED BY <2>1, <2>3, BoundsAssumption DEF JoinFits
<1>2. CASE InsertAlliance(h) /\ a = Cardinality(Founded) + 1
  <2>1. members'[a] = {job[h].who}
    BY <1>2 DEF InsertAlliance, Typed, TypeOK
  <2>2. Cardinality(members'[a]) = 1
    BY <2>1, FS_Singleton
  <2> QED BY <2>2, BoundsAssumption
<1>3. CASE KickMemberTx(h)
  <2>1. members'[a] \subseteq members[a]
    BY <1>3 DEF KickMemberTx, Typed, TypeOK
  <2>2. IsFiniteSet(members[a]) /\ IsFiniteSet(members'[a])
    BY StepKeepsFinite DEF MembersFinite
  <2>3. /\ Cardinality(members[a]) \in Nat /\ Cardinality(members'[a]) \in Nat
        /\ Cardinality(members'[a]) <= Cardinality(members[a])
    BY <2>1, <2>2, FS_Subset, FS_CardinalityType
  <2> QED BY <1>0, <2>3, BoundsAssumption
<1>4. CASE UNCHANGED members \/ (AddMember(h) /\ job[h].aid # a)
           \/ (InsertAlliance(h) /\ a # Cardinality(Founded) + 1)
  <2>1. members'[a] = members[a]
    BY <1>4 DEF AddMember, InsertAlliance, Typed, TypeOK
  <2> QED BY <1>0, <2>1
<1> QED BY <1>1, <1>2, <1>3, <1>4, TablesStep

-----------------------------------------------------------------------------
(* The theorems *)

\* The invariant holds at the start.
LEMMA InitInv == Init => IInv
<1> SUFFICES ASSUME Init PROVE IInv
  OBVIOUS
<1>1. NoJob \in Jobs /\ NoJob.kind = "none"
  BY DEF NoJob, Jobs
<1>2. Founded = {}
  BY DEF Init, Founded
<1>3. IdsCounted
  BY <1>2, BoundsAssumption DEF IdsCounted
<1>4. TypeOK /\ JobOK
  BY <1>1, <1>2, BoundsAssumption DEF Init, TypeOK, JobOK, Aids, Places
<1>5. KickChecked /\ DecidedRight /\ JoinFits
  BY <1>1 DEF Init, KickChecked, DecidedRight, JoinFits
<1>6. MembersKnown /\ OneAlliance /\ Counted
  BY <1>2 DEF Init, MembersKnown, OneAlliance, Counted
<1>7. MembersFinite /\ NotOverfull
  BY FS_EmptySet, BoundsAssumption DEF Init, MembersFinite, NotOverfull
<1> QED BY <1>3, <1>4, <1>5, <1>6, <1>7 DEF IInv, Typed

\* What Redis forgets is nothing the invariant rests on.
LEMMA ForgetsKeepInv ==
    ASSUME IInv, Forgets \/ UNCHANGED vars
    PROVE  IInv'
<1>1. Typed' /\ UNCHANGED <<tables, pc, job>>
  BY ForgetsKeepTyped DEF IInv
<1>2. UNCHANGED <<misled, shaken, waived>> /\ Founded' = Founded
  BY <1>1, SameFounded DEF Forgets, ExpireCopy, ExpireUser, LockExpires, vars, history, tables
<1>3. \A a \in Aids : copy'[a] \in {copy[a], None}
  BY DEF Forgets, ExpireCopy, ExpireUser, LockExpires, vars, caches, IInv, Typed, TypeOK
<1>4. KickChecked' /\ MembersKnown' /\ DecidedRight' /\ OneAlliance' /\ MembersFinite'
      /\ JoinFits' /\ NotOverfull'
  BY <1>1, <1>2 DEF IInv, KickChecked, MembersKnown, DecidedRight, OneAlliance, MembersFinite,
                    JoinFits, NotOverfull, tables
<1>5. ASSUME NEW a \in Founded, AllianceGood(a) PROVE AllianceGood(a)'
  <2>1. a \in Aids
    BY DEF Founded
  <2>2. OneWriter(a)' /\ CountsRead(a)' /\ (\A n : Current(n, a)' <=> Current(n, a))
    BY <1>1, <1>5 DEF AllianceGood, OneWriter, CountsRead, ReadRight, Current, At, tables
  <2>3. CountRight(a)'
    BY <1>1, <1>3, <1>5, <2>1, <2>2 DEF AllianceGood, CountRight, Current, At, tables
  <2> QED BY <2>2, <2>3 DEF AllianceGood
<1>6. Counted'
  BY <1>2, <1>5 DEF IInv, Counted, AllianceGood
<1> QED BY <1>1, <1>4, <1>6 DEF IInv

\* IInv is inductive.
LEMMA NextKeepsInv ==
    ASSUME IInv, [Next]_vars
    PROVE  IInv'
<1>1. ASSUME NEW h \in Handlers, Step(h) PROVE IInv'
  BY <1>1, StepKeepsTyped, StepKeepsChecks, StepKeepsMembersKnown, StepKeepsDecisions,
     StepKeepsOneAlliance, StepKeepsCounted, StepKeepsFinite, StepKeepsJoinFits,
     StepKeepsNotOverfull DEF IInv
<1> QED BY <1>1, NextIsStep, ForgetsKeepInv

\* IInv holds in every reachable state.
THEOREM Invariance == Spec => []IInv
  BY InitInv, NextKeepsInv, PTL DEF Spec

\* Every variable holds values of its kind.
THEOREM TypeCorrect == Spec => []TypeOK
<1>1. IInv => TypeOK
  BY DEF IInv, Typed
<1> QED BY <1>1, Invariance, PTL

\* The alliance in a player's row has him as a member, and an alliance its
\* leader, wherever requests cross or break off (AddMember, KickMemberTx).
THEOREM MembersAreKnown == Spec => []MembersKnown
<1>1. IInv => MembersKnown
  BY DEF IInv
<1> QED BY <1>1, Invariance, PTL

\* A player is in one alliance, but for those of whom a request went by an
\* old alliance (Create, Join, KickMember).
THEOREM OneAllianceEach == Spec => []OneAlliance
<1>1. IInv => OneAlliance
  BY DEF IInv
<1> QED BY <1>1, Invariance, PTL

\* One of those in place, or none.
LEMMA InPlaceCounts ==
    ASSUME NEW a, OneWriter(a), NEW p \in {"update", "copy"}
    PROVE  InPlace(p, a) = IF \E h \in Handlers : At(h, p, a) THEN 1 ELSE 0
<1> DEFINE S == {h \in Handlers : pc[h] = p /\ job[h].aid = a}
<1>1. CASE \E h \in Handlers : At(h, p, a)
  <2>1. PICK h \in Handlers : At(h, p, a)
    BY <1>1
  <2>2. S = {h}
    BY <2>1 DEF At, OneWriter
  <2> QED BY <1>1, <2>2, FS_Singleton DEF InPlace
<1>2. CASE ~\E h \in Handlers : At(h, p, a)
  <2>1. S = {}
    BY <1>2 DEF At
  <2> QED BY <1>2, <2>1, FS_EmptySet DEF InPlace
<1> QED BY <1>1, <1>2

\* The member count and its copy are right as long as no two requests about an
\* alliance cross (directJoin, KickMemberTx).
THEOREM CountsAreMembers == Spec => []CountsMembers
<1>1. IInv => CountsMembers
  <2> SUFFICES ASSUME IInv, NEW a \in Founded \ shaken
               PROVE  /\ count[a] + InPlace("update", a) = Cardinality(members[a])
                      /\ copy[a] \in {None, count[a], count[a] - InPlace("copy", a)}
    BY DEF CountsMembers
  <2>1. a \in Aids /\ OneWriter(a) /\ CountRight(a)
    BY DEF IInv, Counted, AllianceGood, Founded
  <2>2. count[a] \in Int
    BY <2>1 DEF IInv, Typed, TypeOK
  <2> QED BY <2>1, <2>2, InPlaceCounts DEF CountRight, Current
<1> QED BY <1>1, Invariance, PTL

\* No alliance grows beyond MaxMember while its count is right and nobody is
\* let in by an approval (Join, directJoin).
THEOREM NeverOverfull == Spec => []NotOverfull
<1>1. IInv => NotOverfull
  BY DEF IInv
<1> QED BY <1>1, Invariance, PTL

\* A member is lost to a kick only, asked for by the leader of this alliance
\* and not striking him, whatever happened since the checks (KickMember).
THEOREM OnlyLeadersKick == Spec => LeaderKicks
<1>1. ASSUME IInv, [Next]_vars
      PROVE  [\A a \in Aids :
                 \/ members[a] \subseteq members'[a]
                 \/ \E h \in Handlers :
                        /\ pc[h] = "kick" /\ job[h].aid = a
                        /\ job[h].by = leader[a] /\ job[h].who # leader[a]
                        /\ members'[a] = members[a] \ {job[h].who}]_vars
  <2>1. ASSUME NEW h \in Handlers, Step(h), NEW a \in Aids, ~(members[a] \subseteq members'[a])
        PROVE  /\ pc[h] = "kick" /\ job[h].aid = a
               /\ job[h].by = leader[a] /\ job[h].who # leader[a]
               /\ members'[a] = members[a] \ {job[h].who}
    BY <1>1, <2>1, StepIsLeaders DEF IInv
  <2>2. Forgets \/ UNCHANGED vars => UNCHANGED members
    BY <1>1, ForgetsKeepTyped DEF IInv, tables
  <2> QED BY <1>1, <2>1, <2>2, NextIsStep
<1> QED BY <1>1, Invariance, PTL DEF Spec, LeaderKicks
=============================================================================
