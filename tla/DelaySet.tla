------------------------------ MODULE DelaySet ------------------------------
(***************************************************************************)
(* A Redis sorted set used as a delay queue, as the march service uses     *)
(* delay:queue:march.  The set is a set of entries [task, score], at most  *)
(* one for a task; a task is the JSON member {uid, march_key, finish_at}.  *)
(***************************************************************************)
EXTENDS Integers, FiniteSets

Entry(task, score) == [task |-> task, score |-> score]

\* ZADD: a member that is already there only gets the new score.
ZAdd(z, e) == {x \in z : x.task # e.task} \cup {e}

\* Fault: every task of the march goes, the one just added too.
ZRemMarch(z, task) == {x \in z : x.task.key # task.key}

\* ZREM of one member, whatever its score has become.
ZRem(z, task) == {x \in z : x.task # task}

Due(z, now) == {e \in z : e.score <= now}

(***************************************************************************)
(* ZRANGEBYSCORE 0 now LIMIT count: the answers are the due entries of     *)
(* lowest score, at most count of them (equal scores come in any order).   *)
(***************************************************************************)
Batches(z, now, count) ==
    {b \in SUBSET Due(z, now) :
        /\ \/ b = Due(z, now) /\ Cardinality(b) <= count
           \/ Cardinality(b) = count
        /\ \A e \in b, d \in Due(z, now) \ b : e.score <= d.score}

\* The entries of a fetched batch the loop may take first: it goes by score.
First(b) == {e \in b : \A d \in b : e.score <= d.score}
=============================================================================
