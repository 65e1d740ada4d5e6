------------------------------- MODULE MapCell -------------------------------
(***************************************************************************)
(* The march queue of one map cell (game/map_service.go): the operations   *)
(* of MapService on data.MapCell.Queue as functions of the queue.  An item *)
(* is [key, arriveAt]; the cell's mutex makes each operation atomic.       *)
(***************************************************************************)
EXTENDS Integers, Sequences
LOCAL INSTANCE SequencesExt

Item(key, arriveAt) == [key |-> key, arriveAt |-> arriveAt]

Listed(q, key) == \E i \in DOMAIN q : q[i].key = key

\* Fault: the newcomer goes to the head.
EnrolFirst(q, item) == <<item>> \o q

\* RegisterMarch: the march joins the tail of the cell's queue.
Enrol(q, item) == Append(q, item)

\* OnMarchArrive first drops every item that arrived more than stale ago.
Purge(q, now, stale) ==
    LET valid[n \in 0..Len(q)] ==
            IF n = 0 THEN <<>>
            ELSE IF q[n].arriveAt < now - stale THEN valid[n - 1]
            ELSE Append(valid[n - 1], q[n])
    IN  valid[Len(q)]

\* OnMarchArrive answers true only to the march at the head of the queue.
IsHead(q, key) == q # <<>> /\ Head(q).key = key

\* RemoveMarch drops the first item of the march, if there is one.
Strike(q, key) == RemoveFirstMatch(q, LAMBDA i : i.key = key)
=============================================================================
