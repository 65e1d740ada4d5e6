-------------------------------- MODULE Hub --------------------------------
(***************************************************************************)
(* The WebSocket connections of the players (ws/hub.go, ws/handler.go,     *)
(* ws/push_service.go): a handler per connection registers it under the    *)
(* player and, when reading fails, removes whatever is registered under    *)
(* the player; the consumer of the troops service, the one goroutine that  *)
(* pushes, writes to the connection it has found and removes the player    *)
(* when that fails.                                                        *)
(***************************************************************************)

CONSTANTS
    Players,
    Conns,      \* connections, each opened at most once
    Owner,      \* Owner[c]: the player who opens c
    None        \* no connection

ASSUME OwnerAssumption == Owner \in [Conns -> Players]
ASSUME NoneAssumption == None \notin Conns

VARIABLES
    clients,    \* clients[u]: the connection registered for u, or None
    sock,       \* sock[c]: "new", "open", "lost" (the peer is gone), "closed"
    pc,         \* pc[c]: what the handler of c does next
    pushing,    \* what the goroutine that pushes does next
    target,     \* the connection it pushes to, or None
    crossed     \* history: connections registered while another connection of
                \* their player was in use, and these others

vars == <<clients, sock, pc, pushing, target, crossed>>

Init ==
    /\ clients = [u \in Players |-> None]
    /\ sock = [c \in Conns |-> "new"]
    /\ pc = [c \in Conns |-> "start"]
    /\ pushing = "idle"
    /\ target = None
    /\ crossed = {}
-----------------------------------------------------------------------------
(* The handler of a connection *)

\* The token is good and the connection is upgraded.
Upgrade(c) ==
    /\ pc[c] = "start"
    /\ sock' = [sock EXCEPT ![c] = "open"]
    /\ pc' = [pc EXCEPT ![c] = "register"]
    /\ UNCHANGED <<clients, pushing, target, crossed>>

\* The other connections of c's player that a handler serves.
Served(c) == {d \in Conns \ {c} : Owner[d] = Owner[c] /\ pc[d] \in {"reading", "unregister"}}

\* A push to the player of c is on its way to another connection.
PushedPast(c) == pushing # "idle" /\ target # c /\ Owner[target] = Owner[c]

\* hub.Register: the player's entry is overwritten.
Register(c) ==
    /\ pc[c] = "register"
    /\ clients' = [clients EXCEPT ![Owner[c]] = c]
    /\ crossed' = IF Served(c) # {} \/ PushedPast(c)
                  THEN crossed \cup Served(c) \cup {c} ELSE crossed
    /\ pc' = [pc EXCEPT ![c] = "reading"]
    /\ UNCHANGED <<sock, pushing, target>>

\* Fault: no deadline is set, so only a closed connection ends the loop.
ReadBlocks(c) ==
    /\ pc[c] = "reading"
    /\ sock[c] = "closed"
    /\ pc' = [pc EXCEPT ![c] = "unregister"]
    /\ UNCHANGED <<clients, sock, pushing, target, crossed>>

\* ReadMessage fails: the peer is gone, the connection has been closed by a
\* push, or nothing was received for 5 minutes.
ReadFails(c) ==
    /\ pc[c] = "reading"
    /\ pc' = [pc EXCEPT ![c] = "unregister"]
    /\ UNCHANGED <<clients, sock, pushing, target, crossed>>

\* Fault: the entry is left to the next push that fails.
SkipUnregister(c) ==
    /\ pc[c] = "unregister"
    /\ pc' = [pc EXCEPT ![c] = "close"]
    /\ UNCHANGED <<clients, sock, pushing, target, crossed>>

\* hub.Unregister: by player, whichever connection is registered.
Unregister(c) ==
    /\ pc[c] = "unregister"
    /\ clients' = [clients EXCEPT ![Owner[c]] = None]
    /\ pc' = [pc EXCEPT ![c] = "close"]
    /\ UNCHANGED <<sock, pushing, target, crossed>>

Close(c) ==
    /\ pc[c] = "close"
    /\ sock' = [sock EXCEPT ![c] = "closed"]
    /\ pc' = [pc EXCEPT ![c] = "done"]
    /\ UNCHANGED <<clients, pushing, target, crossed>>
-----------------------------------------------------------------------------
(* hub.SendToPlayer *)

\* The connection is looked up under the lock, and used after it.
Lookup(u) ==
    /\ pushing = "idle"
    /\ clients[u] # None
    /\ target' = clients[u]
    /\ pushing' = "write"
    /\ UNCHANGED <<clients, sock, pc, crossed>>

\* The message goes out, though the peer may never see it.
WriteDone ==
    /\ pushing = "write"
    /\ sock[target] # "closed"
    /\ pushing' = "idle"
    /\ target' = None
    /\ UNCHANGED <<clients, sock, pc, crossed>>

\* Fault: a connection that is only slow is given up, too.
WriteGivesUp ==
    /\ pushing = "write"
    /\ pushing' = "unregister"
    /\ UNCHANGED <<clients, sock, pc, target, crossed>>

WriteFails ==
    /\ pushing = "write"
    /\ sock[target] # "open"
    /\ pushing' = "unregister"
    /\ UNCHANGED <<clients, sock, pc, target, crossed>>

PushUnregister ==
    /\ pushing = "unregister"
    /\ clients' = [clients EXCEPT ![Owner[target]] = None]
    /\ pushing' = "close"
    /\ UNCHANGED <<sock, pc, target, crossed>>

PushClose ==
    /\ pushing = "close"
    /\ sock' = [sock EXCEPT ![target] = "closed"]
    /\ pushing' = "idle"
    /\ target' = None
    /\ UNCHANGED <<clients, pc, crossed>>
-----------------------------------------------------------------------------
\* The peer closes the connection, or vanishes.
PeerLost(c) ==
    /\ sock[c] = "open"
    /\ sock' = [sock EXCEPT ![c] = "lost"]
    /\ UNCHANGED <<clients, pc, pushing, target, crossed>>

Next ==
    \/ \E c \in Conns :
           \/ Upgrade(c) \/ Register(c) \/ ReadFails(c) \/ Unregister(c) \/ Close(c)
           \/ PeerLost(c)
    \/ \E u \in Players : Lookup(u)
    \/ WriteDone \/ WriteFails \/ PushUnregister \/ PushClose

Spec == Init /\ [][Next]_vars

\* A handler whose connection is no more finds out and ends, and a push ends.
FairSpec ==
    /\ Spec
    /\ \A c \in Conns :
           /\ WF_vars(Register(c))
           /\ WF_vars(sock[c] # "open" /\ ReadFails(c))
           /\ WF_vars(Unregister(c)) /\ WF_vars(Close(c))
    /\ WF_vars(WriteDone \/ WriteFails) /\ WF_vars(PushUnregister) /\ WF_vars(PushClose)
-----------------------------------------------------------------------------
(* What the runs and the proofs check *)

\* Every variable holds values of its kind; a push has a target.
TypeOK ==
    /\ clients \in [Players -> Conns \cup {None}]
    /\ sock \in [Conns -> {"new", "open", "lost", "closed"}]
    /\ pc \in [Conns -> {"start", "register", "reading", "unregister", "close", "done"}]
    /\ pushing \in {"idle", "write", "unregister", "close"}
    /\ target \in Conns \cup {None}
    /\ target = None <=> pushing = "idle"
    /\ crossed \in SUBSET Conns

\* What is registered for a player is a connection of this player that a
\* handler still serves: no entry outlives its handler, whatever handlers of
\* older connections and pushes remove in between (Register, Unregister).
RegisteredIsServed ==
    \A u \in Players : clients[u] # None =>
        Owner[clients[u]] = u /\ pc[clients[u]] \in {"reading", "unregister"}

\* A player with an open connection is found by pushes, unless the connection
\* was opened while an older one of the player was still in use by its handler
\* or by a push (Unregister and SendToPlayer remove by player).
Reachable ==
    \A c \in Conns :
        pc[c] = "reading" /\ sock[c] = "open" /\ c \notin crossed => clients[Owner[c]] = c

\* A connection that is lost, or that a push has closed, is forgotten and its
\* handler ends (ReadMessage's deadline, the deferred Unregister and Close).
LostIsForgotten ==
    \A c \in Conns :
        sock[c] \in {"lost", "closed"} ~> pc[c] = "done" /\ clients[Owner[c]] # c
=============================================================================
