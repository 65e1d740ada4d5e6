-------------------------------- MODULE Trips --------------------------------
(***************************************************************************)
(* What the march system promises a player, with no clock, no lock, no     *)
(* queue and no server: soldiers leave home on a trip, a raid is fought    *)
(* once and costs half of the party, a gathering is turned into a way back *)
(* once, and whoever comes back is home again.  A party below zero leaves  *)
(* soldiers at home and owes them, until it is back or beaten.  March      *)
(* implements it.                                                          *)
(***************************************************************************)
EXTENDS Integers, FiniteSets, GoMap, Party

CONSTANTS
    Players,    \* the players
    Army,       \* Army[u]: the soldiers player u owns
    Loans,      \* Loans[u]: soldiers that parties below zero put at home
    TripIds     \* names of trips

VARIABLES
    home,       \* home[u]: soldiers in the city
    fallen,     \* fallen[u]: soldiers lost in battle
    out         \* out[u]: trip name -> [troops, type, status]

vars == <<home, fallen, out>>

Types == {"attack", "gather", "station"}

Init ==
    /\ home = Army
    /\ fallen = [u \in Players |-> {}]
    /\ out = [u \in Players |-> <<>>]

\* A party leaves home under a name no trip of the player has.
Depart(u, k, s, type) ==
    /\ home' = [home EXCEPT ![u] = (@ \ s) \cup Lent(s, Loans[u])]
    /\ out' = [out EXCEPT ![u] =
                 Put(@, k, [troops |-> s, type |-> type, status |-> "going"])]
    /\ UNCHANGED fallen

StartGathering(u, k) ==
    /\ out[u][k].status = "going"
    /\ out[u][k].type = "gather"
    /\ out' = [out EXCEPT ![u][k].status = "gathering"]
    /\ UNCHANGED <<home, fallen>>

\* Only a raid on its way out costs soldiers, and exactly half of them (rounded
\* down), or all of a party below zero; the way back is a trip of a new name.
TurnBack(u, k, back, lost) ==
    LET trip == out[u][k] IN
    /\ \/ /\ trip.type = "attack" /\ trip.status = "going"
          /\ lost \in Losses(trip.troops, Loans[u])
       \/ trip.type = "gather" /\ trip.status = "gathering" /\ lost = {}
       \/ trip.type = "station" /\ trip.status = "going" /\ lost = {}
    /\ out' = [out EXCEPT ![u] =
                 Put(Drop(@, k), back, [troops |-> trip.troops \ lost,
                                        type |-> trip.type,
                                        status |-> "returning"])]
    /\ fallen' = [fallen EXCEPT ![u] = @ \cup lost]
    /\ UNCHANGED home

ComeHome(u, k) ==
    /\ out[u][k].status = "returning"
    /\ home' = [home EXCEPT ![u] = @ \cup out[u][k].troops]
    /\ out' = [out EXCEPT ![u] = Drop(@, k)]
    /\ UNCHANGED fallen

Next ==
    \E u \in Players :
        \/ \E s \in Parties(home[u], fallen[u], out[u], Loans[u]), type \in Types,
              k \in TripIds \ DOMAIN out[u] : Depart(u, k, s, type)
        \/ \E k \in DOMAIN out[u] :
               \/ StartGathering(u, k)
               \/ ComeHome(u, k)
               \/ \E back \in TripIds \ DOMAIN out[u], lost \in SUBSET out[u][k].troops :
                      TurnBack(u, k, back, lost)

Spec == Init /\ [][Next]_vars
=============================================================================
