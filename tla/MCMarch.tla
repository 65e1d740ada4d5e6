------------------------------- MODULE MCMarch -------------------------------
(***************************************************************************)
(* Small instances of March for TLC.                                       *)
(***************************************************************************)
EXTENDS March, TLC

CONSTANTS alice, bob, a1, a2, b1, extra, c

\* One player with one soldier, who has two once one came from nowhere, so that
\* a raid loses one; one player with two soldiers; two with one each.
MCArmyAlone == (alice :> {a1})
MCArmyOne == (alice :> {a1, a2})
MCArmySmall == (alice :> {a1}) @@ (bob :> {b1})

\* One soldier may come from nowhere, or none.
MCLoansOne == (alice :> {extra})
MCLoansNone == [u \in Players |-> {}]

MCTravel == (c :> 1)
=============================================================================
