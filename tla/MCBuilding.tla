----------------------------- MODULE MCBuilding -----------------------------
(***************************************************************************)
(* A small instance of Building for TLC.                                   *)
(***************************************************************************)
EXTENDS Building, TLC

CONSTANTS b1, b2

\* The first building has two levels, the second one.
MCMaxLevel == (b1 :> 2) @@ (b2 :> 1)
MCBaseTime == (b1 :> 1) @@ (b2 :> 2)
=============================================================================
