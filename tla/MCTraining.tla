----------------------------- MODULE MCTraining -----------------------------
(***************************************************************************)
(* Small instances of Training for TLC.                                    *)
(***************************************************************************)
EXTENDS Training, TLC

CONSTANTS p, q, spear, bow

\* A bow takes one second, a spear two.
MCTrainTime == (spear :> 2) @@ (bow :> 1)
=============================================================================
