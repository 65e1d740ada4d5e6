---------------------------- MODULE MCDelayQueue ----------------------------
(***************************************************************************)
(* Small instances of DelayQueue for TLC.                                  *)
(***************************************************************************)
EXTENDS DelayQueue

CONSTANTS r1, r2
=============================================================================
