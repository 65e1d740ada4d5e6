----------------------------- MODULE MCAccount -----------------------------
(***************************************************************************)
(* A small instance of Account for TLC.                                    *)
(***************************************************************************)
EXTENDS Account, TLC

CONSTANTS r1, r2, ann, bob, o, k, u1, u2
=============================================================================
