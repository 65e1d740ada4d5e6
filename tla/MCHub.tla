------------------------------- MODULE MCHub -------------------------------
(***************************************************************************)
(* A small instance of Hub for TLC: one player connects three times.       *)
(***************************************************************************)
EXTENDS Hub, TLC

CONSTANTS ann, k1, k2, k3

MCOwner == [c \in Conns |-> ann]
=============================================================================
