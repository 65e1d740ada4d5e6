--------------------------- MODULE MCPlayerStore ---------------------------
(***************************************************************************)
(* Small instances of PlayerStore for TLC.                                 *)
(***************************************************************************)
EXTENDS PlayerStore, TLC

CONSTANTS c1, c2, c3, w1, w2, w3

MCSymmetry == Permutations(Clients) \cup Permutations(Changes)
=============================================================================
