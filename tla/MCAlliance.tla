----------------------------- MODULE MCAlliance -----------------------------
(***************************************************************************)
(* A small instance of Alliance for TLC.                                   *)
(***************************************************************************)
EXTENDS Alliance, TLC

CONSTANTS p, q, r, h1, h2

\* Players and goroutines are alike.
Symmetry == Permutations(Players) \cup Permutations(Handlers)
=============================================================================
