----------------------------- MODULE MCWorldMap -----------------------------
(***************************************************************************)
(* A small instance of WorldMap for TLC: two placements draw from two      *)
(* coordinates, so that they may meet and one coordinate stay empty.       *)
(***************************************************************************)
EXTENDS WorldMap, TLC

CONSTANTS rock, wolf, x1, x2, r1, r2, theirs

\* Another region has a cell at one of the coordinates only.
MCTheirs == (x1 :> {theirs}) @@ (x2 :> {})

MCKind == (rock :> "obstacle") @@ (wolf :> "monster")
=============================================================================
