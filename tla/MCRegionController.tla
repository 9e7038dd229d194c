------------------------- MODULE MCRegionController -------------------------
(***************************************************************************)
(* Instances of RegionController for TLC.                                  *)
(***************************************************************************)
EXTENDS RegionController, TLC

\* Callers and regions are interchangeable: nothing orders them.
Symmetry == Permutations(Callers) \cup Permutations(Regions)
=============================================================================
