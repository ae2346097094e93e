-------------------------- MODULE MCGreenAlbatross --------------------------
(* Instances of GreenAlbatross for TLC.                                     *)
EXTENDS GreenAlbatross

CONSTANTS p1, p2, n1, n2, d1, d2, d3

Swaps == Permutations(Procs) \cup Permutations(Names) \cup Permutations(Dirs)
=============================================================================
