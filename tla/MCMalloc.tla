------------------------------ MODULE MCMalloc ------------------------------
(***************************************************************************)
(* Two caches with slabs of two objects and of one; of four frames two     *)
(* become slabs at boot and two are left for either side.                  *)
(***************************************************************************)
EXTENDS Malloc, TLC

MCCacheSize == <<32, 64>>
MCRequests  == {16, 48, 64}

Symmetry == Permutations(Threads) \cup Permutations(Frames)
=============================================================================
