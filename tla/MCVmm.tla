-------------------------------- MODULE MCVmm --------------------------------
(***************************************************************************)
(* Three levels of two entries: index 0 of the top level is the process's  *)
(* half, index 1 the kernel's.  A page and the framebuffer share a table.  *)
(***************************************************************************)
EXTENDS Vmm, TLC

MCFbAddr    == <<0, 0, 1>>
MCUser      == {<<0, 0, 0>>, MCFbAddr}
MCKAddrs    == {<<1, 1, 0>>}
MCFrames    == 1..8
ProcSymmetry == Permutations(Procs)
=============================================================================
