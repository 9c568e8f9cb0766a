-------------------------------- MODULE IpcShmMC --------------------------------
(* Small instances of IpcShm for TLC. *)
EXTENDS IpcShm, TLC

Symmetry ==
  Permutations(Thread) \cup Permutations(Slot) \cup Permutations(Addr)
    \cup Permutations(Segment)
=============================================================================
