-------------------------------- MODULE IpcSemMC --------------------------------
(* Small instances of IpcSem for TLC. *)
EXTENDS IpcSem, TLC

Symmetry == Permutations(Thread) \cup Permutations(Slot) \cup Permutations(Addr)
=============================================================================
