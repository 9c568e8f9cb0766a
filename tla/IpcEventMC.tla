------------------------------- MODULE IpcEventMC -------------------------------
(* Small instances of IpcEvent for TLC. *)
EXTENDS IpcEvent, TLC

HandleSymmetry == Permutations(Slot) \cup Permutations(Addr)
=============================================================================
