------------------------------ MODULE IpcDriverMC ------------------------------
(* Small instances of IpcDriver for TLC. *)
EXTENDS IpcDriver, TLC

Symmetry ==
  Permutations(Process) \cup Permutations(Worker) \cup Permutations(File)
    \cup Permutations(Name)
=============================================================================
