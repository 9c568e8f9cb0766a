------------------------------- MODULE IpcMutexMC -------------------------------
(* Small instances of IpcMutex for TLC. *)
EXTENDS IpcMutex, TLC

(* Threads, handle variables and addresses are interchangeable where no  *)
(* liveness is checked; the threads are not when only some of them may   *)
(* be reached by a signal.                                               *)
HandleSymmetry == Permutations(Slot) \cup Permutations(Addr)
Symmetry == Permutations(Thread) \cup HandleSymmetry
=============================================================================
