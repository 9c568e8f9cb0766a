-------------------------------- MODULE Library --------------------------------
(***************************************************************************)
(* The clients of the library, as every backend sees them: threads that    *)
(* keep handles in slots and create, use and delete named mutexes,         *)
(* semaphores, events and shared memory through the functions of           *)
(* include/mutexipc.h, semipc.h, eventipc.h and shmipc.h.                  *)
(***************************************************************************)
EXTENDS Integers, FiniteSets

CONSTANTS
  Thread,        (* threads of the client processes                           *)
  Slot,          (* variables of the clients that hold a handle               *)
  NoSlot,        (* a thread that is in no call                               *)
  MutexName,     (* names of mutexes                                          *)
  SemName,       (* names of semaphores                                       *)
  EventName,     (* names of events                                           *)
  ShmName,       (* names of shared memory                                    *)
  Asked,         (* initial values that clients ask for, by name              *)
  Limit          (* timeouts, in ms; 0 stands for a wait without a limit      *)

Name == MutexName \cup SemName \cup EventName

ASSUME LibraryAssumption ==
  /\ IsFiniteSet(Thread)
  /\ NoSlot \notin Slot
  /\ ShmName \cap Name = {}
  /\ MutexName \cap (SemName \cup EventName) = {}
  /\ SemName \cap EventName = {}
  /\ Asked \in [Name -> SUBSET Nat]
  /\ \A n \in MutexName \cup EventName : Asked[n] \subseteq {0, 1}
  /\ Limit \subseteq Nat
=============================================================================
