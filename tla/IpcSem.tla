--------------------------------- MODULE IpcSem ---------------------------------
(***************************************************************************)
(* The named counting semaphores of the Linux driver, ipcsem.c, and the    *)
(* library call that creates them, IPC_createSemaphore of                  *)
(* linux/libsrc/insys/semipc.cpp.                                          *)
(*                                                                         *)
(* The driver does not know who captured a semaphore: a capture takes one  *)
(* from the kernel semaphore, a release gives one back, and a counter for  *)
(* /proc follows each of them.  A client here captures a semaphore at most *)
(* once at a time; since the driver does not tell threads apart, several   *)
(* captures of one thread are those of several threads.                    *)
(***************************************************************************)
EXTENDS IpcRegistry

CONSTANTS
  Value,       (* initial values that clients ask for                         *)
  MaxPosts     (* bound of the model: releases by threads that captured nothing *)

ASSUME SemAssumption ==
  /\ IsFiniteSet(Thread)
  /\ Value \subseteq Nat
  /\ MaxPosts \in Nat

VARIABLES
  count,       (* count of the kernel semaphore "sem"                         *)
  lock_count,  (* sem_lock_count, shown in /proc                              *)
  pc,          (* the next step of each thread                                *)
  initial,     (* history: the value that the semaphore was created with      *)
  held,        (* history: threads whose capture returned success             *)
  posted       (* history: releases that no capture preceded                  *)

history == <<initial, held, posted>>
semVars == <<count, lock_count, history>>
vars == <<registryVars, semVars, pc>>

LockStep == {"down", "down_timeout", "inc"}
UnlockStep == {"up", "dec"}

TypeOK ==
  /\ RegistryTypeOK
  /\ count \in [Addr -> Nat]
  /\ lock_count \in [Addr -> Int]
  /\ pc \in [Thread -> {"idle"} \cup LockStep \cup UnlockStep]
  /\ initial \in [Addr -> Nat]
  /\ held \in [Addr -> SUBSET Thread]
  /\ posted \in [Addr -> Nat]

Init ==
  /\ RegistryInit
  /\ count = [a \in Addr |-> 0]
  /\ lock_count = [a \in Addr |-> 0]
  /\ pc = [t \in Thread |-> "idle"]
  /\ initial = [a \in Addr |-> 0]
  /\ held = [a \in Addr |-> {}]
  /\ posted = [a \in Addr |-> 0]

Goto(t, from, to) ==
  /\ pc[t] = from
  /\ pc' = [pc EXCEPT ![t] = to]

-----------------------------------------------------------------------------
(* The create, with an initial value that is ignored when the name is known. *)
ipc_sem_create(t, s, n, value) ==
  /\ pc[t] = "idle"
  /\ \/ OpenExisting(s, n) /\ UNCHANGED semVars
     \/ OpenFails(s, n) /\ UNCHANGED semVars
     \/ \E a \in Addr :
          /\ OpenNew(s, n, a)
          /\ count' = [count EXCEPT ![a] = value]
          /\ lock_count' = [lock_count EXCEPT ![a] = 0]
          /\ initial' = [initial EXCEPT ![a] = value]
          /\ held' = [held EXCEPT ![a] = {}]
          /\ posted' = [posted EXCEPT ![a] = 0]
  /\ UNCHANGED pc

(* The library passes 1 to the driver, whatever value it was asked for. *)
IPC_createSemaphore(t, s, n) == ipc_sem_create(t, s, n, 1)

ipc_sem_close(t, s) ==
  /\ pc[t] = "idle"
  /\ Close(s)
  /\ UNCHANGED <<semVars, pc>>

-----------------------------------------------------------------------------
(* ipc_sem_lock: the check of the handle under m_sem_lock, then a wait     *)
(* without a limit or with one.  Neither can be interrupted by a signal.   *)
LockEnter(t, s) ==
  /\ \E wait \in {"down", "down_timeout"} : Goto(t, "idle", wait)
  /\ Validate(t, s)
  /\ t \notin held[handle[s]]
  /\ UNCHANGED semVars

LockDown(t) ==
  /\ Goto(t, "down", "inc") \/ Goto(t, "down_timeout", "inc")
  /\ count[EntryOf(t)] > 0
  /\ count' = [count EXCEPT ![EntryOf(t)] = @ - 1]
  /\ UNCHANGED <<registryVars, lock_count, history>>

LockTimeout(t) ==
  /\ Goto(t, "down_timeout", "idle")
  /\ Return(t)
  /\ UNCHANGED semVars

LockInc(t) ==
  /\ Goto(t, "inc", "idle")
  /\ lock_count' = [lock_count EXCEPT ![EntryOf(t)] = @ + 1]
  /\ held' = [held EXCEPT ![EntryOf(t)] = @ \cup {t}]
  /\ Return(t)
  /\ UNCHANGED <<count, initial, posted>>

-----------------------------------------------------------------------------
(* ipc_sem_unlock: anybody may release, whether or not it captured. *)
UnlockEnter(t, s) ==
  /\ Goto(t, "idle", "up")
  /\ Validate(t, s)
  /\ LET a == handle[s] IN
     IF t \in held[a]
     THEN held' = [held EXCEPT ![a] = @ \ {t}] /\ UNCHANGED posted
     ELSE /\ posted[a] < MaxPosts
          /\ posted' = [posted EXCEPT ![a] = @ + 1]
          /\ UNCHANGED held
  /\ UNCHANGED <<count, lock_count, initial>>

(* Mutant: the release is only counted. *)
UnlockUp_Missing(t) ==
  /\ Goto(t, "up", "dec")
  /\ UNCHANGED <<registryVars, semVars>>

UnlockUp(t) ==
  /\ Goto(t, "up", "dec")
  /\ count' = [count EXCEPT ![EntryOf(t)] = @ + 1]
  /\ UNCHANGED <<registryVars, lock_count, history>>

(* Mutant: the counter is not taken back. *)
UnlockDec_Missing(t) ==
  /\ Goto(t, "dec", "idle")
  /\ Return(t)
  /\ UNCHANGED semVars

UnlockDec(t) ==
  /\ Goto(t, "dec", "idle")
  /\ lock_count' = [lock_count EXCEPT ![EntryOf(t)] = @ - 1]
  /\ Return(t)
  /\ UNCHANGED <<count, history>>

-----------------------------------------------------------------------------
Proceed(t) == LockInc(t) \/ UnlockUp(t) \/ UnlockDec(t)

(* Clients of the library, and clients of the driver's own interface. *)
Next ==
  \E t \in Thread :
    \/ \E s \in Slot, n \in Name :
         IPC_createSemaphore(t, s, n) \/ \E value \in Value : ipc_sem_create(t, s, n, value)
    \/ \E s \in Slot : ipc_sem_close(t, s) \/ LockEnter(t, s) \/ UnlockEnter(t, s)
    \/ LockDown(t) \/ LockTimeout(t)
    \/ Proceed(t)

Spec == Init /\ [][Next]_vars

(* A thread in the driver keeps running, the kernel wakes the waiters of a *)
(* semaphore in the order they came, and a client releases what it         *)
(* captured, as the users of the library in libtest do.                    *)
ReleaseHeld(t) ==
  \E s \in Slot :
    /\ handle[s] \in listed
    /\ t \in held[handle[s]]
    /\ UnlockEnter(t, s)

Fairness ==
  \A t \in Thread :
    /\ WF_vars(Proceed(t))
    /\ SF_vars(LockDown(t))
    /\ WF_vars(LockTimeout(t))
    /\ SF_vars(ReleaseHeld(t))

FairSpec == Spec /\ Fairness

-----------------------------------------------------------------------------
At(a, step) == {t \in Thread : pc[t] = step /\ EntryOf(t) = a}

(* Every permit is somewhere: in the semaphore, with a thread that         *)
(* captured it, or with one between the semaphore and the return of        *)
(* ipc_sem_lock, or between the call of ipc_sem_unlock and the semaphore.  *)
PermitsConserved ==
  \A a \in listed :
    count[a] + Cardinality(held[a]) + Cardinality(At(a, "inc")) + Cardinality(At(a, "up"))
      = initial[a] + posted[a]

(* At no time have more threads captured a semaphore than it started with *)
(* and was given from outside.                                            *)
CaptureLimit ==
  \A a \in listed : Cardinality(held[a]) <= initial[a] + posted[a]

(* The counter that /proc shows lags behind by the calls that are between  *)
(* their two steps, and by no more.                                        *)
CounterConserved ==
  \A a \in listed :
    lock_count[a]
      = Cardinality(held[a]) + Cardinality(At(a, "up")) + Cardinality(At(a, "dec")) - posted[a]

(* A thread that waits without a limit is served, however often others get *)
(* in first, provided that clients release what they capture.  (One that   *)
(* waits for a semaphore that started at 0 depends on a release from       *)
(* outside.)                                                               *)
WaiterServed ==
  \A t \in Thread :
    (pc[t] = "down" /\ initial[EntryOf(t)] > 0) ~> pc[t] # "down"

(* The values of a semaphore, in the kernel and in /proc.                  *)
SemCountsSound == TypeOK /\ PermitsConserved /\ CaptureLimit /\ CounterConserved
=============================================================================
