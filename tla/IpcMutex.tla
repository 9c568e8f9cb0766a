-------------------------------- MODULE IpcMutex --------------------------------
(***************************************************************************)
(* The named mutexes of the Linux driver: linux/ipcdrv/ipcmutex.c, reached *)
(* through the four ioctl_mutex_* handlers of ioctlrw.c.                   *)
(*                                                                         *)
(* A mutex is a kernel semaphore that starts at 1, the id of the thread    *)
(* that captured it and a counter for /proc.  Capturing and releasing run  *)
(* outside the list mutex, so each access to one of the three is a step.   *)
(***************************************************************************)
EXTENDS IpcRegistry

CONSTANTS
  NoTid,       (* m_lockerid = 0: nobody                                     *)
  Signalled,   (* threads that a signal may reach while they wait            *)
  Recursive,   (* threads that may capture a mutex that they have captured   *)
  Mortal,      (* threads that may exit without releasing what they hold     *)
  CloseHeld,   (* whether clients close the last handle of a held mutex      *)
  MaxNested,   (* bound of the model: with this many captures of a mutex a   *)
               (* recursive thread begins no other                           *)
  MaxCount     (* bound of the model: no signal is delivered to a waiter of  *)
               (* a mutex whose counters have grown this far                 *)

ASSUME MutexAssumption ==
  /\ NoTid \notin Thread
  /\ Signalled \subseteq Thread
  /\ Recursive \subseteq Thread
  /\ Mortal \subseteq Thread
  /\ CloseHeld \in BOOLEAN
  /\ MaxNested \in Nat
  /\ MaxCount \in Nat

VARIABLES
  count,       (* count of the kernel semaphore "mutex"                      *)
  m_lockerid,  (* id of the thread that captured the mutex                   *)
  lock_count,  (* mutex_lock_count, shown in /proc                           *)
  pc,          (* the next step of each thread                               *)
  held,        (* history: threads that captured since their last release    *)
  captures,    (* history: captures of each thread that returned IPC_OK, less *)
               (* the releases that it has begun                             *)
  nested       (* history: threads that captured while they had a capture,   *)
               (* and have had one all the time since                        *)

historyVars == <<held, captures, nested>>
mutexVars == <<count, m_lockerid, lock_count, historyVars>>
vars == <<registryVars, mutexVars, pc>>

(* A thread is in user space, in one of the steps of a lock or an unlock, *)
(* or has exited.                                                         *)
LockStep == {"checkowner", "down", "down_timeout", "inc", "setowner"}
UnlockStep == {"compare", "clearowner", "up", "dec"}
Step == {"idle", "exited"} \cup LockStep \cup UnlockStep

TypeOK ==
  /\ RegistryTypeOK
  /\ count \in [Addr -> Nat]
  /\ m_lockerid \in [Addr -> Thread \cup {NoTid}]
  /\ lock_count \in [Addr -> Int]
  /\ pc \in [Thread -> Step]
  /\ held \in [Addr -> SUBSET Thread]
  /\ captures \in [Addr -> [Thread -> Nat]]
  /\ nested \in [Addr -> SUBSET Thread]

Init ==
  /\ RegistryInit
  /\ count = [a \in Addr |-> 0]
  /\ m_lockerid = [a \in Addr |-> NoTid]
  /\ lock_count = [a \in Addr |-> 0]
  /\ pc = [t \in Thread |-> "idle"]
  /\ held = [a \in Addr |-> {}]
  /\ captures = [a \in Addr |-> [t \in Thread |-> 0]]
  /\ nested = [a \in Addr |-> {}]

Goto(t, from, to) ==
  /\ pc[t] = from
  /\ pc' = [pc EXCEPT ![t] = to]

(* What the histories say of a mutex that starts out captured by H, of a    *)
(* capture that returns IPC_OK, and of a release that begins: it ends one   *)
(* capture, whatever the driver makes of it.                                *)
CapturedBy(a, H) ==
  /\ held' = [held EXCEPT ![a] = H]
  /\ captures' = [captures EXCEPT ![a] = [t \in Thread |-> IF t \in H THEN 1 ELSE 0]]
  /\ nested' = [nested EXCEPT ![a] = {}]

Captures(a, t) ==
  /\ held' = [held EXCEPT ![a] = @ \cup {t}]
  /\ captures' = [captures EXCEPT ![a][t] = @ + 1]
  /\ nested' = [nested EXCEPT ![a] = IF captures[a][t] > 0 THEN @ \cup {t} ELSE @]

Releases(a, t) ==
  /\ held' = [held EXCEPT ![a] = @ \ {t}]
  /\ captures' = [captures EXCEPT ![a][t] = IF @ > 0 THEN @ - 1 ELSE 0]
  /\ nested' = [nested EXCEPT ![a] = IF captures[a][t] > 1 THEN @ ELSE @ \ {t}]

-----------------------------------------------------------------------------
(* ipc_mutex_create, called by t for slot s.  A new mutex is created held  *)
(* by its creator when value is set; value is ignored when the name is     *)
(* known.                                                                  *)
ipc_mutex_create(t, s, n, value) ==
  /\ pc[t] = "idle"
  /\ \/ OpenExisting(s, n) /\ UNCHANGED mutexVars
     \/ OpenFails(s, n) /\ UNCHANGED mutexVars
     \/ \E a \in Addr :
          /\ OpenNew(s, n, a)
          /\ count' = [count EXCEPT ![a] = IF value THEN 0 ELSE 1]
          /\ m_lockerid' = [m_lockerid EXCEPT ![a] = IF value THEN t ELSE NoTid]
          /\ lock_count' = [lock_count EXCEPT ![a] = IF value THEN 1 ELSE 0]
          /\ CapturedBy(a, IF value THEN {t} ELSE {})
  /\ UNCHANGED pc

(* ipc_mutex_close.  Clients that keep CloseHeld do not drop the last     *)
(* handle of a mutex that a thread still holds.                           *)
ipc_mutex_close(t, s) ==
  /\ pc[t] = "idle"
  /\ handle[s] \in listed /\ held[handle[s]] # {} /\ owner_count[handle[s]] = 1
       => CloseHeld
  /\ Close(s)
  /\ IF listed' = listed THEN UNCHANGED historyVars ELSE CapturedBy(handle[s], {})
  /\ UNCHANGED <<count, m_lockerid, lock_count, pc>>

-----------------------------------------------------------------------------
(* ipc_mutex_lock: the check of the handle under m_mutex_lock. *)
LockEnter(t, s) ==
  /\ Goto(t, "idle", "checkowner")
  /\ Validate(t, s)
  /\ captures[handle[s]][t] < IF t \in Recursive THEN MaxNested ELSE 1
  /\ UNCHANGED mutexVars

(* A thread that already is the owner succeeds without waiting, and nothing *)
(* counts that it captured again: its first release is the release.         *)
LockByOwner(t) ==
  /\ Goto(t, "checkowner", "idle")
  /\ m_lockerid[EntryOf(t)] = t
  /\ Captures(EntryOf(t), t)
  /\ Return(t)
  /\ UNCHANGED <<count, m_lockerid, lock_count>>

(* Anybody else waits, without a limit or with one. *)
LockByOther(t) ==
  /\ \E wait \in {"down", "down_timeout"} : Goto(t, "checkowner", wait)
  /\ m_lockerid[EntryOf(t)] # t
  /\ UNCHANGED <<registryVars, mutexVars>>

(* down_interruptible or down_timeout takes the semaphore. *)
LockDown(t) ==
  /\ Goto(t, "down", "inc") \/ Goto(t, "down_timeout", "inc")
  /\ count[EntryOf(t)] > 0
  /\ count' = [count EXCEPT ![EntryOf(t)] = @ - 1]
  /\ UNCHANGED <<registryVars, m_lockerid, lock_count, historyVars>>

(* A signal ends down_interruptible with -EINTR and without the semaphore: *)
(* its result is not looked at, and the call goes on as after a success.   *)
LockInterrupted(t) ==
  /\ t \in Signalled
  /\ Goto(t, "down", "inc")
  /\ count[EntryOf(t)] < MaxCount /\ lock_count[EntryOf(t)] < MaxCount
  /\ UNCHANGED <<registryVars, mutexVars>>

(* down_timeout gives up with -ETIME, which the call returns. *)
LockTimeout(t) ==
  /\ Goto(t, "down_timeout", "idle")
  /\ Return(t)
  /\ UNCHANGED mutexVars

LockInc(t) ==
  /\ Goto(t, "inc", "setowner")
  /\ lock_count' = [lock_count EXCEPT ![EntryOf(t)] = @ + 1]
  /\ UNCHANGED <<registryVars, count, m_lockerid, historyVars>>

LockSetOwner(t) ==
  /\ Goto(t, "setowner", "idle")
  /\ m_lockerid' = [m_lockerid EXCEPT ![EntryOf(t)] = t]
  /\ Captures(EntryOf(t), t)
  /\ Return(t)
  /\ UNCHANGED <<count, lock_count>>

-----------------------------------------------------------------------------
(* ipc_mutex_unlock: from the call on, t no longer relies on the mutex for *)
(* the capture that the call ends.                                         *)
UnlockEnter(t, s) ==
  /\ Goto(t, "idle", "compare")
  /\ Validate(t, s)
  /\ Releases(handle[s], t)
  /\ UNCHANGED <<count, m_lockerid, lock_count>>

(* A thread that is not the owner is told that all is well. *)
UnlockByOther(t) ==
  /\ Goto(t, "compare", "idle")
  /\ m_lockerid[EntryOf(t)] # t
  /\ Return(t)
  /\ UNCHANGED mutexVars

(* Mutant: anybody may release. *)
UnlockByOwner_Unchecked(t) ==
  /\ Goto(t, "compare", "clearowner")
  /\ UNCHANGED <<registryVars, mutexVars>>

UnlockByOwner(t) ==
  /\ Goto(t, "compare", "clearowner")
  /\ m_lockerid[EntryOf(t)] = t
  /\ UNCHANGED <<registryVars, mutexVars>>

(* Mutants: the owner is not cleared; the semaphore is not given back. *)
UnlockClearOwner_Kept(t) ==
  /\ Goto(t, "clearowner", "up")
  /\ UNCHANGED <<registryVars, mutexVars>>

UnlockClearOwner_NoUp(t) ==
  /\ Goto(t, "clearowner", "dec")
  /\ m_lockerid' = [m_lockerid EXCEPT ![EntryOf(t)] = NoTid]
  /\ UNCHANGED <<registryVars, count, lock_count, historyVars>>

(* The owner is cleared before the semaphore is given back. *)
UnlockClearOwner(t) ==
  /\ Goto(t, "clearowner", "up")
  /\ m_lockerid' = [m_lockerid EXCEPT ![EntryOf(t)] = NoTid]
  /\ UNCHANGED <<registryVars, count, lock_count, historyVars>>

UnlockUp(t) ==
  /\ Goto(t, "up", "dec")
  /\ count' = [count EXCEPT ![EntryOf(t)] = @ + 1]
  /\ UNCHANGED <<registryVars, m_lockerid, lock_count, historyVars>>

UnlockDec(t) ==
  /\ Goto(t, "dec", "idle")
  /\ lock_count' = [lock_count EXCEPT ![EntryOf(t)] = @ - 1]
  /\ Return(t)
  /\ UNCHANGED <<count, m_lockerid, historyVars>>

-----------------------------------------------------------------------------
(* A thread ends.  Nothing in the driver watches for that: what it held    *)
(* stays captured.                                                         *)
Exit(t) ==
  /\ t \in Mortal
  /\ Goto(t, "idle", "exited")
  /\ held' = [a \in Addr |-> held[a] \ {t}]
  /\ captures' = [a \in Addr |-> [captures[a] EXCEPT ![t] = 0]]
  /\ nested' = [a \in Addr |-> nested[a] \ {t}]
  /\ UNCHANGED <<registryVars, count, m_lockerid, lock_count>>

(* The kernel gives the number of a thread that ended to a new one, which  *)
(* the driver takes for the old one.                                       *)
Reuse(t) ==
  /\ Goto(t, "exited", "idle")
  /\ UNCHANGED <<registryVars, mutexVars>>

(* The steps that a call takes by itself once it has started. *)
Proceed(t) ==
  \/ LockByOwner(t) \/ LockByOther(t) \/ LockInc(t) \/ LockSetOwner(t)
  \/ UnlockByOther(t) \/ UnlockByOwner(t) \/ UnlockClearOwner(t)
  \/ UnlockUp(t) \/ UnlockDec(t)

Next ==
  \E t \in Thread :
    \/ \E s \in Slot, n \in Name, value \in BOOLEAN : ipc_mutex_create(t, s, n, value)
    \/ \E s \in Slot : ipc_mutex_close(t, s) \/ LockEnter(t, s) \/ UnlockEnter(t, s)
    \/ LockDown(t) \/ LockInterrupted(t) \/ LockTimeout(t)
    \/ Proceed(t)
    \/ Exit(t) \/ Reuse(t)

Spec == Init /\ [][Next]_vars

-----------------------------------------------------------------------------
(* Fairness.  A thread inside the driver keeps running.  The kernel serves *)
(* the waiters of a semaphore in the order they came, so one that is given *)
(* the chance again and again gets it.  A client that captured a mutex     *)
(* releases it, as every user of the library in libtest does.              *)
ReleaseHeld(t) ==
  \E s \in Slot :
    /\ handle[s] \in listed
    /\ captures[handle[s]][t] > 0
    /\ UnlockEnter(t, s)

Fairness ==
  \A t \in Thread :
    /\ WF_vars(Proceed(t))
    /\ SF_vars(LockDown(t))
    /\ WF_vars(LockTimeout(t))
    /\ SF_vars(ReleaseHeld(t))

FairSpec == Spec /\ Fairness

-----------------------------------------------------------------------------
At(a, step) == {t \in Thread : pc[t] = step /\ EntryOf(t) = a}

(* Two threads never both have a capture of one mutex that returned IPC_OK *)
(* and that they have not begun to release, whatever ipc_mutex_lock and    *)
(* ipc_mutex_unlock are interleaved - unless one of them captured the      *)
(* mutex again while it had it, and has released since: its first release  *)
(* frees the mutex, and the captures that are left to it exclude nobody.   *)
MutualExclusion ==
  \A a \in listed : \A t, u \in Thread :
    captures[a][t] > 0 /\ captures[a][u] > 0 /\ t # u
      => \E w \in {t, u} : w \in nested[a] /\ w \notin held[a]

(* The semaphore and the counter of /proc never drift apart: what is in    *)
(* the semaphore, what has been counted as captured, and what is between   *)
(* the two steps of a capture or of a release add up to the initial 1.     *)
SemaphoreConserved ==
  \A a \in listed :
    count[a] + lock_count[a] + Cardinality(At(a, "inc")) - Cardinality(At(a, "dec")) = 1

(* A thread that captured the mutex since its last release is the one      *)
(* recorded as the owner, so that its release is not silently ignored.     *)
HolderIsRecorded ==
  \A a \in listed : \A t \in held[a] : m_lockerid[a] = t

(* A mutex whose semaphore is at 0 is somebody's: recorded, about to be    *)
(* recorded, or about to be given back.  A semaphore is never lost.        *)
NeverLost ==
  \A a \in listed :
    count[a] = 0 =>
      \/ m_lockerid[a] # NoTid
      \/ At(a, "inc") \cup At(a, "setowner") \cup At(a, "up") # {}

(* The inductive invariant behind these: who has the one token of the      *)
(* semaphore when nobody was interrupted.  Between taking it and recording *)
(* oneself, and between clearing the record and giving it back, a thread   *)
(* has the token without being recorded; otherwise m_lockerid has it.      *)
Unrecorded == {"inc", "setowner", "up"}

CallsHaveEntry ==
  \A t \in Thread : pc[t] \in LockStep \cup UnlockStep <=> via[t] # NoSlot

UnrecordedToken ==
  \A t \in Thread :
    pc[t] \in Unrecorded => m_lockerid[EntryOf(t)] = NoTid /\ count[EntryOf(t)] = 0

OneUnrecorded ==
  \A t, u \in Thread :
    /\ pc[t] \in Unrecorded
    /\ pc[u] \in Unrecorded
    /\ EntryOf(t) = EntryOf(u)
    => t = u

RecordedToken ==
  \A a \in listed : m_lockerid[a] # NoTid => count[a] = 0

BinaryCount ==
  \A a \in listed : count[a] \in {0, 1}

ReleaseUnderway ==
  \A t \in Thread :
    /\ pc[t] \in {"compare", "clearowner"} => t \notin held[EntryOf(t)]
    /\ pc[t] = "clearowner" => m_lockerid[EntryOf(t)] = t

(* The histories agree: only a thread that captured again while it had the *)
(* mutex has more captures than one, or one left after a release.          *)
CapturesKnown ==
  \A a \in Addr, t \in Thread :
    /\ t \in held[a] => captures[a][t] > 0
    /\ captures[a][t] > 1 => t \in nested[a]
    /\ captures[a][t] > 0 /\ t \notin held[a] => t \in nested[a]

MutexInv ==
  /\ CallsHaveEntry
  /\ UnrecordedToken
  /\ OneUnrecorded
  /\ RecordedToken
  /\ BinaryCount
  /\ ReleaseUnderway
  /\ HolderIsRecorded
  /\ NeverLost

(* The driver implements the abstract lock: m_lockerid is its holder. *)
Abstract ==
  INSTANCE NamedLock WITH Obj <- Addr, NoOwner <- NoTid, live <- listed, holder <- m_lockerid

ImplementsNamedLock == Abstract!Spec

(* A thread that waits without a limit is served, however often others get *)
(* in first, provided that clients release what they capture.              *)
WaiterServed ==
  \A t \in Thread : pc[t] = "down" ~> pc[t] # "down"
=============================================================================
