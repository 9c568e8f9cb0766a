-------------------------------- MODULE IpcEvent --------------------------------
(***************************************************************************)
(* The named events of the Linux driver, ipcevent.c, as                    *)
(* linux/libsrc/insys/eventipc.cpp calls it.                               *)
(*                                                                         *)
(* An event is a kernel semaphore that starts at 1 and a counter of the    *)
(* waits that took it.  A set, and a reset alike, reads the counter and    *)
(* only when it is not 0 gives the semaphore back and takes one off the    *)
(* counter: three accesses outside the list mutex, so three steps.         *)
(***************************************************************************)
EXTENDS IpcRegistry

CONSTANTS
  Setter,      (* threads that set events                                     *)
  Resetter,    (* threads that reset events                                   *)
  Waiter,      (* threads that wait for events                                *)
  MaxCount     (* bound of the model: the semaphore of an event grows no      *)
               (* further                                                     *)

ASSUME EventAssumption ==
  /\ IsFiniteSet(Thread)
  /\ Setter \cup Resetter \cup Waiter \subseteq Thread
  /\ MaxCount \in Nat \ {0}

VARIABLES
  count,       (* count of the kernel semaphore "event"                       *)
  lock_count,  (* event_lock_count                                            *)
  pc,          (* the next step of each thread                                *)
  woken        (* history: threads whose last wait was let through            *)

eventVars == <<count, lock_count>>
vars == <<registryVars, eventVars, woken, pc>>

WaitStep == {"down", "down_timeout", "inc"}
SetStep == {"check", "up", "dec"}
ResetStep == {"reset_check", "reset_up", "reset_dec"}
Step == {"idle"} \cup WaitStep \cup SetStep \cup ResetStep

TypeOK ==
  /\ RegistryTypeOK
  /\ count \in [Addr -> Nat]
  /\ lock_count \in [Addr -> Int]
  /\ pc \in [Thread -> Step]
  /\ woken \in [Addr -> SUBSET Thread]

Init ==
  /\ RegistryInit
  /\ count = [a \in Addr |-> 0]
  /\ lock_count = [a \in Addr |-> 0]
  /\ pc = [t \in Thread |-> "idle"]
  /\ woken = [a \in Addr |-> {}]

Goto(t, from, to) ==
  /\ pc[t] = from
  /\ pc' = [pc EXCEPT ![t] = to]

At(a, step) == {t \in Thread : pc[t] = step /\ EntryOf(t) = a}

-----------------------------------------------------------------------------
(* ipc_event_create reads neither the initial state nor the manual flag    *)
(* that IPC_createEvent passes: every event starts signalled.              *)
IPC_createEvent(t, s, n) ==
  /\ pc[t] = "idle"
  /\ \/ (OpenExisting(s, n) \/ OpenFails(s, n)) /\ UNCHANGED <<eventVars, woken>>
     \/ \E a \in Addr :
          /\ OpenNew(s, n, a)
          /\ count' = [count EXCEPT ![a] = 1]
          /\ lock_count' = [lock_count EXCEPT ![a] = 0]
          /\ woken' = [woken EXCEPT ![a] = {}]
  /\ UNCHANGED pc

(* A close that leaves other references drops its own and is answered with *)
(* -EBUSY all the same; the client is done with the handle either way.     *)
ipc_event_close(t, s) ==
  /\ pc[t] = "idle"
  /\ Close(s)
  /\ UNCHANGED <<eventVars, woken, pc>>

-----------------------------------------------------------------------------
(* ipc_event_lock: the check of the handle under m_event_lock, then a wait *)
(* without a limit or with one, neither of which a signal can end.  A      *)
(* handle that it refuses is no step: IPC_waitEvent returns IPC_OK for     *)
(* that, as for every error but a timeout.                                 *)
LockEnter(t, s) ==
  /\ t \in Waiter
  /\ \E wait \in {"down", "down_timeout"} : Goto(t, "idle", wait)
  /\ Validate(t, s)
  /\ woken' = [woken EXCEPT ![handle[s]] = @ \ {t}]
  /\ UNCHANGED eventVars

LockDown(t) ==
  /\ Goto(t, "down", "inc") \/ Goto(t, "down_timeout", "inc")
  /\ count[EntryOf(t)] > 0
  /\ count' = [count EXCEPT ![EntryOf(t)] = @ - 1]
  /\ UNCHANGED <<registryVars, lock_count, woken>>

(* Mutant: the timeout is taken for a success. *)
LockTimeout_Ignored(t) ==
  /\ Goto(t, "down_timeout", "inc")
  /\ UNCHANGED <<registryVars, eventVars, woken>>

LockTimeout(t) ==
  /\ Goto(t, "down_timeout", "idle")
  /\ Return(t)
  /\ UNCHANGED <<eventVars, woken>>

(* Mutant: the wait that was let through is not counted. *)
LockInc_Missing(t) ==
  /\ Goto(t, "inc", "idle")
  /\ woken' = [woken EXCEPT ![EntryOf(t)] = @ \cup {t}]
  /\ Return(t)
  /\ UNCHANGED eventVars

LockInc(t) ==
  /\ Goto(t, "inc", "idle")
  /\ lock_count' = [lock_count EXCEPT ![EntryOf(t)] = @ + 1]
  /\ woken' = [woken EXCEPT ![EntryOf(t)] = @ \cup {t}]
  /\ Return(t)
  /\ UNCHANGED count

-----------------------------------------------------------------------------
(* The body that ipc_event_unlock and ipc_event_reset have in common. *)
NotTaken(t, check) ==
  /\ Goto(t, check, "idle")
  /\ lock_count[EntryOf(t)] = 0
  /\ Return(t)
  /\ UNCHANGED <<eventVars, woken>>

(* Mutant: a set that finds the event taken only counts. *)
Up_Missing(t, up, dec) ==
  /\ Goto(t, up, dec)
  /\ UNCHANGED <<registryVars, eventVars, woken>>

Taken(t, check, up) ==
  /\ Goto(t, check, up)
  /\ lock_count[EntryOf(t)] # 0
  /\ UNCHANGED <<registryVars, eventVars, woken>>

Up(t, up, dec) ==
  /\ Goto(t, up, dec)
  /\ count[EntryOf(t)] < MaxCount
  /\ count' = [count EXCEPT ![EntryOf(t)] = @ + 1]
  /\ UNCHANGED <<registryVars, lock_count, woken>>

Dec(t, dec) ==
  /\ Goto(t, dec, "idle")
  /\ lock_count' = [lock_count EXCEPT ![EntryOf(t)] = @ - 1]
  /\ Return(t)
  /\ UNCHANGED <<count, woken>>

(* ipc_event_unlock, which is what IPC_setEvent calls. *)
UnlockEnter(t, s) ==
  /\ t \in Setter
  /\ Goto(t, "idle", "check")
  /\ Validate(t, s)
  /\ UNCHANGED <<eventVars, woken>>

UnlockNotTaken(t) == NotTaken(t, "check")
UnlockTaken(t) == Taken(t, "check", "up")
UnlockUp(t) == Up(t, "up", "dec")
UnlockDec(t) == Dec(t, "dec")

(* ipc_event_reset. *)
ResetEnter(t, s) ==
  /\ t \in Resetter
  /\ Goto(t, "idle", "reset_check")
  /\ Validate(t, s)
  /\ UNCHANGED <<eventVars, woken>>

ResetNotTaken(t) == NotTaken(t, "reset_check")
ResetTaken(t) == Taken(t, "reset_check", "reset_up")
ResetUp(t) == Up(t, "reset_up", "reset_dec")
ResetDec(t) == Dec(t, "reset_dec")

-----------------------------------------------------------------------------
ProceedSet(t) == UnlockNotTaken(t) \/ UnlockTaken(t) \/ UnlockUp(t) \/ UnlockDec(t)
ProceedReset(t) == ResetNotTaken(t) \/ ResetTaken(t) \/ ResetUp(t) \/ ResetDec(t)
Proceed(t) == LockInc(t) \/ ProceedSet(t) \/ ProceedReset(t)

Next ==
  \E t \in Thread :
    \/ \E s \in Slot, n \in Name : IPC_createEvent(t, s, n)
    \/ \E s \in Slot :
         ipc_event_close(t, s) \/ LockEnter(t, s) \/ UnlockEnter(t, s) \/ ResetEnter(t, s)
    \/ LockDown(t) \/ LockTimeout(t)
    \/ Proceed(t)

Spec == Init /\ [][Next]_vars

(* A thread inside the driver keeps running, and the kernel wakes the      *)
(* waiters of a semaphore in the order they came.  Nothing is assumed of   *)
(* the clients.                                                            *)
Fairness ==
  \A t \in Thread :
    /\ WF_vars(Proceed(t))
    /\ SF_vars(LockDown(t))

FairSpec == Spec /\ Fairness

-----------------------------------------------------------------------------
(* An event is a two-state thing: it never lets two waits through for want *)
(* of a set in between ("the signalled state", include/eventipc.h:34).     *)
TwoState ==
  \A a \in listed : count[a] + Cardinality(At(a, "inc")) <= 1

(* An event is never lost: whatever is not in the semaphore is counted, so *)
(* that the next set will find it taken and give it back.                  *)
TakenIsCounted ==
  \A a \in listed :
    count[a] + Cardinality(At(a, "inc")) = 0 =>
      lock_count[a] - Cardinality(At(a, "dec")) > 0

(* However sets and resets race, what is in the semaphore, what is counted *)
(* as taken and what is between the two accesses of a wait, a set or a     *)
(* reset add up to the 1 that the event started with: two sets that both   *)
(* found it taken leave a count of 2 and a counter of -1, not a lost one.  *)
EventConserved ==
  \A a \in listed :
    count[a] + lock_count[a] + Cardinality(At(a, "inc"))
      - Cardinality(At(a, "dec")) - Cardinality(At(a, "reset_dec")) = 1

(* The driver's event implements the abstract one when one thread sets it  *)
(* and nobody resets it.  A wait is let through when it is counted, and a  *)
(* set acts when it gives the semaphore back or finds nothing to do.       *)
SignalledEvents == [a \in Addr |-> count[a] + Cardinality(At(a, "inc")) > 0]
SetsCalled ==
  {x \in Thread \X Addr : pc[x[1]] \in {"check", "up"} /\ EntryOf(x[1]) = x[2]}
WaitsLetThrough == {x \in Thread \X Addr : x[1] \in woken[x[2]]}

Abstract ==
  INSTANCE AutoResetEvent WITH
    Obj <- Addr,
    live <- listed,
    signalled <- SignalledEvents,
    setting <- SetsCalled,
    woken <- WaitsLetThrough

ImplementsAutoResetEvent == Abstract!Spec

(* A set that is called while threads wait lets one of them through, also  *)
(* when it meets a wait that has taken the semaphore and is not counted    *)
(* yet: then it does nothing, and that wait is the one.                    *)
SetWakes ==
  \A a \in Addr :
    (At(a, "down") # {} /\ At(a, "check") # {}) ~> At(a, "inc") # {}

(* An event with one setter has two states, and never loses one.           *)
EventSound == TypeOK /\ TwoState /\ TakenIsCounted
=============================================================================
