-------------------------------- MODULE PosixIpc --------------------------------
(***************************************************************************)
(* The library on POSIX semaphores: mutexes, semaphores and events of      *)
(* linux/libsrc/posix (mutexipc.cpp, semipc.cpp, eventipc.cpp, linipc.cpp).*)
(*                                                                         *)
(* All three are named POSIX semaphores.  The names live in the file       *)
(* system: a delete by one client unlinks the name under all others, whose *)
(* handles go on standing for a semaphore without a name, and the next     *)
(* create of the name makes another one.                                   *)
(*                                                                         *)
(* IPC_createSemaphore passes IPC_CREAT and IPC_EXCL, the flags of the     *)
(* System V calls, where sem_open takes O_CREAT and O_EXCL.  POSIX gives   *)
(* them no meaning; glibc hands them to open, for which they are O_TRUNC   *)
(* and O_APPEND: the first sem_open opens a semaphore that exists and cuts *)
(* its file to nothing, and whoever touches it from then on gets SIGBUS.   *)
(***************************************************************************)
EXTENDS Library, Int32

CONSTANTS
  Obj,           (* the POSIX semaphores there can be                         *)
  NoObj,         (* no semaphore                                              *)
  MaxValue       (* bound of the model: the value that sets and raises reach  *)

ASSUME PosixAssumption ==
  /\ Name # {}
  /\ NoObj \notin Obj
  /\ MaxValue \in Nat

VARIABLES
  bound,         (* the semaphore that a name stands for                      *)
  value,         (* the value of each semaphore                               *)
  spoiled,       (* semaphores whose memory a create has cut off              *)
  ipc_name,      (* ipc_name of the handle in each slot                       *)
  ipc_sem,       (* ipc_descr.ipc_sem of the handle in each slot              *)
  closed,        (* slots whose handle a failed delete has left behind        *)
  pstep,         (* the next step of each thread                              *)
  pslot,         (* the handle that its call works on                         *)
  plimit,        (* the timeout of its call                                   *)
  pvalue,        (* the initial value that its create asks for                *)
  due,           (* history: what a semaphore was created with and given from *)
                 (* outside, less what waits and resets of an event took; a   *)
                 (* mutex is created with 1, be it taken or not               *)
  held,          (* history: the threads that captured a mutex or semaphore,  *)
                 (* or that made a mutex and asked for it as taken            *)
  strayed,       (* history: mutexes that a thread released without holding   *)
                 (* them                                                      *)
  stale,         (* history: slots whose name was unlinked by another         *)
  overtaken      (* history: resets that somebody took the event away from    *)

objects == <<bound, value, spoiled>>
handles == <<ipc_name, ipc_sem, closed>>
calls == <<pslot, plimit, pvalue>>
posixHistory == <<due, held, strayed, stale, overtaken>>
posixVars == <<objects, handles, pstep, calls, posixHistory>>

PosixTypeOK ==
  /\ bound \in [Name -> Obj \cup {NoObj}]
  /\ value \in [Obj -> Nat]
  /\ spoiled \subseteq Obj
  /\ ipc_name \in [Slot -> Name]
  /\ ipc_sem \in [Slot -> Obj \cup {NoObj}]
  /\ closed \subseteq Slot
  /\ pstep \in [Thread -> {"idle", "reopen", "wait", "reset", "unlink", "killed"}]
  /\ pslot \in [Thread -> Slot \cup {NoSlot}]
  /\ plimit \in [Thread -> Limit \cup {0}]
  /\ pvalue \in [Thread -> Nat]
  /\ due \in [Obj -> Nat]
  /\ held \in [Obj -> SUBSET Thread]
  /\ strayed \subseteq Obj
  /\ stale \subseteq Slot
  /\ overtaken \subseteq Thread

PosixInit ==
  /\ bound = [n \in Name |-> NoObj]
  /\ value = [o \in Obj |-> 0]
  /\ spoiled = {}
  /\ ipc_name = [s \in Slot |-> CHOOSE n \in Name : TRUE]
  /\ ipc_sem = [s \in Slot |-> NoObj]
  /\ closed = {}
  /\ pstep = [t \in Thread |-> "idle"]
  /\ pslot = [t \in Thread |-> NoSlot]
  /\ plimit = [t \in Thread |-> 0]
  /\ pvalue = [t \in Thread |-> 0]
  /\ due = [o \in Obj |-> 0]
  /\ held = [o \in Obj |-> {}]
  /\ strayed = {}
  /\ stale = {}
  /\ overtaken = {}

-----------------------------------------------------------------------------
PosixGoto(t, from, to) ==
  /\ pstep[t] = from
  /\ pstep' = [pstep EXCEPT ![t] = to]

(* allocate_ipc_object: a handle with the name, for the call that is to    *)
(* fill it.                                                                *)
allocate_ipc_object(t, s, n) ==
  /\ ipc_sem[s] = NoObj
  /\ s \notin closed
  /\ \A u \in Thread : pslot[u] # s
  /\ ipc_name' = [ipc_name EXCEPT ![s] = n]

PosixReturn(t) ==
  /\ pslot' = [pslot EXCEPT ![t] = NoSlot]
  /\ plimit' = [plimit EXCEPT ![t] = 0]
  /\ pvalue' = [pvalue EXCEPT ![t] = 0]

Use(t) == ipc_sem[pslot[t]]

(* Semaphores that neither a name nor a handle stands for. *)
Gone == {o \in Obj : (\A n \in Name : bound[n] # o) /\ (\A s \in Slot : ipc_sem[s] # o)}

-----------------------------------------------------------------------------
(* A mutex that is asked for as taken is made with the value 0, and is its *)
(* maker's: nothing but the value says so.                                 *)
MadeTaken(n, v) == n \in MutexName /\ v = 0

(* sem_open, as far as the library relies on it, called by t. *)
SemMake(t, s, n, v) ==
  /\ bound[n] = NoObj
  /\ Gone # {}
  /\ LET o == CHOOSE g \in Gone : TRUE IN
       /\ bound' = [bound EXCEPT ![n] = o]
       /\ value' = [value EXCEPT ![o] = v]
       /\ spoiled' = spoiled \ {o}
       /\ ipc_sem' = [ipc_sem EXCEPT ![s] = o]
       /\ due' = [due EXCEPT ![o] = IF MadeTaken(n, v) THEN 1 ELSE v]
       /\ held' = [held EXCEPT ![o] = IF MadeTaken(n, v) THEN {t} ELSE {}]
       /\ strayed' = strayed \ {o}
  /\ UNCHANGED <<closed, stale, overtaken>>

SemFind(s, n) ==
  /\ bound[n] # NoObj
  /\ ipc_sem' = [ipc_sem EXCEPT ![s] = bound[n]]
  /\ UNCHANGED <<bound, value, closed, posixHistory>>

(* The exclusive create that a mutex and an event begin with; whatever it  *)
(* fails for, a mutex tries again without O_EXCL.                          *)
OpenExclusive(t, s, n, v) ==
  /\ pstep[t] = "idle"
  /\ allocate_ipc_object(t, s, n)
  /\ \/ /\ SemMake(t, s, n, v)
        /\ UNCHANGED <<pstep, calls>>
     \/ /\ pstep' = [pstep EXCEPT ![t] = "reopen"]
        /\ pslot' = [pslot EXCEPT ![t] = s]
        /\ pvalue' = [pvalue EXCEPT ![t] = v]
        /\ UNCHANGED <<objects, ipc_sem, closed, plimit, posixHistory>>

IPC_createMutex(t, s, n, v) ==
  /\ n \in MutexName
  /\ OpenExclusive(t, s, n, v)

(* An event tries again only if the name exists; otherwise the create ends *)
(* with NULL and leaves nothing.                                           *)
IPC_createEvent(t, s, n, v) ==
  /\ n \in EventName
  /\ OpenExclusive(t, s, n, v)
  /\ pstep'[t] = "reopen" => bound[n] # NoObj

(* A sem_open that finds the semaphore and cuts its file to nothing.       *)
OpenTruncating(t, s, n) ==
  /\ pstep[t] = "idle"
  /\ allocate_ipc_object(t, s, n)
  /\ SemFind(s, n)
  /\ spoiled' = spoiled \cup {bound[n]}
  /\ UNCHANGED <<pstep, calls>>

(* The first sem_open of a semaphore never makes one. *)
IPC_createSemaphore(t, s, n, v) ==
  /\ n \in SemName
  /\ \/ OpenTruncating(t, s, n)
     \/ OpenExclusive(t, s, n, v) /\ pstep'[t] = "reopen"

(* Mutant: the second sem_open makes a semaphore even if the name has one. *)
Reopen_Again(t) ==
  /\ PosixGoto(t, "reopen", "idle")
  /\ \E o \in Gone : ipc_sem' = [ipc_sem EXCEPT ![pslot[t]] = o]
  /\ PosixReturn(t)
  /\ UNCHANGED <<objects, ipc_name, closed, posixHistory>>

(* The second sem_open, with O_CREAT: by now the name may have come or     *)
(* gone.  If it fails the handle is freed and the create returns NULL.     *)
Reopen(t) ==
  LET s == pslot[t] IN
  /\ PosixGoto(t, "reopen", "idle")
  /\ \/ SemMake(t, s, ipc_name[s], pvalue[t])
     \/ SemFind(s, ipc_name[s]) /\ UNCHANGED spoiled
     \/ UNCHANGED <<objects, ipc_sem, closed, posixHistory>>
  /\ PosixReturn(t)
  /\ UNCHANGED ipc_name

-----------------------------------------------------------------------------
(* The entry of the calls that wait.  It is a rule of the clients here     *)
(* that a thread captures a mutex or a semaphore at most once at a time:   *)
(* the library does not look, and a second capture waits for the first.    *)
WaitEnter(t, s, l) ==
  /\ PosixGoto(t, "idle", "wait")
  /\ ipc_sem[s] # NoObj
  /\ t \notin held[ipc_sem[s]]
  /\ pslot' = [pslot EXCEPT ![t] = s]
  /\ plimit' = [plimit EXCEPT ![t] = l]
  /\ UNCHANGED <<objects, handles, pvalue, posixHistory>>

IPC_captureMutex(t, s, l) == ipc_name[s] \in MutexName /\ WaitEnter(t, s, l)
IPC_lockSemaphore(t, s, l) == ipc_name[s] \in SemName /\ WaitEnter(t, s, l)
IPC_waitEvent(t, s, l) == ipc_name[s] \in EventName /\ WaitEnter(t, s, l)

(* What a wait takes: an event disappears, and a reset that has seen it    *)
(* has been overtaken; a mutex or a semaphore is held from now on.         *)
Take(t) ==
  LET o == Use(t) IN
  /\ o \notin spoiled
  /\ value[o] > 0
  /\ value' = [value EXCEPT ![o] = @ - 1]
  /\ IF ipc_name[pslot[t]] \in EventName
     THEN /\ due' = [due EXCEPT ![o] = @ - 1]
          /\ overtaken' = (overtaken \ {t})
                \cup {u \in Thread \ {t} : pstep[u] = "reset" /\ Use(u) = o}
          /\ UNCHANGED held
     ELSE /\ held' = [held EXCEPT ![o] = @ \cup {t}]
          /\ UNCHANGED <<due, overtaken>>
  /\ PosixReturn(t)
  /\ UNCHANGED <<bound, spoiled, handles, strayed, stale>>

WaitTake(t) == PosixGoto(t, "wait", "idle") /\ Take(t)

(* The timeout becomes an absolute time, "timeout*10000" nanoseconds after *)
(* the start of 1970.                                                      *)
Deadline(l) == Times(ToInt32(l), 10000)

(* Mutant: a wait with a timeout goes on for as long as it takes. *)
WaitExpire_Unlimited(t) ==
  /\ PosixGoto(t, "wait", "idle")
  /\ plimit[t] = 0
  /\ PosixReturn(t)
  /\ UNCHANGED <<objects, handles, posixHistory>>

(* That time is past: the call waits for nothing.  It takes the semaphore  *)
(* if it can, and fails with ETIMEDOUT if not; with nanoseconds that are   *)
(* negative or a second or more it may fail with EINVAL in any case.       *)
WaitExpire(t) ==
  /\ PosixGoto(t, "wait", "idle")
  /\ plimit[t] > 0
  /\ Use(t) \notin spoiled
  /\ value[Use(t)] = 0 \/ ~ValidNsec(Deadline(plimit[t]))
  /\ PosixReturn(t)
  /\ UNCHANGED <<objects, handles, posixHistory>>

(* Mutant: a wait that was interrupted counts as one that succeeded. *)
WaitInterrupted_Ignored(t) ==
  /\ PosixGoto(t, "wait", "idle")
  /\ held' = [held EXCEPT ![Use(t)] = @ \cup {t}]
  /\ PosixReturn(t)
  /\ UNCHANGED <<objects, handles, due, strayed, stale, overtaken>>

(* A signal ends a wait with EINTR, and the call with IPC_GENERAL_ERROR. *)
WaitInterrupted(t) ==
  /\ PosixGoto(t, "wait", "idle")
  /\ Use(t) \notin spoiled
  /\ value[Use(t)] = 0
  /\ PosixReturn(t)
  /\ UNCHANGED <<objects, handles, posixHistory>>

-----------------------------------------------------------------------------
(* sem_post, the whole of a release and of a set. *)
Post(t, s) ==
  /\ pstep[t] = "idle"
  /\ ipc_sem[s] # NoObj
  /\ ipc_sem[s] \notin spoiled
  /\ value' = [value EXCEPT ![ipc_sem[s]] = @ + 1]
  /\ UNCHANGED <<bound, spoiled, handles, pstep, calls, stale, overtaken>>

GiveBack(t, s) ==
  /\ ipc_sem[s] # NoObj
  /\ t \in held[ipc_sem[s]]
  /\ held' = [held EXCEPT ![ipc_sem[s]] = @ \ {t}]
  /\ UNCHANGED <<due, strayed>>

Give(s) ==
  /\ ipc_sem[s] # NoObj
  /\ value[ipc_sem[s]] < MaxValue
  /\ due' = [due EXCEPT ![ipc_sem[s]] = @ + 1]
  /\ UNCHANGED held

(* A post by a thread that holds nothing. *)
GiveMore(t, s) == Give(s) /\ t \notin held[ipc_sem[s]]

(* Anybody may release a mutex: a thread that has it gives it back, and    *)
(* with any other there is one more to be captured.                        *)
IPC_releaseMutex(t, s) ==
  /\ ipc_name[s] \in MutexName
  /\ \/ GiveBack(t, s)
     \/ GiveMore(t, s) /\ strayed' = strayed \cup {ipc_sem[s]}
  /\ Post(t, s)

IPC_unlockSemaphore(t, s) ==
  /\ ipc_name[s] \in SemName
  /\ GiveBack(t, s) \/ (GiveMore(t, s) /\ UNCHANGED strayed)
  /\ Post(t, s)

IPC_setEvent(t, s) ==
  /\ ipc_name[s] \in EventName
  /\ Give(s) /\ UNCHANGED strayed
  /\ Post(t, s)

(* Mutant: the value is not looked at. *)
ResetEnter_Blind(t, s) ==
  /\ PosixGoto(t, "idle", "reset")
  /\ ipc_name[s] \in EventName
  /\ ipc_sem[s] # NoObj
  /\ pslot' = [pslot EXCEPT ![t] = s]
  /\ UNCHANGED <<objects, handles, plimit, pvalue, posixHistory>>

(* IPC_resetEvent: a look at the value, and a wait without a limit if it   *)
(* was positive.                                                           *)
ResetEnter(t, s) ==
  LET o == ipc_sem[s] IN
  /\ pstep[t] = "idle"
  /\ ipc_name[s] \in EventName
  /\ o # NoObj
  /\ o \notin spoiled
  /\ value[o] > 0
  /\ pstep' = [pstep EXCEPT ![t] = "reset"]
  /\ pslot' = [pslot EXCEPT ![t] = s]
  /\ UNCHANGED <<objects, handles, plimit, pvalue, posixHistory>>

ResetTake(t) == PosixGoto(t, "reset", "idle") /\ Take(t)

(* The wait of a reset can be interrupted as well. *)
ResetInterrupted(t) ==
  /\ PosixGoto(t, "reset", "idle")
  /\ value[Use(t)] = 0
  /\ overtaken' = overtaken \ {t}
  /\ PosixReturn(t)
  /\ UNCHANGED <<objects, handles, due, held, strayed, stale>>

-----------------------------------------------------------------------------
(* The use of a semaphore whose file was cut off: SIGBUS. *)
Killed(t) ==
  /\ PosixGoto(t, "wait", "killed") \/ PosixGoto(t, "reset", "killed")
  /\ Use(t) \in spoiled
  /\ UNCHANGED <<objects, handles, calls, posixHistory>>

KilledOnEntry(t, s) ==
  /\ PosixGoto(t, "idle", "killed")
  /\ ipc_sem[s] \in spoiled
  /\ pslot' = [pslot EXCEPT ![t] = s]
  /\ UNCHANGED <<objects, handles, plimit, pvalue, posixHistory>>

-----------------------------------------------------------------------------
(* A delete closes the semaphore and then unlinks the name, whatever       *)
(* semaphore the name stands for by then.  As with the driver, a client    *)
(* does not delete a handle that one of its calls is using.                *)
DeleteClose(t, s) ==
  /\ PosixGoto(t, "idle", "unlink")
  /\ ipc_sem[s] # NoObj
  /\ \A u \in Thread : pslot[u] # s
  /\ ipc_sem' = [ipc_sem EXCEPT ![s] = NoObj]
  /\ pslot' = [pslot EXCEPT ![t] = s]
  /\ UNCHANGED <<objects, ipc_name, closed, plimit, pvalue, posixHistory>>

IPC_deleteMutex(t, s) == ipc_name[s] \in MutexName /\ DeleteClose(t, s)
IPC_deleteSemaphore(t, s) == ipc_name[s] \in SemName /\ DeleteClose(t, s)
IPC_deleteEvent(t, s) == ipc_name[s] \in EventName /\ DeleteClose(t, s)

(* The slots that stand for a semaphore of the name, now or until the      *)
(* unlink of their delete.                                                 *)
SlotsOf(n) ==
  {s \in Slot :
     /\ ipc_name[s] = n
     /\ ipc_sem[s] # NoObj \/ \E u \in Thread : pstep[u] = "unlink" /\ pslot[u] = s}

(* The handle is freed only if the name was there to be unlinked. *)
DeleteUnlink(t) ==
  LET s == pslot[t]  n == ipc_name[s] IN
  /\ PosixGoto(t, "unlink", "idle")
  /\ IF bound[n] # NoObj
     THEN /\ bound' = [bound EXCEPT ![n] = NoObj]
          /\ stale' = (stale \cup SlotsOf(n)) \ {s}
          /\ UNCHANGED closed
     ELSE /\ closed' = closed \cup {s}
          /\ UNCHANGED <<bound, stale>>
  /\ PosixReturn(t)
  /\ UNCHANGED <<value, spoiled, ipc_name, ipc_sem, due, held, strayed, overtaken>>

-----------------------------------------------------------------------------
PosixProceed(t) ==
  Reopen(t) \/ WaitTake(t) \/ WaitExpire(t) \/ Killed(t) \/ DeleteUnlink(t)

PosixNext ==
  \E t \in Thread :
    \/ PosixProceed(t)
    \/ WaitInterrupted(t) \/ ResetTake(t) \/ ResetInterrupted(t)
    \/ \E s \in Slot, n \in Name :
         \E v \in Asked[n] :
           IPC_createMutex(t, s, n, v) \/ IPC_createSemaphore(t, s, n, v) \/ IPC_createEvent(t, s, n, v)
    \/ \E s \in Slot, l \in Limit :
         IPC_captureMutex(t, s, l) \/ IPC_lockSemaphore(t, s, l) \/ IPC_waitEvent(t, s, l)
    \/ \E s \in Slot :
         \/ IPC_releaseMutex(t, s) \/ IPC_unlockSemaphore(t, s)
         \/ IPC_setEvent(t, s) \/ ResetEnter(t, s)
         \/ KilledOnEntry(t, s)
         \/ IPC_deleteMutex(t, s) \/ IPC_deleteSemaphore(t, s) \/ IPC_deleteEvent(t, s)

PosixSpec == PosixInit /\ [][PosixNext]_posixVars

(* A thread that has something to do goes on doing it. *)
PosixFairness == \A t \in Thread : WF_posixVars(PosixProceed(t))

-----------------------------------------------------------------------------
(* What was put into a semaphore is in it, held, or was taken: releases,   *)
(* sets, waits, resets and signals make up nothing and lose nothing.  Sets *)
(* of an event add up where the driver's have no further effect.           *)
TokensConserved ==
  \A o \in Obj \ Gone :
    value[o] + Cardinality(held[o]) = due[o]

(* One thread at a time holds a mutex, its maker included when it asked    *)
(* for it as taken, and whatever signals and timeouts there are, until a   *)
(* thread releases it that does not hold it: IPC_captureMutex answers a    *)
(* failed wait with an error, and IPC_releaseMutex does not look who calls.*)
PosixMutualExclusion ==
  \A s \in Slot :
    (ipc_sem[s] # NoObj /\ ipc_name[s] \in MutexName /\ ipc_sem[s] \notin strayed)
      => Cardinality(held[ipc_sem[s]]) <= 1

(* Two handles of a name stand for one semaphore unless a delete unlinked  *)
(* the name between the two creates, however the creates and deletes of    *)
(* their clients overlap.                                                  *)
SplitOnlyByDelete ==
  \A s \in Slot :
    (ipc_sem[s] # NoObj /\ s \notin stale) => bound[ipc_name[s]] = ipc_sem[s]

(* A delete fails, and leaves its handle behind, only if the delete of     *)
(* another handle unlinked the name first.                                 *)
DeleteFailsOnlyAfterAnother == closed \subseteq stale

(* A reset blocks only if somebody took the event after the reset saw it.  *)
ResetBlocksOnlyIfOvertaken ==
  \A t \in Thread :
    (pstep[t] = "reset" /\ value[Use(t)] = 0) => t \in overtaken

(* Only the clients of semaphores lose their memory under their feet.      *)
KilledOnlyBySemaphores ==
  \A t \in Thread : pstep[t] = "killed" => ipc_name[pslot[t]] \in SemName

(* A call with a timeout does not stay in its wait, whoever holds what it  *)
(* waits for.                                                              *)
LimitedWaitEnds ==
  \A t \in Thread : (pstep[t] = "wait" /\ plimit[t] > 0) ~> pstep[t] # "wait"

(* The semaphores of the backend: their values, who holds them and who is  *)
(* killed by them.                                                         *)
PosixObjectsSound ==
  PosixTypeOK /\ TokensConserved /\ PosixMutualExclusion /\ KilledOnlyBySemaphores

(* The names of the backend, which a delete takes from under others.       *)
PosixNamesSound == SplitOnlyByDelete /\ DeleteFailsOnlyAfterAnother
=============================================================================
