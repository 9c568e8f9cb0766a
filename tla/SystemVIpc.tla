------------------------------- MODULE SystemVIpc -------------------------------
(***************************************************************************)
(* The library on System V semaphores: mutexes, semaphores and events of   *)
(* linux/libsrc/systemv (mutexipc.cpp, semipc.cpp, eventipc.cpp,           *)
(* linipc.cpp).                                                            *)
(*                                                                         *)
(* A name is a key file under /tmp/ipclib, the key of the semaphore set is *)
(* made of the number of the file's inode, and the set lives in the kernel *)
(* until somebody removes it.  A delete unlinks the key file in any case   *)
(* and removes the set if it looks free; so a set may outlive its key      *)
(* file, whose inode the next key file may get, that of another name       *)
(* included.  All operations on a set carry SEM_UNDO: what a process did   *)
(* to it is undone when the process ends.                                  *)
(*                                                                         *)
(* A thread stands for a process here, with one handle for each name; it   *)
(* may die between any two system calls and start again with nothing.      *)
(* Left out: allocations that fail, and ftok's use of the low 16 bits of   *)
(* the inode number only, which adds collisions of the same kind.          *)
(***************************************************************************)
EXTENDS Library

CONSTANTS
  SemId,         (* identifiers of semaphore sets                             *)
  ZeroId,        (* the identifier 0, that of the first set since the start   *)
  NoId,          (* the process has no handle of the name                     *)
  BadId,         (* a handle whose semget failed                              *)
  Inode,         (* inode numbers of key files                                *)
  NoInode,       (* the name has no key file                                  *)
  NoName,        (* a process that is in no call                              *)
  MaxSemval      (* bound of the model: the value that sets and raises reach, *)
                 (* and the number of operations of a process to be undone    *)

ASSUME SystemVAssumption ==
  /\ NoId \notin SemId /\ BadId \notin SemId /\ NoId # BadId
  /\ NoInode \notin Inode
  /\ NoName \notin Name
  /\ MaxSemval \in Nat

VARIABLES
  keyfile,       (* the inode of the key file of each name                    *)
  sets,          (* the semaphore sets that exist                             *)
  sem_key,       (* the key of each set                                       *)
  semval,        (* the value of its semaphore                                *)
  semadj,        (* what the end of a process adds to it                      *)
  sem_id,        (* ipc_descr.ipc_sem of the handle of a process for a name   *)
  ipc_key,       (* ipc_key of that handle                                    *)
  manual,        (* ipc_size of that handle: an event with manual reset       *)
  vstep,         (* the next step of each process                             *)
  vname,         (* the name its call works on                                *)
  vlimit,        (* the timeout of its call                                   *)
  vvalue,        (* the initial value that its create asks for                *)
  start,         (* history: the value of SETVAL, 0 before it                 *)
  raised,        (* history: semaphores raised by a process that held none    *)
  holding,       (* history: processes that captured a mutex or semaphore     *)
  unlinked,      (* history: handles whose key file is not the name's any more*)
  users,         (* history: the names whose creates got a set                *)
  late           (* history: captures while a delete had found the set free   *)

setVars == <<sets, sem_key, semval, semadj>>
svHandles == <<sem_id, ipc_key, manual>>
svCall == <<vname, vlimit, vvalue>>
svHistory == <<start, raised, holding, unlinked, users, late>>
systemVVars == <<keyfile, setVars, svHandles, vstep, svCall, svHistory>>

CreateStep == {"ftok", "get", "setval", "down", "get2", "stat", "abort"}
DeleteStep == {"getval", "getncnt", "rmid", "unlink"}

SystemVTypeOK ==
  /\ keyfile \in [Name -> Inode \cup {NoInode}]
  /\ sets \subseteq SemId
  /\ sem_key \in [SemId -> Inode \cup {NoInode}]
  /\ semval \in [SemId -> Nat]
  /\ semadj \in [SemId \X Thread -> Int]
  /\ sem_id \in [Thread \X Name -> SemId \cup {NoId, BadId}]
  /\ ipc_key \in [Thread \X Name -> Inode \cup {NoInode}]
  /\ manual \in [Thread \X Name -> BOOLEAN]
  /\ vstep \in [Thread -> {"idle", "wait", "repost"} \cup CreateStep \cup DeleteStep]
  /\ vname \in [Thread -> Name \cup {NoName}]
  /\ vlimit \in [Thread -> Limit \cup {0}]
  /\ vvalue \in [Thread -> Nat]
  /\ start \in [SemId -> Nat]
  /\ raised \subseteq SemId
  /\ holding \in [SemId -> SUBSET Thread]
  /\ unlinked \subseteq Thread \X Name
  /\ users \in [SemId -> SUBSET Name]
  /\ late \subseteq SemId \X Thread

SystemVInit ==
  /\ keyfile = [n \in Name |-> NoInode]
  /\ sets = {}
  /\ sem_key = [i \in SemId |-> NoInode]
  /\ semval = [i \in SemId |-> 0]
  /\ semadj = [p \in SemId \X Thread |-> 0]
  /\ sem_id = [h \in Thread \X Name |-> NoId]
  /\ ipc_key = [h \in Thread \X Name |-> NoInode]
  /\ manual = [h \in Thread \X Name |-> FALSE]
  /\ vstep = [t \in Thread |-> "idle"]
  /\ vname = [t \in Thread |-> NoName]
  /\ vlimit = [t \in Thread |-> 0]
  /\ vvalue = [t \in Thread |-> 0]
  /\ start = [i \in SemId |-> 0]
  /\ raised = {}
  /\ holding = [i \in SemId |-> {}]
  /\ unlinked = {}
  /\ users = [i \in SemId |-> {}]
  /\ late = {}

-----------------------------------------------------------------------------
SvGoto(t, from, to) ==
  /\ vstep[t] = from
  /\ vstep' = [vstep EXCEPT ![t] = to]

SvReturn(t) ==
  /\ vname' = [vname EXCEPT ![t] = NoName]
  /\ vlimit' = [vlimit EXCEPT ![t] = 0]
  /\ vvalue' = [vvalue EXCEPT ![t] = 0]

(* The handle that the call of t works on, and its set. *)
H(t) == <<t, vname[t]>>
SetOf(t) == sem_id[H(t)]

(* No handle: at the end of a delete, a create that fails, a process. *)
NoHandles(hs) ==
  /\ sem_id' = [h \in Thread \X Name |-> IF h \in hs THEN NoId ELSE sem_id[h]]
  /\ ipc_key' = [h \in Thread \X Name |-> IF h \in hs THEN NoInode ELSE ipc_key[h]]
  /\ manual' = [h \in Thread \X Name |-> manual[h] /\ h \notin hs]

(* delete_ipc_file: from now on the handles of the name, other than those  *)
(* that go, have a key that the name has not.                              *)
delete_ipc_file(n, gone) ==
  /\ keyfile' = [keyfile EXCEPT ![n] = NoInode]
  /\ unlinked' = (unlinked \cup {h \in Thread \X {n} : ipc_key[h] # NoInode}) \ gone

(* delete_ipc_object: the key file and the handle. *)
delete_ipc_object(t) ==
  /\ delete_ipc_file(vname[t], {H(t)})
  /\ NoHandles({H(t)})

-----------------------------------------------------------------------------
(* create_ipc_file, at the start of a create: the key file is made, or is  *)
(* there.  Its inode is any that no other file has.                        *)
create_ipc_file(t, n, v, m) ==
  /\ SvGoto(t, "idle", "ftok")
  /\ sem_id[<<t, n>>] = NoId
  /\ IF keyfile[n] = NoInode
     THEN \E k \in Inode :
            /\ \A x \in Name : keyfile[x] # k
            /\ keyfile' = [keyfile EXCEPT ![n] = k]
     ELSE UNCHANGED keyfile
  /\ manual' = [manual EXCEPT ![<<t, n>>] = m]
  /\ vname' = [vname EXCEPT ![t] = n]
  /\ vvalue' = [vvalue EXCEPT ![t] = v]
  /\ UNCHANGED <<setVars, sem_id, ipc_key, vlimit, svHistory>>

(* The creates of a mutex, which is made free whatever is asked for, of a  *)
(* semaphore and of an event.                                              *)
IPC_createMutex_sv(t, n) == n \in MutexName /\ create_ipc_file(t, n, 1, FALSE)
IPC_createSemaphore_sv(t, n, v) == n \in SemName /\ create_ipc_file(t, n, v, FALSE)
IPC_createEvent_sv(t, n, v, m) == n \in EventName /\ create_ipc_file(t, n, v, m)

(* get_ipc_key: the file may have gone since; then the create fails, and   *)
(* unlinks the file that another create may have made in the meantime.     *)
get_ipc_key(t) ==
  LET k == keyfile[vname[t]] IN
  /\ SvGoto(t, "ftok", IF k = NoInode THEN "abort" ELSE "get")
  /\ ipc_key' = [ipc_key EXCEPT ![H(t)] = k]
  /\ UNCHANGED <<keyfile, setVars, sem_id, manual, svCall, svHistory>>

WithKey(k) == {i \in sets : sem_key[i] = k}

(* semget with IPC_EXCL: a set with the value 0, or EEXIST.  The result 0  *)
(* fails the test "> 0"; errno still says EEXIST, of the mkdir at the      *)
(* start of the create, and the new set is treated as one that was there.  *)
GetExclusive(t) ==
  /\ vstep[t] = "get"
  /\ IF WithKey(ipc_key[H(t)]) = {}
     THEN \E i \in SemId \ sets :
            /\ \A h \in Thread \X Name : sem_id[h] # i
            /\ sets' = sets \cup {i}
            /\ sem_key' = [sem_key EXCEPT ![i] = ipc_key[H(t)]]
            /\ semval' = [semval EXCEPT ![i] = 0]
            /\ semadj' = [p \in SemId \X Thread |-> IF p[1] = i THEN 0 ELSE semadj[p]]
            /\ start' = [start EXCEPT ![i] = 0]
            /\ raised' = raised \ {i}
            /\ holding' = [holding EXCEPT ![i] = {}]
            /\ users' = [users EXCEPT ![i] = {vname[t]}]
            /\ late' = {p \in late : p[1] # i}
            /\ vstep' = [vstep EXCEPT ![t] = IF i = ZeroId THEN "get2" ELSE "setval"]
            /\ sem_id' = [sem_id EXCEPT ![H(t)] = IF i = ZeroId THEN NoId ELSE i]
     ELSE /\ vstep' = [vstep EXCEPT ![t] = "get2"]
          /\ UNCHANGED <<setVars, sem_id, start, raised, holding, users, late>>
  /\ UNCHANGED <<keyfile, ipc_key, manual, svCall, unlinked>>

(* SETVAL, which also clears what processes would undo.  A mutex and an    *)
(* event start with 1; an event that was asked for as not signalled is     *)
(* captured next.  If the set has gone, the create fails.                  *)
SetInitial(t) ==
  LET i == SetOf(t)
      isEvent == vname[t] \in EventName
      first == IF isEvent THEN 1 ELSE vvalue[t]
      next == CASE i \notin sets -> "abort"
                [] i \in sets /\ isEvent /\ vvalue[t] = 0 -> "down"
                [] OTHER -> "idle"
  IN
  /\ SvGoto(t, "setval", next)
  /\ IF i \in sets
     THEN /\ semval' = [semval EXCEPT ![i] = first]
          /\ semadj' = [p \in SemId \X Thread |-> IF p[1] = i THEN 0 ELSE semadj[p]]
          /\ start' = [start EXCEPT ![i] = first]
     ELSE UNCHANGED <<semval, semadj, start>>
  /\ IF next = "idle" THEN SvReturn(t) ELSE UNCHANGED svCall
  /\ UNCHANGED <<keyfile, sets, sem_key, svHandles, raised, holding, unlinked, users, late>>

(* The semop of that capture, which waits like any other: after a signal,  *)
(* or if the set has gone, the create fails.                               *)
InitialDown(t) ==
  LET i == SetOf(t) IN
  /\ \/ /\ SvGoto(t, "down", "idle")
        /\ i \in sets
        /\ semval[i] > 0
        /\ semval' = [semval EXCEPT ![i] = @ - 1]
        /\ semadj' = [semadj EXCEPT ![<<i, t>>] = @ + 1]
        /\ SvReturn(t)
     \/ /\ SvGoto(t, "down", "abort")
        /\ i \notin sets \/ semval[i] = 0
        /\ UNCHANGED <<semval, semadj, svCall>>
  /\ UNCHANGED <<keyfile, sets, sem_key, svHandles, svHistory>>

(* The second semget.  An event takes its result as it is: the look at     *)
(* sem_otime changes nothing.                                              *)
GetExisting(t) ==
  LET found == WithKey(ipc_key[H(t)])
      isEvent == vname[t] \in EventName
  IN
  /\ SvGoto(t, "get2", IF isEvent THEN "idle" ELSE "stat")
  /\ IF found = {}
     THEN sem_id' = [sem_id EXCEPT ![H(t)] = BadId] /\ UNCHANGED users
     ELSE \E i \in found :
            /\ sem_id' = [sem_id EXCEPT ![H(t)] = i]
            /\ users' = [users EXCEPT ![i] = @ \cup {vname[t]}]
  /\ IF isEvent THEN SvReturn(t) ELSE UNCHANGED svCall
  /\ UNCHANGED <<keyfile, setVars, ipc_key, manual, start, raised, holding, unlinked, late>>

(* The look at sem_ctime, which semget has set: it tells that the set is   *)
(* there, not that it has got its value.                                   *)
StatExisting(t) ==
  /\ SvGoto(t, "stat", IF SetOf(t) \in sets THEN "idle" ELSE "abort")
  /\ IF SetOf(t) \in sets THEN SvReturn(t) ELSE UNCHANGED svCall
  /\ UNCHANGED <<keyfile, setVars, svHandles, svHistory>>

(* A create that fails takes the key file with it, whoever uses it. *)
Abort(t) ==
  /\ SvGoto(t, "abort", "idle")
  /\ delete_ipc_object(t)
  /\ SvReturn(t)
  /\ UNCHANGED <<setVars, start, raised, holding, users, late>>

-----------------------------------------------------------------------------
(* Mutant: a capture is made without SEM_UNDO. *)
Semop_DownKept(i, t, d) ==
  /\ semval' = [semval EXCEPT ![i] = @ + d]
  /\ semadj' = [semadj EXCEPT ![<<i, t>>] = IF d < 0 THEN @ ELSE @ - d]

(* semop with SEM_UNDO. *)
Semop(i, t, d) ==
  /\ semval' = [semval EXCEPT ![i] = @ + d]
  /\ semadj' = [semadj EXCEPT ![<<i, t>>] = @ - d]

Idle(t, n) == vstep[t] = "idle" /\ sem_id[<<t, n>>] \in SemId

WaitEnterSv(t, n, l) ==
  /\ Idle(t, n)
  /\ t \notin holding[sem_id[<<t, n>>]]
  /\ semadj[<<sem_id[<<t, n>>], t>>] <= MaxSemval
  /\ vstep' = [vstep EXCEPT ![t] = "wait"]
  /\ vname' = [vname EXCEPT ![t] = n]
  /\ vlimit' = [vlimit EXCEPT ![t] = l]
  /\ UNCHANGED <<keyfile, setVars, svHandles, vvalue, svHistory>>

IPC_captureMutex_sv(t, n, l) == n \in MutexName /\ WaitEnterSv(t, n, l)
IPC_lockSemaphore_sv(t, n, l) == n \in SemName /\ WaitEnterSv(t, n, l)
IPC_waitEvent_sv(t, n, l) == n \in EventName /\ WaitEnterSv(t, n, l)

(* Deletes that have found the set free and are about to remove it. *)
Deleting(i) == {u \in Thread : vstep[u] \in {"getncnt", "rmid"} /\ SetOf(u) = i}

SemTake(t) ==
  LET i == SetOf(t) IN
  /\ vstep[t] = "wait"
  /\ i \in sets
  /\ semval[i] > 0
  /\ Semop(i, t, -1)
  /\ IF vname[t] \in EventName
     THEN /\ UNCHANGED <<holding, late>>
          /\ IF manual[H(t)]
             THEN SvGoto(t, "wait", "idle") /\ SvReturn(t)
             ELSE SvGoto(t, "wait", "repost") /\ UNCHANGED svCall
     ELSE /\ holding' = [holding EXCEPT ![i] = @ \cup {t}]
          /\ late' = IF Deleting(i) = {} THEN late \ {<<i, t>>} ELSE late \cup {<<i, t>>}
          /\ SvGoto(t, "wait", "idle")
          /\ SvReturn(t)
  /\ UNCHANGED <<keyfile, sets, sem_key, svHandles, start, raised, unlinked, users>>

(* A timeout, a signal, or the removal of the set: an error. *)
WaitFails(t) ==
  /\ SvGoto(t, "wait", "idle")
  /\ SetOf(t) \notin sets \/ semval[SetOf(t)] = 0
  /\ SvReturn(t)
  /\ UNCHANGED <<keyfile, setVars, svHandles, svHistory>>

(* The wait of an event with automatic reset gives back what it took. *)
Repost(t) ==
  LET i == SetOf(t) IN
  /\ SvGoto(t, "repost", "idle")
  /\ IF i \in sets THEN Semop(i, t, 1) ELSE UNCHANGED <<semval, semadj>>
  /\ SvReturn(t)
  /\ UNCHANGED <<keyfile, sets, sem_key, svHandles, svHistory>>

(* A semop of +1, the whole of a release and of a set. *)
Raise(t, n) ==
  LET i == sem_id[<<t, n>>] IN
  /\ Idle(t, n)
  /\ IF i \in sets THEN Semop(i, t, 1) ELSE UNCHANGED <<semval, semadj>>
  /\ UNCHANGED <<keyfile, sets, sem_key, svHandles, vstep, svCall, start, unlinked, users>>

Release(t, i) ==
  /\ t \in holding[i]
  /\ holding' = [holding EXCEPT ![i] = @ \ {t}]
  /\ late' = late \ {<<i, t>>}
  /\ UNCHANGED raised

BelowBound(t, i) == semval[i] < MaxSemval /\ -semadj[<<i, t>>] < MaxSemval

(* Clients release mutexes that they hold; a semaphore anybody may raise. *)
IPC_releaseMutex_sv(t, n) ==
  /\ n \in MutexName
  /\ Raise(t, n)
  /\ Release(t, sem_id[<<t, n>>])

IPC_unlockSemaphore_sv(t, n) ==
  /\ n \in SemName
  /\ Raise(t, n)
  /\ \/ Release(t, sem_id[<<t, n>>])
     \/ /\ t \notin holding[sem_id[<<t, n>>]]
        /\ BelowBound(t, sem_id[<<t, n>>])
        /\ raised' = raised \cup {sem_id[<<t, n>>]}
        /\ UNCHANGED <<holding, late>>

IPC_setEvent_sv(t, n) ==
  /\ n \in EventName
  /\ Raise(t, n)
  /\ BelowBound(t, sem_id[<<t, n>>])
  /\ UNCHANGED <<raised, holding, late>>

IPC_resetEvent_sv(t, n) ==
  LET i == sem_id[<<t, n>>] IN
  /\ n \in EventName
  /\ Idle(t, n)
  /\ i \in sets
  /\ semval' = [semval EXCEPT ![i] = 0]
  /\ semadj' = [p \in SemId \X Thread |-> IF p[1] = i THEN 0 ELSE semadj[p]]
  /\ UNCHANGED <<keyfile, sets, sem_key, svHandles, vstep, svCall, svHistory>>

-----------------------------------------------------------------------------
(* A delete, of any handle that semget gave.  is_ok_remove asks for the    *)
(* value and for the waiters in system calls of their own; nobody waits    *)
(* for the value 0, so GETZCNT is left out.                                *)
DeleteEnter(t, n) ==
  /\ vstep[t] = "idle"
  /\ sem_id[<<t, n>>] # NoId
  /\ vstep' = [vstep EXCEPT ![t] = "getval"]
  /\ vname' = [vname EXCEPT ![t] = n]
  /\ UNCHANGED <<keyfile, setVars, svHandles, vlimit, vvalue, svHistory>>

IPC_deleteMutex_sv(t, n) == n \in MutexName /\ DeleteEnter(t, n)
IPC_deleteSemaphore_sv(t, n) == n \in SemName /\ DeleteEnter(t, n)
IPC_deleteEvent_sv(t, n) == n \in EventName /\ DeleteEnter(t, n)

(* Mutant: the value is not asked for. *)
GetVal_Any(t) ==
  /\ SvGoto(t, "getval", IF SetOf(t) \in sets THEN "getncnt" ELSE "unlink")
  /\ UNCHANGED <<keyfile, setVars, svHandles, svCall, svHistory>>

GetVal(t) ==
  LET free == SetOf(t) \in sets /\ semval[SetOf(t)] = 1 IN
  /\ SvGoto(t, "getval", IF free THEN "getncnt" ELSE "unlink")
  /\ UNCHANGED <<keyfile, setVars, svHandles, svCall, svHistory>>

Waiting(i) == {u \in Thread : vstep[u] \in {"wait", "down"} /\ SetOf(u) = i}

GetNCnt(t) ==
  LET free == SetOf(t) \in sets /\ (Waiting(SetOf(t)) = {} \/ semval[SetOf(t)] > 0) IN
  /\ SvGoto(t, "getncnt", IF free THEN "rmid" ELSE "unlink")
  /\ UNCHANGED <<keyfile, setVars, svHandles, svCall, svHistory>>

(* IPC_RMID.  If somebody else has removed the set, the delete returns an  *)
(* error and keeps the handle.                                             *)
RmId(t) ==
  LET i == SetOf(t) IN
  /\ SvGoto(t, "rmid", IF i \in sets THEN "unlink" ELSE "idle")
  /\ sets' = sets \ {i}
  /\ semval' = [semval EXCEPT ![i] = 0]
  /\ semadj' = [p \in SemId \X Thread |-> IF p[1] = i THEN 0 ELSE semadj[p]]
  /\ IF i \in sets THEN UNCHANGED svCall ELSE SvReturn(t)
  /\ UNCHANGED <<keyfile, sem_key, svHandles, svHistory>>

Unlink(t) ==
  /\ SvGoto(t, "unlink", "idle")
  /\ delete_ipc_object(t)
  /\ SvReturn(t)
  /\ UNCHANGED <<setVars, start, raised, holding, users, late>>

-----------------------------------------------------------------------------
(* A process ends, wherever it is: the kernel undoes what it did to each   *)
(* set, not going below 0.                                                 *)
Die(t) ==
  /\ semval' = [i \in SemId |->
       LET v == semval[i] + semadj[<<i, t>>] IN
       IF i \in sets THEN (IF v < 0 THEN 0 ELSE v) ELSE semval[i]]
  /\ semadj' = [p \in SemId \X Thread |-> IF p[2] = t THEN 0 ELSE semadj[p]]
  /\ NoHandles({t} \X Name)
  /\ vstep' = [vstep EXCEPT ![t] = "idle"]
  /\ SvReturn(t)
  /\ holding' = [i \in SemId |-> holding[i] \ {t}]
  /\ unlinked' = {h \in unlinked : h[1] # t}
  /\ late' = {p \in late : p[2] # t}
  /\ UNCHANGED <<keyfile, sets, sem_key, start, raised, users>>

-----------------------------------------------------------------------------
SvProceed(t) ==
  \/ get_ipc_key(t) \/ GetExclusive(t) \/ SetInitial(t) \/ InitialDown(t)
  \/ GetExisting(t) \/ StatExisting(t) \/ Abort(t)
  \/ Repost(t)
  \/ GetVal(t) \/ GetNCnt(t) \/ RmId(t) \/ Unlink(t)

SystemVNext ==
  \E t \in Thread :
    \/ SvProceed(t)
    \/ SemTake(t) \/ WaitFails(t)
    \/ Die(t)
    \/ \E n \in Name :
         \/ IPC_createMutex_sv(t, n)
         \/ \E v \in Asked[n] :
              \/ IPC_createSemaphore_sv(t, n, v)
              \/ \E m \in BOOLEAN : IPC_createEvent_sv(t, n, v, m)
         \/ \E l \in Limit :
              IPC_captureMutex_sv(t, n, l) \/ IPC_lockSemaphore_sv(t, n, l) \/ IPC_waitEvent_sv(t, n, l)
         \/ IPC_releaseMutex_sv(t, n) \/ IPC_unlockSemaphore_sv(t, n)
         \/ IPC_setEvent_sv(t, n) \/ IPC_resetEvent_sv(t, n)
         \/ IPC_deleteMutex_sv(t, n) \/ IPC_deleteSemaphore_sv(t, n) \/ IPC_deleteEvent_sv(t, n)

SystemVSpec == SystemVInit /\ [][SystemVNext]_systemVVars

-----------------------------------------------------------------------------
(* The sets that only mutexes and semaphores have used, and only in pairs  *)
(* of capture and release.                                                 *)
Paired == {i \in SemId : users[i] \cap EventName = {} /\ i \notin raised}

(* Such a set has its initial value, less one for each process that holds  *)
(* it, whoever dies at any point while it holds or waits: SEM_UNDO gives   *)
(* back exactly what was captured.  A set without an initial value, whose  *)
(* creator is on its way or died, lets nobody in.                          *)
TokensSurviveDeaths ==
  \A i \in sets \cap Paired : semval[i] + Cardinality(holding[i]) = start[i]

(* The delete of a mutex removes it under a process that holds it only if  *)
(* that process captured it after the delete had found it free.            *)
NotRemovedUnderHolder ==
  \A i \in SemId \ sets :
    users[i] \subseteq MutexName => \A t \in holding[i] : <<i, t>> \in late

(* Two handles of one name stand for one set, as long as the key file that *)
(* both were made with is there and the sets are.                          *)
SplitOnlyByUnlink ==
  \A n \in Name : \A t, u \in Thread :
    (/\ {sem_id[<<t, n>>], sem_id[<<u, n>>]} \subseteq sets
     /\ {<<t, n>>, <<u, n>>} \cap unlinked = {})
      => sem_id[<<t, n>>] = sem_id[<<u, n>>]

(* Two names share a set only if the key file was unlinked under one of    *)
(* the handles, and the key file of the other name got the inode.          *)
NamesShareOnlyAfterUnlink ==
  \A h, k \in Thread \X Name :
    (sem_id[h] \in sets /\ sem_id[k] = sem_id[h] /\ h[2] # k[2])
      => {h, k} \cap unlinked # {}

(* The values of the sets, over deaths at any point.                       *)
SystemVTokensSound == SystemVTypeOK /\ TokensSurviveDeaths

(* Key files, keys and sets: who shares a set, and who loses it.           *)
SystemVNamesSound == NotRemovedUnderHolder /\ SplitOnlyByUnlink /\ NamesShareOnlyAfterUnlink
=============================================================================
