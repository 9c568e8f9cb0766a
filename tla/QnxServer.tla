------------------------------- MODULE QnxServer -------------------------------
(***************************************************************************)
(* The library on QNX: the functions of qnx/insys (mutexipc.cpp,           *)
(* semipc.cpp, eventipc.cpp, shmipc.cpp) send each call as a devctl to the *)
(* resource manager qnx/ipcdrv, which has one thread.  It takes the next   *)
(* request only when it has answered the last one, so that each request is *)
(* one step here; and a request that waits makes all the others wait.      *)
(*                                                                         *)
(* A thread stands for a client process, with one handle for each name.    *)
(* External, and assumed: a handler that returns an error makes the devctl *)
(* of its client fail.                                                     *)
(***************************************************************************)
EXTENDS Library, Sequences, SequencesExt, Int32

CONSTANTS
  Entry,         (* addresses that malloc can return                          *)
  NoEntry,       (* the NULL handle                                           *)
  NoRequest,     (* a client that waits for no answer                         *)
  Stops,         (* whether malloc may fail and the manager may be ended      *)
  MaxCount,      (* bound of the model: the value that sets and raises reach  *)
  MaxLost        (* bound of the model: references lost before the last open  *)

QName == Name \cup ShmName

ASSUME QnxAssumption ==
  /\ QName # {}
  /\ NoEntry \notin Entry
  /\ Stops \in BOOLEAN
  /\ MaxCount \in Nat
  /\ MaxLost \in Nat

VARIABLES
  server,        (* what the manager is doing                                 *)
  m_list,        (* the list of each kind of objects                          *)
  allocated,     (* entries between malloc and free                           *)
  entryName,     (* X_name of an entry                                        *)
  owners,        (* X_owner_count of an entry                                 *)
  sem,           (* the value of the semaphore of an entry                    *)
  cursor,        (* "i" of the loop of a close_all                            *)
  qhandle,       (* the handle of each client for each name                   *)
  request,       (* the call that each client waits to have answered          *)
  due_q,         (* history: created with and given from outside, less taken; *)
                 (* a mutex is created with 1, be it taken or not             *)
  got,           (* history: clients whose capture was answered with success, *)
                 (* or that made a mutex and asked for it as taken            *)
  deceived,      (* history: those of them that captured nothing              *)
  strayed_q,     (* history: mutexes that a client released without having    *)
                 (* them                                                      *)
  lost           (* history: references that no client has any more           *)

qEntries == <<m_list, allocated, entryName, owners, sem>>
qHistory == <<due_q, got, deceived, strayed_q, lost>>
qnxVars == <<server, qEntries, cursor, qhandle, request, qHistory>>

Kind == <<"sem", "mutex", "event", "shm">>
KindOf(n) == CASE n \in SemName -> "sem" [] n \in MutexName -> "mutex"
               [] n \in EventName -> "event" [] OTHER -> "shm"

Request ==
  [op : {"open"}, name : QName, value : Nat] \cup
  [op : {"lock"}, name : Name, limit : Limit] \cup
  [op : {"unlock", "close", "reset"}, name : QName]

QnxTypeOK ==
  /\ server \in {"up", "stuck", "crashed", "closing", "gone"}
  /\ m_list \in [Range(Kind) -> Seq(Entry)]
  /\ allocated \subseteq Entry
  /\ entryName \in [Entry -> QName]
  /\ owners \in [Entry -> Nat]
  /\ sem \in [Entry -> Nat]
  /\ cursor \in [kind : 1 .. 5, i : Nat]
  /\ qhandle \in [Thread \X QName -> Entry \cup {NoEntry}]
  /\ request \in [Thread -> Request \cup {NoRequest}]
  /\ due_q \in [Entry -> Nat]
  /\ got \in [Entry -> SUBSET Thread]
  /\ deceived \in [Entry -> SUBSET Thread]
  /\ strayed_q \subseteq Entry
  /\ lost \in [Entry -> Nat]

QnxInit ==
  /\ server = "up"
  /\ m_list = [k \in Range(Kind) |-> <<>>]
  /\ allocated = {}
  /\ entryName = [a \in Entry |-> CHOOSE n \in QName : TRUE]
  /\ owners = [a \in Entry |-> 0]
  /\ sem = [a \in Entry |-> 0]
  /\ cursor = [kind |-> 1, i |-> 0]
  /\ qhandle = [h \in Thread \X QName |-> NoEntry]
  /\ request = [t \in Thread |-> NoRequest]
  /\ due_q = [a \in Entry |-> 0]
  /\ got = [a \in Entry |-> {}]
  /\ deceived = [a \in Entry |-> {}]
  /\ strayed_q = {}
  /\ lost = [a \in Entry |-> 0]

-----------------------------------------------------------------------------
(* The library's side: a devctl.  A client creates a name once, and uses   *)
(* no handle that it has closed.  Once the manager has ended all calls     *)
(* fail and change nothing, and are not modelled.                          *)
Send(t, r) ==
  /\ server \in {"up", "stuck"}
  /\ request[t] = NoRequest
  /\ request' = [request EXCEPT ![t] = r]
  /\ UNCHANGED <<server, qEntries, cursor, qhandle, qHistory>>

SendOpen(t, n, v) ==
  /\ qhandle[<<t, n>>] = NoEntry
  /\ \A a \in allocated : entryName[a] = n => lost[a] < MaxLost
  /\ Send(t, [op |-> "open", name |-> n, value |-> v])

SendLock(t, n, l) ==
  /\ qhandle[<<t, n>>] # NoEntry
  /\ t \notin got[qhandle[<<t, n>>]]
  /\ Send(t, [op |-> "lock", name |-> n, limit |-> l])

SendPlain(t, n, o) ==
  /\ qhandle[<<t, n>>] # NoEntry
  /\ Send(t, [op |-> o, name |-> n])

(* A mutex that is asked for as taken is sent as 0; a semaphore is sent as *)
(* 1, whatever is asked for.                                               *)
qnx_createMutex(t, n, v) == n \in MutexName /\ SendOpen(t, n, IF v # 0 THEN 0 ELSE 1)
qnx_createSemaphore(t, n, v) == n \in SemName /\ SendOpen(t, n, 1)
qnx_createEvent(t, n, v) == n \in EventName /\ SendOpen(t, n, IF v # 0 THEN 0 ELSE 1)
qnx_createSharedMemory(t, n) == n \in ShmName /\ SendOpen(t, n, 0)

qnx_captureMutex(t, n, l) == n \in MutexName /\ SendLock(t, n, l)
qnx_lockSemaphore(t, n, l) == n \in SemName /\ SendLock(t, n, l)
qnx_waitEvent(t, n, l) == n \in EventName /\ SendLock(t, n, l)

(* Anybody may release a mutex, and raise a semaphore or an event. *)
Raises(t, n) ==
  /\ \E a \in Entry : a = qhandle[<<t, n>>] /\ (t \in got[a] \ deceived[a] \/ sem[a] < MaxCount)
  /\ SendPlain(t, n, "unlock")

qnx_releaseMutex(t, n) == n \in MutexName /\ Raises(t, n)
qnx_unlockSemaphore(t, n) == n \in SemName /\ Raises(t, n)
qnx_setEvent(t, n) == n \in EventName /\ Raises(t, n)
qnx_resetEvent(t, n) == n \in EventName /\ SendPlain(t, n, "reset")

qnx_deleteMutex(t, n) == n \in MutexName /\ SendPlain(t, n, "close")
qnx_deleteSemaphore(t, n) == n \in SemName /\ SendPlain(t, n, "close")
qnx_deleteEvent(t, n) == n \in EventName /\ SendPlain(t, n, "close")
qnx_deleteSharedMemory(t, n) == n \in ShmName /\ SendPlain(t, n, "close")

-----------------------------------------------------------------------------
(* io_devctl: the manager takes a request, and answers it.                 *)
Takes(t, o) ==
  /\ server = "up"
  /\ request[t] # NoRequest
  /\ request[t].op = o

Answer(t) == request' = [request EXCEPT ![t] = NoRequest]

NameIn(t) == request[t].name
EntryIn(t) == qhandle[<<t, NameIn(t)>>]
ListOf(t) == m_list[KindOf(NameIn(t))]

(* The search of a create. *)
Find(list, n) == {a \in Range(list) : entryName[a] = n}

OpenFound(t, a) ==
  /\ owners' = [owners EXCEPT ![a] = @ + 1]
  /\ qhandle' = [qhandle EXCEPT ![<<t, NameIn(t)>>] = a]
  /\ UNCHANGED <<server, m_list, allocated, entryName, sem, qHistory>>

(* An event starts signalled, whatever is asked for.  A mutex that starts  *)
(* at 0 (the manager makes it 1 and takes it) is its maker's.              *)
MadeTaken_q(t, start) == NameIn(t) \in MutexName /\ start = 0

OpenMade(t, a, start) ==
  /\ a \notin allocated
  /\ m_list' = [m_list EXCEPT ![KindOf(NameIn(t))] = Append(@, a)]
  /\ allocated' = allocated \cup {a}
  /\ entryName' = [entryName EXCEPT ![a] = NameIn(t)]
  /\ owners' = [owners EXCEPT ![a] = 1]
  /\ sem' = [sem EXCEPT ![a] = start]
  /\ qhandle' = [qhandle EXCEPT ![<<t, NameIn(t)>>] = a]
  /\ due_q' = [due_q EXCEPT ![a] = IF MadeTaken_q(t, start) THEN 1 ELSE start]
  /\ got' = [got EXCEPT ![a] = IF MadeTaken_q(t, start) THEN {t} ELSE {}]
  /\ deceived' = [deceived EXCEPT ![a] = {}]
  /\ strayed_q' = strayed_q \ {a}
  /\ lost' = [lost EXCEPT ![a] = 0]
  /\ UNCHANGED server

(* The four creates.  If malloc fails they dereference NULL. *)
Open(t, kind, start) ==
  /\ Takes(t, "open")
  /\ KindOf(NameIn(t)) = kind
  /\ \/ \E a \in Find(ListOf(t), NameIn(t)) : OpenFound(t, a)
     \/ /\ Find(ListOf(t), NameIn(t)) = {}
        /\ \/ \E a \in Entry : OpenMade(t, a, start)
           \/ /\ Stops
              /\ server' = "crashed"
              /\ UNCHANGED <<qEntries, qhandle, qHistory>>
  /\ Answer(t)
  /\ UNCHANGED cursor

qnx_sem_create(t) == Open(t, "sem", request[t].value)
qnx_mutex_create(t) == Open(t, "mutex", request[t].value)
qnx_event_create(t) == Open(t, "event", 1)
qnx_shm_open(t) == Open(t, "shm", 0)

-----------------------------------------------------------------------------
(* ms_to_timespec: "ms*1000*1000" wraps around, and a negative product     *)
(* becomes some five hundred years.  The nanoseconds of the sum are not    *)
(* normalised, so that a wait with a limit may fail at once.  A negative   *)
(* limit is none, for which 0 stands here; the 0 of a client is like any   *)
(* other that is short.                                                    *)
Nsec(l) == Times(Times(ToInt32(l), 1000), 1000)
Endless(l) == l = 0 \/ Negative(Nsec(l))

LockTakes(t) ==
  LET a == EntryIn(t) IN
  /\ sem[a] > 0
  /\ sem' = [sem EXCEPT ![a] = @ - 1]
  /\ IF NameIn(t) \in EventName
     THEN due_q' = [due_q EXCEPT ![a] = @ - 1] /\ UNCHANGED got
     ELSE got' = [got EXCEPT ![a] = @ \cup {t}] /\ UNCHANGED due_q
  /\ Answer(t)
  /\ UNCHANGED <<server, m_list, allocated, entryName, owners, deceived, strayed_q, lost>>

(* Nobody can post while the manager waits.  A wait without an end is for  *)
(* ever, and its request stays without an answer.                          *)
LockSticks(t) ==
  /\ sem[EntryIn(t)] = 0
  /\ Endless(request[t].limit)
  /\ server' = "stuck"
  /\ UNCHANGED <<qEntries, request, qHistory>>

(* One with an end ends with the timeout, or with EINVAL. *)
LockFails(t) ==
  /\ ~Endless(request[t].limit)
  /\ Answer(t)
  /\ UNCHANGED <<server, qEntries, qHistory>>

qnx_lock(t, kind) ==
  /\ Takes(t, "lock")
  /\ KindOf(NameIn(t)) = kind
  /\ UNCHANGED <<cursor, qhandle>>

(* A semaphore puts errno in the place of the -1 of a failed wait: it is   *)
(* positive, and io_devctl answers the client with success.                *)
LockDeceives(t) ==
  LET a == EntryIn(t) IN
  /\ ~Endless(request[t].limit)
  /\ got' = [got EXCEPT ![a] = @ \cup {t}]
  /\ deceived' = [deceived EXCEPT ![a] = @ \cup {t}]
  /\ Answer(t)
  /\ UNCHANGED <<server, qEntries, due_q, strayed_q, lost>>

(* Mutant: a mutex does so too. *)
qnx_mutex_lock_Errno(t) ==
  qnx_lock(t, "mutex") /\ (LockTakes(t) \/ LockSticks(t) \/ LockDeceives(t))

(* Mutant: a wait that fails is not answered. *)
qnx_mutex_lock_Silent(t) == qnx_lock(t, "mutex") /\ (LockTakes(t) \/ LockSticks(t))

qnx_mutex_lock(t) == qnx_lock(t, "mutex") /\ (LockTakes(t) \/ LockSticks(t) \/ LockFails(t))
qnx_event_lock(t) == qnx_lock(t, "event") /\ (LockTakes(t) \/ LockSticks(t) \/ LockFails(t))

qnx_sem_lock(t) == qnx_lock(t, "sem") /\ (LockTakes(t) \/ LockSticks(t) \/ LockDeceives(t))

-----------------------------------------------------------------------------
(* The three unlocks: a post, whoever asks for it. *)
Post_q(t, kind) ==
  LET a == EntryIn(t)  pays == t \in got[a] \ deceived[a] IN
  /\ Takes(t, "unlock")
  /\ KindOf(NameIn(t)) = kind
  /\ sem' = [sem EXCEPT ![a] = @ + 1]
  /\ due_q' = [due_q EXCEPT ![a] = IF pays THEN @ ELSE @ + 1]
  /\ got' = [got EXCEPT ![a] = @ \ {t}]
  /\ deceived' = [deceived EXCEPT ![a] = @ \ {t}]
  /\ strayed_q' = IF kind = "mutex" /\ ~pays THEN strayed_q \cup {a} ELSE strayed_q
  /\ Answer(t)
  /\ UNCHANGED <<server, m_list, allocated, entryName, owners, cursor, qhandle, lost>>

qnx_sem_unlock(t) == Post_q(t, "sem")
qnx_mutex_unlock(t) == Post_q(t, "mutex")
qnx_event_unlock(t) == Post_q(t, "event")

(* A handle that its client gives up without the entry losing a reference. *)
Forget(t) ==
  /\ lost' = [lost EXCEPT ![EntryIn(t)] = @ + 1]
  /\ qhandle' = [qhandle EXCEPT ![<<t, NameIn(t)>>] = NoEntry]
  /\ Answer(t)
  /\ UNCHANGED <<server, qEntries, cursor, due_q, got, deceived, strayed_q>>

(* Events and shared memory are looked for with the mark of a mutex: their *)
(* close and the reset of an event fail, and change nothing.               *)
qnx_event_reset(t) ==
  /\ Takes(t, "reset")
  /\ Answer(t)
  /\ UNCHANGED <<server, qEntries, cursor, qhandle, qHistory>>

qnx_event_close(t) == Takes(t, "close") /\ NameIn(t) \in EventName /\ Forget(t)
qnx_shm_close(t) == Takes(t, "close") /\ NameIn(t) \in ShmName /\ Forget(t)

(* Mutant: the entry is freed and stays on its list. *)
Drop_Listed(t) ==
  LET a == EntryIn(t) IN
  /\ owners' = [owners EXCEPT ![a] = @ - 1]
  /\ allocated' = IF owners[a] = 1 THEN allocated \ {a} ELSE allocated
  /\ qhandle' = [qhandle EXCEPT ![<<t, NameIn(t)>>] = NoEntry]
  /\ Answer(t)
  /\ UNCHANGED <<server, m_list, entryName, sem, cursor, qHistory>>

(* The close of a mutex and of a semaphore: the entry goes with its last   *)
(* reference; before that the close is answered with -EBUSY.               *)
Drop(t) ==
  LET a == EntryIn(t) IN
  /\ owners' = [owners EXCEPT ![a] = @ - 1]
  /\ IF owners[a] = 1
     THEN /\ allocated' = allocated \ {a}
          /\ m_list' = [m_list EXCEPT ![KindOf(NameIn(t))] = RemoveFirst(@, a)]
     ELSE UNCHANGED <<allocated, m_list>>
  /\ qhandle' = [qhandle EXCEPT ![<<t, NameIn(t)>>] = NoEntry]
  /\ Answer(t)
  /\ UNCHANGED <<server, entryName, sem, cursor, qHistory>>

qnx_mutex_close(t) == Takes(t, "close") /\ NameIn(t) \in MutexName /\ Drop(t)
(* This one posts the lock of the list where it should wait for it, which  *)
(* means nothing to a single thread.                                       *)
qnx_sem_close(t) == Takes(t, "close") /\ NameIn(t) \in SemName /\ Drop(t)

-----------------------------------------------------------------------------
(* A client dies, waiting for an answer or not; the manager learns nothing *)
(* of it, and what the client had stays referenced and captured.           *)
QnxDie(t) ==
  /\ server \in {"up", "stuck"}
  /\ qhandle' = [h \in Thread \X QName |-> IF h[1] = t THEN NoEntry ELSE qhandle[h]]
  /\ lost' = [a \in Entry |-> lost[a] + Cardinality({n \in QName : qhandle[<<t, n>>] = a})]
  /\ due_q' = [a \in Entry |-> IF t \in got[a] \ deceived[a] THEN due_q[a] - 1 ELSE due_q[a]]
  /\ got' = [a \in Entry |-> got[a] \ {t}]
  /\ deceived' = [a \in Entry |-> deceived[a] \ {t}]
  /\ request' = IF server = "up" THEN [request EXCEPT ![t] = NoRequest] ELSE request
  /\ UNCHANGED <<server, qEntries, cursor, strayed_q>>

(* The end of the manager: remove_instance goes through the four lists,    *)
(* each of whose loops erases the element at "i" and counts on.            *)
remove_instance ==
  /\ server = "up"
  /\ Stops
  /\ server' = "closing"
  /\ UNCHANGED <<qEntries, cursor, qhandle, request, qHistory>>

CloseAll(kind) ==
  LET list == m_list[kind] IN
  /\ server = "closing"
  /\ cursor.kind <= 4
  /\ Kind[cursor.kind] = kind
  /\ IF cursor.i < Len(list)
     THEN /\ m_list' = [m_list EXCEPT ![kind] = RemoveAt(list, cursor.i + 1)]
          /\ allocated' = allocated \ {list[cursor.i + 1]}
          /\ cursor' = [cursor EXCEPT !.i = @ + 1]
     ELSE /\ cursor' = [kind |-> cursor.kind + 1, i |-> 0]
          /\ UNCHANGED <<m_list, allocated>>
  /\ UNCHANGED <<server, entryName, owners, sem, qhandle, request, qHistory>>

qnx_sem_close_all == CloseAll("sem")
qnx_mutex_close_all == CloseAll("mutex")
qnx_event_close_all == CloseAll("event")
qnx_shm_close_all == CloseAll("shm")

(* What the loops passed over is on the lists, which are cleared, and the  *)
(* process exits.                                                          *)
ManagerExits ==
  /\ server = "closing"
  /\ cursor.kind = 5
  /\ server' = "gone"
  /\ m_list' = [k \in Range(Kind) |-> <<>>]
  /\ UNCHANGED <<allocated, entryName, owners, sem, cursor, qhandle, request, qHistory>>

-----------------------------------------------------------------------------
Handle(t) ==
  \/ qnx_sem_create(t) \/ qnx_mutex_create(t) \/ qnx_event_create(t) \/ qnx_shm_open(t)
  \/ qnx_sem_lock(t) \/ qnx_mutex_lock(t) \/ qnx_event_lock(t)
  \/ qnx_sem_unlock(t) \/ qnx_mutex_unlock(t) \/ qnx_event_unlock(t)
  \/ qnx_sem_close(t) \/ qnx_mutex_close(t) \/ qnx_event_close(t) \/ qnx_shm_close(t)
  \/ qnx_event_reset(t)

Call(t) ==
  \/ \E n \in Name :
       \/ \E v \in Asked[n] :
            qnx_createMutex(t, n, v) \/ qnx_createSemaphore(t, n, v) \/ qnx_createEvent(t, n, v)
       \/ \E l \in Limit :
            qnx_captureMutex(t, n, l) \/ qnx_lockSemaphore(t, n, l) \/ qnx_waitEvent(t, n, l)
       \/ qnx_releaseMutex(t, n) \/ qnx_unlockSemaphore(t, n)
       \/ qnx_setEvent(t, n) \/ qnx_resetEvent(t, n)
       \/ qnx_deleteMutex(t, n) \/ qnx_deleteSemaphore(t, n) \/ qnx_deleteEvent(t, n)
  \/ \E n \in ShmName : qnx_createSharedMemory(t, n) \/ qnx_deleteSharedMemory(t, n)

Closing ==
  \/ remove_instance
  \/ qnx_sem_close_all \/ qnx_mutex_close_all \/ qnx_event_close_all \/ qnx_shm_close_all
  \/ ManagerExits

QnxNext ==
  \/ \E t \in Thread : Call(t) \/ Handle(t) \/ QnxDie(t)
  \/ Closing

QnxSpec == QnxInit /\ [][QnxNext]_qnxVars

(* The manager goes on as long as it can, and the kernel hands it the      *)
(* requests of equal priority in the order they came.                      *)
QnxFairness == \A t \in Thread : WF_qnxVars(Handle(t))

-----------------------------------------------------------------------------
(* Lists hold what is allocated, so that a search touches nothing that was *)
(* freed, also while close_all erases and counts at once.                  *)
ListsHoldAllocated == \A k \in Range(Kind) : Range(m_list[k]) \subseteq allocated

(* A handle of a client stands for an allocated entry of its name, until   *)
(* the manager ends.                                                       *)
QnxNoUseAfterFree ==
  server \in {"up", "stuck"} =>
    \A h \in Thread \X QName :
      qhandle[h] # NoEntry => qhandle[h] \in allocated /\ entryName[qhandle[h]] = h[2]

(* The references of an entry are the handles of its clients and those     *)
(* that died with a client or with the close of an event or shared memory. *)
QnxReferencesExact ==
  \A a \in allocated :
    owners[a] = Cardinality({h \in Thread \X QName : qhandle[h] = a}) + lost[a]

(* Posts and captures balance, over clients that die, waits that fail and  *)
(* semaphores that answer a timeout with success.                          *)
QnxTokensConserved ==
  \A a \in allocated : sem[a] + Cardinality(got[a] \ deceived[a]) = due_q[a]

(* One client holds a mutex, its maker included when it asked for it as    *)
(* taken, until a client releases it that does not; and only a semaphore   *)
(* tells its client falsely that it was captured.                          *)
QnxMutualExclusion ==
  \A a \in allocated :
    /\ entryName[a] \in MutexName /\ a \notin strayed_q => Cardinality(got[a]) <= 1
    /\ entryName[a] \notin SemName => deceived[a] = {}

(* A limit of less than 2148 ms never holds up the manager. *)
StuckOnlyByLongWait ==
  server = "stuck" =>
    \E t \in Thread :
      /\ request[t] # NoRequest
      /\ request[t].op = "lock"
      /\ request[t].limit = 0 \/ request[t].limit >= 2148

(* Every request is answered, unless the manager ended or waits for ever   *)
(* for what only a request could release.                                  *)
RequestsAnswered ==
  \A t \in Thread :
    request[t] # NoRequest ~> (request[t] = NoRequest \/ server # "up")

(* The entries of the manager: on their lists, referenced and not freed    *)
(* too early, also when clients die and the manager ends.                  *)
QnxEntriesSound ==
  QnxTypeOK /\ ListsHoldAllocated /\ QnxNoUseAfterFree /\ QnxReferencesExact

(* Waits and posts: nothing is made up, a mutex has one holder, and what   *)
(* holds up the manager is a wait that its client meant to be long.        *)
QnxWaitsSound == QnxTokensConserved /\ QnxMutualExclusion /\ StuckOnlyByLongWait
=============================================================================
