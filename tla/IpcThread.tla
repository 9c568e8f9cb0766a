-------------------------------- MODULE IpcThread --------------------------------
(***************************************************************************)
(* Threads: linux/libsrc/threadipc.cpp and qnx/threadipc.cpp.              *)
(*                                                                         *)
(* A handle has the pthread_t of its thread.  IPC_waitThread joins the     *)
(* thread and IPC_deleteThread joins it again, as the test of the library  *)
(* does (libtest/threadtest/thread_test.cpp:68); after the first join the  *)
(* system may give the pthread_t to another thread.  A create may take the *)
(* semaphore of the new thread, the gate at which it waits to be started.  *)
(*                                                                         *)
(* External: a thread made by IPC_createThreadEx waits at its gate, and    *)
(* raises it again, before it does anything else; the join of a pthread_t  *)
(* that nobody has is ESRCH.  Left out: the wait of no handle;             *)
(* thread-local storage, which is the system's; and builds for kernel 2.4, *)
(* where a join has no limit whatever the timeout.                         *)
(***************************************************************************)
EXTENDS Integers, FiniteSets

CONSTANTS
  Caller,        (* threads that call the library                             *)
  Place,         (* variables that hold a handle of a thread                  *)
  NoPlace,       (* no such variable                                          *)
  Tid,           (* values of pthread_t                                       *)
  NoTid,         (* no handle                                                 *)
  BadTid,        (* the pthread_t of a create that failed unnoticed           *)
  Gate,          (* semaphores in the parameters of threads                   *)
  NoGate,        (* a thread that was created without                         *)
  JoinLimit,     (* timeouts of waits                                         *)
  MaxGate,       (* bound of the model: the value that starts reach           *)
  System         (* which systems there are: Linux with its POSIX or System V *)
                 (* semaphores, Linux with those of the driver, QNX           *)

ASSUME ThreadAssumption ==
  /\ NoPlace \notin Place
  /\ NoTid \notin Tid /\ BadTid \notin Tid /\ NoTid # BadTid
  /\ NoGate \notin Gate
  /\ JoinLimit \subseteq Int
  /\ MaxGate \in Nat \ {0}
  /\ System \subseteq {"linux", "driver", "qnx"}

VARIABLES
  system,        (* which of the systems this is                              *)
  ipc_thread,    (* ipc_descr.ipc_thread of the handle in each place          *)
  ipc_gate,      (* the semaphore in its ipc_data                             *)
  gate,          (* the value of each semaphore                               *)
  tstate,        (* what the thread of a pthread_t does                       *)
  cancelled,     (* threads that a stop has cancelled                         *)
  cstep,         (* the next step of each caller                              *)
  cplace,        (* the handle that its call works on                         *)
  climit,        (* the timeout of its wait                                   *)
  deletes,       (* callers whose join is that of a delete                    *)
  owner,         (* history: the handle that a thread was made for            *)
  paused,        (* history: handles whose thread was created paused          *)
  started,       (* history: handles that were started since                  *)
  joined,        (* history: handles whose thread was joined                  *)
  robbed,        (* history: handles whose thread was joined by another       *)
  astray,        (* history: gates that a signal or a second start left up    *)
  crowded,       (* history: gates that a paused create found down, and did   *)
                 (* not wait for                                              *)
  shut           (* history: gates left down, by a create that failed or by   *)
                 (* the end of a handle that was not started                  *)

threadHandles == <<system, ipc_thread, ipc_gate>>
threadsOf == <<gate, tstate, cancelled>>
callOf == <<cstep, cplace, climit, deletes>>
gateHistory == <<paused, started, astray, crowded, shut>>
threadHistory == <<owner, joined, robbed, gateHistory>>
threadVars == <<threadHandles, threadsOf, callOf, threadHistory>>

ThreadTypeOK ==
  /\ system \in System
  /\ ipc_thread \in [Place -> Tid \cup {NoTid, BadTid}]
  /\ ipc_gate \in [Place -> Gate \cup {NoGate}]
  /\ gate \in [Gate -> Nat]
  /\ tstate \in [Tid -> {"free", "gate", "body", "ended"}]
  /\ cancelled \subseteq Tid
  /\ cstep \in [Caller -> {"idle", "lock", "spawn", "join"}]
  /\ cplace \in [Caller -> Place \cup {NoPlace}]
  /\ climit \in [Caller -> JoinLimit \cup {-1}]
  /\ deletes \subseteq Caller
  /\ owner \in [Tid -> Place \cup {NoPlace}]
  /\ paused \subseteq Place /\ started \subseteq Place
  /\ joined \subseteq Place /\ robbed \subseteq Place
  /\ astray \subseteq Gate /\ crowded \subseteq Gate /\ shut \subseteq Gate

ThreadInit ==
  /\ system \in System
  /\ ipc_thread = [s \in Place |-> NoTid]
  /\ ipc_gate = [s \in Place |-> NoGate]
  /\ gate = [g \in Gate |-> 1]
  /\ tstate = [i \in Tid |-> "free"]
  /\ cancelled = {}
  /\ cstep = [c \in Caller |-> "idle"]
  /\ cplace = [c \in Caller |-> NoPlace]
  /\ climit = [c \in Caller |-> -1]
  /\ deletes = {}
  /\ owner = [i \in Tid |-> NoPlace]
  /\ paused = {} /\ started = {} /\ joined = {} /\ robbed = {}
  /\ astray = {} /\ crowded = {} /\ shut = {}

-----------------------------------------------------------------------------
on_qnx == system = "qnx"

(* Whether IPC_lockSemaphore with a timeout of 0 waits: it does without a  *)
(* limit on POSIX and System V semaphores; ipc_sem_lock of the driver and  *)
(* the manager of QNX give up at once.                                     *)
ZeroWaits == system = "linux"

CGoto(c, from, to) ==
  /\ cstep[c] = from
  /\ cstep' = [cstep EXCEPT ![c] = to]

CReturn(c) ==
  /\ cplace' = [cplace EXCEPT ![c] = NoPlace]
  /\ climit' = [climit EXCEPT ![c] = -1]
  /\ deletes' = deletes \ {c}

Vacant(s) == ipc_thread[s] = NoTid /\ \A c \in Caller : cplace[c] # s

(* delete_ipc_object.  The gate of a thread that was not started stays     *)
(* down.                                                                   *)
FreeHandle(s) ==
  /\ ipc_thread' = [ipc_thread EXCEPT ![s] = NoTid]
  /\ ipc_gate' = [ipc_gate EXCEPT ![s] = NoGate]
  /\ shut' = IF s \in paused \ started THEN shut \cup {ipc_gate[s]} ELSE shut
  /\ paused' = paused \ {s}
  /\ started' = started \ {s}

(* pthread_create, joinable. *)
Spawned(s, stage) ==
  \E i \in Tid :
    /\ tstate[i] = "free"
    /\ tstate' = [tstate EXCEPT ![i] = stage]
    /\ owner' = [owner EXCEPT ![i] = s]
    /\ ipc_thread' = [ipc_thread EXCEPT ![s] = i]

(* On QNX a create looks for a negative result where an error is positive: *)
(* it returns a handle of no thread. *)
NotSpawned_qnx(s) ==
  /\ on_qnx
  /\ ipc_thread' = [ipc_thread EXCEPT ![s] = BadTid]
  /\ UNCHANGED <<tstate, owner>>

Create(c, s) ==
  /\ cstep[c] = "idle"
  /\ Vacant(s)
  /\ UNCHANGED <<system, ipc_gate, gate, cancelled, callOf, joined, robbed, gateHistory>>

(* A create of the plain kind that fails leaves nothing. *)
IPC_createThread(c, s) == ~on_qnx /\ Create(c, s) /\ Spawned(s, "body")
qnx_createThread(c, s) == on_qnx /\ Create(c, s) /\ (Spawned(s, "body") \/ NotSpawned_qnx(s))

(* Mutant: the thread is there before its gate is taken. *)
CreateEx_SpawnFirst(c, s, g, p) ==
  /\ CGoto(c, "idle", "idle")
  /\ Vacant(s)
  /\ ipc_gate' = [ipc_gate EXCEPT ![s] = g]
  /\ paused' = IF p THEN paused \cup {s} ELSE paused
  /\ Spawned(s, "gate")
  /\ UNCHANGED <<system, gate, cancelled, cplace, climit, deletes, joined, robbed, started, astray, crowded, shut>>

(* The extended create: a paused one takes the gate first. *)
CreateEx(c, s, g, p) ==
  /\ CGoto(c, "idle", IF p THEN "lock" ELSE "spawn")
  /\ Vacant(s)
  /\ ipc_gate' = [ipc_gate EXCEPT ![s] = g]
  /\ paused' = IF p THEN paused \cup {s} ELSE paused
  /\ cplace' = [cplace EXCEPT ![c] = s]
  /\ UNCHANGED <<system, ipc_thread, threadsOf, climit, deletes, owner, joined, robbed, started, astray, crowded, shut>>

IPC_createThreadEx(c, s, g, p) == ~on_qnx /\ CreateEx(c, s, g, p)
qnx_createThreadEx(c, s, g, p) == on_qnx /\ CreateEx(c, s, g, p)

(* IPC_lockSemaphore with a timeout of 0, whose result is not looked at.   *)
(* If the gate is down the create waits for it, and goes on without it     *)
(* after a signal; or it does not wait, and goes on without it at once.    *)
LockGate(c) ==
  LET g == ipc_gate[cplace[c]] IN
  /\ CGoto(c, "lock", "spawn")
  /\ \/ /\ gate[g] > 0
        /\ gate' = [gate EXCEPT ![g] = @ - 1]
        /\ UNCHANGED <<astray, crowded>>
     \/ /\ gate[g] = 0
        /\ IF ZeroWaits
           THEN astray' = astray \cup {g} /\ UNCHANGED crowded
           ELSE crowded' = crowded \cup {g} /\ UNCHANGED astray
        /\ UNCHANGED gate
  /\ UNCHANGED <<threadHandles, tstate, cancelled, cplace, climit, deletes, owner, joined, robbed,
                 paused, started, shut>>

SpawnEx(c) ==
  LET s == cplace[c] IN
  /\ CGoto(c, "spawn", "idle")
  /\ Spawned(s, "gate") \/ NotSpawned_qnx(s)
  /\ CReturn(c)
  /\ UNCHANGED <<system, ipc_gate, gate, cancelled, joined, robbed, gateHistory>>

(* If it fails on Linux the handle is freed, and the gate stays down. *)
SpawnExFails(c) ==
  LET s == cplace[c] IN
  /\ ~on_qnx
  /\ CGoto(c, "spawn", "idle")
  /\ FreeHandle(s)
  /\ CReturn(c)
  /\ UNCHANGED <<system, threadsOf, owner, joined, robbed, astray, crowded>>

-----------------------------------------------------------------------------
(* The threads. *)
ThreadPasses(i) ==
  /\ tstate[i] = "gate"
  /\ gate[ipc_gate[owner[i]]] > 0
  /\ tstate' = [tstate EXCEPT ![i] = "body"]
  /\ UNCHANGED <<threadHandles, gate, cancelled, callOf, threadHistory>>

(* It ends by itself, or at a wait after it was cancelled. *)
ThreadEnds(i) ==
  /\ tstate[i] = "body" \/ (tstate[i] = "gate" /\ i \in cancelled)
  /\ tstate' = [tstate EXCEPT ![i] = "ended"]
  /\ UNCHANGED <<threadHandles, gate, cancelled, callOf, threadHistory>>

(* A start raises the gate in any case: of a thread that was not paused,   *)
(* or was started before, it lets one that is created later run at once.   *)
Start(c, s) ==
  LET g == ipc_gate[s] IN
  /\ cstep[c] = "idle"
  /\ ipc_thread[s] # NoTid
  /\ g # NoGate
  /\ gate[g] < MaxGate
  /\ gate' = [gate EXCEPT ![g] = @ + 1]
  /\ started' = started \cup {s}
  /\ astray' = IF s \in paused \ started THEN astray ELSE astray \cup {g}
  /\ UNCHANGED <<threadHandles, tstate, cancelled, callOf, owner, joined, robbed, paused, crowded,
                 shut>>

IPC_startThread(c, s) == ~on_qnx /\ Start(c, s)
qnx_startThread(c, s) == on_qnx /\ Start(c, s)

(* pthread_cancel of whatever thread has the pthread_t. *)
Stop(c, s) ==
  LET i == ipc_thread[s] IN
  /\ cstep[c] = "idle"
  /\ i \in Tid
  /\ tstate[i] \in {"gate", "body"}
  /\ cancelled' = cancelled \cup {i}
  /\ UNCHANGED <<threadHandles, gate, tstate, callOf, threadHistory>>

IPC_stopThread(c, s) == ~on_qnx /\ Stop(c, s)
qnx_stopThread(c, s) == on_qnx /\ Stop(c, s)

-----------------------------------------------------------------------------
Joining(i) == {c \in Caller : cstep[c] = "join" /\ ipc_thread[cplace[c]] = i}

JoinEnter(c, s, l) ==
  /\ ipc_thread[s] \in Tid
  /\ tstate[ipc_thread[s]] # "free"
  /\ Joining(ipc_thread[s]) = {}
  /\ CGoto(c, "idle", "join")
  /\ cplace' = [cplace EXCEPT ![c] = s]
  /\ climit' = [climit EXCEPT ![c] = l]
  /\ UNCHANGED <<threadHandles, threadsOf, threadHistory>>

(* IPC_waitThread.  A join of a thread that nobody has, or that another    *)
(* is joining, is an error, and changes nothing.  A wait of 0 ms is        *)
(* endless on QNX.                                                         *)
IPC_waitThread(c, s, l) ==
  /\ ~on_qnx
  /\ JoinEnter(c, s, l)
  /\ UNCHANGED deletes

qnx_waitThread(c, s, l) ==
  /\ on_qnx
  /\ JoinEnter(c, s, IF l <= 0 THEN -1 ELSE l)
  /\ UNCHANGED deletes

(* IPC_deleteThread: a join without limit; of a thread that nobody has, it *)
(* frees the handle at once, and of one that is being joined it fails and  *)
(* keeps the handle.                                                       *)
NobodyHas(s) ==
  /\ ipc_thread[s] # NoTid
  /\ ipc_thread[s] = BadTid \/ \E i \in Tid : i = ipc_thread[s] /\ tstate[i] = "free"

Delete(c, s) ==
  \/ JoinEnter(c, s, -1) /\ deletes' = deletes \cup {c}
  \/ /\ cstep[c] = "idle"
     /\ NobodyHas(s)
     /\ FreeHandle(s)
     /\ joined' = joined \ {s} /\ robbed' = robbed \ {s}
     /\ UNCHANGED <<system, threadsOf, callOf, owner, astray, crowded>>

IPC_deleteThread(c, s) == ~on_qnx /\ Delete(c, s)
qnx_deleteThread(c, s) == on_qnx /\ Delete(c, s)

(* The thread has ended: its pthread_t is free, whoever it was made for. *)
JoinDone(c) ==
  LET s == cplace[c]  i == ipc_thread[s] IN
  /\ CGoto(c, "join", "idle")
  /\ tstate[i] = "ended"
  /\ tstate' = [tstate EXCEPT ![i] = "free"]
  /\ owner' = [owner EXCEPT ![i] = NoPlace]
  /\ cancelled' = cancelled \ {i}
  /\ joined' = IF c \in deletes THEN joined \ {s} ELSE joined \cup {s}
  /\ robbed' = (robbed \cup {owner[i]}) \ {s}
  /\ IF c \in deletes THEN FreeHandle(s) ELSE UNCHANGED <<ipc_thread, ipc_gate, shut, paused, started>>
  /\ CReturn(c)
  /\ UNCHANGED <<system, gate, astray, crowded>>

(* The time is over, or EINVAL at once: the milliseconds are added to the  *)
(* nanoseconds of the clock without a carry.  The 0 has no such error.     *)
JoinExpires(c) ==
  /\ CGoto(c, "join", "idle")
  /\ climit[c] >= 0
  /\ climit[c] > 0 \/ tstate[ipc_thread[cplace[c]]] # "ended"
  /\ CReturn(c)
  /\ UNCHANGED <<threadHandles, threadsOf, threadHistory>>

-----------------------------------------------------------------------------
CallerProceeds(c) == LockGate(c) \/ SpawnEx(c) \/ SpawnExFails(c) \/ JoinDone(c) \/ JoinExpires(c)

ThreadNext ==
  \/ \E c \in Caller :
       \/ CallerProceeds(c)
       \/ \E s \in Place :
            \/ IPC_createThread(c, s) \/ qnx_createThread(c, s)
            \/ \E g \in Gate, p \in BOOLEAN : IPC_createThreadEx(c, s, g, p) \/ qnx_createThreadEx(c, s, g, p)
            \/ IPC_startThread(c, s) \/ qnx_startThread(c, s)
            \/ IPC_stopThread(c, s) \/ qnx_stopThread(c, s)
            \/ \E l \in JoinLimit : IPC_waitThread(c, s, l) \/ qnx_waitThread(c, s, l)
            \/ IPC_deleteThread(c, s) \/ qnx_deleteThread(c, s)
  \/ \E i \in Tid : ThreadPasses(i) \/ ThreadEnds(i)

ThreadSpec == ThreadInit /\ [][ThreadNext]_threadVars

-----------------------------------------------------------------------------
(* Until it is joined a handle stands for the thread that was made for it, *)
(* running or ended, so that waits and stops reach that thread and no      *)
(* other: unless a second join through another handle, whose pthread_t the *)
(* thread had got, has taken it.                                           *)
HandlesKeepTheirThreads ==
  \A s \in Place :
    (ipc_thread[s] \in Tid /\ s \notin joined \cup robbed) =>
      owner[ipc_thread[s]] = s /\ tstate[ipc_thread[s]] # "free"

(* A thread never outlives its handle: whatever joins fail, a delete frees *)
(* a handle only when its thread has ended.                                *)
ThreadsHaveHandles ==
  \A i \in Tid : tstate[i] # "free" => ipc_thread[owner[i]] = i

(* A thread that was created paused does nothing before it is started,     *)
(* unless its gate was left up by a start too many or by a signal, or a    *)
(* paused create found it down and did not wait for it: with the driver    *)
(* and on QNX one start then lets two threads run.  Where the create waits *)
(* it makes no difference that several threads have one gate.              *)
PausedUntilStarted ==
  /\ \A i \in Tid :
       LET s == owner[i]  g == ipc_gate[s] IN
       tstate[i] = "body" /\ s \in paused /\ s \notin started => g \in astray \cup crowded
  /\ ZeroWaits => crowded = {}

(* A gate is down only between a paused create and its start, or after a   *)
(* create that failed or a delete before the start: a create that waits    *)
(* for a gate waits for that.                                              *)
GateDownOnlyForPaused ==
  \A g \in Gate :
    gate[g] = 0 =>
      \/ g \in shut
      \/ \E s \in paused \ started : ipc_gate[s] = g

(* Handles, their threads and the gates of those that are created paused.  *)
ThreadsSound ==
  ThreadTypeOK /\ HandlesKeepTheirThreads /\ ThreadsHaveHandles
  /\ PausedUntilStarted /\ GateDownOnlyForPaused
=============================================================================
