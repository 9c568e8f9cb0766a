-------------------------------- MODULE IpcDriver --------------------------------
(***************************************************************************)
(* The life of the Linux driver's device file and of the objects in it:    *)
(* ipc_device_open and ipc_device_close of ipcmodule.c, the close_all of   *)
(* the four kinds, and on the other side IPC_init and IPC_cleanup of       *)
(* linux/libsrc/insys/linipc.cpp, which keep one descriptor for a process. *)
(*                                                                         *)
(* Objects are seen from afar, as a name of a kind and a reference count:  *)
(* the modules IpcMutex, IpcSem and IpcEvent have what is inside.  The     *)
(* last release of the device frees every object by force, so the question *)
(* here is who may still be using them.                                    *)
(***************************************************************************)
EXTENDS Integers, FiniteSets, Sequences

CONSTANTS
  Process,     (* processes that use the library                              *)
  Worker,      (* the threads of each process                                 *)
  File,        (* open file descriptions of the device                        *)
  Name,        (* names of objects                                            *)
  Kind,        (* the kinds of object that the processes create               *)
  NoFile,      (* no file                                                     *)
  NoObj,       (* no object                                                   *)
  Forks,       (* whether a process may fork                                  *)
  MaxRefs      (* bound of the model: references that an object may collect   *)

(* The order in which the last release frees the kinds. *)
CloseOrder == <<"sem", "mutex", "event", "shm">>

ASSUME DriverAssumption ==
  /\ IsFiniteSet(Process)
  /\ NoFile \notin File
  /\ Kind \subseteq {CloseOrder[i] : i \in 1..4}
  /\ NoObj \notin Kind \X Name
  /\ Forks \in BOOLEAN
  /\ MaxRefs \in Nat

Thread == Process \X Worker
ProcessOf(t) == t[1]
Obj == Kind \X Name

VARIABLES
  m_usage,        (* number of opens of the device                            *)
  closer,         (* the file whose release holds m_ipc_mutex                 *)
  closed,         (* how many kinds that release has freed                    *)
  files,          (* files that are open and not yet released                 *)
  fds,            (* the files that each process has a descriptor of          *)
  ipc_driver_fd,  (* the descriptor that the library of a process remembers   *)
  listed,         (* the objects that exist                                   *)
  owner_count,    (* their reference counts                                   *)
  holds,          (* <<p, o>>: p has a handle of o                            *)
  stale,          (* <<p, o>>: p has a handle of o, which was freed           *)
  pc,             (* what each thread is doing                                *)
  file,           (* the file that the system call of a thread works on       *)
  using           (* the object that the ioctl of a thread works on           *)

deviceVars == <<m_usage, closer, closed, files>>
libraryVars == <<fds, ipc_driver_fd>>
objectVars == <<listed, owner_count, holds, stale>>
threadVars == <<pc, file, using>>
vars == <<deviceVars, libraryVars, objectVars, threadVars>>

Step == {"idle", "open", "store", "close", "forget", "ioctl"}

TypeOK ==
  /\ m_usage \in Nat
  /\ closer \in File \cup {NoFile}
  /\ closed \in 0..4
  /\ files \subseteq File
  /\ fds \in [Process -> SUBSET File]
  /\ ipc_driver_fd \in [Process -> File \cup {NoFile}]
  /\ listed \subseteq Obj
  /\ owner_count \in [Obj -> Nat]
  /\ holds \subseteq Process \X Obj
  /\ stale \subseteq Process \X Obj
  /\ pc \in [Thread -> Step]
  /\ file \in [Thread -> File \cup {NoFile}]
  /\ using \in [Thread -> Obj \cup {NoObj}]

Init ==
  /\ m_usage = 0 /\ closer = NoFile /\ closed = 0 /\ files = {}
  /\ fds = [p \in Process |-> {}]
  /\ ipc_driver_fd = [p \in Process |-> NoFile]
  /\ listed = {} /\ owner_count = [o \in Obj |-> 0]
  /\ holds = {} /\ stale = {}
  /\ pc = [t \in Thread |-> "idle"]
  /\ file = [t \in Thread |-> NoFile]
  /\ using = [t \in Thread |-> NoObj]

Goto(t, from, to) ==
  /\ pc[t] = from
  /\ pc' = [pc EXCEPT ![t] = to]

(* The handles of p mean nothing to it any more. *)
Forget(p) ==
  /\ holds' = {h \in holds : h[1] # p}
  /\ stale' = {h \in stale : h[1] # p}

-----------------------------------------------------------------------------
(* Mutant: IPC_init opens again. *)
InitCheck_Always(t) ==
  /\ Goto(t, "idle", "open")
  /\ UNCHANGED <<deviceVars, libraryVars, objectVars, file, using>>

(* IPC_init: one descriptor for the process, if it has none yet.  The test *)
(* and the assignment are not protected against another thread.            *)
InitCheck(t) ==
  /\ ipc_driver_fd[ProcessOf(t)] = NoFile
  /\ Goto(t, "idle", "open")
  /\ UNCHANGED <<deviceVars, libraryVars, objectVars, file, using>>

(* Mutant: an open does not wait for a release that is under way. *)
InitOpen_Unlocked(t) ==
  \E f \in File \ files :
    /\ f # closer
    /\ Goto(t, "open", "store")
    /\ m_usage' = m_usage + 1
    /\ files' = files \cup {f}
    /\ fds' = [fds EXCEPT ![ProcessOf(t)] = @ \cup {f}]
    /\ file' = [file EXCEPT ![t] = f]
    /\ UNCHANGED <<closer, closed, ipc_driver_fd, objectVars, using>>

(* The open in IPC_init, with ipc_device_open under m_ipc_mutex. *)
InitOpen(t) ==
  \E f \in File \ files :
    /\ closer = NoFile
    /\ Goto(t, "open", "store")
    /\ m_usage' = m_usage + 1
    /\ files' = files \cup {f}
    /\ fds' = [fds EXCEPT ![ProcessOf(t)] = @ \cup {f}]
    /\ file' = [file EXCEPT ![t] = f]
    /\ UNCHANGED <<closer, closed, ipc_driver_fd, objectVars, using>>

InitStore(t) ==
  /\ Goto(t, "store", "idle")
  /\ ipc_driver_fd' = [ipc_driver_fd EXCEPT ![ProcessOf(t)] = file[t]]
  /\ file' = [file EXCEPT ![t] = NoFile]
  /\ UNCHANGED <<deviceVars, fds, objectVars, using>>

(* IPC_cleanup: close, then forget the descriptor.  The handles that the   *)
(* process did not delete keep their references in the driver.             *)
CleanupCheck(t) ==
  /\ ipc_driver_fd[ProcessOf(t)] # NoFile
  /\ Goto(t, "idle", "close")
  /\ UNCHANGED <<deviceVars, libraryVars, objectVars, file, using>>

CleanupClose(t) ==
  LET p == ProcessOf(t) IN
  /\ Goto(t, "close", "forget")
  /\ fds' = [fds EXCEPT ![p] = @ \ {ipc_driver_fd[p]}]
  /\ Forget(p)
  /\ UNCHANGED <<deviceVars, ipc_driver_fd, listed, owner_count, file, using>>

CleanupForget(t) ==
  /\ Goto(t, "forget", "idle")
  /\ ipc_driver_fd' = [ipc_driver_fd EXCEPT ![ProcessOf(t)] = NoFile]
  /\ UNCHANGED <<deviceVars, fds, objectVars, file, using>>

(* A process that ends, in good order or not, loses its descriptors; a     *)
(* thread that is inside an ioctl has to leave it first.                   *)
Exit(p) ==
  /\ \A t \in Thread : ProcessOf(t) = p => pc[t] # "ioctl"
  /\ fds[p] # {}
  /\ fds' = [fds EXCEPT ![p] = {}]
  /\ ipc_driver_fd' = [ipc_driver_fd EXCEPT ![p] = NoFile]
  /\ Forget(p)
  /\ pc' = [t \in Thread |-> IF ProcessOf(t) = p THEN "idle" ELSE pc[t]]
  /\ file' = [t \in Thread |-> IF ProcessOf(t) = p THEN NoFile ELSE file[t]]
  /\ UNCHANGED <<deviceVars, listed, owner_count, using>>

(* A thread of p forks: the child starts with its parent's descriptor and  *)
(* handles, and no open and no create tells the driver of it.              *)
Fork(p, q) ==
  /\ Forks
  /\ \E t \in Thread : ProcessOf(t) = p /\ pc[t] = "idle"
  /\ fds[p] # {} /\ fds[q] = {}
  /\ \A t \in Thread : ProcessOf(t) = q => pc[t] = "idle"
  /\ fds' = [fds EXCEPT ![q] = fds[p]]
  /\ ipc_driver_fd' = [ipc_driver_fd EXCEPT ![q] = ipc_driver_fd[p]]
  /\ holds' = holds \cup {<<q, h[2]>> : h \in {x \in holds : x[1] = p}}
  /\ stale' = stale \cup {<<q, h[2]>> : h \in {x \in stale : x[1] = p}}
  /\ UNCHANGED <<deviceVars, listed, owner_count, threadVars>>

-----------------------------------------------------------------------------
(* The ioctls work on the file that the library remembers, as long as the  *)
(* process still has it open.                                              *)
HasDriver(p) == ipc_driver_fd[p] \in fds[p]

(* Mutant: the reference of a second opener is not counted. *)
IoctlOpen_Uncounted(t, o) ==
  LET p == ProcessOf(t) IN
  /\ pc[t] = "idle" /\ HasDriver(p)
  /\ <<p, o>> \notin holds \cup stale
  /\ owner_count' = [owner_count EXCEPT ![o] = 1]
  /\ listed' = listed \cup {o}
  /\ holds' = holds \cup {<<p, o>>}
  /\ UNCHANGED <<deviceVars, libraryVars, stale, threadVars>>

(* An open of an object of any kind: found by name, or new. *)
IoctlOpen(t, o) ==
  LET p == ProcessOf(t) IN
  /\ pc[t] = "idle" /\ HasDriver(p)
  /\ <<p, o>> \notin holds \cup stale
  /\ owner_count[o] < MaxRefs
  /\ owner_count' = [owner_count EXCEPT ![o] = IF o \in listed THEN @ + 1 ELSE 1]
  /\ listed' = listed \cup {o}
  /\ holds' = holds \cup {<<p, o>>}
  /\ UNCHANGED <<deviceVars, libraryVars, stale, threadVars>>

(* A close, by a client whose other threads do not use the handle. *)
IoctlClose(t, o) ==
  LET p == ProcessOf(t) IN
  /\ pc[t] = "idle" /\ HasDriver(p)
  /\ <<p, o>> \in holds
  /\ \A u \in Thread : ProcessOf(u) = p => using[u] # o
  /\ owner_count' = [owner_count EXCEPT ![o] = @ - 1]
  /\ IF owner_count[o] = 1
     THEN /\ listed' = listed \ {o}
          /\ holds' = {h \in holds : h[2] # o}
          /\ stale' = stale \cup {h \in holds : h[2] = o /\ h[1] # p}
     ELSE /\ holds' = holds \ {<<p, o>>}
          /\ UNCHANGED <<listed, stale>>
  /\ UNCHANGED <<deviceVars, libraryVars, threadVars>>

(* Any other ioctl may stay in the driver for long. *)
IoctlEnter(t, o) ==
  /\ HasDriver(ProcessOf(t))
  /\ <<ProcessOf(t), o>> \in holds
  /\ Goto(t, "idle", "ioctl")
  /\ file' = [file EXCEPT ![t] = ipc_driver_fd[ProcessOf(t)]]
  /\ using' = [using EXCEPT ![t] = o]
  /\ UNCHANGED <<deviceVars, libraryVars, objectVars>>

IoctlReturn(t) ==
  /\ Goto(t, "ioctl", "idle")
  /\ file' = [file EXCEPT ![t] = NoFile]
  /\ using' = [using EXCEPT ![t] = NoObj]
  /\ UNCHANGED <<deviceVars, libraryVars, objectVars>>

-----------------------------------------------------------------------------
(* The kernel calls release when the last descriptor of a file is closed   *)
(* and no system call works on it.                                         *)
Unreferenced(f) ==
  /\ \A p \in Process : f \notin fds[p]
  /\ \A t \in Thread : file[t] = f => pc[t] # "ioctl"

(* Mutant: the objects go with the last but one release. *)
ReleaseBegin_OneLeft(f) ==
  /\ f \in files
  /\ Unreferenced(f)
  /\ closer = NoFile
  /\ closer' = f
  /\ closed' = IF m_usage <= 2 THEN 0 ELSE Len(CloseOrder)
  /\ m_usage' = m_usage - 1
  /\ files' = files \ {f}
  /\ UNCHANGED <<libraryVars, objectVars, threadVars>>

(* ipc_device_close takes m_ipc_mutex, counts down, and has kinds to free *)
(* only if it was the last.                                               *)
ReleaseBegin(f) ==
  /\ f \in files
  /\ Unreferenced(f)
  /\ closer = NoFile
  /\ closer' = f
  /\ closed' = IF m_usage = 1 THEN 0 ELSE Len(CloseOrder)
  /\ m_usage' = m_usage - 1
  /\ files' = files \ {f}
  /\ UNCHANGED <<libraryVars, objectVars, threadVars>>

(* Mutant: shared memory is left out. *)
ReleaseCloseAll_ShmKept(f) ==
  LET gone == {o \in listed : o[1] = CloseOrder[closed + 1] /\ o[1] # "shm"} IN
  /\ closer = f
  /\ closed < Len(CloseOrder)
  /\ closed' = closed + 1
  /\ listed' = listed \ gone
  /\ holds' = {h \in holds : h[2] \notin gone}
  /\ stale' = stale \cup {h \in holds : h[2] \in gone}
  /\ owner_count' = [o \in Obj |-> IF o \in gone THEN 0 ELSE owner_count[o]]
  /\ UNCHANGED <<m_usage, closer, files, libraryVars, threadVars>>

(* After the last release every object is freed, in use or not, one kind   *)
(* after the other.                                                        *)
ReleaseCloseAll(f) ==
  LET gone == {o \in listed : o[1] = CloseOrder[closed + 1]} IN
  /\ closer = f
  /\ closed < Len(CloseOrder)
  /\ closed' = closed + 1
  /\ listed' = listed \ gone
  /\ holds' = {h \in holds : h[2] \notin gone}
  /\ stale' = stale \cup {h \in holds : h[2] \in gone}
  /\ owner_count' = [o \in Obj |-> IF o \in gone THEN 0 ELSE owner_count[o]]
  /\ UNCHANGED <<m_usage, closer, files, libraryVars, threadVars>>

ReleaseEnd(f) ==
  /\ closer = f
  /\ closed = Len(CloseOrder)
  /\ closer' = NoFile
  /\ closed' = 0
  /\ UNCHANGED <<m_usage, files, libraryVars, objectVars, threadVars>>

Release(f) == ReleaseBegin(f) \/ ReleaseCloseAll(f) \/ ReleaseEnd(f)

Next ==
  \/ \E t \in Thread :
       \/ InitCheck(t) \/ InitOpen(t) \/ InitStore(t)
       \/ CleanupCheck(t) \/ CleanupClose(t) \/ CleanupForget(t)
       \/ \E o \in Obj : IoctlOpen(t, o) \/ IoctlClose(t, o) \/ IoctlEnter(t, o)
       \/ IoctlReturn(t)
  \/ \E p \in Process : Exit(p) \/ \E q \in Process : Fork(p, q)
  \/ \E f \in File : Release(f)

Spec == Init /\ [][Next]_vars

(* The kernel completes the releases that are due. *)
FairSpec == Spec /\ \A f \in File : WF_vars(Release(f))

-----------------------------------------------------------------------------
(* Nobody who has the device open loses an object under its handle: the    *)
(* forced close_all of one process's release never meets the objects of    *)
(* another process, not even of one that opens the device meanwhile.       *)
NoStaleHandle == stale = {}

(* No forced close_all frees an object that an ioctl is working on. *)
NoUseAfterCloseAll ==
  \A t \in Thread : pc[t] = "ioctl" => using[t] \in listed

(* Every handle has its reference; a process that died leaves references   *)
(* behind, never the other way round.                                      *)
ReferencesCoverHandles ==
  \A o \in listed : Cardinality({h \in holds : h[2] = o}) <= owner_count[o]

(* What dead processes left behind does not outlive the last user. *)
FreedWithLastUser ==
  m_usage = 0 /\ closer = NoFile => listed = {}

(* Once no process has the device open the objects go away, unless one     *)
(* opens it again.                                                         *)
EventuallyFreed ==
  (\A p \in Process : fds[p] = {}) ~> (listed = {} \/ \E p \in Process : fds[p] # {})

(* When no thread of a process is in IPC_init or IPC_cleanup, the library  *)
(* remembers every descriptor that it opened, so that IPC_cleanup closes   *)
(* it.  Two threads in IPC_init at once break this: the header asks for it *)
(* to be called once (include/ipclib.h:91).                                *)
NoForgottenDescriptor ==
  \A p \in Process :
    (\A t \in Thread : ProcessOf(t) = p => pc[t] = "idle")
      => fds[p] \subseteq {ipc_driver_fd[p]}

(* The references of the objects, over clients that die.                   *)
DriverReferencesSound == TypeOK /\ ReferencesCoverHandles
=============================================================================
