--------------------------------- MODULE IpcShm ---------------------------------
(***************************************************************************)
(* Named shared memory: linux/libsrc/insys/shmipc.cpp on top of the        *)
(* entries of linux/ipcdrv/ipcshm.c.                                       *)
(*                                                                         *)
(* The memory is a POSIX shared memory object; the driver only counts who  *)
(* uses the name, so that the last user unlinks it.  Counting and          *)
(* unlinking are two system calls, creating and sizing are up to five, and *)
(* nothing holds them together.                                            *)
(***************************************************************************)
EXTENDS IpcRegistry

CONSTANTS
  Segment,     (* POSIX shared memory objects                                 *)
  NoSeg,       (* none                                                        *)
  Size,        (* sizes that clients ask for                                  *)
  Overlap,     (* whether a delete may run while others create or open        *)
  Faults       (* whether shm_open, ftruncate and mmap may fail               *)

ASSUME ShmAssumption ==
  /\ NoSeg \notin Segment
  /\ Size \subseteq Nat \ {0}
  /\ Overlap \in BOOLEAN
  /\ Faults \in BOOLEAN

VARIABLES
  linked,      (* the object that /dev/shm has under each name                *)
  st_size,     (* the size of each object                                     *)
  ipc_shm,     (* the object that each handle stands for                      *)
  fdOpen,      (* whether the descriptor in the handle is open                *)
  ipc_size,    (* the size in the handle                                      *)
  ipc_data,    (* whether the handle is mapped                                *)
  pc,          (* the next step of each thread                                *)
  slot,        (* the handle that the call of each thread makes or deletes    *)
  name,        (* the name that it works on                                   *)
  size,        (* the size that it was asked for                              *)
  orphaned     (* history: names whose object may stay behind, because a      *)
               (* create failed to size it or has no entry in the driver      *)

kernelVars == <<linked, st_size>>
handleVars == <<ipc_shm, fdOpen, ipc_size, ipc_data>>
callVars == <<slot, name, size>>
vars == <<registryVars, kernelVars, handleVars, callVars, pc, orphaned>>

CreateStep == {"create", "reopen", "fstat", "ftruncate", "open", "measure", "unregister"}
Step == {"idle", "unlink"} \cup CreateStep

TypeOK ==
  /\ RegistryTypeOK
  /\ linked \in [Name -> Segment \cup {NoSeg}]
  /\ st_size \in [Segment -> Nat]
  /\ ipc_shm \in [Slot -> Segment \cup {NoSeg}]
  /\ fdOpen \in [Slot -> BOOLEAN]
  /\ ipc_size \in [Slot -> Nat]
  /\ ipc_data \in [Slot -> BOOLEAN]
  /\ pc \in [Thread -> Step]
  /\ slot \in [Thread -> Slot \cup {NoSlot}]
  /\ name \in [Thread -> Name]
  /\ size \in [Thread -> Nat]
  /\ orphaned \subseteq Name

Init ==
  /\ RegistryInit
  /\ linked = [n \in Name |-> NoSeg]
  /\ st_size = [g \in Segment |-> 0]
  /\ ipc_shm = [s \in Slot |-> NoSeg]
  /\ fdOpen = [s \in Slot |-> FALSE]
  /\ ipc_size = [s \in Slot |-> 0]
  /\ ipc_data = [s \in Slot |-> FALSE]
  /\ pc = [t \in Thread |-> "idle"]
  /\ slot = [t \in Thread |-> NoSlot]
  /\ name \in [Thread -> Name]
  /\ size = [t \in Thread |-> 0]
  /\ orphaned = {}

Goto(t, from, to) ==
  /\ pc[t] = from
  /\ pc' = [pc EXCEPT ![t] = to]

(* The client has this handle: the call that makes it has returned. *)
Ready(s) == handle[s] # NoHandle /\ \A t \in Thread : slot[t] # s

(* The object of the handle that t is making. *)
Descriptor(t) == ipc_shm[slot[t]]

(* The clients' discipline, if they have one: deletes on one side, creates *)
(* and opens on the other.                                                 *)
MayCreate == Overlap \/ \A t \in Thread : pc[t] # "unlink"
MayDelete == Overlap \/ \A t \in Thread : pc[t] \notin CreateStep

-----------------------------------------------------------------------------
(* The driver's side of a shared memory: an entry that counts its users. *)
ipc_shm_open(s, n) ==
  \/ (OpenExisting(s, n) \/ \E a \in Addr : OpenNew(s, n, a)) /\ UNCHANGED orphaned
  \/ OpenFails(s, n) /\ orphaned' = orphaned \cup {n}

ipc_shm_close(s) == Close(s)

(* shared_memory_open: the name is registered with the driver. *)
Register(t, s, n, z, next) ==
  /\ MayCreate
  /\ Goto(t, "idle", next)
  /\ \A u \in Thread : slot[u] # s
  /\ ipc_shm_open(s, n)
  /\ slot' = [slot EXCEPT ![t] = s]
  /\ name' = [name EXCEPT ![t] = n]
  /\ size' = [size EXCEPT ![t] = z]
  /\ UNCHANGED <<kernelVars, handleVars>>

IPC_createSharedMemory(t, s, n, z) == Register(t, s, n, z, "create")
IPC_openSharedMemory(t, s, n) == Register(t, s, n, 0, "open")

(* The call of t returns the handle that it made. *)
Done(t) == slot' = [slot EXCEPT ![t] = NoSlot]

(* The handle of t gets the object g. *)
Opens(t, g) ==
  /\ ipc_shm' = [ipc_shm EXCEPT ![slot[t]] = g]
  /\ fdOpen' = [fdOpen EXCEPT ![slot[t]] = TRUE]
  /\ UNCHANGED <<ipc_size, ipc_data>>

(* shm_open with O_CREAT | O_EXCL: a new object of size 0, or EEXIST. *)
CreateExclusive(t) ==
  \E g \in Segment :
    /\ Goto(t, "create", "ftruncate")
    /\ linked[name[t]] = NoSeg
    /\ \A n \in Name : linked[n] # g
    /\ \A s \in Slot : ipc_shm[s] # g
    /\ linked' = [linked EXCEPT ![name[t]] = g]
    /\ st_size' = [st_size EXCEPT ![g] = 0]
    /\ Opens(t, g)
    /\ UNCHANGED <<registryVars, callVars, orphaned>>

CreateExists(t) ==
  /\ Goto(t, "create", "reopen")
  /\ linked[name[t]] # NoSeg
  /\ UNCHANGED <<registryVars, kernelVars, handleVars, callVars, orphaned>>

(* Any other error of shm_open. *)
CreateFails(t) ==
  /\ Faults
  /\ Goto(t, "create", "unregister")
  /\ UNCHANGED <<registryVars, kernelVars, handleVars, callVars, orphaned>>

(* shm_open of the object that was there, in a create or in an open. *)
OpenLinked(t) ==
  /\ Goto(t, "reopen", "fstat") \/ Goto(t, "open", "measure")
  /\ linked[name[t]] # NoSeg
  /\ Opens(t, linked[name[t]])
  /\ UNCHANGED <<registryVars, kernelVars, callVars, orphaned>>

OpenGone(t) ==
  /\ Goto(t, "reopen", "unregister") \/ Goto(t, "open", "unregister")
  /\ linked[name[t]] = NoSeg
  /\ UNCHANGED <<registryVars, kernelVars, handleVars, callVars, orphaned>>

(* A create takes an object that has a size as it is; the size in the      *)
(* handle is the one it was asked for.                                     *)
FstatSized(t) ==
  /\ Goto(t, "fstat", "idle")
  /\ st_size[Descriptor(t)] > 0
  /\ ipc_size' = [ipc_size EXCEPT ![slot[t]] = size[t]]
  /\ Done(t)
  /\ UNCHANGED <<registryVars, kernelVars, ipc_shm, fdOpen, ipc_data, name, size, orphaned>>

FstatEmpty(t) ==
  /\ Goto(t, "fstat", "ftruncate")
  /\ st_size[Descriptor(t)] = 0
  /\ UNCHANGED <<registryVars, kernelVars, handleVars, callVars, orphaned>>

(* Mutant: the new object is left at size 0. *)
Ftruncate_Missing(t) ==
  /\ Goto(t, "ftruncate", "idle")
  /\ ipc_size' = [ipc_size EXCEPT ![slot[t]] = size[t]]
  /\ Done(t)
  /\ UNCHANGED <<registryVars, kernelVars, ipc_shm, fdOpen, ipc_data, name, size, orphaned>>

Ftruncate(t) ==
  /\ Goto(t, "ftruncate", "idle")
  /\ st_size' = [st_size EXCEPT ![Descriptor(t)] = size[t]]
  /\ ipc_size' = [ipc_size EXCEPT ![slot[t]] = size[t]]
  /\ Done(t)
  /\ UNCHANGED <<registryVars, linked, ipc_shm, fdOpen, ipc_data, name, size, orphaned>>

FtruncateFails(t) ==
  /\ Faults
  /\ Goto(t, "ftruncate", "unregister")
  /\ orphaned' = orphaned \cup {name[t]}
  /\ UNCHANGED <<registryVars, kernelVars, handleVars, callVars>>

(* An open takes the size as it is, 0 included. *)
Measure(t) ==
  /\ Goto(t, "measure", "idle")
  /\ ipc_size' = [ipc_size EXCEPT ![slot[t]] = st_size[Descriptor(t)]]
  /\ Done(t)
  /\ UNCHANGED <<registryVars, kernelVars, ipc_shm, fdOpen, ipc_data, name, size, orphaned>>

(* The handle at s is no more. *)
Discard(s) ==
  /\ ipc_shm' = [ipc_shm EXCEPT ![s] = NoSeg]
  /\ fdOpen' = [fdOpen EXCEPT ![s] = FALSE]
  /\ ipc_size' = [ipc_size EXCEPT ![s] = 0]
  /\ ipc_data' = [ipc_data EXCEPT ![s] = FALSE]

(* A create or an open that failed gives its reference back and returns    *)
(* NULL.  It unlinks nothing.                                              *)
Unregister(t) ==
  /\ Goto(t, "unregister", "idle")
  /\ ipc_shm_close(slot[t])
  /\ Discard(slot[t])
  /\ Done(t)
  /\ UNCHANGED <<kernelVars, name, size, orphaned>>

-----------------------------------------------------------------------------
(* IPC_mapSharedMemory closes the descriptor, mapped or not, and so maps   *)
(* once: the descriptor is used again although it is closed, which fails   *)
(* unless another file of the process has got its number (left out).       *)
IPC_mapSharedMemory(t, s) ==
  /\ pc[t] = "idle"
  /\ Ready(s)
  /\ ipc_size[s] > 0
  /\ fdOpen' = [fdOpen EXCEPT ![s] = FALSE]
  /\ \E mapped \in BOOLEAN :
       /\ mapped => fdOpen[s]
       /\ mapped \/ Faults \/ ~fdOpen[s]
       /\ ipc_data' = [ipc_data EXCEPT ![s] = mapped \/ @]
  /\ UNCHANGED <<registryVars, kernelVars, callVars, ipc_shm, ipc_size, pc, orphaned>>

IPC_unmapSharedMemory(t, s) ==
  /\ pc[t] = "idle"
  /\ Ready(s)
  /\ ipc_data[s]
  /\ ipc_data' = [ipc_data EXCEPT ![s] = FALSE]
  /\ ipc_size' = [ipc_size EXCEPT ![s] = 0]
  /\ UNCHANGED <<registryVars, kernelVars, callVars, ipc_shm, fdOpen, pc, orphaned>>

(* Mutant: every delete unlinks, not only that of the last user. *)
IPC_deleteSharedMemory_Always(t, s) ==
  /\ MayDelete
  /\ Ready(s)
  /\ ipc_shm_close(s)
  /\ Discard(s)
  /\ handle[s] \in listed
  /\ Goto(t, "idle", "unlink")
  /\ name' = [name EXCEPT ![t] = nameOf[handle[s]]]
  /\ UNCHANGED <<kernelVars, slot, size, orphaned>>

(* Mutant: the last user does not unlink either. *)
IPC_deleteSharedMemory_Never(t, s) ==
  /\ MayDelete
  /\ Ready(s)
  /\ ipc_shm_close(s)
  /\ Discard(s)
  /\ Goto(t, "idle", "idle")
  /\ UNCHANGED <<kernelVars, callVars, orphaned>>

(* IPC_deleteSharedMemory: unmap, then one reference less.  The last one   *)
(* goes on to unlink the name.  Any other is answered with -EBUSY, which   *)
(* ioctl turns into -1 and errno, so that the test for -EBUSY never finds  *)
(* it and the call returns IPC_GENERAL_ERROR.                              *)
IPC_deleteSharedMemory(t, s) ==
  /\ MayDelete
  /\ Ready(s)
  /\ ipc_shm_close(s)
  /\ Discard(s)
  /\ IF handle[s] \in listed /\ owner_count[handle[s]] = 1
     THEN /\ Goto(t, "idle", "unlink")
          /\ name' = [name EXCEPT ![t] = nameOf[handle[s]]]
     ELSE /\ Goto(t, "idle", "idle")
          /\ UNCHANGED name
  /\ UNCHANGED <<kernelVars, slot, size, orphaned>>

(* shm_unlink, by name. *)
Unlink(t) ==
  /\ Goto(t, "unlink", "idle")
  /\ linked' = [linked EXCEPT ![name[t]] = NoSeg]
  /\ orphaned' = orphaned \ {name[t]}
  /\ UNCHANGED <<registryVars, st_size, handleVars, callVars>>

-----------------------------------------------------------------------------
Next ==
  \E t \in Thread :
    \/ \E s \in Slot, n \in Name :
         \/ \E z \in Size : IPC_createSharedMemory(t, s, n, z)
         \/ IPC_openSharedMemory(t, s, n)
    \/ CreateExclusive(t) \/ CreateExists(t) \/ CreateFails(t)
    \/ OpenLinked(t) \/ OpenGone(t)
    \/ FstatSized(t) \/ FstatEmpty(t) \/ Ftruncate(t) \/ FtruncateFails(t)
    \/ Measure(t) \/ Unregister(t)
    \/ \E s \in Slot :
         \/ IPC_mapSharedMemory(t, s) \/ IPC_unmapSharedMemory(t, s)
         \/ IPC_deleteSharedMemory(t, s)
    \/ Unlink(t)

Spec == Init /\ [][Next]_vars

-----------------------------------------------------------------------------
(* Clients that have the same name open have the same memory: their        *)
(* handles, registered under one entry of the driver, stand for one object *)
(* (include/shmipc.h:17, "creates a named shared memory object").          *)
SameMemory ==
  \A r, s \in Slot :
    Ready(r) /\ Ready(s) /\ handle[r] = handle[s] /\ handle[r] \in listed
      => ipc_shm[r] = ipc_shm[s]

(* A mapping never reaches beyond the end of its object: the size in a     *)
(* handle is one that the object has (include/shmipc.h:20, "the size of    *)
(* the shared memory").                                                    *)
MappedWithinSize ==
  \A s \in Slot : ipc_data[s] => ipc_size[s] <= st_size[ipc_shm[s]]

(* The memory under a name goes when its last user does: with no handle    *)
(* registered and no call under way, nothing is left in /dev/shm, but for  *)
(* what a create left behind that failed halfway.                          *)
UnlinkedWithLastHandle ==
  (\A t \in Thread : pc[t] = "idle") =>
    \A n \in Name \ orphaned : Named(n) = {} => linked[n] = NoSeg

(* No handle reaches beyond its memory, whatever its create fails at.      *)
ShmMappingsSound == TypeOK /\ MappedWithinSize
=============================================================================
