-------------------------------- MODULE PosixShm --------------------------------
(***************************************************************************)
(* Shared memory on POSIX memory objects: linux/libsrc/posix/shmipc.cpp,   *)
(* and qnx/insys/shmipc.cpp, which does the same between registering the   *)
(* name with the resource manager and asking it to forget the name.        *)
(*                                                                         *)
(* An object is made and gets its size in two system calls; a client that  *)
(* finds it without a size, because its maker is on its way or died, gives *)
(* it one.  On Linux a delete unlinks the name under all other clients.    *)
(* On QNX the manager answers each close of shared memory with an error    *)
(* (qnx_shm_close of QnxServer), so that a delete ends before the unlink.  *)
(*                                                                         *)
(* No descriptor of an object is ever closed.  The clients of a name agree *)
(* on its size, as with the driver.                                        *)
(***************************************************************************)
EXTENDS Library

CONSTANTS
  Segment,       (* the memory objects there can be                           *)
  NoSegment,     (* no object                                                 *)
  ShmSize,       (* the size that clients ask for                             *)
  OnQnx          (* which of the two systems there are: a subset of BOOLEAN   *)

ASSUME PosixShmAssumption ==
  /\ NoSegment \notin Segment
  /\ ShmSize \in Nat \ {0}
  /\ OnQnx \subseteq BOOLEAN

VARIABLES
  qnx,           (* whether this is QNX                                       *)
  object,        (* the object that a name stands for                         *)
  st_size,       (* its size                                                  *)
  shm_name,      (* ipc_name of the handle in each slot                       *)
  ipc_shm,       (* the object that its ipc_descr.ipc_shm is open on          *)
  ipc_size,      (* its ipc_size                                              *)
  ipc_data,      (* slots whose handle is mapped                              *)
  mstep,         (* the next step of each thread                              *)
  mslot,         (* the handle that its create fills                          *)
  creators,      (* history: slots told that they made the object of theirs   *)
  cut_off        (* history: slots whose name was unlinked by another         *)

shmObjects == <<qnx, object, st_size>>
shmHandles == <<shm_name, ipc_shm, ipc_size, ipc_data>>
shmVars == <<shmObjects, shmHandles, mstep, mslot, creators, cut_off>>

PosixShmTypeOK ==
  /\ qnx \in OnQnx
  /\ object \in [ShmName -> Segment \cup {NoSegment}]
  /\ st_size \in [Segment -> {0, ShmSize}]
  /\ shm_name \in [Slot -> ShmName]
  /\ ipc_shm \in [Slot -> Segment \cup {NoSegment}]
  /\ ipc_size \in [Slot -> {0, ShmSize}]
  /\ ipc_data \subseteq Slot
  /\ mstep \in [Thread -> {"idle", "open", "fstat", "truncate"}]
  /\ mslot \in [Thread -> Slot \cup {NoSlot}]
  /\ creators \subseteq Slot
  /\ cut_off \subseteq Slot

PosixShmInit ==
  /\ qnx \in OnQnx
  /\ object = [n \in ShmName |-> NoSegment]
  /\ st_size = [g \in Segment |-> 0]
  /\ shm_name = [s \in Slot |-> CHOOSE n \in ShmName : TRUE]
  /\ ipc_shm = [s \in Slot |-> NoSegment]
  /\ ipc_size = [s \in Slot |-> 0]
  /\ ipc_data = {}
  /\ mstep = [t \in Thread |-> "idle"]
  /\ mslot = [t \in Thread |-> NoSlot]
  /\ creators = {}
  /\ cut_off = {}

-----------------------------------------------------------------------------
MGoto(t, from, to) ==
  /\ mstep[t] = from
  /\ mstep' = [mstep EXCEPT ![t] = to]

Unused == {g \in Segment : (\A n \in ShmName : object[n] # g) /\ (\A s \in Slot : ipc_shm[s] # g)}

(* A create that succeeds keeps its handle; one that fails frees it, and   *)
(* leaves the name and the object as they are.                             *)
MDone(t) == mslot' = [mslot EXCEPT ![t] = NoSlot]

MFail(t, from) ==
  /\ MGoto(t, from, "idle")
  /\ ipc_shm' = [ipc_shm EXCEPT ![mslot[t]] = NoSegment]
  /\ MDone(t)
  /\ creators' = creators \ {mslot[t]}
  /\ cut_off' = cut_off \ {mslot[t]}
  /\ UNCHANGED <<shmObjects, shm_name, ipc_size, ipc_data>>

(* The shm_open with O_EXCL.  "tells" is a create that reports whether the *)
(* object was there: it says that it was not as soon as this succeeds.     *)
ExclusiveOpen(t, s, n, tells) ==
  /\ mstep[t] = "idle"
  /\ ipc_shm[s] = NoSegment
  /\ \A u \in Thread : mslot[u] # s
  /\ shm_name' = [shm_name EXCEPT ![s] = n]
  /\ mslot' = [mslot EXCEPT ![t] = s]
  /\ \/ /\ object[n] = NoSegment
        /\ \E g \in Unused :
             /\ object' = [object EXCEPT ![n] = g]
             /\ st_size' = [st_size EXCEPT ![g] = 0]
             /\ ipc_shm' = [ipc_shm EXCEPT ![s] = g]
        /\ creators' = IF tells THEN creators \cup {s} ELSE creators
        /\ mstep' = [mstep EXCEPT ![t] = "truncate"]
     \/ /\ object[n] # NoSegment
        /\ mstep' = [mstep EXCEPT ![t] = "open"]
        /\ UNCHANGED <<object, st_size, ipc_shm, creators>>
  /\ UNCHANGED <<qnx, ipc_size, ipc_data, cut_off>>

posix_createSharedMemory(t, s, n) == ~qnx /\ ExclusiveOpen(t, s, n, FALSE)
posix_createSharedMemoryEx(t, s, n) == ~qnx /\ ExclusiveOpen(t, s, n, TRUE)
insys_createSharedMemory(t, s, n) == qnx /\ ExclusiveOpen(t, s, n, FALSE)
insys_createSharedMemoryEx(t, s, n) == qnx /\ ExclusiveOpen(t, s, n, TRUE)

(* The shm_open of a name that was there: it may have gone since. *)
OpenObject(t) ==
  LET g == object[shm_name[mslot[t]]] IN
  /\ mstep[t] = "open"
  /\ \/ g = NoSegment /\ MFail(t, "open")
     \/ /\ g # NoSegment
        /\ MGoto(t, "open", "fstat")
        /\ ipc_shm' = [ipc_shm EXCEPT ![mslot[t]] = g]
        /\ UNCHANGED <<shmObjects, shm_name, ipc_size, ipc_data, mslot, creators, cut_off>>

Fstat(t) ==
  LET sized == st_size[ipc_shm[mslot[t]]] > 0 IN
  /\ MGoto(t, "fstat", IF sized THEN "idle" ELSE "truncate")
  /\ IF sized
     THEN ipc_size' = [ipc_size EXCEPT ![mslot[t]] = ShmSize] /\ MDone(t)
     ELSE UNCHANGED <<ipc_size, mslot>>
  /\ UNCHANGED <<shmObjects, shm_name, ipc_shm, ipc_data, creators, cut_off>>

(* Mutant: whoever gives the object its size says that it made the object. *)
FtruncateObject_Told(t) ==
  LET s == mslot[t] IN
  /\ MGoto(t, "truncate", "idle")
  /\ st_size' = [st_size EXCEPT ![ipc_shm[s]] = ShmSize]
  /\ ipc_size' = [ipc_size EXCEPT ![s] = ShmSize]
  /\ MDone(t)
  /\ creators' = creators \cup {s}
  /\ UNCHANGED <<qnx, object, shm_name, ipc_shm, ipc_data, cut_off>>

FtruncateObject(t) ==
  LET s == mslot[t] IN
  /\ MGoto(t, "truncate", "idle")
  /\ st_size' = [st_size EXCEPT ![ipc_shm[s]] = ShmSize]
  /\ ipc_size' = [ipc_size EXCEPT ![s] = ShmSize]
  /\ MDone(t)
  /\ UNCHANGED <<qnx, object, shm_name, ipc_shm, ipc_data, creators, cut_off>>

(* The ftruncate fails, or the process dies before it. *)
FtruncateFails(t) == MFail(t, "truncate")

(* IPC_openSharedMemory, on QNX only: its handle has no size, and cannot   *)
(* be mapped.                                                              *)
insys_openSharedMemory(t, s, n) ==
  /\ qnx
  /\ mstep[t] = "idle"
  /\ ipc_shm[s] = NoSegment
  /\ \A u \in Thread : mslot[u] # s
  /\ object[n] # NoSegment
  /\ shm_name' = [shm_name EXCEPT ![s] = n]
  /\ ipc_shm' = [ipc_shm EXCEPT ![s] = object[n]]
  /\ UNCHANGED <<shmObjects, ipc_size, ipc_data, mstep, mslot, creators, cut_off>>

-----------------------------------------------------------------------------
Ready(t, s) ==
  /\ mstep[t] = "idle"
  /\ ipc_shm[s] # NoSegment
  /\ \A u \in Thread : mslot[u] # s

(* The map of a handle that has a size; its unmap takes the size away, so  *)
(* that it cannot be mapped again.                                         *)
MapObject(t, s) ==
  /\ Ready(t, s)
  /\ ipc_size[s] # 0
  /\ s \notin ipc_data
  /\ ipc_data' = ipc_data \cup {s}
  /\ UNCHANGED <<shmObjects, shm_name, ipc_shm, ipc_size, mstep, mslot, creators, cut_off>>

posix_mapSharedMemory(t, s) == ~qnx /\ MapObject(t, s)
insys_mapSharedMemory(t, s) == qnx /\ MapObject(t, s)

UnmapObject(t, s) ==
  /\ Ready(t, s)
  /\ s \in ipc_data
  /\ ipc_data' = ipc_data \ {s}
  /\ ipc_size' = [ipc_size EXCEPT ![s] = 0]
  /\ UNCHANGED <<shmObjects, shm_name, ipc_shm, mstep, mslot, creators, cut_off>>

posix_unmapSharedMemory(t, s) == ~qnx /\ UnmapObject(t, s)
insys_unmapSharedMemory(t, s) == qnx /\ UnmapObject(t, s)

(* The client gives up the handle that it has deleted. *)
GiveUp(t, s) ==
  /\ Ready(t, s)
  /\ ipc_data' = ipc_data \ {s}
  /\ ipc_size' = [ipc_size EXCEPT ![s] = 0]
  /\ ipc_shm' = [ipc_shm EXCEPT ![s] = NoSegment]
  /\ creators' = creators \ {s}
  /\ UNCHANGED <<qnx, st_size, shm_name, mstep, mslot>>

(* On Linux: unmap and unlink, whatever object the name stands for. *)
posix_deleteSharedMemory(t, s) ==
  LET n == shm_name[s] IN
  /\ ~qnx
  /\ GiveUp(t, s)
  /\ object' = [object EXCEPT ![n] = NoSegment]
  /\ cut_off' = {u \in (cut_off \cup {v \in Slot : shm_name[v] = n /\ ipc_shm[v] # NoSegment}) : u # s}

(* On QNX: unmap, and the error of the manager. *)
insys_deleteSharedMemory(t, s) ==
  /\ qnx
  /\ GiveUp(t, s)
  /\ cut_off' = cut_off \ {s}
  /\ UNCHANGED object

-----------------------------------------------------------------------------
PosixShmNext ==
  \E t \in Thread :
    \/ OpenObject(t) \/ Fstat(t) \/ FtruncateObject(t) \/ FtruncateFails(t)
    \/ \E s \in Slot :
         \/ \E n \in ShmName :
              \/ posix_createSharedMemory(t, s, n) \/ posix_createSharedMemoryEx(t, s, n)
              \/ insys_createSharedMemory(t, s, n) \/ insys_createSharedMemoryEx(t, s, n)
              \/ insys_openSharedMemory(t, s, n)
         \/ posix_mapSharedMemory(t, s) \/ insys_mapSharedMemory(t, s)
         \/ posix_unmapSharedMemory(t, s) \/ insys_unmapSharedMemory(t, s)
         \/ posix_deleteSharedMemory(t, s) \/ insys_deleteSharedMemory(t, s)

PosixShmSpec == PosixShmInit /\ [][PosixShmNext]_shmVars

-----------------------------------------------------------------------------
(* No mapping reaches beyond its object (an access would be a SIGBUS),     *)
(* although clients find objects whose makers have not sized them yet,     *)
(* never will, or size them a second time.                                 *)
MappedWithinObject ==
  \A s \in Slot : ipc_size[s] > 0 => st_size[ipc_shm[s]] >= ipc_size[s]

(* At most one client of an object is told that it made it, and so         *)
(* initialises its contents.                                               *)
OneCreator ==
  \A s, u \in creators : ipc_shm[s] = ipc_shm[u] => s = u

(* Two clients that have a name open have the same memory, unless a delete *)
(* of a third unlinked the name in between; on QNX nothing does.           *)
SameObjectUnlessDeleted ==
  /\ \A s \in Slot : (ipc_shm[s] # NoSegment /\ s \notin cut_off) => object[shm_name[s]] = ipc_shm[s]
  /\ qnx => cut_off = {}

(* The objects of names: mapped within their size, made by one client and  *)
(* shared by all.                                                          *)
PosixShmSound ==
  PosixShmTypeOK /\ MappedWithinObject /\ OneCreator /\ SameObjectUnlessDeleted
=============================================================================
