----------------------------- MODULE IpcShmProofs -----------------------------
(***************************************************************************)
(* Proofs about IpcShm, for any number of threads, handles, names and      *)
(* objects.  What a handle is mapped to is within its object if all ask    *)
(* for one size; that the users of a name have one object, which goes with *)
(* the last of them, holds as long as deletes do not run while others      *)
(* create or open.                                                         *)
(***************************************************************************)
EXTENDS IpcShm, IpcRegistryProofs

(* A create or an open that is under way has a handle of its own, which    *)
(* nobody else uses.                                                       *)
CallOwnsSlot ==
  /\ \A t \in Thread : pc[t] \in CreateStep <=> slot[t] # NoSlot
  /\ \A t, u \in Thread : slot[t] # NoSlot /\ slot[t] = slot[u] => t = u
  /\ \A t \in Thread : slot[t] # NoSlot =>
       /\ handle[slot[t]] # NoHandle
       /\ ipc_size[slot[t]] = 0
       /\ pc[t] \in {"fstat", "ftruncate", "measure"} => ipc_shm[slot[t]] # NoSeg
       /\ pc[t] \in {"create", "reopen", "open"} => ipc_shm[slot[t]] = NoSeg

(* A handle that the client has got stands for an object, and one that is  *)
(* free for nothing.                                                       *)
ReadyHasObject ==
  \A s \in Slot :
    /\ handle[s] = NoHandle => ipc_shm[s] = NoSeg /\ ipc_size[s] = 0
    /\ Ready(s) => ipc_shm[s] # NoSeg

ShmBase == TypeOK /\ RegistryInv /\ CallOwnsSlot /\ ReadyHasObject

(* All clients of a system agree on the size of its shared memory. *)
OneSize == \A y, z \in Size : y = z

(* An object is empty or has that size, and so does a handle.              *)
SizesAgree ==
  /\ \A g \in Segment : st_size[g] = 0 \/ st_size[g] \in Size
  /\ \A t \in Thread : pc[t] \in {"create", "reopen", "fstat", "ftruncate"} => size[t] \in Size
  /\ \A s \in Slot : ipc_size[s] > 0 => ipc_shm[s] # NoSeg /\ ipc_size[s] = st_size[ipc_shm[s]]
  /\ \A s \in Slot : ipc_data[s] => ipc_size[s] > 0

SizeInv == ShmBase /\ SizesAgree

-----------------------------------------------------------------------------
(* Deletes and creates are apart, and a name that is being unlinked has no *)
(* entry.                                                                  *)
UnlinkAlone ==
  \A t \in Thread : pc[t] = "unlink" =>
    Named(name[t]) = {} /\ \A u \in Thread : pc[u] \notin CreateStep

(* A call works on the name of its entry; without an entry it has left the *)
(* name on the list of those that may stay behind.                         *)
CallOnName ==
  \A t \in Thread : slot[t] # NoSlot =>
    \/ handle[slot[t]] \in listed /\ nameOf[handle[slot[t]]] = name[t]
    \/ handle[slot[t]] = NullEntry /\ name[t] \in orphaned

(* The handles of an entry stand for the object that its name is linked to. *)
HandlesOnLinked ==
  \A s \in Slot : handle[s] \in listed /\ ipc_shm[s] # NoSeg
                  => ipc_shm[s] = linked[nameOf[handle[s]]]

(* Somebody is left who will unlink the object of n: a delete that is under *)
(* way, or a user whose create has not failed.                             *)
Uses(s, n) ==
  /\ handle[s] \in listed /\ nameOf[handle[s]] = n
  /\ ipc_shm[s] # NoSeg
  /\ \A t \in Thread : slot[t] = s => pc[t] # "unregister"

WillUnlink(n) ==
  \/ \E t \in Thread : pc[t] = "unlink" /\ name[t] = n
  \/ \E s \in Slot : Uses(s, n)

LinkedHasUser == \A n \in Name \ orphaned : linked[n] # NoSeg => WillUnlink(n)

ApartInv == ShmBase /\ UnlinkAlone /\ CallOnName /\ HandlesOnLinked /\ LinkedHasUser

-----------------------------------------------------------------------------
(* A call that is under way has a slot. *)
LEMMA CallSlot ==
  ASSUME ShmBase, NEW t \in Thread, pc[t] \in CreateStep
  PROVE  slot[t] \in Slot /\ slot[t] # NoSlot
BY DEF ShmBase, TypeOK, CallOwnsSlot

LEMMA StepsOfRegistry ==
  ASSUME ShmBase, Next
  PROVE  [RegistryNext]_registryVars
<1>1. ASSUME NEW t \in Thread, Unregister(t)
      PROVE  RegistryNext
  <2>1. pc[t] \in CreateStep
    BY <1>1 DEF Unregister, Goto, CreateStep
  <2> QED
    BY <1>1, <2>1, CallSlot DEF Unregister, ipc_shm_close, RegistryNext
<1> QED
  BY <1>1 DEF Next, RegistryNext, registryVars, IPC_createSharedMemory, IPC_openSharedMemory,
       Register, ipc_shm_open, CreateExclusive, CreateExists, CreateFails, OpenLinked, OpenGone,
       FstatSized, FstatEmpty, Ftruncate, FtruncateFails, Measure, IPC_mapSharedMemory,
       IPC_unmapSharedMemory, IPC_deleteSharedMemory, ipc_shm_close, Unlink

LEMMA ShmInitInv == Init => SizeInv /\ ApartInv
<1> SUFFICES ASSUME Init PROVE SizeInv /\ ApartInv
  OBVIOUS
<1>1. RegistryInv
  BY RegistryInitInv DEF Init
<1>2. TypeOK
  BY <1>1 DEF Init, TypeOK, RegistryInv, Step
<1> QED
  BY <1>1, <1>2 DEF Init, RegistryInit, SizeInv, ApartInv, ShmBase, CallOwnsSlot, ReadyHasObject,
     Ready, CreateStep, SizesAgree, UnlinkAlone, CallOnName, HandlesOnLinked, LinkedHasUser, Named

(* A flag of one handle changes. *)
LEMMA FlagType ==
  ASSUME NEW f \in [Slot -> BOOLEAN], NEW s \in Slot, NEW b \in BOOLEAN
  PROVE  [f EXCEPT ![s] = b] \in [Slot -> BOOLEAN]
BY Zenon

LEMMA TypeStep ==
  ASSUME ShmBase, [Next]_vars
  PROVE  TypeOK' /\ RegistryInv'
<1>0. TypeOK /\ RegistryInv
  BY DEF ShmBase
<1>1. RegistryInv' /\ RegistryTypeOK'
  BY <1>0, RegistryStepInv, StepsOfRegistry DEF RegistryInv, vars, registryVars
<1>2. \A t \in Thread : pc[t] \in CreateStep => slot[t] \in Slot
  BY CallSlot
<1>3. \A t \in Thread : pc[t] \in {"fstat", "ftruncate", "measure"} => Descriptor(t) \in Segment
  BY <1>0, <1>2 DEF ShmBase, TypeOK, CallOwnsSlot, Descriptor, CreateStep
<1> USE <1>0, <1>1 DEF TypeOK, Goto, Step, CreateStep
<1>4. ASSUME NEW t \in Thread, NEW s \in Slot, NEW n \in Name, NEW z \in Nat, NEW next \in CreateStep,
             Register(t, s, n, z, next)
      PROVE  TypeOK'
  BY <1>4 DEF Register, ipc_shm_open, kernelVars, handleVars
<1>5. ASSUME NEW t \in Thread, CreateExists(t) \/ CreateFails(t) \/ OpenGone(t)
      PROVE  TypeOK'
  BY <1>5 DEF CreateExists, CreateFails, OpenGone, kernelVars, handleVars, callVars
<1>6. ASSUME NEW t \in Thread, CreateExclusive(t) \/ OpenLinked(t)
      PROVE  TypeOK'
  <2>1. fdOpen' \in [Slot -> BOOLEAN]
    BY <1>2, <1>6, FlagType DEF CreateExclusive, OpenLinked, Opens
  <2> QED
    BY <1>2, <1>6, <2>1 DEF CreateExclusive, OpenLinked, Opens, kernelVars, callVars
<1>7. ASSUME NEW t \in Thread,
             FstatSized(t) \/ FstatEmpty(t) \/ Ftruncate(t) \/ FtruncateFails(t) \/ Measure(t)
      PROVE  TypeOK'
  BY <1>2, <1>3, <1>7
     DEF FstatSized, FstatEmpty, Ftruncate, FtruncateFails, Measure, Done,
         kernelVars, handleVars, callVars
<1>8. ASSUME NEW t \in Thread, Unregister(t) \/ Unlink(t)
      PROVE  TypeOK'
  <2>1. fdOpen' \in [Slot -> BOOLEAN] /\ ipc_data' \in [Slot -> BOOLEAN]
    BY <1>2, <1>8, FlagType DEF Unregister, Unlink, Discard, handleVars
  <2> QED
    BY <1>2, <1>8, <2>1 DEF Unregister, Unlink, Discard, Done, kernelVars, handleVars, callVars
<1>9. ASSUME NEW t \in Thread, NEW s \in Slot,
             IPC_mapSharedMemory(t, s) \/ IPC_unmapSharedMemory(t, s)
      PROVE  TypeOK'
  <2>1. fdOpen' \in [Slot -> BOOLEAN] /\ ipc_data' \in [Slot -> BOOLEAN]
    BY <1>9, FlagType DEF IPC_mapSharedMemory, IPC_unmapSharedMemory
  <2> QED
    BY <1>9, <2>1 DEF IPC_mapSharedMemory, IPC_unmapSharedMemory, kernelVars, callVars
<1>10. ASSUME NEW t \in Thread, NEW s \in Slot, IPC_deleteSharedMemory(t, s)
      PROVE  TypeOK'
  BY <1>10 DEF IPC_deleteSharedMemory, Discard, kernelVars, callVars, RegistryTypeOK
<1>11. CASE UNCHANGED vars
  BY <1>11 DEF vars, kernelVars, handleVars, callVars
<1> QED
  BY <1>4, <1>5, <1>6, <1>7, <1>8, <1>9, <1>10, <1>11, ShmAssumption
     DEF Next, IPC_createSharedMemory, IPC_openSharedMemory

(* A handle changes only where it was free or its client gives it up.      *)
LEMMA CallsStep ==
  ASSUME ShmBase, [Next]_vars
  PROVE  CallOwnsSlot' /\ ReadyHasObject'
<1>0. TypeOK /\ RegistryTypeOK /\ CallOwnsSlot /\ ReadyHasObject
  BY DEF ShmBase, TypeOK
<1>1. TypeOK' /\ RegistryTypeOK'
  BY TypeStep DEF TypeOK
<1>2. \A t \in Thread : pc[t] \in CreateStep => slot[t] \in Slot
  BY CallSlot
<1> USE <1>0, RegistryAssumption, ShmAssumption
    DEF TypeOK, RegistryTypeOK, CallOwnsSlot, ReadyHasObject, Ready, Goto, CreateStep
<1>3. ASSUME NEW t \in Thread, NEW s \in Slot, NEW n \in Name, NEW z \in Nat,
             NEW next \in {"create", "open"}, Register(t, s, n, z, next)
      PROVE  CallOwnsSlot' /\ ReadyHasObject'
  <2>1. /\ handle[s] = NoHandle /\ handle'[s] # NoHandle
        /\ \A r \in Slot \ {s} : handle'[r] = handle[r]
    BY <1>3 DEF Register, ipc_shm_open, OpenExisting, OpenNew, OpenFails, Named
  <2> QED
    BY <1>3, <2>1 DEF Register, kernelVars, handleVars
<1>4. ASSUME NEW t \in Thread, CreateExists(t) \/ CreateFails(t) \/ OpenGone(t)
      PROVE  CallOwnsSlot' /\ ReadyHasObject'
  BY <1>4 DEF CreateExists, CreateFails, OpenGone, registryVars, kernelVars, handleVars, callVars
<1>5. ASSUME NEW t \in Thread, CreateExclusive(t) \/ OpenLinked(t)
      PROVE  CallOwnsSlot' /\ ReadyHasObject'
  BY <1>2, <1>5 DEF CreateExclusive, OpenLinked, Opens, registryVars, kernelVars, callVars
<1>6. ASSUME NEW t \in Thread, FstatSized(t) \/ Ftruncate(t) \/ Measure(t)
      PROVE  CallOwnsSlot' /\ ReadyHasObject'
  BY <1>2, <1>6 DEF FstatSized, Ftruncate, Measure, Done, registryVars, kernelVars
<1>7. ASSUME NEW t \in Thread, FstatEmpty(t) \/ FtruncateFails(t)
      PROVE  CallOwnsSlot' /\ ReadyHasObject'
  BY <1>2, <1>7 DEF FstatEmpty, FtruncateFails, registryVars, kernelVars, handleVars, callVars
<1>8. ASSUME NEW t \in Thread, Unregister(t)
      PROVE  CallOwnsSlot' /\ ReadyHasObject'
  BY <1>2, <1>8 DEF Unregister, ipc_shm_close, Close, Discard, Done
<1>9. ASSUME NEW t \in Thread, NEW s \in Slot,
             IPC_mapSharedMemory(t, s) \/ IPC_unmapSharedMemory(t, s)
      PROVE  CallOwnsSlot' /\ ReadyHasObject'
  BY <1>9 DEF IPC_mapSharedMemory, IPC_unmapSharedMemory, registryVars, kernelVars, callVars
<1>10. ASSUME NEW t \in Thread, NEW s \in Slot, IPC_deleteSharedMemory(t, s)
      PROVE  CallOwnsSlot' /\ ReadyHasObject'
  <2>1. /\ \A u \in Thread : slot[u] # s
        /\ handle' = [handle EXCEPT ![s] = NoHandle] /\ ipc_shm' = [ipc_shm EXCEPT ![s] = NoSeg]
        /\ ipc_size' = [ipc_size EXCEPT ![s] = 0] /\ UNCHANGED slot
    BY <1>10 DEF IPC_deleteSharedMemory, ipc_shm_close, Close, Discard
  <2>2. \A u \in Thread : pc'[u] = pc[u] \/ (slot[u] = NoSlot /\ pc'[u] \in {"idle", "unlink"})
    <3>1. pc[t] = "idle" /\ pc'[t] \in {"idle", "unlink"} /\ \A u \in Thread \ {t} : pc'[u] = pc[u]
      BY <1>10 DEF IPC_deleteSharedMemory
    <3>2. slot[t] = NoSlot
      BY <3>1
    <3> QED
      BY <3>1, <3>2
  <2>3. CallOwnsSlot'
    <3>1. \A u \in Thread : pc'[u] \in CreateStep <=> slot'[u] # NoSlot
      BY <2>1, <2>2
    <3>2. ASSUME NEW u \in Thread, slot'[u] # NoSlot
          PROVE  /\ pc'[u] = pc[u] /\ slot'[u] = slot[u] /\ slot[u] \in Slot \ {s}
                 /\ handle'[slot[u]] = handle[slot[u]] /\ ipc_shm'[slot[u]] = ipc_shm[slot[u]]
                 /\ ipc_size'[slot[u]] = ipc_size[slot[u]]
      BY <2>1, <2>2, <3>2
    <3> QED
      BY <2>1, <3>1, <3>2
  <2>4. ReadyHasObject'
    BY <2>1, <1>10 DEF IPC_deleteSharedMemory, Discard
  <2> QED
    BY <2>3, <2>4
<1>11. ASSUME NEW t \in Thread, Unlink(t)
      PROVE  CallOwnsSlot' /\ ReadyHasObject'
  BY <1>11 DEF Unlink, registryVars, handleVars, callVars
<1>12. CASE UNCHANGED vars
  BY <1>12 DEF vars, registryVars, kernelVars, handleVars, callVars
<1> QED
  BY <1>3, <1>4, <1>5, <1>6, <1>7, <1>8, <1>9, <1>10, <1>11, <1>12
     DEF Next, IPC_createSharedMemory, IPC_openSharedMemory

LEMMA BaseStep == ShmBase /\ [Next]_vars => ShmBase'
BY TypeStep, CallsStep DEF ShmBase

-----------------------------------------------------------------------------
LEMMA SizesStep ==
  ASSUME OneSize, SizeInv, [Next]_vars
  PROVE  SizesAgree'
<1>0. TypeOK /\ RegistryTypeOK /\ CallOwnsSlot /\ ReadyHasObject /\ SizesAgree /\ ShmBase
  BY DEF SizeInv, ShmBase, TypeOK
<1>1. TypeOK'
  BY <1>0, TypeStep
<1>2. \A t \in Thread : pc[t] \in CreateStep => slot[t] \in Slot
  BY <1>0, CallSlot
<1>3. Size \subseteq Nat \ {0} /\ NoSeg \notin Segment
  BY ShmAssumption
<1> HIDE DEF OneSize
<1> USE <1>0 DEF TypeOK, CallOwnsSlot, ReadyHasObject, Ready, Goto, CreateStep, SizesAgree
<1>4. ASSUME NEW t \in Thread, NEW s \in Slot, NEW n \in Name,
             \/ \E z \in Size : IPC_createSharedMemory(t, s, n, z)
             \/ IPC_openSharedMemory(t, s, n)
      PROVE  SizesAgree'
  BY <1>4 DEF IPC_createSharedMemory, IPC_openSharedMemory, Register, kernelVars, handleVars
<1>5. ASSUME NEW t \in Thread, CreateExists(t) \/ CreateFails(t) \/ OpenGone(t)
      PROVE  SizesAgree'
  BY <1>5 DEF CreateExists, CreateFails, OpenGone, kernelVars, handleVars, callVars
<1>6. ASSUME NEW t \in Thread, CreateExclusive(t)
      PROVE  SizesAgree'
  BY <1>2, <1>3, <1>6 DEF CreateExclusive, Opens, callVars
<1>7. ASSUME NEW t \in Thread, OpenLinked(t)
      PROVE  SizesAgree'
  BY <1>2, <1>3, <1>7 DEF OpenLinked, Opens, kernelVars, callVars
<1>8. ASSUME NEW t \in Thread, FstatSized(t) \/ Measure(t)
      PROVE  SizesAgree'
  <2>1. slot[t] \in Slot /\ ipc_shm[slot[t]] \in Segment
    BY <1>2, <1>8 DEF FstatSized, Measure
  <2>2. ipc_size' = [ipc_size EXCEPT ![slot[t]] = st_size[ipc_shm[slot[t]]]]
    BY <1>3, <1>8, <2>1 DEF FstatSized, Measure, Descriptor, OneSize
  <2> QED
    BY <1>3, <1>8, <2>1, <2>2 DEF FstatSized, Measure, Done, kernelVars
<1>9. ASSUME NEW t \in Thread, Ftruncate(t)
      PROVE  SizesAgree'
  <2>1. /\ slot[t] \in Slot /\ ipc_shm[slot[t]] \in Segment /\ size[t] \in Size
        /\ pc[t] = "ftruncate" /\ pc' = [pc EXCEPT ![t] = "idle"]
        /\ st_size' = [st_size EXCEPT ![ipc_shm[slot[t]]] = size[t]]
        /\ ipc_size' = [ipc_size EXCEPT ![slot[t]] = size[t]]
        /\ UNCHANGED <<ipc_shm, ipc_data, size>>
    BY <1>2, <1>9 DEF Ftruncate, Descriptor
  <2>2. \A s \in Slot : ipc_size[s] > 0 => ipc_size[s] = size[t]
    BY <2>1 DEF OneSize
  <2> QED
    BY <1>3, <2>1, <2>2
<1>10. ASSUME NEW t \in Thread, FstatEmpty(t) \/ FtruncateFails(t)
      PROVE  SizesAgree'
  BY <1>10 DEF FstatEmpty, FtruncateFails, kernelVars, handleVars, callVars
<1>11. ASSUME NEW t \in Thread, Unregister(t)
      PROVE  SizesAgree'
  BY <1>2, <1>11 DEF Unregister, Discard, Done, kernelVars
<1>12. ASSUME NEW t \in Thread, NEW s \in Slot,
             IPC_mapSharedMemory(t, s) \/ IPC_unmapSharedMemory(t, s)
      PROVE  SizesAgree'
  BY <1>12 DEF IPC_mapSharedMemory, IPC_unmapSharedMemory, kernelVars, callVars
<1>13. ASSUME NEW t \in Thread, NEW s \in Slot, IPC_deleteSharedMemory(t, s)
      PROVE  SizesAgree'
  BY <1>13 DEF IPC_deleteSharedMemory, Discard, kernelVars, callVars
<1>14. ASSUME NEW t \in Thread, Unlink(t)
      PROVE  SizesAgree'
  BY <1>14 DEF Unlink, handleVars, callVars
<1>15. CASE UNCHANGED vars
  BY <1>15 DEF vars, kernelVars, handleVars, callVars
<1> QED
  BY <1>4, <1>5, <1>6, <1>7, <1>8, <1>9, <1>10, <1>11, <1>12, <1>13, <1>14, <1>15 DEF Next

(* shmipc.cpp: as long as all clients ask for one size, what a handle is   *)
(* mapped to is within its object, although a create that finds the object *)
(* records the size it was asked for and an open may find it empty.        *)
THEOREM ShmMappedWithinObject ==
  ASSUME OneSize
  PROVE  Spec => []ShmMappingsSound
<1>1. SizeInv /\ [Next]_vars => SizeInv'
  BY BaseStep, SizesStep DEF SizeInv
<1>2. SizeInv => ShmMappingsSound
  BY DEF SizeInv, ShmBase, SizesAgree, ShmMappingsSound, MappedWithinSize, TypeOK
<1> QED
  BY <1>1, <1>2, ShmInitInv, PTL DEF Spec

-----------------------------------------------------------------------------
(* A registration adds a reference, and an entry if there was none. *)
LEMMA RegisterEntry ==
  ASSUME ShmBase, NEW s \in Slot, NEW n \in Name, ipc_shm_open(s, n)
  PROVE  /\ handle[s] = NoHandle
         /\ \A r \in Slot \ {s} : handle'[r] = handle[r]
         /\ listed \subseteq listed' /\ \A a \in listed : nameOf'[a] = nameOf[a]
         /\ \A m \in Name : m # n => Named(m)' = Named(m)
         /\ orphaned \subseteq orphaned'
         /\ \/ handle'[s] \in listed' /\ nameOf'[handle'[s]] = n
            \/ handle'[s] = NullEntry /\ n \in orphaned'
BY DEF ShmBase, TypeOK, RegistryTypeOK, ipc_shm_open, OpenExisting, OpenNew, OpenFails, Named

(* A close takes a reference, and the entry with the last one. *)
LEMMA CloseEntry ==
  ASSUME ShmBase, NEW s \in Slot, Close(s)
  PROVE  /\ handle'[s] = NoHandle
         /\ \A r \in Slot \ {s} : handle'[r] = handle[r]
         /\ nameOf' = nameOf /\ listed' \subseteq listed
         /\ \A r \in Slot \ {s} : handle[r] \in listed => handle[r] \in listed'
         /\ \A n \in Name : Named(n)' \subseteq Named(n)
<1>1. TypeOK /\ RegistryInv /\ RegistryInv'
  BY RegistryStepInv DEF ShmBase, RegistryNext
<1>2. /\ handle'[s] = NoHandle
      /\ \A r \in Slot \ {s} : handle'[r] = handle[r]
      /\ nameOf' = nameOf /\ listed' \subseteq listed
  BY <1>1 DEF Close, TypeOK, RegistryTypeOK
<1>3. \A r \in Slot \ {s} : handle[r] \in listed => handle[r] \in listed'
  BY <1>1, <1>2 DEF RegistryInv, RegistryTypeOK, NoDanglingHandle
<1> QED
  BY <1>2, <1>3 DEF Named

LEMMA UnlinkAloneStep ==
  ASSUME Overlap = FALSE, ShmBase, UnlinkAlone, [Next]_vars
  PROVE  UnlinkAlone'
<1>0. TypeOK
  BY DEF ShmBase
<1> USE DEF UnlinkAlone, Goto, CreateStep
<1>1. ASSUME NEW t \in Thread, NEW s \in Slot, NEW n \in Name,
             \/ \E z \in Size : IPC_createSharedMemory(t, s, n, z)
             \/ IPC_openSharedMemory(t, s, n)
      PROVE  UnlinkAlone'
  BY <1>0, <1>1 DEF IPC_createSharedMemory, IPC_openSharedMemory, Register, MayCreate, TypeOK
<1>2. ASSUME UNCHANGED <<listed, nameOf>>,
             \A t \in Thread : /\ pc'[t] = "unlink" => pc[t] = "unlink" /\ name'[t] = name[t]
                               /\ pc'[t] \in CreateStep => pc[t] \in CreateStep
      PROVE  UnlinkAlone'
  BY <1>2 DEF Named
<1>3. ASSUME NEW t \in Thread,
             \/ CreateExclusive(t) \/ CreateExists(t) \/ CreateFails(t) \/ OpenLinked(t)
             \/ OpenGone(t) \/ FstatSized(t) \/ FstatEmpty(t) \/ Ftruncate(t) \/ FtruncateFails(t)
             \/ Measure(t) \/ Unlink(t)
      PROVE  UnlinkAlone'
  BY <1>0, <1>2, <1>3
     DEF TypeOK, CreateExclusive, CreateExists, CreateFails, OpenLinked, OpenGone, FstatSized,
         FstatEmpty, Ftruncate, FtruncateFails, Measure, Unlink, registryVars, callVars
<1>4. ASSUME NEW t \in Thread, NEW s \in Slot,
             IPC_mapSharedMemory(t, s) \/ IPC_unmapSharedMemory(t, s)
      PROVE  UnlinkAlone'
  BY <1>2, <1>4 DEF IPC_mapSharedMemory, IPC_unmapSharedMemory, registryVars, callVars
<1>5. ASSUME NEW t \in Thread, Unregister(t)
      PROVE  UnlinkAlone'
  BY <1>0, <1>5 DEF Unregister, TypeOK
<1>6. ASSUME NEW t \in Thread, NEW s \in Slot, IPC_deleteSharedMemory(t, s)
      PROVE  UnlinkAlone'
  <2>1. \A n \in Name : Named(n)' \subseteq Named(n)
    BY <1>6, CloseEntry DEF IPC_deleteSharedMemory, ipc_shm_close
  <2>2. \A u \in Thread : pc[u] \notin CreateStep
    BY <1>6 DEF IPC_deleteSharedMemory, MayDelete
  <2>3. CASE pc'[t] = "unlink"
    <3>1. /\ handle[s] \in listed /\ listed' = listed \ {handle[s]} /\ nameOf' = nameOf
          /\ name'[t] = nameOf[handle[s]] /\ name'[t] \in Name
          /\ \A u \in Thread \ {t} : pc'[u] = pc[u] /\ name'[u] = name[u]
      BY <1>0, <1>6, <2>3
         DEF IPC_deleteSharedMemory, ipc_shm_close, Close, TypeOK, RegistryTypeOK
    <3>2. \A a \in listed' : nameOf'[a] # name'[t]
      BY <3>1 DEF ShmBase, RegistryInv, OneObjectPerName
    <3>3. ASSUME NEW u \in Thread, pc'[u] = "unlink"
          PROVE  \A a \in listed' : nameOf'[a] # name'[u]
      BY <3>1, <3>2, <3>3 DEF Named
    <3>4. \A u \in Thread : pc'[u] \notin CreateStep
      BY <2>2, <2>3, <3>1
    <3> QED
      BY <3>3, <3>4 DEF Named
  <2>4. CASE pc'[t] # "unlink"
    <3>1. /\ pc'[t] = "idle" /\ name' = name
          /\ \A u \in Thread \ {t} : pc'[u] = pc[u]
      BY <1>0, <1>6, <2>4 DEF IPC_deleteSharedMemory, TypeOK
    <3> QED
      BY <1>0, <2>1, <2>2, <3>1 DEF TypeOK
  <2> QED
    BY <2>3, <2>4
<1>7. CASE UNCHANGED vars
  BY <1>2, <1>7 DEF vars, registryVars, callVars
<1> QED
  BY <1>1, <1>3, <1>4, <1>5, <1>6, <1>7 DEF Next

LEMMA CallOnNameStep ==
  ASSUME ShmBase, UnlinkAlone, CallOnName, [Next]_vars
  PROVE  CallOnName'
<1>0. TypeOK /\ RegistryTypeOK /\ CallOwnsSlot
  BY DEF ShmBase, TypeOK
<1>1. \A t \in Thread : pc[t] \in CreateStep => slot[t] \in Slot
  BY CallSlot
<1> USE <1>0 DEF CallOnName, CallOwnsSlot, TypeOK, Goto, CreateStep
<1>2. ASSUME NEW t \in Thread, NEW s \in Slot, NEW n \in Name,
             \/ \E z \in Size : IPC_createSharedMemory(t, s, n, z)
             \/ IPC_openSharedMemory(t, s, n)
      PROVE  CallOnName'
  <2>1. /\ ipc_shm_open(s, n)
        /\ slot' = [slot EXCEPT ![t] = s] /\ name' = [name EXCEPT ![t] = n]
        /\ \A u \in Thread : slot[u] # s
    BY <1>2 DEF IPC_createSharedMemory, IPC_openSharedMemory, Register
  <2> QED
    BY <2>1, RegisterEntry
<1>3. ASSUME UNCHANGED <<listed, nameOf, handle, orphaned>>,
             \A t \in Thread : slot'[t] # NoSlot => slot'[t] = slot[t] /\ name'[t] = name[t]
      PROVE  CallOnName'
  BY <1>3
<1>4. ASSUME NEW t \in Thread,
             \/ CreateExclusive(t) \/ CreateExists(t) \/ CreateFails(t) \/ OpenLinked(t)
             \/ OpenGone(t) \/ FstatSized(t) \/ FstatEmpty(t) \/ Ftruncate(t) \/ Measure(t)
      PROVE  CallOnName'
  BY <1>3, <1>4
     DEF CreateExclusive, CreateExists, CreateFails, OpenLinked, OpenGone, FstatSized,
         FstatEmpty, Ftruncate, Measure, Done, registryVars, callVars
<1>5. ASSUME NEW t \in Thread, FtruncateFails(t)
      PROVE  CallOnName'
  BY <1>5 DEF FtruncateFails, registryVars, callVars
<1>6. ASSUME NEW t \in Thread, NEW s \in Slot,
             IPC_mapSharedMemory(t, s) \/ IPC_unmapSharedMemory(t, s)
      PROVE  CallOnName'
  BY <1>3, <1>6 DEF IPC_mapSharedMemory, IPC_unmapSharedMemory, registryVars, callVars
<1>7. ASSUME NEW t \in Thread, Unregister(t)
      PROVE  CallOnName'
  <2>1. slot[t] \in Slot /\ Close(slot[t]) /\ slot' = [slot EXCEPT ![t] = NoSlot]
        /\ UNCHANGED <<name, orphaned>>
    BY <1>1, <1>7 DEF Unregister, ipc_shm_close, Done
  <2> QED
    BY <2>1, CloseEntry
<1>8. ASSUME NEW t \in Thread, NEW s \in Slot, IPC_deleteSharedMemory(t, s)
      PROVE  CallOnName'
  <2>1. /\ Close(s) /\ UNCHANGED <<slot, orphaned>>
        /\ \A u \in Thread : slot[u] # s
        /\ \A u \in Thread : slot[u] # NoSlot => name'[u] = name[u]
    BY <1>8 DEF IPC_deleteSharedMemory, ipc_shm_close, Ready
  <2> QED
    BY <2>1, CloseEntry
<1>9. ASSUME NEW t \in Thread, Unlink(t)
      PROVE  CallOnName'
  <2>1. \A u \in Thread : slot'[u] = NoSlot
    BY <1>9 DEF Unlink, UnlinkAlone, callVars
  <2> QED
    BY <2>1
<1>10. CASE UNCHANGED vars
  BY <1>3, <1>10 DEF vars, registryVars, callVars
<1> QED
  BY <1>2, <1>4, <1>5, <1>6, <1>7, <1>8, <1>9, <1>10 DEF Next

(* The object of a name is new while no handle of its entry has any, and   *)
(* goes when there is no entry.                                            *)
LEMMA HandlesOnLinkedStep ==
  ASSUME ShmBase, UnlinkAlone, CallOnName, HandlesOnLinked, [Next]_vars
  PROVE  HandlesOnLinked'
<1>0. TypeOK /\ RegistryTypeOK /\ CallOwnsSlot /\ ReadyHasObject
  BY DEF ShmBase, TypeOK
<1>1. \A t \in Thread : pc[t] \in CreateStep => slot[t] \in Slot
  BY CallSlot
<1>2. NoSeg \notin Segment
  BY ShmAssumption
<1> USE <1>0 DEF HandlesOnLinked, CallOwnsSlot, ReadyHasObject, TypeOK, RegistryTypeOK, Goto, CreateStep
<1>3. ASSUME NEW t \in Thread, NEW s \in Slot, NEW n \in Name,
             \/ \E z \in Size : IPC_createSharedMemory(t, s, n, z)
             \/ IPC_openSharedMemory(t, s, n)
      PROVE  HandlesOnLinked'
  <2>1. ipc_shm_open(s, n) /\ UNCHANGED <<linked, ipc_shm>>
    BY <1>3 DEF IPC_createSharedMemory, IPC_openSharedMemory, Register, kernelVars, handleVars
  <2>2. \A r \in Slot : handle[r] \in Addr => handle[r] \in listed
    BY DEF ShmBase, RegistryInv, NoDanglingHandle
  <2>3. RegistryTypeOK'
    BY TypeStep
  <2>4. /\ handle[s] = NoHandle /\ \A r \in Slot \ {s} : handle'[r] = handle[r]
        /\ \A a \in listed : nameOf'[a] = nameOf[a]
    BY <2>1, RegisterEntry
  <2>5. ipc_shm[s] = NoSeg
    BY <2>4
  <2>6. ASSUME NEW r \in Slot, handle'[r] \in listed', ipc_shm[r] # NoSeg
        PROVE  handle[r] \in listed /\ handle'[r] = handle[r] /\ nameOf'[handle[r]] = nameOf[handle[r]]
    <3>1. r # s /\ handle'[r] = handle[r]
      BY <2>4, <2>5, <2>6
    <3>2. handle[r] \in listed
      BY <2>2, <2>3, <2>6, <3>1
    <3> QED
      BY <2>4, <3>1, <3>2
  <2> QED
    BY <2>1, <2>6
<1>4. ASSUME UNCHANGED <<listed, nameOf, handle, linked, ipc_shm>>
      PROVE  HandlesOnLinked'
  BY <1>4
<1>5. ASSUME NEW t \in Thread,
             \/ CreateExists(t) \/ CreateFails(t) \/ OpenGone(t) \/ FstatSized(t)
             \/ FstatEmpty(t) \/ Ftruncate(t) \/ FtruncateFails(t) \/ Measure(t)
      PROVE  HandlesOnLinked'
  BY <1>4, <1>5
     DEF CreateExists, CreateFails, OpenGone, FstatSized, FstatEmpty, Ftruncate, FtruncateFails,
         Measure, registryVars, kernelVars, handleVars
<1>6. ASSUME NEW t \in Thread, CreateExclusive(t)
      PROVE  HandlesOnLinked'
  <2>1. /\ slot[t] \in Slot /\ linked[name[t]] = NoSeg
        /\ \/ handle[slot[t]] \in listed /\ nameOf[handle[slot[t]]] = name[t]
           \/ handle[slot[t]] \notin listed
    BY <1>1, <1>6, RegistryAssumption DEF CreateExclusive, CallOnName
  <2> QED
    BY <1>6, <2>1 DEF CreateExclusive, Opens, registryVars
<1>7. ASSUME NEW t \in Thread, OpenLinked(t)
      PROVE  HandlesOnLinked'
  <2>1. /\ slot[t] \in Slot
        /\ \/ handle[slot[t]] \in listed /\ nameOf[handle[slot[t]]] = name[t]
           \/ handle[slot[t]] \notin listed
    BY <1>1, <1>7, RegistryAssumption DEF OpenLinked, CallOnName
  <2> QED
    BY <1>7, <2>1 DEF OpenLinked, Opens, registryVars, kernelVars
<1>8. ASSUME NEW s \in Slot, Close(s), Discard(s), UNCHANGED linked
      PROVE  HandlesOnLinked'
  BY <1>8, CloseEntry DEF Discard
<1>9. ASSUME NEW t \in Thread, Unregister(t)
      PROVE  HandlesOnLinked'
  BY <1>1, <1>8, <1>9 DEF Unregister, ipc_shm_close, kernelVars
<1>10. ASSUME NEW t \in Thread, NEW s \in Slot,
              \/ IPC_mapSharedMemory(t, s) \/ IPC_unmapSharedMemory(t, s)
              \/ IPC_deleteSharedMemory(t, s)
      PROVE  HandlesOnLinked'
  BY <1>4, <1>8, <1>10
     DEF IPC_mapSharedMemory, IPC_unmapSharedMemory, IPC_deleteSharedMemory, ipc_shm_close,
         registryVars, kernelVars
<1>11. ASSUME NEW t \in Thread, Unlink(t)
      PROVE  HandlesOnLinked'
  <2>1. \A a \in listed : nameOf[a] # name[t]
    BY <1>11 DEF Unlink, UnlinkAlone, Named
  <2> QED
    BY <1>11, <2>1 DEF Unlink, registryVars, handleVars
<1>12. CASE UNCHANGED vars
  BY <1>4, <1>12 DEF vars, registryVars, kernelVars, handleVars
<1> QED
  BY <1>3, <1>5, <1>6, <1>7, <1>9, <1>10, <1>11, <1>12 DEF Next

(* The last of those who use the name is the one who goes on to unlink it. *)
LEMMA LinkedHasUserStep ==
  ASSUME Overlap = FALSE, ApartInv, [Next]_vars
  PROVE  LinkedHasUser'
<1>0. /\ TypeOK /\ RegistryTypeOK /\ CallOwnsSlot /\ ReadyHasObject /\ ShmBase
      /\ UnlinkAlone /\ CallOnName /\ LinkedHasUser
  BY DEF ApartInv, ShmBase, TypeOK
<1>1. \A t \in Thread : pc[t] \in CreateStep => slot[t] \in Slot
  BY <1>0, CallSlot
<1>2. NoSeg \notin Segment
  BY ShmAssumption
<1> USE <1>0 DEF TypeOK, RegistryTypeOK, CallOwnsSlot, Goto, CreateStep
<1>3. ASSUME NEW n \in Name, n \notin orphaned', linked'[n] # NoSeg,
             n \notin orphaned, linked[n] # NoSeg,
             \A t \in Thread : pc[t] = "unlink" /\ name[t] = n => pc'[t] = "unlink" /\ name'[t] = n,
             \A s \in Slot : Uses(s, n) => WillUnlink(n)'
      PROVE  WillUnlink(n)'
  BY <1>3 DEF LinkedHasUser, WillUnlink
<1>4. ASSUME NEW t \in Thread, NEW s \in Slot, NEW n \in Name,
             \/ \E z \in Size : IPC_createSharedMemory(t, s, n, z)
             \/ IPC_openSharedMemory(t, s, n)
      PROVE  LinkedHasUser'
  <2>1. /\ ipc_shm_open(s, n) /\ UNCHANGED <<linked, ipc_shm>>
        /\ pc[t] = "idle" /\ pc' = [pc EXCEPT ![t] = pc'[t]] /\ pc'[t] \in {"create", "open"}
        /\ name' = [name EXCEPT ![t] = n] /\ slot' = [slot EXCEPT ![t] = s]
        /\ \A u \in Thread : pc[u] # "unlink"
    BY <1>4 DEF IPC_createSharedMemory, IPC_openSharedMemory, Register, kernelVars, handleVars,
                MayCreate
  <2>2. ASSUME NEW r \in Slot, NEW m \in Name, Uses(r, m)
        PROVE  Uses(r, m)'
    <3>1. r # s
      BY <2>1, <2>2, RegistryAssumption, RegisterEntry DEF Uses
    <3> QED
      BY <2>1, <2>2, <3>1, RegisterEntry DEF Uses
  <2> QED
    BY <1>3, <2>1, <2>2, RegisterEntry DEF LinkedHasUser, WillUnlink
<1>5. ASSUME UNCHANGED <<listed, nameOf, handle, linked, orphaned>>,
             \A s \in Slot : ipc_shm[s] # NoSeg => ipc_shm'[s] # NoSeg,
             \A t \in Thread :
               /\ pc[t] = "unlink" => pc'[t] = "unlink" /\ name'[t] = name[t]
               /\ slot'[t] # NoSlot => slot'[t] = slot[t]
               /\ slot'[t] # NoSlot /\ pc'[t] = "unregister" =>
                    pc[t] = "unregister" \/ ipc_shm[slot[t]] = NoSeg
      PROVE  LinkedHasUser'
  <2>1. ASSUME NEW r \in Slot, NEW m \in Name, Uses(r, m)
        PROVE  Uses(r, m)'
    BY <1>5, <2>1, RegistryAssumption DEF Uses
  <2> QED
    BY <1>5, <2>1 DEF LinkedHasUser, WillUnlink
<1>6. ASSUME NEW t \in Thread,
             \/ CreateExists(t) \/ CreateFails(t) \/ OpenGone(t) \/ FstatSized(t)
             \/ FstatEmpty(t) \/ Ftruncate(t) \/ Measure(t)
      PROVE  LinkedHasUser'
  BY <1>1, <1>5, <1>6
     DEF CreateExists, CreateFails, OpenGone, FstatSized, FstatEmpty, Ftruncate, Measure,
         Done, registryVars, kernelVars, handleVars, callVars
<1>7. ASSUME NEW t \in Thread, OpenLinked(t)
      PROVE  LinkedHasUser'
  BY <1>1, <1>2, <1>5, <1>7 DEF OpenLinked, Opens, registryVars, kernelVars, callVars
<1>8. ASSUME NEW t \in Thread, FtruncateFails(t)
      PROVE  LinkedHasUser'
  <2>1. ASSUME NEW r \in Slot, NEW m \in Name, m # name[t], Uses(r, m)
        PROVE  Uses(r, m)'
    <3>1. slot[t] # r
      BY <1>1, <1>8, <2>1, RegistryAssumption DEF FtruncateFails, CallOnName, Uses
    <3> QED
      BY <1>8, <2>1, <3>1 DEF FtruncateFails, Uses, registryVars, handleVars, callVars
  <2> QED
    BY <1>8, <2>1 DEF FtruncateFails, LinkedHasUser, WillUnlink, kernelVars, callVars
<1>9. ASSUME NEW t \in Thread, CreateExclusive(t)
      PROVE  LinkedHasUser'
  <2>1. PICK g \in Segment :
          /\ pc[t] = "create" /\ pc' = [pc EXCEPT ![t] = "ftruncate"]
          /\ linked' = [linked EXCEPT ![name[t]] = g]
          /\ ipc_shm' = [ipc_shm EXCEPT ![slot[t]] = g]
          /\ UNCHANGED <<listed, nameOf, handle, slot, name, orphaned>>
    BY <1>9 DEF CreateExclusive, Opens, registryVars, callVars
  <2>2. slot[t] \in Slot
    BY <1>1, <2>1
  <2>3. ASSUME NEW r \in Slot, NEW m \in Name, Uses(r, m)
        PROVE  Uses(r, m)'
    BY <1>2, <2>1, <2>2, <2>3 DEF Uses
  <2>4. ASSUME name[t] \notin orphaned
        PROVE  Uses(slot[t], name[t])'
    BY <1>2, <2>1, <2>2, <2>4 DEF Uses, CallOnName
  <2> QED
    BY <2>1, <2>2, <2>3, <2>4 DEF LinkedHasUser, WillUnlink
<1>10. ASSUME NEW t \in Thread, Unregister(t)
       PROVE  LinkedHasUser'
  <2>1. /\ slot[t] \in Slot /\ Close(slot[t]) /\ UNCHANGED <<linked, name, orphaned>>
        /\ pc[t] = "unregister" /\ pc' = [pc EXCEPT ![t] = "idle"]
        /\ slot' = [slot EXCEPT ![t] = NoSlot]
        /\ \A r \in Slot \ {slot[t]} : ipc_shm'[r] = ipc_shm[r]
    BY <1>1, <1>10 DEF Unregister, ipc_shm_close, Done, Discard, kernelVars
  <2>2. ASSUME NEW r \in Slot, NEW m \in Name, Uses(r, m)
        PROVE  Uses(r, m)'
    BY <2>1, <2>2, CloseEntry, RegistryAssumption DEF Uses
  <2> QED
    BY <2>1, <2>2 DEF LinkedHasUser, WillUnlink
<1>11. ASSUME NEW t \in Thread, NEW s \in Slot,
              IPC_mapSharedMemory(t, s) \/ IPC_unmapSharedMemory(t, s)
      PROVE  LinkedHasUser'
  BY <1>5, <1>11 DEF IPC_mapSharedMemory, IPC_unmapSharedMemory, registryVars, kernelVars, callVars
<1>12. ASSUME NEW t \in Thread, NEW s \in Slot, IPC_deleteSharedMemory(t, s)
       PROVE  LinkedHasUser'
  <2>1. /\ Close(s) /\ UNCHANGED <<linked, slot, orphaned>>
        /\ pc[t] = "idle"
        /\ \A u \in Thread : slot[u] = NoSlot
        /\ \A u \in Thread : pc[u] = "unlink" => pc'[u] = "unlink" /\ name'[u] = name[u]
        /\ \A r \in Slot \ {s} : ipc_shm'[r] = ipc_shm[r]
    BY <1>12 DEF IPC_deleteSharedMemory, ipc_shm_close, Discard, MayDelete, kernelVars
  <2>2. ASSUME NEW r \in Slot, NEW m \in Name, r # s, Uses(r, m)
        PROVE  Uses(r, m)'
    BY <2>1, <2>2, CloseEntry, RegistryAssumption DEF Uses
  <2>3. ASSUME NEW m \in Name, Uses(s, m)
        PROVE  WillUnlink(m)'
    <3>1. PICK a \in listed : a = handle[s] /\ nameOf[a] = m
      BY <2>3 DEF Uses
    <3>2. CASE owner_count[a] = 1
      BY <1>12, <3>1, <3>2 DEF IPC_deleteSharedMemory, WillUnlink
    <3>3. CASE owner_count[a] # 1
      <4>1. PICK r \in Slot \ {s} : handle[r] = a
        <5>1. owner_count[a] = Cardinality(Holders(a)) /\ s \in Holders(a)
          BY <3>1 DEF ShmBase, RegistryInv, RefCountExact, Holders
        <5>2. Cardinality({s}) = 1
          BY FS_Singleton, Zenon
        <5>3. Holders(a) # {s}
          <6>1. SUFFICES ASSUME Holders(a) = {s} PROVE FALSE
            OBVIOUS
          <6>2. Cardinality(Holders(a)) = 1
            BY <5>2, <6>1, Zenon
          <6> QED
            BY <3>3, <5>1, <6>2, Zenon
        <5> QED
          BY <5>1, <5>3 DEF Holders
      <4>2. Ready(r)
        BY <2>1, <3>1, <4>1, RegistryAssumption DEF Ready
      <4>3. Uses(r, m)
        BY <2>1, <3>1, <4>1, <4>2, RegistryAssumption DEF Uses, ReadyHasObject
      <4> QED
        BY <2>2, <4>1, <4>3 DEF WillUnlink
    <3> QED
      BY <3>2, <3>3
  <2>4. ASSUME NEW m \in Name, m \notin orphaned', linked'[m] # NoSeg
        PROVE  WillUnlink(m)'
    <3>1. CASE \E u \in Thread : pc[u] = "unlink" /\ name[u] = m
      BY <2>1, <3>1 DEF WillUnlink
    <3>2. CASE \E r \in Slot : Uses(r, m)
      BY <2>2, <2>3, <3>2 DEF WillUnlink
    <3> QED
      BY <2>1, <2>4, <3>1, <3>2 DEF LinkedHasUser, WillUnlink
  <2> QED
    BY <2>4 DEF LinkedHasUser
<1>13. ASSUME NEW t \in Thread, Unlink(t)
      PROVE  LinkedHasUser'
  <2>1. /\ linked' = [linked EXCEPT ![name[t]] = NoSeg] /\ orphaned' = orphaned \ {name[t]}
        /\ pc[t] = "unlink" /\ pc' = [pc EXCEPT ![t] = "idle"]
        /\ UNCHANGED <<listed, nameOf, handle, ipc_shm, slot, name>>
    BY <1>13 DEF Unlink, registryVars, handleVars, callVars
  <2>2. ASSUME NEW r \in Slot, NEW m \in Name, Uses(r, m)
        PROVE  Uses(r, m)'
    BY <2>1, <2>2 DEF Uses
  <2> QED
    BY <2>1, <2>2 DEF LinkedHasUser, WillUnlink
<1>14. CASE UNCHANGED vars
  BY <1>5, <1>14 DEF vars, registryVars, kernelVars, handleVars, callVars
<1> QED
  BY <1>4, <1>6, <1>7, <1>8, <1>9, <1>10, <1>11, <1>12, <1>13, <1>14 DEF Next

LEMMA ApartStep ==
  ASSUME Overlap = FALSE
  PROVE  ApartInv /\ [Next]_vars => ApartInv'
BY BaseStep, UnlinkAloneStep, CallOnNameStep, HandlesOnLinkedStep, LinkedHasUserStep DEF ApartInv

(* shmipc.cpp over ipcshm.c: if no delete runs while others create or open, *)
(* the handles of an entry stand for one object.                           *)
THEOREM ShmSameMemory ==
  ASSUME Overlap = FALSE
  PROVE  Spec => []SameMemory
<1>1. ApartInv => SameMemory
  BY DEF ApartInv, ShmBase, ReadyHasObject, HandlesOnLinked, SameMemory
<1> QED
  BY <1>1, ApartStep, ShmInitInv, PTL DEF Spec

(* Under the same condition the object of a name goes with its last user,  *)
(* unless a create failed halfway.                                         *)
THEOREM ShmUnlinkedWithLastHandle ==
  ASSUME Overlap = FALSE
  PROVE  Spec => []UnlinkedWithLastHandle
<1>1. ApartInv => UnlinkedWithLastHandle
  BY DEF ApartInv, LinkedHasUser, WillUnlink, Uses, Named, UnlinkedWithLastHandle
<1> QED
  BY <1>1, ApartStep, ShmInitInv, PTL DEF Spec
=============================================================================
