---------------------------- MODULE IpcDriverProofs ----------------------------
(***************************************************************************)
(* The references of the objects of the device and its last release, for   *)
(* any number of processes, threads, files, names and references: proofs   *)
(* about IpcDriver.                                                        *)
(***************************************************************************)
EXTENDS IpcDriver, FiniteSetTheorems, TLAPS

(* m_usage counts the open files; descriptors and system calls are on them. *)
UsageExact ==
  /\ IsFiniteSet(files) /\ m_usage = Cardinality(files)
  /\ \A p \in Process : fds[p] \subseteq files
  /\ \A t \in Thread : pc[t] = "ioctl" => file[t] \in files

(* A release that has kinds left to free was the last; and without an open *)
(* file only those kinds are left.                                         *)
CloserWasLast ==
  /\ closer = NoFile => closed = 0
  /\ closer # NoFile /\ closed < 4 => files = {}
  /\ files = {} => \A o \in listed :
       closer # NoFile /\ \E i \in 1..4 : i > closed /\ o[1] = CloseOrder[i]

(* A handle is of a process that has the device open, and of an object that *)
(* exists, which has a reference.                                          *)
HandlesAreLive ==
  /\ \A h \in holds : fds[h[1]] # {} /\ h[2] \in listed
  /\ \A o \in listed : owner_count[o] > 0

DeviceInv == TypeOK /\ UsageExact /\ CloserWasLast /\ HandlesAreLive

-----------------------------------------------------------------------------
LEMMA CloseOrderOfKinds ==
  /\ Len(CloseOrder) = 4
  /\ \A o \in Obj : \E i \in 1..4 : o[1] = CloseOrder[i]
<1>1. Len(CloseOrder) = 4
  BY DEF CloseOrder
<1>2. \A o \in Obj : o[1] \in Kind
  BY DEF Obj
<1> QED
  BY <1>1, <1>2, DriverAssumption

LEMMA DeviceInit == Init => DeviceInv
<1> SUFFICES ASSUME Init PROVE DeviceInv
  OBVIOUS
<1>1. TypeOK
  BY DEF Init, TypeOK, Step
<1>2. UsageExact
  BY FS_EmptySet DEF Init, UsageExact
<1> QED
  BY <1>1, <1>2 DEF Init, DeviceInv, CloserWasLast, HandlesAreLive

LEMMA InitCheckInv ==
  ASSUME DeviceInv, NEW t \in Thread, InitCheck(t) PROVE DeviceInv'
<1> USE DEF DeviceInv, InitCheck, Goto, deviceVars, libraryVars, objectVars
<1>1. TypeOK'
  BY DEF TypeOK, Step
<1>2. UsageExact'
  BY DEF TypeOK, UsageExact
<1> QED
  BY <1>1, <1>2 DEF CloserWasLast, HandlesAreLive

(* An open is of a file that was not counted. *)
LEMMA InitOpenInv ==
  ASSUME DeviceInv, NEW t \in Thread, InitOpen(t) PROVE DeviceInv'
<1> USE DEF DeviceInv, Goto, objectVars
<1>1. PICK f \in File \ files :
        /\ closer = NoFile
        /\ Goto(t, "open", "store")
        /\ m_usage' = m_usage + 1
        /\ files' = files \cup {f}
        /\ fds' = [fds EXCEPT ![ProcessOf(t)] = @ \cup {f}]
        /\ file' = [file EXCEPT ![t] = f]
        /\ UNCHANGED <<closer, closed, ipc_driver_fd, objectVars, using>>
  BY DEF InitOpen
<1>2. ProcessOf(t) \in Process
  BY DEF Thread, ProcessOf
<1>3. TypeOK'
  BY <1>1, <1>2 DEF TypeOK, Step
<1>4. IsFiniteSet(files') /\ m_usage' = Cardinality(files')
  BY <1>1, FS_AddElement DEF UsageExact
<1>5. \A p \in Process : fds[p] \subseteq fds'[p] /\ fds'[p] \subseteq files'
  BY <1>1, <1>2 DEF TypeOK, UsageExact
<1>6. \A u \in Thread : pc'[u] = "ioctl" => file'[u] \in files'
  BY <1>1 DEF TypeOK, UsageExact
<1>7. UsageExact'
  BY <1>4, <1>5, <1>6 DEF UsageExact
<1>8. HandlesAreLive'
  BY <1>1, <1>5 DEF TypeOK, HandlesAreLive
<1> QED
  BY <1>1, <1>3, <1>7, <1>8 DEF CloserWasLast

LEMMA InitStoreInv ==
  ASSUME DeviceInv, NEW t \in Thread, InitStore(t) PROVE DeviceInv'
<1> USE DEF DeviceInv, InitStore, Goto, deviceVars, objectVars
<1>1. TypeOK'
  BY DEF TypeOK, Step
<1>2. UsageExact'
  BY DEF TypeOK, UsageExact
<1> QED
  BY <1>1, <1>2 DEF CloserWasLast, HandlesAreLive

LEMMA CleanupCheckInv ==
  ASSUME DeviceInv, NEW t \in Thread, CleanupCheck(t) PROVE DeviceInv'
<1> USE DEF DeviceInv, CleanupCheck, Goto, deviceVars, libraryVars, objectVars
<1>1. TypeOK'
  BY DEF TypeOK, Step
<1>2. UsageExact'
  BY DEF TypeOK, UsageExact
<1> QED
  BY <1>1, <1>2 DEF CloserWasLast, HandlesAreLive

(* A process that closes forgets its handles. *)
LEMMA CleanupCloseInv ==
  ASSUME DeviceInv, NEW t \in Thread, CleanupClose(t) PROVE DeviceInv'
<1> USE DEF DeviceInv, CleanupClose, Forget, Goto, deviceVars
<1>1. ProcessOf(t) \in Process
  BY DEF Thread, ProcessOf
<1>2. TypeOK'
  BY <1>1 DEF TypeOK, Step
<1>3. UsageExact'
  BY <1>1 DEF TypeOK, UsageExact
<1>4. HandlesAreLive'
  BY DEF TypeOK, HandlesAreLive
<1> QED
  BY <1>2, <1>3, <1>4 DEF CloserWasLast

LEMMA CleanupForgetInv ==
  ASSUME DeviceInv, NEW t \in Thread, CleanupForget(t) PROVE DeviceInv'
<1> USE DEF DeviceInv, CleanupForget, Goto, deviceVars, objectVars
<1>1. TypeOK'
  BY DEF TypeOK, Step
<1>2. UsageExact'
  BY DEF TypeOK, UsageExact
<1> QED
  BY <1>1, <1>2 DEF CloserWasLast, HandlesAreLive

LEMMA ExitInv ==
  ASSUME DeviceInv, NEW p \in Process, Exit(p) PROVE DeviceInv'
<1> USE DEF DeviceInv, Exit, Forget, deviceVars
<1>1. TypeOK'
  BY DEF TypeOK, Step
<1>2. UsageExact'
  BY DEF TypeOK, UsageExact
<1>3. HandlesAreLive'
  BY DEF TypeOK, HandlesAreLive
<1> QED
  BY <1>1, <1>2, <1>3 DEF CloserWasLast

(* A child has its parent's files and handles. *)
LEMMA ForkInv ==
  ASSUME DeviceInv, NEW p \in Process, NEW q \in Process, Fork(p, q) PROVE DeviceInv'
<1> USE DEF DeviceInv, Fork, deviceVars, threadVars
<1>1. holds' \subseteq Process \X Obj /\ stale' \subseteq Process \X Obj
  BY DEF TypeOK
<1>2. TypeOK'
  BY <1>1 DEF TypeOK
<1>3. UsageExact'
  BY DEF TypeOK, UsageExact
<1>4. HandlesAreLive'
  BY <1>1 DEF TypeOK, HandlesAreLive
<1> QED
  BY <1>2, <1>3, <1>4 DEF CloserWasLast

-----------------------------------------------------------------------------
(* Who makes an ioctl has a file open. *)
LEMMA IoctlOpenInv ==
  ASSUME DeviceInv, NEW t \in Thread, NEW o \in Obj, IoctlOpen(t, o) PROVE DeviceInv'
<1> USE DEF DeviceInv, IoctlOpen, HasDriver, deviceVars, libraryVars, threadVars
<1>1. ProcessOf(t) \in Process /\ fds[ProcessOf(t)] # {} /\ files # {}
  BY DEF Thread, ProcessOf, UsageExact
<1>2. TypeOK'
  BY <1>1 DEF TypeOK
<1>3. UsageExact'
  BY DEF UsageExact
<1>4. CloserWasLast'
  BY <1>1 DEF CloserWasLast
<1>5. HandlesAreLive'
  BY <1>1 DEF TypeOK, HandlesAreLive
<1> QED
  BY <1>2, <1>3, <1>4, <1>5

LEMMA IoctlCloseInv ==
  ASSUME DeviceInv, NEW t \in Thread, NEW o \in Obj, IoctlClose(t, o) PROVE DeviceInv'
<1> USE DEF DeviceInv, IoctlClose, HasDriver, deviceVars, libraryVars, threadVars
<1>1. o \in listed /\ owner_count[o] > 0
  BY DEF HandlesAreLive
<1>2. /\ owner_count' \in [Obj -> Nat] /\ owner_count'[o] = owner_count[o] - 1
      /\ \A x \in Obj \ {o} : owner_count'[x] = owner_count[x]
  BY <1>1 DEF TypeOK
<1>3. TypeOK'
  BY <1>2 DEF TypeOK
<1>4. UsageExact'
  BY DEF UsageExact
<1>5. CloserWasLast'
  BY DEF CloserWasLast
<1>6. listed' \subseteq listed /\ (owner_count[o] = 1 => o \notin listed')
  OBVIOUS
<1>7. \A x \in listed' : owner_count'[x] > 0
  BY <1>1, <1>2, <1>6 DEF TypeOK, HandlesAreLive
<1>8. \A h \in holds' : fds'[h[1]] # {} /\ h[2] \in listed'
  BY DEF HandlesAreLive
<1> QED
  BY <1>3, <1>4, <1>5, <1>7, <1>8 DEF HandlesAreLive

LEMMA IoctlEnterInv ==
  ASSUME DeviceInv, NEW t \in Thread, NEW o \in Obj, IoctlEnter(t, o) PROVE DeviceInv'
<1> USE DEF DeviceInv, IoctlEnter, HasDriver, Goto, deviceVars, libraryVars, objectVars
<1>1. ProcessOf(t) \in Process
  BY DEF Thread, ProcessOf
<1>2. TypeOK'
  BY <1>1 DEF TypeOK, Step
<1>3. UsageExact'
  BY <1>1 DEF TypeOK, UsageExact
<1> QED
  BY <1>2, <1>3 DEF CloserWasLast, HandlesAreLive

LEMMA IoctlReturnInv ==
  ASSUME DeviceInv, NEW t \in Thread, IoctlReturn(t) PROVE DeviceInv'
<1> USE DEF DeviceInv, IoctlReturn, Goto, deviceVars, libraryVars, objectVars
<1>1. TypeOK'
  BY DEF TypeOK, Step
<1>2. UsageExact'
  BY DEF TypeOK, UsageExact
<1> QED
  BY <1>1, <1>2 DEF CloserWasLast, HandlesAreLive

-----------------------------------------------------------------------------
(* The release that finds m_usage at one leaves no file open. *)
LEMMA ReleaseBeginInv ==
  ASSUME DeviceInv, NEW f \in File, ReleaseBegin(f) PROVE DeviceInv'
<1> USE DEF DeviceInv, ReleaseBegin, Unreferenced, libraryVars, objectVars, threadVars
<1>1. Cardinality(files) \in Nat
  BY FS_CardinalityType DEF UsageExact
<1>2. /\ IsFiniteSet(files') /\ Cardinality(files') = Cardinality(files) - 1
      /\ Cardinality(files') \in Nat
  BY FS_RemoveElement, FS_CardinalityType DEF UsageExact
<1>3. m_usage' = Cardinality(files')
  BY <1>1, <1>2 DEF UsageExact
<1>4. files' = {} <=> m_usage = 1
  <2>1. files' = {} <=> Cardinality(files') = 0
    BY <1>2, FS_EmptySet
  <2> QED
    BY <1>1, <1>2, <2>1 DEF UsageExact
<1>5. TypeOK'
  BY <1>2, <1>3, CloseOrderOfKinds DEF TypeOK
<1>6. UsageExact'
  BY <1>2, <1>3 DEF TypeOK, UsageExact
<1>7. closer' # NoFile /\ (closed' < 4 => files' = {}) /\ (files' = {} => closed' = 0)
  BY <1>4, CloseOrderOfKinds, DriverAssumption
<1>8. CloserWasLast'
  BY <1>7, CloseOrderOfKinds DEF TypeOK, CloserWasLast
<1> QED
  BY <1>5, <1>6, <1>8 DEF HandlesAreLive

(* A close_all of the last release meets no handle, and leaves what is of  *)
(* the kinds that follow.                                                  *)
LEMMA ReleaseCloseAllInv ==
  ASSUME DeviceInv, NEW f \in File, ReleaseCloseAll(f)
  PROVE  DeviceInv' /\ holds = {} /\ holds' = {} /\ stale' = stale
<1> USE DEF DeviceInv, ReleaseCloseAll, libraryVars, threadVars
<1>1. closer # NoFile /\ closed < 4 /\ closed \in 0..4
  BY CloseOrderOfKinds, DriverAssumption DEF TypeOK
<1>2. files = {}
  BY <1>1 DEF CloserWasLast
<1>3. holds = {}
  BY <1>2 DEF UsageExact, HandlesAreLive, TypeOK
<1>4. holds' = {} /\ stale' = stale
  BY <1>3
<1>5. TypeOK'
  BY <1>1, <1>4 DEF TypeOK
<1>6. UsageExact'
  BY DEF UsageExact
<1>7. \A o \in listed' : o \in listed /\ o[1] # CloseOrder[closed + 1]
  OBVIOUS
<1>8. \A o \in listed' : \E i \in 1..4 : i > closed' /\ o[1] = CloseOrder[i]
  <2> SUFFICES ASSUME NEW o \in listed'
               PROVE  \E i \in 1..4 : i > closed' /\ o[1] = CloseOrder[i]
    OBVIOUS
  <2>1. PICK i \in 1..4 : i > closed /\ o[1] = CloseOrder[i]
    BY <1>2, <1>7 DEF CloserWasLast
  <2>2. i # closed + 1
    BY <1>7, <2>1
  <2> QED
    BY <1>1, <2>1, <2>2
<1>9. CloserWasLast'
  BY <1>1, <1>2, <1>8 DEF CloserWasLast
<1>10. HandlesAreLive'
  BY <1>4, <1>7 DEF TypeOK, HandlesAreLive
<1> QED
  BY <1>3, <1>4, <1>5, <1>6, <1>9, <1>10

LEMMA ReleaseEndInv ==
  ASSUME DeviceInv, NEW f \in File, ReleaseEnd(f) PROVE DeviceInv'
<1> USE DEF DeviceInv, ReleaseEnd, libraryVars, objectVars, threadVars
<1>1. closed = 4
  BY CloseOrderOfKinds
<1>2. TypeOK'
  BY DEF TypeOK
<1>3. UsageExact'
  BY DEF UsageExact
<1>4. files = {} => listed = {}
  BY <1>1 DEF CloserWasLast
<1> QED
  BY <1>2, <1>3, <1>4 DEF CloserWasLast, HandlesAreLive

LEMMA DeviceNextInv == DeviceInv /\ [Next]_vars => DeviceInv'
<1> SUFFICES ASSUME DeviceInv, [Next]_vars PROVE DeviceInv'
  OBVIOUS
<1>1. CASE UNCHANGED vars
  <2> USE <1>1 DEF vars, deviceVars, libraryVars, objectVars, threadVars
  <2>1. TypeOK' /\ UsageExact'
    BY DEF DeviceInv, TypeOK, UsageExact
  <2> QED
    BY <2>1 DEF DeviceInv, CloserWasLast, HandlesAreLive
<1>2. CASE Next
  BY <1>2, InitCheckInv, InitOpenInv, InitStoreInv, CleanupCheckInv, CleanupCloseInv,
     CleanupForgetInv, IoctlOpenInv, IoctlCloseInv, IoctlEnterInv, IoctlReturnInv,
     ExitInv, ForkInv, ReleaseBeginInv, ReleaseCloseAllInv, ReleaseEndInv
     DEF Next, Release
<1> QED
  BY <1>1, <1>2

(* ipc_device_close: once the last user's release has ended, no object is  *)
(* left, whatever processes died or forked, at which steps they did, and   *)
(* whoever opened the device meanwhile.                                    *)
THEOREM LastReleaseFreesAll == Spec => []FreedWithLastUser
<1>1. DeviceInv => FreedWithLastUser
  BY FS_EmptySet DEF DeviceInv, UsageExact, CloserWasLast, FreedWithLastUser
<1> QED
  BY <1>1, DeviceInit, DeviceNextInv, PTL DEF Spec
-----------------------------------------------------------------------------
(* From here on no process forks.  The users of an object are the processes *)
(* that have a handle of it, and those with an ioctl that works on it and  *)
(* may outlive the handle.                                                 *)
Users(o) ==
  {h \in Process \X {o} :
     h \in holds \/ \E t \in Thread : ProcessOf(t) = h[1] /\ pc[t] = "ioctl" /\ using[t] = o}

ReferencesCoverUsers ==
  \A o \in listed : Cardinality(Users(o)) <= owner_count[o]

ReferenceInv ==
  /\ DeviceInv
  /\ NoStaleHandle
  /\ NoUseAfterCloseAll
  /\ ReferencesCoverUsers

(* What a step does that adds no user and takes no reference. *)
NothingGained ==
  /\ listed' = listed /\ owner_count' = owner_count /\ stale' = stale
  /\ holds' \subseteq holds
  /\ \A t \in Thread : pc'[t] = "ioctl" =>
       /\ pc[t] = "ioctl" /\ using'[t] = using[t]
       \/ <<ProcessOf(t), using'[t]>> \in holds

LEMMA UsersFinite ==
  \A o : IsFiniteSet(Users(o)) /\ Cardinality(Users(o)) \in Nat
<1> SUFFICES ASSUME NEW o
             PROVE  IsFiniteSet(Users(o)) /\ Cardinality(Users(o)) \in Nat
  OBVIOUS
<1>1. IsFiniteSet(Process \X {o})
  BY FS_Product, FS_Singleton, DriverAssumption
<1>2. Users(o) \subseteq Process \X {o}
  BY DEF Users
<1>3. IsFiniteSet(Users(o))
  BY <1>1, <1>2, FS_Subset
<1> QED
  BY <1>3, FS_CardinalityType

(* Fewer users need no more references. *)
LEMMA FewerUsers ==
  \A o \in Obj : Users(o)' \subseteq Users(o)
                 => Cardinality(Users(o)') <= Cardinality(Users(o)) /\ Cardinality(Users(o)') \in Nat
BY UsersFinite, FS_Subset, FS_CardinalityType

LEMMA NothingGainedInv ==
  ASSUME ReferenceInv, DeviceInv', NothingGained
  PROVE  ReferenceInv'
<1> USE DEF ReferenceInv, NothingGained
<1>1. NoStaleHandle'
  BY DEF NoStaleHandle
<1>2. NoUseAfterCloseAll'
  BY DEF DeviceInv, HandlesAreLive, NoUseAfterCloseAll
<1>3. \A o \in listed : Users(o)' \subseteq Users(o)
  BY DEF Users
<1>4. ReferencesCoverUsers'
  <2> SUFFICES ASSUME NEW o \in listed
               PROVE  Cardinality(Users(o)') <= owner_count[o]
    BY DEF ReferencesCoverUsers
  <2>1. o \in Obj /\ owner_count[o] \in Nat
    BY DEF DeviceInv, TypeOK
  <2>2. Cardinality(Users(o)') <= Cardinality(Users(o)) /\ Cardinality(Users(o)') \in Nat
    BY <1>3, <2>1, FewerUsers
  <2>3. Cardinality(Users(o)) <= owner_count[o] /\ Cardinality(Users(o)) \in Nat
    BY UsersFinite DEF ReferencesCoverUsers
  <2> QED
    BY <2>1, <2>2, <2>3
<1> QED
  BY <1>1, <1>2, <1>4

-----------------------------------------------------------------------------
(* An open adds one user and one reference. *)
LEMMA IoctlOpenReferences ==
  ASSUME ReferenceInv, NEW t \in Thread, NEW o \in Obj, IoctlOpen(t, o)
  PROVE  ReferenceInv'
<1> USE DEF ReferenceInv, IoctlOpen, deviceVars, libraryVars, threadVars
<1> DEFINE p == ProcessOf(t)
<1>1. DeviceInv'
  BY IoctlOpenInv
<1>2. p \in Process
  BY DEF Thread, ProcessOf
<1>3. NoStaleHandle' /\ NoUseAfterCloseAll'
  BY DEF NoStaleHandle, NoUseAfterCloseAll
<1>4. \A x \in Obj \ {o} : Users(x)' \subseteq Users(x)
  BY DEF Users
<1>5. Users(o)' \subseteq Users(o) \cup {<<p, o>>}
  BY DEF Users
<1>6. /\ IsFiniteSet(Users(o) \cup {<<p, o>>})
      /\ Cardinality(Users(o) \cup {<<p, o>>}) <= Cardinality(Users(o)) + 1
      /\ Cardinality(Users(o) \cup {<<p, o>>}) \in Nat
  <2> HIDE DEF ReferenceInv, IoctlOpen, p
  <2>1. /\ IsFiniteSet(Users(o) \cup {<<p, o>>})
        /\ Cardinality(Users(o) \cup {<<p, o>>})
             = IF <<p, o>> \in Users(o) THEN Cardinality(Users(o)) ELSE Cardinality(Users(o)) + 1
    BY UsersFinite, FS_AddElement
  <2> QED
    BY <2>1, UsersFinite
<1>7. Cardinality(Users(o)') <= Cardinality(Users(o)) + 1 /\ Cardinality(Users(o)') \in Nat
  <2>1. Cardinality(Users(o)') <= Cardinality(Users(o) \cup {<<p, o>>})
    BY <1>5, <1>6, FS_Subset
  <2>2. Cardinality(Users(o)') \in Nat
    BY <1>5, <1>6, FS_Subset, FS_CardinalityType
  <2> QED
    BY <1>6, <2>1, <2>2, UsersFinite
<1>8. o \notin listed => Cardinality(Users(o)) = 0
  <2>1. o \notin listed => Users(o) = {}
    BY DEF Users, DeviceInv, HandlesAreLive, NoUseAfterCloseAll
  <2> QED
    BY <2>1, FS_EmptySet
<1>9. /\ owner_count'[o] = IF o \in listed THEN owner_count[o] + 1 ELSE 1
      /\ \A x \in Obj \ {o} : owner_count'[x] = owner_count[x]
      /\ \A x \in Obj : owner_count[x] \in Nat
  BY DEF DeviceInv, TypeOK
<1>10. Cardinality(Users(o)') <= owner_count'[o]
  <2>1. Cardinality(Users(o)) \in Nat /\ (o \in listed => Cardinality(Users(o)) <= owner_count[o])
    BY UsersFinite DEF ReferencesCoverUsers
  <2> HIDE DEF ReferenceInv, IoctlOpen
  <2> QED
    BY <1>7, <1>8, <1>9, <2>1
<1>11. \A x \in listed' \ {o} : Cardinality(Users(x)') <= owner_count'[x]
  <2> SUFFICES ASSUME NEW x \in listed' \ {o}
               PROVE  Cardinality(Users(x)') <= owner_count'[x]
    OBVIOUS
  <2>1. x \in listed /\ x \in Obj
    BY DEF DeviceInv, TypeOK
  <2>2. Cardinality(Users(x)') <= Cardinality(Users(x)) /\ Cardinality(Users(x)') \in Nat
    BY <1>4, <2>1, FewerUsers
  <2>3. Cardinality(Users(x)) <= owner_count[x] /\ Cardinality(Users(x)) \in Nat
    BY <2>1, UsersFinite DEF ReferencesCoverUsers
  <2> HIDE DEF ReferenceInv, IoctlOpen
  <2> QED
    BY <1>9, <2>1, <2>2, <2>3
<1>12. ReferencesCoverUsers'
  BY <1>10, <1>11 DEF ReferencesCoverUsers
<1> QED
  BY <1>1, <1>3, <1>12

(* A close takes a user and a reference; the last reference's had no other *)
(* user, of a handle or of an ioctl.                                       *)
LEMMA IoctlCloseReferences ==
  ASSUME ReferenceInv, NEW t \in Thread, NEW o \in Obj, IoctlClose(t, o)
  PROVE  ReferenceInv'
<1> USE DEF ReferenceInv, IoctlClose, deviceVars, libraryVars, threadVars
<1> DEFINE p == ProcessOf(t)
<1>1. DeviceInv'
  BY IoctlCloseInv
<1>2. p \in Process /\ <<p, o>> \in Users(o) /\ o \in listed
  BY DEF Thread, ProcessOf, Users, DeviceInv, HandlesAreLive
<1>3. /\ Cardinality(Users(o)) \in Nat /\ owner_count[o] \in Nat
      /\ Cardinality(Users(o)) <= owner_count[o]
  BY <1>2, UsersFinite DEF ReferencesCoverUsers, DeviceInv, TypeOK
<1>4. /\ IsFiniteSet(Users(o) \ {<<p, o>>})
      /\ Cardinality(Users(o) \ {<<p, o>>}) = Cardinality(Users(o)) - 1
      /\ Cardinality(Users(o) \ {<<p, o>>}) \in Nat
  BY <1>2, UsersFinite, FS_RemoveElement, FS_CardinalityType
<1>5. owner_count[o] = 1 => Users(o) = {<<p, o>>}
  <2>1. owner_count[o] = 1 => Cardinality(Users(o) \ {<<p, o>>}) = 0
    BY <1>3, <1>4
  <2>2. owner_count[o] = 1 => Users(o) \ {<<p, o>>} = {}
    BY <1>4, <2>1, FS_EmptySet
  <2> QED
    BY <1>2, <2>2
<1>6. owner_count[o] = 1 => \A h \in holds : h[2] = o => h[1] = p
  <2>1. \A h \in holds : h[2] = o => h \in Users(o)
    BY DEF Users, DeviceInv, TypeOK
  <2> QED
    BY <1>5, <2>1
<1>7. NoStaleHandle'
  BY <1>6 DEF NoStaleHandle
<1>8. owner_count[o] = 1 => \A u \in Thread : pc[u] = "ioctl" => using[u] # o
  <2> SUFFICES ASSUME owner_count[o] = 1, NEW u \in Thread, pc[u] = "ioctl", using[u] = o
               PROVE  FALSE
    OBVIOUS
  <2>1. ProcessOf(u) \in Process
    BY DEF Thread, ProcessOf
  <2>2. <<ProcessOf(u), o>> \in Users(o)
    BY <2>1 DEF Users
  <2> QED
    BY <1>5, <2>2
<1>9. listed \ {o} \subseteq listed' /\ (owner_count[o] # 1 => listed' = listed)
      /\ listed' \subseteq listed /\ (owner_count[o] = 1 => o \notin listed')
  OBVIOUS
<1>10. NoUseAfterCloseAll'
  BY <1>8, <1>9 DEF NoUseAfterCloseAll
<1>11. \A x \in Obj \ {o} : Users(x)' \subseteq Users(x)
  BY DEF Users
<1>12. Users(o)' \subseteq Users(o) \ {<<p, o>>}
  BY DEF Users
<1>13. /\ Cardinality(Users(o)') <= Cardinality(Users(o)) - 1
       /\ Cardinality(Users(o)') \in Nat
  BY <1>4, <1>12, FS_Subset, FS_CardinalityType
<1>14. /\ owner_count'[o] = owner_count[o] - 1
       /\ \A x \in Obj \ {o} : owner_count'[x] = owner_count[x]
       /\ \A x \in Obj : owner_count[x] \in Nat
  BY DEF DeviceInv, TypeOK
<1>15. Cardinality(Users(o)') <= owner_count'[o]
  <2> HIDE DEF ReferenceInv, IoctlClose
  <2> QED
    BY <1>3, <1>13, <1>14
<1>16. \A x \in listed' \ {o} : Cardinality(Users(x)') <= owner_count'[x]
  <2> SUFFICES ASSUME NEW x \in listed' \ {o}
               PROVE  Cardinality(Users(x)') <= owner_count'[x]
    OBVIOUS
  <2>1. x \in listed /\ x \in Obj
    BY <1>9 DEF DeviceInv, TypeOK
  <2>2. Cardinality(Users(x)') <= Cardinality(Users(x)) /\ Cardinality(Users(x)') \in Nat
    BY <1>11, <2>1, FewerUsers
  <2>3. Cardinality(Users(x)) <= owner_count[x] /\ Cardinality(Users(x)) \in Nat
    BY <2>1, UsersFinite DEF ReferencesCoverUsers
  <2> HIDE DEF ReferenceInv, IoctlClose
  <2> QED
    BY <1>14, <2>1, <2>2, <2>3
<1>17. ReferencesCoverUsers'
  BY <1>15, <1>16 DEF ReferencesCoverUsers
<1> QED
  BY <1>1, <1>7, <1>10, <1>17

(* The last release meets neither a handle nor an ioctl. *)
LEMMA CloseAllReferences ==
  ASSUME ReferenceInv, NEW f \in File, ReleaseCloseAll(f)
  PROVE  ReferenceInv'
<1> USE DEF ReferenceInv
<1>1. DeviceInv' /\ holds = {} /\ holds' = {} /\ stale' = stale
  BY ReleaseCloseAllInv
<1>2. files = {}
  BY CloseOrderOfKinds, DriverAssumption DEF ReleaseCloseAll, DeviceInv, TypeOK, CloserWasLast
<1>3. \A t \in Thread : pc'[t] # "ioctl" /\ pc[t] # "ioctl"
  BY <1>2 DEF ReleaseCloseAll, threadVars, DeviceInv, UsageExact
<1>4. NoStaleHandle' /\ NoUseAfterCloseAll'
  BY <1>1, <1>3 DEF NoStaleHandle, NoUseAfterCloseAll
<1>5. \A o : Users(o)' = {}
  BY <1>1, <1>3 DEF Users
<1>6. \A o \in listed' : owner_count'[o] \in Nat
  BY <1>1 DEF DeviceInv, TypeOK
<1>7. ReferencesCoverUsers'
  BY <1>5, <1>6, FS_EmptySet DEF ReferencesCoverUsers
<1> QED
  BY <1>1, <1>4, <1>7

LEMMA ReferenceInit == Init => ReferenceInv
<1> SUFFICES ASSUME Init PROVE ReferenceInv
  OBVIOUS
<1> QED
  BY DeviceInit DEF Init, ReferenceInv, NoStaleHandle, NoUseAfterCloseAll, ReferencesCoverUsers

LEMMA ReferenceNextInv ==
  ASSUME Forks = FALSE
  PROVE  ReferenceInv /\ [Next]_vars => ReferenceInv'
<1> SUFFICES ASSUME ReferenceInv, [Next]_vars PROVE ReferenceInv'
  OBVIOUS
<1> USE DEF Goto, Forget, deviceVars, libraryVars, objectVars, threadVars
<1>1. DeviceInv'
  BY DeviceNextInv DEF ReferenceInv
<1>2. TypeOK
  BY DEF ReferenceInv, DeviceInv
<1>3. UNCHANGED vars => NothingGained
  BY DEF vars, NothingGained
<1>4. \A t \in Thread :
        InitCheck(t) \/ InitOpen(t) \/ InitStore(t) \/ CleanupCheck(t) \/ CleanupForget(t)
          => NothingGained
  BY <1>2 DEF InitCheck, InitOpen, InitStore, CleanupCheck, CleanupForget, NothingGained, TypeOK
<1>5. \A t \in Thread : CleanupClose(t) => NothingGained
  BY <1>2 DEF CleanupClose, NothingGained, TypeOK, ReferenceInv, NoStaleHandle
<1>6. \A t \in Thread, o \in Obj : IoctlEnter(t, o) => NothingGained
  BY <1>2 DEF IoctlEnter, NothingGained, TypeOK
<1>7. \A t \in Thread : IoctlReturn(t) => NothingGained
  BY <1>2 DEF IoctlReturn, NothingGained, TypeOK
<1>8. \A p \in Process : Exit(p) => NothingGained
  BY <1>2 DEF Exit, NothingGained, TypeOK, ReferenceInv, NoStaleHandle
<1>9. \A f \in File : ReleaseBegin(f) \/ ReleaseEnd(f) => NothingGained
  BY DEF ReleaseBegin, ReleaseEnd, NothingGained
<1>10. \A p \in Process, q \in Process : ~Fork(p, q)
  BY DEF Fork
<1>11. CASE NothingGained
  BY <1>1, <1>11, NothingGainedInv
<1>12. CASE \E t \in Thread, o \in Obj : IoctlOpen(t, o)
  BY <1>12, IoctlOpenReferences
<1>13. CASE \E t \in Thread, o \in Obj : IoctlClose(t, o)
  BY <1>13, IoctlCloseReferences
<1>14. CASE \E f \in File : ReleaseCloseAll(f)
  BY <1>14, CloseAllReferences
<1> QED
  BY <1>3, <1>4, <1>5, <1>6, <1>7, <1>8, <1>9, <1>10, <1>11, <1>12, <1>13, <1>14
     DEF Next, Release

(* The ioctls and ipc_device_close: where no process forks, every handle   *)
(* has its reference, no object goes away under a handle or under an ioctl *)
(* that is still in the driver, and the close_all of the last release      *)
(* meets neither.                                                          *)
THEOREM DriverSafe ==
  ASSUME Forks = FALSE
  PROVE  Spec => [](DriverReferencesSound /\ NoStaleHandle /\ NoUseAfterCloseAll)
<1>1. ReferenceInv => ReferencesCoverHandles
  <2> SUFFICES ASSUME ReferenceInv, NEW o \in listed
               PROVE  Cardinality({h \in holds : h[2] = o}) <= owner_count[o]
    BY DEF ReferencesCoverHandles
  <2>1. {h \in holds : h[2] = o} \subseteq Users(o)
    BY DEF ReferenceInv, DeviceInv, TypeOK, Users
  <2>2. /\ Cardinality({h \in holds : h[2] = o}) <= Cardinality(Users(o))
        /\ Cardinality({h \in holds : h[2] = o}) \in Nat
    BY <2>1, UsersFinite, FS_Subset, FS_CardinalityType
  <2>3. /\ Cardinality(Users(o)) <= owner_count[o]
        /\ Cardinality(Users(o)) \in Nat /\ owner_count[o] \in Nat
    BY UsersFinite DEF ReferenceInv, ReferencesCoverUsers, DeviceInv, TypeOK
  <2> QED
    BY <2>2, <2>3
<1>2. ReferenceInv => DriverReferencesSound /\ NoStaleHandle /\ NoUseAfterCloseAll
  BY <1>1 DEF ReferenceInv, DeviceInv, DriverReferencesSound
<1> QED
  BY <1>2, ReferenceInit, ReferenceNextInv, PTL DEF Spec

(* The counts of the driver's objects cover the handles that stand for     *)
(* them: the part of DriverSafe that says so.                              *)
THEOREM DriverReferences ==
  ASSUME Forks = FALSE
  PROVE  Spec => []DriverReferencesSound
BY DriverSafe, PTL

(* No handle of a process that has the device open loses its object to the *)
(* last release of others.                                                 *)
THEOREM DriverHandles ==
  ASSUME Forks = FALSE
  PROVE  Spec => []NoStaleHandle
BY DriverSafe, PTL

-----------------------------------------------------------------------------
(* From here on no process has two threads; it may fork.  What is between  *)
(* the open and the assignment of IPC_init, or between the close and the   *)
(* assignment of IPC_cleanup, is known from the step of the one thread.    *)
OneWorker == \A v, w \in Worker : v = w

InTheMiddle == {"open", "store", "forget"}

DescriptorsKnown ==
  /\ \A t \in Thread :
       /\ pc[t] \in {"open", "forget"} => fds[ProcessOf(t)] = {}
       /\ pc[t] = "store" => fds[ProcessOf(t)] = {file[t]}
  /\ \A p \in Process :
       (\A t \in Thread : ProcessOf(t) = p => pc[t] \notin InTheMiddle)
         => fds[p] \subseteq {ipc_driver_fd[p]}

DescriptorInv == TypeOK /\ DescriptorsKnown

LEMMA OneThread ==
  ASSUME OneWorker
  PROVE  \A t, u \in Thread : ProcessOf(t) = ProcessOf(u) => t = u
BY DEF OneWorker, Thread, ProcessOf

(* A step of t that concerns no other process. *)
LEMMA OthersKnown ==
  ASSUME OneWorker, DescriptorInv, NEW t \in Thread,
         \A u \in Thread \ {t} : pc'[u] = pc[u] /\ file'[u] = file[u],
         \A p \in Process \ {ProcessOf(t)} : fds'[p] = fds[p] /\ ipc_driver_fd'[p] = ipc_driver_fd[p],
         /\ pc'[t] \in {"open", "forget"} => fds'[ProcessOf(t)] = {}
         /\ pc'[t] = "store" => fds'[ProcessOf(t)] = {file'[t]}
         /\ pc'[t] \notin InTheMiddle => fds'[ProcessOf(t)] \subseteq {ipc_driver_fd'[ProcessOf(t)]}
  PROVE  DescriptorsKnown'
<1>1. \A u \in Thread : ProcessOf(u) \in Process /\ (u # t => ProcessOf(u) # ProcessOf(t))
  BY OneThread DEF Thread, ProcessOf
<1>2. ASSUME NEW u \in Thread
      PROVE  /\ pc'[u] \in {"open", "forget"} => fds'[ProcessOf(u)] = {}
             /\ pc'[u] = "store" => fds'[ProcessOf(u)] = {file'[u]}
  BY <1>1 DEF DescriptorInv, DescriptorsKnown
<1>3. ASSUME NEW p \in Process, \A u \in Thread : ProcessOf(u) = p => pc'[u] \notin InTheMiddle
      PROVE  fds'[p] \subseteq {ipc_driver_fd'[p]}
  BY <1>1, <1>3 DEF DescriptorInv, DescriptorsKnown
<1> QED
  BY <1>2, <1>3 DEF DescriptorsKnown

LEMMA DescriptorInit == Init => DescriptorInv
<1> SUFFICES ASSUME Init PROVE DescriptorInv
  OBVIOUS
<1>1. TypeOK
  BY DeviceInit DEF DeviceInv
<1>2. DescriptorsKnown
  BY DEF Init, DescriptorsKnown
<1> QED
  BY <1>1, <1>2 DEF DescriptorInv

LEMMA DescriptorNextInv ==
  ASSUME OneWorker
  PROVE  DeviceInv /\ DescriptorsKnown /\ [Next]_vars => DescriptorsKnown'
<1> SUFFICES ASSUME DeviceInv, DescriptorsKnown, [Next]_vars PROVE DescriptorsKnown'
  OBVIOUS
<1>1. TypeOK /\ DescriptorInv
  BY DEF DeviceInv, DescriptorInv
<1>2. \A t \in Thread : ProcessOf(t) \in Process
  BY DEF Thread, ProcessOf
<1>3. \A t \in Thread : pc[t] \notin InTheMiddle => fds[ProcessOf(t)] \subseteq {ipc_driver_fd[ProcessOf(t)]}
  BY <1>2, OneThread DEF DescriptorsKnown
<1>4. ASSUME UNCHANGED <<fds, ipc_driver_fd, pc, file>> PROVE DescriptorsKnown'
  BY <1>4 DEF DescriptorsKnown
<1>5. ASSUME NEW t \in Thread, InitCheck(t) PROVE DescriptorsKnown'
  <2>1. pc[t] = "idle" /\ pc'[t] = "open" /\ \A u \in Thread \ {t} : pc'[u] = pc[u]
    BY <1>1, <1>5 DEF InitCheck, Goto, TypeOK
  <2>2. UNCHANGED <<fds, ipc_driver_fd, file>> /\ ipc_driver_fd[ProcessOf(t)] = NoFile
    BY <1>5 DEF InitCheck, libraryVars
  <2>3. fds[ProcessOf(t)] = {}
    BY <1>1, <1>2, <1>3, <2>1, <2>2, DriverAssumption DEF TypeOK, InTheMiddle
  <2> QED
    BY <1>1, <2>1, <2>2, <2>3, OthersKnown DEF InTheMiddle
<1>6. ASSUME NEW t \in Thread, InitOpen(t) PROVE DescriptorsKnown'
  <2>1. PICK f \in File \ files :
          /\ Goto(t, "open", "store")
          /\ fds' = [fds EXCEPT ![ProcessOf(t)] = @ \cup {f}]
          /\ file' = [file EXCEPT ![t] = f]
          /\ UNCHANGED ipc_driver_fd
    BY <1>6 DEF InitOpen
  <2>2. pc[t] = "open" /\ pc'[t] = "store" /\ file'[t] = f
        /\ \A u \in Thread \ {t} : pc'[u] = pc[u] /\ file'[u] = file[u]
    BY <1>1, <2>1 DEF Goto, TypeOK
  <2>3. fds[ProcessOf(t)] = {}
    BY <2>2 DEF DescriptorsKnown
  <2>4. fds'[ProcessOf(t)] = {f} /\ \A p \in Process \ {ProcessOf(t)} : fds'[p] = fds[p]
    BY <1>1, <1>2, <2>1, <2>3 DEF TypeOK
  <2> QED
    BY <1>1, <2>1, <2>2, <2>4, OthersKnown DEF InTheMiddle
<1>7. ASSUME NEW t \in Thread, InitStore(t) PROVE DescriptorsKnown'
  <2>1. pc[t] = "store" /\ pc'[t] = "idle" /\ \A u \in Thread \ {t} : pc'[u] = pc[u] /\ file'[u] = file[u]
    BY <1>1, <1>7 DEF InitStore, Goto, TypeOK
  <2>2. fds' = fds /\ ipc_driver_fd'[ProcessOf(t)] = file[t]
        /\ \A p \in Process \ {ProcessOf(t)} : ipc_driver_fd'[p] = ipc_driver_fd[p]
    BY <1>1, <1>2, <1>7 DEF InitStore, TypeOK
  <2>3. fds[ProcessOf(t)] = {file[t]}
    BY <2>1 DEF DescriptorsKnown
  <2> QED
    BY <1>1, <2>1, <2>2, <2>3, OthersKnown
<1>8. ASSUME NEW t \in Thread, CleanupCheck(t) \/ IoctlReturn(t) \/ \E o \in Obj : IoctlEnter(t, o)
      PROVE  DescriptorsKnown'
  <2>1. pc[t] \in {"idle", "ioctl"} /\ pc'[t] \in {"close", "idle", "ioctl"}
        /\ \A u \in Thread \ {t} : pc'[u] = pc[u] /\ file'[u] = file[u]
    BY <1>1, <1>8 DEF CleanupCheck, IoctlReturn, IoctlEnter, Goto, TypeOK
  <2>2. UNCHANGED <<fds, ipc_driver_fd>>
    BY <1>8 DEF CleanupCheck, IoctlReturn, IoctlEnter, libraryVars
  <2>3. fds[ProcessOf(t)] \subseteq {ipc_driver_fd[ProcessOf(t)]}
    BY <1>3, <2>1 DEF InTheMiddle
  <2> QED
    BY <1>1, <2>1, <2>2, <2>3, OthersKnown
<1>9. ASSUME NEW t \in Thread, CleanupClose(t) PROVE DescriptorsKnown'
  <2>1. pc[t] = "close" /\ pc'[t] = "forget" /\ \A u \in Thread \ {t} : pc'[u] = pc[u]
    BY <1>1, <1>9 DEF CleanupClose, Goto, TypeOK
  <2>2. UNCHANGED <<ipc_driver_fd, file>> /\ fds'[ProcessOf(t)] = fds[ProcessOf(t)] \ {ipc_driver_fd[ProcessOf(t)]}
        /\ \A p \in Process \ {ProcessOf(t)} : fds'[p] = fds[p]
    BY <1>1, <1>2, <1>9 DEF CleanupClose, TypeOK
  <2>3. fds'[ProcessOf(t)] = {}
    BY <1>3, <2>1, <2>2 DEF InTheMiddle
  <2> QED
    BY <1>1, <2>1, <2>2, <2>3, OthersKnown DEF InTheMiddle
<1>10. ASSUME NEW t \in Thread, CleanupForget(t) PROVE DescriptorsKnown'
  <2>1. pc[t] = "forget" /\ pc'[t] = "idle" /\ \A u \in Thread \ {t} : pc'[u] = pc[u]
    BY <1>1, <1>10 DEF CleanupForget, Goto, TypeOK
  <2>2. UNCHANGED <<fds, file>> /\ \A p \in Process \ {ProcessOf(t)} : ipc_driver_fd'[p] = ipc_driver_fd[p]
    BY <1>1, <1>2, <1>10 DEF CleanupForget, TypeOK
  <2>3. fds[ProcessOf(t)] = {}
    BY <2>1 DEF DescriptorsKnown
  <2> QED
    BY <1>1, <2>1, <2>2, <2>3, OthersKnown
<1>11. ASSUME NEW p \in Process, Exit(p) PROVE DescriptorsKnown'
  <2>1. fds'[p] = {} /\ \A q \in Process \ {p} : fds'[q] = fds[q] /\ ipc_driver_fd'[q] = ipc_driver_fd[q]
    BY <1>1, <1>11 DEF Exit, TypeOK
  <2>2. \A t \in Thread : /\ ProcessOf(t) = p => pc'[t] = "idle"
                          /\ ProcessOf(t) # p => pc'[t] = pc[t] /\ file'[t] = file[t]
    BY <1>11 DEF Exit
  <2> QED
    BY <1>2, <2>1, <2>2 DEF DescriptorsKnown, InTheMiddle
<1>12. ASSUME NEW p \in Process, NEW q \in Process, Fork(p, q) PROVE DescriptorsKnown'
  <2>1. fds'[q] = fds[p] /\ ipc_driver_fd'[q] = ipc_driver_fd[p]
        /\ \A x \in Process \ {q} : fds'[x] = fds[x] /\ ipc_driver_fd'[x] = ipc_driver_fd[x]
    BY <1>1, <1>12 DEF Fork, TypeOK
  <2>2. UNCHANGED <<pc, file>> /\ \A t \in Thread : ProcessOf(t) = q => pc[t] = "idle"
    BY <1>12 DEF Fork, threadVars
  <2>3. fds[p] \subseteq {ipc_driver_fd[p]}
    BY <1>3, <1>12 DEF Fork, InTheMiddle
  <2> QED
    BY <1>2, <2>1, <2>2, <2>3 DEF DescriptorsKnown
<1>13. \A t \in Thread, o \in Obj : IoctlOpen(t, o) \/ IoctlClose(t, o) => UNCHANGED <<fds, ipc_driver_fd, pc, file>>
  BY DEF IoctlOpen, IoctlClose, libraryVars, threadVars
<1>14. \A f \in File : Release(f) => UNCHANGED <<fds, ipc_driver_fd, pc, file>>
  BY DEF Release, ReleaseBegin, ReleaseCloseAll, ReleaseEnd, libraryVars, threadVars
<1>15. UNCHANGED vars => UNCHANGED <<fds, ipc_driver_fd, pc, file>>
  BY DEF vars, libraryVars, threadVars
<1> QED
  BY <1>4, <1>5, <1>6, <1>7, <1>8, <1>9, <1>10, <1>11, <1>12, <1>13, <1>14, <1>15 DEF Next

(* IPC_init and IPC_cleanup of processes of one thread each, which fork    *)
(* and exit at any point: between the calls no process has a descriptor    *)
(* that its library does not know.                                         *)
THEOREM NothingForgotten ==
  ASSUME OneWorker
  PROVE  Spec => []NoForgottenDescriptor
<1>1. TypeOK /\ DescriptorsKnown => NoForgottenDescriptor
  BY DEF DescriptorsKnown, NoForgottenDescriptor, InTheMiddle
<1>2. DeviceInv => TypeOK
  BY DEF DeviceInv
<1>3. Init => DescriptorsKnown
  BY DescriptorInit DEF DescriptorInv
<1> QED
  BY <1>1, <1>2, <1>3, DeviceInit, DeviceNextInv, DescriptorNextInv, PTL DEF Spec
=============================================================================
