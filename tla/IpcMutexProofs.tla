---------------------------- MODULE IpcMutexProofs ----------------------------
(***************************************************************************)
(* Proofs about IpcMutex, for any number of threads, handles, addresses    *)
(* and names.  The reference counting and the types hold whatever signals  *)
(* arrive; mutual exclusion, and with it the refinement of NamedLock,      *)
(* holds when no signal reaches a thread that waits.                       *)
(***************************************************************************)
EXTENDS IpcMutex, IpcRegistryProofs

(* The steps of a mutex use the registry only through its own steps. *)
LEMMA StepsOfRegistry == Next => [RegistryNext]_registryVars
BY DEF Next, Proceed, RegistryNext, registryVars, ipc_mutex_create, ipc_mutex_close,
       LockEnter, LockByOwner, LockByOther, LockDown, LockInterrupted, LockTimeout,
       LockInc, LockSetOwner, UnlockEnter, UnlockByOther, UnlockByOwner,
       UnlockClearOwner, UnlockUp, UnlockDec, Exit, Reuse

LEMMA RegistryOfMutex == Spec => []RegistryInv
<1>1. Init => RegistryInv
  BY RegistryInitInv DEF Init
<1>2. RegistryInv /\ [Next]_vars => RegistryInv'
  BY RegistryStepInv, StepsOfRegistry DEF vars, registryVars
<1> QED
  BY <1>1, <1>2, PTL DEF Spec

LEMMA CallsHaveEntryStep ==
  ASSUME TypeOK, CallsHaveEntry, [Next]_vars
  PROVE  CallsHaveEntry'
<1> USE DEF CallsHaveEntry, TypeOK, RegistryTypeOK, Goto, Step, LockStep, UnlockStep
<1>1. ASSUME NEW t \in Thread, NEW s \in Slot, NEW n \in Name, NEW value \in BOOLEAN,
             ipc_mutex_create(t, s, n, value)
      PROVE  CallsHaveEntry'
  BY <1>1 DEF ipc_mutex_create, OpenExisting, OpenFails, OpenNew
<1>2. ASSUME NEW t \in Thread, NEW s \in Slot, ipc_mutex_close(t, s)
      PROVE  CallsHaveEntry'
  BY <1>2 DEF ipc_mutex_close, Close
<1>3. ASSUME NEW t \in Thread, NEW s \in Slot, LockEnter(t, s) \/ UnlockEnter(t, s)
      PROVE  CallsHaveEntry'
  BY <1>3, RegistryAssumption DEF LockEnter, UnlockEnter, Validate
<1>4. ASSUME NEW t \in Thread,
             LockByOwner(t) \/ LockTimeout(t) \/ LockSetOwner(t) \/ UnlockByOther(t) \/ UnlockDec(t)
      PROVE  CallsHaveEntry'
  BY <1>4 DEF LockByOwner, LockTimeout, LockSetOwner, UnlockByOther, UnlockDec, Return
<1>5. ASSUME NEW t \in Thread,
             \/ LockByOther(t) \/ LockDown(t) \/ LockInterrupted(t) \/ LockInc(t)
             \/ UnlockByOwner(t) \/ UnlockClearOwner(t) \/ UnlockUp(t) \/ Exit(t) \/ Reuse(t)
      PROVE  CallsHaveEntry'
  BY <1>5 DEF LockByOther, LockDown, LockInterrupted, LockInc, UnlockByOwner,
              UnlockClearOwner, UnlockUp, Exit, Reuse, registryVars
<1>6. CASE UNCHANGED vars
  BY <1>6 DEF vars, registryVars
<1> QED
  BY <1>1, <1>2, <1>3, <1>4, <1>5, <1>6 DEF Next, Proceed

LEMMA HistoryTypes ==
  ASSUME TypeOK, NEW a \in Addr, NEW t \in Thread, NEW H \in SUBSET Thread,
         Captures(a, t) \/ Releases(a, t) \/ CapturedBy(a, H)
  PROVE  /\ held' \in [Addr -> SUBSET Thread]
         /\ captures' \in [Addr -> [Thread -> Nat]]
         /\ nested' \in [Addr -> SUBSET Thread]
<1> USE DEF TypeOK
<1>1. captures[a] \in [Thread -> Nat] /\ captures[a][t] \in Nat
  OBVIOUS
<1>2. CASE Captures(a, t)
  BY <1>1, <1>2 DEF Captures
<1>3. CASE Releases(a, t)
  BY <1>1, <1>3 DEF Releases
<1>4. CASE CapturedBy(a, H)
  BY <1>4 DEF CapturedBy
<1> QED
  BY <1>2, <1>3, <1>4

LEMMA TypeStep ==
  ASSUME TypeOK, RegistryInv, CallsHaveEntry, [Next]_vars
  PROVE  TypeOK'
<1> USE DEF TypeOK, Goto, Step, LockStep, UnlockStep
<1>1. RegistryTypeOK'
  BY RegistryStepInv, StepsOfRegistry DEF RegistryInv, vars, registryVars
<1>2. ASSUME NEW t \in Thread, NEW s \in Slot, NEW n \in Name, NEW value \in BOOLEAN,
             ipc_mutex_create(t, s, n, value)
      PROVE  TypeOK'
  <2>1. CASE UNCHANGED mutexVars
    BY <1>1, <1>2, <2>1 DEF ipc_mutex_create, mutexVars, historyVars
  <2>2. ASSUME NEW a \in Addr,
               count' = [count EXCEPT ![a] = IF value THEN 0 ELSE 1],
               m_lockerid' = [m_lockerid EXCEPT ![a] = IF value THEN t ELSE NoTid],
               lock_count' = [lock_count EXCEPT ![a] = IF value THEN 1 ELSE 0],
               CapturedBy(a, IF value THEN {t} ELSE {})
        PROVE  TypeOK'
    <3>1. (IF value THEN {t} ELSE {}) \in SUBSET Thread
      OBVIOUS
    <3> QED
      BY <1>1, <1>2, <2>2, <3>1, HistoryTypes DEF ipc_mutex_create
  <2> QED
    BY <1>2, <2>1, <2>2 DEF ipc_mutex_create
<1>3. ASSUME NEW t \in Thread, NEW s \in Slot, ipc_mutex_close(t, s)
      PROVE  TypeOK'
  <2>1. CASE listed' = listed
    BY <1>1, <1>3, <2>1 DEF ipc_mutex_close, historyVars
  <2>2. CASE listed' # listed
    <3>1. handle[s] \in Addr
      BY <1>3, <2>2 DEF ipc_mutex_close, Close, RegistryInv, RegistryTypeOK
    <3>2. CapturedBy(handle[s], {})
      BY <1>3, <2>2 DEF ipc_mutex_close
    <3> QED
      BY <1>1, <1>3, <3>1, <3>2, HistoryTypes DEF ipc_mutex_close
  <2> QED
    BY <2>1, <2>2
<1>7. ASSUME NEW t \in Thread, NEW s \in Slot, LockEnter(t, s) \/ UnlockEnter(t, s)
      PROVE  TypeOK'
  <2>1. handle[s] \in Addr
    BY <1>7 DEF LockEnter, UnlockEnter, Validate, RegistryInv, RegistryTypeOK
  <2>2. CASE LockEnter(t, s)
    BY <1>1, <2>2 DEF LockEnter, mutexVars, historyVars
  <2>3. CASE UnlockEnter(t, s)
    BY <1>1, <2>1, <2>3, HistoryTypes DEF UnlockEnter
  <2> QED
    BY <1>7, <2>2, <2>3
<1>4. ASSUME NEW t \in Thread, LockDown(t)
      PROVE  TypeOK'
  <2>1. EntryOf(t) \in Addr
    BY <1>4 DEF LockDown, CallsHaveEntry, RegistryInv, RegistryTypeOK, NoUseAfterFree
  <2>2. count[EntryOf(t)] - 1 \in Nat
    BY <1>4, <2>1 DEF LockDown
  <2> QED
    BY <1>1, <1>4, <2>1, <2>2 DEF LockDown, historyVars
<1>5. ASSUME NEW t \in Thread,
             \/ LockInterrupted(t) \/ LockTimeout(t) \/ LockByOther(t) \/ LockInc(t)
             \/ UnlockByOther(t) \/ UnlockByOwner(t) \/ UnlockClearOwner(t) \/ UnlockUp(t)
             \/ UnlockDec(t) \/ Reuse(t)
      PROVE  TypeOK'
  BY <1>1, <1>5
     DEF LockInterrupted, LockTimeout, LockByOther, LockInc, UnlockByOther, UnlockByOwner,
         UnlockClearOwner, UnlockUp, UnlockDec, Reuse, mutexVars, historyVars
<1>8. ASSUME NEW t \in Thread, LockByOwner(t) \/ LockSetOwner(t)
      PROVE  TypeOK'
  <2>1. EntryOf(t) \in Addr
    BY <1>8 DEF LockByOwner, LockSetOwner, CallsHaveEntry, RegistryInv, RegistryTypeOK,
                NoUseAfterFree
  <2>2. Captures(EntryOf(t), t)
    BY <1>8 DEF LockByOwner, LockSetOwner
  <2>3. /\ held' \in [Addr -> SUBSET Thread]
        /\ captures' \in [Addr -> [Thread -> Nat]]
        /\ nested' \in [Addr -> SUBSET Thread]
    BY <2>1, <2>2, HistoryTypes
  <2>4. pc' \in [Thread -> Step]
    BY <1>8 DEF LockByOwner, LockSetOwner
  <2>5. m_lockerid' \in [Addr -> Thread \cup {NoTid}]
    BY <1>8 DEF LockByOwner, LockSetOwner
  <2>6. UNCHANGED <<count, lock_count>>
    BY <1>8 DEF LockByOwner, LockSetOwner
  <2> QED
    BY <1>1, <2>3, <2>4, <2>5, <2>6
<1>9. ASSUME NEW t \in Thread, Exit(t)
      PROVE  TypeOK'
  <2>1. \A a \in Addr : [captures[a] EXCEPT ![t] = 0] \in [Thread -> Nat]
    OBVIOUS
  <2> QED
    BY <1>1, <1>9, <2>1 DEF Exit
<1>6. CASE UNCHANGED vars
  BY <1>1, <1>6 DEF vars, mutexVars, historyVars
<1> QED
  BY <1>2, <1>3, <1>4, <1>5, <1>6, <1>7, <1>8, <1>9 DEF Next, Proceed

(* Every reachable state is well typed, and every call that is under way   *)
(* went through a handle: whatever the threads, the signals, the exits and *)
(* the failures of kzalloc.                                                *)
THEOREM MutexTypes == Spec => [](TypeOK /\ CallsHaveEntry)
<1>1. Init => TypeOK /\ CallsHaveEntry
  BY RegistryInitInv
     DEF Init, TypeOK, RegistryInv, CallsHaveEntry, RegistryInit, Step, LockStep, UnlockStep
<1>2. TypeOK /\ CallsHaveEntry /\ RegistryInv /\ [Next]_vars => (TypeOK /\ CallsHaveEntry)'
  BY TypeStep, CallsHaveEntryStep
<1> QED
  BY <1>1, <1>2, RegistryOfMutex, PTL DEF Spec

(* No thread in a lock or an unlock ever works on a freed mutex, provided  *)
(* that clients keep a handle open while they use it (Unused in Close).    *)
THEOREM MutexNoUseAfterFree == Spec => []NoUseAfterFree
BY RegistryOfMutex, PTL DEF RegistryInv

(* The reference count of a mutex is exact, whatever opens and closes are  *)
(* interleaved and whatever kzalloc does.                                  *)
THEOREM MutexReferences == Spec => []RefCountExact
BY RegistryOfMutex, PTL DEF RegistryInv

(* A name stands for one mutex: two creates of it, or a create and the     *)
(* last close, never make two entries, nor find one that is going.         *)
THEOREM MutexNames == Spec => []OneObjectPerName
BY RegistryOfMutex, PTL DEF RegistryInv

-----------------------------------------------------------------------------
(* Mutual exclusion.  StateOK collects what the steps below start from. *)
StateOK == TypeOK /\ RegistryInv /\ MutexInv

LEMMA CallEntry ==
  ASSUME TypeOK, RegistryInv, CallsHaveEntry, NEW t \in Thread,
         pc[t] \in LockStep \cup UnlockStep
  PROVE  via[t] \in Slot /\ EntryOf(t) \in listed /\ EntryOf(t) \in Addr
BY DEF TypeOK, RegistryInv, RegistryTypeOK, CallsHaveEntry, NoUseAfterFree, EntryOf

LEMMA EntryStable ==
  ASSUME TypeOK, RegistryInv, [RegistryNext]_registryVars, NEW t \in Thread,
         via[t] # NoSlot, via'[t] # NoSlot
  PROVE  EntryOf(t)' = EntryOf(t) /\ via'[t] = via[t]
<1> USE DEF TypeOK, RegistryInv, RegistryTypeOK, NoUseAfterFree, EntryOf
<1>1. via[t] \in Slot /\ handle[via[t]] \in Addr
  OBVIOUS
<1>2. ASSUME NEW s \in Slot, handle[s] = NoHandle \/ Unused(s),
             NEW v, handle' = [handle EXCEPT ![s] = v], via' = via
      PROVE  EntryOf(t)' = EntryOf(t)
  BY <1>1, <1>2, RegistryAssumption DEF Unused
<1> QED
  BY <1>1, <1>2, RegistryAssumption
     DEF RegistryNext, OpenExisting, OpenFails, OpenNew, Close, Return, Validate, registryVars

LEMMA CreateInv ==
  ASSUME StateOK, NEW t \in Thread, NEW s \in Slot, NEW n \in Name, NEW value \in BOOLEAN,
         ipc_mutex_create(t, s, n, value), CallsHaveEntry'
  PROVE  MutexInv'
<1> USE DEF StateOK, MutexInv
<1>1. \A u \in Thread : pc[u] \in LockStep \cup UnlockStep =>
        /\ EntryOf(u)' = EntryOf(u)
        /\ EntryOf(u) \in listed
  <2> SUFFICES ASSUME NEW u \in Thread, pc[u] \in LockStep \cup UnlockStep
               PROVE  EntryOf(u)' = EntryOf(u) /\ EntryOf(u) \in listed
    OBVIOUS
  <2>1. [RegistryNext]_registryVars
    BY DEF ipc_mutex_create, RegistryNext
  <2>2. via[u] # NoSlot /\ via' = via
    BY DEF CallsHaveEntry, ipc_mutex_create, OpenExisting, OpenFails, OpenNew
  <2> QED
    BY <2>1, <2>2, EntryStable, CallEntry
<1>2. pc' = pc
  BY DEF ipc_mutex_create
<1>3. CASE UNCHANGED mutexVars /\ listed' = listed
  BY <1>1, <1>2, <1>3
     DEF mutexVars, historyVars, UnrecordedToken, OneUnrecorded, RecordedToken, BinaryCount, ReleaseUnderway,
         HolderIsRecorded, NeverLost, At, Unrecorded, LockStep, UnlockStep
<1>4. ASSUME NEW a \in Addr, OpenNew(s, n, a),
             count' = [count EXCEPT ![a] = IF value THEN 0 ELSE 1],
             m_lockerid' = [m_lockerid EXCEPT ![a] = IF value THEN t ELSE NoTid],
             CapturedBy(a, IF value THEN {t} ELSE {})
      PROVE  MutexInv'
  <2>1. a \notin listed /\ listed' = listed \cup {a}
    BY <1>4 DEF OpenNew
  <2>2. \A b \in listed : /\ b \in Addr /\ b # a
                          /\ count'[b] = count[b]
                          /\ m_lockerid'[b] = m_lockerid[b]
                          /\ held'[b] = held[b]
    BY <1>4, <2>1 DEF TypeOK, RegistryTypeOK, CapturedBy
  <2>3. /\ count'[a] = IF value THEN 0 ELSE 1
        /\ m_lockerid'[a] = IF value THEN t ELSE NoTid
        /\ held'[a] = IF value THEN {t} ELSE {}
    BY <1>4 DEF TypeOK, CapturedBy
  <2>4. UnrecordedToken' /\ OneUnrecorded' /\ ReleaseUnderway'
    BY <1>1, <1>2, <2>2 DEF UnrecordedToken, OneUnrecorded, ReleaseUnderway, Unrecorded,
                            LockStep, UnlockStep
  <2>5. RecordedToken' /\ BinaryCount' /\ HolderIsRecorded'
    BY <2>1, <2>2, <2>3, MutexAssumption DEF RecordedToken, BinaryCount, HolderIsRecorded
  <2>6. NeverLost'
    BY <1>1, <1>2, <2>1, <2>2, <2>3, MutexAssumption
       DEF NeverLost, At, LockStep, UnlockStep
  <2> QED
    BY <2>4, <2>5, <2>6
<1> QED
  BY <1>3, <1>4 DEF ipc_mutex_create, OpenExisting, OpenFails

LEMMA CloseHandleInv ==
  ASSUME StateOK, NEW t \in Thread, NEW s \in Slot, ipc_mutex_close(t, s)
  PROVE  MutexInv'
<1> USE DEF StateOK, MutexInv
<1>1. /\ pc' = pc /\ via' = via
      /\ UNCHANGED <<count, m_lockerid>>
      /\ listed' \subseteq listed
  BY DEF ipc_mutex_close, Close
<1>4. /\ \A a \in listed' : held'[a] = held[a]
      /\ \A a \in Addr : held'[a] \subseteq held[a]
  <2>1. CASE listed' = listed
    BY <2>1 DEF ipc_mutex_close, historyVars
  <2>2. CASE listed' # listed
    <3>1. handle[s] \in listed /\ listed' = listed \ {handle[s]}
      BY <2>2 DEF ipc_mutex_close, Close
    <3>2. held' = [held EXCEPT ![handle[s]] = {}]
      BY <2>2 DEF ipc_mutex_close, CapturedBy
    <3> QED
      BY <3>1, <3>2 DEF TypeOK, RegistryInv, RegistryTypeOK
  <2> QED
    BY <2>1, <2>2
<1>2. \A u \in Thread : pc[u] \in LockStep \cup UnlockStep => EntryOf(u)' = EntryOf(u)
  <2> SUFFICES ASSUME NEW u \in Thread, pc[u] \in LockStep \cup UnlockStep
               PROVE  EntryOf(u)' = EntryOf(u)
    OBVIOUS
  <2>1. [RegistryNext]_registryVars
    BY DEF ipc_mutex_close, RegistryNext
  <2>2. via[u] # NoSlot
    BY DEF CallsHaveEntry
  <2> QED
    BY <1>1, <2>1, <2>2, EntryStable
<1>3. CallsHaveEntry'
  BY <1>1 DEF CallsHaveEntry
<1>5. UnrecordedToken' /\ OneUnrecorded' /\ RecordedToken' /\ BinaryCount' /\ NeverLost'
  BY <1>1, <1>2
     DEF UnrecordedToken, OneUnrecorded, RecordedToken, BinaryCount, NeverLost, At, Unrecorded,
         LockStep, UnlockStep
<1>6. ReleaseUnderway' /\ HolderIsRecorded'
  BY <1>1, <1>2, <1>4, CallEntry
     DEF ReleaseUnderway, HolderIsRecorded, LockStep, UnlockStep
<1> QED
  BY <1>3, <1>5, <1>6

(* A thread that enters a call, or that leaves one without having changed  *)
(* the mutex.                                                              *)
LEMMA EnterInv ==
  ASSUME StateOK, NEW t \in Thread, NEW s \in Slot, LockEnter(t, s) \/ UnlockEnter(t, s),
         CallsHaveEntry'
  PROVE  MutexInv'
<1> USE DEF StateOK, MutexInv
<1>1. /\ pc[t] = "idle" /\ handle[s] \in listed /\ handle[s] \in Addr
      /\ via' = [via EXCEPT ![t] = s]
      /\ UNCHANGED <<listed, handle, count, m_lockerid, lock_count>>
      /\ \/ pc' = [pc EXCEPT ![t] = "checkowner"] /\ held' = held
         \/ /\ pc' = [pc EXCEPT ![t] = "compare"]
            /\ held' = [held EXCEPT ![handle[s]] = @ \ {t}]
  BY DEF LockEnter, UnlockEnter, Goto, Validate, RegistryInv, RegistryTypeOK, mutexVars,
         historyVars, Releases
<1>2. EntryOf(t)' = handle[s]
  BY <1>1 DEF EntryOf, TypeOK, RegistryTypeOK
<1>3. \A u \in Thread : u # t => EntryOf(u)' = EntryOf(u) /\ pc'[u] = pc[u]
  BY <1>1 DEF EntryOf, TypeOK, RegistryTypeOK
<1>4. /\ pc'[t] \in {"checkowner", "compare"}
      /\ \A a \in Addr : held'[a] \subseteq held[a]
      /\ pc'[t] = "compare" => t \notin held'[handle[s]]
  <2>1. CASE held' = held /\ pc' = [pc EXCEPT ![t] = "checkowner"]
    BY <2>1 DEF TypeOK
  <2>2. CASE pc' = [pc EXCEPT ![t] = "compare"] /\ held' = [held EXCEPT ![handle[s]] = @ \ {t}]
    BY <1>1, <2>2 DEF TypeOK
  <2> QED
    BY <1>1, <2>1, <2>2
<1>5. UnrecordedToken' /\ OneUnrecorded' /\ RecordedToken' /\ BinaryCount'
  BY <1>1, <1>3, <1>4 DEF UnrecordedToken, OneUnrecorded, RecordedToken, BinaryCount, Unrecorded
<1>6. ReleaseUnderway'
  <2> SUFFICES ASSUME NEW u \in Thread
               PROVE  /\ pc'[u] \in {"compare", "clearowner"} => u \notin held'[EntryOf(u)']
                      /\ pc'[u] = "clearowner" => m_lockerid'[EntryOf(u)'] = u
    BY DEF ReleaseUnderway
  <2>1. CASE u = t
    BY <1>2, <1>4, <2>1
  <2>2. CASE u # t
    BY <1>1, <1>3, <1>4, <2>2, CallEntry DEF ReleaseUnderway, LockStep, UnlockStep
  <2> QED
    BY <2>1, <2>2
<1>7. HolderIsRecorded'
  BY <1>1, <1>4 DEF HolderIsRecorded, RegistryInv, RegistryTypeOK
<1>8. NeverLost'
  BY <1>1, <1>3 DEF NeverLost, At
<1> QED
  BY <1>5, <1>6, <1>7, <1>8

(* The steps of a call that leave the semaphore and the record alone. *)
LEMMA QuietInv ==
  ASSUME StateOK, NEW t \in Thread, CallsHaveEntry',
         \/ LockByOwner(t) \/ LockByOther(t) \/ LockTimeout(t) \/ LockInc(t)
         \/ UnlockByOther(t) \/ UnlockByOwner(t) \/ UnlockDec(t) \/ Exit(t) \/ Reuse(t)
  PROVE  MutexInv'
<1> USE DEF StateOK, MutexInv
<1>1. /\ UNCHANGED <<listed, handle, count, m_lockerid>>
      /\ \A u \in Thread : u # t => EntryOf(u)' = EntryOf(u) /\ pc'[u] = pc[u]
  BY DEF LockByOwner, LockByOther, LockTimeout, LockInc, UnlockByOther, UnlockByOwner, UnlockDec,
         Exit, Reuse, Goto, Return, EntryOf, TypeOK, RegistryTypeOK, registryVars, mutexVars, historyVars
<1>2. /\ pc'[t] \in {"idle", "exited", "down", "down_timeout", "setowner", "clearowner"}
      /\ pc[t] \notin {"setowner", "up"}
      /\ pc[t] = "inc" <=> pc'[t] = "setowner"
      /\ pc'[t] = "setowner" => EntryOf(t)' = EntryOf(t)
  BY DEF LockByOwner, LockByOther, LockTimeout, LockInc, UnlockByOther, UnlockByOwner, UnlockDec,
         Exit, Reuse, Goto, EntryOf, TypeOK, registryVars
<1>3. pc'[t] = "clearowner" =>
        /\ EntryOf(t)' = EntryOf(t) /\ pc[t] = "compare"
        /\ m_lockerid[EntryOf(t)] = t /\ held' = held
  BY DEF LockByOwner, LockByOther, LockTimeout, LockInc, UnlockByOther, UnlockByOwner, UnlockDec,
         Exit, Reuse, Goto, EntryOf, TypeOK, registryVars, mutexVars, historyVars
<1>4. \A a \in Addr :
        \/ held'[a] \subseteq held[a]
        \/ held'[a] = held[a] \cup {t} /\ m_lockerid[a] = t
  <2>1. CASE LockByOwner(t)
    BY <2>1 DEF LockByOwner, Captures, TypeOK
  <2>2. CASE Exit(t)
    BY <2>2 DEF Exit, TypeOK
  <2>3. CASE held' = held
    BY <2>3
  <2> QED
    BY <2>1, <2>2, <2>3
       DEF LockByOther, LockTimeout, LockInc, UnlockByOther, UnlockByOwner, UnlockDec,
           Reuse, mutexVars, historyVars
<1>5. UnrecordedToken' /\ OneUnrecorded' /\ RecordedToken' /\ BinaryCount'
  BY <1>1, <1>2 DEF UnrecordedToken, OneUnrecorded, RecordedToken, BinaryCount, Unrecorded
<1>6. ReleaseUnderway'
  <2> SUFFICES ASSUME NEW u \in Thread
               PROVE  /\ pc'[u] \in {"compare", "clearowner"} => u \notin held'[EntryOf(u)']
                      /\ pc'[u] = "clearowner" => m_lockerid'[EntryOf(u)'] = u
    BY DEF ReleaseUnderway
  <2>1. CASE u = t
    BY <1>1, <1>2, <1>3, <2>1 DEF ReleaseUnderway
  <2>2. CASE u # t
    BY <1>1, <1>4, <2>2, CallEntry DEF ReleaseUnderway, LockStep, UnlockStep
  <2> QED
    BY <2>1, <2>2
<1>7. HolderIsRecorded'
  BY <1>1, <1>4 DEF HolderIsRecorded, RegistryInv, RegistryTypeOK
<1>8. NeverLost'
  BY <1>1, <1>2 DEF NeverLost, At
<1> QED
  BY <1>5, <1>6, <1>7, <1>8

(* Taking the semaphore: nobody else can have its one token. *)
LEMMA DownInv ==
  ASSUME StateOK, NEW t \in Thread, LockDown(t), CallsHaveEntry'
  PROVE  MutexInv'
<1> USE DEF StateOK, MutexInv
<1> DEFINE a == EntryOf(t)
<1>1. /\ pc[t] \in {"down", "down_timeout"} /\ pc'[t] = "inc"
      /\ count[a] > 0 /\ count' = [count EXCEPT ![a] = @ - 1]
      /\ UNCHANGED <<listed, handle, via, m_lockerid, held>>
      /\ \A u \in Thread : u # t => pc'[u] = pc[u]
  BY DEF LockDown, Goto, TypeOK, registryVars, historyVars
<1>2. a \in listed /\ a \in Addr
  BY <1>1, CallEntry DEF LockStep, UnlockStep
<1>3. count[a] = 1 /\ count'[a] = 0 /\ m_lockerid[a] = NoTid
  BY <1>1, <1>2 DEF BinaryCount, RecordedToken, TypeOK
<1>4. \A b \in Addr : b # a => count'[b] = count[b]
  BY <1>1 DEF TypeOK
<1>5. \A u \in Thread : EntryOf(u)' = EntryOf(u)
  BY <1>1 DEF EntryOf
<1>6. \A u \in Thread : pc[u] \in Unrecorded => EntryOf(u) # a
  BY <1>3 DEF UnrecordedToken
<1>7. UnrecordedToken'
  <2> SUFFICES ASSUME NEW u \in Thread, pc'[u] \in Unrecorded
               PROVE  m_lockerid'[EntryOf(u)'] = NoTid /\ count'[EntryOf(u)'] = 0
    BY DEF UnrecordedToken
  <2>1. CASE u = t
    BY <1>1, <1>3, <1>5, <2>1
  <2>2. CASE u # t
    BY <1>1, <1>4, <1>5, <1>6, <2>2, CallEntry
       DEF UnrecordedToken, Unrecorded, LockStep, UnlockStep
  <2> QED
    BY <2>1, <2>2
<1>8. OneUnrecorded'
  BY <1>1, <1>5, <1>6 DEF OneUnrecorded
<1>9. RecordedToken' /\ BinaryCount' /\ ReleaseUnderway' /\ HolderIsRecorded'
  BY <1>1, <1>2, <1>3, <1>4, <1>5
     DEF RecordedToken, BinaryCount, ReleaseUnderway, HolderIsRecorded, RegistryInv, RegistryTypeOK
<1>10. NeverLost'
  <2> SUFFICES ASSUME NEW b \in listed, count'[b] = 0, m_lockerid[b] = NoTid
               PROVE  \E u \in Thread :
                        pc'[u] \in {"inc", "setowner", "up"} /\ EntryOf(u)' = b
    BY <1>1 DEF NeverLost, At
  <2>1. CASE b = a
    BY <1>1, <1>5, <2>1
  <2>2. CASE b # a
    BY <1>1, <1>4, <1>5, <2>2 DEF NeverLost, At, RegistryInv, RegistryTypeOK
  <2> QED
    BY <2>1, <2>2
<1> QED
  BY <1>7, <1>8, <1>9, <1>10

(* Recording oneself: nobody holds the mutex, so nobody's record is lost. *)
LEMMA SetOwnerInv ==
  ASSUME StateOK, NEW t \in Thread, LockSetOwner(t), CallsHaveEntry'
  PROVE  MutexInv'
<1> USE DEF StateOK, MutexInv
<1> DEFINE a == EntryOf(t)
<1>1. /\ pc[t] = "setowner" /\ pc'[t] = "idle"
      /\ m_lockerid' = [m_lockerid EXCEPT ![a] = t]
      /\ held' = [held EXCEPT ![a] = @ \cup {t}]
      /\ UNCHANGED <<listed, handle, count>>
      /\ \A u \in Thread : u # t => pc'[u] = pc[u] /\ EntryOf(u)' = EntryOf(u)
  BY DEF LockSetOwner, Captures, Goto, Return, TypeOK, RegistryTypeOK, EntryOf
<1>2. a \in listed /\ a \in Addr
  BY <1>1, CallEntry DEF LockStep, UnlockStep
<1>3. count[a] = 0 /\ m_lockerid[a] = NoTid /\ m_lockerid'[a] = t
  BY <1>1, <1>2 DEF UnrecordedToken, Unrecorded, TypeOK
<1>4. held[a] = {} /\ held'[a] = {t}
  BY <1>1, <1>2, <1>3, MutexAssumption DEF HolderIsRecorded, TypeOK
<1>5. \A b \in Addr : b # a => m_lockerid'[b] = m_lockerid[b] /\ held'[b] = held[b]
  BY <1>1 DEF TypeOK
<1>6. \A u \in Thread : u # t /\ pc[u] \in Unrecorded => EntryOf(u) # a
  BY <1>1 DEF OneUnrecorded, Unrecorded
<1>7. UnrecordedToken' /\ OneUnrecorded'
  BY <1>1, <1>5, <1>6, CallEntry
     DEF UnrecordedToken, OneUnrecorded, Unrecorded, LockStep, UnlockStep
<1>8. RecordedToken' /\ BinaryCount' /\ HolderIsRecorded'
  BY <1>1, <1>3, <1>4, <1>5
     DEF RecordedToken, BinaryCount, HolderIsRecorded, RegistryInv, RegistryTypeOK
<1>9. ReleaseUnderway'
  <2> SUFFICES ASSUME NEW u \in Thread, u # t, pc[u] \in {"compare", "clearowner"}
               PROVE  /\ u \notin held'[EntryOf(u)]
                      /\ pc[u] = "clearowner" => m_lockerid'[EntryOf(u)] = u
    BY <1>1 DEF ReleaseUnderway
  <2>1. CASE EntryOf(u) = a
    BY <1>3, <1>4, <2>1, MutexAssumption DEF ReleaseUnderway
  <2>2. CASE EntryOf(u) # a
    BY <1>5, <2>2, CallEntry DEF ReleaseUnderway, LockStep, UnlockStep
  <2> QED
    BY <2>1, <2>2
<1>10. NeverLost'
  <2> SUFFICES ASSUME NEW b \in listed, count[b] = 0, m_lockerid'[b] = NoTid
               PROVE  \E u \in Thread :
                        pc'[u] \in {"inc", "setowner", "up"} /\ EntryOf(u)' = b
    BY <1>1 DEF NeverLost, At
  <2>1. b # a
    BY <1>3, MutexAssumption
  <2> QED
    BY <1>1, <1>5, <2>1 DEF NeverLost, At, RegistryInv, RegistryTypeOK
<1> QED
  BY <1>7, <1>8, <1>9, <1>10

(* Clearing the record: the caller was the owner and no longer relies on  *)
(* the mutex, and it has the token until it gives it back.                *)
LEMMA ClearOwnerInv ==
  ASSUME StateOK, NEW t \in Thread, UnlockClearOwner(t), CallsHaveEntry'
  PROVE  MutexInv'
<1> USE DEF StateOK, MutexInv
<1> DEFINE a == EntryOf(t)
<1>1. /\ pc[t] = "clearowner" /\ pc'[t] = "up"
      /\ m_lockerid' = [m_lockerid EXCEPT ![a] = NoTid]
      /\ UNCHANGED <<listed, handle, via, count, held>>
      /\ \A u \in Thread : u # t => pc'[u] = pc[u]
  BY DEF UnlockClearOwner, Goto, TypeOK, registryVars, historyVars
<1>2. a \in listed /\ a \in Addr
  BY <1>1, CallEntry DEF LockStep, UnlockStep
<1>3. m_lockerid[a] = t /\ m_lockerid'[a] = NoTid /\ count[a] = 0
  BY <1>1, <1>2, MutexAssumption DEF ReleaseUnderway, RecordedToken, TypeOK
<1>4. held[a] = {}
  BY <1>1, <1>2, <1>3 DEF ReleaseUnderway, HolderIsRecorded, TypeOK
<1>5. \A b \in Addr : b # a => m_lockerid'[b] = m_lockerid[b]
  BY <1>1 DEF TypeOK
<1>6. \A u \in Thread : EntryOf(u)' = EntryOf(u)
  BY <1>1 DEF EntryOf
<1>7. \A u \in Thread : pc[u] \in Unrecorded => EntryOf(u) # a
  BY <1>3, MutexAssumption DEF UnrecordedToken
<1>8. UnrecordedToken'
  <2> SUFFICES ASSUME NEW u \in Thread, pc'[u] \in Unrecorded
               PROVE  m_lockerid'[EntryOf(u)] = NoTid /\ count[EntryOf(u)] = 0
    BY <1>1, <1>6 DEF UnrecordedToken
  <2>1. CASE u = t
    BY <1>3, <2>1
  <2>2. CASE u # t
    BY <1>1, <1>5, <1>7, <2>2, CallEntry DEF UnrecordedToken, Unrecorded, LockStep, UnlockStep
  <2> QED
    BY <2>1, <2>2
<1>9. OneUnrecorded'
  BY <1>1, <1>6, <1>7 DEF OneUnrecorded
<1>10. RecordedToken' /\ BinaryCount' /\ HolderIsRecorded'
  BY <1>1, <1>3, <1>4, <1>5
     DEF RecordedToken, BinaryCount, HolderIsRecorded, RegistryInv, RegistryTypeOK
<1>11. ReleaseUnderway'
  <2> SUFFICES ASSUME NEW u \in Thread, u # t, pc[u] \in {"compare", "clearowner"}
               PROVE  /\ u \notin held[EntryOf(u)]
                      /\ pc[u] = "clearowner" => m_lockerid'[EntryOf(u)] = u
    BY <1>1, <1>6 DEF ReleaseUnderway
  <2>1. pc[u] = "clearowner" => EntryOf(u) # a
    BY <1>3 DEF ReleaseUnderway
  <2> QED
    BY <1>5, <2>1, CallEntry DEF ReleaseUnderway, LockStep, UnlockStep
<1>12. NeverLost'
  <2> SUFFICES ASSUME NEW b \in listed, count[b] = 0, m_lockerid'[b] = NoTid
               PROVE  \E u \in Thread :
                        pc'[u] \in {"inc", "setowner", "up"} /\ EntryOf(u)' = b
    BY <1>1 DEF NeverLost, At
  <2>1. CASE b = a
    BY <1>1, <1>6, <2>1
  <2>2. CASE b # a
    BY <1>1, <1>5, <1>6, <2>2 DEF NeverLost, At, RegistryInv, RegistryTypeOK
  <2> QED
    BY <2>1, <2>2
<1> QED
  BY <1>8, <1>9, <1>10, <1>11, <1>12

(* Giving the semaphore back: the token was the caller's alone. *)
LEMMA UpInv ==
  ASSUME StateOK, NEW t \in Thread, UnlockUp(t), CallsHaveEntry'
  PROVE  MutexInv'
<1> USE DEF StateOK, MutexInv
<1> DEFINE a == EntryOf(t)
<1>1. /\ pc[t] = "up" /\ pc'[t] = "dec"
      /\ count' = [count EXCEPT ![a] = @ + 1]
      /\ UNCHANGED <<listed, handle, via, m_lockerid, held>>
      /\ \A u \in Thread : u # t => pc'[u] = pc[u]
  BY DEF UnlockUp, Goto, TypeOK, registryVars, historyVars
<1>2. a \in listed /\ a \in Addr
  BY <1>1, CallEntry DEF LockStep, UnlockStep
<1>3. count[a] = 0 /\ m_lockerid[a] = NoTid /\ count'[a] = 1
  BY <1>1, <1>2 DEF UnrecordedToken, Unrecorded, TypeOK
<1>4. \A b \in Addr : b # a => count'[b] = count[b]
  BY <1>1 DEF TypeOK
<1>5. \A u \in Thread : EntryOf(u)' = EntryOf(u)
  BY <1>1 DEF EntryOf
<1>6. \A u \in Thread : u # t /\ pc[u] \in Unrecorded => EntryOf(u) # a
  BY <1>1 DEF OneUnrecorded, Unrecorded
<1>7. UnrecordedToken' /\ OneUnrecorded'
  BY <1>1, <1>4, <1>5, <1>6, CallEntry
     DEF UnrecordedToken, OneUnrecorded, Unrecorded, LockStep, UnlockStep
<1>8. RecordedToken' /\ BinaryCount' /\ HolderIsRecorded' /\ ReleaseUnderway'
  BY <1>1, <1>3, <1>4, <1>5
     DEF RecordedToken, BinaryCount, HolderIsRecorded, ReleaseUnderway, RegistryInv, RegistryTypeOK
<1>9. NeverLost'
  <2> SUFFICES ASSUME NEW b \in listed, count'[b] = 0, m_lockerid[b] = NoTid
               PROVE  \E u \in Thread :
                        pc'[u] \in {"inc", "setowner", "up"} /\ EntryOf(u)' = b
    BY <1>1 DEF NeverLost, At
  <2>1. b # a
    BY <1>3
  <2> QED
    BY <1>1, <1>4, <1>5, <2>1 DEF NeverLost, At, RegistryInv, RegistryTypeOK
<1> QED
  BY <1>7, <1>8, <1>9

LEMMA MutexStep ==
  ASSUME StateOK, Signalled = {}, [Next]_vars
  PROVE  MutexInv'
<1>1. CallsHaveEntry'
  BY CallsHaveEntryStep DEF StateOK, MutexInv
<1>2. ~ \E t \in Thread : LockInterrupted(t)
  BY DEF LockInterrupted
<1>3. CASE UNCHANGED vars
  <2>1. \A t \in Thread : EntryOf(t)' = EntryOf(t)
    BY <1>3 DEF vars, registryVars, EntryOf
  <2> QED
    BY <1>1, <1>3, <2>1
       DEF vars, registryVars, mutexVars, StateOK, MutexInv, UnrecordedToken, OneUnrecorded,
           RecordedToken, BinaryCount, ReleaseUnderway, HolderIsRecorded, NeverLost, At,
           historyVars
<1> QED
  BY <1>1, <1>2, <1>3, CreateInv, CloseHandleInv, EnterInv, QuietInv, DownInv, SetOwnerInv,
     ClearOwnerInv, UpInv
     DEF Next, Proceed

(* The histories agree, whatever the driver does: what it counts wrongly   *)
(* is not what the clients count.                                          *)
LEMMA CapturesStep ==
  ASSUME TypeOK, RegistryInv, CallsHaveEntry, CapturesKnown, [Next]_vars
  PROVE  CapturesKnown'
<1> USE DEF TypeOK
<1>1. ASSUME NEW a \in Addr, NEW t \in Thread, Captures(a, t)
      PROVE  CapturesKnown'
  <2>1. /\ captures'[a][t] = captures[a][t] + 1 /\ captures[a][t] \in Nat
        /\ held'[a] = held[a] \cup {t}
        /\ nested'[a] = IF captures[a][t] > 0 THEN nested[a] \cup {t} ELSE nested[a]
        /\ \A u \in Thread : u # t => captures'[a][u] = captures[a][u]
        /\ \A b \in Addr : b # a => /\ captures'[b] = captures[b] /\ held'[b] = held[b]
                                   /\ nested'[b] = nested[b]
    BY <1>1 DEF Captures
  <2> QED
    BY <2>1 DEF CapturesKnown
<1>2. ASSUME NEW a \in Addr, NEW t \in Thread, Releases(a, t)
      PROVE  CapturesKnown'
  <2>1. /\ captures'[a][t] = IF captures[a][t] > 0 THEN captures[a][t] - 1 ELSE 0
        /\ captures[a][t] \in Nat
        /\ held'[a] = held[a] \ {t}
        /\ nested'[a] = IF captures[a][t] > 1 THEN nested[a] ELSE nested[a] \ {t}
        /\ \A u \in Thread : u # t => captures'[a][u] = captures[a][u]
        /\ \A b \in Addr : b # a => /\ captures'[b] = captures[b] /\ held'[b] = held[b]
                                   /\ nested'[b] = nested[b]
    BY <1>2 DEF Releases
  <2> QED
    BY <2>1 DEF CapturesKnown
<1>3. ASSUME NEW a \in Addr, NEW H \in SUBSET Thread, CapturedBy(a, H)
      PROVE  CapturesKnown'
  <2>1. /\ \A u \in Thread : captures'[a][u] = IF u \in H THEN 1 ELSE 0
        /\ held'[a] = H
        /\ \A b \in Addr : b # a => /\ captures'[b] = captures[b] /\ held'[b] = held[b]
                                   /\ nested'[b] = nested[b]
    BY <1>3 DEF CapturedBy
  <2> QED
    BY <2>1 DEF CapturesKnown
<1>4. ASSUME NEW t \in Thread, Exit(t)
      PROVE  CapturesKnown'
  <2>1. \A a \in Addr :
          /\ captures'[a][t] = 0 /\ t \notin held'[a]
          /\ \A u \in Thread \ {t} :
               /\ captures'[a][u] = captures[a][u]
               /\ u \in held'[a] <=> u \in held[a]
               /\ u \in nested'[a] <=> u \in nested[a]
    BY <1>4 DEF Exit
  <2> QED
    BY <2>1 DEF CapturesKnown
<1>5. ASSUME UNCHANGED historyVars
      PROVE  CapturesKnown'
  BY <1>5 DEF historyVars, CapturesKnown
<1>6. ASSUME NEW t \in Thread, NEW s \in Slot, NEW n \in Name, NEW value \in BOOLEAN,
             ipc_mutex_create(t, s, n, value)
      PROVE  CapturesKnown'
  <2>1. (IF value THEN {t} ELSE {}) \in SUBSET Thread
    OBVIOUS
  <2> QED
    BY <1>3, <1>5, <1>6, <2>1 DEF ipc_mutex_create, mutexVars
<1>7. ASSUME NEW t \in Thread, NEW s \in Slot, ipc_mutex_close(t, s)
      PROVE  CapturesKnown'
  <2>1. listed' # listed => handle[s] \in Addr
    BY <1>7 DEF ipc_mutex_close, Close, RegistryInv, RegistryTypeOK
  <2> QED
    BY <1>3, <1>5, <1>7, <2>1 DEF ipc_mutex_close
<1>8. ASSUME NEW t \in Thread, NEW s \in Slot, UnlockEnter(t, s)
      PROVE  CapturesKnown'
  <2>1. handle[s] \in Addr
    BY <1>8 DEF UnlockEnter, Validate, RegistryInv, RegistryTypeOK
  <2> QED
    BY <1>2, <1>8, <2>1 DEF UnlockEnter
<1>9. ASSUME NEW t \in Thread, LockByOwner(t) \/ LockSetOwner(t)
      PROVE  CapturesKnown'
  <2>1. EntryOf(t) \in Addr
    BY <1>9, CallEntry DEF LockByOwner, LockSetOwner, Goto, LockStep
  <2> QED
    BY <1>1, <1>9, <2>1 DEF LockByOwner, LockSetOwner
<1>10. ASSUME NEW t \in Thread, NEW s \in Slot, LockEnter(t, s)
       PROVE  CapturesKnown'
  BY <1>5, <1>10 DEF LockEnter, mutexVars
<1>11. CASE UNCHANGED vars
  BY <1>5, <1>11 DEF vars, mutexVars
<1>12. ASSUME NEW t \in Thread,
              \/ LockByOther(t) \/ LockDown(t) \/ LockInterrupted(t)
              \/ LockTimeout(t) \/ LockInc(t) \/ UnlockByOther(t) \/ UnlockByOwner(t)
              \/ UnlockClearOwner(t) \/ UnlockUp(t) \/ UnlockDec(t) \/ Reuse(t)
       PROVE  CapturesKnown'
  BY <1>5, <1>12 DEF LockByOther, LockDown, LockInterrupted, LockTimeout, LockInc,
     UnlockByOther, UnlockByOwner, UnlockClearOwner, UnlockUp, UnlockDec, Reuse, mutexVars
<1> QED
  BY <1>4, <1>6, <1>7, <1>8, <1>9, <1>10, <1>11, <1>12 DEF Next, Proceed

LEMMA CapturesInvariant == Spec => []CapturesKnown
<1>1. Init => CapturesKnown
  BY DEF Init, CapturesKnown
<1>2. TypeOK /\ CallsHaveEntry /\ RegistryInv /\ CapturesKnown /\ [Next]_vars => CapturesKnown'
  BY CapturesStep
<1> QED
  BY <1>1, <1>2, MutexTypes, RegistryOfMutex, PTL DEF Spec

LEMMA MutexInvariant ==
  ASSUME Signalled = {}
  PROVE  Spec => []StateOK
<1>1. Init => MutexInv
  BY DEF Init, RegistryInit, MutexInv, CallsHaveEntry, UnrecordedToken, OneUnrecorded,
         RecordedToken, BinaryCount, ReleaseUnderway, HolderIsRecorded, NeverLost,
         Unrecorded, LockStep, UnlockStep
<1>2. TypeOK /\ RegistryInv /\ MutexInv /\ [Next]_vars => MutexInv'
  BY MutexStep DEF StateOK
<1> QED
  BY <1>1, <1>2, MutexTypes, RegistryOfMutex, PTL DEF Spec, StateOK

(* Two threads never both have a capture of one mutex that they have not   *)
(* begun to release, but for one that captured it again while it had it    *)
(* and has released since: for any number of threads, handles, mutexes and *)
(* nested captures and any interleaving of ipc_mutex_lock and              *)
(* ipc_mutex_unlock, as long as no waiter is reached by a signal.          *)
THEOREM MutexSafe ==
  ASSUME Signalled = {}
  PROVE  Spec => []MutualExclusion
<1>1. StateOK /\ CapturesKnown => MutualExclusion
  <2> SUFFICES ASSUME StateOK, CapturesKnown, NEW a \in listed, NEW t \in Thread, NEW u \in Thread,
                      captures[a][t] > 0, captures[a][u] > 0, t # u
               PROVE  \E w \in {t, u} : w \in nested[a] /\ w \notin held[a]
    BY DEF MutualExclusion
  <2>1. a \in Addr
    BY DEF StateOK, RegistryInv, RegistryTypeOK
  <2>2. t \notin held[a] \/ u \notin held[a]
    BY DEF StateOK, MutexInv, HolderIsRecorded
  <2> QED
    BY <2>1, <2>2 DEF CapturesKnown
<1> QED
  BY <1>1, MutexInvariant, CapturesInvariant, PTL

(* The semaphore of a mutex is never lost, under the same assumption. *)
THEOREM MutexNeverLost ==
  ASSUME Signalled = {}
  PROVE  Spec => []NeverLost
<1>1. StateOK => NeverLost
  BY DEF StateOK, MutexInv
<1> QED
  BY <1>1, MutexInvariant, PTL

(* The driver's mutex implements NamedLock: each of its steps creates,     *)
(* destroys, acquires or releases one abstract lock, or changes nothing    *)
(* that a client of the abstract lock can see.                             *)
THEOREM MutexRefines ==
  ASSUME Signalled = {}
  PROVE  Spec => ImplementsNamedLock
<1>1. Init => Abstract!Init
  BY MutexAssumption DEF Init, RegistryInit, Abstract!Init
<1>2. ASSUME StateOK, [Next]_vars
      PROVE  [Abstract!Next]_Abstract!lockVars
  <2> USE <1>2 DEF StateOK, Abstract!lockVars
  <2>1. ASSUME NEW t \in Thread, NEW s \in Slot, NEW n \in Name, NEW value \in BOOLEAN,
               ipc_mutex_create(t, s, n, value)
        PROVE  [Abstract!Next]_Abstract!lockVars
    BY <2>1 DEF ipc_mutex_create, OpenExisting, OpenFails, OpenNew, mutexVars,
                Abstract!Next, Abstract!Create
  <2>2. ASSUME NEW t \in Thread, NEW s \in Slot, ipc_mutex_close(t, s)
        PROVE  [Abstract!Next]_Abstract!lockVars
    <3>1. CASE handle[s] \in listed /\ owner_count[handle[s]] = 1
      BY <2>2, <3>1 DEF ipc_mutex_close, Close, mutexVars, Abstract!Next, Abstract!Destroy,
                        RegistryInv, RegistryTypeOK
    <3>2. CASE ~(handle[s] \in listed /\ owner_count[handle[s]] = 1)
      BY <2>2, <3>2 DEF ipc_mutex_close, Close, mutexVars
    <3> QED
      BY <3>1, <3>2
  <2>3. ASSUME NEW t \in Thread, LockSetOwner(t)
        PROVE  [Abstract!Next]_Abstract!lockVars
    <3>1. EntryOf(t) \in listed /\ EntryOf(t) \in Addr
      BY <2>3, CallEntry DEF LockSetOwner, Goto, MutexInv, LockStep, UnlockStep
    <3>2. m_lockerid[EntryOf(t)] = NoTid
      BY <2>3 DEF LockSetOwner, Goto, MutexInv, UnrecordedToken, Unrecorded
    <3> QED
      BY <2>3, <3>1, <3>2 DEF LockSetOwner, Return, Abstract!Next, Abstract!Acquire
  <2>4. ASSUME NEW t \in Thread, UnlockClearOwner(t)
        PROVE  [Abstract!Next]_Abstract!lockVars
    <3>1. EntryOf(t) \in listed /\ EntryOf(t) \in Addr
      BY <2>4, CallEntry DEF UnlockClearOwner, Goto, MutexInv, LockStep, UnlockStep
    <3>2. m_lockerid[EntryOf(t)] = t
      BY <2>4 DEF UnlockClearOwner, Goto, MutexInv, ReleaseUnderway
    <3> QED
      BY <2>4, <3>1, <3>2 DEF UnlockClearOwner, registryVars, Abstract!Next, Abstract!Release
  <2>5. ASSUME NEW t \in Thread, NEW s \in Slot, LockEnter(t, s) \/ UnlockEnter(t, s)
        PROVE  UNCHANGED <<listed, m_lockerid>>
    BY <2>5 DEF LockEnter, UnlockEnter, Validate, mutexVars
  <2>6. ASSUME NEW t \in Thread,
               \/ LockDown(t) \/ LockInterrupted(t) \/ LockTimeout(t) \/ LockByOwner(t)
               \/ LockByOther(t) \/ LockInc(t) \/ UnlockByOther(t) \/ UnlockByOwner(t)
               \/ UnlockUp(t) \/ UnlockDec(t) \/ Exit(t) \/ Reuse(t)
        PROVE  UNCHANGED <<listed, m_lockerid>>
    BY <2>6 DEF LockDown, LockInterrupted, LockTimeout, LockByOwner, LockByOther, LockInc,
                UnlockByOther, UnlockByOwner, UnlockUp, UnlockDec, Exit, Reuse, Return, registryVars,
                mutexVars
  <2>7. CASE UNCHANGED vars
    BY <2>7 DEF vars, registryVars, mutexVars, historyVars
  <2> QED
    BY <2>1, <2>2, <2>3, <2>4, <2>5, <2>6, <2>7 DEF Next, Proceed
<1> QED
  BY <1>1, <1>2, MutexInvariant, PTL DEF Spec, ImplementsNamedLock, Abstract!Spec
=============================================================================
