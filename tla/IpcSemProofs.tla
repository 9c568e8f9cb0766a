------------------------------ MODULE IpcSemProofs ------------------------------
(***************************************************************************)
(* The permits of a semaphore are conserved, for any number of threads,    *)
(* handles, addresses and names and any initial values: proofs about       *)
(* IpcSem.                                                                 *)
(***************************************************************************)
EXTENDS IpcSem, IpcRegistryProofs

InCall == LockStep \cup UnlockStep

(* A call has a handle, and who is about to capture has not captured.      *)
CallsInOrder ==
  \A t \in Thread :
    /\ pc[t] = "idle" <=> via[t] = NoSlot
    /\ pc[t] \in LockStep => t \notin held[EntryOf(t)]

(* What the steps below start from: all that does not count permits.       *)
SemBase == TypeOK /\ RegistryInv /\ CallsInOrder

SemInv == SemBase /\ PermitsConserved /\ CounterConserved

-----------------------------------------------------------------------------
(* The steps of a semaphore use the registry only through its own steps. *)
LEMMA StepsOfRegistry == Next => [RegistryNext]_registryVars
BY DEF Next, Proceed, RegistryNext, registryVars, IPC_createSemaphore, ipc_sem_create,
       ipc_sem_close, LockEnter, LockDown, LockTimeout, LockInc, UnlockEnter, UnlockUp, UnlockDec

LEMMA CallEntry ==
  ASSUME SemBase, NEW t \in Thread, pc[t] # "idle"
  PROVE  via[t] \in Slot /\ via[t] # NoSlot /\ EntryOf(t) \in listed /\ EntryOf(t) \in Addr
BY RegistryAssumption
   DEF SemBase, TypeOK, RegistryInv, RegistryTypeOK, CallsInOrder, NoUseAfterFree, EntryOf

(* A call that goes on keeps its entry: its slot is neither free nor closed. *)
LEMMA EntryStable ==
  ASSUME SemBase, [RegistryNext]_registryVars, NEW t \in Thread, pc[t] # "idle", via'[t] # NoSlot
  PROVE  EntryOf(t)' = EntryOf(t)
<1> USE DEF SemBase, TypeOK, RegistryInv, RegistryTypeOK, EntryOf
<1>1. via[t] \in Slot /\ via[t] # NoSlot /\ handle[via[t]] \in Addr
  BY CallEntry
<1>2. ASSUME NEW s \in Slot, handle[s] = NoHandle \/ Unused(s),
             NEW v, handle' = [handle EXCEPT ![s] = v], via' = via
      PROVE  EntryOf(t)' = EntryOf(t)
  BY <1>1, <1>2, RegistryAssumption DEF Unused
<1> QED
  BY <1>1, <1>2, RegistryAssumption
     DEF RegistryNext, OpenExisting, OpenFails, OpenNew, Close, Return, Validate, registryVars

(* A step of the call of t, which works on the entry at e. *)
CallStep(t, from, to, e) ==
  /\ from # to
  /\ pc[t] = from
  /\ pc' = [pc EXCEPT ![t] = to]
  /\ from # "idle" => EntryOf(t) = e
  /\ to # "idle" => EntryOf(t)' = e
  /\ \A u \in Thread \ {t} : via'[u] = via[u]
  /\ [RegistryNext]_registryVars
  /\ listed' = listed

(* How many threads are at a step, after one of them has gone on.          *)
LEMMA AtAfterCallStep ==
  ASSUME SemBase, NEW t \in Thread, NEW from, NEW to, NEW e \in Addr,
         CallStep(t, from, to, e)
  PROVE  \A a \in Addr, x \in InCall :
           /\ Cardinality(At(a, x)) \in Nat
           /\ Cardinality(At(a, x)') =
                IF a = e /\ x = to THEN Cardinality(At(a, x)) + 1
                ELSE IF a = e /\ x = from THEN Cardinality(At(a, x)) - 1
                ELSE Cardinality(At(a, x))
<1> SUFFICES ASSUME NEW a \in Addr, NEW x \in InCall
             PROVE  /\ Cardinality(At(a, x)) \in Nat
                    /\ Cardinality(At(a, x)') =
                         IF a = e /\ x = to THEN Cardinality(At(a, x)) + 1
                         ELSE IF a = e /\ x = from THEN Cardinality(At(a, x)) - 1
                         ELSE Cardinality(At(a, x))
  OBVIOUS
<1>0. \A u \in Thread \ {t} : pc[u] # "idle" => EntryOf(u)' = EntryOf(u)
  BY EntryStable, CallEntry DEF CallStep
<1> USE DEF SemBase, TypeOK, InCall, LockStep, UnlockStep
<1>1. IsFiniteSet(At(a, x)) /\ Cardinality(At(a, x)) \in Nat
  <2>1. At(a, x) \subseteq Thread
    BY DEF At
  <2> QED
    BY <2>1, SemAssumption, FS_Subset, FS_CardinalityType
<1>2. \A u \in Thread \ {t} : u \in At(a, x)' <=> u \in At(a, x)
  BY <1>0 DEF At, CallStep
<1>3. CASE a = e /\ x = to
  <2>1. t \notin At(a, x) /\ At(a, x)' = At(a, x) \cup {t}
    BY <1>2, <1>3 DEF At, CallStep
  <2>2. Cardinality(At(a, x) \cup {t}) = Cardinality(At(a, x)) + 1
    BY <1>1, <2>1, FS_AddElement
  <2> QED
    BY <1>1, <1>3, <2>1, <2>2
<1>4. CASE a = e /\ x = from
  <2>1. t \in At(a, x) /\ At(a, x)' = At(a, x) \ {t}
    BY <1>2, <1>4 DEF At, CallStep
  <2>2. Cardinality(At(a, x) \ {t}) = Cardinality(At(a, x)) - 1
    BY <1>1, <2>1, FS_RemoveElement
  <2> QED
    BY <1>1, <1>4, <2>1, <2>2 DEF CallStep
<1>5. CASE ~(a = e /\ x = to) /\ ~(a = e /\ x = from)
  <2>1. At(a, x)' = At(a, x)
    BY <1>2, <1>5 DEF At, CallStep
  <2> QED
    BY <1>1, <1>5, <2>1
<1> QED
  BY <1>1, <1>3, <1>4, <1>5

LEMMA HeldCount ==
  ASSUME TypeOK, NEW a \in Addr
  PROVE  IsFiniteSet(held[a]) /\ Cardinality(held[a]) \in Nat
<1>1. held[a] \subseteq Thread
  BY DEF TypeOK
<1> QED
  BY <1>1, SemAssumption, FS_Subset, FS_CardinalityType

-----------------------------------------------------------------------------
LEMMA SemInitInv == Init => SemInv
<1> SUFFICES ASSUME Init PROVE SemInv
  OBVIOUS
<1>1. RegistryInv
  BY RegistryInitInv DEF Init
<1>2. TypeOK
  BY <1>1 DEF Init, TypeOK, RegistryInv, RegistryInit
<1>3. CallsInOrder
  BY DEF Init, RegistryInit, CallsInOrder, LockStep
<1>4. PermitsConserved /\ CounterConserved
  BY DEF Init, RegistryInit, PermitsConserved, CounterConserved
<1> QED
  BY <1>1, <1>2, <1>3, <1>4 DEF SemInv, SemBase

LEMMA TypeStep ==
  ASSUME SemBase, [Next]_vars
  PROVE  TypeOK' /\ RegistryInv'
<1> USE DEF SemBase, TypeOK, Goto, LockStep, UnlockStep
<1>1. RegistryInv' /\ RegistryTypeOK'
  BY RegistryStepInv, StepsOfRegistry DEF RegistryInv, vars, registryVars
<1>2. ASSUME NEW t \in Thread, NEW s \in Slot, NEW n \in Name, NEW value \in Nat,
             ipc_sem_create(t, s, n, value)
      PROVE  TypeOK'
  BY <1>1, <1>2 DEF ipc_sem_create, semVars, history
<1>3. ASSUME NEW t \in Thread, NEW s \in Slot,
             ipc_sem_close(t, s) \/ LockEnter(t, s) \/ UnlockEnter(t, s)
      PROVE  TypeOK'
  <2>1. CASE ipc_sem_close(t, s) \/ LockEnter(t, s)
    BY <1>1, <2>1 DEF ipc_sem_close, LockEnter, semVars, history
  <2>2. CASE UnlockEnter(t, s)
    <3>1. handle[s] \in Addr
      BY <2>2 DEF UnlockEnter, Validate, RegistryTypeOK
    <3> QED
      BY <1>1, <2>2, <3>1 DEF UnlockEnter
  <2> QED
    BY <1>3, <2>1, <2>2
<1>4. ASSUME NEW t \in Thread, LockDown(t)
      PROVE  TypeOK'
  <2>1. EntryOf(t) \in Addr
    BY <1>4, CallEntry DEF LockDown
  <2>2. count[EntryOf(t)] - 1 \in Nat
    BY <1>4, <2>1 DEF LockDown
  <2> QED
    BY <1>1, <1>4, <2>1, <2>2 DEF LockDown, history
<1>5. ASSUME NEW t \in Thread, LockTimeout(t) \/ Proceed(t)
      PROVE  TypeOK'
  <2>1. EntryOf(t) \in Addr
    BY <1>5, CallEntry DEF LockTimeout, Proceed, LockInc, UnlockUp, UnlockDec
  <2> QED
    BY <1>1, <1>5, <2>1 DEF LockTimeout, Proceed, LockInc, UnlockUp, UnlockDec, semVars, history
<1>6. CASE UNCHANGED vars
  BY <1>1, <1>6 DEF vars, semVars, history
<1> QED
  BY <1>1, <1>2, <1>3, <1>4, <1>5, <1>6, SemAssumption DEF Next, IPC_createSemaphore

LEMMA CallsStep ==
  ASSUME SemBase, [Next]_vars
  PROVE  CallsInOrder'
<1> USE DEF SemBase, TypeOK, RegistryTypeOK, CallsInOrder, Goto, LockStep, UnlockStep
<1>1. [RegistryNext]_registryVars
  BY StepsOfRegistry DEF vars, registryVars
<1>2. ASSUME NEW t \in Thread, pc[t] # "idle", via'[t] # NoSlot
      PROVE  EntryOf(t)' = EntryOf(t) /\ EntryOf(t) \in listed /\ EntryOf(t) \in Addr
  BY <1>1, <1>2, EntryStable, CallEntry
<1>3. ASSUME NEW t \in Thread, NEW s \in Slot, NEW n \in Name, NEW value \in Nat,
             ipc_sem_create(t, s, n, value)
      PROVE  CallsInOrder'
  <2>1. UNCHANGED <<pc, via>>
    BY <1>3 DEF ipc_sem_create, OpenExisting, OpenFails, OpenNew
  <2>2. ASSUME NEW a \in listed PROVE held'[a] = held[a]
    BY <1>3 DEF ipc_sem_create, semVars, history, OpenNew
  <2> QED
    BY <1>2, <2>1, <2>2
<1>4. ASSUME NEW t \in Thread, NEW s \in Slot, ipc_sem_close(t, s)
      PROVE  CallsInOrder'
  <2>1. UNCHANGED <<pc, via, held>>
    BY <1>4 DEF ipc_sem_close, Close, semVars, history
  <2> QED
    BY <1>2, <2>1
<1>5. ASSUME NEW t \in Thread, NEW s \in Slot, LockEnter(t, s)
      PROVE  CallsInOrder'
  <2>1. UNCHANGED <<held, handle>> /\ via' = [via EXCEPT ![t] = s] /\ s # NoSlot
    BY <1>5, RegistryAssumption DEF LockEnter, Validate, semVars, history
  <2>2. EntryOf(t)' = handle[s] /\ t \notin held[handle[s]]
    BY <1>5, <2>1 DEF LockEnter, EntryOf
  <2>3. pc[t] = "idle" /\ pc'[t] # "idle" /\ \A u \in Thread \ {t} : pc'[u] = pc[u] /\ via'[u] = via[u]
    BY <1>5, <2>1 DEF LockEnter
  <2> QED
    BY <1>2, <2>1, <2>2, <2>3
<1>6. ASSUME NEW t \in Thread, NEW s \in Slot, UnlockEnter(t, s)
      PROVE  CallsInOrder'
  <2>1. handle' = handle /\ via' = [via EXCEPT ![t] = s] /\ s # NoSlot /\ handle[s] \in Addr
    BY <1>6, RegistryAssumption DEF UnlockEnter, Validate
  <2>2. \A u \in Thread \ {t}, a \in Addr : u \in held'[a] <=> u \in held[a]
    BY <1>6 DEF UnlockEnter
  <2>3. pc[t] = "idle" /\ pc'[t] = "up" /\ \A u \in Thread \ {t} : pc'[u] = pc[u] /\ via'[u] = via[u]
    BY <1>6, <2>1 DEF UnlockEnter
  <2> QED
    BY <1>2, <2>1, <2>2, <2>3
<1>7. ASSUME NEW t \in Thread, LockDown(t) \/ UnlockUp(t)
      PROVE  CallsInOrder'
  <2>1. UNCHANGED <<via, held>> /\ \A u \in Thread \ {t} : pc'[u] = pc[u]
    BY <1>7 DEF LockDown, UnlockUp, registryVars, history
  <2>2. /\ pc[t] # "idle" /\ pc'[t] # "idle"
        /\ pc'[t] \in LockStep => pc[t] \in LockStep
    BY <1>7 DEF LockDown, UnlockUp
  <2> QED
    BY <1>2, <2>1, <2>2
<1>8. ASSUME NEW t \in Thread, LockTimeout(t) \/ LockInc(t) \/ UnlockDec(t)
      PROVE  CallsInOrder'
  <2>1. /\ via' = [via EXCEPT ![t] = NoSlot] /\ pc[t] # "idle" /\ pc'[t] = "idle"
        /\ \A u \in Thread \ {t} : pc'[u] = pc[u] /\ via'[u] = via[u]
    BY <1>8 DEF LockTimeout, LockInc, UnlockDec, Return
  <2>2. \A u \in Thread \ {t}, a \in Addr : u \in held'[a] <=> u \in held[a]
    BY <1>8, <2>1, CallEntry DEF LockTimeout, LockInc, UnlockDec, semVars, history
  <2> QED
    BY <1>2, <2>1, <2>2
<1>9. CASE UNCHANGED vars
  BY <1>9 DEF vars, registryVars, semVars, history, EntryOf
<1> QED
  BY <1>3, <1>4, <1>5, <1>6, <1>7, <1>8, <1>9, SemAssumption DEF Next, Proceed, IPC_createSemaphore

-----------------------------------------------------------------------------
LEMMA AtUnchanged ==
  ASSUME SemBase, [RegistryNext]_registryVars, pc' = pc, via' = via,
         NEW a, NEW x \in InCall
  PROVE  At(a, x)' = At(a, x)
<1>1. \A u \in Thread : pc[u] = x => EntryOf(u)' = EntryOf(u)
  BY EntryStable, CallEntry DEF InCall, LockStep, UnlockStep
<1> QED
  BY <1>1 DEF At

(* A semaphore starts with all its permits and no call. *)
LEMMA CreateSums ==
  ASSUME SemInv, NEW t \in Thread, NEW s \in Slot, NEW n \in Name, NEW value \in Nat,
         ipc_sem_create(t, s, n, value)
  PROVE  (PermitsConserved /\ CounterConserved)'
<1> USE DEF SemInv, SemBase, TypeOK, RegistryTypeOK
<1>1. pc' = pc /\ via' = via /\ [RegistryNext]_registryVars
  BY DEF ipc_sem_create, OpenExisting, OpenFails, OpenNew, RegistryNext
<1>2. \A a, x : x \in InCall => At(a, x)' = At(a, x)
  BY <1>1, AtUnchanged
<1>3. ASSUME NEW a \in listed
      PROVE  UNCHANGED <<count[a], lock_count[a], initial[a], held[a], posted[a]>>
  BY <1>3 DEF ipc_sem_create, semVars, history, OpenNew
<1>4. ASSUME NEW a \in listed', a \notin listed
      PROVE  /\ a \in Addr /\ count'[a] = value /\ initial'[a] = value
             /\ lock_count'[a] = 0 /\ posted'[a] = 0 /\ held'[a] = {}
  BY <1>4 DEF ipc_sem_create, OpenExisting, OpenFails, OpenNew
<1>5. ASSUME NEW a \in listed', a \notin listed, NEW x \in InCall
      PROVE  Cardinality(At(a, x)') = 0
  <2>1. At(a, x) = {}
    BY <1>5, CallEntry DEF At, InCall, LockStep, UnlockStep
  <2>2. At(a, x)' = {}
    BY <1>2, <1>5, <2>1
  <2> QED
    BY <2>2, FS_EmptySet
<1>6. "inc" \in InCall /\ "up" \in InCall /\ "dec" \in InCall
  BY DEF InCall, LockStep, UnlockStep
<1>7. Cardinality({}) = 0
  BY FS_EmptySet
<1>8. ASSUME NEW a \in listed'
      PROVE  /\ count'[a] + Cardinality(held'[a]) + Cardinality(At(a, "inc")')
                  + Cardinality(At(a, "up")') = initial'[a] + posted'[a]
             /\ lock_count'[a] = Cardinality(held'[a]) + Cardinality(At(a, "up")')
                  + Cardinality(At(a, "dec")') - posted'[a]
  <2>1. CASE a \in listed
    BY <1>2, <1>3, <1>6, <2>1 DEF PermitsConserved, CounterConserved
  <2>2. CASE a \notin listed
    <3>1. /\ Cardinality(At(a, "inc")') = 0 /\ Cardinality(At(a, "up")') = 0
          /\ Cardinality(At(a, "dec")') = 0
      BY <1>5, <1>6, <1>8, <2>2
    <3>2. /\ count'[a] = value /\ initial'[a] = value
          /\ lock_count'[a] = 0 /\ posted'[a] = 0 /\ Cardinality(held'[a]) = 0
      BY <1>4, <1>7, <1>8, <2>2
    <3> QED
      BY <3>1, <3>2
  <2> QED
    BY <2>1, <2>2
<1> QED
  BY <1>8 DEF PermitsConserved, CounterConserved

LEMMA CloseSums ==
  ASSUME SemInv, NEW t \in Thread, NEW s \in Slot, ipc_sem_close(t, s)
  PROVE  (PermitsConserved /\ CounterConserved)'
<1> USE DEF SemInv
<1>1. pc' = pc /\ via' = via /\ [RegistryNext]_registryVars /\ UNCHANGED semVars
  BY DEF ipc_sem_close, Close, RegistryNext
<1>2. \A a, x : x \in InCall => At(a, x)' = At(a, x)
  BY <1>1, AtUnchanged
<1>3. listed' \subseteq listed
  BY DEF ipc_sem_close, Close
<1>4. "inc" \in InCall /\ "up" \in InCall /\ "dec" \in InCall
  BY DEF InCall, LockStep, UnlockStep
<1> QED
  BY <1>1, <1>2, <1>3, <1>4 DEF PermitsConserved, CounterConserved, semVars, history

(* How many threads more are at a step of a call. *)
More(from, to, x) == (IF to = x THEN 1 ELSE 0) - (IF from = x THEN 1 ELSE 0)

(* The step of a call keeps both sums if what it does to the entry that it *)
(* works on adds up.                                                       *)
LEMMA CallSums ==
  ASSUME SemInv, TypeOK', NEW t \in Thread, NEW from, NEW to, NEW e \in Addr,
         CallStep(t, from, to, e),
         \A a \in Addr : a # e =>
           /\ count'[a] = count[a] /\ lock_count'[a] = lock_count[a]
           /\ held'[a] = held[a] /\ posted'[a] = posted[a],
         initial' = initial,
         (count'[e] - count[e]) + (Cardinality(held'[e]) - Cardinality(held[e]))
            + More(from, to, "inc") + More(from, to, "up") = posted'[e] - posted[e],
         lock_count'[e] - lock_count[e] = (Cardinality(held'[e]) - Cardinality(held[e]))
            + More(from, to, "up") + More(from, to, "dec") - (posted'[e] - posted[e])
  PROVE  (PermitsConserved /\ CounterConserved)'
<1>1. SemBase /\ PermitsConserved /\ CounterConserved
  BY DEF SemInv
<1>2. "inc" \in InCall /\ "up" \in InCall /\ "dec" \in InCall
  BY DEF InCall, LockStep, UnlockStep
<1>3. listed' = listed
  BY DEF CallStep
<1>4. \A a \in Addr, x \in InCall :
        /\ Cardinality(At(a, x)) \in Nat
        /\ Cardinality(At(a, x)') =
             IF a = e /\ x = to THEN Cardinality(At(a, x)) + 1
             ELSE IF a = e /\ x = from THEN Cardinality(At(a, x)) - 1
             ELSE Cardinality(At(a, x))
  BY <1>1, AtAfterCallStep
<1>5. ASSUME NEW a \in listed
      PROVE  /\ count'[a] + Cardinality(held'[a]) + Cardinality(At(a, "inc")')
                  + Cardinality(At(a, "up")') = initial'[a] + posted'[a]
             /\ lock_count'[a] = Cardinality(held'[a]) + Cardinality(At(a, "up")')
                  + Cardinality(At(a, "dec")') - posted'[a]
  <2>1. a \in Addr
    BY <1>1 DEF SemBase, TypeOK, RegistryTypeOK
  <2>2. /\ count[a] \in Int /\ initial[a] \in Int /\ posted[a] \in Int /\ lock_count[a] \in Int
        /\ Cardinality(held[a]) \in Int
    BY <1>1, <2>1, HeldCount DEF SemBase, TypeOK
  <2>3. /\ count[a] + Cardinality(held[a]) + Cardinality(At(a, "inc"))
                  + Cardinality(At(a, "up")) = initial[a] + posted[a]
        /\ lock_count[a] = Cardinality(held[a]) + Cardinality(At(a, "up"))
                  + Cardinality(At(a, "dec")) - posted[a]
    BY <1>1, <1>5 DEF PermitsConserved, CounterConserved
  <2>4. \A x \in {"inc", "up", "dec"} :
          /\ Cardinality(At(a, x)) \in Int
          /\ More(from, to, x) \in Int
          /\ Cardinality(At(a, x)') = IF a = e THEN Cardinality(At(a, x)) + More(from, to, x)
                                      ELSE Cardinality(At(a, x))
    BY <1>2, <1>4, <2>1 DEF CallStep, More
  <2>5. /\ count'[a] \in Int /\ posted'[a] \in Int /\ lock_count'[a] \in Int
        /\ Cardinality(held'[a]) \in Int
    <3>1. held'[a] \subseteq Thread
      BY <2>1 DEF TypeOK
    <3>2. Cardinality(held'[a]) \in Int
      BY <3>1, SemAssumption, FS_Subset, FS_CardinalityType
    <3> QED
      BY <2>1, <3>2 DEF TypeOK
  <2>6. CASE a = e
    <3>1. /\ (count'[a] - count[a]) + (Cardinality(held'[a]) - Cardinality(held[a]))
               + More(from, to, "inc") + More(from, to, "up") = posted'[a] - posted[a]
          /\ lock_count'[a] - lock_count[a] = (Cardinality(held'[a]) - Cardinality(held[a]))
               + More(from, to, "up") + More(from, to, "dec") - (posted'[a] - posted[a])
      BY <2>6
    <3>2. /\ Cardinality(At(a, "inc")') = Cardinality(At(a, "inc")) + More(from, to, "inc")
          /\ Cardinality(At(a, "up")') = Cardinality(At(a, "up")) + More(from, to, "up")
          /\ Cardinality(At(a, "dec")') = Cardinality(At(a, "dec")) + More(from, to, "dec")
          /\ Cardinality(At(a, "inc")) \in Int /\ More(from, to, "inc") \in Int
          /\ Cardinality(At(a, "up")) \in Int /\ More(from, to, "up") \in Int
          /\ Cardinality(At(a, "dec")) \in Int /\ More(from, to, "dec") \in Int
      BY <2>4, <2>6
    <3>3. initial'[a] = initial[a]
      OBVIOUS
    <3> QED
      BY <2>2, <2>3, <2>5, <3>1, <3>2, <3>3
  <2>7. CASE a # e
    BY <2>1, <2>3, <2>4, <2>7
  <2> QED
    BY <2>6, <2>7
<1> QED
  BY <1>3, <1>5 DEF PermitsConserved, CounterConserved

-----------------------------------------------------------------------------
LEMMA LockEnterSums ==
  ASSUME SemInv, TypeOK', NEW t \in Thread, NEW s \in Slot, LockEnter(t, s)
  PROVE  (PermitsConserved /\ CounterConserved)'
<1> USE DEF LockEnter, Goto, semVars, history
<1>1. /\ pc[t] = "idle" /\ handle[s] \in Addr /\ listed' = listed
      /\ \A u \in Thread \ {t} : via'[u] = via[u]
      /\ [RegistryNext]_registryVars
  BY DEF Validate, SemInv, SemBase, TypeOK, RegistryTypeOK, RegistryNext
<1>2. EntryOf(t)' = handle[s]
  BY DEF Validate, EntryOf, SemInv, SemBase, TypeOK, RegistryTypeOK
<1>3. PICK wait \in {"down", "down_timeout"} : pc' = [pc EXCEPT ![t] = wait]
  OBVIOUS
<1>4. CallStep(t, "idle", wait, handle[s])
  BY <1>1, <1>2, <1>3 DEF CallStep
<1>5. Cardinality(held[handle[s]]) \in Int
  BY <1>1, HeldCount DEF SemInv, SemBase
<1>6. /\ count[handle[s]] \in Int /\ lock_count[handle[s]] \in Int /\ posted[handle[s]] \in Int
  BY <1>1 DEF SemInv, SemBase, TypeOK
<1>7. /\ count' = count /\ lock_count' = lock_count /\ initial' = initial
      /\ held' = held /\ posted' = posted
  OBVIOUS
<1>8. \A x \in {"inc", "up", "dec"} : More("idle", wait, x) = 0
  BY DEF More
<1> QED
  BY <1>1, <1>4, <1>5, <1>6, <1>7, <1>8, CallSums

(* A call under way, whose entry is the one it has been working on.        *)
LEMMA UnderWay ==
  ASSUME SemInv, NEW t \in Thread, NEW from \in InCall, NEW to,
         Goto(t, from, to), from # to, to \in InCall \cup {"idle"},
         \/ to # "idle" /\ UNCHANGED registryVars
         \/ to = "idle" /\ Return(t)
  PROVE  /\ EntryOf(t) \in Addr
         /\ CallStep(t, from, to, EntryOf(t))
         /\ Cardinality(held[EntryOf(t)]) \in Int
         /\ count[EntryOf(t)] \in Int /\ lock_count[EntryOf(t)] \in Int /\ posted[EntryOf(t)] \in Int
<1>1. pc[t] = from /\ from # "idle" /\ pc' = [pc EXCEPT ![t] = to]
  BY DEF Goto, InCall, LockStep, UnlockStep
<1>2. SemBase /\ TypeOK
  BY DEF SemInv, SemBase
<1>3. EntryOf(t) \in Addr
  BY <1>1, <1>2, CallEntry
<1>4. /\ \A u \in Thread \ {t} : via'[u] = via[u]
      /\ [RegistryNext]_registryVars /\ listed' = listed
      /\ to # "idle" => EntryOf(t)' = EntryOf(t)
  BY <1>2 DEF registryVars, Return, RegistryNext, TypeOK, RegistryTypeOK, EntryOf
<1>5. CallStep(t, from, to, EntryOf(t))
  BY <1>1, <1>4 DEF CallStep
<1> QED
  BY <1>2, <1>3, <1>5, HeldCount DEF TypeOK

LEMMA LockDownSums ==
  ASSUME SemInv, TypeOK', NEW t \in Thread, LockDown(t)
  PROVE  (PermitsConserved /\ CounterConserved)'
<1> DEFINE e == EntryOf(t)
<1>1. PICK wait \in {"down", "down_timeout"} : Goto(t, wait, "inc")
  BY DEF LockDown
<1>2. /\ e \in Addr /\ CallStep(t, wait, "inc", e) /\ Cardinality(held[e]) \in Int
      /\ count[e] \in Int /\ lock_count[e] \in Int /\ posted[e] \in Int
  BY <1>1, UnderWay DEF LockDown, InCall, LockStep, UnlockStep
<1>3. /\ More(wait, "inc", "inc") = 1 /\ More(wait, "inc", "up") = 0 /\ More(wait, "inc", "dec") = 0
  <2>1. CASE wait = "down"
    BY <2>1 DEF More
  <2>2. CASE wait = "down_timeout"
    BY <2>2 DEF More
  <2> QED
    BY <2>1, <2>2
<1>4. /\ count' = [count EXCEPT ![e] = @ - 1]
      /\ lock_count' = lock_count /\ initial' = initial /\ held' = held /\ posted' = posted
  BY DEF LockDown, history
<1>5. count'[e] = count[e] - 1 /\ \A a \in Addr : a # e => count'[a] = count[a]
  BY <1>2, <1>4 DEF SemInv, SemBase, TypeOK
<1> HIDE DEF e
<1> QED
  BY <1>2, <1>3, <1>4, <1>5, CallSums

LEMMA LockTimeoutSums ==
  ASSUME SemInv, TypeOK', NEW t \in Thread, LockTimeout(t)
  PROVE  (PermitsConserved /\ CounterConserved)'
<1> DEFINE e == EntryOf(t)
<1>1. /\ e \in Addr /\ CallStep(t, "down_timeout", "idle", e) /\ Cardinality(held[e]) \in Int
      /\ count[e] \in Int /\ lock_count[e] \in Int /\ posted[e] \in Int
  BY UnderWay DEF LockTimeout, InCall, LockStep, UnlockStep
<1>2. \A x \in {"inc", "up", "dec"} : More("down_timeout", "idle", x) = 0
  BY DEF More
<1>3. /\ count' = count
      /\ lock_count' = lock_count /\ initial' = initial /\ held' = held /\ posted' = posted
  BY DEF LockTimeout, semVars, history
<1> HIDE DEF e
<1> QED
  BY <1>1, <1>2, <1>3, CallSums

(* The permit passes from the call to the thread. *)
LEMMA LockIncSums ==
  ASSUME SemInv, TypeOK', NEW t \in Thread, LockInc(t)
  PROVE  (PermitsConserved /\ CounterConserved)'
<1> DEFINE e == EntryOf(t)
<1>1. /\ e \in Addr /\ CallStep(t, "inc", "idle", e) /\ Cardinality(held[e]) \in Int
      /\ count[e] \in Int /\ lock_count[e] \in Int /\ posted[e] \in Int
  BY UnderWay DEF LockInc, InCall, LockStep, UnlockStep
<1>2. /\ More("inc", "idle", "inc") = -1 /\ More("inc", "idle", "up") = 0
      /\ More("inc", "idle", "dec") = 0
  BY DEF More
<1>3. /\ lock_count' = [lock_count EXCEPT ![e] = @ + 1]
      /\ held' = [held EXCEPT ![e] = @ \cup {t}]
      /\ count' = count /\ initial' = initial /\ posted' = posted
  BY DEF LockInc
<1>4. /\ lock_count'[e] = lock_count[e] + 1 /\ held'[e] = held[e] \cup {t}
      /\ \A a \in Addr : a # e => lock_count'[a] = lock_count[a] /\ held'[a] = held[a]
  BY <1>1, <1>3 DEF SemInv, SemBase, TypeOK
<1>5. t \notin held[e]
  BY DEF LockInc, Goto, LockStep, SemInv, SemBase, CallsInOrder
<1>6. Cardinality(held'[e]) = Cardinality(held[e]) + 1
  <2>1. IsFiniteSet(held[e])
    BY <1>1, HeldCount DEF SemInv, SemBase
  <2>2. Cardinality(held[e] \cup {t}) = Cardinality(held[e]) + 1
    BY <1>5, <2>1, FS_AddElement
  <2> QED
    BY <1>4, <2>2
<1> HIDE DEF e
<1>7. /\ (count'[e] - count[e]) + (Cardinality(held'[e]) - Cardinality(held[e]))
           + More("inc", "idle", "inc") + More("inc", "idle", "up") = posted'[e] - posted[e]
      /\ lock_count'[e] - lock_count[e] = (Cardinality(held'[e]) - Cardinality(held[e]))
           + More("inc", "idle", "up") + More("inc", "idle", "dec") - (posted'[e] - posted[e])
  BY <1>1, <1>2, <1>3, <1>4, <1>6
<1> QED
  BY <1>1, <1>3, <1>4, <1>7, CallSums

(* The permit passes from the thread to the call, or comes from outside.   *)
LEMMA UnlockEnterSums ==
  ASSUME SemInv, TypeOK', NEW t \in Thread, NEW s \in Slot, UnlockEnter(t, s)
  PROVE  (PermitsConserved /\ CounterConserved)'
<1> DEFINE e == handle[s]
<1>1. /\ pc[t] = "idle" /\ e \in Addr /\ listed' = listed
      /\ \A u \in Thread \ {t} : via'[u] = via[u]
      /\ [RegistryNext]_registryVars
      /\ pc' = [pc EXCEPT ![t] = "up"]
  BY DEF UnlockEnter, Goto, Validate, SemInv, SemBase, TypeOK, RegistryTypeOK, RegistryNext
<1>2. EntryOf(t)' = e
  BY DEF UnlockEnter, Validate, EntryOf, SemInv, SemBase, TypeOK, RegistryTypeOK
<1>3. CallStep(t, "idle", "up", e)
  BY <1>1, <1>2 DEF CallStep
<1>4. IsFiniteSet(held[e]) /\ Cardinality(held[e]) \in Int
  BY <1>1, HeldCount DEF SemInv, SemBase
<1>5. /\ count[e] \in Int /\ lock_count[e] \in Int /\ posted[e] \in Int
  BY <1>1 DEF SemInv, SemBase, TypeOK
<1>6. /\ More("idle", "up", "inc") = 0 /\ More("idle", "up", "up") = 1
      /\ More("idle", "up", "dec") = 0
  BY DEF More
<1>7. count' = count /\ lock_count' = lock_count /\ initial' = initial
  BY DEF UnlockEnter
<1>8. CASE t \in held[e]
  <2>1. posted' = posted /\ held' = [held EXCEPT ![e] = @ \ {t}]
    BY <1>8 DEF UnlockEnter
  <2>2. held'[e] = held[e] \ {t} /\ \A a \in Addr : a # e => held'[a] = held[a]
    BY <1>1, <2>1 DEF SemInv, SemBase, TypeOK
  <2>3. Cardinality(held[e] \ {t}) = Cardinality(held[e]) - 1
    BY <1>4, <1>8, FS_RemoveElement
  <2>4. Cardinality(held'[e]) = Cardinality(held[e]) - 1
    BY <2>2, <2>3
  <2> HIDE DEF e
  <2>5. /\ (count'[e] - count[e]) + (Cardinality(held'[e]) - Cardinality(held[e]))
             + More("idle", "up", "inc") + More("idle", "up", "up") = posted'[e] - posted[e]
        /\ lock_count'[e] - lock_count[e] = (Cardinality(held'[e]) - Cardinality(held[e]))
             + More("idle", "up", "up") + More("idle", "up", "dec") - (posted'[e] - posted[e])
    BY <1>4, <1>5, <1>6, <1>7, <2>1, <2>4
  <2> QED
    BY <1>1, <1>3, <1>7, <2>1, <2>2, <2>5, CallSums
<1>9. CASE t \notin held[e]
  <2>1. held' = held /\ posted' = [posted EXCEPT ![e] = @ + 1]
    BY <1>9 DEF UnlockEnter
  <2>2. posted'[e] = posted[e] + 1 /\ \A a \in Addr : a # e => posted'[a] = posted[a]
    BY <1>1, <2>1 DEF SemInv, SemBase, TypeOK
  <2> HIDE DEF e
  <2> QED
    BY <1>1, <1>3, <1>4, <1>5, <1>6, <1>7, <2>1, <2>2, CallSums
<1> QED
  BY <1>8, <1>9

LEMMA UnlockUpSums ==
  ASSUME SemInv, TypeOK', NEW t \in Thread, UnlockUp(t)
  PROVE  (PermitsConserved /\ CounterConserved)'
<1> DEFINE e == EntryOf(t)
<1>1. /\ e \in Addr /\ CallStep(t, "up", "dec", e) /\ Cardinality(held[e]) \in Int
      /\ count[e] \in Int /\ lock_count[e] \in Int /\ posted[e] \in Int
  BY UnderWay DEF UnlockUp, InCall, LockStep, UnlockStep
<1>2. /\ More("up", "dec", "inc") = 0 /\ More("up", "dec", "up") = -1 /\ More("up", "dec", "dec") = 1
  BY DEF More
<1>3. /\ count' = [count EXCEPT ![e] = @ + 1]
      /\ lock_count' = lock_count /\ initial' = initial /\ held' = held /\ posted' = posted
  BY DEF UnlockUp, history
<1>4. count'[e] = count[e] + 1 /\ \A a \in Addr : a # e => count'[a] = count[a]
  BY <1>1, <1>3 DEF SemInv, SemBase, TypeOK
<1> HIDE DEF e
<1> QED
  BY <1>1, <1>2, <1>3, <1>4, CallSums

LEMMA UnlockDecSums ==
  ASSUME SemInv, TypeOK', NEW t \in Thread, UnlockDec(t)
  PROVE  (PermitsConserved /\ CounterConserved)'
<1> DEFINE e == EntryOf(t)
<1>1. /\ e \in Addr /\ CallStep(t, "dec", "idle", e) /\ Cardinality(held[e]) \in Int
      /\ count[e] \in Int /\ lock_count[e] \in Int /\ posted[e] \in Int
  BY UnderWay DEF UnlockDec, InCall, LockStep, UnlockStep
<1>2. /\ More("dec", "idle", "inc") = 0 /\ More("dec", "idle", "up") = 0
      /\ More("dec", "idle", "dec") = -1
  BY DEF More
<1>3. /\ lock_count' = [lock_count EXCEPT ![e] = @ - 1]
      /\ count' = count /\ initial' = initial /\ held' = held /\ posted' = posted
  BY DEF UnlockDec, history
<1>4. lock_count'[e] = lock_count[e] - 1 /\ \A a \in Addr : a # e => lock_count'[a] = lock_count[a]
  BY <1>1, <1>3 DEF SemInv, SemBase, TypeOK
<1> HIDE DEF e
<1> QED
  BY <1>1, <1>2, <1>3, <1>4, CallSums

-----------------------------------------------------------------------------
LEMMA SemNextInv == SemInv /\ [Next]_vars => SemInv'
<1> SUFFICES ASSUME SemInv, [Next]_vars PROVE SemInv'
  OBVIOUS
<1>1. SemBase' /\ TypeOK'
  BY TypeStep, CallsStep DEF SemInv, SemBase
<1>2. CASE Next
  <2>1. (PermitsConserved /\ CounterConserved)'
    BY <1>1, <1>2, CreateSums, CloseSums, LockEnterSums, LockDownSums, LockTimeoutSums, LockIncSums,
       UnlockEnterSums, UnlockUpSums, UnlockDecSums, SemAssumption
       DEF Next, Proceed, IPC_createSemaphore
  <2> QED
    BY <1>1, <2>1 DEF SemInv
<1>3. CASE UNCHANGED vars
  BY <1>1, <1>3
     DEF SemInv, PermitsConserved, CounterConserved, At, EntryOf, vars, registryVars, semVars, history
<1> QED
  BY <1>2, <1>3

LEMMA SemInvLimit == SemInv => CaptureLimit
<1> SUFFICES ASSUME SemInv, NEW a \in listed
             PROVE  Cardinality(held[a]) <= initial[a] + posted[a]
  BY DEF CaptureLimit
<1> USE DEF SemInv, SemBase
<1>1. a \in Addr
  BY DEF TypeOK, RegistryTypeOK
<1>2. \A x \in InCall : Cardinality(At(a, x)) \in Nat
  <2>1. \A x \in InCall : At(a, x) \subseteq Thread
    BY DEF At
  <2> QED
    BY <2>1, SemAssumption, FS_Subset, FS_CardinalityType
<1>3. Cardinality(At(a, "inc")) \in Nat /\ Cardinality(At(a, "up")) \in Nat
  BY <1>2 DEF InCall, LockStep, UnlockStep
<1>4. /\ Cardinality(held[a]) \in Nat /\ count[a] \in Nat
      /\ initial[a] \in Nat /\ posted[a] \in Nat
  BY <1>1, HeldCount DEF TypeOK
<1>5. count[a] + Cardinality(held[a]) + Cardinality(At(a, "inc")) + Cardinality(At(a, "up"))
        = initial[a] + posted[a]
  BY DEF PermitsConserved
<1> QED
  BY <1>3, <1>4, <1>5

(* ipcsem.c: every permit of a semaphore is in it, with a thread or on the *)
(* way; never have more threads captured than it was given, and the        *)
(* counter in /proc is off by the calls between their two steps only.      *)
THEOREM SemCounts == Spec => []SemCountsSound
<1>1. SemInv => SemCountsSound
  BY SemInvLimit DEF SemInv, SemBase, SemCountsSound
<1> QED
  BY <1>1, SemInitInv, SemNextInv, PTL DEF Spec

(* No thread in a lock or an unlock ever works on a freed semaphore.       *)
THEOREM SemNoUseAfterFree == Spec => []NoUseAfterFree
<1>1. SemInv => NoUseAfterFree
  BY DEF SemInv, SemBase, RegistryInv
<1> QED
  BY <1>1, SemInitInv, SemNextInv, PTL DEF Spec
=============================================================================
