----------------------------- MODULE IpcEventProofs -----------------------------
(***************************************************************************)
(* What an event's semaphore and its counter add up to, for any number of  *)
(* threads, handles, addresses and names, and what one setter makes of it: *)
(* proofs about IpcEvent.                                                  *)
(***************************************************************************)
EXTENDS IpcEvent, IpcRegistryProofs

InCall == WaitStep \cup SetStep \cup ResetStep

CallsHaveHandle == \A t \in Thread : pc[t] = "idle" <=> via[t] = NoSlot

EventBase == TypeOK /\ RegistryInv /\ CallsHaveHandle

EventInv == EventBase /\ EventConserved

(* What a step does to the thread that makes it, to the semaphore and to   *)
(* the counter of the entry that it works on.                              *)
Move(from, to, dc, dl) ==
  \/ from = "idle" /\ to \in {"down", "down_timeout", "check", "reset_check"} /\ dc = 0 /\ dl = 0
  \/ from \in {"down", "down_timeout"} /\ to = "inc" /\ dc = -1 /\ dl = 0
  \/ from \in {"down_timeout", "check", "reset_check"} /\ to = "idle" /\ dc = 0 /\ dl = 0
  \/ from = "inc" /\ to = "idle" /\ dc = 0 /\ dl = 1
  \/ from = "check" /\ to = "up" /\ dc = 0 /\ dl = 0
  \/ from = "reset_check" /\ to = "reset_up" /\ dc = 0 /\ dl = 0
  \/ from = "up" /\ to = "dec" /\ dc = 1 /\ dl = 0
  \/ from = "reset_up" /\ to = "reset_dec" /\ dc = 1 /\ dl = 0
  \/ from \in {"dec", "reset_dec"} /\ to = "idle" /\ dc = 0 /\ dl = -1

CallStep(t, from, to, e) ==
  /\ from # to
  /\ pc[t] = from
  /\ pc' = [pc EXCEPT ![t] = to]
  /\ from # "idle" => EntryOf(t) = e
  /\ to # "idle" => EntryOf(t)' = e
  /\ \A u \in Thread \ {t} : via'[u] = via[u]
  /\ [RegistryNext]_registryVars
  /\ listed' = listed

Effect(e, dc, dl) ==
  /\ count'[e] = count[e] + dc /\ lock_count'[e] = lock_count[e] + dl
  /\ \A a \in Addr \ {e} : count'[a] = count[a] /\ lock_count'[a] = lock_count[a]

Moved(t, from, to, e, dc, dl) ==
  CallStep(t, from, to, e) /\ Move(from, to, dc, dl) /\ Effect(e, dc, dl)

(* How many threads more are at a step of a call. *)
More(from, to, x) == (IF to = x THEN 1 ELSE 0) - (IF from = x THEN 1 ELSE 0)

-----------------------------------------------------------------------------
(* The steps of an event use the registry only through its own steps. *)
LEMMA StepsOfRegistry == Next => [RegistryNext]_registryVars
BY DEF Next, Proceed, ProceedSet, ProceedReset, RegistryNext, registryVars, IPC_createEvent,
       ipc_event_close, LockEnter, UnlockEnter, ResetEnter, LockDown, LockTimeout, LockInc,
       UnlockNotTaken, UnlockTaken, UnlockUp, UnlockDec,
       ResetNotTaken, ResetTaken, ResetUp, ResetDec, NotTaken, Taken, Up, Dec

LEMMA CallEntry ==
  ASSUME EventBase, NEW t \in Thread, pc[t] # "idle"
  PROVE  via[t] \in Slot /\ via[t] # NoSlot /\ EntryOf(t) \in listed /\ EntryOf(t) \in Addr
BY RegistryAssumption
   DEF EventBase, TypeOK, RegistryInv, RegistryTypeOK, CallsHaveHandle, NoUseAfterFree, EntryOf

(* A call that goes on keeps its entry: its slot is neither free nor closed. *)
LEMMA EntryStable ==
  ASSUME EventBase, [RegistryNext]_registryVars, NEW t \in Thread, pc[t] # "idle", via'[t] # NoSlot
  PROVE  EntryOf(t)' = EntryOf(t)
<1> USE DEF EventBase, TypeOK, RegistryInv, RegistryTypeOK, EntryOf
<1>1. via[t] \in Slot /\ via[t] # NoSlot /\ handle[via[t]] \in Addr
  BY CallEntry
<1>2. ASSUME NEW s \in Slot, handle[s] = NoHandle \/ Unused(s),
             NEW v, handle' = [handle EXCEPT ![s] = v], via' = via
      PROVE  EntryOf(t)' = EntryOf(t)
  BY <1>1, <1>2, RegistryAssumption DEF Unused
<1> QED
  BY <1>1, <1>2, RegistryAssumption
     DEF RegistryNext, OpenExisting, OpenFails, OpenNew, Close, Return, Validate, registryVars

LEMMA AtFinite ==
  \A a, x : IsFiniteSet(At(a, x)) /\ Cardinality(At(a, x)) \in Nat
<1>1. \A a, x : At(a, x) \subseteq Thread
  BY DEF At
<1> QED
  BY <1>1, EventAssumption, FS_Subset, FS_CardinalityType

(* How many threads are at a step, after one of them has gone on. *)
LEMMA AtAfterCallStep ==
  ASSUME EventBase, NEW t \in Thread, NEW from, NEW to, NEW e \in Addr,
         CallStep(t, from, to, e)
  PROVE  \A a \in Addr, x \in InCall :
           Cardinality(At(a, x)') = Cardinality(At(a, x)) + (IF a = e THEN More(from, to, x) ELSE 0)
<1> SUFFICES ASSUME NEW a \in Addr, NEW x \in InCall
             PROVE  Cardinality(At(a, x)')
                      = Cardinality(At(a, x)) + (IF a = e THEN More(from, to, x) ELSE 0)
  OBVIOUS
<1>0. \A u \in Thread \ {t} : pc[u] # "idle" => EntryOf(u)' = EntryOf(u)
  BY EntryStable, CallEntry DEF CallStep
<1> USE DEF EventBase, TypeOK, InCall, WaitStep, SetStep, ResetStep
<1>1. IsFiniteSet(At(a, x)) /\ Cardinality(At(a, x)) \in Nat
  BY AtFinite
<1>2. \A u \in Thread \ {t} : u \in At(a, x)' <=> u \in At(a, x)
  BY <1>0 DEF At, CallStep
<1>3. CASE a = e /\ x = to
  <2>1. t \notin At(a, x) /\ At(a, x)' = At(a, x) \cup {t}
    BY <1>2, <1>3 DEF At, CallStep
  <2>2. Cardinality(At(a, x) \cup {t}) = Cardinality(At(a, x)) + 1
    BY <1>1, <2>1, FS_AddElement
  <2>3. More(from, to, x) = 1
    BY <1>3 DEF More, CallStep
  <2> QED
    BY <1>1, <1>3, <2>1, <2>2, <2>3
<1>4. CASE a = e /\ x = from
  <2>1. t \in At(a, x) /\ At(a, x)' = At(a, x) \ {t}
    BY <1>2, <1>4 DEF At, CallStep
  <2>2. Cardinality(At(a, x) \ {t}) = Cardinality(At(a, x)) - 1
    BY <1>1, <2>1, FS_RemoveElement
  <2>3. More(from, to, x) = -1
    BY <1>4 DEF More, CallStep
  <2> QED
    BY <1>1, <1>4, <2>1, <2>2, <2>3
<1>5. CASE ~(a = e /\ x = to) /\ ~(a = e /\ x = from)
  <2>1. At(a, x)' = At(a, x)
    BY <1>2, <1>5 DEF At, CallStep
  <2>2. a = e => More(from, to, x) = 0
    BY <1>5 DEF More
  <2> QED
    BY <1>1, <2>1, <2>2
<1> QED
  BY <1>3, <1>4, <1>5

LEMMA AtUnchanged ==
  ASSUME EventBase, [RegistryNext]_registryVars, pc' = pc, via' = via
  PROVE  \A a, x : x \in InCall => At(a, x)' = At(a, x)
<1>1. \A u \in Thread : pc[u] # "idle" => EntryOf(u)' = EntryOf(u)
  BY EntryStable, CallEntry
<1> QED
  BY <1>1 DEF At, InCall, WaitStep, SetStep, ResetStep

-----------------------------------------------------------------------------
(* The three beginnings of a call. *)
LEMMA EnterMoves ==
  ASSUME EventBase, NEW t \in Thread, NEW s \in Slot, NEW to,
         Goto(t, "idle", to), to \in {"down", "down_timeout", "check", "reset_check"},
         Validate(t, s), UNCHANGED eventVars
  PROVE  handle[s] \in Addr /\ handle[s] \in listed /\ Moved(t, "idle", to, handle[s], 0, 0)
<1> USE DEF EventBase, TypeOK, RegistryTypeOK
<1>1. /\ pc[t] = "idle" /\ handle[s] \in Addr /\ listed' = listed /\ handle[s] \in listed
      /\ \A u \in Thread \ {t} : via'[u] = via[u]
      /\ [RegistryNext]_registryVars
      /\ pc' = [pc EXCEPT ![t] = to]
  BY DEF Goto, Validate, RegistryNext
<1>2. EntryOf(t)' = handle[s]
  BY DEF Validate, EntryOf
<1>3. CallStep(t, "idle", to, handle[s])
  BY <1>1, <1>2 DEF CallStep
<1>4. Effect(handle[s], 0, 0)
  BY <1>1 DEF Effect, eventVars
<1> QED
  BY <1>1, <1>3, <1>4 DEF Moved, Move

(* A call under way, whose entry is the one it has been working on. *)
LEMMA UnderWay ==
  ASSUME EventBase, NEW t \in Thread, NEW from \in InCall, NEW to,
         Goto(t, from, to), from # to,
         \/ to # "idle" /\ UNCHANGED registryVars
         \/ to = "idle" /\ Return(t)
  PROVE  EntryOf(t) \in Addr /\ EntryOf(t) \in listed /\ CallStep(t, from, to, EntryOf(t))
<1>1. pc[t] = from /\ from # "idle" /\ pc' = [pc EXCEPT ![t] = to]
  BY DEF Goto, InCall, WaitStep, SetStep, ResetStep
<1>2. EntryOf(t) \in Addr /\ EntryOf(t) \in listed
  BY <1>1, CallEntry
<1>3. /\ \A u \in Thread \ {t} : via'[u] = via[u]
      /\ [RegistryNext]_registryVars /\ listed' = listed
      /\ to # "idle" => EntryOf(t)' = EntryOf(t)
  BY DEF registryVars, Return, RegistryNext, EventBase, TypeOK, RegistryTypeOK, EntryOf
<1> QED
  BY <1>1, <1>2, <1>3 DEF CallStep

LEMMA CallMoves ==
  ASSUME EventBase, NEW t \in Thread, LockDown(t) \/ LockTimeout(t) \/ Proceed(t)
  PROVE  /\ EntryOf(t) \in Addr /\ EntryOf(t) \in listed
         /\ \E from \in InCall, to \in InCall \cup {"idle"}, dc, dl \in {-1, 0, 1} :
              Moved(t, from, to, EntryOf(t), dc, dl)
<1> DEFINE e == EntryOf(t)
<1> USE DEF InCall, WaitStep, SetStep, ResetStep
<1>0. EventBase /\ count \in [Addr -> Nat] /\ lock_count \in [Addr -> Int]
  BY DEF EventBase, TypeOK
<1> HIDE DEF EventBase
<1>1. ASSUME NEW from \in InCall, NEW to \in InCall \cup {"idle"},
             NEW dc \in {-1, 0, 1}, NEW dl \in {-1, 0, 1},
             Goto(t, from, to), Move(from, to, dc, dl),
             \/ to # "idle" /\ UNCHANGED registryVars
             \/ to = "idle" /\ Return(t),
             count' = IF dc = 0 THEN count ELSE [count EXCEPT ![e] = @ + dc],
             lock_count' = IF dl = 0 THEN lock_count ELSE [lock_count EXCEPT ![e] = @ + dl]
      PROVE  /\ e \in Addr /\ e \in listed /\ Moved(t, from, to, e, dc, dl)
  <2>1. from # to
    BY <1>1 DEF Move
  <2>2. e \in Addr /\ e \in listed /\ CallStep(t, from, to, e)
    BY <1>0, <1>1, <2>1, UnderWay
  <2>3. Effect(e, dc, dl)
    BY <1>0, <1>1, <2>2 DEF Effect
  <2> QED
    BY <1>1, <2>2, <2>3 DEF Moved
<1>2. CASE LockDown(t)
  <2>1. PICK wait \in {"down", "down_timeout"} : Goto(t, wait, "inc")
    BY <1>2 DEF LockDown
  <2>2. count' = [count EXCEPT ![e] = @ + (-1)] /\ lock_count' = lock_count /\ UNCHANGED registryVars
    BY <1>0, <1>2 DEF LockDown
  <2>3. Move(wait, "inc", -1, 0)
    BY DEF Move
  <2> HIDE DEF e
  <2>4. e \in Addr /\ e \in listed /\ Moved(t, wait, "inc", e, -1, 0)
    BY <1>1, <2>1, <2>2, <2>3
  <2> QED
    BY <2>4 DEF e
<1>3. CASE LockTimeout(t)
  <2>1. Move("down_timeout", "idle", 0, 0)
    BY DEF Move
  <2>2. e \in Addr /\ e \in listed /\ Moved(t, "down_timeout", "idle", e, 0, 0)
    BY <1>1, <1>3, <2>1 DEF LockTimeout, eventVars
  <2> QED
    BY <2>2
<1>4. CASE LockInc(t)
  <2>1. Move("inc", "idle", 0, 1)
    BY SMTT(30) DEF Move
  <2>2. e \in Addr /\ e \in listed /\ Moved(t, "inc", "idle", e, 0, 1)
    BY <1>1, <1>4, <2>1 DEF LockInc
  <2> QED
    BY <2>2
<1>5. CASE UnlockNotTaken(t)
  <2>1. Move("check", "idle", 0, 0)
    BY DEF Move
  <2>2. e \in Addr /\ e \in listed /\ Moved(t, "check", "idle", e, 0, 0)
    BY <1>1, <1>5, <2>1 DEF UnlockNotTaken, NotTaken, eventVars
  <2> QED
    BY <2>2
<1>6. CASE UnlockTaken(t)
  <2>1. Move("check", "up", 0, 0)
    BY DEF Move
  <2>2. e \in Addr /\ e \in listed /\ Moved(t, "check", "up", e, 0, 0)
    BY <1>1, <1>6, <2>1 DEF UnlockTaken, Taken, eventVars
  <2> QED
    BY <2>2
<1>7. CASE UnlockUp(t)
  <2>1. Move("up", "dec", 1, 0)
    BY SMTT(30) DEF Move
  <2>2. e \in Addr /\ e \in listed /\ Moved(t, "up", "dec", e, 1, 0)
    BY <1>1, <1>7, <2>1 DEF UnlockUp, Up
  <2> QED
    BY <2>2
<1>8. CASE UnlockDec(t)
  <2>1. Move("dec", "idle", 0, -1)
    BY DEF Move
  <2>2. lock_count' = [lock_count EXCEPT ![e] = @ + (-1)] /\ count' = count
    BY <1>0, <1>8 DEF UnlockDec, Dec
  <2>3. Goto(t, "dec", "idle") /\ Return(t)
    BY <1>8 DEF UnlockDec, Dec
  <2> HIDE DEF e
  <2>4. e \in Addr /\ e \in listed /\ Moved(t, "dec", "idle", e, 0, -1)
    BY <1>1, <2>1, <2>2, <2>3
  <2> QED
    BY <2>4 DEF e
<1>9. CASE ResetNotTaken(t)
  <2>1. Move("reset_check", "idle", 0, 0)
    BY DEF Move
  <2>2. e \in Addr /\ e \in listed /\ Moved(t, "reset_check", "idle", e, 0, 0)
    BY <1>1, <1>9, <2>1 DEF ResetNotTaken, NotTaken, eventVars
  <2> QED
    BY <2>2
<1>10. CASE ResetTaken(t)
  <2>1. Move("reset_check", "reset_up", 0, 0)
    BY DEF Move
  <2>2. e \in Addr /\ e \in listed /\ Moved(t, "reset_check", "reset_up", e, 0, 0)
    BY <1>1, <1>10, <2>1 DEF ResetTaken, Taken, eventVars
  <2> QED
    BY <2>2
<1>11. CASE ResetUp(t)
  <2>1. Move("reset_up", "reset_dec", 1, 0)
    BY SMTT(30) DEF Move
  <2>2. e \in Addr /\ e \in listed /\ Moved(t, "reset_up", "reset_dec", e, 1, 0)
    BY <1>1, <1>11, <2>1 DEF ResetUp, Up
  <2> QED
    BY <2>2
<1>12. CASE ResetDec(t)
  <2>1. Move("reset_dec", "idle", 0, -1)
    BY DEF Move
  <2>2. lock_count' = [lock_count EXCEPT ![e] = @ + (-1)] /\ count' = count
    BY <1>0, <1>12 DEF ResetDec, Dec
  <2>3. Goto(t, "reset_dec", "idle") /\ Return(t)
    BY <1>12 DEF ResetDec, Dec
  <2> HIDE DEF e
  <2>4. e \in Addr /\ e \in listed /\ Moved(t, "reset_dec", "idle", e, 0, -1)
    BY <1>1, <2>1, <2>2, <2>3
  <2> QED
    BY <2>4 DEF e
<1> HIDE DEF e
<1> QED
  BY <1>2, <1>3, <1>4, <1>5, <1>6, <1>7, <1>8, <1>9, <1>10, <1>11, <1>12
     DEF Proceed, ProceedSet, ProceedReset
-----------------------------------------------------------------------------
LEMMA CreateStep ==
  ASSUME EventBase, NEW t \in Thread, NEW s \in Slot, NEW n \in Name, IPC_createEvent(t, s, n)
  PROVE  /\ pc' = pc /\ via' = via /\ [RegistryNext]_registryVars /\ listed \subseteq listed'
         /\ \A a \in listed : UNCHANGED <<count[a], lock_count[a], woken[a]>>
         /\ \A a \in listed' \ listed :
              a \in Addr /\ count'[a] = 1 /\ lock_count'[a] = 0 /\ woken'[a] = {}
         /\ \A a \in listed' \ listed, x \in InCall : Cardinality(At(a, x)') = 0
         /\ \A a, x : x \in InCall => At(a, x)' = At(a, x)
<1> USE DEF EventBase, TypeOK, RegistryTypeOK
<1>1. pc' = pc /\ via' = via /\ [RegistryNext]_registryVars /\ listed \subseteq listed'
  BY DEF IPC_createEvent, OpenExisting, OpenFails, OpenNew, RegistryNext
<1>2. \A a, x : x \in InCall => At(a, x)' = At(a, x)
  BY <1>1, AtUnchanged
<1>3. \A a \in listed : UNCHANGED <<count[a], lock_count[a], woken[a]>>
  BY DEF IPC_createEvent, eventVars, OpenNew
<1>4. \A a \in listed' \ listed :
        a \in Addr /\ count'[a] = 1 /\ lock_count'[a] = 0 /\ woken'[a] = {}
  BY DEF IPC_createEvent, OpenExisting, OpenFails, OpenNew
<1>5. ASSUME NEW a \in listed' \ listed, NEW x \in InCall
      PROVE  Cardinality(At(a, x)') = 0
  <2>1. At(a, x) = {}
    BY CallEntry DEF At, InCall, WaitStep, SetStep, ResetStep
  <2>2. At(a, x)' = {}
    BY <1>2, <2>1
  <2> QED
    BY <2>2, FS_EmptySet
<1> QED
  BY <1>1, <1>2, <1>3, <1>4, <1>5

LEMMA CloseStep ==
  ASSUME EventBase, NEW t \in Thread, NEW s \in Slot, ipc_event_close(t, s)
  PROVE  /\ pc' = pc /\ via' = via /\ [RegistryNext]_registryVars /\ listed' \subseteq listed
         /\ UNCHANGED <<count, lock_count, woken>>
         /\ \A a, x : x \in InCall => At(a, x)' = At(a, x)
<1>1. /\ pc' = pc /\ via' = via /\ [RegistryNext]_registryVars /\ listed' \subseteq listed
      /\ UNCHANGED <<count, lock_count, woken>>
  BY DEF ipc_event_close, Close, RegistryNext, eventVars
<1> QED
  BY <1>1, AtUnchanged

(* Every step of an event is one of these. *)
LEMMA StepCases ==
  ASSUME EventBase, Next
  PROVE  \/ \E t \in Thread, s \in Slot, n \in Name : IPC_createEvent(t, s, n)
         \/ \E t \in Thread, s \in Slot : ipc_event_close(t, s)
         \/ \E t \in Thread, from \in InCall \cup {"idle"}, to \in InCall \cup {"idle"},
               e \in Addr, dc, dl \in {-1, 0, 1} :
              e \in listed /\ Moved(t, from, to, e, dc, dl)
<1> USE DEF InCall, WaitStep, SetStep, ResetStep
<1>1. ASSUME NEW t \in Thread, NEW s \in Slot, NEW to \in {"down", "down_timeout", "check", "reset_check"},
             Goto(t, "idle", to), Validate(t, s), UNCHANGED eventVars
      PROVE  \E from \in InCall \cup {"idle"}, e \in Addr, dc, dl \in {-1, 0, 1} :
               e \in listed /\ Moved(t, from, to, e, dc, dl)
  <2>1. handle[s] \in Addr /\ handle[s] \in listed /\ Moved(t, "idle", to, handle[s], 0, 0)
    BY <1>1, EnterMoves
  <2> QED
    BY <2>1
<1>2. ASSUME NEW t \in Thread, NEW s \in Slot,
             LockEnter(t, s) \/ UnlockEnter(t, s) \/ ResetEnter(t, s)
      PROVE  \E to \in {"down", "down_timeout", "check", "reset_check"} :
               Goto(t, "idle", to) /\ Validate(t, s) /\ UNCHANGED eventVars
  BY <1>2 DEF LockEnter, UnlockEnter, ResetEnter
<1>3. ASSUME NEW t \in Thread, NEW s \in Slot,
             LockEnter(t, s) \/ UnlockEnter(t, s) \/ ResetEnter(t, s)
      PROVE  \E to \in InCall, from \in InCall \cup {"idle"}, e \in Addr, dc, dl \in {-1, 0, 1} :
               e \in listed /\ Moved(t, from, to, e, dc, dl)
  <2>1. PICK to \in {"down", "down_timeout", "check", "reset_check"} :
          Goto(t, "idle", to) /\ Validate(t, s) /\ UNCHANGED eventVars
    BY <1>2, <1>3
  <2>2. to \in InCall
    OBVIOUS
  <2> QED
    BY <1>1, <2>1, <2>2
<1> HIDE DEF InCall, WaitStep, SetStep, ResetStep
<1> QED
  BY <1>3, CallMoves DEF Next

-----------------------------------------------------------------------------
LEMMA EventInitInv == Init => EventInv
<1> SUFFICES ASSUME Init PROVE EventInv
  OBVIOUS
<1>1. RegistryInv
  BY RegistryInitInv DEF Init
<1>2. TypeOK
  BY <1>1 DEF Init, TypeOK, RegistryInv, RegistryInit, Step
<1> QED
  BY <1>1, <1>2 DEF Init, RegistryInit, EventInv, EventBase, CallsHaveHandle, EventConserved

LEMMA TypeStep ==
  ASSUME EventBase, [Next]_vars
  PROVE  TypeOK' /\ RegistryInv'
<1> USE DEF EventBase, TypeOK, Goto, Step, WaitStep, SetStep, ResetStep
<1>1. RegistryInv' /\ RegistryTypeOK'
  BY RegistryStepInv, StepsOfRegistry DEF RegistryInv, vars, registryVars
<1>2. ASSUME NEW t \in Thread, NEW s \in Slot, NEW n \in Name, IPC_createEvent(t, s, n)
      PROVE  TypeOK'
  BY <1>1, <1>2 DEF IPC_createEvent, eventVars
<1>3. ASSUME NEW t \in Thread, NEW s \in Slot,
             ipc_event_close(t, s) \/ LockEnter(t, s) \/ UnlockEnter(t, s) \/ ResetEnter(t, s)
      PROVE  TypeOK'
  <2>1. CASE ipc_event_close(t, s) \/ UnlockEnter(t, s) \/ ResetEnter(t, s)
    BY <1>1, <2>1 DEF ipc_event_close, UnlockEnter, ResetEnter, eventVars
  <2>2. CASE LockEnter(t, s)
    BY <1>1, <2>2 DEF LockEnter, eventVars
  <2> QED
    BY <1>3, <2>1, <2>2
<1>4. ASSUME NEW t \in Thread, LockDown(t)
      PROVE  TypeOK'
  <2>1. EntryOf(t) \in Addr
    BY <1>4, CallEntry DEF LockDown
  <2>2. count[EntryOf(t)] - 1 \in Nat
    BY <1>4, <2>1 DEF LockDown
  <2> QED
    BY <1>1, <1>4, <2>1, <2>2 DEF LockDown
<1>5. ASSUME NEW t \in Thread, LockTimeout(t) \/ LockInc(t)
      PROVE  TypeOK'
  <2>1. EntryOf(t) \in Addr
    BY <1>5, CallEntry DEF LockTimeout, LockInc
  <2> QED
    BY <1>1, <1>5, <2>1 DEF LockTimeout, LockInc, eventVars
<1>6. ASSUME NEW t \in Thread, ProceedSet(t) \/ ProceedReset(t)
      PROVE  TypeOK'
  <2>1. EntryOf(t) \in Addr
    BY <1>6, CallEntry
       DEF ProceedSet, UnlockNotTaken, UnlockTaken, UnlockUp, UnlockDec, ProceedReset,
           ResetNotTaken, ResetTaken, ResetUp, ResetDec, NotTaken, Taken, Up, Dec
  <2>2. /\ count' = count \/ count' = [count EXCEPT ![EntryOf(t)] = @ + 1]
        /\ lock_count' = lock_count \/ lock_count' = [lock_count EXCEPT ![EntryOf(t)] = @ - 1]
        /\ woken' = woken
        /\ \E to \in Step : pc' = [pc EXCEPT ![t] = to]
    BY <1>6
       DEF ProceedSet, UnlockNotTaken, UnlockTaken, UnlockUp, UnlockDec, ProceedReset,
           ResetNotTaken, ResetTaken, ResetUp, ResetDec, NotTaken, Taken, Up, Dec, eventVars
  <2> QED
    BY <1>1, <2>1, <2>2
<1>7. CASE UNCHANGED vars
  BY <1>1, <1>7 DEF vars, eventVars
<1> QED
  BY <1>1, <1>2, <1>3, <1>4, <1>5, <1>6, <1>7 DEF Next, Proceed

LEMMA HandleStep ==
  ASSUME EventBase, [Next]_vars
  PROVE  CallsHaveHandle'
<1> USE DEF EventBase, CallsHaveHandle, TypeOK, RegistryTypeOK, Goto
<1>1. ASSUME NEW t \in Thread, NEW s \in Slot,
             (\E n \in Name : IPC_createEvent(t, s, n)) \/ ipc_event_close(t, s)
      PROVE  CallsHaveHandle'
  BY <1>1, CreateStep, CloseStep
<1>2. ASSUME NEW t \in Thread, NEW s \in Slot,
             LockEnter(t, s) \/ UnlockEnter(t, s) \/ ResetEnter(t, s)
      PROVE  CallsHaveHandle'
  BY <1>2, RegistryAssumption DEF LockEnter, UnlockEnter, ResetEnter, Validate
<1>3. ASSUME NEW t \in Thread, pc[t] # "idle",
             \/ UNCHANGED registryVars /\ \E to \in InCall : pc' = [pc EXCEPT ![t] = to]
             \/ Return(t) /\ pc' = [pc EXCEPT ![t] = "idle"]
      PROVE  CallsHaveHandle'
  BY <1>3 DEF Return, registryVars, InCall, WaitStep, SetStep, ResetStep
<1>4. ASSUME NEW t \in Thread, LockDown(t) \/ LockTimeout(t) \/ Proceed(t)
      PROVE  CallsHaveHandle'
  <2>1. /\ pc[t] # "idle"
        /\ \/ UNCHANGED registryVars /\ \E to \in InCall : pc' = [pc EXCEPT ![t] = to]
           \/ Return(t) /\ pc' = [pc EXCEPT ![t] = "idle"]
    BY <1>4
       DEF LockDown, LockTimeout, Proceed, LockInc,
           ProceedSet, UnlockNotTaken, UnlockTaken, UnlockUp, UnlockDec, ProceedReset,
           ResetNotTaken, ResetTaken, ResetUp, ResetDec, NotTaken, Taken, Up, Dec,
           InCall, WaitStep, SetStep, ResetStep
  <2> QED
    BY <1>3, <2>1
<1>5. CASE UNCHANGED vars
  BY <1>5 DEF vars, registryVars
<1> HIDE DEF EventBase, CallsHaveHandle, TypeOK, RegistryTypeOK, Goto
<1>6. CASE Next
  BY <1>1, <1>2, <1>4, <1>6 DEF Next
<1> QED
  BY <1>5, <1>6

LEMMA MoveSums ==
  ASSUME NEW from, NEW to, NEW dc, NEW dl, Move(from, to, dc, dl)
  PROVE  dc + dl + More(from, to, "inc") - More(from, to, "dec") - More(from, to, "reset_dec") = 0
BY DEF Move, More

(* Whatever the calls do, each step of theirs leaves the sum as it was. *)
LEMMA ConservedStep ==
  ASSUME EventInv, TypeOK', [Next]_vars
  PROVE  EventConserved'
<1> USE DEF EventInv
<1>0. "inc" \in InCall /\ "dec" \in InCall /\ "reset_dec" \in InCall
  BY DEF InCall, WaitStep, SetStep, ResetStep
<1>1. ASSUME NEW t \in Thread, NEW s \in Slot, NEW n \in Name, IPC_createEvent(t, s, n)
      PROVE  EventConserved'
  <2> SUFFICES ASSUME NEW a \in listed'
               PROVE  count'[a] + lock_count'[a] + Cardinality(At(a, "inc")')
                        - Cardinality(At(a, "dec")') - Cardinality(At(a, "reset_dec")') = 1
    BY DEF EventConserved
  <2>1. CASE a \in listed
    <3>1. /\ At(a, "inc")' = At(a, "inc") /\ At(a, "dec")' = At(a, "dec")
          /\ At(a, "reset_dec")' = At(a, "reset_dec")
          /\ count'[a] = count[a] /\ lock_count'[a] = lock_count[a]
      BY <1>0, <1>1, <2>1, CreateStep
    <3> QED
      BY <2>1, <3>1 DEF EventConserved
  <2>2. CASE a \notin listed
    <3>1. /\ Cardinality(At(a, "inc")') = 0 /\ Cardinality(At(a, "dec")') = 0
          /\ Cardinality(At(a, "reset_dec")') = 0
          /\ count'[a] = 1 /\ lock_count'[a] = 0
      BY <1>0, <1>1, <2>2, CreateStep
    <3> QED
      BY <3>1
  <2> QED
    BY <2>1, <2>2
<1>2. ASSUME NEW t \in Thread, NEW s \in Slot, ipc_event_close(t, s)
      PROVE  EventConserved'
  <2>1. /\ listed' \subseteq listed /\ count' = count /\ lock_count' = lock_count
        /\ \A a : /\ At(a, "inc")' = At(a, "inc") /\ At(a, "dec")' = At(a, "dec")
                 /\ At(a, "reset_dec")' = At(a, "reset_dec")
    BY <1>0, <1>2, CloseStep
  <2> HIDE DEF EventInv
  <2>2. EventConserved
    BY DEF EventInv
  <2> QED
    BY <2>1, <2>2 DEF EventConserved
<1>3. ASSUME NEW t \in Thread, NEW from \in InCall \cup {"idle"}, NEW to \in InCall \cup {"idle"},
             NEW e \in Addr, NEW dc \in {-1, 0, 1}, NEW dl \in {-1, 0, 1}, Moved(t, from, to, e, dc, dl)
      PROVE  EventConserved'
  <2> SUFFICES ASSUME NEW a \in listed
               PROVE  count'[a] + lock_count'[a] + Cardinality(At(a, "inc")')
                        - Cardinality(At(a, "dec")') - Cardinality(At(a, "reset_dec")') = 1
    BY <1>3 DEF EventConserved, Moved, CallStep
  <2>1. a \in Addr /\ count[a] \in Int /\ lock_count[a] \in Int
    BY DEF EventBase, TypeOK, RegistryTypeOK
  <2>2. \A x \in {"inc", "dec", "reset_dec"} :
          /\ Cardinality(At(a, x)) \in Int /\ More(from, to, x) \in Int
          /\ Cardinality(At(a, x)') = Cardinality(At(a, x)) + (IF a = e THEN More(from, to, x) ELSE 0)
    BY <1>0, <1>3, <2>1, AtFinite, AtAfterCallStep DEF More, Moved
  <2>3. count[a] + lock_count[a] + Cardinality(At(a, "inc"))
          - Cardinality(At(a, "dec")) - Cardinality(At(a, "reset_dec")) = 1
    BY DEF EventConserved
  <2>4. CASE a = e
    <3>1. count'[a] = count[a] + dc /\ lock_count'[a] = lock_count[a] + dl
      BY <1>3, <2>4 DEF Moved, Effect
    <3>2. dc + dl + More(from, to, "inc") - More(from, to, "dec") - More(from, to, "reset_dec") = 0
      BY <1>3, MoveSums DEF Moved
    <3>3. /\ Cardinality(At(a, "inc")') = Cardinality(At(a, "inc")) + More(from, to, "inc")
          /\ Cardinality(At(a, "dec")') = Cardinality(At(a, "dec")) + More(from, to, "dec")
          /\ Cardinality(At(a, "reset_dec")')
               = Cardinality(At(a, "reset_dec")) + More(from, to, "reset_dec")
          /\ Cardinality(At(a, "inc")) \in Int /\ More(from, to, "inc") \in Int
          /\ Cardinality(At(a, "dec")) \in Int /\ More(from, to, "dec") \in Int
          /\ Cardinality(At(a, "reset_dec")) \in Int /\ More(from, to, "reset_dec") \in Int
      BY <2>2, <2>4
    <3> QED
      BY <2>1, <2>3, <3>1, <3>2, <3>3
  <2>5. CASE a # e
    <3>1. count'[a] = count[a] /\ lock_count'[a] = lock_count[a]
      BY <1>3, <2>1, <2>5 DEF Moved, Effect
    <3> QED
      BY <2>2, <2>3, <2>5, <3>1
  <2> QED
    BY <2>4, <2>5
<1>4. CASE UNCHANGED vars
  BY <1>4 DEF EventConserved, At, EntryOf, vars, registryVars, eventVars
<1>5. CASE Next
  BY <1>1, <1>2, <1>3, <1>5, StepCases
<1> QED
  BY <1>4, <1>5

LEMMA EventNextInv == EventInv /\ [Next]_vars => EventInv'
BY TypeStep, HandleStep, ConservedStep DEF EventInv, EventBase

(* ipcevent.c: with any number of setters and resetters, what is in the    *)
(* semaphore, what is counted as taken and what is between the two         *)
(* accesses of a call add up to the 1 that the event started with.         *)
THEOREM EventCounts == Spec => []EventConserved
<1>1. EventInv => EventConserved
  BY DEF EventInv
<1> QED
  BY <1>1, EventInitInv, EventNextInv, PTL DEF Spec
-----------------------------------------------------------------------------
(* From here on one thread sets events and nobody resets them. *)
SetsAlone ==
  (\A t, u \in Setter : t = u) /\ Resetter = {}

OnlySets ==
  \A t \in Thread : (pc[t] \in SetStep => t \in Setter) /\ pc[t] \notin ResetStep

(* A set that gives the semaphore back has a wait to take off the counter. *)
SetsCovered ==
  \A a \in listed : lock_count[a] >= Cardinality(At(a, "dec")) + Cardinality(At(a, "up"))

WaitersOut == \A t \in Thread : pc[t] \in WaitStep => t \notin woken[EntryOf(t)]

SetterInv == EventInv /\ OnlySets /\ SetsCovered /\ WaitersOut

LEMMA OneSetterTwoStates == SetterInv => EventSound
<1> SUFFICES ASSUME SetterInv PROVE TwoState /\ TakenIsCounted
  BY DEF SetterInv, EventInv, EventBase, EventSound
<1> USE DEF SetterInv
<1>1. ASSUME NEW a \in listed
      PROVE  /\ count[a] + Cardinality(At(a, "inc")) = 1 - lock_count[a] + Cardinality(At(a, "dec"))
             /\ lock_count[a] >= Cardinality(At(a, "dec"))
             /\ count[a] \in Nat /\ lock_count[a] \in Int
             /\ Cardinality(At(a, "inc")) \in Nat /\ Cardinality(At(a, "dec")) \in Nat
  <2>1. At(a, "reset_dec") = {}
    BY DEF OnlySets, At, ResetStep
  <2>2. Cardinality(At(a, "reset_dec")) = 0
    BY <2>1, FS_EmptySet
  <2>3. count[a] \in Nat /\ lock_count[a] \in Int
    BY DEF EventInv, EventBase, TypeOK, RegistryTypeOK
  <2>4. /\ Cardinality(At(a, "inc")) \in Nat /\ Cardinality(At(a, "dec")) \in Nat
        /\ Cardinality(At(a, "up")) \in Nat
    BY AtFinite
  <2>5. count[a] + lock_count[a] + Cardinality(At(a, "inc"))
          - Cardinality(At(a, "dec")) - Cardinality(At(a, "reset_dec")) = 1
    BY DEF EventInv, EventConserved
  <2>6. lock_count[a] >= Cardinality(At(a, "dec")) + Cardinality(At(a, "up"))
    BY DEF SetsCovered
  <2> QED
    BY <2>2, <2>3, <2>4, <2>5, <2>6
<1>2. TwoState
  <2> SUFFICES ASSUME NEW a \in listed PROVE count[a] + Cardinality(At(a, "inc")) <= 1
    BY DEF TwoState
  <2> QED
    BY <1>1
<1>3. TakenIsCounted
  <2> SUFFICES ASSUME NEW a \in listed, count[a] + Cardinality(At(a, "inc")) = 0
               PROVE  lock_count[a] - Cardinality(At(a, "dec")) > 0
    BY DEF TakenIsCounted
  <2> QED
    BY <1>1
<1> QED
  BY <1>2, <1>3

LEMMA SetterInitInv == Init => SetterInv
<1> SUFFICES ASSUME Init PROVE SetterInv
  OBVIOUS
<1> QED
  BY EventInitInv
     DEF Init, RegistryInit, SetterInv, OnlySets, SetsCovered, WaitersOut, SetStep, ResetStep, WaitStep

LEMMA OnlySetsStep ==
  ASSUME SetsAlone, SetterInv, [Next]_vars
  PROVE  OnlySets'
<1> USE DEF SetterInv, OnlySets, EventInv, EventBase, TypeOK, SetsAlone, SetStep, ResetStep, Goto
<1>1. ASSUME NEW t \in Thread, NEW s \in Slot,
             (\E n \in Name : IPC_createEvent(t, s, n)) \/ ipc_event_close(t, s)
      PROVE  OnlySets'
  BY <1>1 DEF IPC_createEvent, ipc_event_close
<1>2. ASSUME NEW t \in Thread, NEW s \in Slot,
             LockEnter(t, s) \/ UnlockEnter(t, s) \/ ResetEnter(t, s)
      PROVE  OnlySets'
  BY <1>2 DEF LockEnter, UnlockEnter, ResetEnter
<1>3. ASSUME NEW t \in Thread, LockDown(t) \/ LockTimeout(t) \/ LockInc(t)
      PROVE  OnlySets'
  BY <1>3 DEF LockDown, LockTimeout, LockInc
<1>4. ASSUME NEW t \in Thread, ProceedSet(t)
      PROVE  OnlySets'
  BY <1>4 DEF ProceedSet, UnlockNotTaken, UnlockTaken, UnlockUp, UnlockDec, NotTaken, Taken, Up, Dec
<1>5. ASSUME NEW t \in Thread, ProceedReset(t)
      PROVE  FALSE
  BY <1>5 DEF ProceedReset, ResetNotTaken, ResetTaken, ResetUp, ResetDec, NotTaken, Taken, Up, Dec
<1>6. CASE UNCHANGED vars
  BY <1>6 DEF vars
<1> HIDE DEF SetterInv, OnlySets, EventInv, EventBase, TypeOK, SetsAlone, SetStep, ResetStep, Goto
<1>7. CASE Next
  BY <1>1, <1>2, <1>3, <1>4, <1>5, <1>7 DEF Next, Proceed
<1> QED
  BY <1>6, <1>7

(* The set that finds the event taken is alone, so that the counter it saw *)
(* has nothing else to pay for.                                            *)
LEMMA CheckAlone ==
  ASSUME SetsAlone, SetterInv, NEW t \in Thread, pc[t] = "check", NEW a
  PROVE  Cardinality(At(a, "up")) = 0 /\ Cardinality(At(a, "dec")) = 0
<1>1. \A u \in Thread : pc[u] \in SetStep => u = t
  BY DEF SetsAlone, SetterInv, OnlySets, SetStep
<1>2. At(a, "up") = {} /\ At(a, "dec") = {}
  BY <1>1 DEF At, SetStep
<1> QED
  BY <1>2, FS_EmptySet

LEMMA CheckedStep ==
  ASSUME NEW t \in Thread, EventBase, Next, pc[t] = "check", pc'[t] = "up"
  PROVE  lock_count[EntryOf(t)] # 0
<1> USE DEF EventBase, TypeOK, Goto
<1>1. ASSUME NEW u \in Thread, NEW s \in Slot,
             \/ \E n \in Name : IPC_createEvent(u, s, n)
             \/ ipc_event_close(u, s) \/ LockEnter(u, s) \/ UnlockEnter(u, s) \/ ResetEnter(u, s)
      PROVE  FALSE
  BY <1>1 DEF IPC_createEvent, ipc_event_close, LockEnter, UnlockEnter, ResetEnter
<1>2. ASSUME NEW u \in Thread, LockDown(u) \/ LockTimeout(u) \/ LockInc(u) \/ ProceedReset(u)
      PROVE  FALSE
  BY <1>2 DEF LockDown, LockTimeout, LockInc, ProceedReset, ResetNotTaken, ResetTaken, ResetUp, ResetDec,
              NotTaken, Taken, Up, Dec
<1>3. ASSUME NEW u \in Thread, ProceedSet(u)
      PROVE  lock_count[EntryOf(t)] # 0
  BY <1>3 DEF ProceedSet, UnlockNotTaken, UnlockTaken, UnlockUp, UnlockDec, NotTaken, Taken, Up, Dec
<1> HIDE DEF EventBase, TypeOK, Goto
<1> QED
  BY <1>1, <1>2, <1>3 DEF Next, Proceed

LEMMA MoveCovers ==
  ASSUME NEW from, NEW to, NEW dc, NEW dl, Move(from, to, dc, dl),
         from \notin ResetStep, ~(from = "check" /\ to = "up")
  PROVE  dl - More(from, to, "dec") - More(from, to, "up") >= 0
BY DEF Move, More, ResetStep

LEMMA CoveredStep ==
  ASSUME SetsAlone, SetterInv, TypeOK', [Next]_vars
  PROVE  SetsCovered'
<1> USE DEF SetterInv, EventInv
<1>0. "up" \in InCall /\ "dec" \in InCall
  BY DEF InCall, SetStep
<1>1. ASSUME NEW t \in Thread, NEW s \in Slot, NEW n \in Name, IPC_createEvent(t, s, n)
      PROVE  SetsCovered'
  <2> SUFFICES ASSUME NEW a \in listed'
               PROVE  lock_count'[a] >= Cardinality(At(a, "dec")') + Cardinality(At(a, "up")')
    BY DEF SetsCovered
  <2>1. CASE a \in listed
    <3>1. /\ At(a, "up")' = At(a, "up") /\ At(a, "dec")' = At(a, "dec")
          /\ lock_count'[a] = lock_count[a]
      BY <1>0, <1>1, <2>1, CreateStep
    <3> QED
      BY <2>1, <3>1 DEF SetsCovered
  <2>2. CASE a \notin listed
    <3>1. /\ Cardinality(At(a, "up")') = 0 /\ Cardinality(At(a, "dec")') = 0
          /\ lock_count'[a] = 0
      BY <1>0, <1>1, <2>2, CreateStep
    <3> QED
      BY <3>1
  <2> QED
    BY <2>1, <2>2
<1>2. ASSUME NEW t \in Thread, NEW s \in Slot, ipc_event_close(t, s)
      PROVE  SetsCovered'
  <2>1. /\ listed' \subseteq listed /\ lock_count' = lock_count
        /\ \A a : At(a, "up")' = At(a, "up") /\ At(a, "dec")' = At(a, "dec")
    BY <1>0, <1>2, CloseStep
  <2>2. SetsCovered
    OBVIOUS
  <2> HIDE DEF SetterInv, EventInv
  <2> QED
    BY <2>1, <2>2 DEF SetsCovered
<1>3. ASSUME NEW t \in Thread, NEW from \in InCall \cup {"idle"}, NEW to \in InCall \cup {"idle"},
             NEW e \in Addr, NEW dc \in {-1, 0, 1}, NEW dl \in {-1, 0, 1}, Next, Moved(t, from, to, e, dc, dl)
      PROVE  SetsCovered'
  <2> SUFFICES ASSUME NEW a \in listed
               PROVE  lock_count'[a] >= Cardinality(At(a, "dec")') + Cardinality(At(a, "up")')
    BY <1>3 DEF SetsCovered, Moved, CallStep
  <2>1. a \in Addr /\ lock_count[a] \in Int
    BY DEF EventBase, TypeOK, RegistryTypeOK
  <2>2. \A x \in {"up", "dec"} :
          /\ Cardinality(At(a, x)) \in Nat /\ More(from, to, x) \in Int
          /\ Cardinality(At(a, x)') = Cardinality(At(a, x)) + (IF a = e THEN More(from, to, x) ELSE 0)
    BY <1>0, <1>3, <2>1, AtFinite, AtAfterCallStep DEF More, Moved
  <2>3. lock_count[a] >= Cardinality(At(a, "dec")) + Cardinality(At(a, "up"))
    BY DEF SetsCovered
  <2>4. CASE a = e
    <3>1. lock_count'[a] = lock_count[a] + dl
      BY <1>3, <2>4 DEF Moved, Effect
    <3>2. /\ Cardinality(At(a, "up")') = Cardinality(At(a, "up")) + More(from, to, "up")
          /\ Cardinality(At(a, "dec")') = Cardinality(At(a, "dec")) + More(from, to, "dec")
          /\ Cardinality(At(a, "up")) \in Nat /\ More(from, to, "up") \in Int
          /\ Cardinality(At(a, "dec")) \in Nat /\ More(from, to, "dec") \in Int
      BY <2>2, <2>4
    <3>3. CASE from = "check" /\ to = "up"
      <4>1. pc[t] = "check" /\ pc'[t] = "up" /\ EntryOf(t) = a
        BY <1>3, <2>4, <3>3 DEF Moved, CallStep, EventBase, TypeOK
      <4>2. lock_count[a] # 0
        BY <1>3, <4>1, CheckedStep
      <4>3. Cardinality(At(a, "up")) = 0 /\ Cardinality(At(a, "dec")) = 0
        BY <4>1, CheckAlone
      <4>4. dl = 0 /\ More(from, to, "up") = 1 /\ More(from, to, "dec") = 0
        BY <1>3, <3>3 DEF Moved, Move, More
      <4> QED
        BY <2>1, <2>3, <3>1, <3>2, <4>2, <4>3, <4>4
    <3>4. CASE ~(from = "check" /\ to = "up")
      <4>1. from \notin ResetStep
        BY <1>3 DEF Moved, CallStep, OnlySets
      <4>2. dl - More(from, to, "dec") - More(from, to, "up") >= 0
        BY <1>3, <3>4, <4>1, MoveCovers DEF Moved
      <4> QED
        BY <2>1, <2>3, <3>1, <3>2, <4>2
    <3> QED
      BY <3>3, <3>4
  <2>5. CASE a # e
    <3>1. lock_count'[a] = lock_count[a]
      BY <1>3, <2>1, <2>5 DEF Moved, Effect
    <3> QED
      BY <2>2, <2>3, <2>5, <3>1
  <2> QED
    BY <2>4, <2>5
<1>4. CASE UNCHANGED vars
  BY <1>4 DEF SetsCovered, At, EntryOf, vars, registryVars, eventVars
<1> HIDE DEF SetterInv
<1>5. CASE Next
  <2>1. EventBase
    BY DEF SetterInv
  <2> HIDE DEF EventInv
  <2> QED
    BY <1>1, <1>2, <1>3, <1>5, <2>1, StepCases
<1> QED
  BY <1>4, <1>5

(* Who waits has not been let through. *)
LEMMA WaitersStep ==
  ASSUME SetterInv, [Next]_vars
  PROVE  WaitersOut'
<1> USE DEF SetterInv, EventInv
<1>1. ASSUME NEW t \in Thread, pc[t] # "idle", via'[t] # NoSlot, [Next]_vars
      PROVE  EntryOf(t)' = EntryOf(t) /\ EntryOf(t) \in listed /\ EntryOf(t) \in Addr
  BY <1>1, EntryStable, CallEntry, StepsOfRegistry DEF vars, registryVars
<1>2. \A t \in Thread : pc'[t] \in WaitStep => via'[t] # NoSlot /\ pc'[t] # "idle"
  BY HandleStep DEF CallsHaveHandle, WaitStep
<1>3. ASSUME \A u \in Thread : pc'[u] \in WaitStep =>
               pc[u] \in WaitStep /\ (u \in woken'[EntryOf(u)] => u \in woken[EntryOf(u)])
      PROVE  WaitersOut'
  BY <1>1, <1>2, <1>3 DEF WaitersOut, WaitStep
<1> USE DEF EventBase, TypeOK, RegistryTypeOK, WaitStep, Goto
<1>4. ASSUME NEW t \in Thread, NEW s \in Slot, NEW n \in Name, IPC_createEvent(t, s, n)
      PROVE  WaitersOut'
  <2>1. pc' = pc /\ \A a \in listed : woken'[a] = woken[a]
    BY <1>4, CreateStep
  <2> QED
    BY <1>1, <1>2, <1>3, <2>1
<1>5. ASSUME NEW t \in Thread, NEW s \in Slot, ipc_event_close(t, s)
      PROVE  WaitersOut'
  BY <1>3, <1>5, CloseStep
<1>6. ASSUME NEW t \in Thread, NEW s \in Slot, UnlockEnter(t, s) \/ ResetEnter(t, s)
      PROVE  WaitersOut'
  BY <1>3, <1>6 DEF UnlockEnter, ResetEnter
<1>7. ASSUME NEW t \in Thread, NEW s \in Slot, LockEnter(t, s)
      PROVE  WaitersOut'
  <2>1. /\ \A u \in Thread \ {t} : pc'[u] = pc[u]
        /\ \A u \in Thread, a \in Addr : u \in woken'[a] => u \in woken[a]
        /\ t \notin woken'[handle[s]] /\ EntryOf(t)' = handle[s]
    BY <1>7 DEF LockEnter, Validate, EntryOf
  <2>2. ASSUME NEW u \in Thread \ {t}, pc'[u] \in WaitStep
        PROVE  u \notin woken'[EntryOf(u)']
    BY <1>1, <1>2, <2>1, <2>2 DEF WaitersOut
  <2>3. t \notin woken'[EntryOf(t)']
    BY <2>1
  <2> QED
    BY <2>2, <2>3 DEF WaitersOut
<1>8. ASSUME NEW t \in Thread, LockDown(t) \/ LockTimeout(t) \/ ProceedSet(t) \/ ProceedReset(t)
      PROVE  WaitersOut'
  <2>1. /\ woken' = woken /\ \A u \in Thread \ {t} : pc'[u] = pc[u]
        /\ pc'[t] \in WaitStep => pc[t] \in WaitStep
    BY <1>8
       DEF LockDown, LockTimeout, eventVars,
           ProceedSet, UnlockNotTaken, UnlockTaken, UnlockUp, UnlockDec, ProceedReset,
           ResetNotTaken, ResetTaken, ResetUp, ResetDec, NotTaken, Taken, Up, Dec
  <2> QED
    BY <1>3, <2>1
<1>9. ASSUME NEW t \in Thread, LockInc(t)
      PROVE  WaitersOut'
  <2>1. /\ pc'[t] = "idle" /\ \A u \in Thread \ {t} : pc'[u] = pc[u]
        /\ \A u \in Thread \ {t}, a \in Addr : u \in woken'[a] => u \in woken[a]
    BY <1>9 DEF LockInc
  <2> QED
    BY <1>1, <1>2, <1>3, <2>1
<1>10. CASE UNCHANGED vars
  BY <1>3, <1>10 DEF vars
<1> HIDE DEF SetterInv, EventInv, EventBase, TypeOK, RegistryTypeOK, WaitStep, Goto
<1>11. CASE Next
  BY <1>4, <1>5, <1>6, <1>7, <1>8, <1>9, <1>11 DEF Next, Proceed
<1> QED
  BY <1>10, <1>11

LEMMA SetterNextInv ==
  ASSUME SetsAlone
  PROVE  SetterInv /\ [Next]_vars => SetterInv'
<1> SUFFICES ASSUME SetterInv, [Next]_vars PROVE SetterInv'
  OBVIOUS
<1>1. EventInv' /\ TypeOK'
  BY EventNextInv DEF SetterInv, EventInv, EventBase
<1> QED
  BY <1>1, OnlySetsStep, CoveredStep, WaitersStep DEF SetterInv

(* ipcevent.c: an event that one thread sets and nobody resets has two     *)
(* states and never lets two waits through for one set; and it is never    *)
(* lost: what is not in the semaphore is counted.                          *)
THEOREM EventTwoState ==
  ASSUME SetsAlone
  PROVE  Spec => []EventSound
<1>1. Init => SetterInv
  BY SetterInitInv
<1> QED
  BY <1>1, OneSetterTwoStates, SetterNextInv, PTL DEF Spec
-----------------------------------------------------------------------------
(* What counts as the semaphore of an event: a wait that has taken it and  *)
(* is not counted yet has not been let through.                            *)
Level(a) == count[a] + Cardinality(At(a, "inc"))

LEMMA LevelType ==
  ASSUME EventBase
  PROVE  \A a \in Addr : Level(a) \in Nat
<1>1. \A a \in Addr : count[a] \in Nat
  BY DEF EventBase, TypeOK
<1> QED
  BY <1>1, AtFinite DEF Level

LEMMA PairsEqual ==
  ASSUME NEW S \in SUBSET (Thread \X Addr), NEW T \in SUBSET (Thread \X Addr),
         \A u \in Thread, a \in Addr : <<u, a>> \in S <=> <<u, a>> \in T
  PROVE  S = T
OBVIOUS

LEMMA EntriesKept ==
  ASSUME EventBase, [Next]_vars
  PROVE  \A u \in Thread : pc[u] # "idle" /\ via'[u] # NoSlot => EntryOf(u)' = EntryOf(u)
BY EntryStable, StepsOfRegistry DEF vars, registryVars

(* The sets that are called, after a step of one thread. *)
LEMMA SetsAfterStep ==
  ASSUME EventBase, [Next]_vars, NEW t \in Thread, NEW to, pc' = [pc EXCEPT ![t] = to]
  PROVE  /\ \A u \in Thread \ {t}, a \in Addr : <<u, a>> \in SetsCalled' <=> <<u, a>> \in SetsCalled
         /\ \A a \in Addr : <<t, a>> \in SetsCalled' <=> to \in {"check", "up"} /\ EntryOf(t)' = a
<1>1. CallsHaveHandle'
  BY HandleStep
<1>2. ASSUME NEW u \in Thread \ {t}, pc[u] \in {"check", "up"}
      PROVE  EntryOf(u)' = EntryOf(u)
  BY <1>1, <1>2, EntriesKept DEF CallsHaveHandle, EventBase, TypeOK
<1> QED
  BY <1>2 DEF SetsCalled, EventBase, TypeOK

LEMMA SetsUnchanged ==
  ASSUME EventBase, [Next]_vars, pc' = pc
  PROVE  SetsCalled' = SetsCalled
<1>1. CallsHaveHandle'
  BY HandleStep
<1>2. \A u \in Thread : pc[u] \in {"check", "up"} => EntryOf(u)' = EntryOf(u)
  BY <1>1, EntriesKept DEF CallsHaveHandle
<1> QED
  BY <1>2 DEF SetsCalled

(* The level of an entry, after a step of a call that works on it. *)
LEMMA LevelAfterCallStep ==
  ASSUME EventBase, NEW t \in Thread, LockDown(t) \/ LockTimeout(t) \/ Proceed(t)
  PROVE  /\ EntryOf(t) \in Addr /\ EntryOf(t) \in listed /\ listed' = listed
         /\ \A a \in Addr : Level(a)' = Level(a) +
              (IF a # EntryOf(t) THEN 0
               ELSE IF pc[t] = "inc" THEN -1 ELSE IF pc[t] \in {"up", "reset_up"} THEN 1 ELSE 0)
<1>1. PICK from \in InCall, to \in InCall \cup {"idle"}, dc \in {-1, 0, 1}, dl \in {-1, 0, 1} :
        Moved(t, from, to, EntryOf(t), dc, dl)
  BY CallMoves
<1>2. EntryOf(t) \in Addr /\ EntryOf(t) \in listed /\ listed' = listed /\ pc[t] = from
  BY <1>1, CallMoves DEF Moved, CallStep
<1>3. PICK e \in Addr : e = EntryOf(t)
  BY <1>2
<1>4. CallStep(t, from, to, e) /\ Effect(e, dc, dl) /\ Move(from, to, dc, dl)
  BY <1>1, <1>3 DEF Moved
<1>5. /\ More(from, to, "inc") \in Int
      /\ dc + More(from, to, "inc")
           = IF from = "inc" THEN -1 ELSE IF from \in {"up", "reset_up"} THEN 1 ELSE 0
  BY <1>4 DEF Move, More
<1>6. ASSUME NEW a \in Addr
      PROVE  Level(a)' = Level(a) +
              (IF a # e THEN 0
               ELSE IF pc[t] = "inc" THEN -1 ELSE IF pc[t] \in {"up", "reset_up"} THEN 1 ELSE 0)
  <2>1. /\ Cardinality(At(a, "inc")) \in Nat /\ count[a] \in Nat
        /\ Cardinality(At(a, "inc")')
             = Cardinality(At(a, "inc")) + (IF a = e THEN More(from, to, "inc") ELSE 0)
    BY <1>4, AtFinite, AtAfterCallStep DEF InCall, WaitStep, EventBase, TypeOK
  <2>2. count'[a] = count[a] + (IF a = e THEN dc ELSE 0)
    BY <1>4, <2>1 DEF Effect
  <2> QED
    BY <1>2, <1>5, <2>1, <2>2 DEF Level
<1> QED
  BY <1>2, <1>3, <1>6

LEMMA LevelAfterEnter ==
  ASSUME EventBase, NEW t \in Thread, NEW s \in Slot,
         LockEnter(t, s) \/ UnlockEnter(t, s) \/ ResetEnter(t, s)
  PROVE  /\ handle[s] \in Addr /\ handle[s] \in listed /\ listed' = listed
         /\ EntryOf(t)' = handle[s] /\ pc[t] = "idle"
         /\ \A a \in Addr : Level(a)' = Level(a)
<1>1. PICK to \in {"down", "down_timeout", "check", "reset_check"} :
        Goto(t, "idle", to) /\ Validate(t, s) /\ UNCHANGED eventVars
  BY DEF LockEnter, UnlockEnter, ResetEnter
<1>2. handle[s] \in Addr /\ handle[s] \in listed /\ Moved(t, "idle", to, handle[s], 0, 0)
  BY <1>1, EnterMoves
<1>3. /\ listed' = listed /\ EntryOf(t)' = handle[s] /\ pc[t] = "idle" /\ count' = count
  BY <1>1, <1>2 DEF Moved, CallStep, eventVars
<1>4. \A a \in Addr : Cardinality(At(a, "inc")') = Cardinality(At(a, "inc"))
  <2>1. More("idle", to, "inc") = 0
    BY DEF More
  <2>2. "inc" \in InCall
    BY DEF InCall, WaitStep
  <2>3. \A a \in Addr : Cardinality(At(a, "inc")')
           = Cardinality(At(a, "inc")) + (IF a = handle[s] THEN More("idle", to, "inc") ELSE 0)
    BY <1>2, <2>2, AtAfterCallStep DEF Moved
  <2> QED
    BY <2>1, <2>3, AtFinite
<1> QED
  BY <1>2, <1>3, <1>4 DEF Level

-----------------------------------------------------------------------------
(* One lemma for each kind of step: what it is of the abstract event. *)
LEMMA CreateRefines ==
  ASSUME SetterInv, [Next]_vars, NEW t \in Thread, NEW s \in Slot, NEW n \in Name,
         IPC_createEvent(t, s, n)
  PROVE  [Abstract!Next]_Abstract!eventVars
<1>1. EventBase
  BY DEF SetterInv, EventInv
<1>2. pc' = pc /\ \A a : At(a, "inc")' = At(a, "inc")
  BY <1>1, CreateStep DEF InCall, WaitStep
<1>3. SetsCalled' = SetsCalled
  BY <1>1, <1>2, SetsUnchanged
<1>4. CASE UNCHANGED <<eventVars, woken>> /\ listed' = listed
  <2>1. SignalledEvents' = SignalledEvents /\ WaitsLetThrough' = WaitsLetThrough
    BY <1>2, <1>4 DEF SignalledEvents, WaitsLetThrough, eventVars
  <2> QED
    BY <1>3, <1>4, <2>1 DEF Abstract!eventVars
<1>5. ASSUME NEW a \in Addr, OpenNew(s, n, a),
             count' = [count EXCEPT ![a] = 1], woken' = [woken EXCEPT ![a] = {}]
      PROVE  Abstract!Create(a)
  <2>1. a \notin listed /\ listed' = listed \cup {a}
    BY <1>5 DEF OpenNew
  <2>2. At(a, "inc") = {}
    BY <1>1, <2>1, CallEntry DEF At
  <2>3. count'[a] = 1 /\ Cardinality(At(a, "inc")') = 0
    BY <1>1, <1>2, <1>5, <2>2, FS_EmptySet DEF EventBase, TypeOK
  <2>4. (count'[a] + Cardinality(At(a, "inc")') > 0) = TRUE
    BY <2>3
  <2>5. SignalledEvents' = [SignalledEvents EXCEPT ![a] = TRUE]
    <3>1. \A b \in Addr \ {a} : count'[b] = count[b]
      BY <1>1, <1>5 DEF EventBase, TypeOK
    <3>2. \A b \in Addr \ {a} : SignalledEvents'[b] = SignalledEvents[b]
      BY <1>2, <3>1 DEF SignalledEvents
    <3>3. SignalledEvents'[a] = TRUE
      BY <2>4 DEF SignalledEvents
    <3> QED
      BY <3>2, <3>3 DEF SignalledEvents
  <2>6. WaitsLetThrough' = WaitsLetThrough \ (Thread \X {a})
    BY <1>1, <1>5 DEF WaitsLetThrough, EventBase, TypeOK
  <2> QED
    BY <1>3, <2>1, <2>5, <2>6 DEF Abstract!Create
<1> QED
  BY <1>4, <1>5 DEF IPC_createEvent, OpenExisting, OpenFails, Abstract!Next

LEMMA CloseRefines ==
  ASSUME SetterInv, EventInv', [Next]_vars, NEW t \in Thread, NEW s \in Slot, ipc_event_close(t, s)
  PROVE  [Abstract!Next]_Abstract!eventVars
<1>1. EventBase /\ EventBase'
  BY DEF SetterInv, EventInv
<1>2. pc' = pc /\ \A a : At(a, "inc")' = At(a, "inc")
  BY <1>1, CloseStep DEF InCall, WaitStep
<1>3. SetsCalled' = SetsCalled
  BY <1>1, <1>2, SetsUnchanged
<1>4. SignalledEvents' = SignalledEvents /\ WaitsLetThrough' = WaitsLetThrough
  BY <1>2 DEF SignalledEvents, WaitsLetThrough, eventVars, ipc_event_close
<1>5. CASE listed' = listed
  BY <1>3, <1>4, <1>5 DEF Abstract!eventVars
<1>6. ASSUME NEW a \in listed, listed' = listed \ {a}
      PROVE  Abstract!Destroy(a)
  <2>1. \A u \in Thread : <<u, a>> \notin SetsCalled'
    <3> SUFFICES ASSUME NEW u \in Thread, <<u, a>> \in SetsCalled' PROVE FALSE
      OBVIOUS
    <3>1. pc'[u] # "idle" /\ EntryOf(u)' = a
      BY DEF SetsCalled
    <3>2. via'[u] # NoSlot
      BY <1>1, <3>1 DEF EventBase, CallsHaveHandle
    <3>3. EntryOf(u)' \in listed'
      BY <1>1, <3>2 DEF EventBase, RegistryInv, NoUseAfterFree
    <3> QED
      BY <1>6, <3>1, <3>3
  <2> QED
    BY <1>3, <1>4, <1>6, <2>1 DEF Abstract!Destroy
<1>7. listed' = listed \/ \E a \in listed : listed' = listed \ {a}
  BY DEF ipc_event_close, Close
<1>8. listed \subseteq Addr
  BY <1>1 DEF EventBase, TypeOK, RegistryTypeOK
<1> QED
  BY <1>5, <1>6, <1>7, <1>8 DEF Abstract!Next

(* The steps that the abstract event does not see. *)
LEMMA Unseen ==
  ASSUME listed' = listed, SetsCalled' = SetsCalled, woken' = woken,
         \A a \in Addr : Level(a)' = Level(a)
  PROVE  UNCHANGED Abstract!eventVars
<1>1. SignalledEvents' = SignalledEvents
  BY DEF SignalledEvents, Level
<1>2. WaitsLetThrough' = WaitsLetThrough
  BY DEF WaitsLetThrough
<1> QED
  BY <1>1, <1>2 DEF Abstract!eventVars

LEMMA EnterRefines ==
  ASSUME SetterInv, SetsAlone, [Next]_vars, NEW t \in Thread, NEW s \in Slot,
         LockEnter(t, s) \/ UnlockEnter(t, s) \/ ResetEnter(t, s)
  PROVE  [Abstract!Next]_Abstract!eventVars
<1>1. EventBase
  BY DEF SetterInv, EventInv
<1>a. PICK a \in Addr : a = handle[s]
  BY <1>1, LevelAfterEnter
<1>2. /\ a \in listed /\ listed' = listed
      /\ EntryOf(t)' = a /\ pc[t] = "idle"
      /\ \A b \in Addr : Level(b)' = Level(b)
  BY <1>1, <1>a, LevelAfterEnter
<1>3. SignalledEvents' = SignalledEvents
  BY <1>2 DEF SignalledEvents, Level
<1>4. \A b \in Addr : <<t, b>> \notin SetsCalled
  BY <1>2 DEF SetsCalled
<1>5. SetsCalled \subseteq Thread \X Addr /\ SetsCalled' \subseteq Thread \X Addr
  BY DEF SetsCalled
<1>6. CASE UnlockEnter(t, s)
  <2>1. pc' = [pc EXCEPT ![t] = "check"] /\ woken' = woken
    BY <1>6 DEF UnlockEnter, Goto
  <2>2. /\ \A u \in Thread \ {t}, b \in Addr : <<u, b>> \in SetsCalled' <=> <<u, b>> \in SetsCalled
        /\ \A b \in Addr : <<t, b>> \in SetsCalled' <=> b = a
    BY <1>1, <1>2, <2>1, SetsAfterStep
  <2>3. SetsCalled' = SetsCalled \cup {<<t, a>>}
    BY <1>2, <1>4, <1>5, <2>2, PairsEqual
  <2>4. WaitsLetThrough' = WaitsLetThrough
    BY <2>1 DEF WaitsLetThrough
  <2> QED
    BY <1>2, <1>3, <1>4, <2>3, <2>4 DEF Abstract!Next, Abstract!CallSet
<1>7. CASE LockEnter(t, s)
  <2>1. PICK wait \in {"down", "down_timeout"} : pc' = [pc EXCEPT ![t] = wait]
    BY <1>7 DEF LockEnter, Goto
  <2>2. /\ \A u \in Thread \ {t}, b \in Addr : <<u, b>> \in SetsCalled' <=> <<u, b>> \in SetsCalled
        /\ \A b \in Addr : <<t, b>> \notin SetsCalled'
    BY <1>1, <2>1, SetsAfterStep
  <2>3. SetsCalled' = SetsCalled
    BY <1>4, <1>5, <2>2, PairsEqual
  <2>4. /\ woken'[a] = woken[a] \ {t} /\ \A b \in Addr \ {a} : woken'[b] = woken[b]
    BY <1>1, <1>a, <1>7 DEF LockEnter, EventBase, TypeOK
  <2>5. \A u \in Thread, b \in Addr :
           <<u, b>> \in WaitsLetThrough' <=> <<u, b>> \in WaitsLetThrough \ {<<t, a>>}
    BY <2>4 DEF WaitsLetThrough
  <2>6. WaitsLetThrough \subseteq Thread \X Addr /\ WaitsLetThrough' \subseteq Thread \X Addr
    BY DEF WaitsLetThrough
  <2>7. WaitsLetThrough' = WaitsLetThrough \ {<<t, a>>}
    BY <2>5, <2>6, PairsEqual
  <2> QED
    BY <1>2, <1>3, <2>3, <2>7 DEF Abstract!Next, Abstract!CallWait
<1>8. CASE ResetEnter(t, s)
  BY <1>8 DEF ResetEnter, SetsAlone
<1> QED
  BY <1>6, <1>7, <1>8

LEMMA WaitRefines ==
  ASSUME SetterInv, [Next]_vars, NEW t \in Thread, LockDown(t) \/ LockTimeout(t) \/ LockInc(t)
  PROVE  [Abstract!Next]_Abstract!eventVars
<1>1. EventBase
  BY DEF SetterInv, EventInv
<1>e. PICK e \in Addr : e = EntryOf(t)
  BY <1>1, LevelAfterCallStep DEF Proceed
<1>2. /\ e \in listed /\ listed' = listed
      /\ \A a \in Addr : Level(a)' = Level(a) +
           (IF a # e THEN 0
            ELSE IF pc[t] = "inc" THEN -1 ELSE IF pc[t] \in {"up", "reset_up"} THEN 1 ELSE 0)
  BY <1>1, <1>e, LevelAfterCallStep DEF Proceed
<1>3. \A a \in Addr : Level(a) \in Nat
  BY <1>1, LevelType
<1>4. PICK to \in {"idle", "inc"} : pc' = [pc EXCEPT ![t] = to] /\ pc[t] \in WaitStep
  BY DEF LockDown, LockTimeout, LockInc, Goto, WaitStep
<1>5. SetsCalled' = SetsCalled
  <2>1. /\ \A u \in Thread \ {t}, b \in Addr : <<u, b>> \in SetsCalled' <=> <<u, b>> \in SetsCalled
        /\ \A b \in Addr : <<t, b>> \notin SetsCalled'
    BY <1>1, <1>4, SetsAfterStep
  <2>2. \A b \in Addr : <<t, b>> \notin SetsCalled
    BY <1>4 DEF SetsCalled, WaitStep
  <2>3. SetsCalled \subseteq Thread \X Addr /\ SetsCalled' \subseteq Thread \X Addr
    BY DEF SetsCalled
  <2> QED
    BY <2>1, <2>2, <2>3, PairsEqual
<1>6. CASE LockDown(t) \/ LockTimeout(t)
  <2>1. woken' = woken /\ pc[t] \in {"down", "down_timeout"}
    BY <1>6 DEF LockDown, LockTimeout, Goto
  <2>2. \A a \in Addr : Level(a)' = Level(a)
    BY <1>2, <1>3, <2>1
  <2> QED
    BY <1>2, <1>5, <2>1, <2>2, Unseen
<1>7. CASE LockInc(t)
  <2>1. pc[t] = "inc" /\ woken' = [woken EXCEPT ![e] = @ \cup {t}]
    BY <1>e, <1>7 DEF LockInc, Goto
  <2>2. t \in At(e, "inc")
    BY <1>e, <2>1 DEF At
  <2>3. Level(e) >= 1
    <3>1. Cardinality(At(e, "inc")) # 0
      BY <2>2, AtFinite, FS_EmptySet
    <3>2. Cardinality(At(e, "inc")) \in Nat /\ count[e] \in Nat
      BY <1>1, <1>2, AtFinite DEF EventBase, TypeOK
    <3> QED
      BY <3>1, <3>2 DEF Level
  <2>4. Level(e) <= 1
    BY <1>2, OneSetterTwoStates DEF EventSound, TwoState, Level
  <2>5. Level(e) > 0 /\ ~(Level(e)' > 0)
    BY <1>2, <1>3, <2>1, <2>3, <2>4
  <2>6. /\ SignalledEvents[e]
        /\ SignalledEvents' = [SignalledEvents EXCEPT ![e] = FALSE]
    <3>1. SignalledEvents = [a \in Addr |-> Level(a) > 0]
      BY DEF SignalledEvents, Level
    <3>2. SignalledEvents' = [a \in Addr |-> Level(a)' > 0]
      BY DEF SignalledEvents, Level
    <3>3. \A a \in Addr \ {e} : Level(a)' = Level(a)
      BY <1>2, <1>3
    <3>4. (Level(e)' > 0) = FALSE
      BY <2>5
    <3>5. SignalledEvents'[e] = FALSE
      BY <3>2, <3>4, Zenon
    <3>6. (Level(e) > 0) = TRUE
      BY <2>5
    <3>7. SignalledEvents[e]
      BY <3>1, <3>6, Zenon
    <3>8. \A a \in Addr \ {e} : SignalledEvents'[a] = SignalledEvents[a]
      BY <3>1, <3>2, <3>3
    <3>9. SignalledEvents' = [SignalledEvents EXCEPT ![e] = FALSE]
      BY <3>1, <3>2, <3>5, <3>8, Zenon
    <3> QED
      BY <3>7, <3>9
  <2>7. <<t, e>> \notin WaitsLetThrough
    BY <1>4, <1>e DEF WaitsLetThrough, SetterInv, WaitersOut
  <2>8. woken'[e] = woken[e] \cup {t} /\ \A b \in Addr \ {e} : woken'[b] = woken[b]
    BY <1>1, <1>2, <2>1 DEF EventBase, TypeOK
  <2>9. \A u \in Thread, b \in Addr :
           <<u, b>> \in WaitsLetThrough' <=> <<u, b>> \in WaitsLetThrough \cup {<<t, e>>}
    BY <1>2, <2>8 DEF WaitsLetThrough
  <2>10. WaitsLetThrough \cup {<<t, e>>} \subseteq Thread \X Addr /\ WaitsLetThrough' \subseteq Thread \X Addr
    BY <1>2 DEF WaitsLetThrough
  <2>11. WaitsLetThrough' = WaitsLetThrough \cup {<<t, e>>}
    BY <2>9, <2>10, PairsEqual
  <2> QED
    BY <1>2, <1>5, <2>6, <2>7, <2>11 DEF Abstract!Next, Abstract!Wake
<1> QED
  BY <1>6, <1>7

(* A set acts when it finds the event signalled or signals it. *)
LEMMA SetRefines ==
  ASSUME SetterInv, [Next]_vars, NEW t \in Thread, ProceedSet(t)
  PROVE  [Abstract!Next]_Abstract!eventVars
<1>1. EventBase
  BY DEF SetterInv, EventInv
<1>e. PICK e \in Addr : e = EntryOf(t)
  BY <1>1, LevelAfterCallStep DEF Proceed
<1>2. /\ e \in listed /\ listed' = listed
      /\ \A a \in Addr : Level(a)' = Level(a) +
           (IF a # e THEN 0
            ELSE IF pc[t] = "inc" THEN -1 ELSE IF pc[t] \in {"up", "reset_up"} THEN 1 ELSE 0)
  BY <1>1, <1>e, LevelAfterCallStep DEF Proceed
<1>3. \A a \in Addr : Level(a) \in Nat
  BY <1>1, LevelType
<1>4. woken' = woken
  BY DEF ProceedSet, UnlockNotTaken, UnlockTaken, UnlockUp, UnlockDec, NotTaken, Taken, Up, Dec
<1>5. WaitsLetThrough' = WaitsLetThrough
  BY <1>4 DEF WaitsLetThrough
<1>6. SetsCalled \subseteq Thread \X Addr /\ SetsCalled' \subseteq Thread \X Addr
  BY DEF SetsCalled
<1>7. CASE UnlockTaken(t) \/ UnlockDec(t)
  <2>1. PICK to \in {"up", "idle"} :
          /\ pc' = [pc EXCEPT ![t] = to]
          /\ \/ to = "up" /\ pc[t] = "check" /\ UNCHANGED registryVars
             \/ to = "idle" /\ pc[t] = "dec"
    BY <1>7 DEF UnlockTaken, UnlockDec, Taken, Dec, Goto
  <2>2. /\ \A u \in Thread \ {t}, b \in Addr : <<u, b>> \in SetsCalled' <=> <<u, b>> \in SetsCalled
        /\ \A b \in Addr : <<t, b>> \in SetsCalled' <=> to \in {"check", "up"} /\ EntryOf(t)' = b
    BY <1>1, <2>1, SetsAfterStep
  <2>3. \A b \in Addr : <<t, b>> \in SetsCalled' <=> <<t, b>> \in SetsCalled
    <3>1. CASE to = "up"
      <4>1. EntryOf(t)' = EntryOf(t)
        BY <2>1, <3>1 DEF registryVars, EntryOf
      <4> QED
        BY <2>1, <2>2, <3>1, <4>1 DEF SetsCalled
    <3>2. CASE to = "idle"
      BY <2>1, <2>2, <3>2 DEF SetsCalled
    <3> QED
      BY <3>1, <3>2
  <2>4. SetsCalled' = SetsCalled
    BY <1>6, <2>2, <2>3, PairsEqual
  <2>5. \A a \in Addr : Level(a)' = Level(a)
    BY <1>2, <1>3, <2>1
  <2> QED
    BY <1>2, <1>4, <2>4, <2>5, Unseen
<1>8. CASE UnlockNotTaken(t) \/ UnlockUp(t)
  <2>1. PICK to \in {"idle", "dec"} : pc' = [pc EXCEPT ![t] = to]
    BY <1>8 DEF UnlockNotTaken, UnlockUp, NotTaken, Up, Goto
  <2>2. pc[t] \in {"check", "up"}
    BY <1>8 DEF UnlockNotTaken, UnlockUp, NotTaken, Up, Goto
  <2>3. /\ \A u \in Thread \ {t}, b \in Addr : <<u, b>> \in SetsCalled' <=> <<u, b>> \in SetsCalled
        /\ \A b \in Addr : <<t, b>> \notin SetsCalled'
    BY <1>1, <2>1, SetsAfterStep
  <2>4. \A b \in Addr : <<t, b>> \in SetsCalled <=> b = e
    BY <1>e, <1>2, <2>2 DEF SetsCalled
  <2>5. Level(e)' > 0
    <3>1. CASE UnlockUp(t)
      <4>1. pc[t] = "up"
        BY <3>1 DEF UnlockUp, Up, Goto
      <4> QED
        BY <1>2, <1>3, <4>1
    <3>2. CASE UnlockNotTaken(t)
      <4>1. pc[t] = "check" /\ lock_count[e] = 0
        BY <1>e, <3>2 DEF UnlockNotTaken, NotTaken, Goto
      <4>2. Level(e) = 0 => lock_count[e] - Cardinality(At(e, "dec")) > 0
        BY <1>2, OneSetterTwoStates DEF EventSound, TakenIsCounted, Level
      <4>3. Cardinality(At(e, "dec")) \in Nat
        BY AtFinite
      <4> QED
        BY <1>2, <1>3, <4>1, <4>2, <4>3
    <3> QED
      BY <1>8, <3>1, <3>2
  <2>6. SetsCalled' = SetsCalled \ {<<t, e>>}
    BY <1>2, <1>6, <2>3, <2>4, PairsEqual
  <2>7. SignalledEvents' = [SignalledEvents EXCEPT ![e] = TRUE]
    <3>1. SignalledEvents = [a \in Addr |-> Level(a) > 0]
      BY DEF SignalledEvents, Level
    <3>2. SignalledEvents' = [a \in Addr |-> Level(a)' > 0]
      BY DEF SignalledEvents, Level
    <3>3. \A a \in Addr \ {e} : Level(a)' = Level(a)
      BY <1>2, <1>3
    <3> QED
      BY <1>2, <2>5, <3>1, <3>2, <3>3
  <2> QED
    BY <1>2, <1>5, <2>4, <2>6, <2>7 DEF Abstract!Next, Abstract!Set
<1> QED
  BY <1>7, <1>8 DEF ProceedSet

LEMMA StepRefines ==
  ASSUME SetsAlone, SetterInv, EventInv', [Next]_vars
  PROVE  [Abstract!Next]_Abstract!eventVars
<1>1. CASE UNCHANGED vars
  <2>1. SetsCalled' = SetsCalled /\ SignalledEvents' = SignalledEvents
          /\ WaitsLetThrough' = WaitsLetThrough /\ listed' = listed
    BY <1>1 DEF SetsCalled, SignalledEvents, WaitsLetThrough, At, EntryOf, vars, registryVars, eventVars
  <2> QED
    BY <2>1 DEF Abstract!eventVars
<1>2. ASSUME NEW t \in Thread, ProceedReset(t)
      PROVE  FALSE
  BY <1>2 DEF ProceedReset, ResetNotTaken, ResetTaken, ResetUp, ResetDec, NotTaken, Taken, Up, Dec, Goto,
              SetterInv, OnlySets, ResetStep
<1>3. CASE Next
  BY <1>2, <1>3, CreateRefines, CloseRefines, EnterRefines, WaitRefines, SetRefines DEF Next, Proceed
<1> QED
  BY <1>1, <1>3

(* ipcevent.c: with one setter and no reset, the driver's event implements *)
(* AutoResetEvent, whose set takes effect before it returns and lets one   *)
(* wait through.                                                           *)
THEOREM EventRefines ==
  ASSUME SetsAlone
  PROVE  Spec => ImplementsAutoResetEvent
<1>1. Init => Abstract!Init
  <2> SUFFICES ASSUME Init PROVE Abstract!Init
    OBVIOUS
  <2>1. SetsCalled = {} /\ WaitsLetThrough = {}
    BY DEF Init, SetsCalled, WaitsLetThrough
  <2>2. SignalledEvents \in [Addr -> BOOLEAN]
    BY DEF SignalledEvents
  <2>3. listed = {}
    BY DEF Init, RegistryInit
  <2> QED
    BY <2>1, <2>2, <2>3 DEF Abstract!Init
<1>2. Init => SetterInv
  BY SetterInitInv
<1>3. SetterInv /\ [Next]_vars => SetterInv' /\ [Abstract!Next]_Abstract!eventVars
  BY SetterNextInv, StepRefines, EventNextInv DEF SetterInv
<1> QED
  BY <1>1, <1>2, <1>3, PTL DEF Spec, ImplementsAutoResetEvent, Abstract!Spec
=============================================================================
