------------------------ MODULE SystemVServicesProofs ------------------------
(***************************************************************************)
(* Proofs about the System V backend, shared memory on POSIX and System V, *)
(* INI files, interlocked operations and the life of the driver module:    *)
(* for any number of processes, names, handles, writers and users.         *)
(***************************************************************************)
EXTENDS SystemVIpc, SystemVShm, PosixShm, IpcProfile, Interlocked, IpcModule,
  FiniteSetTheorems, SequenceTheorems, WellFoundedInduction, TLAPS

-----------------------------------------------------------------------------
(***************************************************************************)
(* Semaphores, mutexes and events of the System V backend.                 *)
(***************************************************************************)

(* What a call may rely on at each step: a create has no set yet until it  *)
(* has opened one, a mutex is asked for as free, and what waits or gives   *)
(* back has a set; only events come to the steps after a take.             *)
CallsInStep ==
  \A t \in Thread :
    /\ vstep[t] # "idle" => vname[t] \in Name
    /\ vstep[t] \in {"ftok", "get", "get2"} => SetOf(t) = NoId
    /\ vstep[t] \in {"get", "get2"} => ipc_key[H(t)] \in Inode
    /\ vstep[t] \in {"setval", "down", "wait", "repost"} => SetOf(t) \in SemId
    /\ vstep[t] \in {"down", "repost"} => vname[t] \in EventName
    /\ (vstep[t] \in CreateStep /\ vname[t] \in MutexName) => vvalue[t] = 1

(* A handle has the key of its set, and its name is among those that got   *)
(* the set.                                                                *)
HandlesHaveKeys ==
  \A h \in Thread \X Name :
    /\ sem_id[h] # NoId => ipc_key[h] \in Inode
    /\ sem_id[h] \in sets => sem_key[sem_id[h]] = ipc_key[h] /\ h[2] \in users[sem_id[h]]

(* The key of a handle is that of its name's key file unless the file that *)
(* it was made of was unlinked; two names never have the same key file.    *)
KeysOfFiles ==
  /\ \A h \in (Thread \X Name) \ unlinked : ipc_key[h] # NoInode => keyfile[h[2]] = ipc_key[h]
  /\ \A n, m \in Name : (keyfile[n] # NoInode /\ keyfile[m] = keyfile[n]) => m = n

OneSetPerKey == \A i, j \in sets : sem_key[i] = sem_key[j] => i = j

(* SETVAL comes once to a set, which has no value before.                  *)
SetvalOnce ==
  \A t \in Thread : vstep[t] = "setval" =>
    /\ SetOf(t) \in sets => start[SetOf(t)] = 0
    /\ \A u \in Thread \ {t} : vstep[u] = "setval" => SetOf(u) # SetOf(t)

(* What the kernel would undo is what a process holds. *)
UndoExact ==
  \A i \in sets \cap Paired, t \in Thread :
    /\ t \in holding[i] => semadj[<<i, t>>] = 1
    /\ t \notin holding[i] => semadj[<<i, t>>] = 0

WaitersHoldNothing ==
  \A t \in Thread : (vstep[t] = "wait" /\ vname[t] \notin EventName) => t \notin holding[SetOf(t)]

MutexesAreSingle ==
  \A i \in sets : users[i] \subseteq MutexName => start[i] <= 1 /\ i \notin raised

(* Whoever holds a mutex that a delete has found free took it since.       *)
HoldersAreLate ==
  \A u \in Thread, i \in sets :
    (vstep[u] \in {"getncnt", "rmid"} /\ SetOf(u) = i /\ users[i] \subseteq MutexName)
      => \A t \in holding[i] : <<i, t>> \in late

SystemVInv ==
  /\ SystemVTypeOK
  /\ CallsInStep
  /\ HandlesHaveKeys
  /\ KeysOfFiles
  /\ OneSetPerKey
  /\ SetvalOnce
  /\ TokensSurviveDeaths
  /\ UndoExact
  /\ WaitersHoldNothing
  /\ MutexesAreSingle
  /\ HoldersAreLate
  /\ NotRemovedUnderHolder

(* The steps of the calls one by one, with their choices made.             *)
Unmoved == UNCHANGED <<keyfile, setVars, svHandles, svHistory>>

MovesOn(t, from, to) ==
  /\ <<from, to>> \in {<<"get", "get2">>, <<"setval", "abort">>, <<"down", "abort">>, <<"stat", "abort">>,
                       <<"getval", "unlink">>, <<"getncnt", "unlink">>, <<"getncnt", "rmid">>}
  /\ SvGoto(t, from, to)
  /\ Unmoved
  /\ UNCHANGED svCall

Returns(t) == vstep[t] # "idle" /\ SvGoto(t, vstep[t], "idle") /\ SvReturn(t) /\ Unmoved

KeyGot(t, k) ==
  /\ k \in Inode \cup {NoInode}
  /\ keyfile[vname[t]] = k
  /\ SvGoto(t, "ftok", IF k = NoInode THEN "abort" ELSE "get")
  /\ ipc_key' = [ipc_key EXCEPT ![H(t)] = k]
  /\ UNCHANGED <<keyfile, setVars, sem_id, manual, svCall, svHistory>>

Made(t, i) ==
  /\ i \in SemId \ sets
  /\ \A j \in sets : sem_key[j] # ipc_key[H(t)]
  /\ \A h \in Thread \X Name : sem_id[h] # i
  /\ SvGoto(t, "get", IF i = ZeroId THEN "get2" ELSE "setval")
  /\ sets' = sets \cup {i}
  /\ sem_key' = [sem_key EXCEPT ![i] = ipc_key[H(t)]]
  /\ semval' = [semval EXCEPT ![i] = 0]
  /\ semadj' = [p \in SemId \X Thread |-> IF p[1] = i THEN 0 ELSE semadj[p]]
  /\ start' = [start EXCEPT ![i] = 0]
  /\ raised' = raised \ {i}
  /\ holding' = [holding EXCEPT ![i] = {}]
  /\ users' = [users EXCEPT ![i] = {vname[t]}]
  /\ late' = {p \in late : p[1] # i}
  /\ sem_id' = [sem_id EXCEPT ![H(t)] = IF i = ZeroId THEN NoId ELSE i]
  /\ UNCHANGED <<keyfile, ipc_key, manual, svCall, unlinked>>

Found(t, i) ==
  /\ i \in sets \/ i = BadId
  /\ i \in sets => sem_key[i] = ipc_key[H(t)]
  /\ sem_id' = [sem_id EXCEPT ![H(t)] = i]
  /\ users' = IF i \in sets THEN [users EXCEPT ![i] = @ \cup {vname[t]}] ELSE users
  /\ \/ SvGoto(t, "get2", "idle") /\ SvReturn(t)
     \/ SvGoto(t, "get2", "stat") /\ UNCHANGED svCall
  /\ UNCHANGED <<keyfile, setVars, ipc_key, manual, start, raised, holding, unlinked, late>>

(* SETVAL of a set that is there. *)
Valued(t, i, first) ==
  /\ i = SetOf(t) /\ i \in sets
  /\ first \in Nat
  /\ vname[t] \notin EventName => first = vvalue[t]
  /\ semval' = [semval EXCEPT ![i] = first]
  /\ semadj' = [p \in SemId \X Thread |-> IF p[1] = i THEN 0 ELSE semadj[p]]
  /\ start' = [start EXCEPT ![i] = first]
  /\ \/ SvGoto(t, "setval", "idle") /\ SvReturn(t)
     \/ SvGoto(t, "setval", "down") /\ UNCHANGED svCall /\ vname[t] \in EventName
  /\ UNCHANGED <<keyfile, sets, sem_key, svHandles, raised, holding, unlinked, users, late>>

(* A semop on the set of an event, in a call. *)
EventSemop(t, i, d) ==
  /\ i = SetOf(t) /\ i \in sets
  /\ vstep[t] # "idle"
  /\ vname[t] \in EventName
  /\ d \in Int /\ semval[i] + d \in Nat
  /\ Semop(i, t, d)
  /\ \/ SvGoto(t, vstep[t], "idle") /\ SvReturn(t)
     \/ SvGoto(t, "wait", "repost") /\ UNCHANGED svCall
  /\ UNCHANGED <<keyfile, sets, sem_key, svHandles, svHistory>>

(* A capture of a mutex or a semaphore. *)
Captured(t, i) ==
  /\ i = SetOf(t) /\ i \in sets
  /\ vname[t] \notin EventName
  /\ semval[i] > 0
  /\ Semop(i, t, -1)
  /\ holding' = [holding EXCEPT ![i] = @ \cup {t}]
  /\ late' = IF Deleting(i) = {} THEN late \ {<<i, t>>} ELSE late \cup {<<i, t>>}
  /\ SvGoto(t, "wait", "idle")
  /\ SvReturn(t)
  /\ UNCHANGED <<keyfile, sets, sem_key, svHandles, start, raised, unlinked, users>>

Deletes(t) ==
  /\ vstep[t] \in {"abort", "unlink"}
  /\ SvGoto(t, vstep[t], "idle")
  /\ delete_ipc_object(t)
  /\ SvReturn(t)
  /\ UNCHANGED <<setVars, start, raised, holding, users, late>>

(* A delete has found the set free. *)
FoundFree(t, i) ==
  /\ i = SetOf(t) /\ i \in sets
  /\ semval[i] = 1
  /\ SvGoto(t, "getval", "getncnt")
  /\ UNCHANGED <<keyfile, setVars, svHandles, svCall, svHistory>>

(* A release or a raise by a process that is in no call. *)
Raised(t, i) ==
  /\ vstep[t] = "idle"
  /\ i \in sets
  /\ Semop(i, t, 1)
  /\ UNCHANGED <<keyfile, sets, sem_key, svHandles, vstep, svCall, start, unlinked, users>>

RaisedNothing(t, i) ==
  /\ vstep[t] = "idle"
  /\ i \in SemId \ sets
  /\ UNCHANGED <<keyfile, setVars, svHandles, vstep, svCall, start, unlinked, users>>

Removed(t, i) ==
  /\ i = SetOf(t) /\ i \in sets
  /\ SvGoto(t, "rmid", "unlink")
  /\ sets' = sets \ {i}
  /\ semval' = [semval EXCEPT ![i] = 0]
  /\ semadj' = [p \in SemId \X Thread |-> IF p[1] = i THEN 0 ELSE semadj[p]]
  /\ UNCHANGED <<keyfile, sem_key, svHandles, svCall, svHistory>>

RemovedBefore(t, i) ==
  /\ i = SetOf(t) /\ i \notin sets
  /\ SvGoto(t, "rmid", "idle")
  /\ sets' = sets
  /\ semval' = [semval EXCEPT ![i] = 0]
  /\ semadj' = [p \in SemId \X Thread |-> IF p[1] = i THEN 0 ELSE semadj[p]]
  /\ SvReturn(t)
  /\ UNCHANGED <<keyfile, sem_key, svHandles, svHistory>>

(* What a step of t leaves alone in the calls of the others. *)
OthersKeep(t) ==
  \A u \in Thread \ {t} :
    /\ vstep'[u] = vstep[u]
    /\ vstep[u] # "idle" =>
         /\ vname'[u] = vname[u] /\ vvalue'[u] = vvalue[u]
         /\ H(u)' = H(u) /\ SetOf(u)' = SetOf(u)
         /\ ipc_key'[H(u)] = ipc_key[H(u)]

LEMMA HoldersCounted ==
  ASSUME SystemVTypeOK, NEW i \in SemId
  PROVE  IsFiniteSet(holding[i]) /\ Cardinality(holding[i]) \in Nat
    /\ (Cardinality(holding[i]) = 0 <=> holding[i] = {})
<1>1. holding[i] \subseteq Thread
  BY DEF SystemVTypeOK
<1>2. QED
  BY <1>1, LibraryAssumption, FS_Subset, FS_CardinalityType, FS_EmptySet

LEMMA ReturnTyped ==
  ASSUME SystemVTypeOK, NEW t \in Thread, SvReturn(t) \/ UNCHANGED svCall
  PROVE  /\ vname' \in [Thread -> Name \cup {NoName}]
         /\ vlimit' \in [Thread -> Limit \cup {0}]
         /\ vvalue' \in [Thread -> Nat]
<1>1. CASE SvReturn(t)
  BY <1>1 DEF SystemVTypeOK, SvReturn
<1>2. CASE UNCHANGED svCall
  BY <1>2 DEF SystemVTypeOK, svCall
<1>3. QED
  BY <1>1, <1>2

LEMMA NoHandlesTyped ==
  ASSUME SystemVTypeOK, NEW hs, NoHandles(hs)
  PROVE  /\ sem_id' \in [Thread \X Name -> SemId \cup {NoId, BadId}]
         /\ ipc_key' \in [Thread \X Name -> Inode \cup {NoInode}]
         /\ manual' \in [Thread \X Name -> BOOLEAN]
<1>1. sem_id' \in [Thread \X Name -> SemId \cup {NoId, BadId}]
  BY DEF SystemVTypeOK, NoHandles
<1>2. ipc_key' \in [Thread \X Name -> Inode \cup {NoInode}]
  BY DEF SystemVTypeOK, NoHandles
<1>3. manual' \in [Thread \X Name -> BOOLEAN]
  <2>1. manual' = [h \in Thread \X Name |-> manual[h] /\ h \notin hs]
    BY DEF NoHandles
  <2>2. QED
    BY <2>1, Zenon
<1>4. QED
  BY <1>1, <1>2, <1>3

LEMMA ClearedTyped ==
  ASSUME SystemVTypeOK, NEW i, semadj' = [p \in SemId \X Thread |-> IF p[1] = i THEN 0 ELSE semadj[p]]
  PROVE  semadj' \in [SemId \X Thread -> Int]
  BY DEF SystemVTypeOK

LEMMA SemopTyped ==
  ASSUME SystemVTypeOK, NEW i \in SemId, NEW t \in Thread, NEW d \in Int, semval[i] + d \in Nat, Semop(i, t, d)
  PROVE  semval' \in [SemId -> Nat] /\ semadj' \in [SemId \X Thread -> Int]
<1>1. semval' \in [SemId -> Nat]
  BY DEF SystemVTypeOK, Semop
<1>2. semadj' \in [SemId \X Thread -> Int]
  <2>1. <<i, t>> \in SemId \X Thread
    OBVIOUS
  <2>2. semadj[<<i, t>>] - d \in Int
    BY <2>1 DEF SystemVTypeOK
  <2>3. semadj' = [semadj EXCEPT ![<<i, t>>] = semadj[<<i, t>>] - d]
    BY DEF Semop
  <2>4. QED
    BY <2>2, <2>3 DEF SystemVTypeOK
<1>3. QED
  BY <1>1, <1>2

LEMMA SetUsed ==
  ASSUME CallsInStep, NEW t \in Thread, vstep[t] # "idle"
  PROVE  /\ vname[t] \in Name
         /\ H(t) \in Thread \X Name
         /\ vstep[t] \in {"setval", "down", "wait", "repost"} => SetOf(t) \in SemId
  BY DEF CallsInStep, H

LEMMA SemopPointwise ==
  ASSUME SystemVTypeOK, NEW i \in SemId, NEW t \in Thread, NEW d \in Int, Semop(i, t, d)
  PROVE  /\ semval'[i] = semval[i] + d
         /\ \A j \in SemId \ {i} : semval'[j] = semval[j]
         /\ semadj'[<<i, t>>] = semadj[<<i, t>>] - d
         /\ \A j \in SemId, u \in Thread : (j # i \/ u # t) => semadj'[<<j, u>>] = semadj[<<j, u>>]
<1>1. <<i, t>> \in SemId \X Thread
  OBVIOUS
<1>2. semadj' = [semadj EXCEPT ![<<i, t>>] = semadj[<<i, t>>] - d]
  BY DEF Semop
<1>3. semadj'[<<i, t>>] = semadj[<<i, t>>] - d
  BY <1>1, <1>2 DEF SystemVTypeOK
<1>4. ASSUME NEW j \in SemId, NEW u \in Thread, j # i \/ u # t PROVE semadj'[<<j, u>>] = semadj[<<j, u>>]
  BY <1>2, <1>4 DEF SystemVTypeOK
<1>5. QED
  BY <1>3, <1>4 DEF Semop, SystemVTypeOK

(* Only the handles of an event get at a set through an event's name, and  *)
(* then the set is not one of pairs only.                                  *)
LEMMA EventsNotPaired ==
  ASSUME HandlesHaveKeys, NEW t \in Thread, NEW n \in EventName, sem_id[<<t, n>>] \in sets
  PROVE  sem_id[<<t, n>>] \notin Paired
<1>1. <<t, n>> \in Thread \X Name /\ <<t, n>>[2] = n
  BY DEF Name
<1>2. QED
  BY <1>1 DEF HandlesHaveKeys, Paired

LEMMA MoveOnKeepsInv ==
  ASSUME SystemVInv, NEW t \in Thread, NEW from, NEW to, MovesOn(t, from, to)
  PROVE  SystemVInv'
<1>0. /\ SystemVTypeOK /\ CallsInStep /\ HandlesHaveKeys /\ KeysOfFiles /\ OneSetPerKey /\ SetvalOnce
         /\ TokensSurviveDeaths
      /\ UndoExact /\ WaitersHoldNothing /\ MutexesAreSingle /\ HoldersAreLate /\ NotRemovedUnderHolder
  BY DEF SystemVInv
<1>u. vstep[t] # "idle" /\ vname[t] \in Name /\ H(t) \in Thread \X Name
  BY <1>0 DEF MovesOn, Unmoved, SvGoto, CallsInStep, H
<1>o. OthersKeep(t)
  BY DEF OthersKeep, MovesOn, Unmoved, SvGoto, H, SetOf, svHandles, svCall
<1>m. vstep[t] = from /\ vstep'[t] = to /\ vname'[t] = vname[t] /\ vvalue'[t] = vvalue[t] /\ H(t)' = H(t)
      /\ SetOf(t)' = SetOf(t) /\ ipc_key'[H(t)] = ipc_key[H(t)]
      /\ <<from, to>> \in {<<"get", "get2">>, <<"setval", "abort">>, <<"down", "abort">>, <<"stat", "abort">>,
                         <<"getval", "unlink">>, <<"getncnt", "unlink">>, <<"getncnt", "rmid">>}
  BY <1>0 DEF SystemVTypeOK, MovesOn, Unmoved, SvGoto, H, SetOf, svHandles, svCall
<1>1. SystemVTypeOK'
  <2>1. vstep' \in [Thread -> {"idle", "wait", "repost"} \cup CreateStep \cup DeleteStep]
    BY <1>0 DEF SystemVTypeOK, MovesOn, SvGoto, CreateStep, DeleteStep
  <2>2. QED
    BY <1>0, <2>1 DEF SystemVTypeOK, MovesOn, Unmoved, setVars, svHandles, svCall, svHistory
<1>2. CallsInStep'
  BY <1>0, <1>u, <1>o, <1>m DEF OthersKeep, CallsInStep, CreateStep
<1>3. HandlesHaveKeys'
  BY <1>0 DEF HandlesHaveKeys, MovesOn, Unmoved, setVars, svHandles, svHistory
<1>4. KeysOfFiles'
  BY <1>0 DEF KeysOfFiles, MovesOn, Unmoved, svHandles, svHistory
<1>5. OneSetPerKey'
  BY <1>0 DEF OneSetPerKey, MovesOn, Unmoved, setVars
<1>6. SetvalOnce'
  <2>1. UNCHANGED <<sets, start>>
    BY DEF MovesOn, Unmoved, SvGoto, setVars, svHandles, svCall, svHistory
  <2>2. QED
    BY <1>0, <1>u, <1>o, <1>m, <2>1 DEF OthersKeep, SetvalOnce
<1>7. TokensSurviveDeaths'
  BY <1>0 DEF TokensSurviveDeaths, Paired, MovesOn, Unmoved, setVars, svHistory
<1>8. UndoExact'
  BY <1>0 DEF UndoExact, Paired, MovesOn, Unmoved, SvGoto, setVars, svHandles, svCall, svHistory
<1>9. WaitersHoldNothing'
  <2>1. UNCHANGED <<holding>>
    BY DEF MovesOn, Unmoved, SvGoto, setVars, svHandles, svCall, svHistory
  <2>2. QED
    BY <1>0, <1>u, <1>o, <1>m, <2>1 DEF OthersKeep, WaitersHoldNothing
<1>10. MutexesAreSingle'
  BY <1>0 DEF MutexesAreSingle, MovesOn, Unmoved, setVars, svHistory
<1>11. HoldersAreLate'
  <2>1. UNCHANGED <<sets, users, holding, late>>
    BY DEF MovesOn, Unmoved, SvGoto, setVars, svHandles, svCall, svHistory
  <2>2. QED
    BY <1>0, <1>u, <1>o, <1>m, <2>1 DEF OthersKeep, HoldersAreLate
<1>12. NotRemovedUnderHolder'
  BY <1>0 DEF NotRemovedUnderHolder, MovesOn, Unmoved, setVars, svHistory
<1>13. QED
  BY <1>1, <1>2, <1>3, <1>4, <1>5, <1>6, <1>7, <1>8, <1>9, <1>10, <1>11, <1>12 DEF SystemVInv

LEMMA ReturnKeepsInv ==
  ASSUME SystemVInv, NEW t \in Thread, Returns(t)
  PROVE  SystemVInv'
<1>0. /\ SystemVTypeOK /\ CallsInStep /\ HandlesHaveKeys /\ KeysOfFiles /\ OneSetPerKey /\ SetvalOnce
         /\ TokensSurviveDeaths
      /\ UndoExact /\ WaitersHoldNothing /\ MutexesAreSingle /\ HoldersAreLate /\ NotRemovedUnderHolder
  BY DEF SystemVInv
<1>u. vstep[t] # "idle" /\ vname[t] \in Name /\ H(t) \in Thread \X Name
  BY <1>0 DEF Returns, Unmoved, SvGoto, SvReturn, CallsInStep, H
<1>o. OthersKeep(t)
  BY DEF OthersKeep, Returns, Unmoved, SvGoto, SvReturn, H, SetOf, svHandles
<1>m. vstep'[t] = "idle" /\ vname'[t] = NoName
  BY <1>0 DEF SystemVTypeOK, Returns, SvGoto, SvReturn
<1>1. SystemVTypeOK'
  <2>1. /\ vname' \in [Thread -> Name \cup {NoName}]
         /\ vlimit' \in [Thread -> Limit \cup {0}]
         /\ vvalue' \in [Thread -> Nat]
    BY <1>0, ReturnTyped DEF Returns, Unmoved, SvGoto
  <2>2. vstep' \in [Thread -> {"idle", "wait", "repost"} \cup CreateStep \cup DeleteStep]
    BY <1>0 DEF SystemVTypeOK, Returns, SvGoto
  <2>3. QED
    BY <1>0, <2>1, <2>2 DEF SystemVTypeOK, Returns, Unmoved, setVars, svHandles, svHistory
<1>2. CallsInStep'
  BY <1>0, <1>u, <1>o, <1>m DEF OthersKeep, CallsInStep, CreateStep
<1>3. HandlesHaveKeys'
  BY <1>0 DEF HandlesHaveKeys, Returns, Unmoved, setVars, svHandles, svHistory
<1>4. KeysOfFiles'
  BY <1>0 DEF KeysOfFiles, Returns, Unmoved, svHandles, svHistory
<1>5. OneSetPerKey'
  BY <1>0 DEF OneSetPerKey, Returns, Unmoved, setVars
<1>6. SetvalOnce'
  <2>1. UNCHANGED <<sets, start>>
    BY DEF Returns, Unmoved, setVars, svHistory
  <2>2. QED
    BY <1>0, <1>u, <1>o, <1>m, <2>1 DEF OthersKeep, SetvalOnce
<1>7. TokensSurviveDeaths'
  BY <1>0 DEF TokensSurviveDeaths, Paired, Returns, Unmoved, setVars, svHistory
<1>8. UndoExact'
  BY <1>0 DEF UndoExact, Paired, Returns, Unmoved, SvGoto, SvReturn, setVars, svHandles, svCall, svHistory
<1>9. WaitersHoldNothing'
  <2>1. UNCHANGED <<holding>>
    BY DEF Returns, Unmoved, svHistory
  <2>2. QED
    BY <1>0, <1>u, <1>o, <1>m, <2>1 DEF OthersKeep, WaitersHoldNothing
<1>10. MutexesAreSingle'
  BY <1>0 DEF MutexesAreSingle, Returns, Unmoved, setVars, svHistory
<1>11. HoldersAreLate'
  <2>1. UNCHANGED <<sets, users, holding, late>>
    BY DEF Returns, Unmoved, setVars, svHistory
  <2>2. QED
    BY <1>0, <1>u, <1>o, <1>m, <2>1 DEF OthersKeep, HoldersAreLate
<1>12. NotRemovedUnderHolder'
  BY <1>0 DEF NotRemovedUnderHolder, Returns, Unmoved, setVars, svHistory
<1>13. QED
  BY <1>1, <1>2, <1>3, <1>4, <1>5, <1>6, <1>7, <1>8, <1>9, <1>10, <1>11, <1>12 DEF SystemVInv

LEMMA KeyGotKeepsInv ==
  ASSUME SystemVInv, NEW t \in Thread, NEW k, KeyGot(t, k)
  PROVE  SystemVInv'
<1>0. /\ SystemVTypeOK /\ CallsInStep /\ HandlesHaveKeys /\ KeysOfFiles /\ OneSetPerKey /\ SetvalOnce
         /\ TokensSurviveDeaths
      /\ UndoExact /\ WaitersHoldNothing /\ MutexesAreSingle /\ HoldersAreLate /\ NotRemovedUnderHolder
  BY DEF SystemVInv
<1>u. vstep[t] # "idle" /\ vname[t] \in Name /\ H(t) \in Thread \X Name
  BY <1>0 DEF KeyGot, SvGoto, CallsInStep, H
<1>h. \A h \in Thread \X Name : h # H(t) => ipc_key'[h] = ipc_key[h]
  BY <1>0 DEF KeyGot, SystemVTypeOK
<1>f. UNCHANGED <<keyfile, sem_id, setVars, svHistory>> /\ keyfile[vname[t]] = k
  BY DEF KeyGot
<1>o. OthersKeep(t)
  BY DEF OthersKeep, KeyGot, SvGoto, H, SetOf, svCall
<1>m. /\ vstep[t] = "ftok" /\ vname'[t] = vname[t] /\ vvalue'[t] = vvalue[t] /\ H(t)' = H(t)
      /\ SetOf(t)' = SetOf(t) /\ SetOf(t) = NoId /\ ipc_key'[H(t)] = k /\ k \in Inode \cup {NoInode}
      /\ vstep'[t] \in {"get", "abort"} /\ (vstep'[t] = "get" => k \in Inode)
  <2>1. vname'[t] = vname[t] /\ vvalue'[t] = vvalue[t] /\ H(t)' = H(t) /\ SetOf(t)' = SetOf(t)
    BY DEF KeyGot, H, SetOf, svCall
  <2>2. vstep[t] = "ftok" /\ SetOf(t) = NoId /\ k \in Inode \cup {NoInode}
    BY <1>0 DEF KeyGot, SvGoto, CallsInStep
  <2>3. ipc_key'[H(t)] = k
    BY <1>0, <1>u DEF SystemVTypeOK, KeyGot
  <2>4. vstep'[t] = IF k = NoInode THEN "abort" ELSE "get"
    BY <1>0 DEF SystemVTypeOK, KeyGot, SvGoto
  <2>5. vstep'[t] \in {"get", "abort"} /\ (vstep'[t] = "get" => k \in Inode)
    BY <2>2, <2>4
  <2>6. QED
    BY <2>1, <2>2, <2>3, <2>5
<1>1. SystemVTypeOK'
  <2>1. vstep' \in [Thread -> {"idle", "wait", "repost"} \cup CreateStep \cup DeleteStep]
    BY <1>0 DEF SystemVTypeOK, KeyGot, SvGoto, CreateStep
  <2>2. ipc_key' \in [Thread \X Name -> Inode \cup {NoInode}]
    BY <1>0, <1>u DEF SystemVTypeOK, KeyGot
  <2>3. QED
    BY <1>0, <2>1, <2>2 DEF SystemVTypeOK, KeyGot, setVars, svCall, svHistory
<1>2. CallsInStep'
  BY <1>0, <1>o, <1>m DEF OthersKeep, CallsInStep, CreateStep
<1>3. HandlesHaveKeys'
  BY <1>0, <1>h, <1>f, <1>m, SystemVAssumption
  DEF HandlesHaveKeys, setVars, svHistory, SystemVTypeOK, CallsInStep, SetOf
<1>4. KeysOfFiles'
  BY <1>0, <1>h, <1>f, <1>m DEF KeysOfFiles, svHistory, H
<1>5. OneSetPerKey'
  BY <1>0 DEF OneSetPerKey, KeyGot, setVars
<1>6. SetvalOnce'
  <2>1. UNCHANGED <<sets, start>>
    BY DEF KeyGot, SvGoto, setVars, svHandles, svCall, svHistory
  <2>2. QED
    BY <1>0, <1>o, <1>m, <2>1 DEF OthersKeep, SetvalOnce
<1>7. TokensSurviveDeaths'
  BY <1>0 DEF TokensSurviveDeaths, Paired, KeyGot, setVars, svHistory
<1>8. UndoExact'
  BY <1>0 DEF UndoExact, Paired, KeyGot, SvGoto, setVars, svHandles, svCall, svHistory
<1>9. WaitersHoldNothing'
  <2>1. UNCHANGED <<holding>>
    BY DEF KeyGot, SvGoto, setVars, svHandles, svCall, svHistory
  <2>2. QED
    BY <1>0, <1>o, <1>m, <2>1 DEF OthersKeep, WaitersHoldNothing
<1>10. MutexesAreSingle'
  BY <1>0 DEF MutexesAreSingle, KeyGot, setVars, svHistory
<1>11. HoldersAreLate'
  <2>1. UNCHANGED <<sets, users, holding, late>>
    BY DEF KeyGot, SvGoto, setVars, svHandles, svCall, svHistory
  <2>2. QED
    BY <1>0, <1>o, <1>m, <2>1 DEF OthersKeep, HoldersAreLate
<1>12. NotRemovedUnderHolder'
  BY <1>0 DEF NotRemovedUnderHolder, KeyGot, setVars, svHistory
<1>13. QED
  BY <1>1, <1>2, <1>3, <1>4, <1>5, <1>6, <1>7, <1>8, <1>9, <1>10, <1>11, <1>12 DEF SystemVInv

LEMMA MadeKeepsInv ==
  ASSUME SystemVInv, NEW t \in Thread, NEW i, Made(t, i)
  PROVE  SystemVInv'
<1>0. /\ SystemVTypeOK /\ CallsInStep /\ HandlesHaveKeys /\ KeysOfFiles /\ OneSetPerKey /\ SetvalOnce
         /\ TokensSurviveDeaths
      /\ UndoExact /\ WaitersHoldNothing /\ MutexesAreSingle /\ HoldersAreLate /\ NotRemovedUnderHolder
  BY DEF SystemVInv
<1>u. vstep[t] # "idle" /\ vname[t] \in Name /\ H(t) \in Thread \X Name
  BY <1>0 DEF Made, SvGoto, CallsInStep, H
<1>i. i \in SemId /\ i \notin sets /\ i # NoId /\ ipc_key[H(t)] \in Inode /\ SetOf(t) = NoId
  BY <1>0, SystemVAssumption DEF Made, SvGoto, CallsInStep
<1>h. /\ \A h \in Thread \X Name : sem_id[h] # i /\ (h # H(t) => sem_id'[h] = sem_id[h])
      /\ sem_id'[H(t)] = IF i = ZeroId THEN NoId ELSE i
  BY <1>0, <1>u DEF Made, SystemVTypeOK
<1>j. /\ sets' = sets \cup {i}
      /\ \A j \in SemId \ {i} :
           /\ sem_key'[j] = sem_key[j] /\ semval'[j] = semval[j] /\ start'[j] = start[j]
           /\ holding'[j] = holding[j] /\ users'[j] = users[j] /\ (j \in raised' <=> j \in raised)
  BY <1>0, <1>i DEF Made, SystemVTypeOK
<1>n. /\ sem_key'[i] = ipc_key[H(t)] /\ semval'[i] = 0 /\ start'[i] = 0
      /\ holding'[i] = {} /\ users'[i] = {vname[t]} /\ i \notin raised'
      /\ \A j \in sets : sem_key[j] # ipc_key[H(t)]
  BY <1>0, <1>i DEF Made, SystemVTypeOK
<1>p. \A j \in SemId, u \in Thread : semadj'[<<j, u>>] = IF j = i THEN 0 ELSE semadj[<<j, u>>]
  BY DEF Made
<1>l. \A j \in SemId \ {i}, u \in Thread : <<j, u>> \in late' <=> <<j, u>> \in late
  BY DEF Made
<1>f. UNCHANGED <<keyfile, ipc_key, svCall, unlinked>>
  BY DEF Made
<1>o. OthersKeep(t)
  BY DEF OthersKeep, Made, SvGoto, H, SetOf, svCall
<1>m. vstep[t] = "get" /\ vstep'[t] \in {"setval", "get2"} /\ (vstep'[t] = "get2" => SetOf(t)' = NoId)
      /\ (vstep'[t] = "setval" => SetOf(t)' = i) /\ vname'[t] = vname[t] /\ vvalue'[t] = vvalue[t]
         /\ H(t)' = H(t)
      /\ ipc_key'[H(t)] = ipc_key[H(t)]
  BY <1>0, <1>u DEF SystemVTypeOK, Made, SvGoto, H, SetOf, svCall
<1>1. SystemVTypeOK'
  <2>1. vstep' \in [Thread -> {"idle", "wait", "repost"} \cup CreateStep \cup DeleteStep]
    BY <1>0 DEF SystemVTypeOK, Made, SvGoto, CreateStep
  <2>2. sets' \in SUBSET SemId
    BY <1>0, <1>i, <1>j DEF SystemVTypeOK
  <2>3. sem_key' \in [SemId -> Inode \cup {NoInode}]
    BY <1>0, <1>u DEF SystemVTypeOK, Made
  <2>4. semval' \in [SemId -> Nat]
    BY <1>0 DEF SystemVTypeOK, Made
  <2>5. semadj' \in [SemId \X Thread -> Int]
    BY <1>0, ClearedTyped DEF Made, SvGoto
  <2>6. start' \in [SemId -> Nat]
    BY <1>0 DEF SystemVTypeOK, Made
  <2>7. raised' \in SUBSET SemId
    BY <1>0 DEF SystemVTypeOK, Made
  <2>8. holding' \in [SemId -> SUBSET Thread]
    BY <1>0 DEF SystemVTypeOK, Made
  <2>9. users' \in [SemId -> SUBSET Name]
    BY <1>0, <1>u DEF SystemVTypeOK, Made
  <2>10. late' \in SUBSET (SemId \X Thread)
    BY <1>0 DEF SystemVTypeOK, Made
  <2>11. sem_id' \in [Thread \X Name -> SemId \cup {NoId, BadId}]
    BY <1>0, <1>u, <1>i DEF SystemVTypeOK, Made
  <2>12. QED
    BY <1>0, <2>1, <2>9, <2>11 DEF SystemVTypeOK, Made, svCall
<1>2. CallsInStep'
  BY <1>0, <1>i, <1>o, <1>m DEF OthersKeep, CallsInStep, CreateStep
<1>3. HandlesHaveKeys'
  <2>1. SUFFICES ASSUME NEW h \in Thread \X Name
                 PROVE  /\ sem_id'[h] # NoId => ipc_key'[h] \in Inode
                        /\ sem_id'[h] \in sets' => sem_key'[sem_id'[h]] = ipc_key'[h]
                           /\ h[2] \in users'[sem_id'[h]]
    BY DEF HandlesHaveKeys
  <2>2. CASE h # H(t)
    <3>1. sem_id'[h] = sem_id[h] /\ ipc_key'[h] = ipc_key[h] /\ sem_id[h] # i
      BY <1>h, <1>f, <2>2
    <3>2. ASSUME sem_id'[h] \in sets'
          PROVE  sem_key'[sem_id'[h]] = ipc_key'[h] /\ h[2] \in users'[sem_id'[h]]
      <4>1. sem_id[h] \in sets /\ sem_id[h] \in SemId \ {i}
        BY <1>0, <1>j, <3>1, <3>2 DEF SystemVTypeOK
      <4>2. QED
        BY <1>0, <1>j, <3>1, <4>1 DEF HandlesHaveKeys
    <3>3. sem_id'[h] # NoId => ipc_key'[h] \in Inode
      BY <1>0, <3>1 DEF HandlesHaveKeys
    <3>4. QED
      BY <3>2, <3>3
  <2>3. CASE h = H(t)
    <3>1. h[2] = vname[t]
      BY <2>3 DEF H
    <3>2. NoId \notin sets'
      BY <1>0, <1>i, <1>j, SystemVAssumption DEF SystemVTypeOK
    <3>3. sem_id'[h] \in sets' => sem_id'[h] = i
      BY <1>h, <2>3, <3>2
    <3>4. sem_key'[i] = ipc_key'[h] /\ h[2] \in users'[i] /\ ipc_key'[h] \in Inode
      BY <1>i, <1>n, <1>f, <2>3, <3>1
    <3>5. QED
      BY <3>3, <3>4
  <2>4. QED
    BY <2>2, <2>3
<1>4. KeysOfFiles'
  BY <1>0 DEF KeysOfFiles, Made
<1>5. OneSetPerKey'
  BY <1>0, <1>i, <1>j, <1>n DEF OneSetPerKey, SystemVTypeOK
<1>6. SetvalOnce'
  <2>1. SUFFICES ASSUME NEW u \in Thread, vstep'[u] = "setval"
                 PROVE  /\ SetOf(u)' \in sets' => start'[SetOf(u)'] = 0
                        /\ \A w \in Thread \ {u} : vstep'[w] = "setval" => SetOf(w)' # SetOf(u)'
    BY DEF SetvalOnce
  <2>2. \A w \in Thread \ {t} : vstep'[w] = "setval" => SetOf(w)' = SetOf(w) /\ SetOf(w) \in SemId
        /\ SetOf(w) # i
    <3>1. SUFFICES ASSUME NEW w \in Thread \ {t}, vstep'[w] = "setval"
                   PROVE  SetOf(w)' = SetOf(w) /\ SetOf(w) \in SemId /\ SetOf(w) # i
      OBVIOUS
    <3>2. vstep[w] = "setval"
      BY <1>o, <3>1 DEF OthersKeep
    <3>3. H(w) \in Thread \X Name /\ SetOf(w) \in SemId
      BY <1>0, <3>2 DEF CallsInStep, H
    <3>4. QED
      BY <1>o, <1>h, <3>2, <3>3 DEF OthersKeep, SetOf
  <2>3. CASE u = t
    BY <1>i, <1>m, <1>n, <2>1, <2>2, <2>3
  <2>4. CASE u # t
    <3>1. vstep[u] = "setval" /\ SetOf(u)' = SetOf(u) /\ SetOf(u) \in SemId /\ SetOf(u) # i
      BY <1>o, <2>1, <2>2, <2>4 DEF OthersKeep
    <3>2. SetOf(u) \in sets' => start'[SetOf(u)] = 0
      BY <1>0, <1>j, <3>1 DEF SetvalOnce
    <3>3. \A w \in Thread \ {u} : vstep'[w] = "setval" => SetOf(w)' # SetOf(u)
      BY <1>0, <1>o, <1>m, <2>2, <3>1 DEF OthersKeep, SetvalOnce
    <3>4. QED
      BY <3>1, <3>2, <3>3
  <2>5. QED
    BY <2>3, <2>4
<1>7. TokensSurviveDeaths'
  <2>1. SUFFICES ASSUME NEW j \in sets', j \in Paired'
                 PROVE  semval'[j] + Cardinality(holding'[j]) = start'[j]
    BY DEF TokensSurviveDeaths
  <2>2. CASE j = i
    <3>1. Cardinality(holding'[j]) = 0
      BY <1>n, <2>2, FS_EmptySet, Zenon
    <3>2. QED
      BY <1>n, <2>2, <3>1
  <2>3. CASE j # i
    <3>1. j \in sets \cap Paired /\ j \in SemId \ {i}
      BY <1>0, <1>j, <2>1, <2>3 DEF Paired, SystemVTypeOK
    <3>2. QED
      BY <1>0, <1>j, <3>1 DEF TokensSurviveDeaths
  <2>4. QED
    BY <2>2, <2>3
<1>8. UndoExact'
  <2>1. SUFFICES ASSUME NEW j \in sets', j \in Paired', NEW u \in Thread
                 PROVE  /\ u \in holding'[j] => semadj'[<<j, u>>] = 1
                        /\ u \notin holding'[j] => semadj'[<<j, u>>] = 0
    BY DEF UndoExact
  <2>2. CASE j = i
    BY <1>i, <1>n, <1>p, <2>2
  <2>3. CASE j # i
    <3>1. j \in sets \cap Paired /\ j \in SemId \ {i}
      BY <1>0, <1>j, <2>1, <2>3 DEF Paired, SystemVTypeOK
    <3>2. QED
      BY <1>0, <1>j, <1>p, <2>3, <3>1 DEF UndoExact
  <2>4. QED
    BY <2>2, <2>3
<1>9. WaitersHoldNothing'
  <2>1. SUFFICES ASSUME NEW u \in Thread, vstep'[u] = "wait", vname'[u] \notin EventName
                 PROVE  u \notin holding'[SetOf(u)']
    BY DEF WaitersHoldNothing
  <2>2. u # t /\ vstep[u] = "wait" /\ vname'[u] = vname[u] /\ SetOf(u)' = SetOf(u)
    BY <1>o, <1>m, <2>1 DEF OthersKeep
  <2>3. SetOf(u) \in SemId /\ u \notin holding[SetOf(u)]
    BY <1>0, <2>1, <2>2 DEF CallsInStep, WaitersHoldNothing
  <2>4. QED
    BY <1>j, <1>n, <2>2, <2>3
<1>10. MutexesAreSingle'
  BY <1>0, <1>i, <1>j, <1>n DEF MutexesAreSingle, SystemVTypeOK
<1>11. HoldersAreLate'
  <2>1. SUFFICES ASSUME NEW u \in Thread, NEW j \in sets', vstep'[u] \in {"getncnt", "rmid"}, SetOf(u)' = j,
                        users'[j] \subseteq MutexName, NEW w \in holding'[j]
                 PROVE  <<j, w>> \in late'
    BY DEF HoldersAreLate
  <2>2. u # t /\ vstep[u] = vstep'[u] /\ SetOf(u)' = SetOf(u)
    BY <1>o, <1>m, <2>1 DEF OthersKeep
  <2>3. j \in sets /\ j \in SemId \ {i}
    BY <1>0, <1>i, <1>j, <1>n, <2>1 DEF SystemVTypeOK
  <2>4. w \in holding[j] /\ w \in Thread /\ users[j] \subseteq MutexName
    BY <1>0, <1>j, <2>1, <2>3 DEF SystemVTypeOK
  <2>5. <<j, w>> \in late
    BY <1>0, <2>1, <2>2, <2>3, <2>4 DEF HoldersAreLate
  <2>6. QED
    BY <1>l, <2>3, <2>4, <2>5
<1>12. NotRemovedUnderHolder'
  BY <1>0, <1>i, <1>j, <1>l DEF NotRemovedUnderHolder, SystemVTypeOK
<1>13. QED
  BY <1>1, <1>2, <1>3, <1>4, <1>5, <1>6, <1>7, <1>8, <1>9, <1>10, <1>11, <1>12 DEF SystemVInv

LEMMA FoundKeepsInv ==
  ASSUME SystemVInv, NEW t \in Thread, NEW i, Found(t, i)
  PROVE  SystemVInv'
<1>0. /\ SystemVTypeOK /\ CallsInStep /\ HandlesHaveKeys /\ KeysOfFiles /\ OneSetPerKey /\ SetvalOnce
         /\ TokensSurviveDeaths
      /\ UndoExact /\ WaitersHoldNothing /\ MutexesAreSingle /\ HoldersAreLate /\ NotRemovedUnderHolder
  BY DEF SystemVInv
<1>u. vstep[t] # "idle" /\ vname[t] \in Name /\ H(t) \in Thread \X Name
  BY <1>0 DEF Found, SvGoto, SvReturn, CallsInStep, H
<1>v. \A u \in Thread \ {t} : vstep'[u] = vstep[u] /\ vname'[u] = vname[u] /\ vvalue'[u] = vvalue[u]
  <2>1. vstep \in [Thread -> {"idle", "wait", "repost"} \cup CreateStep \cup DeleteStep]
        /\ vname \in [Thread -> Name \cup {NoName}] /\ vvalue \in [Thread -> Nat]
    BY <1>0 DEF SystemVTypeOK
  <2>2. CASE SvGoto(t, "get2", "idle") /\ SvReturn(t)
    BY <2>1, <2>2 DEF SvGoto, SvReturn
  <2>3. CASE SvGoto(t, "get2", "stat") /\ UNCHANGED svCall
    BY <2>1, <2>3 DEF SvGoto, svCall
  <2>4. QED
    BY <2>2, <2>3 DEF Found
<1>i. (i \in sets \/ i = BadId) /\ (i \in sets => sem_key[i] = ipc_key[H(t)]) /\ ipc_key[H(t)] \in Inode
      /\ BadId \notin sets
  BY <1>0, SystemVAssumption DEF Found, SvGoto, CallsInStep, SystemVTypeOK
<1>h. sem_id'[H(t)] = i /\ \A h \in Thread \X Name : h # H(t) => sem_id'[h] = sem_id[h]
  BY <1>0, <1>u DEF Found, SystemVTypeOK
<1>j. /\ \A j \in SemId : users[j] \subseteq users'[j] /\ (j \notin sets => users'[j] = users[j])
      /\ i \in sets => vname[t] \in users'[i]
  BY <1>0, <1>u DEF Found, SystemVTypeOK
<1>f. UNCHANGED <<keyfile, setVars, ipc_key, start, raised, holding, unlinked, late>>
  BY DEF Found
<1>o. OthersKeep(t)
  BY <1>v DEF OthersKeep, Found, H, SetOf
<1>m. vstep[t] = "get2" /\ vstep'[t] \in {"idle", "stat"}
      /\ (vstep'[t] = "idle" => vname'[t] = NoName)
         /\ (vstep'[t] # "idle" => vname'[t] = vname[t] /\ vvalue'[t] = vvalue[t])
  BY <1>0 DEF SystemVTypeOK, Found, SvGoto, SvReturn, svCall
<1>1. SystemVTypeOK'
  <2>1. /\ vname' \in [Thread -> Name \cup {NoName}]
         /\ vlimit' \in [Thread -> Limit \cup {0}]
         /\ vvalue' \in [Thread -> Nat]
    BY <1>0, ReturnTyped DEF Found, SvGoto
  <2>2. vstep' \in [Thread -> {"idle", "wait", "repost"} \cup CreateStep \cup DeleteStep]
      <3>1. CASE SvGoto(t, "get2", "idle")
        BY <1>0, <3>1 DEF SystemVTypeOK, SvGoto, CreateStep, DeleteStep
      <3>2. CASE SvGoto(t, "get2", "stat")
        BY <1>0, <3>2 DEF SystemVTypeOK, SvGoto, CreateStep, DeleteStep
      <3>3. QED
        BY <3>1, <3>2 DEF Found
  <2>3. sem_id' \in [Thread \X Name -> SemId \cup {NoId, BadId}]
    BY <1>0, <1>u, <1>i DEF SystemVTypeOK, Found
  <2>4. users' \in [SemId -> SUBSET Name]
    BY <1>0, <1>u DEF SystemVTypeOK, Found
  <2>5. QED
    BY <1>0, <2>1, <2>2, <2>3, <2>4 DEF SystemVTypeOK, Found, setVars
<1>2. CallsInStep'
  BY <1>0, <1>o, <1>m DEF OthersKeep, CallsInStep, CreateStep
<1>3. HandlesHaveKeys'
  <2>1. SUFFICES ASSUME NEW h \in Thread \X Name
                 PROVE  /\ sem_id'[h] # NoId => ipc_key'[h] \in Inode
                        /\ sem_id'[h] \in sets' => sem_key'[sem_id'[h]] = ipc_key'[h]
                           /\ h[2] \in users'[sem_id'[h]]
    BY DEF HandlesHaveKeys
  <2>2. CASE h # H(t)
    <3>1. sem_id'[h] = sem_id[h] /\ ipc_key'[h] = ipc_key[h] /\ sets' = sets /\ sem_key' = sem_key
      BY <1>h, <1>f, <2>2 DEF setVars
    <3>2. ASSUME sem_id'[h] \in sets'
          PROVE  sem_key'[sem_id'[h]] = ipc_key'[h] /\ h[2] \in users'[sem_id'[h]]
      <4>1. sem_id[h] \in sets /\ sem_id[h] \in SemId
        BY <1>0, <3>1, <3>2 DEF SystemVTypeOK
      <4>2. QED
        BY <1>0, <1>j, <3>1, <4>1 DEF HandlesHaveKeys
    <3>3. sem_id'[h] # NoId => ipc_key'[h] \in Inode
      BY <1>0, <3>1 DEF HandlesHaveKeys
    <3>4. QED
      BY <3>2, <3>3
  <2>3. CASE h = H(t)
    <3>1. h[2] = vname[t] /\ sem_id'[h] = i
      BY <1>h, <2>3 DEF H
    <3>2. ipc_key'[h] = ipc_key[H(t)] /\ sets' = sets /\ sem_key' = sem_key
      BY <1>f, <2>3 DEF setVars
    <3>3. QED
      BY <1>i, <1>j, <3>1, <3>2
  <2>4. QED
    BY <2>2, <2>3
<1>4. KeysOfFiles'
  BY <1>0 DEF KeysOfFiles, Found
<1>5. OneSetPerKey'
  BY <1>0 DEF OneSetPerKey, Found, setVars
<1>6. SetvalOnce'
  <2>1. UNCHANGED <<sets, start>>
    BY DEF Found, SvGoto, SvReturn, setVars, svHandles, svCall, svHistory
  <2>2. QED
    BY <1>0, <1>o, <1>m, <2>1 DEF OthersKeep, SetvalOnce
<1>7. TokensSurviveDeaths'
  <2>1. SUFFICES ASSUME NEW j \in sets', j \in Paired'
                 PROVE  semval'[j] + Cardinality(holding'[j]) = start'[j]
    BY DEF TokensSurviveDeaths
  <2>2. j \in sets \cap Paired
    BY <1>0, <1>j, <1>f, <2>1 DEF Paired, setVars, SystemVTypeOK
  <2>3. QED
    BY <1>0, <1>f, <2>2 DEF TokensSurviveDeaths, setVars
<1>8. UndoExact'
  <2>1. SUFFICES ASSUME NEW j \in sets', j \in Paired', NEW u \in Thread
                 PROVE  /\ u \in holding'[j] => semadj'[<<j, u>>] = 1
                        /\ u \notin holding'[j] => semadj'[<<j, u>>] = 0
    BY DEF UndoExact
  <2>2. j \in sets \cap Paired
    BY <1>0, <1>j, <1>f, <2>1 DEF Paired, setVars, SystemVTypeOK
  <2>3. QED
    BY <1>0, <1>f, <2>2 DEF UndoExact, setVars
<1>9. WaitersHoldNothing'
  <2>1. UNCHANGED <<holding>>
    BY DEF Found, SvGoto, SvReturn, setVars, svHandles, svCall, svHistory
  <2>2. QED
    BY <1>0, <1>f, <1>o, <1>m DEF OthersKeep, WaitersHoldNothing
<1>10. MutexesAreSingle'
  BY <1>0, <1>j, <1>f DEF MutexesAreSingle, setVars, SystemVTypeOK
<1>11. HoldersAreLate'
  <2>1. SUFFICES ASSUME NEW u \in Thread, NEW j \in sets', vstep'[u] \in {"getncnt", "rmid"}, SetOf(u)' = j,
                        users'[j] \subseteq MutexName, NEW w \in holding'[j]
                 PROVE  <<j, w>> \in late'
    BY DEF HoldersAreLate
  <2>2. vstep[u] = vstep'[u] /\ SetOf(u) = j
    BY <1>o, <1>m, <2>1 DEF OthersKeep
  <2>3. j \in sets /\ w \in holding[j] /\ users[j] \subseteq MutexName
    BY <1>0, <1>j, <1>f, <2>1 DEF SystemVTypeOK, setVars
  <2>4. QED
    BY <1>0, <1>f, <2>1, <2>2, <2>3 DEF HoldersAreLate
<1>12. NotRemovedUnderHolder'
  BY <1>0, <1>j, <1>f DEF NotRemovedUnderHolder, setVars, SystemVTypeOK
<1>13. QED
  BY <1>1, <1>2, <1>3, <1>4, <1>5, <1>6, <1>7, <1>8, <1>9, <1>10, <1>11, <1>12 DEF SystemVInv

LEMMA ValuedKeepsInv ==
  ASSUME SystemVInv, NEW t \in Thread, NEW i, NEW first, Valued(t, i, first)
  PROVE  SystemVInv'
<1>0. /\ SystemVTypeOK /\ CallsInStep /\ HandlesHaveKeys /\ KeysOfFiles /\ OneSetPerKey /\ SetvalOnce
         /\ TokensSurviveDeaths
      /\ UndoExact /\ WaitersHoldNothing /\ MutexesAreSingle /\ HoldersAreLate /\ NotRemovedUnderHolder
  BY DEF SystemVInv
<1>u. vstep[t] # "idle" /\ vname[t] \in Name /\ H(t) \in Thread \X Name
  BY <1>0 DEF Valued, SvGoto, SvReturn, CallsInStep, H
<1>v. \A u \in Thread \ {t} : vstep'[u] = vstep[u] /\ vname'[u] = vname[u] /\ vvalue'[u] = vvalue[u]
  <2>1. vstep \in [Thread -> {"idle", "wait", "repost"} \cup CreateStep \cup DeleteStep]
        /\ vname \in [Thread -> Name \cup {NoName}] /\ vvalue \in [Thread -> Nat]
    BY <1>0 DEF SystemVTypeOK
  <2>2. CASE SvGoto(t, "setval", "idle") /\ SvReturn(t)
    BY <2>1, <2>2 DEF SvGoto, SvReturn
  <2>3. CASE SvGoto(t, "setval", "down") /\ UNCHANGED svCall
    BY <2>1, <2>3 DEF SvGoto, svCall
  <2>4. QED
    BY <2>2, <2>3 DEF Valued
<1>i. i \in sets /\ i \in SemId /\ SetOf(t) = i /\ vstep[t] = "setval" /\ first \in Nat
  BY <1>0 DEF Valued, SvGoto, SystemVTypeOK
<1>j. /\ semval'[i] = first /\ start'[i] = first
      /\ \A j \in SemId \ {i} : semval'[j] = semval[j] /\ start'[j] = start[j]
  BY <1>0, <1>i DEF Valued, SystemVTypeOK
<1>p. \A j \in SemId, u \in Thread : semadj'[<<j, u>>] = IF j = i THEN 0 ELSE semadj[<<j, u>>]
  BY DEF Valued
<1>f. UNCHANGED <<keyfile, sets, sem_key, svHandles, raised, holding, unlinked, users, late>>
  BY DEF Valued
<1>n. /\ vname[t] \in users[i]
      /\ vname[t] \notin EventName => first = vvalue[t]
  BY <1>0, <1>u, <1>i DEF HandlesHaveKeys, SetOf, H, Valued
<1>e. i \in Paired => holding[i] = {}
  <2>1. SUFFICES ASSUME i \in Paired PROVE holding[i] = {}
    OBVIOUS
  <2>2. start[i] = 0 /\ semval[i] \in Nat /\ Cardinality(holding[i]) \in Nat
    BY <1>0, <1>i, HoldersCounted DEF SetvalOnce, SystemVTypeOK
  <2>3. semval[i] + Cardinality(holding[i]) = start[i]
    BY <1>0, <1>i, <2>1 DEF TokensSurviveDeaths
  <2>4. QED
    BY <1>0, <1>i, <2>2, <2>3, HoldersCounted
<1>o. OthersKeep(t)
  BY <1>v DEF OthersKeep, Valued, H, SetOf, svHandles
<1>m. vstep[t] = "setval" /\ vstep'[t] \in {"idle", "down"} /\ (vstep'[t] = "idle" => vname'[t] = NoName)
      /\ (vstep'[t] = "down" => vname'[t] = vname[t] /\ vvalue'[t] = vvalue[t] /\ H(t)' = H(t)
            /\ SetOf(t)' = SetOf(t) /\ ipc_key'[H(t)] = ipc_key[H(t)] /\ vname[t] \in EventName)
  BY <1>0, <1>u, <1>v, <1>i, <1>j, <1>p, <1>f, <1>n, <1>e, ZenonT(60) DEF SystemVTypeOK, Valued, SvGoto,
     SvReturn, H, SetOf, setVars, svHandles, svCall, svHistory
<1>1. SystemVTypeOK'
  <2>1. /\ vname' \in [Thread -> Name \cup {NoName}]
         /\ vlimit' \in [Thread -> Limit \cup {0}]
         /\ vvalue' \in [Thread -> Nat]
    BY <1>0, ReturnTyped DEF Valued, SvGoto
  <2>2. vstep' \in [Thread -> {"idle", "wait", "repost"} \cup CreateStep \cup DeleteStep]
      <3>1. CASE SvGoto(t, "setval", "idle")
        BY <1>0, <3>1 DEF SystemVTypeOK, SvGoto, CreateStep, DeleteStep
      <3>2. CASE SvGoto(t, "setval", "down")
        BY <1>0, <3>2 DEF SystemVTypeOK, SvGoto, CreateStep, DeleteStep
      <3>3. QED
        BY <3>1, <3>2 DEF Valued
  <2>3. semval' \in [SemId -> Nat]
    BY <1>0 DEF SystemVTypeOK, Valued
  <2>4. semadj' \in [SemId \X Thread -> Int]
    BY <1>0, ClearedTyped DEF Valued, SvGoto, SvReturn
  <2>5. start' \in [SemId -> Nat]
    BY <1>0 DEF SystemVTypeOK, Valued
  <2>6. QED
    BY <1>0, <2>1, <2>2 DEF SystemVTypeOK, Valued, svHandles
<1>2. CallsInStep'
  BY <1>0, <1>o, <1>m DEF OthersKeep, CallsInStep, CreateStep
<1>3. HandlesHaveKeys'
  BY <1>0 DEF HandlesHaveKeys, Valued, svHandles
<1>4. KeysOfFiles'
  BY <1>0 DEF KeysOfFiles, Valued, svHandles
<1>5. OneSetPerKey'
  BY <1>0 DEF OneSetPerKey, Valued
<1>6. SetvalOnce'
  <2>1. SUFFICES ASSUME NEW u \in Thread, vstep'[u] = "setval"
                 PROVE  /\ SetOf(u)' \in sets' => start'[SetOf(u)'] = 0
                        /\ \A w \in Thread \ {u} : vstep'[w] = "setval" => SetOf(w)' # SetOf(u)'
    BY DEF SetvalOnce
  <2>2. u # t /\ vstep[u] = "setval" /\ SetOf(u)' = SetOf(u)
    BY <1>o, <1>m, <2>1 DEF OthersKeep
  <2>3. SetOf(u) # i /\ SetOf(u) \in SemId
    BY <1>0, <1>i, <2>2 DEF SetvalOnce, CallsInStep
  <2>4. SetOf(u) \in sets => start'[SetOf(u)] = 0
    BY <1>0, <1>j, <2>2, <2>3 DEF SetvalOnce
  <2>5. \A w \in Thread \ {u} : vstep'[w] = "setval" => SetOf(w)' # SetOf(u)
    BY <1>0, <1>o, <1>m, <2>2 DEF OthersKeep, SetvalOnce
  <2>6. QED
    BY <1>f, <2>2, <2>4, <2>5
<1>7. TokensSurviveDeaths'
  <2>1. SUFFICES ASSUME NEW j \in sets', j \in Paired'
                 PROVE  semval'[j] + Cardinality(holding'[j]) = start'[j]
    BY DEF TokensSurviveDeaths
  <2>2. j \in sets \cap Paired /\ j \in SemId
    BY <1>0, <1>f, <2>1 DEF Paired, SystemVTypeOK
  <2>3. CASE j = i
    <3>1. holding'[j] = {} /\ semval'[j] = first /\ start'[j] = first /\ first \in Nat
      BY <1>i, <1>j, <1>f, <1>e, <2>2, <2>3
    <3>2. QED
      BY <3>1, FS_EmptySet
  <2>4. CASE j # i
    BY <1>0, <1>j, <1>f, <2>2, <2>4 DEF TokensSurviveDeaths
  <2>5. QED
    BY <2>3, <2>4
<1>8. UndoExact'
  <2>1. SUFFICES ASSUME NEW j \in sets', j \in Paired', NEW u \in Thread
                 PROVE  /\ u \in holding'[j] => semadj'[<<j, u>>] = 1
                        /\ u \notin holding'[j] => semadj'[<<j, u>>] = 0
    BY DEF UndoExact
  <2>2. j \in sets \cap Paired /\ j \in SemId
    BY <1>0, <1>f, <2>1 DEF Paired, SystemVTypeOK
  <2>3. QED
    BY <1>0, <1>p, <1>f, <1>e, <2>2 DEF UndoExact
<1>9. WaitersHoldNothing'
  <2>1. UNCHANGED <<holding>>
    BY DEF Valued, SvGoto, SvReturn, setVars, svHandles, svCall, svHistory
  <2>2. QED
    BY <1>0, <1>f, <1>o, <1>m DEF OthersKeep, WaitersHoldNothing
<1>10. MutexesAreSingle'
  <2>1. SUFFICES ASSUME NEW j \in sets', users'[j] \subseteq MutexName PROVE start'[j] <= 1 /\ j \notin raised'
    BY DEF MutexesAreSingle
  <2>2. j \in sets /\ j \in SemId /\ users[j] \subseteq MutexName
    BY <1>0, <1>f, <2>1 DEF SystemVTypeOK
  <2>3. CASE j = i
    <3>1. vname[t] \in MutexName /\ vname[t] \notin EventName
      BY <1>n, <2>2, <2>3, LibraryAssumption
    <3>2. vvalue[t] = 1
      BY <1>0, <1>i, <3>1 DEF CallsInStep, CreateStep
    <3>3. QED
      BY <1>0, <1>n, <1>j, <1>f, <2>2, <3>1, <3>2 DEF MutexesAreSingle
  <2>4. CASE j # i
    BY <1>0, <1>j, <1>f, <2>2, <2>4 DEF MutexesAreSingle
  <2>5. QED
    BY <2>3, <2>4
<1>11. HoldersAreLate'
  <2>1. UNCHANGED <<sets, users, holding, late>>
    BY DEF Valued, SvGoto, SvReturn, setVars, svHandles, svCall, svHistory
  <2>2. QED
    BY <1>0, <1>f, <1>o, <1>m DEF OthersKeep, HoldersAreLate
<1>12. NotRemovedUnderHolder'
  BY <1>0 DEF NotRemovedUnderHolder, Valued
<1>13. QED
  BY <1>1, <1>2, <1>3, <1>4, <1>5, <1>6, <1>7, <1>8, <1>9, <1>10, <1>11, <1>12 DEF SystemVInv

LEMMA EventSemopKeepsInv ==
  ASSUME SystemVInv, NEW t \in Thread, NEW i, NEW d, EventSemop(t, i, d)
  PROVE  SystemVInv'
<1>0. /\ SystemVTypeOK /\ CallsInStep /\ HandlesHaveKeys /\ KeysOfFiles /\ OneSetPerKey /\ SetvalOnce
         /\ TokensSurviveDeaths
      /\ UndoExact /\ WaitersHoldNothing /\ MutexesAreSingle /\ HoldersAreLate /\ NotRemovedUnderHolder
  BY DEF SystemVInv
<1>u. vstep[t] # "idle" /\ vname[t] \in Name /\ H(t) \in Thread \X Name
  BY <1>0 DEF EventSemop, SvGoto, SvReturn, CallsInStep, H
<1>i. i \in sets /\ i \in SemId /\ SetOf(t) = i /\ vname[t] \in EventName /\ d \in Int /\ Semop(i, t, d)
      /\ semval[i] + d \in Nat
  BY <1>0 DEF EventSemop, SystemVTypeOK
<1>s. /\ semval'[i] = semval[i] + d
      /\ \A j \in SemId \ {i} : semval'[j] = semval[j]
      /\ semadj'[<<i, t>>] = semadj[<<i, t>>] - d
      /\ \A j \in SemId, u \in Thread : (j # i \/ u # t) => semadj'[<<j, u>>] = semadj[<<j, u>>]
  BY <1>0, <1>i, SemopPointwise
<1>e. i \notin Paired
  BY <1>0, <1>i, EventsNotPaired DEF SetOf, H
<1>f. UNCHANGED <<keyfile, sets, sem_key, svHandles, svHistory>>
  BY DEF EventSemop
<1>o. OthersKeep(t)
  BY <1>0, <1>u, <1>i, <1>s, <1>e, <1>f DEF OthersKeep, CallsInStep, SystemVTypeOK, EventSemop, SvGoto,
     SvReturn, H, SetOf, setVars, svHandles, svCall, svHistory
<1>m. (vstep[t] = "wait" /\ vstep'[t] = "repost" /\ SetOf(t)' = SetOf(t) /\ vname'[t] = vname[t] /\ SetOf(t) \in SemId) \/ (vstep'[t] = "idle" /\ vname'[t] = NoName)
  BY <1>0, <1>u, <1>i, <1>s, <1>e, <1>f DEF SystemVTypeOK, EventSemop, SvGoto, SvReturn, H, SetOf, setVars,
     svHandles, svCall, svHistory
<1>1. SystemVTypeOK'
  <2>1. /\ vname' \in [Thread -> Name \cup {NoName}]
         /\ vlimit' \in [Thread -> Limit \cup {0}]
         /\ vvalue' \in [Thread -> Nat]
    BY <1>0, ReturnTyped DEF EventSemop, SvGoto
  <2>2. semval' \in [SemId -> Nat] /\ semadj' \in [SemId \X Thread -> Int]
    BY <1>0, <1>i, SemopTyped
  <2>3. vstep' \in [Thread -> {"idle", "wait", "repost"} \cup CreateStep \cup DeleteStep]
    BY <1>0, <1>m DEF SystemVTypeOK, EventSemop, SvGoto, SvReturn, CreateStep
  <2>4. QED
    BY <1>0, <2>1, <2>2, <2>3 DEF SystemVTypeOK, EventSemop, svHandles, svHistory
<1>2. CallsInStep'
  BY <1>0, <1>i, <1>o, <1>m DEF OthersKeep, CallsInStep, CreateStep
<1>3. HandlesHaveKeys'
  BY <1>0 DEF HandlesHaveKeys, EventSemop, svHandles, svHistory
<1>4. KeysOfFiles'
  BY <1>0 DEF KeysOfFiles, EventSemop, svHandles, svHistory
<1>5. OneSetPerKey'
  BY <1>0 DEF OneSetPerKey, EventSemop
<1>6. SetvalOnce'
  <2>1. UNCHANGED <<sets, start>>
    BY DEF EventSemop, SvGoto, SvReturn, setVars, svHandles, svCall, svHistory
  <2>2. QED
    BY <1>0, <1>o, <1>m, <2>1 DEF OthersKeep, SetvalOnce
<1>7. TokensSurviveDeaths'
  <2>1. SUFFICES ASSUME NEW j \in sets', j \in Paired'
                 PROVE  semval'[j] + Cardinality(holding'[j]) = start'[j]
    BY DEF TokensSurviveDeaths
  <2>2. j \in sets \cap Paired /\ j \in SemId /\ j # i
    BY <1>0, <1>e, <1>f, <2>1 DEF Paired, SystemVTypeOK, svHistory
  <2>3. QED
    BY <1>0, <1>s, <1>f, <2>2 DEF TokensSurviveDeaths, svHistory
<1>8. UndoExact'
  <2>1. SUFFICES ASSUME NEW j \in sets', j \in Paired', NEW u \in Thread
                 PROVE  /\ u \in holding'[j] => semadj'[<<j, u>>] = 1
                        /\ u \notin holding'[j] => semadj'[<<j, u>>] = 0
    BY DEF UndoExact
  <2>2. j \in sets \cap Paired /\ j \in SemId /\ j # i
    BY <1>0, <1>e, <1>f, <2>1 DEF Paired, SystemVTypeOK, svHistory
  <2>3. QED
    BY <1>0, <1>s, <1>f, <2>2 DEF UndoExact, svHistory
<1>9. WaitersHoldNothing'
  <2>1. UNCHANGED <<holding>>
    BY DEF EventSemop, SvGoto, SvReturn, setVars, svHandles, svCall, svHistory
  <2>2. QED
    BY <1>0, <1>o, <1>m, <2>1 DEF OthersKeep, WaitersHoldNothing
<1>10. MutexesAreSingle'
  BY <1>0 DEF MutexesAreSingle, EventSemop, svHistory
<1>11. HoldersAreLate'
  <2>1. UNCHANGED <<sets, users, holding, late>>
    BY DEF EventSemop, SvGoto, SvReturn, setVars, svHandles, svCall, svHistory
  <2>2. QED
    BY <1>0, <1>o, <1>m, <2>1 DEF OthersKeep, HoldersAreLate
<1>12. NotRemovedUnderHolder'
  BY <1>0 DEF NotRemovedUnderHolder, EventSemop, svHistory
<1>13. QED
  BY <1>1, <1>2, <1>3, <1>4, <1>5, <1>6, <1>7, <1>8, <1>9, <1>10, <1>11, <1>12 DEF SystemVInv

LEMMA CapturedKeepsInv ==
  ASSUME SystemVInv, NEW t \in Thread, NEW i, Captured(t, i)
  PROVE  SystemVInv'
<1>0. /\ SystemVTypeOK /\ CallsInStep /\ HandlesHaveKeys /\ KeysOfFiles /\ OneSetPerKey /\ SetvalOnce
         /\ TokensSurviveDeaths
      /\ UndoExact /\ WaitersHoldNothing /\ MutexesAreSingle /\ HoldersAreLate /\ NotRemovedUnderHolder
  BY DEF SystemVInv
<1>u. vstep[t] # "idle" /\ vname[t] \in Name /\ H(t) \in Thread \X Name
  BY <1>0 DEF Captured, SvGoto, SvReturn, CallsInStep, H
<1>i. i \in sets /\ i \in SemId /\ SetOf(t) = i /\ vstep[t] = "wait" /\ vname[t] \notin EventName
      /\ semval[i] \in Nat /\ semval[i] > 0
  BY <1>0 DEF Captured, SvGoto, SystemVTypeOK
<1>x. Semop(i, t, -1) /\ semval[i] + -1 \in Nat
  BY <1>i DEF Captured
<1>s. /\ semval'[i] = semval[i] + -1
      /\ \A j \in SemId \ {i} : semval'[j] = semval[j]
      /\ semadj'[<<i, t>>] = semadj[<<i, t>>] - -1
      /\ \A j \in SemId, u \in Thread : (j # i \/ u # t) => semadj'[<<j, u>>] = semadj[<<j, u>>]
  BY <1>0, <1>i, <1>x, SemopPointwise
<1>n. t \notin holding[i]
  BY <1>0, <1>i DEF WaitersHoldNothing
<1>h. holding'[i] = holding[i] \cup {t} /\ \A j \in SemId \ {i} : holding'[j] = holding[j]
  BY <1>0, <1>i DEF Captured, SystemVTypeOK
<1>l. /\ \A j \in SemId, u \in Thread : (j # i \/ u # t) => (<<j, u>> \in late' <=> <<j, u>> \in late)
      /\ Deleting(i) # {} => <<i, t>> \in late'
  BY DEF Captured
<1>f. UNCHANGED <<keyfile, sets, sem_key, svHandles, start, raised, unlinked, users>>
  BY DEF Captured
<1>o. OthersKeep(t)
  BY DEF OthersKeep, Captured, SvGoto, SvReturn, H, SetOf, svHandles
<1>m. vstep'[t] = "idle" /\ vname'[t] = NoName
  BY <1>0 DEF SystemVTypeOK, Captured, SvGoto, SvReturn
<1>1. SystemVTypeOK'
  <2>1. /\ vname' \in [Thread -> Name \cup {NoName}]
         /\ vlimit' \in [Thread -> Limit \cup {0}]
         /\ vvalue' \in [Thread -> Nat]
    BY <1>0, ReturnTyped DEF Captured, SvGoto
  <2>2. semval' \in [SemId -> Nat] /\ semadj' \in [SemId \X Thread -> Int]
      <3>1. PICK d \in Int : d = -1 /\ Semop(i, t, d) /\ semval[i] + d \in Nat
        BY <1>i, <1>x
      <3>2. QED
        BY <1>0, <1>i, <3>1, SemopTyped
  <2>3. vstep' \in [Thread -> {"idle", "wait", "repost"} \cup CreateStep \cup DeleteStep]
    BY <1>0 DEF SystemVTypeOK, Captured, SvGoto
  <2>4. holding' \in [SemId -> SUBSET Thread]
    BY <1>0 DEF SystemVTypeOK, Captured
  <2>5. late' \in SUBSET (SemId \X Thread)
    BY <1>0, <1>i DEF SystemVTypeOK, Captured
  <2>6. QED
    BY <1>0, <2>1, <2>2, <2>3 DEF SystemVTypeOK, Captured, svHandles
<1>2. CallsInStep'
  BY <1>0, <1>o, <1>m DEF OthersKeep, CallsInStep, CreateStep
<1>3. HandlesHaveKeys'
  BY <1>0 DEF HandlesHaveKeys, Captured, svHandles
<1>4. KeysOfFiles'
  BY <1>0 DEF KeysOfFiles, Captured, svHandles
<1>5. OneSetPerKey'
  BY <1>0 DEF OneSetPerKey, Captured
<1>6. SetvalOnce'
  <2>1. UNCHANGED <<sets, start>>
    BY DEF Captured, SvGoto, SvReturn, setVars, svHandles, svCall, svHistory
  <2>2. QED
    BY <1>0, <1>f, <1>o, <1>m DEF OthersKeep, SetvalOnce
<1>7. TokensSurviveDeaths'
  <2>1. SUFFICES ASSUME NEW j \in sets', j \in Paired'
                 PROVE  semval'[j] + Cardinality(holding'[j]) = start'[j]
    BY DEF TokensSurviveDeaths
  <2>2. j \in sets \cap Paired /\ j \in SemId
    BY <1>0, <1>f, <2>1 DEF Paired, SystemVTypeOK
  <2>3. CASE j # i
    BY <1>0, <1>s, <1>h, <1>f, <2>2, <2>3 DEF TokensSurviveDeaths
  <2>4. CASE j = i
    <3>1. Cardinality(holding[i] \cup {t}) = Cardinality(holding[i]) + 1
      BY <1>0, <1>i, <1>n, HoldersCounted, FS_AddElement
    <3>2. semval[i] + Cardinality(holding[i]) = start[i] /\ Cardinality(holding[i]) \in Nat
      BY <1>0, <1>i, <2>2, <2>4, HoldersCounted DEF TokensSurviveDeaths
    <3>3. semval'[i] = semval[i] - 1
      BY <1>i, <1>s
    <3>4. Cardinality(holding'[i]) = Cardinality(holding[i]) + 1 /\ start'[i] = start[i]
      BY <1>h, <1>f, <3>1
    <3>5. QED
      BY <1>i, <2>4, <3>2, <3>3, <3>4
  <2>5. QED
    BY <2>3, <2>4
<1>8. UndoExact'
  <2>1. SUFFICES ASSUME NEW j \in sets', j \in Paired', NEW u \in Thread
                 PROVE  /\ u \in holding'[j] => semadj'[<<j, u>>] = 1
                        /\ u \notin holding'[j] => semadj'[<<j, u>>] = 0
    BY DEF UndoExact
  <2>2. j \in sets \cap Paired /\ j \in SemId
    BY <1>0, <1>f, <2>1 DEF Paired, SystemVTypeOK
  <2>3. /\ u \in holding[j] => semadj[<<j, u>>] = 1
        /\ u \notin holding[j] => semadj[<<j, u>>] = 0
    BY <1>0, <2>2 DEF UndoExact
  <2>4. CASE j # i \/ u # t
    BY <1>s, <1>h, <2>2, <2>3, <2>4
  <2>5. CASE j = i /\ u = t
    BY <1>s, <1>h, <1>n, <2>3, <2>5
  <2>6. QED
    BY <2>4, <2>5
<1>9. WaitersHoldNothing'
  <2>1. SUFFICES ASSUME NEW u \in Thread, vstep'[u] = "wait", vname'[u] \notin EventName
                 PROVE  u \notin holding'[SetOf(u)']
    BY DEF WaitersHoldNothing
  <2>2. u # t /\ vstep[u] = "wait" /\ vname'[u] = vname[u] /\ SetOf(u)' = SetOf(u)
    BY <1>o, <1>m, <2>1 DEF OthersKeep
  <2>3. SetOf(u) \in SemId /\ u \notin holding[SetOf(u)]
    BY <1>0, <2>1, <2>2 DEF CallsInStep, WaitersHoldNothing
  <2>4. QED
    BY <1>h, <2>2, <2>3
<1>10. MutexesAreSingle'
  BY <1>0 DEF MutexesAreSingle, Captured
<1>11. HoldersAreLate'
  <2>1. SUFFICES ASSUME NEW u \in Thread, NEW j \in sets', vstep'[u] \in {"getncnt", "rmid"}, SetOf(u)' = j,
                        users'[j] \subseteq MutexName, NEW w \in holding'[j]
                 PROVE  <<j, w>> \in late'
    BY DEF HoldersAreLate
  <2>2. u # t /\ vstep[u] = vstep'[u] /\ SetOf(u) = j
    BY <1>o, <1>m, <2>1 DEF OthersKeep
  <2>3. j \in sets /\ j \in SemId /\ w \in Thread /\ users[j] \subseteq MutexName
    BY <1>0, <1>h, <1>i, <1>f, <2>1 DEF SystemVTypeOK
  <2>4. CASE j = i /\ w = t
    BY <1>l, <2>1, <2>2, <2>4 DEF Deleting
  <2>5. CASE j # i \/ w # t
    <3>1. w \in holding[j]
      BY <1>h, <2>1, <2>3, <2>5
    <3>2. QED
      BY <1>0, <1>l, <2>1, <2>2, <2>3, <2>5, <3>1 DEF HoldersAreLate
  <2>6. QED
    BY <2>4, <2>5
<1>12. NotRemovedUnderHolder'
  <2>1. SUFFICES ASSUME NEW j \in SemId \ sets', users'[j] \subseteq MutexName, NEW w \in holding'[j]
                 PROVE  <<j, w>> \in late'
    BY DEF NotRemovedUnderHolder
  <2>2. j # i /\ j \in SemId \ sets /\ w \in holding[j] /\ w \in Thread
    BY <1>0, <1>h, <1>i, <1>f, <2>1 DEF SystemVTypeOK
  <2>3. QED
    BY <1>0, <1>l, <1>f, <2>1, <2>2 DEF NotRemovedUnderHolder
<1>13. QED
  BY <1>1, <1>2, <1>3, <1>4, <1>5, <1>6, <1>7, <1>8, <1>9, <1>10, <1>11, <1>12 DEF SystemVInv

LEMMA GiveBackKeepsInv ==
  ASSUME SystemVInv, NEW t \in Thread, NEW i, Raised(t, i), t \in holding[i],
         holding' = [holding EXCEPT ![i] = @ \ {t}], late' = late \ {<<i, t>>}, UNCHANGED raised
  PROVE  SystemVInv'
<1>0. /\ SystemVTypeOK /\ CallsInStep /\ HandlesHaveKeys /\ KeysOfFiles /\ OneSetPerKey /\ SetvalOnce
         /\ TokensSurviveDeaths
      /\ UndoExact /\ WaitersHoldNothing /\ MutexesAreSingle /\ HoldersAreLate /\ NotRemovedUnderHolder
  BY DEF SystemVInv
<1>i. i \in sets /\ i \in SemId /\ Semop(i, t, 1) /\ semval[i] \in Nat /\ semval[i] + 1 \in Nat
  BY <1>0 DEF Raised, SystemVTypeOK
<1>s. /\ semval'[i] = semval[i] + 1
      /\ \A j \in SemId \ {i} : semval'[j] = semval[j]
      /\ semadj'[<<i, t>>] = semadj[<<i, t>>] - 1
      /\ \A j \in SemId, u \in Thread : (j # i \/ u # t) => semadj'[<<j, u>>] = semadj[<<j, u>>]
  BY <1>0, <1>i, SemopPointwise
<1>h. holding'[i] = holding[i] \ {t} /\ \A j \in SemId \ {i} : holding'[j] = holding[j]
  BY <1>0, <1>i DEF SystemVTypeOK
<1>l. \A j \in SemId, u \in Thread : (j # i \/ u # t) => (<<j, u>> \in late' <=> <<j, u>> \in late)
  OBVIOUS
<1>f. UNCHANGED <<keyfile, sets, sem_key, svHandles, vstep, svCall, start, raised, unlinked, users>>
  BY DEF Raised
<1>1. SystemVTypeOK'
  <2>1. semval' \in [SemId -> Nat] /\ semadj' \in [SemId \X Thread -> Int]
      <3>1. PICK d \in Int : d = 1 /\ Semop(i, t, d) /\ semval[i] + d \in Nat
        BY <1>i
      <3>2. QED
        BY <1>0, <1>i, <3>1, SemopTyped
  <2>2. holding' \in [SemId -> SUBSET Thread]
    BY <1>0, <1>i DEF SystemVTypeOK
  <2>3. late' \in SUBSET (SemId \X Thread)
    BY <1>0 DEF SystemVTypeOK
  <2>4. QED
    BY <1>0, <2>1 DEF SystemVTypeOK, Raised, svHandles, svCall
<1>2. CallsInStep'
  BY <1>0 DEF CallsInStep, H, SetOf, Raised, svHandles, svCall
<1>3. HandlesHaveKeys'
  BY <1>0 DEF HandlesHaveKeys, Raised, setVars, svHandles, svCall, svHistory
<1>4. KeysOfFiles'
  BY <1>0 DEF KeysOfFiles, Raised, setVars, svHandles, svCall, svHistory
<1>5. OneSetPerKey'
  BY <1>0 DEF OneSetPerKey, Raised, setVars, svHandles, svCall, svHistory
<1>6. SetvalOnce'
  BY <1>0 DEF SetvalOnce, H, SetOf, Raised, svHandles, svCall
<1>7. TokensSurviveDeaths'
  <2>1. SUFFICES ASSUME NEW j \in sets', j \in Paired'
                 PROVE  semval'[j] + Cardinality(holding'[j]) = start'[j]
    BY DEF TokensSurviveDeaths
  <2>2. j \in sets \cap Paired /\ j \in SemId
    BY <1>0, <1>f, <2>1 DEF Paired, SystemVTypeOK
  <2>3. CASE j # i
    BY <1>0, <1>s, <1>h, <1>f, <2>2, <2>3 DEF TokensSurviveDeaths
  <2>4. CASE j = i
    <3>1. Cardinality(holding[i] \ {t}) = Cardinality(holding[i]) - 1
      BY <1>0, <1>i, HoldersCounted, FS_RemoveElement
    <3>2. semval[i] + Cardinality(holding[i]) = start[i] /\ Cardinality(holding[i]) \in Nat
      BY <1>0, <1>i, <2>2, <2>4, HoldersCounted DEF TokensSurviveDeaths
    <3>3. QED
      BY <1>i, <1>s, <1>h, <1>f, <2>4, <3>1, <3>2
  <2>5. QED
    BY <2>3, <2>4
<1>8. UndoExact'
  <2>1. SUFFICES ASSUME NEW j \in sets', j \in Paired', NEW u \in Thread
                 PROVE  /\ u \in holding'[j] => semadj'[<<j, u>>] = 1
                        /\ u \notin holding'[j] => semadj'[<<j, u>>] = 0
    BY DEF UndoExact
  <2>2. j \in sets \cap Paired /\ j \in SemId
    BY <1>0, <1>f, <2>1 DEF Paired, SystemVTypeOK
  <2>3. /\ u \in holding[j] => semadj[<<j, u>>] = 1
        /\ u \notin holding[j] => semadj[<<j, u>>] = 0
    BY <1>0, <2>2 DEF UndoExact
  <2>4. CASE j # i \/ u # t
    BY <1>s, <1>h, <2>2, <2>3, <2>4
  <2>5. CASE j = i /\ u = t
    BY <1>s, <1>h, <2>3, <2>5
  <2>6. QED
    BY <2>4, <2>5
<1>9. WaitersHoldNothing'
  <2>1. SUFFICES ASSUME NEW u \in Thread, vstep'[u] = "wait", vname'[u] \notin EventName
                 PROVE  u \notin holding'[SetOf(u)']
    BY DEF WaitersHoldNothing
  <2>2. vstep[u] = "wait" /\ vname'[u] = vname[u] /\ SetOf(u)' = SetOf(u)
    BY <1>f, <2>1 DEF SetOf, H, svHandles, svCall
  <2>3. SetOf(u) \in SemId /\ u \notin holding[SetOf(u)]
    BY <1>0, <2>1, <2>2 DEF CallsInStep, WaitersHoldNothing
  <2>4. QED
    BY <1>h, <1>i, <2>2, <2>3
<1>10. MutexesAreSingle'
  BY <1>0 DEF MutexesAreSingle, Raised, setVars, svHandles, svCall, svHistory
<1>11. HoldersAreLate'
  <2>1. SUFFICES ASSUME NEW u \in Thread, NEW j \in sets', vstep'[u] \in {"getncnt", "rmid"}, SetOf(u)' = j,
                        users'[j] \subseteq MutexName, NEW w \in holding'[j]
                 PROVE  <<j, w>> \in late'
    BY DEF HoldersAreLate
  <2>2. vstep[u] = vstep'[u] /\ SetOf(u) = j
    BY <1>f, <2>1 DEF SetOf, H, svHandles, svCall
  <2>3. j \in sets /\ j \in SemId /\ users[j] \subseteq MutexName /\ w \in holding[j] /\ w \in Thread
        /\ (j # i \/ w # t)
    BY <1>0, <1>h, <1>i, <1>f, <2>1 DEF SystemVTypeOK, setVars
  <2>4. QED
    BY <1>0, <1>l, <2>1, <2>2, <2>3 DEF HoldersAreLate
<1>12. NotRemovedUnderHolder'
  <2>1. SUFFICES ASSUME NEW j \in SemId \ sets', users'[j] \subseteq MutexName, NEW w \in holding'[j]
                 PROVE  <<j, w>> \in late'
    BY DEF NotRemovedUnderHolder
  <2>2. j \in SemId \ sets /\ w \in holding[j] /\ w \in Thread /\ (j # i \/ w # t)
        /\ users[j] \subseteq MutexName
    BY <1>0, <1>h, <1>i, <1>f, <2>1 DEF SystemVTypeOK, setVars
  <2>3. QED
    BY <1>0, <1>l, <2>2 DEF NotRemovedUnderHolder
<1>13. QED
  BY <1>1, <1>2, <1>3, <1>4, <1>5, <1>6, <1>7, <1>8, <1>9, <1>10, <1>11, <1>12 DEF SystemVInv

LEMMA GiveBackGoneKeepsInv ==
  ASSUME SystemVInv, NEW t \in Thread, NEW i, RaisedNothing(t, i), t \in holding[i],
         holding' = [holding EXCEPT ![i] = @ \ {t}], late' = late \ {<<i, t>>}, UNCHANGED raised
  PROVE  SystemVInv'
<1>0. /\ SystemVTypeOK /\ CallsInStep /\ HandlesHaveKeys /\ KeysOfFiles /\ OneSetPerKey /\ SetvalOnce
         /\ TokensSurviveDeaths
      /\ UndoExact /\ WaitersHoldNothing /\ MutexesAreSingle /\ HoldersAreLate /\ NotRemovedUnderHolder
  BY DEF SystemVInv
<1>i. i \in SemId /\ i \notin sets
  BY DEF RaisedNothing
<1>h. holding'[i] = holding[i] \ {t} /\ \A j \in SemId \ {i} : holding'[j] = holding[j]
  BY <1>0, <1>i DEF SystemVTypeOK
<1>l. \A j \in SemId, u \in Thread : (j # i \/ u # t) => (<<j, u>> \in late' <=> <<j, u>> \in late)
  OBVIOUS
<1>f. UNCHANGED <<keyfile, setVars, svHandles, vstep, svCall, start, raised, unlinked, users>>
  BY DEF RaisedNothing
<1>1. SystemVTypeOK'
  <2>1. holding' \in [SemId -> SUBSET Thread]
    BY <1>0, <1>i, <1>h, <1>l, <1>f DEF SystemVTypeOK, RaisedNothing
  <2>2. late' \in SUBSET (SemId \X Thread)
    BY <1>0, <1>i, <1>h, <1>l, <1>f DEF SystemVTypeOK, RaisedNothing
  <2>3. QED
    BY <1>0 DEF SystemVTypeOK, RaisedNothing, setVars, svHandles, svCall
<1>2. CallsInStep'
  BY <1>0 DEF CallsInStep, H, SetOf, RaisedNothing, svHandles, svCall
<1>3. HandlesHaveKeys'
  BY <1>0 DEF HandlesHaveKeys, RaisedNothing, setVars, svHandles, svCall, svHistory
<1>4. KeysOfFiles'
  BY <1>0 DEF KeysOfFiles, RaisedNothing, setVars, svHandles, svCall, svHistory
<1>5. OneSetPerKey'
  BY <1>0 DEF OneSetPerKey, RaisedNothing, setVars, svHandles, svCall, svHistory
<1>6. SetvalOnce'
  BY <1>0 DEF SetvalOnce, H, SetOf, RaisedNothing, setVars, svHandles, svCall
<1>7. TokensSurviveDeaths'
  <2>1. SUFFICES ASSUME NEW j \in sets', j \in Paired'
                 PROVE  semval'[j] + Cardinality(holding'[j]) = start'[j]
    BY DEF TokensSurviveDeaths
  <2>2. j \in sets \cap Paired /\ j \in SemId /\ j # i
    BY <1>0, <1>i, <1>f, <2>1 DEF Paired, SystemVTypeOK, setVars
  <2>3. QED
    BY <1>0, <1>h, <1>f, <2>2 DEF TokensSurviveDeaths, setVars
<1>8. UndoExact'
  <2>1. SUFFICES ASSUME NEW j \in sets', j \in Paired', NEW u \in Thread
                 PROVE  /\ u \in holding'[j] => semadj'[<<j, u>>] = 1
                        /\ u \notin holding'[j] => semadj'[<<j, u>>] = 0
    BY DEF UndoExact
  <2>2. j \in sets \cap Paired /\ j \in SemId /\ j # i
    BY <1>0, <1>i, <1>f, <2>1 DEF Paired, SystemVTypeOK, setVars
  <2>3. QED
    BY <1>0, <1>h, <1>f, <2>2 DEF UndoExact, setVars
<1>9. WaitersHoldNothing'
  <2>1. SUFFICES ASSUME NEW u \in Thread, vstep'[u] = "wait", vname'[u] \notin EventName
                 PROVE  u \notin holding'[SetOf(u)']
    BY DEF WaitersHoldNothing
  <2>2. vstep[u] = "wait" /\ vname'[u] = vname[u] /\ SetOf(u)' = SetOf(u)
    BY <1>f, <2>1 DEF SetOf, H, svHandles, svCall
  <2>3. SetOf(u) \in SemId /\ u \notin holding[SetOf(u)]
    BY <1>0, <2>1, <2>2 DEF CallsInStep, WaitersHoldNothing
  <2>4. QED
    BY <1>h, <1>i, <2>2, <2>3
<1>10. MutexesAreSingle'
  BY <1>0 DEF MutexesAreSingle, RaisedNothing, setVars, svHandles, svCall, svHistory
<1>11. HoldersAreLate'
  <2>1. SUFFICES ASSUME NEW u \in Thread, NEW j \in sets', vstep'[u] \in {"getncnt", "rmid"}, SetOf(u)' = j,
                        users'[j] \subseteq MutexName, NEW w \in holding'[j]
                 PROVE  <<j, w>> \in late'
    BY DEF HoldersAreLate
  <2>2. vstep[u] = vstep'[u] /\ SetOf(u) = j
    BY <1>f, <2>1 DEF SetOf, H, svHandles, svCall
  <2>3. j \in sets /\ j \in SemId /\ users[j] \subseteq MutexName /\ w \in holding[j] /\ w \in Thread
        /\ (j # i \/ w # t)
    BY <1>0, <1>h, <1>i, <1>f, <2>1 DEF SystemVTypeOK, setVars
  <2>4. QED
    BY <1>0, <1>l, <2>1, <2>2, <2>3 DEF HoldersAreLate
<1>12. NotRemovedUnderHolder'
  <2>1. SUFFICES ASSUME NEW j \in SemId \ sets', users'[j] \subseteq MutexName, NEW w \in holding'[j]
                 PROVE  <<j, w>> \in late'
    BY DEF NotRemovedUnderHolder
  <2>2. j \in SemId \ sets /\ w \in holding[j] /\ w \in Thread /\ (j # i \/ w # t)
        /\ users[j] \subseteq MutexName
    BY <1>0, <1>h, <1>i, <1>f, <2>1 DEF SystemVTypeOK, setVars
  <2>3. QED
    BY <1>0, <1>l, <2>2 DEF NotRemovedUnderHolder
<1>13. QED
  BY <1>1, <1>2, <1>3, <1>4, <1>5, <1>6, <1>7, <1>8, <1>9, <1>10, <1>11, <1>12 DEF SystemVInv

LEMMA GiveKeepsInv ==
  ASSUME SystemVInv, NEW t \in Thread, NEW n \in SemName, NEW i, i = sem_id[<<t, n>>], Raised(t, i),
         raised' = raised \cup {i}, UNCHANGED <<holding, late>>
  PROVE  SystemVInv'
<1>0. /\ SystemVTypeOK /\ CallsInStep /\ HandlesHaveKeys /\ KeysOfFiles /\ OneSetPerKey /\ SetvalOnce
         /\ TokensSurviveDeaths
      /\ UndoExact /\ WaitersHoldNothing /\ MutexesAreSingle /\ HoldersAreLate /\ NotRemovedUnderHolder
  BY DEF SystemVInv
<1>i. i \in sets /\ i \in SemId /\ Semop(i, t, 1) /\ semval[i] \in Nat /\ semval[i] + 1 \in Nat
  BY <1>0 DEF Raised, SystemVTypeOK
<1>s. /\ semval'[i] = semval[i] + 1
      /\ \A j \in SemId \ {i} : semval'[j] = semval[j]
      /\ semadj'[<<i, t>>] = semadj[<<i, t>>] - 1
      /\ \A j \in SemId, u \in Thread : (j # i \/ u # t) => semadj'[<<j, u>>] = semadj[<<j, u>>]
  BY <1>0, <1>i, SemopPointwise
<1>n. n \in users[i]
  <2>1. <<t, n>> \in Thread \X Name /\ <<t, n>>[2] = n
    BY DEF Name
  <2>2. QED
    BY <1>0, <1>i, <2>1 DEF HandlesHaveKeys
<1>f. UNCHANGED <<keyfile, sets, sem_key, svHandles, vstep, svCall, start, holding, unlinked, users, late>>
      /\ raised' = raised \cup {i}
  BY DEF Raised
<1>1. SystemVTypeOK'
  <2>1. semval' \in [SemId -> Nat] /\ semadj' \in [SemId \X Thread -> Int]
      <3>1. PICK d \in Int : d = 1 /\ Semop(i, t, d) /\ semval[i] + d \in Nat
        BY <1>i
      <3>2. QED
        BY <1>0, <1>i, <3>1, SemopTyped
  <2>2. raised' \in SUBSET SemId
    BY <1>0, <1>i, <1>s, <1>n, <1>f DEF SystemVTypeOK, Raised
  <2>3. QED
    BY <1>0, <2>1 DEF SystemVTypeOK, Raised, svHandles, svCall
<1>2. CallsInStep'
  BY <1>0 DEF CallsInStep, H, SetOf, Raised, svHandles, svCall
<1>3. HandlesHaveKeys'
  BY <1>0 DEF HandlesHaveKeys, Raised, setVars, svHandles, svCall, svHistory
<1>4. KeysOfFiles'
  BY <1>0 DEF KeysOfFiles, Raised, setVars, svHandles, svCall, svHistory
<1>5. OneSetPerKey'
  BY <1>0 DEF OneSetPerKey, Raised, setVars, svHandles, svCall, svHistory
<1>6. SetvalOnce'
  BY <1>0 DEF SetvalOnce, H, SetOf, Raised, svHandles, svCall
<1>7. TokensSurviveDeaths'
  <2>1. SUFFICES ASSUME NEW j \in sets', j \in Paired'
                 PROVE  semval'[j] + Cardinality(holding'[j]) = start'[j]
    BY DEF TokensSurviveDeaths
  <2>2. j \in sets \cap Paired /\ j \in SemId /\ j # i
    BY <1>0, <1>f, <2>1 DEF Paired, SystemVTypeOK
  <2>3. QED
    BY <1>0, <1>s, <1>f, <2>2 DEF TokensSurviveDeaths
<1>8. UndoExact'
  <2>1. SUFFICES ASSUME NEW j \in sets', j \in Paired', NEW u \in Thread
                 PROVE  /\ u \in holding'[j] => semadj'[<<j, u>>] = 1
                        /\ u \notin holding'[j] => semadj'[<<j, u>>] = 0
    BY DEF UndoExact
  <2>2. j \in sets \cap Paired /\ j \in SemId /\ j # i
    BY <1>0, <1>f, <2>1 DEF Paired, SystemVTypeOK
  <2>3. QED
    BY <1>0, <1>s, <1>f, <2>2 DEF UndoExact
<1>9. WaitersHoldNothing'
  BY <1>0 DEF WaitersHoldNothing, H, SetOf, Raised, svHandles, svCall
<1>10. MutexesAreSingle'
  BY <1>0, <1>n, <1>f, LibraryAssumption DEF MutexesAreSingle
<1>11. HoldersAreLate'
  BY <1>0 DEF HoldersAreLate, H, SetOf, Raised, svHandles, svCall
<1>12. NotRemovedUnderHolder'
  BY <1>0 DEF NotRemovedUnderHolder, Raised, setVars, svHandles, svCall, svHistory
<1>13. QED
  BY <1>1, <1>2, <1>3, <1>4, <1>5, <1>6, <1>7, <1>8, <1>9, <1>10, <1>11, <1>12 DEF SystemVInv

LEMMA GiveGoneKeepsInv ==
  ASSUME SystemVInv, NEW t \in Thread, NEW i, RaisedNothing(t, i), raised' = raised \cup {i},
         UNCHANGED <<holding, late>>
  PROVE  SystemVInv'
<1>0. /\ SystemVTypeOK /\ CallsInStep /\ HandlesHaveKeys /\ KeysOfFiles /\ OneSetPerKey /\ SetvalOnce
         /\ TokensSurviveDeaths
      /\ UndoExact /\ WaitersHoldNothing /\ MutexesAreSingle /\ HoldersAreLate /\ NotRemovedUnderHolder
  BY DEF SystemVInv
<1>i. i \in SemId /\ i \notin sets
  BY DEF RaisedNothing
<1>f. UNCHANGED <<keyfile, setVars, svHandles, vstep, svCall, start, holding, unlinked, users, late>>
      /\ raised' = raised \cup {i}
  BY DEF RaisedNothing
<1>1. SystemVTypeOK'
  <2>1. raised' \in SUBSET SemId
    BY <1>0, <1>i, <1>f DEF SystemVTypeOK, RaisedNothing
  <2>2. QED
    BY <1>0 DEF SystemVTypeOK, RaisedNothing, setVars, svHandles, svCall
<1>2. CallsInStep'
  BY <1>0 DEF CallsInStep, H, SetOf, RaisedNothing, svHandles, svCall
<1>3. HandlesHaveKeys'
  BY <1>0 DEF HandlesHaveKeys, RaisedNothing, setVars, svHandles, svCall, svHistory
<1>4. KeysOfFiles'
  BY <1>0 DEF KeysOfFiles, RaisedNothing, setVars, svHandles, svCall, svHistory
<1>5. OneSetPerKey'
  BY <1>0 DEF OneSetPerKey, RaisedNothing, setVars, svHandles, svCall, svHistory
<1>6. SetvalOnce'
  BY <1>0 DEF SetvalOnce, H, SetOf, RaisedNothing, setVars, svHandles, svCall
<1>7. TokensSurviveDeaths'
  <2>1. SUFFICES ASSUME NEW j \in sets', j \in Paired'
                 PROVE  semval'[j] + Cardinality(holding'[j]) = start'[j]
    BY DEF TokensSurviveDeaths
  <2>2. j \in sets \cap Paired
    BY <1>0, <1>i, <1>f, <2>1 DEF Paired, setVars
  <2>3. QED
    BY <1>0, <1>f, <2>2 DEF TokensSurviveDeaths, setVars
<1>8. UndoExact'
  <2>1. SUFFICES ASSUME NEW j \in sets', j \in Paired', NEW u \in Thread
                 PROVE  /\ u \in holding'[j] => semadj'[<<j, u>>] = 1
                        /\ u \notin holding'[j] => semadj'[<<j, u>>] = 0
    BY DEF UndoExact
  <2>2. j \in sets \cap Paired
    BY <1>0, <1>i, <1>f, <2>1 DEF Paired, setVars
  <2>3. QED
    BY <1>0, <1>f, <2>2 DEF UndoExact, setVars
<1>9. WaitersHoldNothing'
  BY <1>0 DEF WaitersHoldNothing, H, SetOf, RaisedNothing, svHandles, svCall
<1>10. MutexesAreSingle'
  BY <1>0, <1>i, <1>f DEF MutexesAreSingle, setVars
<1>11. HoldersAreLate'
  BY <1>0 DEF HoldersAreLate, H, SetOf, RaisedNothing, setVars, svHandles, svCall
<1>12. NotRemovedUnderHolder'
  BY <1>0 DEF NotRemovedUnderHolder, RaisedNothing, setVars, svHandles, svCall, svHistory
<1>13. QED
  BY <1>1, <1>2, <1>3, <1>4, <1>5, <1>6, <1>7, <1>8, <1>9, <1>10, <1>11, <1>12 DEF SystemVInv

LEMMA SetEventKeepsInv ==
  ASSUME SystemVInv, NEW t \in Thread, NEW n \in EventName, NEW i, i = sem_id[<<t, n>>], Raised(t, i),
         UNCHANGED <<raised, holding, late>>
  PROVE  SystemVInv'
<1>0. /\ SystemVTypeOK /\ CallsInStep /\ HandlesHaveKeys /\ KeysOfFiles /\ OneSetPerKey /\ SetvalOnce
         /\ TokensSurviveDeaths
      /\ UndoExact /\ WaitersHoldNothing /\ MutexesAreSingle /\ HoldersAreLate /\ NotRemovedUnderHolder
  BY DEF SystemVInv
<1>i. i \in sets /\ i \in SemId /\ Semop(i, t, 1) /\ semval[i] \in Nat /\ semval[i] + 1 \in Nat
  BY <1>0 DEF Raised, SystemVTypeOK
<1>s. /\ semval'[i] = semval[i] + 1
      /\ \A j \in SemId \ {i} : semval'[j] = semval[j]
      /\ semadj'[<<i, t>>] = semadj[<<i, t>>] - 1
      /\ \A j \in SemId, u \in Thread : (j # i \/ u # t) => semadj'[<<j, u>>] = semadj[<<j, u>>]
  BY <1>0, <1>i, SemopPointwise
<1>e. i \notin Paired
  BY <1>0, <1>i, EventsNotPaired
<1>f. UNCHANGED <<keyfile, sets, sem_key, svHandles, vstep, svCall, svHistory>>
  BY DEF Raised, svHistory
<1>1. SystemVTypeOK'
  <2>1. semval' \in [SemId -> Nat] /\ semadj' \in [SemId \X Thread -> Int]
      <3>1. PICK d \in Int : d = 1 /\ Semop(i, t, d) /\ semval[i] + d \in Nat
        BY <1>i
      <3>2. QED
        BY <1>0, <1>i, <3>1, SemopTyped
  <2>2. QED
    BY <1>0, <2>1 DEF SystemVTypeOK, Raised, svHandles, svCall
<1>2. CallsInStep'
  BY <1>0 DEF CallsInStep, H, SetOf, Raised, svHandles, svCall
<1>3. HandlesHaveKeys'
  BY <1>0 DEF HandlesHaveKeys, Raised, setVars, svHandles, svCall, svHistory
<1>4. KeysOfFiles'
  BY <1>0 DEF KeysOfFiles, Raised, setVars, svHandles, svCall, svHistory
<1>5. OneSetPerKey'
  BY <1>0 DEF OneSetPerKey, Raised, setVars, svHandles, svCall, svHistory
<1>6. SetvalOnce'
  BY <1>0 DEF SetvalOnce, H, SetOf, Raised, svHandles, svCall
<1>7. TokensSurviveDeaths'
  <2>1. SUFFICES ASSUME NEW j \in sets', j \in Paired'
                 PROVE  semval'[j] + Cardinality(holding'[j]) = start'[j]
    BY DEF TokensSurviveDeaths
  <2>2. j \in sets \cap Paired /\ j \in SemId /\ j # i
    BY <1>0, <1>e, <1>f, <2>1 DEF Paired, SystemVTypeOK, svHistory
  <2>3. QED
    BY <1>0, <1>s, <1>f, <2>2 DEF TokensSurviveDeaths, svHistory
<1>8. UndoExact'
  <2>1. SUFFICES ASSUME NEW j \in sets', j \in Paired', NEW u \in Thread
                 PROVE  /\ u \in holding'[j] => semadj'[<<j, u>>] = 1
                        /\ u \notin holding'[j] => semadj'[<<j, u>>] = 0
    BY DEF UndoExact
  <2>2. j \in sets \cap Paired /\ j \in SemId /\ j # i
    BY <1>0, <1>e, <1>f, <2>1 DEF Paired, SystemVTypeOK, svHistory
  <2>3. QED
    BY <1>0, <1>s, <1>f, <2>2 DEF UndoExact, svHistory
<1>9. WaitersHoldNothing'
  BY <1>0 DEF WaitersHoldNothing, H, SetOf, Raised, svHandles, svCall
<1>10. MutexesAreSingle'
  BY <1>0 DEF MutexesAreSingle, Raised, setVars, svHandles, svCall, svHistory
<1>11. HoldersAreLate'
  BY <1>0 DEF HoldersAreLate, H, SetOf, Raised, svHandles, svCall
<1>12. NotRemovedUnderHolder'
  BY <1>0 DEF NotRemovedUnderHolder, Raised, setVars, svHandles, svCall, svHistory
<1>13. QED
  BY <1>1, <1>2, <1>3, <1>4, <1>5, <1>6, <1>7, <1>8, <1>9, <1>10, <1>11, <1>12 DEF SystemVInv

LEMMA ResetEventKeepsInv ==
  ASSUME SystemVInv, NEW t \in Thread, NEW n \in EventName, NEW i, i = sem_id[<<t, n>>], IPC_resetEvent_sv(t, n)
  PROVE  SystemVInv'
<1>0. /\ SystemVTypeOK /\ CallsInStep /\ HandlesHaveKeys /\ KeysOfFiles /\ OneSetPerKey /\ SetvalOnce
         /\ TokensSurviveDeaths
      /\ UndoExact /\ WaitersHoldNothing /\ MutexesAreSingle /\ HoldersAreLate /\ NotRemovedUnderHolder
  BY DEF SystemVInv
<1>i. i \in sets /\ i \in SemId
  BY <1>0 DEF IPC_resetEvent_sv, SystemVTypeOK
<1>s. /\ \A j \in SemId \ {i} : semval'[j] = semval[j]
      /\ \A j \in SemId \ {i}, u \in Thread : semadj'[<<j, u>>] = semadj[<<j, u>>]
  BY <1>0 DEF IPC_resetEvent_sv, SystemVTypeOK
<1>e. i \notin Paired
  BY <1>0, <1>i, EventsNotPaired
<1>f. UNCHANGED <<keyfile, sets, sem_key, svHandles, vstep, svCall, svHistory>>
  BY DEF IPC_resetEvent_sv
<1>1. SystemVTypeOK'
  <2>1. semval' \in [SemId -> Nat]
    BY <1>0 DEF SystemVTypeOK, IPC_resetEvent_sv
  <2>2. semadj' \in [SemId \X Thread -> Int]
    BY <1>0, ClearedTyped DEF IPC_resetEvent_sv, Idle
  <2>3. QED
    BY <1>0 DEF SystemVTypeOK, IPC_resetEvent_sv, svHandles, svCall, svHistory
<1>2. CallsInStep'
  BY <1>0 DEF CallsInStep, H, SetOf, IPC_resetEvent_sv, svHandles, svCall
<1>3. HandlesHaveKeys'
  BY <1>0 DEF HandlesHaveKeys, IPC_resetEvent_sv, svHandles, svHistory
<1>4. KeysOfFiles'
  BY <1>0 DEF KeysOfFiles, IPC_resetEvent_sv, svHandles, svHistory
<1>5. OneSetPerKey'
  BY <1>0 DEF OneSetPerKey, IPC_resetEvent_sv
<1>6. SetvalOnce'
  BY <1>0 DEF SetvalOnce, H, SetOf, IPC_resetEvent_sv, svHandles, svCall, svHistory
<1>7. TokensSurviveDeaths'
  <2>1. SUFFICES ASSUME NEW j \in sets', j \in Paired'
                 PROVE  semval'[j] + Cardinality(holding'[j]) = start'[j]
    BY DEF TokensSurviveDeaths
  <2>2. j \in sets \cap Paired /\ j \in SemId /\ j # i
    BY <1>0, <1>e, <1>f, <2>1 DEF Paired, SystemVTypeOK, svHistory
  <2>3. QED
    BY <1>0, <1>s, <1>f, <2>2 DEF TokensSurviveDeaths, svHistory
<1>8. UndoExact'
  <2>1. SUFFICES ASSUME NEW j \in sets', j \in Paired', NEW u \in Thread
                 PROVE  /\ u \in holding'[j] => semadj'[<<j, u>>] = 1
                        /\ u \notin holding'[j] => semadj'[<<j, u>>] = 0
    BY DEF UndoExact
  <2>2. j \in sets \cap Paired /\ j \in SemId /\ j # i
    BY <1>0, <1>e, <1>f, <2>1 DEF Paired, SystemVTypeOK, svHistory
  <2>3. QED
    BY <1>0, <1>s, <1>f, <2>2 DEF UndoExact, svHistory
<1>9. WaitersHoldNothing'
  BY <1>0 DEF WaitersHoldNothing, H, SetOf, IPC_resetEvent_sv, svHandles, svCall, svHistory
<1>10. MutexesAreSingle'
  BY <1>0 DEF MutexesAreSingle, IPC_resetEvent_sv, svHistory
<1>11. HoldersAreLate'
  BY <1>0 DEF HoldersAreLate, H, SetOf, IPC_resetEvent_sv, svHandles, svCall, svHistory
<1>12. NotRemovedUnderHolder'
  BY <1>0 DEF NotRemovedUnderHolder, IPC_resetEvent_sv, svHistory
<1>13. QED
  BY <1>1, <1>2, <1>3, <1>4, <1>5, <1>6, <1>7, <1>8, <1>9, <1>10, <1>11, <1>12 DEF SystemVInv

LEMMA DeletesKeepsInv ==
  ASSUME SystemVInv, NEW t \in Thread, Deletes(t)
  PROVE  SystemVInv'
<1>0. /\ SystemVTypeOK /\ CallsInStep /\ HandlesHaveKeys /\ KeysOfFiles /\ OneSetPerKey /\ SetvalOnce
         /\ TokensSurviveDeaths
      /\ UndoExact /\ WaitersHoldNothing /\ MutexesAreSingle /\ HoldersAreLate /\ NotRemovedUnderHolder
  BY DEF SystemVInv
<1>u. vstep[t] # "idle" /\ vname[t] \in Name /\ H(t) \in Thread \X Name
  BY <1>0 DEF Deletes, CallsInStep, H
<1>h. \A h \in Thread \X Name :
        /\ h # H(t) => sem_id'[h] = sem_id[h] /\ ipc_key'[h] = ipc_key[h]
        /\ h = H(t) => sem_id'[h] = NoId /\ ipc_key'[h] = NoInode
  BY <1>0 DEF Deletes, delete_ipc_object, NoHandles
<1>k. /\ vname[t] \in Name /\ keyfile' = [keyfile EXCEPT ![vname[t]] = NoInode]
      /\ unlinked' = (unlinked \cup {h \in Thread \X {vname[t]} : ipc_key[h] # NoInode}) \ {H(t)}
  BY <1>u DEF Deletes, delete_ipc_object, delete_ipc_file
<1>f. UNCHANGED <<setVars, start, raised, holding, users, late>>
  BY DEF Deletes
<1>o. OthersKeep(t)
  BY <1>0, <1>h DEF OthersKeep, CallsInStep, Deletes, SvGoto, SvReturn, H, SetOf
<1>m. vstep'[t] = "idle" /\ vname'[t] = NoName
  BY <1>0 DEF SystemVTypeOK, Deletes, SvGoto, SvReturn
<1>1. SystemVTypeOK'
  <2>1. /\ vname' \in [Thread -> Name \cup {NoName}]
         /\ vlimit' \in [Thread -> Limit \cup {0}]
         /\ vvalue' \in [Thread -> Nat]
    BY <1>0, ReturnTyped DEF Deletes, SvGoto, delete_ipc_object, delete_ipc_file, NoHandles
  <2>2. /\ sem_id' \in [Thread \X Name -> SemId \cup {NoId, BadId}]
         /\ ipc_key' \in [Thread \X Name -> Inode \cup {NoInode}]
         /\ manual' \in [Thread \X Name -> BOOLEAN]
    BY <1>0, NoHandlesTyped DEF Deletes, SvGoto, SvReturn, delete_ipc_object, delete_ipc_file
  <2>3. vstep' \in [Thread -> {"idle", "wait", "repost"} \cup CreateStep \cup DeleteStep]
    BY <1>0 DEF SystemVTypeOK, Deletes, SvGoto
  <2>4. keyfile' \in [Name -> Inode \cup {NoInode}]
    BY <1>0, <1>k DEF SystemVTypeOK
  <2>5. unlinked' \in SUBSET (Thread \X Name)
    BY <1>0, <1>k DEF SystemVTypeOK
  <2>6. QED
    BY <1>0, <2>1, <2>2, <2>3, <2>4, <2>5 DEF SystemVTypeOK, Deletes, setVars
<1>2. CallsInStep'
  BY <1>0, <1>o, <1>m DEF OthersKeep, CallsInStep, CreateStep
<1>3. HandlesHaveKeys'
  BY <1>0, <1>h, <1>f, SystemVAssumption DEF HandlesHaveKeys, setVars, SystemVTypeOK
<1>4. KeysOfFiles'
  <2>1. keyfile'[vname[t]] = NoInode /\ \A m \in Name \ {vname[t]} : keyfile'[m] = keyfile[m]
    BY <1>0, <1>k DEF SystemVTypeOK
  <2>2. ASSUME NEW h \in (Thread \X Name) \ unlinked', ipc_key'[h] # NoInode PROVE keyfile'[h[2]] = ipc_key'[h]
    <3>1. h # H(t) /\ ipc_key'[h] = ipc_key[h] /\ ipc_key[h] # NoInode
      BY <1>h, <2>2
    <3>2. h \notin unlinked /\ h \notin Thread \X {vname[t]}
      BY <1>k, <2>2, <3>1
    <3>3. h[2] \in Name \ {vname[t]}
      BY <2>2, <3>2
    <3>4. keyfile[h[2]] = ipc_key[h]
      BY <1>0, <3>1, <3>2 DEF KeysOfFiles
    <3>5. QED
      BY <2>1, <3>1, <3>3, <3>4
  <2>3. ASSUME NEW n \in Name, NEW m \in Name, keyfile'[n] # NoInode, keyfile'[m] = keyfile'[n] PROVE m = n
    BY <1>0, <2>1, <2>3 DEF KeysOfFiles
  <2>4. QED
    BY <2>2, <2>3 DEF KeysOfFiles
<1>5. OneSetPerKey'
  BY <1>0 DEF OneSetPerKey, Deletes, setVars
<1>6. SetvalOnce'
  <2>1. UNCHANGED <<sets, start>>
    BY DEF Deletes, setVars
  <2>2. QED
    BY <1>0, <1>o, <1>m, <2>1 DEF OthersKeep, SetvalOnce
<1>7. TokensSurviveDeaths'
  BY <1>0 DEF TokensSurviveDeaths, Paired, Deletes, setVars
<1>8. UndoExact'
  BY <1>0 DEF UndoExact, Paired, Deletes, SvGoto, SvReturn, delete_ipc_object, delete_ipc_file, NoHandles,
     setVars, svHandles, svCall, svHistory
<1>9. WaitersHoldNothing'
  <2>1. UNCHANGED <<holding>>
    BY DEF Deletes
  <2>2. QED
    BY <1>0, <1>f, <1>o, <1>m DEF OthersKeep, WaitersHoldNothing
<1>10. MutexesAreSingle'
  BY <1>0 DEF MutexesAreSingle, Deletes, setVars
<1>11. HoldersAreLate'
  <2>1. UNCHANGED <<sets, users, holding, late>>
    BY DEF Deletes, setVars
  <2>2. QED
    BY <1>0, <1>o, <1>m, <2>1 DEF OthersKeep, HoldersAreLate
<1>12. NotRemovedUnderHolder'
  BY <1>0 DEF NotRemovedUnderHolder, Deletes, setVars
<1>13. QED
  BY <1>1, <1>2, <1>3, <1>4, <1>5, <1>6, <1>7, <1>8, <1>9, <1>10, <1>11, <1>12 DEF SystemVInv

LEMMA WaitEnterKeepsInv ==
  ASSUME SystemVInv, NEW t \in Thread, NEW n \in Name, NEW l \in Limit, WaitEnterSv(t, n, l)
  PROVE  SystemVInv'
<1>0. /\ SystemVTypeOK /\ CallsInStep /\ HandlesHaveKeys /\ KeysOfFiles /\ OneSetPerKey /\ SetvalOnce
         /\ TokensSurviveDeaths
      /\ UndoExact /\ WaitersHoldNothing /\ MutexesAreSingle /\ HoldersAreLate /\ NotRemovedUnderHolder
  BY DEF SystemVInv
<1>o. OthersKeep(t)
  BY DEF OthersKeep, WaitEnterSv, H, SetOf, svHandles
<1>m. vstep[t] = "idle" /\ vstep'[t] = "wait" /\ vname'[t] = n /\ SetOf(t)' \in SemId
      /\ t \notin holding[SetOf(t)']
  BY <1>0 DEF SystemVTypeOK, WaitEnterSv, Idle, H, SetOf, svHandles
<1>1. SystemVTypeOK'
  <2>1. vstep' \in [Thread -> {"idle", "wait", "repost"} \cup CreateStep \cup DeleteStep]
    BY <1>0 DEF SystemVTypeOK, WaitEnterSv
  <2>2. vname' \in [Thread -> Name \cup {NoName}]
    BY <1>0, <1>o, <1>m DEF SystemVTypeOK, WaitEnterSv, Idle
  <2>3. vlimit' \in [Thread -> Limit \cup {0}]
    BY <1>0, <1>o, <1>m DEF SystemVTypeOK, WaitEnterSv, Idle
  <2>4. QED
    BY <1>0 DEF SystemVTypeOK, WaitEnterSv, setVars, svHandles, svHistory
<1>2. CallsInStep'
  BY <1>0, <1>o, <1>m DEF OthersKeep, CallsInStep, CreateStep
<1>3. HandlesHaveKeys'
  BY <1>0 DEF HandlesHaveKeys, WaitEnterSv, setVars, svHandles, svHistory
<1>4. KeysOfFiles'
  BY <1>0 DEF KeysOfFiles, WaitEnterSv, svHandles, svHistory
<1>5. OneSetPerKey'
  BY <1>0 DEF OneSetPerKey, WaitEnterSv, setVars
<1>6. SetvalOnce'
  <2>1. UNCHANGED <<sets, start>>
    BY DEF WaitEnterSv, Idle, setVars, svHandles, svCall, svHistory
  <2>2. QED
    BY <1>0, <1>o, <1>m, <2>1 DEF OthersKeep, SetvalOnce
<1>7. TokensSurviveDeaths'
  BY <1>0 DEF TokensSurviveDeaths, Paired, WaitEnterSv, setVars, svHistory
<1>8. UndoExact'
  BY <1>0 DEF UndoExact, Paired, WaitEnterSv, Idle, setVars, svHandles, svCall, svHistory
<1>9. WaitersHoldNothing'
  <2>1. UNCHANGED <<holding>>
    BY DEF WaitEnterSv, Idle, setVars, svHandles, svCall, svHistory
  <2>2. QED
    BY <1>0, <1>o, <1>m, <2>1 DEF OthersKeep, WaitersHoldNothing
<1>10. MutexesAreSingle'
  BY <1>0 DEF MutexesAreSingle, WaitEnterSv, setVars, svHistory
<1>11. HoldersAreLate'
  <2>1. UNCHANGED <<sets, users, holding, late>>
    BY DEF WaitEnterSv, Idle, setVars, svHandles, svCall, svHistory
  <2>2. QED
    BY <1>0, <1>o, <1>m, <2>1 DEF OthersKeep, HoldersAreLate
<1>12. NotRemovedUnderHolder'
  BY <1>0 DEF NotRemovedUnderHolder, WaitEnterSv, setVars, svHistory
<1>13. QED
  BY <1>1, <1>2, <1>3, <1>4, <1>5, <1>6, <1>7, <1>8, <1>9, <1>10, <1>11, <1>12 DEF SystemVInv

LEMMA DeleteEnterKeepsInv ==
  ASSUME SystemVInv, NEW t \in Thread, NEW n \in Name, DeleteEnter(t, n)
  PROVE  SystemVInv'
<1>0. /\ SystemVTypeOK /\ CallsInStep /\ HandlesHaveKeys /\ KeysOfFiles /\ OneSetPerKey /\ SetvalOnce
         /\ TokensSurviveDeaths
      /\ UndoExact /\ WaitersHoldNothing /\ MutexesAreSingle /\ HoldersAreLate /\ NotRemovedUnderHolder
  BY DEF SystemVInv
<1>o. OthersKeep(t)
  BY DEF OthersKeep, DeleteEnter, H, SetOf, svHandles
<1>m. vstep[t] = "idle" /\ vstep'[t] = "getval" /\ vname'[t] = n
  BY <1>0 DEF SystemVTypeOK, DeleteEnter
<1>1. SystemVTypeOK'
  <2>1. vstep' \in [Thread -> {"idle", "wait", "repost"} \cup CreateStep \cup DeleteStep]
    BY <1>0, <1>o, <1>m DEF SystemVTypeOK, DeleteEnter, CreateStep, DeleteStep
  <2>2. vname' \in [Thread -> Name \cup {NoName}]
    BY <1>0, <1>o, <1>m DEF SystemVTypeOK, DeleteEnter
  <2>3. QED
    BY <1>0, <2>1 DEF SystemVTypeOK, DeleteEnter, setVars, svHandles, svHistory
<1>2. CallsInStep'
  BY <1>0, <1>o, <1>m DEF OthersKeep, CallsInStep, CreateStep
<1>3. HandlesHaveKeys'
  BY <1>0 DEF HandlesHaveKeys, DeleteEnter, setVars, svHandles, svCall, svHistory
<1>4. KeysOfFiles'
  BY <1>0 DEF KeysOfFiles, DeleteEnter, setVars, svHandles, svCall, svHistory
<1>5. OneSetPerKey'
  BY <1>0 DEF OneSetPerKey, DeleteEnter, setVars, svHandles, svCall, svHistory
<1>6. SetvalOnce'
  <2>1. UNCHANGED <<sets, start>>
    BY DEF DeleteEnter, setVars, svHandles, svCall, svHistory
  <2>2. QED
    BY <1>0, <1>o, <1>m, <2>1 DEF OthersKeep, SetvalOnce
<1>7. TokensSurviveDeaths'
  BY <1>0 DEF TokensSurviveDeaths, Paired, DeleteEnter, setVars, svHistory
<1>8. UndoExact'
  BY <1>0 DEF UndoExact, Paired, DeleteEnter, setVars, svHandles, svCall, svHistory
<1>9. WaitersHoldNothing'
  <2>1. UNCHANGED <<holding>>
    BY DEF DeleteEnter, setVars, svHandles, svCall, svHistory
  <2>2. QED
    BY <1>0, <1>o, <1>m, <2>1 DEF OthersKeep, WaitersHoldNothing
<1>10. MutexesAreSingle'
  BY <1>0 DEF MutexesAreSingle, DeleteEnter, setVars, svHandles, svCall, svHistory
<1>11. HoldersAreLate'
  <2>1. UNCHANGED <<sets, users, holding, late>>
    BY DEF DeleteEnter, setVars, svHandles, svCall, svHistory
  <2>2. QED
    BY <1>0, <1>o, <1>m, <2>1 DEF OthersKeep, HoldersAreLate
<1>12. NotRemovedUnderHolder'
  BY <1>0 DEF NotRemovedUnderHolder, DeleteEnter, setVars, svHandles, svCall, svHistory
<1>13. QED
  BY <1>1, <1>2, <1>3, <1>4, <1>5, <1>6, <1>7, <1>8, <1>9, <1>10, <1>11, <1>12 DEF SystemVInv

LEMMA FoundFreeKeepsInv ==
  ASSUME SystemVInv, NEW t \in Thread, NEW i, FoundFree(t, i)
  PROVE  SystemVInv'
<1>0. /\ SystemVTypeOK /\ CallsInStep /\ HandlesHaveKeys /\ KeysOfFiles /\ OneSetPerKey /\ SetvalOnce
         /\ TokensSurviveDeaths
      /\ UndoExact /\ WaitersHoldNothing /\ MutexesAreSingle /\ HoldersAreLate /\ NotRemovedUnderHolder
  BY DEF SystemVInv
<1>u. vstep[t] # "idle" /\ vname[t] \in Name /\ H(t) \in Thread \X Name
  BY <1>0 DEF FoundFree, SvGoto, CallsInStep, H
<1>i. i \in sets /\ i \in SemId /\ SetOf(t) = i /\ semval[i] = 1
  BY <1>0 DEF FoundFree, SystemVTypeOK
<1>e. users[i] \subseteq MutexName => holding[i] = {}
  <2>1. SUFFICES ASSUME users[i] \subseteq MutexName PROVE holding[i] = {}
    OBVIOUS
  <2>2. start[i] <= 1 /\ i \in sets \cap Paired
    BY <1>0, <1>i, <2>1, LibraryAssumption DEF MutexesAreSingle, Paired
  <2>3. semval[i] + Cardinality(holding[i]) = start[i] /\ start[i] \in Nat
    BY <1>0, <1>i, <2>2 DEF TokensSurviveDeaths, SystemVTypeOK
  <2>4. QED
    BY <1>0, <1>i, <2>2, <2>3, HoldersCounted
<1>f. UNCHANGED <<sets, users, holding, late>>
  BY DEF FoundFree, setVars, svHistory
<1>o. OthersKeep(t)
  BY DEF OthersKeep, FoundFree, SvGoto, H, SetOf, svHandles, svCall
<1>m. vstep[t] = "getval" /\ vstep'[t] = "getncnt" /\ vname'[t] = vname[t] /\ vvalue'[t] = vvalue[t]
      /\ H(t)' = H(t) /\ SetOf(t)' = SetOf(t) /\ ipc_key'[H(t)] = ipc_key[H(t)]
  BY <1>0 DEF SystemVTypeOK, FoundFree, SvGoto, H, SetOf, svHandles, svCall
<1>1. SystemVTypeOK'
  <2>1. vstep' \in [Thread -> {"idle", "wait", "repost"} \cup CreateStep \cup DeleteStep]
    BY <1>0 DEF SystemVTypeOK, FoundFree, SvGoto, DeleteStep
  <2>2. QED
    BY <1>0, <2>1 DEF SystemVTypeOK, FoundFree, setVars, svHandles, svCall, svHistory
<1>2. CallsInStep'
  BY <1>0, <1>o, <1>m DEF OthersKeep, CallsInStep, CreateStep
<1>3. HandlesHaveKeys'
  BY <1>0 DEF HandlesHaveKeys, FoundFree, setVars, svHandles, svHistory
<1>4. KeysOfFiles'
  BY <1>0 DEF KeysOfFiles, FoundFree, svHandles, svHistory
<1>5. OneSetPerKey'
  BY <1>0 DEF OneSetPerKey, FoundFree, setVars
<1>6. SetvalOnce'
  <2>1. UNCHANGED <<sets, start>>
    BY DEF FoundFree, SvGoto, setVars, svHandles, svCall, svHistory
  <2>2. QED
    BY <1>0, <1>o, <1>m, <2>1 DEF OthersKeep, SetvalOnce
<1>7. TokensSurviveDeaths'
  BY <1>0 DEF TokensSurviveDeaths, Paired, FoundFree, setVars, svHistory
<1>8. UndoExact'
  BY <1>0 DEF UndoExact, Paired, FoundFree, SvGoto, setVars, svHandles, svCall, svHistory
<1>9. WaitersHoldNothing'
  <2>1. UNCHANGED <<holding>>
    BY DEF FoundFree, SvGoto, setVars, svHandles, svCall, svHistory
  <2>2. QED
    BY <1>0, <1>f, <1>o, <1>m DEF OthersKeep, WaitersHoldNothing
<1>10. MutexesAreSingle'
  BY <1>0 DEF MutexesAreSingle, FoundFree, setVars, svHistory
<1>11. HoldersAreLate'
  <2>1. SUFFICES ASSUME NEW u \in Thread, NEW j \in sets', vstep'[u] \in {"getncnt", "rmid"}, SetOf(u)' = j,
                        users'[j] \subseteq MutexName, NEW w \in holding'[j]
                 PROVE  <<j, w>> \in late'
    BY DEF HoldersAreLate
  <2>2. CASE u = t
    BY <1>i, <1>e, <1>f, <1>m, <2>1, <2>2
  <2>3. CASE u # t
    <3>1. vstep[u] = vstep'[u] /\ SetOf(u)' = SetOf(u)
      BY <1>o, <2>1, <2>3 DEF OthersKeep
    <3>2. QED
      BY <1>0, <1>f, <2>1, <3>1 DEF HoldersAreLate
  <2>4. QED
    BY <2>2, <2>3
<1>12. NotRemovedUnderHolder'
  BY <1>0 DEF NotRemovedUnderHolder, FoundFree, setVars, svHistory
<1>13. QED
  BY <1>1, <1>2, <1>3, <1>4, <1>5, <1>6, <1>7, <1>8, <1>9, <1>10, <1>11, <1>12 DEF SystemVInv

LEMMA RemovedKeepsInv ==
  ASSUME SystemVInv, NEW t \in Thread, NEW i, Removed(t, i)
  PROVE  SystemVInv'
<1>0. /\ SystemVTypeOK /\ CallsInStep /\ HandlesHaveKeys /\ KeysOfFiles /\ OneSetPerKey /\ SetvalOnce
         /\ TokensSurviveDeaths
      /\ UndoExact /\ WaitersHoldNothing /\ MutexesAreSingle /\ HoldersAreLate /\ NotRemovedUnderHolder
  BY DEF SystemVInv
<1>u. vstep[t] # "idle" /\ vname[t] \in Name /\ H(t) \in Thread \X Name
  BY <1>0 DEF Removed, SvGoto, CallsInStep, H
<1>i. i \in sets /\ i \in SemId /\ SetOf(t) = i /\ vstep[t] = "rmid" /\ sets' = sets \ {i}
  BY <1>0 DEF Removed, SvGoto, SystemVTypeOK
<1>s. /\ \A j \in SemId \ {i} : semval'[j] = semval[j]
      /\ \A j \in SemId \ {i}, u \in Thread : semadj'[<<j, u>>] = semadj[<<j, u>>]
  BY <1>0 DEF Removed, SystemVTypeOK
<1>f. UNCHANGED <<keyfile, sem_key, svHandles, svCall, svHistory>>
  BY DEF Removed
<1>o. OthersKeep(t)
  BY DEF OthersKeep, Removed, SvGoto, H, SetOf, svHandles, svCall
<1>m. vstep[t] = "rmid" /\ vstep'[t] = "unlink" /\ vname'[t] = vname[t] /\ vvalue'[t] = vvalue[t]
      /\ H(t)' = H(t) /\ SetOf(t)' = SetOf(t) /\ ipc_key'[H(t)] = ipc_key[H(t)]
  BY <1>0 DEF SystemVTypeOK, Removed, SvGoto, H, SetOf, svHandles, svCall
<1>1. SystemVTypeOK'
  <2>1. vstep' \in [Thread -> {"idle", "wait", "repost"} \cup CreateStep \cup DeleteStep]
    BY <1>0 DEF SystemVTypeOK, Removed, SvGoto, DeleteStep
  <2>2. sets' \in SUBSET SemId
    BY <1>0, <1>i DEF SystemVTypeOK
  <2>3. semval' \in [SemId -> Nat]
    BY <1>0 DEF SystemVTypeOK, Removed
  <2>4. semadj' \in [SemId \X Thread -> Int]
    BY <1>0, ClearedTyped DEF Removed, SvGoto
  <2>5. QED
    BY <1>0, <2>1 DEF SystemVTypeOK, Removed, svHandles, svCall, svHistory
<1>2. CallsInStep'
  BY <1>0, <1>o, <1>m DEF OthersKeep, CallsInStep, CreateStep
<1>3. HandlesHaveKeys'
  BY <1>0, <1>i, <1>f DEF HandlesHaveKeys, svHandles, svHistory
<1>4. KeysOfFiles'
  BY <1>0 DEF KeysOfFiles, Removed, svHandles, svHistory
<1>5. OneSetPerKey'
  BY <1>0, <1>i, <1>f DEF OneSetPerKey
<1>6. SetvalOnce'
  <2>1. ASSUME NEW u \in Thread, vstep'[u] = "setval" PROVE u # t /\ vstep[u] = "setval" /\ SetOf(u)' = SetOf(u)
    BY <1>o, <1>m, <2>1 DEF OthersKeep
  <2>2. QED
    BY <1>0, <1>i, <1>f, <2>1 DEF SetvalOnce, svHistory
<1>7. TokensSurviveDeaths'
  <2>1. SUFFICES ASSUME NEW j \in sets', j \in Paired'
                 PROVE  semval'[j] + Cardinality(holding'[j]) = start'[j]
    BY DEF TokensSurviveDeaths
  <2>2. j \in sets \cap Paired /\ j \in SemId \ {i}
    BY <1>0, <1>i, <1>f, <2>1 DEF Paired, SystemVTypeOK, svHistory
  <2>3. QED
    BY <1>0, <1>s, <1>f, <2>2 DEF TokensSurviveDeaths, svHistory
<1>8. UndoExact'
  <2>1. SUFFICES ASSUME NEW j \in sets', j \in Paired', NEW u \in Thread
                 PROVE  /\ u \in holding'[j] => semadj'[<<j, u>>] = 1
                        /\ u \notin holding'[j] => semadj'[<<j, u>>] = 0
    BY DEF UndoExact
  <2>2. j \in sets \cap Paired /\ j \in SemId \ {i}
    BY <1>0, <1>i, <1>f, <2>1 DEF Paired, SystemVTypeOK, svHistory
  <2>3. QED
    BY <1>0, <1>s, <1>f, <2>2 DEF UndoExact, svHistory
<1>9. WaitersHoldNothing'
  <2>1. UNCHANGED <<holding>>
    BY DEF Removed, SvGoto, setVars, svHandles, svCall, svHistory
  <2>2. QED
    BY <1>0, <1>o, <1>m, <2>1 DEF OthersKeep, WaitersHoldNothing
<1>10. MutexesAreSingle'
  BY <1>0, <1>i, <1>f DEF MutexesAreSingle, svHistory
<1>11. HoldersAreLate'
  <2>1. SUFFICES ASSUME NEW u \in Thread, NEW j \in sets', vstep'[u] \in {"getncnt", "rmid"}, SetOf(u)' = j,
                        users'[j] \subseteq MutexName, NEW w \in holding'[j]
                 PROVE  <<j, w>> \in late'
    BY DEF HoldersAreLate
  <2>2. u # t /\ vstep[u] = vstep'[u] /\ SetOf(u)' = SetOf(u)
    BY <1>o, <1>m, <2>1 DEF OthersKeep
  <2>3. QED
    BY <1>0, <1>i, <1>f, <2>1, <2>2 DEF HoldersAreLate, svHistory
<1>12. NotRemovedUnderHolder'
  <2>1. SUFFICES ASSUME NEW j \in SemId \ sets', users'[j] \subseteq MutexName, NEW w \in holding'[j]
                 PROVE  <<j, w>> \in late'
    BY DEF NotRemovedUnderHolder
  <2>2. CASE j = i
    BY <1>0, <1>i, <1>f, <2>1, <2>2 DEF HoldersAreLate, svHistory
  <2>3. CASE j # i
    BY <1>0, <1>i, <1>f, <2>1, <2>3 DEF NotRemovedUnderHolder, svHistory
  <2>4. QED
    BY <2>2, <2>3
<1>13. QED
  BY <1>1, <1>2, <1>3, <1>4, <1>5, <1>6, <1>7, <1>8, <1>9, <1>10, <1>11, <1>12 DEF SystemVInv

LEMMA RemovedBeforeKeepsInv ==
  ASSUME SystemVInv, NEW t \in Thread, NEW i, RemovedBefore(t, i)
  PROVE  SystemVInv'
<1>0. /\ SystemVTypeOK /\ CallsInStep /\ HandlesHaveKeys /\ KeysOfFiles /\ OneSetPerKey /\ SetvalOnce
         /\ TokensSurviveDeaths
      /\ UndoExact /\ WaitersHoldNothing /\ MutexesAreSingle /\ HoldersAreLate /\ NotRemovedUnderHolder
  BY DEF SystemVInv
<1>u. vstep[t] # "idle" /\ vname[t] \in Name /\ H(t) \in Thread \X Name
  BY <1>0 DEF RemovedBefore, SvGoto, SvReturn, CallsInStep, H
<1>i. i \notin sets
  BY DEF RemovedBefore
<1>s. /\ \A j \in SemId \ {i} : semval'[j] = semval[j]
      /\ \A j \in SemId \ {i}, u \in Thread : semadj'[<<j, u>>] = semadj[<<j, u>>]
  BY <1>0 DEF RemovedBefore, SystemVTypeOK
<1>f. UNCHANGED <<keyfile, sets, sem_key, svHandles, svHistory>>
  BY DEF RemovedBefore
<1>o. OthersKeep(t)
  BY DEF OthersKeep, RemovedBefore, SvGoto, SvReturn, H, SetOf, svHandles
<1>m. vstep'[t] = "idle" /\ vname'[t] = NoName
  BY <1>0 DEF SystemVTypeOK, RemovedBefore, SvGoto, SvReturn
<1>1. SystemVTypeOK'
  <2>1. /\ vname' \in [Thread -> Name \cup {NoName}]
         /\ vlimit' \in [Thread -> Limit \cup {0}]
         /\ vvalue' \in [Thread -> Nat]
    BY <1>0, ReturnTyped DEF RemovedBefore, SvGoto
  <2>2. vstep' \in [Thread -> {"idle", "wait", "repost"} \cup CreateStep \cup DeleteStep]
    BY <1>0 DEF SystemVTypeOK, RemovedBefore, SvGoto
  <2>3. semval' \in [SemId -> Nat]
    BY <1>0, <1>u, <1>i, <1>s, <1>f, <1>o, <1>m DEF SystemVTypeOK, RemovedBefore, SvGoto, SvReturn
  <2>4. semadj' \in [SemId \X Thread -> Int]
    BY <1>0, ClearedTyped DEF RemovedBefore, SvGoto, SvReturn
  <2>5. QED
    BY <1>0, <2>1, <2>2, <2>3 DEF SystemVTypeOK, RemovedBefore, svHandles, svHistory
<1>2. CallsInStep'
  BY <1>0, <1>o, <1>m DEF OthersKeep, CallsInStep, CreateStep
<1>3. HandlesHaveKeys'
  BY <1>0 DEF HandlesHaveKeys, RemovedBefore, svHandles, svHistory
<1>4. KeysOfFiles'
  BY <1>0 DEF KeysOfFiles, RemovedBefore, svHandles, svHistory
<1>5. OneSetPerKey'
  BY <1>0 DEF OneSetPerKey, RemovedBefore
<1>6. SetvalOnce'
  <2>1. UNCHANGED <<sets, start>>
    BY DEF RemovedBefore, SvGoto, SvReturn, setVars, svHandles, svCall, svHistory
  <2>2. QED
    BY <1>0, <1>o, <1>m, <2>1 DEF OthersKeep, SetvalOnce
<1>7. TokensSurviveDeaths'
  <2>1. SUFFICES ASSUME NEW j \in sets', j \in Paired'
                 PROVE  semval'[j] + Cardinality(holding'[j]) = start'[j]
    BY DEF TokensSurviveDeaths
  <2>2. j \in sets \cap Paired /\ j \in SemId \ {i}
    BY <1>0, <1>i, <1>f, <2>1 DEF Paired, SystemVTypeOK, svHistory
  <2>3. QED
    BY <1>0, <1>s, <1>f, <2>2 DEF TokensSurviveDeaths, svHistory
<1>8. UndoExact'
  <2>1. SUFFICES ASSUME NEW j \in sets', j \in Paired', NEW u \in Thread
                 PROVE  /\ u \in holding'[j] => semadj'[<<j, u>>] = 1
                        /\ u \notin holding'[j] => semadj'[<<j, u>>] = 0
    BY DEF UndoExact
  <2>2. j \in sets \cap Paired /\ j \in SemId \ {i}
    BY <1>0, <1>i, <1>f, <2>1 DEF Paired, SystemVTypeOK, svHistory
  <2>3. QED
    BY <1>0, <1>s, <1>f, <2>2 DEF UndoExact, svHistory
<1>9. WaitersHoldNothing'
  <2>1. UNCHANGED <<holding>>
    BY DEF RemovedBefore, SvGoto, SvReturn, setVars, svHandles, svCall, svHistory
  <2>2. QED
    BY <1>0, <1>o, <1>m, <2>1 DEF OthersKeep, WaitersHoldNothing
<1>10. MutexesAreSingle'
  BY <1>0 DEF MutexesAreSingle, RemovedBefore, svHistory
<1>11. HoldersAreLate'
  <2>1. UNCHANGED <<sets, users, holding, late>>
    BY DEF RemovedBefore, SvGoto, SvReturn, setVars, svHandles, svCall, svHistory
  <2>2. QED
    BY <1>0, <1>o, <1>m, <2>1 DEF OthersKeep, HoldersAreLate
<1>12. NotRemovedUnderHolder'
  BY <1>0 DEF NotRemovedUnderHolder, RemovedBefore, svHistory
<1>13. QED
  BY <1>1, <1>2, <1>3, <1>4, <1>5, <1>6, <1>7, <1>8, <1>9, <1>10, <1>11, <1>12 DEF SystemVInv

LEMMA DieKeepsInv ==
  ASSUME SystemVInv, NEW t \in Thread, Die(t)
  PROVE  SystemVInv'
<1>0. /\ SystemVTypeOK /\ CallsInStep /\ HandlesHaveKeys /\ KeysOfFiles /\ OneSetPerKey /\ SetvalOnce
         /\ TokensSurviveDeaths
      /\ UndoExact /\ WaitersHoldNothing /\ MutexesAreSingle /\ HoldersAreLate /\ NotRemovedUnderHolder
  BY DEF SystemVInv
<1>h. \A h \in Thread \X Name :
        /\ h[1] # t => sem_id'[h] = sem_id[h] /\ ipc_key'[h] = ipc_key[h]
        /\ h[1] = t => sem_id'[h] = NoId /\ ipc_key'[h] = NoInode
  <2>1. \A h \in Thread \X Name : h \in {t} \X Name <=> h[1] = t
    OBVIOUS
  <2>2. QED
    BY <2>1 DEF Die, NoHandles
<1>s. \A j \in sets : semval'[j] = IF semval[j] + semadj[<<j, t>>] < 0 THEN 0 ELSE semval[j] + semadj[<<j, t>>]
  BY <1>0 DEF Die, SystemVTypeOK
<1>p. \A j \in SemId, u \in Thread : semadj'[<<j, u>>] = IF u = t THEN 0 ELSE semadj[<<j, u>>]
  BY DEF Die
<1>j. \A j \in SemId : holding'[j] = holding[j] \ {t}
  BY DEF Die
<1>l. /\ \A j \in SemId, u \in Thread : u # t => (<<j, u>> \in late' <=> <<j, u>> \in late)
      /\ \A h \in Thread \X Name : h[1] # t => (h \in unlinked' <=> h \in unlinked)
  BY DEF Die
<1>f. UNCHANGED <<keyfile, sets, sem_key, start, raised, users>>
  BY DEF Die
<1>o. OthersKeep(t)
  BY <1>0, <1>h DEF OthersKeep, CallsInStep, Die, SvReturn, H, SetOf
<1>m. vstep'[t] = "idle" /\ vname'[t] = NoName
  BY <1>0 DEF SystemVTypeOK, Die, SvReturn
<1>1. SystemVTypeOK'
  <2>1. /\ vname' \in [Thread -> Name \cup {NoName}]
         /\ vlimit' \in [Thread -> Limit \cup {0}]
         /\ vvalue' \in [Thread -> Nat]
    BY <1>0, ReturnTyped DEF Die, NoHandles
  <2>2. /\ sem_id' \in [Thread \X Name -> SemId \cup {NoId, BadId}]
         /\ ipc_key' \in [Thread \X Name -> Inode \cup {NoInode}]
         /\ manual' \in [Thread \X Name -> BOOLEAN]
    BY <1>0, NoHandlesTyped DEF Die, SvReturn
  <2>3. semval' \in [SemId -> Nat]
    BY <1>0 DEF SystemVTypeOK, Die
  <2>4. semadj' \in [SemId \X Thread -> Int]
    BY <1>0 DEF SystemVTypeOK, Die
  <2>5. vstep' \in [Thread -> {"idle", "wait", "repost"} \cup CreateStep \cup DeleteStep]
    BY <1>0 DEF SystemVTypeOK, Die
  <2>6. holding' \in [SemId -> SUBSET Thread]
    BY <1>0 DEF SystemVTypeOK, Die
  <2>7. unlinked' \in SUBSET (Thread \X Name)
    BY <1>0 DEF SystemVTypeOK, Die
  <2>8. late' \in SUBSET (SemId \X Thread)
    BY <1>0 DEF SystemVTypeOK, Die
  <2>9. QED
    BY <1>0, <2>1, <2>2 DEF SystemVTypeOK, Die
<1>2. CallsInStep'
  BY <1>0, <1>o, <1>m DEF OthersKeep, CallsInStep, CreateStep
<1>3. HandlesHaveKeys'
  BY <1>0, <1>h, <1>f, SystemVAssumption DEF HandlesHaveKeys, SystemVTypeOK
<1>4. KeysOfFiles'
  BY <1>0, <1>h, <1>l, <1>f DEF KeysOfFiles
<1>5. OneSetPerKey'
  BY <1>0 DEF OneSetPerKey, Die
<1>6. SetvalOnce'
  <2>1. UNCHANGED <<sets, start>>
    BY DEF Die, SvReturn, NoHandles, setVars, svHandles, svCall, svHistory
  <2>2. QED
    BY <1>0, <1>f, <1>o, <1>m DEF OthersKeep, SetvalOnce
<1>7. TokensSurviveDeaths'
  <2>1. SUFFICES ASSUME NEW j \in sets', j \in Paired'
                 PROVE  semval'[j] + Cardinality(holding'[j]) = start'[j]
    BY DEF TokensSurviveDeaths
  <2>2. j \in sets \cap Paired /\ j \in SemId
    BY <1>0, <1>f, <2>1 DEF Paired, SystemVTypeOK
  <2>3. /\ semval[j] + Cardinality(holding[j]) = start[j] /\ semval[j] \in Nat
           /\ Cardinality(holding[j]) \in Nat
        /\ IsFiniteSet(holding[j])
    BY <1>0, <2>2, HoldersCounted DEF TokensSurviveDeaths, SystemVTypeOK
  <2>4. CASE t \in holding[j]
    <3>1. Cardinality(holding'[j]) = Cardinality(holding[j]) - 1
      BY <1>j, <2>2, <2>3, <2>4, FS_RemoveElement
    <3>a. semadj[<<j, t>>] = 1
      BY <1>0, <2>2, <2>4 DEF UndoExact
    <3>2. semval'[j] = semval[j] + 1
      BY <1>s, <2>2, <2>3, <3>a
    <3>3. QED
      BY <1>f, <2>3, <3>1, <3>2
  <2>5. CASE t \notin holding[j]
    <3>1. holding'[j] = holding[j]
      BY <1>j, <2>2, <2>5
    <3>a. semadj[<<j, t>>] = 0
      BY <1>0, <2>2, <2>5 DEF UndoExact
    <3>2. semval'[j] = semval[j]
      BY <1>s, <2>2, <2>3, <3>a
    <3>3. QED
      BY <1>f, <2>3, <3>1, <3>2
  <2>6. QED
    BY <2>4, <2>5
<1>8. UndoExact'
  <2>1. SUFFICES ASSUME NEW j \in sets', j \in Paired', NEW u \in Thread
                 PROVE  /\ u \in holding'[j] => semadj'[<<j, u>>] = 1
                        /\ u \notin holding'[j] => semadj'[<<j, u>>] = 0
    BY DEF UndoExact
  <2>2. j \in sets \cap Paired /\ j \in SemId
    BY <1>0, <1>f, <2>1 DEF Paired, SystemVTypeOK
  <2>3. QED
    BY <1>0, <1>p, <1>j, <2>2 DEF UndoExact
<1>9. WaitersHoldNothing'
  <2>1. SUFFICES ASSUME NEW u \in Thread, vstep'[u] = "wait", vname'[u] \notin EventName
                 PROVE  u \notin holding'[SetOf(u)']
    BY DEF WaitersHoldNothing
  <2>2. u # t /\ vstep[u] = "wait" /\ vname'[u] = vname[u] /\ SetOf(u)' = SetOf(u)
    BY <1>o, <1>m, <2>1 DEF OthersKeep
  <2>3. SetOf(u) \in SemId /\ u \notin holding[SetOf(u)]
    BY <1>0, <2>1, <2>2 DEF CallsInStep, WaitersHoldNothing
  <2>4. QED
    BY <1>j, <2>2, <2>3
<1>10. MutexesAreSingle'
  BY <1>0 DEF MutexesAreSingle, Die
<1>11. HoldersAreLate'
  <2>1. SUFFICES ASSUME NEW u \in Thread, NEW j \in sets', vstep'[u] \in {"getncnt", "rmid"}, SetOf(u)' = j,
                        users'[j] \subseteq MutexName, NEW w \in holding'[j]
                 PROVE  <<j, w>> \in late'
    BY DEF HoldersAreLate
  <2>2. u # t /\ vstep[u] = vstep'[u] /\ SetOf(u) = j
    BY <1>o, <1>m, <2>1 DEF OthersKeep
  <2>3. j \in sets /\ j \in SemId /\ users[j] \subseteq MutexName /\ w \in holding[j] /\ w \in Thread /\ w # t
    BY <1>0, <1>j, <1>f, <2>1 DEF SystemVTypeOK
  <2>4. QED
    BY <1>0, <1>l, <2>1, <2>2, <2>3 DEF HoldersAreLate
<1>12. NotRemovedUnderHolder'
  <2>1. SUFFICES ASSUME NEW j \in SemId \ sets', users'[j] \subseteq MutexName, NEW w \in holding'[j]
                 PROVE  <<j, w>> \in late'
    BY DEF NotRemovedUnderHolder
  <2>2. j \in SemId \ sets /\ w \in holding[j] /\ w \in Thread /\ w # t /\ users[j] \subseteq MutexName
    BY <1>0, <1>j, <1>f, <2>1 DEF SystemVTypeOK
  <2>3. QED
    BY <1>0, <1>l, <2>2 DEF NotRemovedUnderHolder
<1>13. QED
  BY <1>1, <1>2, <1>3, <1>4, <1>5, <1>6, <1>7, <1>8, <1>9, <1>10, <1>11, <1>12 DEF SystemVInv

LEMMA CreateFileKeepsInv ==
  ASSUME SystemVInv, NEW t \in Thread, NEW n \in Name, NEW v \in Nat, NEW b \in BOOLEAN,
         n \in MutexName => v = 1, create_ipc_file(t, n, v, b)
  PROVE  SystemVInv'
<1>0. /\ SystemVTypeOK /\ CallsInStep /\ HandlesHaveKeys /\ KeysOfFiles /\ OneSetPerKey /\ SetvalOnce
         /\ TokensSurviveDeaths
      /\ UndoExact /\ WaitersHoldNothing /\ MutexesAreSingle /\ HoldersAreLate /\ NotRemovedUnderHolder
  BY DEF SystemVInv
<1>k. /\ \A m \in Name \ {n} : keyfile'[m] = keyfile[m]
      /\ keyfile'[n] = keyfile[n] \/ (keyfile[n] = NoInode /\ \A m \in Name : keyfile[m] # keyfile'[n])
  BY <1>0 DEF create_ipc_file, SystemVTypeOK
<1>f. UNCHANGED <<setVars, sem_id, ipc_key, svHistory>>
  BY DEF create_ipc_file
<1>o. OthersKeep(t)
  BY DEF OthersKeep, create_ipc_file, SvGoto, H, SetOf
<1>m. vstep[t] = "idle" /\ vstep'[t] = "ftok" /\ vname'[t] = n /\ vvalue'[t] = v /\ SetOf(t)' = NoId
      /\ (n \in MutexName => v = 1)
  BY <1>0 DEF SystemVTypeOK, create_ipc_file, SvGoto, H, SetOf
<1>1. SystemVTypeOK'
  <2>1. vstep' \in [Thread -> {"idle", "wait", "repost"} \cup CreateStep \cup DeleteStep]
    BY <1>0 DEF SystemVTypeOK, create_ipc_file, SvGoto, CreateStep
  <2>2. keyfile' \in [Name -> Inode \cup {NoInode}]
    BY <1>0 DEF SystemVTypeOK, create_ipc_file, SvGoto
  <2>3. manual' \in [Thread \X Name -> BOOLEAN]
    BY <1>0 DEF SystemVTypeOK, create_ipc_file
  <2>4. vname' \in [Thread -> Name \cup {NoName}]
    BY <1>0 DEF SystemVTypeOK, create_ipc_file
  <2>5. vvalue' \in [Thread -> Nat]
    BY <1>0 DEF SystemVTypeOK, create_ipc_file
  <2>6. QED
    BY <1>0, <2>1 DEF SystemVTypeOK, create_ipc_file, setVars, svHistory
<1>2. CallsInStep'
  BY <1>0, <1>o, <1>m DEF OthersKeep, CallsInStep, CreateStep
<1>3. HandlesHaveKeys'
  BY <1>0 DEF HandlesHaveKeys, create_ipc_file, setVars, svHistory
<1>4. KeysOfFiles'
  <2>1. CASE keyfile'[n] = keyfile[n]
    BY <1>0, <1>k, <1>f, <2>1 DEF KeysOfFiles, svHistory
  <2>2. CASE keyfile[n] = NoInode /\ \A m \in Name : keyfile[m] # keyfile'[n]
    <3>1. \A h \in (Thread \X Name) \ unlinked : ipc_key[h] # NoInode => h[2] \in Name \ {n}
          /\ keyfile[h[2]] = ipc_key[h]
      BY <1>0, <2>2 DEF KeysOfFiles
    <3>2. \A h \in (Thread \X Name) \ unlinked' : ipc_key'[h] # NoInode => keyfile'[h[2]] = ipc_key'[h]
      BY <1>k, <1>f, <3>1 DEF svHistory
    <3>3. \A m, x \in Name : (keyfile'[x] # NoInode /\ keyfile'[m] = keyfile'[x]) => m = x
      BY <1>0, <1>k, <2>2 DEF KeysOfFiles
    <3>4. QED
      BY <3>2, <3>3 DEF KeysOfFiles
  <2>3. QED
    BY <1>k, <2>1, <2>2
<1>5. OneSetPerKey'
  BY <1>0 DEF OneSetPerKey, create_ipc_file, setVars
<1>6. SetvalOnce'
  <2>1. UNCHANGED <<sets, start>>
    BY DEF create_ipc_file, SvGoto, setVars, svHandles, svCall, svHistory
  <2>2. QED
    BY <1>0, <1>o, <1>m, <2>1 DEF OthersKeep, SetvalOnce
<1>7. TokensSurviveDeaths'
  BY <1>0 DEF TokensSurviveDeaths, Paired, create_ipc_file, setVars, svHistory
<1>8. UndoExact'
  BY <1>0 DEF UndoExact, Paired, create_ipc_file, SvGoto, setVars, svHandles, svCall, svHistory
<1>9. WaitersHoldNothing'
  <2>1. UNCHANGED <<holding>>
    BY DEF create_ipc_file, SvGoto, setVars, svHandles, svCall, svHistory
  <2>2. QED
    BY <1>0, <1>o, <1>m, <2>1 DEF OthersKeep, WaitersHoldNothing
<1>10. MutexesAreSingle'
  BY <1>0 DEF MutexesAreSingle, create_ipc_file, setVars, svHistory
<1>11. HoldersAreLate'
  <2>1. UNCHANGED <<sets, users, holding, late>>
    BY DEF create_ipc_file, SvGoto, setVars, svHandles, svCall, svHistory
  <2>2. QED
    BY <1>0, <1>o, <1>m, <2>1 DEF OthersKeep, HoldersAreLate
<1>12. NotRemovedUnderHolder'
  BY <1>0 DEF NotRemovedUnderHolder, create_ipc_file, setVars, svHistory
<1>13. QED
  BY <1>1, <1>2, <1>3, <1>4, <1>5, <1>6, <1>7, <1>8, <1>9, <1>10, <1>11, <1>12 DEF SystemVInv

LEMMA StutterKeepsInv ==
  ASSUME SystemVInv, UNCHANGED systemVVars
  PROVE  SystemVInv'
<1>1. UNCHANGED <<setVars, svHandles, svCall, svHistory, keyfile, vstep>>
  BY DEF systemVVars
<1>2. /\ SystemVTypeOK' /\ HandlesHaveKeys' /\ KeysOfFiles' /\ OneSetPerKey' /\ TokensSurviveDeaths'
      /\ UndoExact' /\ MutexesAreSingle' /\ NotRemovedUnderHolder'
  BY <1>1, ZenonT(60) DEF SystemVInv, SystemVTypeOK, HandlesHaveKeys, KeysOfFiles, OneSetPerKey,
     TokensSurviveDeaths, UndoExact,
     MutexesAreSingle, NotRemovedUnderHolder, Paired, setVars, svHandles, svCall, svHistory
<1>3. CallsInStep' /\ SetvalOnce' /\ WaitersHoldNothing' /\ HoldersAreLate'
  BY <1>1 DEF SystemVInv, CallsInStep, SetvalOnce, WaitersHoldNothing, HoldersAreLate, H, SetOf, setVars,
     svHandles, svCall,
     svHistory
<1>4. QED
  BY <1>2, <1>3 DEF SystemVInv

(* Each action of a process is one of these steps. *)
LEMMA GetKeepsInv ==
  ASSUME SystemVInv, NEW t \in Thread, GetExclusive(t)
  PROVE  SystemVInv'
<1>1. CASE WithKey(ipc_key[H(t)]) = {}
  <2>1. PICK i \in SemId \ sets : Made(t, i)
    <3>1. \A j \in sets : sem_key[j] # ipc_key[H(t)]
      BY <1>1 DEF WithKey
    <3>2. QED
      BY <1>1, <3>1 DEF GetExclusive, Made, SvGoto
  <2>2. QED
    BY <2>1, MadeKeepsInv
<1>2. CASE WithKey(ipc_key[H(t)]) # {}
  <2>1. MovesOn(t, "get", "get2")
    BY <1>2 DEF GetExclusive, MovesOn, Unmoved, SvGoto, svHandles, svHistory
  <2>2. QED
    BY <2>1, MoveOnKeepsInv
<1>3. QED
  BY <1>1, <1>2

LEMMA SetInitialKeepsInv ==
  ASSUME SystemVInv, NEW t \in Thread, SetInitial(t)
  PROVE  SystemVInv'
<1>1. vvalue[t] \in Nat
  BY DEF SystemVInv, SystemVTypeOK
<1>2. CASE SetOf(t) \in sets
  <2>1. Valued(t, SetOf(t), IF vname[t] \in EventName THEN 1 ELSE vvalue[t])
    <3>1. CASE vname[t] \in EventName /\ vvalue[t] = 0
      BY <1>1, <1>2, <3>1 DEF SetInitial, Valued
    <3>2. CASE ~(vname[t] \in EventName /\ vvalue[t] = 0)
      BY <1>1, <1>2, <3>2 DEF SetInitial, Valued
    <3>3. QED
      BY <3>1, <3>2
  <2>2. QED
    BY <2>1, ValuedKeepsInv
<1>3. CASE SetOf(t) \notin sets
  <2>1. MovesOn(t, "setval", "abort")
    BY <1>3 DEF SetInitial, MovesOn, Unmoved, setVars, svHistory
  <2>2. QED
    BY <2>1, MoveOnKeepsInv
<1>4. QED
  BY <1>2, <1>3

LEMMA InitialDownKeepsInv ==
  ASSUME SystemVInv, NEW t \in Thread, InitialDown(t)
  PROVE  SystemVInv'
<1>1. CASE SetOf(t) \in sets /\ SvGoto(t, "down", "idle")
  <2>1. SvGoto(t, "down", "idle") /\ SvReturn(t) /\ vstep[t] = "down" /\ semval[SetOf(t)] > 0
        /\ semval' = [semval EXCEPT ![SetOf(t)] = @ - 1] /\ semadj' = [semadj EXCEPT ![<<SetOf(t), t>>] = @ + 1]
        /\ UNCHANGED <<keyfile, sets, sem_key, svHandles, svHistory>>
    <3>1. vstep'[t] = "idle"
      BY <1>1 DEF SvGoto, SystemVInv, SystemVTypeOK
    <3>2. ~SvGoto(t, "down", "abort")
      BY <3>1 DEF SvGoto, SystemVInv, SystemVTypeOK
    <3>3. QED
      BY <1>1, <3>2 DEF InitialDown, SvGoto
  <2>2. semval \in [SemId -> Nat] /\ semadj \in [SemId \X Thread -> Int] /\ SetOf(t) \in SemId
    BY <1>1 DEF SystemVInv, SystemVTypeOK
  <2>3. PICK d \in Int : d = -1
    OBVIOUS
  <2>4. semval[SetOf(t)] + d \in Nat /\ semval[SetOf(t)] + d = semval[SetOf(t)] - 1
    BY <2>1, <2>2, <2>3
  <2>5. <<SetOf(t), t>> \in SemId \X Thread
    BY <2>2
  <2>6. semadj[<<SetOf(t), t>>] - d = semadj[<<SetOf(t), t>>] + 1
    BY <2>2, <2>3, <2>5
  <2>7. Semop(SetOf(t), t, d)
    BY <2>1, <2>4, <2>6 DEF Semop
  <2>8. vname[t] \in EventName
    BY <2>1 DEF SystemVInv, CallsInStep
  <2>9. EventSemop(t, SetOf(t), d)
    BY <1>1, <2>1, <2>3, <2>4, <2>7, <2>8 DEF EventSemop
  <2>10. QED
    BY <2>9, EventSemopKeepsInv
<1>2. CASE SvGoto(t, "down", "abort") /\ UNCHANGED <<semval, semadj, svCall>>
  <2>1. MovesOn(t, "down", "abort")
    BY <1>2 DEF InitialDown, MovesOn, Unmoved, setVars, svCall
  <2>2. QED
    BY <2>1, MoveOnKeepsInv
<1>3. QED
  BY <1>1, <1>2 DEF InitialDown

LEMMA GetExistingKeepsInv ==
  ASSUME SystemVInv, NEW t \in Thread, GetExisting(t)
  PROVE  SystemVInv'
<1>1. \/ SvGoto(t, "get2", "idle") /\ SvReturn(t)
      \/ SvGoto(t, "get2", "stat") /\ UNCHANGED svCall
  <2>0. /\ SvGoto(t, "get2", IF vname[t] \in EventName THEN "idle" ELSE "stat")
        /\ IF vname[t] \in EventName THEN SvReturn(t) ELSE UNCHANGED svCall
    BY DEF GetExisting
  <2>1. CASE vname[t] \in EventName
    BY <2>0, <2>1 DEF SvGoto
  <2>2. CASE vname[t] \notin EventName
    BY <2>0, <2>2, Zenon
  <2>3. QED
    BY <2>1, <2>2
<1>2. BadId \notin sets
  BY SystemVAssumption DEF SystemVInv, SystemVTypeOK
<1>3. \E i : Found(t, i)
  <2>1. CASE WithKey(ipc_key[H(t)]) = {}
    <3>1. Found(t, BadId)
      BY <1>1, <1>2, <2>1 DEF GetExisting, Found
    <3>2. QED
      BY <3>1
  <2>2. CASE WithKey(ipc_key[H(t)]) # {}
    <3>1. PICK i \in WithKey(ipc_key[H(t)]) : /\ sem_id' = [sem_id EXCEPT ![H(t)] = i]
                                              /\ users' = [users EXCEPT ![i] = @ \cup {vname[t]}]
      BY <2>2 DEF GetExisting
    <3>2. Found(t, i)
      BY <1>1, <3>1 DEF GetExisting, Found, WithKey
    <3>3. QED
      BY <3>2
  <2>3. QED
    BY <2>1, <2>2
<1>4. QED
  BY <1>3, FoundKeepsInv

LEMMA SemTakeKeepsInv ==
  ASSUME SystemVInv, NEW t \in Thread, SemTake(t)
  PROVE  SystemVInv'
<1>1. PICK d \in Int : d = -1
  OBVIOUS
<1>2. SetOf(t) \in sets /\ semval[SetOf(t)] \in Nat /\ semval[SetOf(t)] > 0 /\ vstep[t] = "wait"
  BY DEF SemTake, SystemVInv, SystemVTypeOK
<1>3. CASE vname[t] \in EventName
  <2>1. semval[SetOf(t)] + d \in Nat
    BY <1>1, <1>2
  <2>2. EventSemop(t, SetOf(t), d)
    BY <1>1, <1>2, <1>3 DEF SemTake, EventSemop, svHistory
  <2>3. QED
    BY <2>2, EventSemopKeepsInv
<1>4. CASE vname[t] \notin EventName
  <2>1. Captured(t, SetOf(t))
    BY <1>2, <1>4 DEF SemTake, Captured
  <2>2. QED
    BY <2>1, CapturedKeepsInv
<1>5. QED
  BY <1>3, <1>4

LEMMA RepostKeepsInv ==
  ASSUME SystemVInv, NEW t \in Thread, Repost(t)
  PROVE  SystemVInv'
<1>1. CASE SetOf(t) \in sets
  <2>1. PICK d \in Int : d = 1
    OBVIOUS
  <2>2. semval[SetOf(t)] + d \in Nat
    BY <1>1, <2>1 DEF SystemVInv, SystemVTypeOK
  <2>3. vname[t] \in EventName /\ vstep[t] = "repost"
    BY DEF Repost, SvGoto, SystemVInv, CallsInStep
  <2>4. EventSemop(t, SetOf(t), d)
    BY <1>1, <2>1, <2>2, <2>3 DEF Repost, EventSemop
  <2>5. QED
    BY <2>4, EventSemopKeepsInv
<1>2. CASE SetOf(t) \notin sets
  <2>1. Returns(t)
    BY <1>2 DEF Repost, Returns, SvGoto, Unmoved, setVars
  <2>2. QED
    BY <2>1, ReturnKeepsInv
<1>3. QED
  BY <1>1, <1>2

LEMMA RmIdKeepsInv ==
  ASSUME SystemVInv, NEW t \in Thread, RmId(t)
  PROVE  SystemVInv'
<1>1. CASE SetOf(t) \in sets
  <2>1. Removed(t, SetOf(t))
    BY <1>1 DEF RmId, Removed
  <2>2. QED
    BY <2>1, RemovedKeepsInv
<1>2. CASE SetOf(t) \notin sets
  <2>1. sets \ {SetOf(t)} = sets
    BY <1>2
  <2>2. RemovedBefore(t, SetOf(t))
    BY <1>2, <2>1 DEF RmId, RemovedBefore
  <2>3. QED
    BY <2>2, RemovedBeforeKeepsInv
<1>3. QED
  BY <1>1, <1>2

LEMMA ReleaseKeepsInv ==
  ASSUME SystemVInv, NEW t \in Thread, NEW n \in Name, Raise(t, n), Release(t, sem_id[<<t, n>>])
  PROVE  SystemVInv'
<1>1. CASE sem_id[<<t, n>>] \in sets
  <2>1. Raised(t, sem_id[<<t, n>>])
    BY <1>1 DEF Raise, Raised, Idle
  <2>2. QED
    BY <2>1, GiveBackKeepsInv DEF Release
<1>2. CASE sem_id[<<t, n>>] \notin sets
  <2>1. RaisedNothing(t, sem_id[<<t, n>>])
    BY <1>2 DEF Raise, RaisedNothing, Idle, setVars
  <2>2. QED
    BY <2>1, GiveBackGoneKeepsInv DEF Release
<1>3. QED
  BY <1>1, <1>2

LEMMA UnlockKeepsInv ==
  ASSUME SystemVInv, NEW t \in Thread, NEW n \in Name, IPC_unlockSemaphore_sv(t, n)
  PROVE  SystemVInv'
<1>1. CASE Release(t, sem_id[<<t, n>>])
  BY <1>1, ReleaseKeepsInv DEF IPC_unlockSemaphore_sv
<1>2. CASE raised' = raised \cup {sem_id[<<t, n>>]} /\ UNCHANGED <<holding, late>>
  <2>1. CASE sem_id[<<t, n>>] \in sets
    <3>1. Raised(t, sem_id[<<t, n>>]) /\ n \in SemName
      BY <2>1 DEF IPC_unlockSemaphore_sv, Raise, Raised, Idle
    <3>2. QED
      BY <1>2, <3>1, GiveKeepsInv
  <2>2. CASE sem_id[<<t, n>>] \notin sets
    <3>1. RaisedNothing(t, sem_id[<<t, n>>])
      BY <2>2 DEF IPC_unlockSemaphore_sv, Raise, RaisedNothing, Idle, setVars
    <3>2. QED
      BY <1>2, <3>1, GiveGoneKeepsInv
  <2>3. QED
    BY <2>1, <2>2
<1>3. QED
  BY <1>1, <1>2 DEF IPC_unlockSemaphore_sv

LEMMA SetEventSvKeepsInv ==
  ASSUME SystemVInv, NEW t \in Thread, NEW n \in Name, IPC_setEvent_sv(t, n)
  PROVE  SystemVInv'
<1>1. CASE sem_id[<<t, n>>] \in sets
  <2>1. Raised(t, sem_id[<<t, n>>]) /\ n \in EventName
    BY <1>1 DEF IPC_setEvent_sv, Raise, Raised, Idle
  <2>2. QED
    BY <2>1, SetEventKeepsInv DEF IPC_setEvent_sv
<1>2. CASE sem_id[<<t, n>>] \notin sets
  <2>1. UNCHANGED systemVVars
    BY <1>2 DEF IPC_setEvent_sv, Raise, systemVVars, setVars, svHistory
  <2>2. QED
    BY <2>1, StutterKeepsInv
<1>3. QED
  BY <1>1, <1>2

LEMMA ProceedKeepsInv ==
  ASSUME SystemVInv, NEW t \in Thread, SvProceed(t)
  PROVE  SystemVInv'
<1>1. CASE get_ipc_key(t)
  <2>1. vname[t] \in Name /\ keyfile[vname[t]] \in Inode \cup {NoInode}
    BY <1>1 DEF get_ipc_key, SvGoto, SystemVInv, SystemVTypeOK, CallsInStep
  <2>2. KeyGot(t, keyfile[vname[t]])
    BY <1>1, <2>1 DEF get_ipc_key, KeyGot
  <2>3. QED
    BY <2>2, KeyGotKeepsInv
<1>2. CASE StatExisting(t)
  <2>1. CASE SetOf(t) \in sets
    <3>1. Returns(t)
      BY <1>2, <2>1 DEF StatExisting, Returns, SvGoto, Unmoved
    <3>2. QED
      BY <3>1, ReturnKeepsInv
  <2>2. CASE SetOf(t) \notin sets
    <3>1. MovesOn(t, "stat", "abort")
      BY <1>2, <2>2 DEF StatExisting, MovesOn, Unmoved
    <3>2. QED
      BY <3>1, MoveOnKeepsInv
  <2>3. QED
    BY <2>1, <2>2
<1>3. CASE Abort(t)
  <2>1. Deletes(t)
    BY <1>3 DEF Abort, Deletes, SvGoto
  <2>2. QED
    BY <2>1, DeletesKeepsInv
<1>4. CASE Unlink(t)
  <2>1. Deletes(t)
    BY <1>4 DEF Unlink, Deletes, SvGoto
  <2>2. QED
    BY <2>1, DeletesKeepsInv
<1>5. CASE GetVal(t)
  <2>1. CASE SetOf(t) \in sets /\ semval[SetOf(t)] = 1
    <3>1. FoundFree(t, SetOf(t))
      BY <1>5, <2>1 DEF GetVal, FoundFree
    <3>2. QED
      BY <3>1, FoundFreeKeepsInv
  <2>2. CASE ~(SetOf(t) \in sets /\ semval[SetOf(t)] = 1)
    <3>1. MovesOn(t, "getval", "unlink")
      BY <1>5, <2>2 DEF GetVal, MovesOn, Unmoved
    <3>2. QED
      BY <3>1, MoveOnKeepsInv
  <2>3. QED
    BY <2>1, <2>2
<1>6. CASE GetNCnt(t)
  <2>1. MovesOn(t, "getncnt", "rmid") \/ MovesOn(t, "getncnt", "unlink")
    <3>1. SvGoto(t, "getncnt", "rmid") \/ SvGoto(t, "getncnt", "unlink")
      BY <1>6 DEF GetNCnt
    <3>2. QED
      BY <1>6, <3>1 DEF GetNCnt, MovesOn, Unmoved
  <2>2. QED
    BY <2>1, MoveOnKeepsInv
<1>7. QED
  BY <1>1, <1>2, <1>3, <1>4, <1>5, <1>6, GetKeepsInv, SetInitialKeepsInv, InitialDownKeepsInv,
     GetExistingKeepsInv,
     RepostKeepsInv, RmIdKeepsInv DEF SvProceed

LEMMA CreateKeepsInv ==
  ASSUME SystemVInv, NEW t \in Thread, NEW n \in Name,
         \/ IPC_createMutex_sv(t, n)
         \/ \E v \in Asked[n] :
              \/ IPC_createSemaphore_sv(t, n, v)
              \/ \E m \in BOOLEAN : IPC_createEvent_sv(t, n, v, m)
  PROVE  SystemVInv'
<1>1. CASE IPC_createMutex_sv(t, n)
  <2>1. 1 \in Nat /\ FALSE \in BOOLEAN /\ create_ipc_file(t, n, 1, FALSE)
    BY <1>1 DEF IPC_createMutex_sv
  <2>2. QED
    BY <2>1, CreateFileKeepsInv
<1>2. ASSUME NEW v \in Asked[n], IPC_createSemaphore_sv(t, n, v) PROVE SystemVInv'
  <2>1. v \in Nat /\ n \notin MutexName
    BY <1>2, LibraryAssumption DEF IPC_createSemaphore_sv, Name
  <2>2. QED
    BY <1>2, <2>1, CreateFileKeepsInv DEF IPC_createSemaphore_sv
<1>3. ASSUME NEW v \in Asked[n], NEW m \in BOOLEAN, IPC_createEvent_sv(t, n, v, m) PROVE SystemVInv'
  <2>1. v \in Nat /\ n \notin MutexName
    BY <1>3, LibraryAssumption DEF IPC_createEvent_sv, Name
  <2>2. QED
    BY <1>3, <2>1, CreateFileKeepsInv DEF IPC_createEvent_sv
<1>4. QED
  BY <1>1, <1>2, <1>3

LEMMA WaitFailsKeepsInv ==
  ASSUME SystemVInv, NEW t \in Thread, WaitFails(t)
  PROVE  SystemVInv'
<1>1. Returns(t)
  BY DEF WaitFails, Returns, SvGoto, Unmoved
<1>2. QED
  BY <1>1, ReturnKeepsInv

LEMMA OperationKeepsInv ==
  ASSUME SystemVInv, NEW t \in Thread, NEW n \in Name,
         \/ \E l \in Limit :
              IPC_captureMutex_sv(t, n, l) \/ IPC_lockSemaphore_sv(t, n, l) \/ IPC_waitEvent_sv(t, n, l)
         \/ IPC_releaseMutex_sv(t, n) \/ IPC_unlockSemaphore_sv(t, n)
         \/ IPC_setEvent_sv(t, n) \/ IPC_resetEvent_sv(t, n)
         \/ IPC_deleteMutex_sv(t, n) \/ IPC_deleteSemaphore_sv(t, n) \/ IPC_deleteEvent_sv(t, n)
  PROVE  SystemVInv'
<1>1. ASSUME NEW l \in Limit, WaitEnterSv(t, n, l) PROVE SystemVInv'
  BY <1>1, WaitEnterKeepsInv
<1>2. CASE IPC_releaseMutex_sv(t, n)
  BY <1>2, ReleaseKeepsInv DEF IPC_releaseMutex_sv
<1>3. CASE IPC_resetEvent_sv(t, n)
  BY <1>3, ResetEventKeepsInv DEF IPC_resetEvent_sv
<1>4. ASSUME DeleteEnter(t, n) PROVE SystemVInv'
  BY <1>4, DeleteEnterKeepsInv
<1>5. QED
  BY <1>1, <1>2, <1>3, <1>4, UnlockKeepsInv, SetEventSvKeepsInv
  DEF IPC_captureMutex_sv, IPC_lockSemaphore_sv, IPC_waitEvent_sv, IPC_deleteMutex_sv, IPC_deleteSemaphore_sv,
      IPC_deleteEvent_sv

LEMMA SystemVInvariant == SystemVSpec => []SystemVInv
<1>1. SystemVInit => SystemVInv
  <2>1. SUFFICES ASSUME SystemVInit PROVE SystemVInv
    OBVIOUS
  <2>2. SystemVTypeOK
    <3>1. /\ keyfile \in [Name -> Inode \cup {NoInode}]
          /\ sets \subseteq SemId
          /\ sem_key \in [SemId -> Inode \cup {NoInode}]
          /\ semval \in [SemId -> Nat]
          /\ semadj \in [SemId \X Thread -> Int]
          /\ sem_id \in [Thread \X Name -> SemId \cup {NoId, BadId}]
          /\ ipc_key \in [Thread \X Name -> Inode \cup {NoInode}]
      BY <2>1 DEF SystemVInit
    <3>2. manual = [h \in Thread \X Name |-> FALSE]
      BY <2>1 DEF SystemVInit
    <3>3. manual \in [Thread \X Name -> BOOLEAN]
      BY <3>2, Zenon
    <3>4. /\ vstep \in [Thread -> {"idle", "wait", "repost"} \cup CreateStep \cup DeleteStep]
          /\ vname \in [Thread -> Name \cup {NoName}]
          /\ vlimit \in [Thread -> Limit \cup {0}]
          /\ vvalue \in [Thread -> Nat]
      BY <2>1 DEF SystemVInit
    <3>5. /\ start \in [SemId -> Nat]
          /\ raised \subseteq SemId
          /\ holding \in [SemId -> SUBSET Thread]
          /\ unlinked \subseteq Thread \X Name
          /\ users \in [SemId -> SUBSET Name]
          /\ late \subseteq SemId \X Thread
      BY <2>1 DEF SystemVInit
    <3>6. QED
      BY <3>1, <3>3, <3>4, <3>5 DEF SystemVTypeOK
  <2>3. \A t \in Thread : vstep[t] = "idle"
    BY <2>1 DEF SystemVInit
  <2>4. CallsInStep /\ SetvalOnce /\ WaitersHoldNothing /\ HoldersAreLate
    BY <2>3 DEF CallsInStep, SetvalOnce, WaitersHoldNothing, HoldersAreLate, CreateStep
  <2>5. sets = {} /\ unlinked = {}
    BY <2>1 DEF SystemVInit
  <2>6. \A h \in Thread \X Name : sem_id[h] = NoId /\ ipc_key[h] = NoInode
    BY <2>1 DEF SystemVInit
  <2>7. HandlesHaveKeys /\ OneSetPerKey /\ TokensSurviveDeaths /\ UndoExact /\ MutexesAreSingle
    BY <2>5, <2>6 DEF HandlesHaveKeys, OneSetPerKey, TokensSurviveDeaths, UndoExact, MutexesAreSingle
  <2>8. KeysOfFiles
    <3>1. \A n \in Name : keyfile[n] = NoInode
      BY <2>1 DEF SystemVInit
    <3>2. QED
      BY <2>6, <3>1 DEF KeysOfFiles
  <2>9. NotRemovedUnderHolder
    <3>1. \A i \in SemId : holding[i] = {}
      BY <2>1 DEF SystemVInit
    <3>2. QED
      BY <3>1 DEF NotRemovedUnderHolder
  <2>10. QED
    BY <2>2, <2>4, <2>7, <2>8, <2>9 DEF SystemVInv
<1>2. SystemVInv /\ [SystemVNext]_systemVVars => SystemVInv'
  <2>1. SUFFICES ASSUME SystemVInv, [SystemVNext]_systemVVars PROVE SystemVInv'
    OBVIOUS
  <2>2. CASE UNCHANGED systemVVars
    BY <2>1, <2>2, StutterKeepsInv
  <2>3. CASE SystemVNext
    BY <2>1, <2>3, ProceedKeepsInv, SemTakeKeepsInv, WaitFailsKeepsInv, DieKeepsInv, CreateKeepsInv,
       OperationKeepsInv
    DEF SystemVNext
  <2>4. QED
    BY <2>1, <2>2, <2>3
<1>3. QED
  BY <1>1, <1>2, PTL DEF SystemVSpec

(* Handles of one name whose key file is still there have its key, and one *)
(* set has a key.                                                          *)
LEMMA NamesAndSets ==
  ASSUME SystemVInv
  PROVE  SplitOnlyByUnlink /\ NamesShareOnlyAfterUnlink
<1>1. ASSUME NEW h \in (Thread \X Name) \ unlinked, sem_id[h] \in sets
      PROVE  keyfile[h[2]] = sem_key[sem_id[h]] /\ keyfile[h[2]] # NoInode /\ h[2] \in Name
  <2>1. sem_id[h] \in SemId
    BY <1>1 DEF SystemVInv, SystemVTypeOK
  <2>2. sem_key[sem_id[h]] = ipc_key[h] /\ ipc_key[h] \in Inode
    BY <1>1, <2>1, SystemVAssumption DEF SystemVInv, HandlesHaveKeys
  <2>3. QED
    BY <1>1, <2>2, SystemVAssumption DEF SystemVInv, KeysOfFiles
<1>2. SplitOnlyByUnlink
  <2>1. SUFFICES ASSUME NEW n \in Name, NEW t \in Thread, NEW u \in Thread,
                        sem_id[<<t, n>>] \in sets, sem_id[<<u, n>>] \in sets,
                        <<t, n>> \notin unlinked, <<u, n>> \notin unlinked
                 PROVE  sem_id[<<t, n>>] = sem_id[<<u, n>>]
    BY DEF SplitOnlyByUnlink
  <2>2. <<t, n>> \in (Thread \X Name) \ unlinked /\ <<u, n>> \in (Thread \X Name) \ unlinked
    BY <2>1
  <2>3. sem_key[sem_id[<<t, n>>]] = keyfile[n] /\ sem_key[sem_id[<<u, n>>]] = keyfile[n]
    BY <1>1, <2>1, <2>2
  <2>4. QED
    BY <2>1, <2>3 DEF SystemVInv, OneSetPerKey
<1>3. NamesShareOnlyAfterUnlink
  <2>1. SUFFICES ASSUME NEW h \in Thread \X Name, NEW k \in Thread \X Name,
                        sem_id[h] \in sets, sem_id[k] = sem_id[h], h \notin unlinked, k \notin unlinked
                 PROVE  h[2] = k[2]
    BY DEF NamesShareOnlyAfterUnlink
  <2>2. keyfile[h[2]] = keyfile[k[2]] /\ keyfile[h[2]] # NoInode /\ h[2] \in Name /\ k[2] \in Name
    BY <1>1, <2>1
  <2>3. QED
    BY <2>2 DEF SystemVInv, KeysOfFiles
<1>4. QED
  BY <1>2, <1>3

(* Whatever processes die, and wherever, the value of a set that is only   *)
(* captured and released is its initial value less its holders.            *)
THEOREM SystemVTokens == SystemVSpec => []SystemVTokensSound
<1>1. SystemVInv => SystemVTokensSound
  BY DEF SystemVInv, SystemVTokensSound
<1>2. QED
  BY <1>1, SystemVInvariant, PTL

(* A set is removed under a holder only in the window of the delete; one   *)
(* name has two sets, and two names one set, only after an unlink.         *)
THEOREM SystemVNames == SystemVSpec => []SystemVNamesSound
<1>1. SystemVInv => SystemVNamesSound
  BY NamesAndSets DEF SystemVInv, SystemVNamesSound
<1>2. QED
  BY <1>1, SystemVInvariant, PTL

-----------------------------------------------------------------------------
(***************************************************************************)
(* Shared memory of the System V backend: the segments of a name.          *)
(***************************************************************************)

(* What a call that is under way knows of its handle. *)
CallsOfHandle ==
  \A t \in Thread :
    /\ xstep[t] \in {"ftok", "make", "find"} => shmid[XH(t)] = NoShmId
    /\ xstep[t] \in {"make", "find"} => h_key[XH(t)] # NoFile
    /\ xstep[t] \in {"stat", "rmid"} => shmid[XH(t)] # NoShmId

MappedIsOpen == \A h \in attached : shmid[h] # NoShmId

(* After a delete has seen nobody attached, who attaches is late. *)
LateMapsKnown ==
  \A t \in Thread : xstep[t] = "rmid" =>
    \A h \in attached : shmid[h] = shmid[XH(t)] => h \in tardy

(* A handle's segment has the key of the file that the handle was made for, *)
(* and that file is still the name's, unless the handle is known to have   *)
(* lost it.                                                                *)
KeysAgree ==
  /\ \A h \in XHandle : shmid[h] # NoShmId =>
       h_key[h] # NoFile /\ shm_key[shmid[h]] = h_key[h]
  /\ \A h \in XHandle : (h_key[h] # NoFile /\ h \notin no_file) => h_key[h] = shm_file[h[2]]

OneSegmentPerKey ==
  \A i, j \in segments : shm_key[i] = shm_key[j] => i = j

SystemVShmInv ==
  /\ SystemVShmTypeOK
  /\ CallsOfHandle
  /\ MappedIsOpen
  /\ LateMapsKnown
  /\ KeysAgree
  /\ OneSegmentPerKey
  /\ NotRemovedUnderMapping

-----------------------------------------------------------------------------
LEMMA HandleOfCall ==
  ASSUME SystemVShmTypeOK, NEW t \in Thread
  PROVE  XH(t) \in XHandle /\ XH(t)[1] = t /\ XH(t)[2] = xname[t] /\ xname[t] \in ShmName
BY DEF XH, XHandle, SystemVShmTypeOK

LEMMA SystemVShmInitInv ==
  ASSUME ShmName # {}, SystemVShmInit
  PROVE  SystemVShmInv
<1>1. SystemVShmTypeOK
  BY SystemVShmAssumption DEF SystemVShmInit, SystemVShmTypeOK
<1>2. \A t \in Thread : XH(t) \in XHandle
  BY <1>1, HandleOfCall
<1> QED
  BY <1>1, <1>2 DEF SystemVShmInit, SystemVShmInv, CallsOfHandle, MappedIsOpen, LateMapsKnown,
       KeysAgree, OneSegmentPerKey, NotRemovedUnderMapping

(* Handles that go take their mappings along, and nothing of others. *)
LEMMA WithoutKeeps ==
  ASSUME SystemVShmInv, NEW hs \in SUBSET XHandle, Without(hs)
  PROVE  /\ shmid' \in [XHandle -> ShmId \cup {NoShmId}]
         /\ h_key' \in [XHandle -> ShmInode \cup {NoFile}]
         /\ attached' \subseteq XHandle /\ tardy' \subseteq XHandle
         /\ \A h \in XHandle \ hs : shmid'[h] = shmid[h] /\ h_key'[h] = h_key[h]
         /\ \A h \in hs : shmid'[h] = NoShmId /\ h_key'[h] = NoFile /\ h \notin attached'
         /\ \A h \in attached' : h \in attached /\ h \in XHandle \ hs
                                   /\ (h \in tardy => h \in tardy')
BY DEF SystemVShmInv, SystemVShmTypeOK, Without

-----------------------------------------------------------------------------
(* A new key file is no handle's. *)
LEMMA MakeKeyFileInv ==
  ASSUME SystemVShmInv, NEW t \in Thread, NEW n \in ShmName, NEW o \in BOOLEAN,
         MakeKeyFile(t, n, o)
  PROVE  SystemVShmInv'
<1> USE SystemVShmAssumption DEF SystemVShmInv, MakeKeyFile, XGoto
<1>1. UNCHANGED <<segments, shm_key, shmid, h_key, attached, no_file, tardy>>
  BY DEF segVars, shmidVars, xHistory
<1>2. shm_file' \in [ShmName -> ShmInode \cup {NoFile}]
  BY DEF SystemVShmTypeOK
<1>3. \A x \in ShmName : shm_file'[x] = shm_file[x] \/ shm_file[x] = NoFile
  BY DEF SystemVShmTypeOK
<1>4. SystemVShmTypeOK'
  BY <1>1, <1>2 DEF SystemVShmTypeOK
<1>5. CallsOfHandle'
  BY <1>1 DEF CallsOfHandle, XH, SystemVShmTypeOK
<1>6. LateMapsKnown'
  BY <1>1 DEF LateMapsKnown, XH, SystemVShmTypeOK
<1>7. KeysAgree'
  BY <1>1, <1>3 DEF KeysAgree, XHandle
<1>8. (MappedIsOpen /\ OneSegmentPerKey /\ NotRemovedUnderMapping)'
  BY <1>1 DEF MappedIsOpen, OneSegmentPerKey, NotRemovedUnderMapping
<1> QED
  BY <1>4, <1>5, <1>6, <1>7, <1>8

LEMMA KeyOfFileInv ==
  ASSUME SystemVShmInv, NEW t \in Thread, KeyOfFile(t)
  PROVE  SystemVShmInv'
<1> USE SystemVShmAssumption DEF SystemVShmInv
<1> DEFINE h == XH(t)
           k == shm_file[xname[t]]
<1>1. h \in XHandle /\ h[2] = xname[t] /\ xname[t] \in ShmName
  BY HandleOfCall
<1>2. /\ xstep[t] = "ftok"
      /\ xstep' = [xstep EXCEPT ![t] = CASE k = NoFile -> "unlink"
                                         [] k # NoFile /\ opens[t] -> "find" [] OTHER -> "make"]
      /\ h_key' = [h_key EXCEPT ![h] = k]
      /\ UNCHANGED <<shm_file, segments, shm_key, shmid, attached, xname, opens, no_file, tardy>>
  BY DEF KeyOfFile, XGoto, segVars, xCall, xHistory
<1>3. shmid[h] = NoShmId
  BY <1>2 DEF CallsOfHandle
<1>4. xstep'[t] \in {"unlink", "find", "make"} /\ (k = NoFile => xstep'[t] = "unlink")
  BY <1>2 DEF SystemVShmTypeOK
<1>5. \A u \in Thread \ {t} : xstep'[u] = xstep[u] /\ XH(u) # h
  BY <1>2 DEF XH, SystemVShmTypeOK
<1>6. \A u \in Thread : XH(u)' = XH(u) /\ XH(u) \in XHandle
  BY <1>2, HandleOfCall DEF XH
<1>7. SystemVShmTypeOK'
  <2>1. k \in ShmInode \cup {NoFile}
    BY <1>1 DEF SystemVShmTypeOK
  <2>2. xstep' \in [Thread -> {"idle", "ftok", "make", "find", "stat", "rmid", "unlink"}]
    BY <1>2, <1>4 DEF SystemVShmTypeOK
  <2> QED
    BY <1>1, <1>2, <2>1, <2>2 DEF SystemVShmTypeOK
<1>8. CallsOfHandle'
  BY <1>1, <1>2, <1>3, <1>4, <1>5, <1>6 DEF CallsOfHandle, SystemVShmTypeOK
<1>9. LateMapsKnown'
  BY <1>2, <1>4, <1>5, <1>6 DEF LateMapsKnown
<1>10. KeysAgree'
  BY <1>1, <1>2, <1>3 DEF KeysAgree, SystemVShmTypeOK
<1>11. (MappedIsOpen /\ OneSegmentPerKey /\ NotRemovedUnderMapping)'
  BY <1>2 DEF MappedIsOpen, OneSegmentPerKey, NotRemovedUnderMapping
<1> QED
  BY <1>7, <1>8, <1>9, <1>10, <1>11

(* A segment is made only for a key that has none, and nobody had it.      *)
LEMMA ShmMakeInv ==
  ASSUME SystemVShmInv, NEW t \in Thread, ShmMake(t)
  PROVE  SystemVShmInv'
<1> USE SystemVShmAssumption DEF SystemVShmInv
<1> DEFINE h == XH(t)
           k == h_key[h]
<1>1. h \in XHandle /\ h[2] = xname[t] /\ xname[t] \in ShmName
  BY HandleOfCall
<1>2. /\ xstep[t] = "make"
      /\ xstep' = [xstep EXCEPT ![t] = IF OfKey(k) = {} THEN "idle" ELSE "find"]
      /\ UNCHANGED <<shm_file, h_key, attached, xname, opens, no_file, tardy>>
  BY DEF ShmMake, XGoto, xCall, xHistory
<1>3. shmid[h] = NoShmId /\ k # NoFile /\ k \in ShmInode
  BY <1>1, <1>2 DEF CallsOfHandle, SystemVShmTypeOK
<1>4. h \notin attached
  BY <1>3 DEF MappedIsOpen
<1>5. \A u \in Thread \ {t} : xstep'[u] = xstep[u] /\ XH(u) # h
  BY <1>2 DEF XH, SystemVShmTypeOK
<1>6. \A u \in Thread : XH(u)' = XH(u) /\ XH(u) \in XHandle
  BY <1>2, HandleOfCall DEF XH
<1>7. CASE OfKey(k) # {}
  <2>1. UNCHANGED <<segments, shm_key, shmid>> /\ xstep'[t] = "find"
    BY <1>2, <1>7 DEF ShmMake, segVars, SystemVShmTypeOK
  <2>2. SystemVShmTypeOK'
    BY <1>2, <2>1 DEF SystemVShmTypeOK
  <2>3. CallsOfHandle'
    BY <1>2, <1>3, <1>5, <1>6, <2>1 DEF CallsOfHandle
  <2>4. LateMapsKnown'
    BY <1>2, <1>5, <1>6, <2>1 DEF LateMapsKnown
  <2>5. (MappedIsOpen /\ KeysAgree /\ OneSegmentPerKey /\ NotRemovedUnderMapping)'
    BY <1>2, <2>1 DEF MappedIsOpen, KeysAgree, OneSegmentPerKey, NotRemovedUnderMapping
  <2> QED
    BY <2>2, <2>3, <2>4, <2>5
<1>8. CASE OfKey(k) = {}
  <2>1. PICK i \in ShmId :
          /\ shm_key[i] = NoFile
          /\ segments' = segments \cup {i}
          /\ shm_key' = [shm_key EXCEPT ![i] = k]
          /\ shmid' = [shmid EXCEPT ![h] = i]
    BY <1>8 DEF ShmMake
  <2>2. xstep'[t] = "idle"
    BY <1>2, <1>8 DEF SystemVShmTypeOK
  <2>3. \A x \in XHandle : shmid[x] # i
    BY <1>3, <2>1 DEF KeysAgree
  <2>4. \A j \in segments : shm_key[j] # k
    BY <1>8 DEF OfKey
  <2>5. SystemVShmTypeOK'
    BY <1>1, <1>2, <1>3, <2>1 DEF SystemVShmTypeOK
  <2>6. CallsOfHandle'
    BY <1>2, <1>5, <1>6, <2>1, <2>2 DEF CallsOfHandle, SystemVShmTypeOK
  <2>7. MappedIsOpen'
    BY <1>2, <1>4, <2>1 DEF MappedIsOpen, SystemVShmTypeOK
  <2>8. LateMapsKnown'
    BY <1>2, <1>4, <1>5, <1>6, <2>1, <2>2 DEF LateMapsKnown, SystemVShmTypeOK
  <2>9. KeysAgree'
    BY <1>1, <1>2, <1>3, <2>1, <2>3 DEF KeysAgree, SystemVShmTypeOK
  <2>10. OneSegmentPerKey'
    BY <2>1, <2>4 DEF OneSegmentPerKey, SystemVShmTypeOK
  <2>11. NotRemovedUnderMapping'
    BY <1>2, <1>4, <2>1 DEF NotRemovedUnderMapping, SystemVShmTypeOK
  <2> QED
    BY <2>5, <2>6, <2>7, <2>8, <2>9, <2>10, <2>11
<1> QED
  BY <1>7, <1>8

(* What a find gets has the key of the handle. *)
LEMMA ShmFindInv ==
  ASSUME SystemVShmInv, NEW t \in Thread, ShmFind(t)
  PROVE  SystemVShmInv'
<1> USE SystemVShmAssumption DEF SystemVShmInv
<1> DEFINE h == XH(t)
           found == OfKey(h_key[h])
<1>1. h \in XHandle /\ {h} \in SUBSET XHandle
  BY HandleOfCall
<1>2. /\ xstep[t] = "find"
      /\ xstep' = [xstep EXCEPT ![t] = "idle"]
      /\ UNCHANGED <<shm_file, segments, shm_key, xname, opens>>
  BY DEF ShmFind, XGoto, segVars, xCall
<1>3. shmid[h] = NoShmId /\ h_key[h] # NoFile /\ h \notin attached
  BY <1>2 DEF CallsOfHandle, MappedIsOpen
<1>4. \A u \in Thread \ {t} : xstep'[u] = xstep[u] /\ XH(u) # h
  BY <1>2 DEF XH, SystemVShmTypeOK
<1>5. \A u \in Thread : XH(u)' = XH(u) /\ XH(u) \in XHandle
  BY <1>2, HandleOfCall DEF XH
<1>6. xstep'[t] = "idle"
  BY <1>2 DEF SystemVShmTypeOK
<1>7. CASE found = {}
  <2>1. Without({h}) /\ no_file' = no_file \ {h}
    BY <1>7 DEF ShmFind
  <2>2. /\ shmid' \in [XHandle -> ShmId \cup {NoShmId}]
        /\ h_key' \in [XHandle -> ShmInode \cup {NoFile}]
        /\ attached' \subseteq XHandle /\ tardy' \subseteq XHandle
        /\ \A x \in XHandle \ {h} : shmid'[x] = shmid[x] /\ h_key'[x] = h_key[x]
        /\ shmid'[h] = NoShmId /\ h_key'[h] = NoFile
        /\ \A x \in attached' : x \in attached /\ x \in XHandle \ {h} /\ (x \in tardy => x \in tardy')
    BY <1>1, <2>1, WithoutKeeps
  <2>3. SystemVShmTypeOK'
    BY <1>2, <2>1, <2>2 DEF SystemVShmTypeOK
  <2>4. CallsOfHandle'
    BY <1>4, <1>5, <1>6, <2>2 DEF CallsOfHandle
  <2>5. (MappedIsOpen /\ NotRemovedUnderMapping)'
    BY <1>2, <2>2 DEF MappedIsOpen, NotRemovedUnderMapping
  <2>6. LateMapsKnown'
    BY <1>4, <1>5, <1>6, <2>2 DEF LateMapsKnown
  <2>7. (KeysAgree /\ OneSegmentPerKey)'
    BY <1>2, <2>1, <2>2 DEF KeysAgree, OneSegmentPerKey
  <2> QED
    BY <2>3, <2>4, <2>5, <2>6, <2>7
<1>8. CASE found # {}
  <2>1. PICK i \in found : shmid' = [shmid EXCEPT ![h] = i]
    BY <1>8 DEF ShmFind
  <2>2. UNCHANGED <<h_key, attached, tardy, no_file>>
    BY <1>8 DEF ShmFind
  <2>3. i \in segments /\ i \in ShmId /\ shm_key[i] = h_key[h]
    BY DEF OfKey, SystemVShmTypeOK
  <2>4. SystemVShmTypeOK'
    BY <1>1, <1>2, <2>1, <2>2, <2>3 DEF SystemVShmTypeOK
  <2>5. CallsOfHandle'
    BY <1>4, <1>5, <1>6, <2>1, <2>2 DEF CallsOfHandle, SystemVShmTypeOK
  <2>6. (MappedIsOpen /\ NotRemovedUnderMapping)'
    BY <1>2, <1>3, <2>1, <2>2 DEF MappedIsOpen, NotRemovedUnderMapping, SystemVShmTypeOK
  <2>7. LateMapsKnown'
    BY <1>3, <1>4, <1>5, <1>6, <2>1, <2>2 DEF LateMapsKnown, SystemVShmTypeOK
  <2>8. (KeysAgree /\ OneSegmentPerKey)'
    BY <1>1, <1>2, <1>3, <2>1, <2>2, <2>3 DEF KeysAgree, OneSegmentPerKey, SystemVShmTypeOK
  <2> QED
    BY <2>4, <2>5, <2>6, <2>7, <2>8
<1> QED
  BY <1>7, <1>8

-----------------------------------------------------------------------------
(* A map of a segment that a delete is about to remove, or has removed, is *)
(* late; an unmap, and the one that begins a delete, forget that.          *)
LEMMA MapInv ==
  ASSUME SystemVShmInv, NEW t \in Thread, NEW n \in ShmName, IPC_mapSharedMemory_sv(t, n)
  PROVE  SystemVShmInv'
<1> USE SystemVShmAssumption DEF SystemVShmInv, IPC_mapSharedMemory_sv, Holds
<1>1. UNCHANGED <<shm_file, segments, shm_key, shmid, h_key, xstep, xname, opens, no_file>>
  BY DEF segVars, xCall
<1>2. <<t, n>> \in XHandle /\ shmid[<<t, n>>] # NoShmId
  BY DEF XHandle
<1>3. \A u \in Thread : XH(u)' = XH(u)
  BY <1>1 DEF XH
<1>4. SystemVShmTypeOK'
  BY <1>1, <1>2 DEF SystemVShmTypeOK
<1>5. (CallsOfHandle /\ MappedIsOpen /\ KeysAgree /\ OneSegmentPerKey)'
  BY <1>1, <1>2, <1>3 DEF CallsOfHandle, MappedIsOpen, KeysAgree, OneSegmentPerKey
<1>6. LateMapsKnown'
  BY <1>1, <1>3 DEF LateMapsKnown
<1>7. NotRemovedUnderMapping'
  BY <1>1 DEF NotRemovedUnderMapping
<1> QED
  BY <1>4, <1>5, <1>6, <1>7

LEMMA UnmapInv ==
  ASSUME SystemVShmInv, NEW t \in Thread, NEW n \in ShmName,
         IPC_unmapSharedMemory_sv(t, n) \/ IPC_deleteSharedMemory_sv(t, n)
  PROVE  SystemVShmInv'
<1> USE SystemVShmAssumption DEF SystemVShmInv, Holds
<1>1. /\ attached' = attached \ {<<t, n>>} /\ tardy' = tardy \ {<<t, n>>}
      /\ UNCHANGED <<shm_file, segments, shm_key, shmid, h_key, opens, no_file>>
  BY DEF IPC_unmapSharedMemory_sv, IPC_deleteSharedMemory_sv, segVars, xCall
<1>2. shmid[<<t, n>>] # NoShmId
  BY DEF IPC_unmapSharedMemory_sv, IPC_deleteSharedMemory_sv
<1>3. \/ UNCHANGED <<xstep, xname>>
      \/ xstep' = [xstep EXCEPT ![t] = "stat"] /\ xname' = [xname EXCEPT ![t] = n]
  BY DEF IPC_unmapSharedMemory_sv, IPC_deleteSharedMemory_sv, xCall
<1>4. SystemVShmTypeOK'
  BY <1>1, <1>3 DEF SystemVShmTypeOK
<1>5. CallsOfHandle'
  BY <1>1, <1>2, <1>3 DEF CallsOfHandle, XH, SystemVShmTypeOK
<1>6. (MappedIsOpen /\ KeysAgree /\ OneSegmentPerKey /\ NotRemovedUnderMapping)'
  BY <1>1 DEF MappedIsOpen, KeysAgree, OneSegmentPerKey, NotRemovedUnderMapping
<1>7. LateMapsKnown'
  BY <1>1, <1>3 DEF LateMapsKnown, XH, SystemVShmTypeOK
<1> QED
  BY <1>4, <1>5, <1>6, <1>7

(* The look of a delete finds nobody attached. *)
LEMMA ShmStatInv ==
  ASSUME SystemVShmInv, NEW t \in Thread, ShmStat(t)
  PROVE  SystemVShmInv'
<1> USE SystemVShmAssumption DEF SystemVShmInv
<1> DEFINE free == shmid[XH(t)] \in segments /\ Unattached(shmid[XH(t)])
<1>1. /\ xstep[t] = "stat"
      /\ xstep' = [xstep EXCEPT ![t] = IF free THEN "rmid" ELSE "idle"]
      /\ UNCHANGED <<shm_file, segments, shm_key, shmid, h_key, attached, xname, opens, no_file, tardy>>
  BY DEF ShmStat, XGoto, segVars, shmidVars, xCall, xHistory
<1>2. \A u \in Thread : XH(u)' = XH(u)
  BY <1>1 DEF XH
<1>3. SystemVShmTypeOK'
  BY <1>1 DEF SystemVShmTypeOK
<1>4. CallsOfHandle'
  BY <1>1, <1>2 DEF CallsOfHandle, SystemVShmTypeOK
<1>5. LateMapsKnown'
  BY <1>1, <1>2 DEF LateMapsKnown, Unattached, SystemVShmTypeOK
<1>6. (MappedIsOpen /\ KeysAgree /\ OneSegmentPerKey /\ NotRemovedUnderMapping)'
  BY <1>1 DEF MappedIsOpen, KeysAgree, OneSegmentPerKey, NotRemovedUnderMapping
<1> QED
  BY <1>3, <1>4, <1>5, <1>6

(* Who has it attached by the time of the removal attached it late. *)
LEMMA ShmRmIdInv ==
  ASSUME SystemVShmInv, NEW t \in Thread, ShmRmId(t)
  PROVE  SystemVShmInv'
<1> USE SystemVShmAssumption DEF SystemVShmInv
<1> DEFINE i == shmid[XH(t)]
<1>1. /\ xstep[t] = "rmid"
      /\ xstep' = [xstep EXCEPT ![t] = IF Exists(i) THEN "unlink" ELSE "idle"]
      /\ segments' = segments \ {i}
      /\ UNCHANGED <<shm_file, shm_key, shmid, h_key, attached, xname, opens, no_file, tardy>>
  BY DEF ShmRmId, XGoto, shmidVars, xCall, xHistory
<1>2. \A u \in Thread : XH(u)' = XH(u)
  BY <1>1 DEF XH
<1>3. SystemVShmTypeOK'
  BY <1>1 DEF SystemVShmTypeOK
<1>4. (CallsOfHandle /\ LateMapsKnown)'
  BY <1>1, <1>2 DEF CallsOfHandle, LateMapsKnown, SystemVShmTypeOK
<1>5. NotRemovedUnderMapping'
  BY <1>1 DEF NotRemovedUnderMapping, LateMapsKnown
<1>6. (MappedIsOpen /\ KeysAgree /\ OneSegmentPerKey)'
  BY <1>1 DEF MappedIsOpen, KeysAgree, OneSegmentPerKey
<1> QED
  BY <1>3, <1>4, <1>5, <1>6

(* The end of a delete: every handle that was made for the file has lost it. *)
LEMMA ShmUnlinkInv ==
  ASSUME SystemVShmInv, NEW t \in Thread, ShmUnlink(t)
  PROVE  SystemVShmInv'
<1> USE SystemVShmAssumption DEF SystemVShmInv
<1> DEFINE h == XH(t)
           n == xname[t]
<1>1. h \in XHandle /\ {h} \in SUBSET XHandle /\ n \in ShmName
  BY HandleOfCall
<1>2. /\ xstep' = [xstep EXCEPT ![t] = "idle"]
      /\ shm_file' = [shm_file EXCEPT ![n] = NoFile]
      /\ no_file' = (no_file \cup {x \in Thread \X {n} : h_key[x] # NoFile}) \ {h}
      /\ Without({h})
      /\ UNCHANGED <<segments, shm_key, xname, opens>>
  BY DEF ShmUnlink, XGoto, segVars, xCall
<1>3. /\ shmid' \in [XHandle -> ShmId \cup {NoShmId}]
      /\ h_key' \in [XHandle -> ShmInode \cup {NoFile}]
      /\ attached' \subseteq XHandle /\ tardy' \subseteq XHandle
      /\ \A x \in XHandle \ {h} : shmid'[x] = shmid[x] /\ h_key'[x] = h_key[x]
      /\ shmid'[h] = NoShmId /\ h_key'[h] = NoFile
      /\ \A x \in attached' : x \in attached /\ x \in XHandle \ {h} /\ (x \in tardy => x \in tardy')
  BY <1>1, <1>2, WithoutKeeps
<1>4. \A u \in Thread : XH(u)' = XH(u) /\ XH(u) \in XHandle
  BY <1>2, HandleOfCall DEF XH
<1>5. xstep'[t] = "idle" /\ \A u \in Thread \ {t} : xstep'[u] = xstep[u] /\ XH(u) # h
  BY <1>2 DEF XH, SystemVShmTypeOK
<1>6. SystemVShmTypeOK'
  <2>1. no_file' \subseteq XHandle
    BY <1>1, <1>2 DEF XHandle, SystemVShmTypeOK
  <2> QED
    BY <1>2, <1>3, <2>1 DEF SystemVShmTypeOK
<1>7. CallsOfHandle'
  BY <1>3, <1>4, <1>5 DEF CallsOfHandle
<1>8. LateMapsKnown'
  BY <1>3, <1>4, <1>5 DEF LateMapsKnown
<1>9. (MappedIsOpen /\ OneSegmentPerKey /\ NotRemovedUnderMapping)'
  BY <1>2, <1>3 DEF MappedIsOpen, OneSegmentPerKey, NotRemovedUnderMapping
<1>10. KeysAgree'
  <2>1. ASSUME NEW x \in XHandle, h_key'[x] # NoFile, x \notin no_file'
        PROVE  h_key'[x] = shm_file'[x[2]]
    <3>1. x # h /\ h_key[x] # NoFile
      BY <1>3, <2>1
    <3>2. x[2] # n
      BY <1>2, <2>1, <3>1 DEF XHandle
    <3>3. shm_file'[x[2]] = shm_file[x[2]]
      BY <1>2, <3>2 DEF XHandle, SystemVShmTypeOK
    <3> QED
      BY <1>2, <1>3, <2>1, <3>1, <3>3 DEF KeysAgree
  <2>2. \A x \in XHandle : shmid'[x] # NoShmId => h_key'[x] # NoFile /\ shm_key'[shmid'[x]] = h_key'[x]
    BY <1>2, <1>3 DEF KeysAgree
  <2> QED
    BY <2>1, <2>2 DEF KeysAgree
<1> QED
  BY <1>6, <1>7, <1>8, <1>9, <1>10

(* A process that ends takes its own handles along. *)
LEMMA ShmDieInv ==
  ASSUME SystemVShmInv, NEW t \in Thread, ShmDie(t)
  PROVE  SystemVShmInv'
<1> USE SystemVShmAssumption DEF SystemVShmInv
<1> DEFINE hs == {t} \X ShmName
<1>1. hs \in SUBSET XHandle
  BY DEF XHandle
<1>2. /\ Without(hs)
      /\ no_file' = no_file \ hs
      /\ xstep' = [xstep EXCEPT ![t] = "idle"]
      /\ UNCHANGED <<shm_file, segments, shm_key, xname, opens>>
  BY DEF ShmDie, segVars, xCall
<1>3. /\ shmid' \in [XHandle -> ShmId \cup {NoShmId}]
      /\ h_key' \in [XHandle -> ShmInode \cup {NoFile}]
      /\ attached' \subseteq XHandle /\ tardy' \subseteq XHandle
      /\ \A x \in XHandle \ hs : shmid'[x] = shmid[x] /\ h_key'[x] = h_key[x]
      /\ \A x \in hs : shmid'[x] = NoShmId /\ h_key'[x] = NoFile
      /\ \A x \in attached' : x \in attached /\ x \in XHandle \ hs /\ (x \in tardy => x \in tardy')
  BY <1>1, <1>2, WithoutKeeps
<1>4. \A u \in Thread : XH(u)' = XH(u) /\ XH(u) \in XHandle
  BY <1>2, HandleOfCall DEF XH
<1>5. xstep'[t] = "idle" /\ \A u \in Thread \ {t} : xstep'[u] = xstep[u] /\ XH(u) \notin hs
  BY <1>2 DEF XH, SystemVShmTypeOK
<1>6. SystemVShmTypeOK'
  BY <1>2, <1>3 DEF SystemVShmTypeOK
<1>7. CallsOfHandle'
  BY <1>3, <1>4, <1>5 DEF CallsOfHandle
<1>8. LateMapsKnown'
  BY <1>3, <1>4, <1>5 DEF LateMapsKnown
<1>9. (MappedIsOpen /\ OneSegmentPerKey /\ NotRemovedUnderMapping)'
  BY <1>2, <1>3 DEF MappedIsOpen, OneSegmentPerKey, NotRemovedUnderMapping
<1>10. KeysAgree'
  BY <1>2, <1>3 DEF KeysAgree
<1> QED
  BY <1>6, <1>7, <1>8, <1>9, <1>10

-----------------------------------------------------------------------------
LEMMA SystemVShmNextInv ==
  SystemVShmInv /\ [SystemVShmNext]_systemVShmVars => SystemVShmInv'
<1> SUFFICES ASSUME SystemVShmInv, [SystemVShmNext]_systemVShmVars
             PROVE  SystemVShmInv'
  OBVIOUS
<1>1. ASSUME NEW t \in Thread, NEW n \in ShmName,
             \/ IPC_createSharedMemory_sv(t, n) \/ IPC_createSharedMemoryEx_sv(t, n)
             \/ IPC_openSharedMemory_sv(t, n)
      PROVE  SystemVShmInv'
  BY <1>1, MakeKeyFileInv
     DEF IPC_createSharedMemory_sv, IPC_createSharedMemoryEx_sv, IPC_openSharedMemory_sv
<1>2. CASE UNCHANGED systemVShmVars
  BY <1>2 DEF systemVShmVars, segVars, shmidVars, xCall, xHistory, SystemVShmInv,
       SystemVShmTypeOK, CallsOfHandle, MappedIsOpen, LateMapsKnown, KeysAgree,
       OneSegmentPerKey, NotRemovedUnderMapping, XH
<1> QED
  BY <1>1, <1>2, KeyOfFileInv, ShmMakeInv, ShmFindInv, MapInv, UnmapInv, ShmStatInv,
     ShmRmIdInv, ShmUnlinkInv, ShmDieInv
     DEF SystemVShmNext

(* Two handles of one file have its key, and a key has one segment. *)
LEMMA SameKeySameSegment == SystemVShmInv => MappedShare
<1> SUFFICES ASSUME SystemVShmInv, NEW n \in ShmName, NEW t \in Thread, NEW u \in Thread,
                    {<<t, n>>, <<u, n>>} \subseteq attached,
                    {shmid[<<t, n>>], shmid[<<u, n>>]} \subseteq segments,
                    {<<t, n>>, <<u, n>>} \cap no_file = {}
             PROVE  shmid[<<t, n>>] = shmid[<<u, n>>]
  BY DEF MappedShare
<1> USE DEF SystemVShmInv
<1> DEFINE a == <<t, n>>
           b == <<u, n>>
<1>1. a \in XHandle /\ b \in XHandle /\ a \notin no_file /\ b \notin no_file
  BY DEF XHandle
<1>2. shmid[a] # NoShmId /\ shmid[b] # NoShmId
  BY DEF MappedIsOpen
<1>3. h_key[a] = shm_file[n] /\ h_key[b] = shm_file[n]
  BY <1>1, <1>2 DEF KeysAgree
<1>4. shm_key[shmid[a]] = shm_key[shmid[b]]
  BY <1>1, <1>2, <1>3 DEF KeysAgree
<1> QED
  BY <1>4 DEF OneSegmentPerKey

(* IPC_*SharedMemory of System V: a segment goes under a process that has  *)
(* it mapped only if that process mapped it between the look and the       *)
(* removal of a delete or later; and those who map a name have the same    *)
(* segment unless a delete removed a segment or a key file of theirs.      *)
THEOREM SystemVShmSafe ==
  ASSUME ShmName # {}
  PROVE  SystemVShmSpec => []SystemVShmSound
<1>1. SystemVShmInit => SystemVShmInv
  BY SystemVShmInitInv
<1>2. SystemVShmInv => SystemVShmSound
  BY SameKeySameSegment DEF SystemVShmInv, SystemVShmSound
<1> QED
  BY <1>1, <1>2, SystemVShmNextInv, PTL DEF SystemVShmSpec

-----------------------------------------------------------------------------
(***************************************************************************)
(* Shared memory of the POSIX backend, on Linux and on QNX.                *)
(***************************************************************************)

(* A create that is under way has a slot of its own, which is open from    *)
(* the shm_open that succeeds until the create fails.                      *)
CreateOwnsSlot ==
  /\ \A t \in Thread :
       /\ mstep[t] = "idle" <=> mslot[t] = NoSlot
       /\ mstep[t] = "open" => ipc_shm[mslot[t]] = NoSegment
       /\ mstep[t] \in {"fstat", "truncate"} => ipc_shm[mslot[t]] # NoSegment
  /\ \A t, u \in Thread : (mslot[t] = mslot[u] /\ mslot[t] # NoSlot) => t = u

(* A handle gets its size at the end of its create. *)
SizedWhenOpened ==
  \A s \in Slot : ipc_size[s] # 0 =>
    ipc_shm[s] # NoSegment /\ \A t \in Thread : mslot[t] # s

CreatorsHaveObject == \A s \in creators : ipc_shm[s] # NoSegment

PosixShmInv ==
  /\ PosixShmTypeOK
  /\ CreateOwnsSlot
  /\ SizedWhenOpened
  /\ CreatorsHaveObject
  /\ MappedWithinObject
  /\ OneCreator
  /\ SameObjectUnlessDeleted

-----------------------------------------------------------------------------
LEMMA PosixShmInitInv ==
  ASSUME ShmName # {}, PosixShmInit
  PROVE  PosixShmInv
<1>1. PosixShmTypeOK
  BY PosixShmAssumption DEF PosixShmInit, PosixShmTypeOK
<1> QED
  BY <1>1 DEF PosixShmInit, PosixShmInv, CreateOwnsSlot, SizedWhenOpened,
       CreatorsHaveObject, MappedWithinObject, OneCreator, SameObjectUnlessDeleted

(* A new object is nobody else's, and a name that had none had no handle   *)
(* that is not cut off.                                                    *)
LEMMA ExclusiveOpenInv ==
  ASSUME PosixShmInv, NEW t \in Thread, NEW s \in Slot, NEW n \in ShmName,
         NEW tells \in BOOLEAN, ExclusiveOpen(t, s, n, tells)
  PROVE  PosixShmInv'
<1> USE LibraryAssumption, PosixShmAssumption DEF PosixShmInv
<1>1. mstep[t] = "idle" /\ ipc_shm[s] = NoSegment /\ \A u \in Thread : mslot[u] # s
  BY DEF ExclusiveOpen
<1>2. shm_name' = [shm_name EXCEPT ![s] = n] /\ mslot' = [mslot EXCEPT ![t] = s]
  BY DEF ExclusiveOpen
<1>3. UNCHANGED <<qnx, ipc_size, ipc_data, cut_off>>
  BY DEF ExclusiveOpen
<1>4. ipc_size[s] = 0 /\ s \notin creators
  BY <1>1 DEF SizedWhenOpened, CreatorsHaveObject
<1>5. ASSUME NEW g \in Unused,
             object[n] = NoSegment,
             object' = [object EXCEPT ![n] = g],
             st_size' = [st_size EXCEPT ![g] = 0],
             ipc_shm' = [ipc_shm EXCEPT ![s] = g],
             creators' = IF tells THEN creators \cup {s} ELSE creators,
             mstep' = [mstep EXCEPT ![t] = "truncate"]
      PROVE  PosixShmInv'
  <2>1. g \in Segment /\ \A x \in Slot : ipc_shm[x] # g
    BY DEF Unused
  <2>2. PosixShmTypeOK'
    BY <1>2, <1>3, <1>5, <2>1 DEF PosixShmTypeOK
  <2>3. CreateOwnsSlot'
    BY <1>1, <1>2, <1>5, <2>1 DEF CreateOwnsSlot, PosixShmTypeOK
  <2>4. SizedWhenOpened'
    BY <1>2, <1>3, <1>4, <1>5 DEF SizedWhenOpened, PosixShmTypeOK
  <2>5. CreatorsHaveObject'
    BY <1>5, <2>1 DEF CreatorsHaveObject, PosixShmTypeOK
  <2>6. MappedWithinObject'
    BY <1>3, <1>4, <1>5, <2>1 DEF MappedWithinObject, SizedWhenOpened, PosixShmTypeOK
  <2>7. OneCreator'
    BY <1>4, <1>5, <2>1 DEF OneCreator, PosixShmTypeOK
  <2>8. SameObjectUnlessDeleted'
    BY <1>2, <1>3, <1>5, <2>1 DEF SameObjectUnlessDeleted, PosixShmTypeOK
  <2> QED
    BY <2>2, <2>3, <2>4, <2>5, <2>6, <2>7, <2>8
<1>6. ASSUME object[n] # NoSegment,
             mstep' = [mstep EXCEPT ![t] = "open"],
             UNCHANGED <<object, st_size, ipc_shm, creators>>
      PROVE  PosixShmInv'
  <2>1. PosixShmTypeOK'
    BY <1>2, <1>3, <1>6 DEF PosixShmTypeOK
  <2>2. CreateOwnsSlot'
    BY <1>1, <1>2, <1>6 DEF CreateOwnsSlot, PosixShmTypeOK
  <2>3. SizedWhenOpened'
    BY <1>2, <1>3, <1>4, <1>6 DEF SizedWhenOpened, PosixShmTypeOK
  <2>4. (CreatorsHaveObject /\ MappedWithinObject /\ OneCreator)'
    BY <1>3, <1>6 DEF CreatorsHaveObject, MappedWithinObject, OneCreator
  <2>5. SameObjectUnlessDeleted'
    BY <1>1, <1>2, <1>3, <1>6 DEF SameObjectUnlessDeleted, PosixShmTypeOK
  <2> QED
    BY <2>1, <2>2, <2>3, <2>4, <2>5
<1> QED
  BY <1>5, <1>6 DEF ExclusiveOpen

(* A create that fails takes nothing with it but its own handle. *)
LEMMA MFailInv ==
  ASSUME PosixShmInv, NEW t \in Thread, NEW from \in {"open", "truncate"}, MFail(t, from)
  PROVE  PosixShmInv'
<1> USE LibraryAssumption, PosixShmAssumption DEF PosixShmInv, MFail, MGoto, MDone
<1>1. mslot[t] \in Slot
  BY DEF CreateOwnsSlot, PosixShmTypeOK
<1>2. ipc_size[mslot[t]] = 0
  BY <1>1 DEF SizedWhenOpened
<1>3. UNCHANGED <<qnx, object, st_size, shm_name, ipc_size, ipc_data>>
  BY DEF shmObjects
<1>4. PosixShmTypeOK'
  BY <1>1, <1>3 DEF PosixShmTypeOK
<1>5. CreateOwnsSlot'
  BY <1>1 DEF CreateOwnsSlot, PosixShmTypeOK
<1>6. SizedWhenOpened'
  BY <1>1, <1>2, <1>3 DEF SizedWhenOpened, PosixShmTypeOK
<1>7. (CreatorsHaveObject /\ OneCreator)'
  BY <1>1 DEF CreatorsHaveObject, OneCreator, PosixShmTypeOK
<1>8. MappedWithinObject'
  BY <1>1, <1>2, <1>3 DEF MappedWithinObject, PosixShmTypeOK
<1>9. SameObjectUnlessDeleted'
  BY <1>1, <1>3 DEF SameObjectUnlessDeleted, PosixShmTypeOK
<1> QED
  BY <1>4, <1>5, <1>6, <1>7, <1>8, <1>9

LEMMA OpenObjectInv ==
  ASSUME PosixShmInv, NEW t \in Thread, OpenObject(t)
  PROVE  PosixShmInv'
<1> USE LibraryAssumption, PosixShmAssumption DEF PosixShmInv
<1>1. mslot[t] \in Slot /\ ipc_shm[mslot[t]] = NoSegment
  BY DEF OpenObject, CreateOwnsSlot, PosixShmTypeOK
<1>2. CASE object[shm_name[mslot[t]]] = NoSegment
  BY <1>2, MFailInv DEF OpenObject
<1>3. CASE object[shm_name[mslot[t]]] # NoSegment
  <2> USE DEF MGoto
  <2>1. /\ mstep[t] = "open" /\ mstep' = [mstep EXCEPT ![t] = "fstat"]
        /\ ipc_shm' = [ipc_shm EXCEPT ![mslot[t]] = object[shm_name[mslot[t]]]]
        /\ UNCHANGED <<qnx, object, st_size, shm_name, ipc_size, ipc_data, mslot, creators, cut_off>>
    BY <1>3 DEF OpenObject, shmObjects
  <2>2. object[shm_name[mslot[t]]] \in Segment
    BY <1>1, <1>3 DEF PosixShmTypeOK
  <2>3. ipc_size[mslot[t]] = 0 /\ mslot[t] \notin creators
    BY <1>1 DEF SizedWhenOpened, CreatorsHaveObject
  <2>4. PosixShmTypeOK'
    BY <1>1, <2>1, <2>2 DEF PosixShmTypeOK
  <2>5. CreateOwnsSlot'
    BY <1>1, <1>3, <2>1 DEF CreateOwnsSlot, PosixShmTypeOK
  <2>6. (SizedWhenOpened /\ CreatorsHaveObject /\ MappedWithinObject /\ OneCreator)'
    BY <1>1, <2>1, <2>3
       DEF SizedWhenOpened, CreatorsHaveObject, MappedWithinObject, OneCreator, PosixShmTypeOK
  <2>7. SameObjectUnlessDeleted'
    BY <1>1, <2>1 DEF SameObjectUnlessDeleted, PosixShmTypeOK
  <2> QED
    BY <2>4, <2>5, <2>6, <2>7
<1> QED
  BY <1>2, <1>3

(* An object that has a size has the one that clients ask for. *)
LEMMA FstatInv ==
  ASSUME PosixShmInv, NEW t \in Thread, Fstat(t)
  PROVE  PosixShmInv'
<1> USE LibraryAssumption, PosixShmAssumption DEF PosixShmInv, Fstat, MGoto, MDone
<1> DEFINE s == mslot[t]
<1>1. s \in Slot /\ ipc_shm[s] \in Segment
  BY DEF CreateOwnsSlot, PosixShmTypeOK
<1>2. UNCHANGED <<qnx, object, st_size, shm_name, ipc_shm, ipc_data, creators, cut_off>>
  BY DEF shmObjects
<1>3. (CreatorsHaveObject /\ OneCreator /\ SameObjectUnlessDeleted)'
  BY <1>2 DEF CreatorsHaveObject, OneCreator, SameObjectUnlessDeleted
<1>4. CASE st_size[ipc_shm[s]] > 0
  <2>1. /\ mstep' = [mstep EXCEPT ![t] = "idle"] /\ mslot' = [mslot EXCEPT ![t] = NoSlot]
        /\ ipc_size' = [ipc_size EXCEPT ![s] = ShmSize]
    BY <1>4
  <2>2. st_size[ipc_shm[s]] = ShmSize
    BY <1>1, <1>4 DEF PosixShmTypeOK
  <2>3. PosixShmTypeOK'
    BY <1>1, <1>2, <2>1 DEF PosixShmTypeOK
  <2>4. CreateOwnsSlot'
    BY <1>1, <1>2, <2>1 DEF CreateOwnsSlot, PosixShmTypeOK
  <2>5. (SizedWhenOpened /\ MappedWithinObject)'
    BY <1>1, <1>2, <2>1, <2>2
       DEF SizedWhenOpened, MappedWithinObject, CreateOwnsSlot, PosixShmTypeOK
  <2> QED
    BY <1>3, <2>3, <2>4, <2>5
<1>5. CASE ~(st_size[ipc_shm[s]] > 0)
  <2>1. /\ mstep' = [mstep EXCEPT ![t] = "truncate"]
        /\ UNCHANGED <<ipc_size, mslot>>
    BY <1>5
  <2>2. PosixShmTypeOK'
    BY <1>2, <2>1 DEF PosixShmTypeOK
  <2>3. (CreateOwnsSlot /\ SizedWhenOpened /\ MappedWithinObject)'
    BY <1>2, <2>1 DEF CreateOwnsSlot, SizedWhenOpened, MappedWithinObject, PosixShmTypeOK
  <2> QED
    BY <1>3, <2>2, <2>3
<1> QED
  BY <1>4, <1>5

(* Sizing an object, again or for the first time, shrinks it for nobody. *)
LEMMA FtruncateObjectInv ==
  ASSUME PosixShmInv, NEW t \in Thread, FtruncateObject(t)
  PROVE  PosixShmInv'
<1> USE LibraryAssumption, PosixShmAssumption DEF PosixShmInv, FtruncateObject, MGoto, MDone
<1> DEFINE s == mslot[t]
<1>1. s \in Slot /\ ipc_shm[s] \in Segment
  BY DEF CreateOwnsSlot, PosixShmTypeOK
<1>2. PosixShmTypeOK'
  BY <1>1 DEF PosixShmTypeOK
<1>3. CreateOwnsSlot'
  BY <1>1 DEF CreateOwnsSlot, PosixShmTypeOK
<1>4. SizedWhenOpened'
  BY <1>1 DEF SizedWhenOpened, CreateOwnsSlot, PosixShmTypeOK
<1>5. MappedWithinObject'
  BY <1>1 DEF MappedWithinObject, SizedWhenOpened, PosixShmTypeOK
<1>6. (CreatorsHaveObject /\ OneCreator /\ SameObjectUnlessDeleted)'
  BY DEF CreatorsHaveObject, OneCreator, SameObjectUnlessDeleted
<1> QED
  BY <1>2, <1>3, <1>4, <1>5, <1>6

LEMMA OpenSharedMemoryInv ==
  ASSUME PosixShmInv, NEW t \in Thread, NEW s \in Slot, NEW n \in ShmName,
         insys_openSharedMemory(t, s, n)
  PROVE  PosixShmInv'
<1> USE LibraryAssumption, PosixShmAssumption DEF PosixShmInv, insys_openSharedMemory
<1>1. UNCHANGED <<qnx, object, st_size, ipc_size, ipc_data, mstep, mslot, creators, cut_off>>
  BY DEF shmObjects
<1>2. ipc_size[s] = 0 /\ s \notin creators
  BY DEF SizedWhenOpened, CreatorsHaveObject
<1>3. PosixShmTypeOK'
  BY <1>1 DEF PosixShmTypeOK
<1>4. CreateOwnsSlot'
  BY <1>1 DEF CreateOwnsSlot, PosixShmTypeOK
<1>5. (SizedWhenOpened /\ CreatorsHaveObject /\ MappedWithinObject /\ OneCreator)'
  BY <1>1, <1>2
     DEF SizedWhenOpened, CreatorsHaveObject, MappedWithinObject, OneCreator, PosixShmTypeOK
<1>6. SameObjectUnlessDeleted'
  BY <1>1 DEF SameObjectUnlessDeleted, PosixShmTypeOK
<1> QED
  BY <1>3, <1>4, <1>5, <1>6

-----------------------------------------------------------------------------
LEMMA MapObjectInv ==
  ASSUME PosixShmInv, NEW t \in Thread, NEW s \in Slot, MapObject(t, s) \/ UnmapObject(t, s)
  PROVE  PosixShmInv'
<1> USE LibraryAssumption, PosixShmAssumption DEF PosixShmInv
<1>1. UNCHANGED <<qnx, object, st_size, shm_name, ipc_shm, mstep, mslot, creators, cut_off>>
  BY DEF MapObject, UnmapObject, shmObjects
<1>2. ipc_size' \in [Slot -> {0, ShmSize}] /\ ipc_data' \subseteq Slot
  BY DEF MapObject, UnmapObject, PosixShmTypeOK
<1>3. \A x \in Slot : ipc_size'[x] \in {0, ipc_size[x]}
  BY DEF MapObject, UnmapObject, PosixShmTypeOK
<1>4. PosixShmTypeOK'
  BY <1>1, <1>2 DEF PosixShmTypeOK
<1>5. (CreateOwnsSlot /\ CreatorsHaveObject /\ OneCreator /\ SameObjectUnlessDeleted)'
  BY <1>1 DEF CreateOwnsSlot, CreatorsHaveObject, OneCreator, SameObjectUnlessDeleted
<1>6. (SizedWhenOpened /\ MappedWithinObject)'
  BY <1>1, <1>3 DEF SizedWhenOpened, MappedWithinObject
<1> QED
  BY <1>4, <1>5, <1>6

(* A delete gives up one handle.  What it does to the name shows in        *)
(* SameObjectUnlessDeleted alone, by which the two systems differ.         *)
LEMMA GiveUpInv ==
  ASSUME PosixShmInv, NEW t \in Thread, NEW s \in Slot, GiveUp(t, s),
         object' \in [ShmName -> Segment \cup {NoSegment}],
         cut_off' \subseteq Slot,
         SameObjectUnlessDeleted'
  PROVE  PosixShmInv'
<1> USE LibraryAssumption, PosixShmAssumption DEF PosixShmInv, GiveUp, Ready
<1>1. PosixShmTypeOK'
  BY DEF PosixShmTypeOK
<1>2. CreateOwnsSlot'
  BY DEF CreateOwnsSlot, PosixShmTypeOK
<1>3. (SizedWhenOpened /\ CreatorsHaveObject)'
  BY DEF SizedWhenOpened, CreatorsHaveObject, PosixShmTypeOK
<1>4. (MappedWithinObject /\ OneCreator)'
  BY DEF MappedWithinObject, OneCreator, PosixShmTypeOK
<1> QED
  BY <1>1, <1>2, <1>3, <1>4

LEMMA PosixDeleteInv ==
  ASSUME PosixShmInv, NEW t \in Thread, NEW s \in Slot, posix_deleteSharedMemory(t, s)
  PROVE  PosixShmInv'
<1> USE DEF PosixShmInv, posix_deleteSharedMemory
<1>1. object' \in [ShmName -> Segment \cup {NoSegment}] /\ cut_off' \subseteq Slot
  BY DEF PosixShmTypeOK
<1>2. SameObjectUnlessDeleted'
  BY DEF GiveUp, SameObjectUnlessDeleted, PosixShmTypeOK
<1> QED
  BY <1>1, <1>2, GiveUpInv

LEMMA InsysDeleteInv ==
  ASSUME PosixShmInv, NEW t \in Thread, NEW s \in Slot, insys_deleteSharedMemory(t, s)
  PROVE  PosixShmInv'
<1> USE DEF PosixShmInv, insys_deleteSharedMemory
<1>1. object' \in [ShmName -> Segment \cup {NoSegment}] /\ cut_off' \subseteq Slot
  BY DEF PosixShmTypeOK
<1>2. SameObjectUnlessDeleted'
  BY DEF GiveUp, SameObjectUnlessDeleted, PosixShmTypeOK
<1> QED
  BY <1>1, <1>2, GiveUpInv

-----------------------------------------------------------------------------
LEMMA PosixShmNextInv ==
  PosixShmInv /\ [PosixShmNext]_shmVars => PosixShmInv'
<1> SUFFICES ASSUME PosixShmInv, [PosixShmNext]_shmVars
             PROVE  PosixShmInv'
  OBVIOUS
<1>1. ASSUME NEW t \in Thread, NEW s \in Slot, NEW n \in ShmName,
             \/ posix_createSharedMemory(t, s, n) \/ posix_createSharedMemoryEx(t, s, n)
             \/ insys_createSharedMemory(t, s, n) \/ insys_createSharedMemoryEx(t, s, n)
      PROVE  PosixShmInv'
  BY <1>1, ExclusiveOpenInv
     DEF posix_createSharedMemory, posix_createSharedMemoryEx,
         insys_createSharedMemory, insys_createSharedMemoryEx
<1>2. ASSUME NEW t \in Thread, FtruncateFails(t) PROVE PosixShmInv'
  BY <1>2, MFailInv DEF FtruncateFails
<1>3. ASSUME NEW t \in Thread, NEW s \in Slot,
             \/ posix_mapSharedMemory(t, s) \/ insys_mapSharedMemory(t, s)
             \/ posix_unmapSharedMemory(t, s) \/ insys_unmapSharedMemory(t, s)
      PROVE  PosixShmInv'
  BY <1>3, MapObjectInv
     DEF posix_mapSharedMemory, insys_mapSharedMemory,
         posix_unmapSharedMemory, insys_unmapSharedMemory
<1>4. CASE UNCHANGED shmVars
  BY <1>4 DEF shmVars, shmObjects, shmHandles, PosixShmInv, PosixShmTypeOK, CreateOwnsSlot,
       SizedWhenOpened, CreatorsHaveObject, MappedWithinObject, OneCreator, SameObjectUnlessDeleted
<1> QED
  BY <1>1, <1>2, <1>3, <1>4, OpenObjectInv, FstatInv, FtruncateObjectInv,
     OpenSharedMemoryInv, PosixDeleteInv, InsysDeleteInv
     DEF PosixShmNext

(* IPC_*SharedMemory*: whatever the order in which clients make, find, size *)
(* and delete an object, and whichever of them fail between two calls of   *)
(* the system, no mapping is longer than its object, one client at most is *)
(* told that it made it, and only a delete parts those who share a name.   *)
THEOREM PosixShmSafe ==
  ASSUME ShmName # {}
  PROVE  PosixShmSpec => []PosixShmSound
<1>1. PosixShmInit => PosixShmInv
  BY PosixShmInitInv
<1>2. PosixShmInv => PosixShmSound
  BY DEF PosixShmInv, PosixShmSound
<1> QED
  BY <1>1, <1>2, PosixShmNextInv, PTL DEF PosixShmSpec

-----------------------------------------------------------------------------
(***************************************************************************)
(* INI files.                                                              *)
(***************************************************************************)

LEMMA MinIsLeast ==
  ASSUME NEW S \in SUBSET Nat, S # {}
  PROVE  Min(S) \in S /\ \A y \in S : Min(S) <= y
<1>1. PICK x \in S : \A y \in S : <<y, x>> \notin OpToRel(<, Nat)
  BY NatLessThanWellFounded, WFMin
<1>2. ASSUME NEW y \in S, y < x PROVE FALSE
  <2>1. <<y, x>> \in OpToRel(<, Nat)
    BY <1>2 DEF OpToRel
  <2>2. QED
    BY <1>1, <2>1
<1>3. \A y \in S : x <= y
  BY <1>2
<1>4. QED
  BY <1>3 DEF Min

LEMMA LeastIsMin ==
  ASSUME NEW S \in SUBSET Nat, NEW x \in S, \A y \in S : x <= y
  PROVE  Min(S) = x
<1>1. Min(S) \in S /\ Min(S) <= x /\ x <= Min(S)
  BY MinIsLeast
<1>2. Min(S) \in Nat /\ x \in Nat
  BY <1>1
<1>3. QED
  BY <1>1, <1>2

(* What a read looks for: the first line of M after, or at, one of Q.      *)
Hits(f, M, Q) == {j \in DOMAIN f : f[j] \in M /\ \E i \in 1 .. j : f[i] \in Q}

(* g is f with the option of job j put in, or put in the place of one of   *)
(* its name, and perhaps a section before it at the end; p says where the  *)
(* lines went.                                                             *)
Edited(f, g, j, p) ==
  /\ p \in [DOMAIN f -> DOMAIN g]
  /\ \A i, x \in DOMAIN f : i < x => p[i] < p[x]
  /\ \A i \in DOMAIN f : g[p[i]] = f[i] \/ (/\ IsOptionName(f[i]) /\ f[i].name = j.key
                                            /\ g[p[i]] = OptionLine(j))
  /\ \A y \in DOMAIN g :
       \/ \E i \in DOMAIN f : y = p[i]
       \/ g[y] = OptionLine(j)
       \/ IsSection(g[y]) /\ \A z \in DOMAIN g : z > y => g[z] = OptionLine(j)

LEMMA OtherHitsKept ==
  ASSUME NEW f \in Seq(Line), NEW g \in Seq(Line), NEW j \in Job, NEW p, Edited(f, g, j, p),
         NEW M \in SUBSET Line, NEW Q \in SUBSET Line,
         \A l \in M : IsOptionName(l), OptionLine(j) \notin M,
         \A i \in DOMAIN f : (IsOptionName(f[i]) /\ f[i].name = j.key) => f[i] \notin M,
         \A l \in Q : IsSection(l)
  PROVE  FirstValue(f, Hits(f, M, Q)) = FirstValue(g, Hits(g, M, Q))
<1>1. DOMAIN f = 1 .. Len(f) /\ DOMAIN g = 1 .. Len(g) /\ Len(f) \in Nat /\ Len(g) \in Nat
  BY LenProperties
<1>2. (\A l \in Line : ~(IsSection(l) /\ IsOptionName(l))) /\ IsOptionName(OptionLine(j)) /\ OptionLine(j) \in Line
  BY DEF IsSection, IsOptionName, OptionLine, Job, Line
<1>3. \A i \in DOMAIN f : f[i] \in Line /\ p[i] \in DOMAIN g /\ g[p[i]] \in Line
  BY ElementOfSeq, <1>1 DEF Edited
<1>4. ASSUME NEW i \in DOMAIN f, f[i] \in M \cup Q PROVE g[p[i]] = f[i]
  BY <1>2, <1>3, <1>4 DEF Edited
<1>5. ASSUME NEW i \in DOMAIN f, g[p[i]] \in M \cup Q PROVE g[p[i]] = f[i]
  BY <1>2, <1>3, <1>5 DEF Edited
<1>a. ASSUME NEW i \in DOMAIN f, NEW n \in DOMAIN f
      PROVE  i \in Nat /\ n \in Nat /\ p[i] \in Nat /\ p[n] \in Nat /\ (i < n => p[i] < p[n])
  BY <1>1, <1>3 DEF Edited
<1>6. ASSUME NEW i \in DOMAIN f, NEW n \in DOMAIN f PROVE p[i] <= p[n] <=> i <= n
  <2>1. i < n => p[i] < p[n]
    BY <1>a
  <2>2. n < i => p[n] < p[i]
    BY <1>a
  <2>3. i \in Nat /\ n \in Nat /\ p[i] \in Nat /\ p[n] \in Nat
    BY <1>a
  <2>4. QED
    BY <2>1, <2>2, <2>3
<1>7. ASSUME NEW n \in Hits(f, M, Q) PROVE p[n] \in Hits(g, M, Q) /\ g[p[n]] = f[n]
  <2>1. PICK i \in 1 .. n : f[i] \in Q
    BY <1>7 DEF Hits
  <2>2. n \in DOMAIN f /\ i \in DOMAIN f /\ f[n] \in M
    BY <1>1, <1>7 DEF Hits
  <2>3. p[i] <= p[n] /\ p[i] \in DOMAIN g /\ p[n] \in DOMAIN g
    BY <1>1, <1>3, <1>6, <2>1, <2>2
  <2>4. g[p[i]] \in Q /\ g[p[n]] \in M /\ g[p[n]] = f[n]
    BY <1>4, <2>1, <2>2
  <2>5. p[i] \in 1 .. p[n]
    BY <1>1, <2>3
  <2>6. QED
    BY <2>3, <2>4, <2>5 DEF Hits
<1>8. ASSUME NEW y \in Hits(g, M, Q) PROVE \E n \in Hits(f, M, Q) : y = p[n]
  <2>1. PICK x \in 1 .. y : g[x] \in Q
    BY <1>8 DEF Hits
  <2>2. y \in DOMAIN g /\ x \in DOMAIN g /\ g[y] \in M /\ g[x] \in Line /\ g[y] \in Line
    BY <1>1, <1>8, ElementOfSeq DEF Hits
  <2>3. x < y
    <3>1. x # y
      BY <1>2, <2>1, <2>2
    <3>2. QED
      BY <1>1, <2>1, <2>2, <3>1
  <2>4. g[y] # OptionLine(j) /\ ~IsSection(g[y])
    BY <1>2, <2>2
  <2>5. PICK n \in DOMAIN f : y = p[n]
    BY <2>2, <2>4 DEF Edited
  <2>6. ~IsOptionName(g[x]) /\ IsSection(g[x])
    BY <1>2, <2>1, <2>2
  <2>7. PICK i \in DOMAIN f : x = p[i]
    BY <1>1, <1>2, <2>2, <2>3, <2>4, <2>6 DEF Edited
  <2>8. f[n] \in M /\ f[i] \in Q
    BY <1>5, <2>1, <2>2, <2>5, <2>7
  <2>9. i <= n
    BY <1>1, <1>6, <2>1, <2>2, <2>5, <2>7
  <2>10. QED
    BY <1>1, <2>5, <2>8, <2>9 DEF Hits
<1>9. Hits(f, M, Q) \in SUBSET Nat /\ Hits(g, M, Q) \in SUBSET Nat
  BY <1>1 DEF Hits
<1>10. CASE Hits(f, M, Q) = {}
  <2>1. Hits(g, M, Q) = {}
    BY <1>8, <1>10
  <2>2. QED
    BY <1>10, <2>1 DEF FirstValue
<1>11. CASE Hits(f, M, Q) # {}
  <2>1. PICK n \in Hits(f, M, Q) : n = Min(Hits(f, M, Q)) /\ \A i \in Hits(f, M, Q) : n <= i
    BY <1>9, <1>11, MinIsLeast
  <2>2. p[n] \in Hits(g, M, Q) /\ g[p[n]] = f[n]
    BY <1>7
  <2>3. ASSUME NEW y \in Hits(g, M, Q) PROVE p[n] <= y
    <3>1. PICK i \in Hits(f, M, Q) : y = p[i]
      BY <1>8
    <3>2. n <= i /\ i \in DOMAIN f /\ n \in DOMAIN f
      BY <2>1 DEF Hits
    <3>3. QED
      BY <1>1, <1>3, <3>1, <3>2 DEF Edited
  <2>4. Min(Hits(g, M, Q)) = p[n]
    BY <1>9, <2>2, <2>3, LeastIsMin
  <2>5. QED
    BY <1>11, <2>1, <2>2, <2>4 DEF FirstValue
<1>12. QED
  BY <1>10, <1>11

-----------------------------------------------------------------------------
(* Where a write puts the option: after the first line h of its section,   *)
(* with neither another section nor an option of its name in between.      *)
Placed(g, j, h, e) ==
  /\ h \in DOMAIN g /\ e \in DOMAIN g /\ h < e
  /\ IsSection(g[h]) /\ g[h].name = j.section
  /\ g[e] = OptionLine(j)
  /\ \A i \in 1 .. h - 1 : ~(IsSection(g[i]) /\ g[i].name = j.section)
  /\ \A i \in h + 1 .. e - 1 : ~IsSection(g[i]) /\ g[i].name # j.key

(* The new contents, line by line. *)
LEMMA RewrittenLines ==
  ASSUME NEW f \in Seq(Line), NEW j \in Job
  PROVE  /\ Rewritten(f, j) \in Seq(Line)
         /\ \E h, e : Placed(Rewritten(f, j), j, h, e)
         /\ \E p : Edited(f, Rewritten(f, j), j, p)
<1> DEFINE line == OptionLine(j)
           head == HeadLine(j)
           hs == SectionLine(f, j.section)
           g == Rewritten(f, j)
<1>0. line \in Line /\ head \in Line /\ IsOptionName(line) /\ ~IsSection(line) /\ IsSection(head)
      /\ line.name = j.key
      /\ head.name = j.section
  BY DEF Job, Line, IsOptionName, IsSection, OptionLine, HeadLine
<1>1. DOMAIN f = 1 .. Len(f) /\ Len(f) \in Nat /\ \A i \in DOMAIN f : f[i] \in Line
  BY LenProperties, ElementOfSeq
<1>2. CASE hs = {}
  <2>1. g = f \o <<head, line>>
    BY <1>2 DEF Rewritten
  <2>2. <<head, line>> \in Seq(Line) /\ Len(<<head, line>>) = 2 /\ <<head, line>>[1] = head
        /\ <<head, line>>[2] = line
    BY <1>0
  <2> HIDE DEF head, line, g, hs
  <2>3. /\ g \in Seq(Line) /\ Len(g) = Len(f) + 2 /\ DOMAIN g = 1 .. Len(f) + 2
        /\ \A i \in 1 .. Len(f) : g[i] = f[i]
        /\ g[Len(f) + 1] = head /\ g[Len(f) + 2] = line
    BY <1>1, <2>1, <2>2, ConcatProperties, LenProperties
  <2>4. \A i \in 1 .. Len(f) : ~(IsSection(g[i]) /\ g[i].name = j.section)
    BY <1>1, <1>2, <2>3 DEF hs, SectionLine
  <2>5. Placed(g, j, Len(f) + 1, Len(f) + 2)
    BY <1>0, <1>1, <2>3, <2>4 DEF Placed, line
  <2>6. Edited(f, g, j, [i \in DOMAIN f |-> i])
    BY <1>0, <1>1, <2>3 DEF Edited, line
  <2>7. QED
    BY <2>3, <2>5, <2>6 DEF g
<1>3. CASE hs # {}
  <2> DEFINE h == Min(hs)
             stops == {i \in h + 1 .. Len(f) : IsSection(f[i]) \/ f[i].name = j.key} \cup {Len(f) + 1}
             e == StopLine(f, h, j.key)
             m == IF e <= Len(f) /\ IsOptionName(f[e]) THEN e + 1 ELSE e
  <2>1. g = SubSeq(f, 1, e - 1) \o <<line>> \o SubSeq(f, m, Len(f))
    BY <1>3 DEF Rewritten
  <2>2. h \in 1 .. Len(f) /\ h \in Nat /\ IsSection(f[h]) /\ f[h].name = j.section
        /\ \A i \in 1 .. h - 1 : ~(IsSection(f[i]) /\ f[i].name = j.section)
    <3>1. hs \in SUBSET Nat
      BY <1>1 DEF SectionLine
    <3>2. h \in hs /\ \A y \in hs : h <= y
      BY <1>3, <3>1, MinIsLeast
    <3>3. h \in 1 .. Len(f) /\ IsSection(f[h]) /\ f[h].name = j.section
      BY <1>1, <3>2 DEF SectionLine
    <3>4. ASSUME NEW i \in 1 .. h - 1, IsSection(f[i]), f[i].name = j.section PROVE FALSE
      <4>1. i \in hs
        BY <1>1, <3>3, <3>4 DEF SectionLine
      <4>2. QED
        BY <3>2, <3>3, <4>1
    <3>5. QED
      BY <1>1, <3>3, <3>4
  <2>3. e \in h + 1 .. Len(f) + 1 /\ (e <= Len(f) => IsSection(f[e]) \/ f[e].name = j.key)
        /\ \A i \in h + 1 .. e - 1 : ~IsSection(f[i]) /\ f[i].name # j.key
    <3>1. stops \in SUBSET Nat /\ stops # {}
      BY <1>1, <2>2
    <3>2. e = Min(stops)
      BY DEF StopLine
    <3>3. e \in stops /\ \A y \in stops : e <= y
      BY <3>1, <3>2, MinIsLeast
    <3>4. QED
      BY <1>1, <2>2, <3>3
  <2> HIDE DEF h, e, stops
  <2>4. m \in {e, e + 1} /\ e \in Nat /\ m \in Nat /\ e >= 1 /\ e <= Len(f) + 1 /\ (m = e + 1 => e <= Len(f))
    BY <1>1, <2>2, <2>3
  <2> HIDE DEF m, g, line, hs
  <2>5. SubSeq(f, 1, e - 1) \in Seq(Line) /\ Len(SubSeq(f, 1, e - 1)) = e - 1
        /\ \A i \in 1 .. e - 1 : SubSeq(f, 1, e - 1)[i] = f[i]
    BY <1>1, <2>4, SubSeqProperties
  <2>6. SubSeq(f, m, Len(f)) \in Seq(Line) /\ Len(SubSeq(f, m, Len(f))) = Len(f) - m + 1
        /\ \A i \in 1 .. Len(f) - m + 1 : SubSeq(f, m, Len(f))[i] = f[m + i - 1]
    BY <1>1, <2>4, SubSeqProperties
  <2>7. <<line>> \in Seq(Line) /\ Len(<<line>>) = 1 /\ <<line>>[1] = line
    BY <1>0
  <2>8. PICK b \in Seq(Line) : b = SubSeq(f, 1, e - 1) \o <<line>>
    BY <2>5, <2>7, ConcatProperties
  <2>9. Len(b) = e /\ b[e] = line /\ \A i \in 1 .. e - 1 : b[i] = f[i]
    <3>1. Len(b) = (e - 1) + 1
          /\ \A i \in 1 .. (e - 1) + 1 : b[i] = IF i <= e - 1 THEN SubSeq(f, 1, e - 1)[i] ELSE <<line>>[i - (e - 1)]
      BY <2>5, <2>7, <2>8, ConcatProperties
    <3>2. \A i \in 1 .. e - 1 : b[i] = f[i]
      BY <2>4, <2>5, <3>1
    <3>3. b[e] = <<line>>[e - (e - 1)] /\ e - (e - 1) = 1 /\ Len(b) = e
      BY <2>4, <3>1
    <3>4. QED
      BY <2>7, <3>2, <3>3
  <2>10. /\ g \in Seq(Line) /\ Len(g) = e + Len(f) - m + 1 /\ DOMAIN g = 1 .. Len(g) /\ g[e] = line
         /\ \A i \in 1 .. e - 1 : g[i] = f[i]
         /\ \A i \in e + 1 .. Len(g) : g[i] = f[m + (i - e) - 1]
    <3>0. PICK c \in Seq(Line) : c = SubSeq(f, m, Len(f))
      BY <2>6
    <3>a. g = b \o c
      BY <2>1, <2>8, <3>0
    <3>b. g \in Seq(Line) /\ Len(g) = Len(b) + Len(c)
          /\ \A i \in 1 .. Len(b) + Len(c) : g[i] = IF i <= Len(b) THEN b[i] ELSE c[i - Len(b)]
      BY <3>a, ConcatProperties
    <3>1. g \in Seq(Line) /\ Len(g) = e + (Len(f) - m + 1)
          /\ \A i \in 1 .. e + (Len(f) - m + 1) : g[i] = IF i <= e THEN b[i] ELSE SubSeq(f, m, Len(f))[i - e]
      BY <2>6, <2>9, <3>0, <3>b
    <3>2. Len(g) = e + Len(f) - m + 1 /\ Len(g) \in Nat /\ e <= Len(g)
      BY <1>1, <2>4, <3>1
    <3>3. g[e] = line /\ \A i \in 1 .. e - 1 : g[i] = f[i]
      <4>1. Len(f) - m + 1 >= 0 /\ Len(f) - m + 1 \in Int
        BY <1>1, <2>4
      <4>2. e \in 1 .. e + (Len(f) - m + 1)
        BY <2>4, <4>1
      <4>3. g[e] = b[e]
        BY <2>4, <3>1, <3>b, <4>2, <2>9
      <4>4. ASSUME NEW i \in 1 .. e - 1 PROVE g[i] = f[i]
        <5>1. i \in 1 .. e + (Len(f) - m + 1) /\ i <= e
          BY <2>4, <4>1
        <5>2. g[i] = b[i]
          BY <3>1, <5>1
        <5>3. QED
          BY <2>9, <5>2
      <4>5. QED
        BY <2>9, <4>3, <4>4
    <3>4. ASSUME NEW i \in e + 1 .. Len(g) PROVE g[i] = f[m + (i - e) - 1]
      <4>1. i \in Nat /\ e < i /\ i <= e + (Len(f) - m + 1)
        BY <1>1, <2>4, <3>1, <3>2
      <4>2. i - e \in 1 .. Len(f) - m + 1 /\ i \in 1 .. e + (Len(f) - m + 1) /\ ~(i <= e)
        BY <1>1, <2>4, <4>1
      <4>3. g[i] = SubSeq(f, m, Len(f))[i - e]
        BY <3>1, <4>2
      <4>4. SubSeq(f, m, Len(f))[i - e] = f[m + (i - e) - 1]
        BY <2>6, <4>2
      <4>5. QED
        BY <4>3, <4>4
    <3>5. QED
      BY <3>1, <3>2, <3>3, <3>4, LenProperties
  <2>11. Placed(g, j, h, e)
    <3>1. h < e /\ h \in 1 .. e - 1 /\ h \in DOMAIN g /\ e \in DOMAIN g
      <4>1. h < e /\ h \in 1 .. e - 1
        BY <1>1, <2>2, <2>3, <2>4
      <4>2. Len(g) >= e /\ Len(g) \in Nat
        BY <1>1, <2>4, <2>10
      <4>3. h \in 1 .. Len(g) /\ e \in 1 .. Len(g)
        BY <2>2, <2>4, <4>1, <4>2
      <4>4. QED
        BY <2>10, <4>1, <4>3
    <3>2. \A i \in 1 .. h - 1 : i \in 1 .. e - 1
      BY <2>2, <2>4, <3>1
    <3>3. \A i \in h + 1 .. e - 1 : i \in 1 .. e - 1
      BY <2>2, <2>4
    <3>4. QED
      BY <2>2, <2>3, <2>10, <3>1, <3>2, <3>3 DEF Placed, line
  <2>12. \E p : Edited(f, g, j, p)
    <3>1. CASE m = e + 1
      <4>1. e <= Len(f) /\ IsOptionName(f[e]) /\ f[e].name = j.key
        BY <1>1, <2>3, <2>4, <3>1 DEF m, IsSection, IsOptionName
      <4>2. Len(g) = Len(f) /\ \A i \in 1 .. Len(f) : i # e => g[i] = f[i]
        <5>1. Len(g) = Len(f)
          BY <1>1, <2>4, <2>10, <3>1
        <5>2. ASSUME NEW i \in 1 .. Len(f), i < e PROVE g[i] = f[i]
          BY <1>1, <2>4, <2>10, <5>2
        <5>3. ASSUME NEW i \in 1 .. Len(f), e < i PROVE g[i] = f[i]
          <6>1. i \in e + 1 .. Len(g) /\ m + (i - e) - 1 = i
            BY <1>1, <2>4, <3>1, <5>1, <5>3
          <6>2. QED
            BY <2>10, <6>1
        <5>4. QED
          BY <1>1, <2>4, <5>1, <5>2, <5>3
      <4>3. Edited(f, g, j, [i \in DOMAIN f |-> i])
        BY <1>0, <1>1, <2>4, <2>10, <4>1, <4>2 DEF Edited, line
      <4>4. QED
        BY <4>3
    <3>2. CASE m = e
      <4>1. Len(g) = Len(f) + 1 /\ \A i \in e .. Len(f) : g[i + 1] = f[i]
        <5>1. Len(g) = Len(f) + 1
          BY <1>1, <2>4, <2>10, <3>2
        <5>2. ASSUME NEW i \in e .. Len(f) PROVE g[i + 1] = f[i]
          <6>1. i + 1 \in e + 1 .. Len(g) /\ m + ((i + 1) - e) - 1 = i
            BY <1>1, <2>4, <3>2, <5>1
          <6>2. QED
            BY <2>10, <6>1
        <5>3. QED
          BY <5>1, <5>2
      <4>2. PICK p \in [DOMAIN f -> DOMAIN g] : \A i \in DOMAIN f : p[i] = IF i < e THEN i ELSE i + 1
        <5>1. [i \in DOMAIN f |-> IF i < e THEN i ELSE i + 1] \in [DOMAIN f -> DOMAIN g]
          BY <1>1, <2>4, <2>10, <4>1
        <5>2. QED
          BY <5>1
      <4>3. \A i, x \in DOMAIN f : i < x => p[i] < p[x]
        BY <1>1, <2>4, <4>2
      <4>4. \A i \in DOMAIN f : g[p[i]] = f[i]
        BY <1>1, <2>4, <2>10, <4>1, <4>2
      <4>5. \A y \in DOMAIN g : y = e \/ \E i \in DOMAIN f : y = p[i]
        <5>1. SUFFICES ASSUME NEW y \in DOMAIN g, y # e PROVE \E i \in DOMAIN f : y = p[i]
          OBVIOUS
        <5>2. CASE y < e
          BY <1>1, <2>4, <2>10, <4>1, <4>2, <5>2
        <5>3. CASE y > e
          <6>1. y - 1 \in DOMAIN f /\ p[y - 1] = y
            BY <1>1, <2>4, <2>10, <4>1, <4>2, <5>3
          <6>2. QED
            BY <6>1
        <5>4. QED
          BY <1>1, <2>4, <2>10, <5>1, <5>2, <5>3
      <4>6. Edited(f, g, j, p)
        BY <1>0, <2>10, <4>2, <4>3, <4>4, <4>5 DEF Edited, line
      <4>7. QED
        BY <4>6
    <3>3. QED
      BY <2>4, <3>1, <3>2
  <2>13. QED
    BY <2>10, <2>11, <2>12 DEF g
<1>4. QED
  BY <1>2, <1>3

-----------------------------------------------------------------------------
(* Such an option is what a read of its name finds, when all that the read *)
(* takes for the section and the option is spelled as the write spells it. *)
LEMMA PlacedIsRead ==
  ASSUME NEW g \in Seq(Line), NEW j \in Job, NEW h, NEW e, Placed(g, j, h, e),
         NEW M \in SUBSET Line, NEW Q \in SUBSET Line,
         \A l \in M : IsOptionName(l),
         \A l \in Q : IsSection(l),
         \A l \in Line : IsOptionName(l) /\ l.name = j.key => l \in M,
         \A l \in Line : IsSection(l) /\ l.name = j.section => l \in Q,
         \A i, x \in DOMAIN g : i < x /\ g[i] \in Q /\ g[x] \in M =>
                                  g[i].name = j.section /\ g[x].name = j.key
  PROVE  FirstValue(g, Hits(g, M, Q)) = j.value
<1>1. DOMAIN g = 1 .. Len(g) /\ Len(g) \in Nat /\ \A i \in DOMAIN g : g[i] \in Line
  BY LenProperties, ElementOfSeq
<1>2. h \in 1 .. Len(g) /\ e \in 1 .. Len(g) /\ h < e
  BY <1>1 DEF Placed
<1>3. IsOptionName(g[e]) /\ g[e].name = j.key /\ g[e].value = j.value /\ g[e] \in M
  BY <1>1, <1>2 DEF Placed, IsOptionName, OptionLine
<1>4. g[h] \in Q
  BY <1>1, <1>2 DEF Placed
<1>5. e \in Hits(g, M, Q)
  <2>1. h \in 1 .. e
    BY <1>2
  <2>2. QED
    BY <1>1, <1>2, <1>3, <1>4, <2>1 DEF Hits
<1>6. ASSUME NEW y \in Hits(g, M, Q) PROVE e <= y
  <2>1. PICK i \in 1 .. y : g[i] \in Q
    BY <1>6 DEF Hits
  <2>2. y \in 1 .. Len(g) /\ g[y] \in M
    BY <1>1 DEF Hits
  <2>3. i \in 1 .. Len(g) /\ i <= y
    BY <1>1, <2>1, <2>2
  <2>4. i # y
    BY <2>1, <2>2 DEF IsSection, IsOptionName
  <2>5. i < y
    BY <2>2, <2>3, <2>4
  <2>6. g[i].name = j.section /\ IsSection(g[i]) /\ g[y].name = j.key
    BY <1>1, <2>1, <2>2, <2>3, <2>5
  <2>7. ~(i < h)
    <3>1. i \notin 1 .. h - 1
      BY <2>6 DEF Placed
    <3>2. QED
      BY <1>1, <1>2, <2>3, <3>1
  <2>8. y \notin h + 1 .. e - 1
    BY <2>6 DEF Placed
  <2>9. QED
    BY <1>1, <1>2, <2>2, <2>3, <2>5, <2>7, <2>8
<1>7. Hits(g, M, Q) \in SUBSET Nat
  BY <1>1 DEF Hits
<1>8. Min(Hits(g, M, Q)) = e
  BY <1>5, <1>6, <1>7, LeastIsMin
<1>9. QED
  BY <1>3, <1>5, <1>8 DEF FirstValue

(* The two reads look for lines like this. *)
Options(k) == {l \in Line : FindOption(l, k)}
Sections(s) == {l \in Line : FindSection(l, s)}
Options_qnx(k) == {l \in Line : FindOption_qnx(l, k)}
Sections_qnx(s) == {l \in Line : FindSection_qnx(l, s)}

LEMMA ReadsAreHits ==
  ASSUME NEW f \in Seq(Line), NEW s, NEW k
  PROVE  /\ IPC_getPrivateProfileString(f, s, k) = FirstValue(f, Hits(f, Options(k), Sections(s)))
         /\ IPC_getPrivateProfileString_qnx(f, s, k) =
              FirstValue(f, Hits(f, Options_qnx(k), Sections_qnx(s)))
<1>1. DOMAIN f = 1 .. Len(f) /\ Len(f) \in Nat /\ \A i \in DOMAIN f : f[i] \in Line
  BY LenProperties, ElementOfSeq
<1>2. ASSUME NEW j \in DOMAIN f, NEW i \in 1 .. j PROVE i \in DOMAIN f /\ f[i] \in Line
  BY <1>1
<1>3. {j \in DOMAIN f : FindOption(f[j], k) /\ \E i \in 1 .. j : FindSection(f[i], s)}
        = Hits(f, Options(k), Sections(s))
  BY <1>1, <1>2 DEF Hits, Options, Sections
<1>4. {j \in DOMAIN f : FindOption_qnx(f[j], k) /\ \E i \in 1 .. j : FindSection_qnx(f[i], s)}
        = Hits(f, Options_qnx(k), Sections_qnx(s))
  BY <1>1, <1>2 DEF Hits, Options_qnx, Sections_qnx
<1>5. QED
  BY <1>3, <1>4 DEF IPC_getPrivateProfileString, IPC_getPrivateProfileString_qnx

(* What a write puts into the file is read again.                          *)
LEMMA RewrittenIsRead ==
  ASSUME NEW f \in Seq(Line), NEW j \in Job
  PROVE  LET g == Rewritten(f, j) IN
         /\ Hidden(g, j.section, j.key)
              \/ IPC_getPrivateProfileString(g, j.section, j.key) = j.value
         /\ Hidden_qnx(g, j.section, j.key)
              \/ IPC_getPrivateProfileString_qnx(g, j.section, j.key) = j.value
<1>1. PICK g \in Seq(Line) : g = Rewritten(f, j)
  BY RewrittenLines
<1>2. PICK h, e : Placed(g, j, h, e)
  BY <1>1, RewrittenLines
<1>3. j.section \in Word /\ j.key \in Word
  BY DEF Job, Word
<1>4. DOMAIN g = 1 .. Len(g) /\ \A i \in DOMAIN g : g[i] \in Line
  BY LenProperties, ElementOfSeq
<1>5. ASSUME ~Hidden(g, j.section, j.key)
      PROVE  IPC_getPrivateProfileString(g, j.section, j.key) = j.value
  <2> DEFINE M == Options(j.key)
             Q == Sections(j.section)
  <2>1. M \in SUBSET Line /\ Q \in SUBSET Line
    BY DEF Options, Sections
  <2>2. /\ \A l \in M : IsOptionName(l)
        /\ \A l \in Q : IsSection(l)
        /\ \A l \in Line : IsOptionName(l) /\ l.name = j.key => l \in M
        /\ \A l \in Line : IsSection(l) /\ l.name = j.section => l \in Q
    BY ProfileAssumption DEF Options, Sections, FindOption, FindSection, IsOptionName, Line, Job
  <2>3. \A i, x \in DOMAIN g : i < x /\ g[i] \in Q /\ g[x] \in M =>
                                 g[i].name = j.section /\ g[x].name = j.key
    BY <1>5 DEF Hidden, Options, Sections
  <2> HIDE DEF M, Q
  <2>4. FirstValue(g, Hits(g, M, Q)) = j.value
    BY <1>2, <2>1, <2>2, <2>3, PlacedIsRead
  <2>5. QED
    BY <2>4, ReadsAreHits DEF M, Q
<1>6. ASSUME ~Hidden_qnx(g, j.section, j.key)
      PROVE  IPC_getPrivateProfileString_qnx(g, j.section, j.key) = j.value
  <2> DEFINE M == Options_qnx(j.key)
             Q == Sections_qnx(j.section)
  <2>1. M \in SUBSET Line /\ Q \in SUBSET Line
    BY DEF Options_qnx, Sections_qnx
  <2>2. /\ \A l \in M : IsOptionName(l)
        /\ \A l \in Q : IsSection(l)
        /\ \A l \in Line : IsOptionName(l) /\ l.name = j.key => l \in M
        /\ \A l \in Line : IsSection(l) /\ l.name = j.section => l \in Q
    BY <1>3, ProfileAssumption DEF Options_qnx, Sections_qnx, FindOption_qnx, FindSection_qnx
  <2>3. \A i, x \in DOMAIN g : i < x /\ g[i] \in Q /\ g[x] \in M =>
                                 g[i].name = j.section /\ g[x].name = j.key
    BY <1>6 DEF Hidden_qnx, Options_qnx, Sections_qnx
  <2> HIDE DEF M, Q
  <2>4. FirstValue(g, Hits(g, M, Q)) = j.value
    BY <1>2, <2>1, <2>2, <2>3, PlacedIsRead
  <2>5. QED
    BY <2>4, ReadsAreHits DEF M, Q
<1>7. QED
  BY <1>1, <1>5, <1>6

(* All other keys are read as before.                                      *)
LEMMA RewrittenKeepsOthers ==
  ASSUME NEW f \in Seq(Line), NEW j \in Job, NEW s, NEW k
  PROVE  LET g == Rewritten(f, j) IN
         /\ Unlike(f, j, k) =>
              IPC_getPrivateProfileString(g, s, k) = IPC_getPrivateProfileString(f, s, k)
         /\ <<j.key, k>> \notin StartsWith =>
              IPC_getPrivateProfileString_qnx(g, s, k) = IPC_getPrivateProfileString_qnx(f, s, k)
<1>1. PICK g \in Seq(Line) : g = Rewritten(f, j)
  BY RewrittenLines
<1>2. PICK p : Edited(f, g, j, p)
  BY <1>1, RewrittenLines
<1>3. ASSUME Unlike(f, j, k)
      PROVE  FirstValue(f, Hits(f, Options(k), Sections(s))) = FirstValue(g, Hits(g, Options(k), Sections(s)))
  <2>1. Options(k) \in SUBSET Line /\ Sections(s) \in SUBSET Line
    BY DEF Options, Sections
  <2>2. /\ \A l \in Options(k) : IsOptionName(l)
        /\ OptionLine(j) \notin Options(k)
        /\ \A i \in DOMAIN f : (IsOptionName(f[i]) /\ f[i].name = j.key) => f[i] \notin Options(k)
    BY <1>3 DEF Options, FindOption, Unlike
  <2>3. \A l \in Sections(s) : IsSection(l)
    BY DEF Sections, FindSection
  <2>4. QED
    BY <1>2, <2>1, <2>2, <2>3, OtherHitsKept
<1>4. ASSUME <<j.key, k>> \notin StartsWith
      PROVE  FirstValue(f, Hits(f, Options_qnx(k), Sections_qnx(s)))
               = FirstValue(g, Hits(g, Options_qnx(k), Sections_qnx(s)))
  <2>1. Options_qnx(k) \in SUBSET Line /\ Sections_qnx(s) \in SUBSET Line
    BY DEF Options_qnx, Sections_qnx
  <2>2. /\ \A l \in Options_qnx(k) : IsOptionName(l)
        /\ OptionLine(j) \notin Options_qnx(k)
        /\ \A i \in DOMAIN f : (IsOptionName(f[i]) /\ f[i].name = j.key) => f[i] \notin Options_qnx(k)
    BY <1>4 DEF Options_qnx, FindOption_qnx, OptionLine
  <2>3. \A l \in Sections_qnx(s) : IsSection(l)
    BY DEF Sections_qnx, FindSection_qnx
  <2>4. QED
    BY <1>2, <2>1, <2>2, <2>3, OtherHitsKept
<1>5. QED
  BY <1>1, <1>3, <1>4, ReadsAreHits

-----------------------------------------------------------------------------
Working(w) == wstep[w] \in {"open", "write"}

(* What a write is about to put into the file comes from what it read,     *)
(* unless that was nothing.                                                *)
BufferIsImage ==
  \A w \in Writer : Working(w) =>
    /\ image[w] # <<>> => pBuf[w] = Rewritten(image[w], job[w])
    /\ image[w] = <<>> => garbled

(* Until two writes overlap there is one writer at most, and the file is   *)
(* empty while that writes.                                                *)
OneWriter ==
  ~overlapped =>
    /\ \A w, x \in Writer : wstep[w] # "idle" /\ wstep[x] # "idle" => w = x
    /\ \A w \in Writer : wstep[w] = "write" => file = <<>>

ProfileInv == ProfileTypeOK /\ BufferIsImage /\ OneWriter /\ WrittenIsRead

LEMMA NoJobIsJob == NoJob \in Job
BY ProfileAssumption DEF NoJob, Job

LEMMA ProfileInit_Inv == ProfileInit => ProfileInv
<1>1. SUFFICES ASSUME ProfileInit PROVE ProfileInv
  OBVIOUS
<1>2. file \in Seq(Line)
  BY <1>1, ProfileAssumption DEF ProfileInit
<1>a. PICK n \in Job : n = NoJob
  BY NoJobIsJob
<1>b. <<>> \in Seq(Line) /\ <<>> \in Seq(Job) /\ 0 \in 0 .. MaxWrites
  BY EmptySeq, ProfileAssumption
<1>c. /\ pBuf \in [Writer -> Seq(Line)] /\ image \in [Writer -> Seq(Line)] /\ job \in [Writer -> Job]
      /\ wstep \in [Writer -> {"idle", "read", "open", "write"}]
  BY <1>1, <1>a, <1>b DEF ProfileInit
<1>3. ProfileTypeOK
  BY <1>1, <1>2, <1>b, <1>c DEF ProfileInit, ProfileTypeOK
<1>4. QED
  BY <1>1, <1>3 DEF ProfileInit, ProfileInv, BufferIsImage, OneWriter, WrittenIsRead, Working

LEMMA ProfileStep == ProfileInv /\ [ProfileNext]_profileVars => ProfileInv'
<1>1. SUFFICES ASSUME ProfileInv, [ProfileNext]_profileVars PROVE ProfileInv'
  OBVIOUS
<1>0. ProfileTypeOK /\ BufferIsImage /\ OneWriter /\ WrittenIsRead
  BY <1>1 DEF ProfileInv
<1>2. CASE UNCHANGED profileVars
  BY <1>0, <1>2 DEF profileVars, outcomes, ProfileInv, ProfileTypeOK, BufferIsImage, OneWriter, WrittenIsRead,
                    LastJob, Working
<1>3. ASSUME NEW w \in Writer, NEW j \in Job, IPC_writePrivateProfileString(w, j) PROVE ProfileInv'
  <2>1. ProfileTypeOK'
    BY <1>0, <1>3, ProfileAssumption DEF IPC_writePrivateProfileString, WGoto, ProfileTypeOK
  <2>2. \A x \in Writer : x # w => wstep'[x] = wstep[x] /\ job'[x] = job[x]
    BY <1>0, <1>3 DEF IPC_writePrivateProfileString, WGoto, ProfileTypeOK
  <2>3. wstep[w] = "idle" /\ wstep'[w] = "read" /\ pBuf' = pBuf /\ image' = image /\ file' = file
        /\ garbled' = garbled
    BY <1>0, <1>3 DEF IPC_writePrivateProfileString, WGoto, ProfileTypeOK
  <2>4. BufferIsImage'
    BY <1>0, <2>2, <2>3 DEF BufferIsImage, Working
  <2>5. OneWriter'
    <3>1. SUFFICES ASSUME ~overlapped' PROVE OneWriter'
      BY DEF OneWriter
    <3>2. ~overlapped /\ \A x \in Writer \ {w} : wstep[x] = "idle"
      BY <1>3, <3>1 DEF IPC_writePrivateProfileString
    <3>3. QED
      BY <2>2, <2>3, <3>2 DEF OneWriter
  <2>6. WrittenIsRead'
    <3>1. (~overlapped' => ~overlapped) /\ cut_short' = cut_short /\ written' = written /\ garbled' = garbled
      BY <1>3 DEF IPC_writePrivateProfileString
    <3>2. (\A x \in Writer : wstep'[x] # "write") => \A x \in Writer : wstep[x] # "write"
      BY <2>2, <2>3
    <3>3. QED
      BY <1>0, <2>3, <3>1, <3>2 DEF WrittenIsRead, LastJob
  <2>7. QED
    BY <2>1, <2>4, <2>5, <2>6 DEF ProfileInv
<1>4. ASSUME NEW w \in Writer, ReadFile(w) PROVE ProfileInv'
  <2>0. PICK g \in Seq(Line) : /\ pBuf' = [pBuf EXCEPT ![w] = g]
                               /\ file # <<>> => g = Rewritten(file, job[w])
    <3>1. file \in Seq(Line) /\ job[w] \in Job
      BY <1>0 DEF ProfileTypeOK
    <3>2. Rewritten(file, job[w]) \in Seq(Line)
      BY <3>1, RewrittenLines
    <3>3. \A g \in Jumbled(job[w]) : g \in Seq(Line)
      <4>1. OptionLine(job[w]) \in Line /\ HeadLine(job[w]) \in Line
        BY <3>1 DEF OptionLine, HeadLine, Job, Line
      <4>2. PICK o \in Line, h \in Line : o = OptionLine(job[w]) /\ h = HeadLine(job[w])
        BY <4>1
      <4>3. <<>> \in Seq(Line) /\ <<h>> \in Seq(Line) /\ <<o>> \in Seq(Line) /\ <<h, o>> \in Seq(Line)
        OBVIOUS
      <4>4. QED
        BY <4>2, <4>3 DEF Jumbled
    <3>4. PICK g \in (IF file = <<>> THEN Jumbled(job[w]) ELSE {Rewritten(file, job[w])}) :
            pBuf' = [pBuf EXCEPT ![w] = g]
      BY <1>4 DEF ReadFile
    <3>5. g \in Seq(Line) /\ (file # <<>> => g = Rewritten(file, job[w]))
      BY <3>2, <3>3, <3>4
    <3>6. QED
      BY <3>4, <3>5
  <2>1. ProfileTypeOK'
    BY <1>0, <1>4, <2>0 DEF ReadFile, WGoto, ProfileTypeOK
  <2>2. \A x \in Writer : x # w => wstep'[x] = wstep[x] /\ pBuf'[x] = pBuf[x] /\ image'[x] = image[x]
    BY <1>0, <1>4, <2>0 DEF ReadFile, WGoto, ProfileTypeOK
  <2>3. /\ wstep[w] = "read" /\ wstep'[w] = "open" /\ pBuf'[w] = g /\ image'[w] = file
        /\ job' = job /\ ~garbled /\ garbled' = (file = <<>>)
    BY <1>0, <1>4, <2>0 DEF ReadFile, WGoto, ProfileTypeOK
  <2>4. BufferIsImage'
    BY <1>0, <2>0, <2>2, <2>3 DEF BufferIsImage, Working
  <2>5. file' = file /\ overlapped' = overlapped /\ cut_short' = cut_short /\ written' = written
    BY <1>4 DEF ReadFile
  <2>6. OneWriter'
    BY <1>0, <2>2, <2>3, <2>5 DEF OneWriter
  <2>7. WrittenIsRead'
    <3>1. (\A x \in Writer : wstep'[x] # "write") => \A x \in Writer : wstep[x] # "write"
      BY <2>2, <2>3
    <3>2. QED
      BY <1>0, <2>3, <2>5, <3>1 DEF WrittenIsRead, LastJob
  <2>8. QED
    BY <2>1, <2>4, <2>6, <2>7 DEF ProfileInv
<1>5. ASSUME NEW w \in Writer, TruncateFile(w) PROVE ProfileInv'
  <2>1. ProfileTypeOK'
    BY <1>0, <1>5 DEF TruncateFile, WGoto, ProfileTypeOK, outcomes
  <2>2. \A x \in Writer : x # w => wstep'[x] = wstep[x]
    BY <1>0, <1>5 DEF TruncateFile, WGoto, ProfileTypeOK
  <2>3. wstep[w] = "open" /\ wstep'[w] = "write" /\ pBuf' = pBuf /\ image' = image /\ job' = job /\ file' = <<>>
        /\ overlapped' = overlapped /\ garbled' = garbled
    BY <1>0, <1>5 DEF TruncateFile, WGoto, ProfileTypeOK, outcomes
  <2>4. BufferIsImage'
    BY <1>0, <2>2, <2>3 DEF BufferIsImage, Working
  <2>5. OneWriter'
    BY <1>0, <2>2, <2>3 DEF OneWriter
  <2>6. WrittenIsRead'
    BY <2>3 DEF WrittenIsRead
  <2>7. QED
    BY <2>1, <2>4, <2>5, <2>6 DEF ProfileInv
<1>6. ASSUME NEW w \in Writer, OpenFailed(w) PROVE ProfileInv'
  <2>1. ProfileTypeOK'
    BY <1>0, <1>6 DEF OpenFailed, WGoto, ProfileTypeOK, outcomes
  <2>2. \A x \in Writer : x # w => wstep'[x] = wstep[x] /\ pBuf'[x] = pBuf[x] /\ image'[x] = image[x]
    BY <1>0, <1>6 DEF OpenFailed, WGoto, ProfileTypeOK
  <2>3. wstep[w] = "open" /\ wstep'[w] = "idle" /\ job' = job /\ garbled' = garbled
    BY <1>0, <1>6 DEF OpenFailed, WGoto, ProfileTypeOK, outcomes
  <2>4. BufferIsImage'
    BY <1>0, <2>2, <2>3 DEF BufferIsImage, Working
  <2>5. file' = file /\ overlapped' = overlapped /\ cut_short' = cut_short /\ written' = written
    BY <1>6 DEF OpenFailed, outcomes
  <2>6. OneWriter'
    BY <1>0, <2>2, <2>3, <2>5 DEF OneWriter
  <2>7. WrittenIsRead'
    <3>1. (\A x \in Writer : wstep'[x] # "write") => \A x \in Writer : wstep[x] # "write"
      BY <2>2, <2>3
    <3>2. QED
      BY <1>0, <2>3, <2>5, <3>1 DEF WrittenIsRead, LastJob
  <2>8. QED
    BY <2>1, <2>4, <2>6, <2>7 DEF ProfileInv
<1>7. ASSUME NEW w \in Writer, WriteFile(w) PROVE ProfileInv'
  <2>1. file \in Seq(Line) /\ pBuf[w] \in Seq(Line) /\ job[w] \in Job /\ image[w] \in Seq(Line)
        /\ written \in Seq(Job)
    BY <1>0 DEF ProfileTypeOK
  <2>2. SubSeq(file, Len(pBuf[w]) + 1, Len(file)) \in Seq(Line)
    <3>1. Len(pBuf[w]) \in Nat /\ Len(file) \in Nat
      BY <2>1, LenProperties
    <3>2. CASE Len(pBuf[w]) + 1 <= Len(file)
      BY <2>1, <3>1, <3>2, SubSeqProperties
    <3>3. CASE ~(Len(pBuf[w]) + 1 <= Len(file))
      BY <2>1, <3>1, <3>3, SubSeqProperties
    <3>4. QED
      BY <3>2, <3>3
  <2>3. file' \in Seq(Line)
    BY <1>7, <2>1, <2>2, ConcatProperties DEF WriteFile
  <2>4. written' \in Seq(Job) /\ Len(written') = Len(written) + 1 /\ written'[Len(written')] = job[w]
    BY <1>7, <2>1, AppendProperties DEF WriteFile
  <2>5. ProfileTypeOK'
    BY <1>0, <1>7, <2>3, <2>4 DEF WriteFile, WGoto, ProfileTypeOK
  <2>6. \A x \in Writer : x # w => wstep'[x] = wstep[x] /\ pBuf'[x] = pBuf[x] /\ image'[x] = image[x]
    BY <1>0, <1>7 DEF WriteFile, WGoto, ProfileTypeOK
  <2>7. wstep[w] = "write" /\ wstep'[w] = "idle" /\ job' = job /\ overlapped' = overlapped
        /\ garbled' = garbled
    BY <1>0, <1>7 DEF WriteFile, WGoto, ProfileTypeOK
  <2>8. BufferIsImage'
    BY <1>0, <2>6, <2>7 DEF BufferIsImage, Working
  <2>9. OneWriter'
    <3>1. SUFFICES ASSUME ~overlapped' PROVE OneWriter'
      BY DEF OneWriter
    <3>2. \A x \in Writer : wstep[x] # "idle" => x = w
      BY <1>0, <2>7, <3>1 DEF OneWriter
    <3>3. \A x \in Writer : wstep'[x] = "idle"
      BY <2>6, <2>7, <3>2
    <3>4. QED
      BY <3>3 DEF OneWriter
  <2>10. WrittenIsRead'
    <3>1. SUFFICES ASSUME ~overlapped', ~garbled' PROVE WrittenIsRead'
      BY DEF WrittenIsRead
    <3>2. file = <<>>
      BY <1>0, <2>7, <3>1 DEF OneWriter
    <3>3. SubSeq(file, Len(pBuf[w]) + 1, Len(file)) = <<>>
      <4>1. Len(file) = 0 /\ Len(pBuf[w]) \in Nat
        BY <2>1, <3>2, LenProperties
      <4>2. QED
        BY <2>1, <4>1, SubSeqProperties, EmptySeq, <2>2
    <3>4. file' = pBuf[w]
      BY <1>7, <2>1, <3>3, ConcatEmptySeq DEF WriteFile
    <3>5. file' = Rewritten(image[w], job[w])
      BY <1>0, <2>7, <3>1, <3>4 DEF BufferIsImage, Working
    <3>6. LastJob' = job[w]
      BY <2>4 DEF LastJob
    <3>7. QED
      BY <2>1, <3>5, <3>6, RewrittenIsRead DEF WrittenIsRead
  <2>11. QED
    BY <2>5, <2>8, <2>9, <2>10 DEF ProfileInv
<1>8. ASSUME NEW w \in Writer, WriterDies(w) PROVE ProfileInv'
  <2>1. ProfileTypeOK'
    BY <1>0, <1>8 DEF WriterDies, ProfileTypeOK
  <2>2. \A x \in Writer : x # w => wstep'[x] = wstep[x] /\ pBuf'[x] = pBuf[x] /\ image'[x] = image[x]
    BY <1>0, <1>8 DEF WriterDies, ProfileTypeOK
  <2>3. wstep[w] # "idle" /\ wstep'[w] = "idle" /\ job' = job /\ garbled' = garbled
    BY <1>0, <1>8 DEF WriterDies, ProfileTypeOK
  <2>4. BufferIsImage'
    BY <1>0, <2>2, <2>3 DEF BufferIsImage, Working
  <2>5. file' = file /\ overlapped' = overlapped /\ written' = written
        /\ (~cut_short' => ~cut_short /\ wstep[w] # "write")
    BY <1>8 DEF WriterDies
  <2>6. OneWriter'
    BY <1>0, <2>2, <2>3, <2>5 DEF OneWriter
  <2>7. WrittenIsRead'
    <3>1. SUFFICES ASSUME ~cut_short' PROVE WrittenIsRead'
      BY DEF WrittenIsRead
    <3>2. (\A x \in Writer : wstep'[x] # "write") => \A x \in Writer : wstep[x] # "write"
      BY <2>2, <2>5, <3>1
    <3>3. QED
      BY <1>0, <2>3, <2>5, <3>1, <3>2 DEF WrittenIsRead, LastJob
  <2>8. QED
    BY <2>1, <2>4, <2>6, <2>7 DEF ProfileInv
<1>9. QED
  BY <1>1, <1>2, <1>3, <1>4, <1>5, <1>6, <1>7, <1>8 DEF ProfileNext

LEMMA ProfileInv_Sound == ProfileInv => ProfileSound
<1>1. SUFFICES ASSUME ProfileInv PROVE OtherKeysKept
  BY DEF ProfileInv, ProfileSound
<1>2. SUFFICES ASSUME NEW w \in Writer, Working(w), image[w] # <<>>, NEW s \in SectionWord, NEW k \in KeyWord
      PROVE  /\ Unlike(image[w], job[w], k) =>
                  IPC_getPrivateProfileString(pBuf[w], s, k) = IPC_getPrivateProfileString(image[w], s, k)
             /\ <<job[w].key, k>> \notin StartsWith =>
                  IPC_getPrivateProfileString_qnx(pBuf[w], s, k)
                    = IPC_getPrivateProfileString_qnx(image[w], s, k)
  BY DEF OtherKeysKept, Working
<1>3. image[w] \in Seq(Line) /\ job[w] \in Job /\ pBuf[w] = Rewritten(image[w], job[w])
  BY <1>1, <1>2 DEF ProfileInv, ProfileTypeOK, BufferIsImage
<1>4. QED
  BY <1>3, RewrittenKeepsOthers

(* INI files: what is written last is what is read next, on both systems,  *)
(* unless a line before it is taken for it; and what a write puts into the *)
(* file reads as before for all keys that its lines are not taken for: for *)
(* any number of writers and files of any length, until writes overlap,    *)
(* one dies after its truncation or one finds the file empty.              *)
THEOREM ProfileReads == ProfileSpec => []ProfileSound
<1>1. ProfileSpec => []ProfileInv
  BY ProfileInit_Inv, ProfileStep, PTL DEF ProfileSpec
<1>2. QED
  BY <1>1, ProfileInv_Sound, PTL

-----------------------------------------------------------------------------
(***************************************************************************)
(* Counters and locks that overlapping calls share.                        *)
(***************************************************************************)

Mid == {"add", "compare", "swap"}

(* What a call has read is still there, unless another has written since.  *)
FreshReads ==
  \A u \in User : (istep[u] \in Mid /\ u \notin stale_tmp) => tmp[u] = word

(* A long is used as a counter or as a lock, never as both. *)
UsedAsAgreed ==
  \A u \in User :
    /\ istep[u] \in {"again", "add"} => ~isLock
    /\ istep[u] \in {"compare", "swap"} => isLock /\ arg[u] = 1
    /\ (istep[u] = "store" /\ isLock) => arg[u] = 0 /\ u \in owning

(* As long as nobody was told by mistake, who has the lock is alone with   *)
(* it, and the lock is taken.                                              *)
OneOwner ==
  (isLock /\ ~doubted) => \A u \in owning : word # 0 /\ \A v \in owning : u = v

CounterHasNoOwner == ~isLock => owning = {}

InterlockedInv ==
  /\ InterlockedTypeOK
  /\ FreshReads
  /\ UsedAsAgreed
  /\ OneOwner
  /\ CounterHasNoOwner
  /\ CounterWrongOnlyByOverlap

-----------------------------------------------------------------------------
LEMMA InterlockedInitInv == InterlockedInit => InterlockedInv
<1> SUFFICES ASSUME InterlockedInit PROVE InterlockedInv
  OBVIOUS
<1>1. InterlockedTypeOK
  <2>1. 0 \in -MaxLong .. MaxLong
    BY InterlockedAssumption
  <2> QED
    BY <2>1 DEF InterlockedInit, InterlockedTypeOK
<1> QED
  BY <1>1 DEF InterlockedInit, InterlockedInv, Mid, FreshReads, UsedAsAgreed, OneOwner,
       CounterHasNoOwner, CounterWrongOnlyByOverlap

(* The read at the start of a call: it is fresh. *)
LEMMA FetchInv ==
  ASSUME InterlockedInv, NEW u \in User, NEW a \in Operand \cup {-1, 0, 1},
         NEW next \in {"store", "again", "add", "compare"},
         Fetch(u, next, a),
         next \in {"again", "add"} => ~isLock,
         next = "compare" => isLock /\ a = 1,
         (next = "store" /\ isLock) => a = 0 /\ u \in owning
  PROVE  InterlockedInv'
<1> USE DEF InterlockedInv, Fetch
<1>1. InterlockedTypeOK'
  BY DEF InterlockedTypeOK
<1>2. FreshReads'
  BY DEF FreshReads, Mid, InterlockedTypeOK
<1>3. UsedAsAgreed'
  BY DEF UsedAsAgreed, InterlockedTypeOK
<1>4. (OneOwner /\ CounterHasNoOwner /\ CounterWrongOnlyByOverlap)'
  BY DEF OneOwner, CounterHasNoOwner, CounterWrongOnlyByOverlap
<1> QED
  BY <1>1, <1>2, <1>3, <1>4

(* The read of an exchange-add that counts. *)
LEMMA FetchAgainInv ==
  ASSUME InterlockedInv, NEW u \in User, FetchAgain(u)
  PROVE  InterlockedInv'
<1> USE DEF InterlockedInv, FetchAgain
<1>1. InterlockedTypeOK'
  BY DEF InterlockedTypeOK
<1>2. FreshReads'
  BY DEF FreshReads, Mid, InterlockedTypeOK
<1>3. UsedAsAgreed'
  BY DEF UsedAsAgreed, InterlockedTypeOK
<1>4. (OneOwner /\ CounterHasNoOwner /\ CounterWrongOnlyByOverlap)'
  BY DEF OneOwner, CounterHasNoOwner, CounterWrongOnlyByOverlap
<1> QED
  BY <1>1, <1>2, <1>3, <1>4

-----------------------------------------------------------------------------
(* After a write every other call that is under way has read too early.    *)
LEMMA StoreWordKeeps ==
  ASSUME InterlockedInv, NEW u \in User, NEW v, StoreWord(u, v)
  PROVE  /\ FreshReads'
         /\ word' = v /\ v \in -MaxLong .. MaxLong
         /\ istep' \in [User -> {"idle", "store", "again", "add", "compare", "swap"}]
         /\ stale_tmp' \subseteq User
         /\ UNCHANGED <<isLock, tmp, arg>>
         /\ \A x \in User : istep'[x] = IF x = u THEN "idle" ELSE istep[x]
<1> USE DEF InterlockedInv, StoreWord, InterlockedTypeOK
<1>1. \A x \in User : istep'[x] = IF x = u THEN "idle" ELSE istep[x]
  OBVIOUS
<1>2. FreshReads'
  BY <1>1 DEF FreshReads, Mid
<1> QED
  BY <1>1, <1>2

(* A fresh read makes the sum right; a stale one is noted. *)
LEMMA AddInv ==
  ASSUME InterlockedInv, NEW u \in User, Add(u)
  PROVE  InterlockedInv'
<1> USE DEF InterlockedInv, Add
<1>1. StoreWord(u, tmp[u] + arg[u])
  OBVIOUS
<1>2. /\ FreshReads'
      /\ word' = tmp[u] + arg[u] /\ tmp[u] + arg[u] \in -MaxLong .. MaxLong
      /\ istep' \in [User -> {"idle", "store", "again", "add", "compare", "swap"}]
      /\ stale_tmp' \subseteq User
      /\ UNCHANGED <<isLock, tmp, arg>>
      /\ \A x \in User : istep'[x] = IF x = u THEN "idle" ELSE istep[x]
  BY <1>1, StoreWordKeeps
<1>3. ~isLock
  BY DEF UsedAsAgreed
<1>4. InterlockedTypeOK'
  BY <1>2 DEF InterlockedTypeOK
<1>5. UsedAsAgreed'
  BY <1>2, <1>3 DEF UsedAsAgreed
<1>6. (OneOwner /\ CounterHasNoOwner)'
  BY <1>2, <1>3 DEF OneOwner, CounterHasNoOwner
<1>7. CounterWrongOnlyByOverlap'
  <2> SUFFICES ASSUME ~spoilt' PROVE word' = exact'
    BY DEF CounterWrongOnlyByOverlap
  <2>1. ~spoilt /\ u \notin stale_tmp
    OBVIOUS
  <2>2. tmp[u] = word
    BY <2>1 DEF FreshReads, Mid
  <2>3. word = exact
    BY <1>3, <2>1 DEF CounterWrongOnlyByOverlap
  <2> QED
    BY <1>2, <2>2, <2>3
<1> QED
  BY <1>2, <1>4, <1>5, <1>6, <1>7

(* An exchange leaves nobody with the lock, if it had one owner. *)
LEMMA StoreInv ==
  ASSUME InterlockedInv, NEW u \in User, Store(u)
  PROVE  InterlockedInv'
<1> USE DEF InterlockedInv, Store
<1>1. StoreWord(u, arg[u])
  OBVIOUS
<1>2. /\ FreshReads'
      /\ word' = arg[u] /\ arg[u] \in -MaxLong .. MaxLong
      /\ istep' \in [User -> {"idle", "store", "again", "add", "compare", "swap"}]
      /\ stale_tmp' \subseteq User
      /\ UNCHANGED <<isLock, tmp, arg>>
      /\ \A x \in User : istep'[x] = IF x = u THEN "idle" ELSE istep[x]
  BY <1>1, StoreWordKeeps
<1>3. InterlockedTypeOK'
  BY <1>2 DEF InterlockedTypeOK
<1>4. UsedAsAgreed'
  BY <1>2 DEF UsedAsAgreed
<1>5. OneOwner'
  <2> SUFFICES ASSUME isLock, ~doubted' PROVE owning' = {}
    BY <1>2 DEF OneOwner
  <2>1. CASE doubted
    BY <2>1
  <2>2. CASE ~doubted
    BY <2>2 DEF OneOwner, UsedAsAgreed
  <2> QED
    BY <2>1, <2>2
<1>6. CounterHasNoOwner'
  BY <1>2 DEF CounterHasNoOwner
<1>7. CounterWrongOnlyByOverlap'
  BY <1>2 DEF CounterWrongOnlyByOverlap
<1> QED
  BY <1>2, <1>3, <1>4, <1>5, <1>6, <1>7

(* A comparison that fails tells the caller that it has the lock only if   *)
(* its first read was stale.                                               *)
LEMMA CompareInv ==
  ASSUME InterlockedInv, NEW u \in User, Compare(u)
  PROVE  InterlockedInv'
<1> USE DEF InterlockedInv, Compare, Told
<1>1. isLock
  BY DEF UsedAsAgreed
<1>2. InterlockedTypeOK'
  BY DEF InterlockedTypeOK
<1>3. FreshReads'
  BY DEF FreshReads, Mid, InterlockedTypeOK
<1>4. UsedAsAgreed'
  BY DEF UsedAsAgreed, InterlockedTypeOK
<1>5. OneOwner'
  <2>1. CASE word = 0
    BY <2>1 DEF OneOwner
  <2>2. CASE word # 0
    <3>1. tmp[u] = 0 => u \in stale_tmp
      BY <2>2 DEF FreshReads, Mid
    <3> QED
      BY <2>2, <3>1 DEF OneOwner
  <2> QED
    BY <2>1, <2>2
<1>6. (CounterHasNoOwner /\ CounterWrongOnlyByOverlap)'
  BY <1>1 DEF CounterHasNoOwner, CounterWrongOnlyByOverlap
<1> QED
  BY <1>2, <1>3, <1>4, <1>5, <1>6

(* A swap after a fresh read found the lock free, so nobody had it. *)
LEMMA SwapInv ==
  ASSUME InterlockedInv, NEW u \in User, Swap(u)
  PROVE  InterlockedInv'
<1> USE DEF InterlockedInv, Swap, Told
<1>1. StoreWord(u, arg[u])
  OBVIOUS
<1>2. /\ FreshReads'
      /\ word' = arg[u] /\ arg[u] \in -MaxLong .. MaxLong
      /\ istep' \in [User -> {"idle", "store", "again", "add", "compare", "swap"}]
      /\ stale_tmp' \subseteq User
      /\ UNCHANGED <<isLock, tmp, arg>>
      /\ \A x \in User : istep'[x] = IF x = u THEN "idle" ELSE istep[x]
  BY <1>1, StoreWordKeeps
<1>3. isLock /\ arg[u] = 1
  BY DEF UsedAsAgreed
<1>4. InterlockedTypeOK'
  BY <1>2 DEF InterlockedTypeOK
<1>5. UsedAsAgreed'
  BY <1>2 DEF UsedAsAgreed
<1>6. OneOwner'
  <2> SUFFICES ASSUME ~doubted' PROVE \A x, y \in owning' : x = y
    BY <1>2, <1>3 DEF OneOwner
  <2>1. ~doubted
    OBVIOUS
  <2>2. CASE tmp[u] = 0
    <3>1. word = 0
      BY <2>2 DEF FreshReads, Mid
    <3>2. owning = {}
      BY <1>3, <2>1, <3>1 DEF OneOwner
    <3> QED
      BY <2>2, <3>2
  <2>3. CASE tmp[u] # 0
    BY <1>3, <2>1, <2>3 DEF OneOwner
  <2> QED
    BY <2>2, <2>3
<1>7. (CounterHasNoOwner /\ CounterWrongOnlyByOverlap)'
  BY <1>2, <1>3 DEF CounterHasNoOwner, CounterWrongOnlyByOverlap
<1> QED
  BY <1>2, <1>4, <1>5, <1>6, <1>7

-----------------------------------------------------------------------------
LEMMA InterlockedNextInv ==
  InterlockedInv /\ [InterlockedNext]_interlockedVars => InterlockedInv'
<1> SUFFICES ASSUME InterlockedInv, [InterlockedNext]_interlockedVars
             PROVE  InterlockedInv'
  OBVIOUS
<1>1. ASSUME NEW u \in User, IPC_interlockedIncrement(u) PROVE InterlockedInv'
  BY <1>1, FetchInv DEF IPC_interlockedIncrement
<1>2. ASSUME NEW u \in User, IPC_interlockedDecrement(u) PROVE InterlockedInv'
  BY <1>2, FetchInv DEF IPC_interlockedDecrement
<1>3. ASSUME NEW u \in User, NEW v \in Operand, IPC_interlockedExchangeAdd(u, v)
      PROVE  InterlockedInv'
  BY <1>3, FetchInv DEF IPC_interlockedExchangeAdd
<1>4. ASSUME NEW u \in User, NEW v \in Operand, IPC_interlockedExchange(u, v)
      PROVE  InterlockedInv'
  BY <1>4, FetchInv DEF IPC_interlockedExchange
<1>5. ASSUME NEW u \in User, IPC_interlockedCompareExchange(u) PROVE InterlockedInv'
  BY <1>5, FetchInv DEF IPC_interlockedCompareExchange
<1>6. CASE UNCHANGED interlockedVars
  BY <1>6 DEF interlockedVars, InterlockedInv, InterlockedTypeOK, FreshReads, UsedAsAgreed,
       OneOwner, CounterHasNoOwner, CounterWrongOnlyByOverlap
<1> QED
  BY <1>1, <1>2, <1>3, <1>4, <1>5, <1>6, FetchAgainInv, AddInv, StoreInv, CompareInv, SwapInv
     DEF InterlockedNext

(* "One" and "at most one" are the same, for a set of threads. *)
LEMMA SharedOnlyByOverlap == InterlockedInv => LockSharedOnlyByOverlap
<1> SUFFICES ASSUME InterlockedInv, ~doubted PROVE Cardinality(owning) <= 1
  BY DEF LockSharedOnlyByOverlap
<1>1. \A u, v \in owning : u = v
  BY DEF InterlockedInv, OneOwner, CounterHasNoOwner
<1>2. CASE owning = {}
  BY <1>2, FS_EmptySet
<1>3. CASE owning # {}
  <2>1. PICK u \in owning : TRUE
    BY <1>3
  <2>2. owning = {u}
    BY <1>1, <2>1
  <2> QED
    BY <2>2, FS_Singleton
<1> QED
  BY <1>2, <1>3

(* IPC_interlocked*: a counter is wrong, and a lock has two owners, only   *)
(* after a call between whose read and write another one wrote; for any    *)
(* number of threads and any range of the counter.                         *)
THEOREM InterlockedOnlyOverlap == InterlockedSpec => []InterlockedSound
<1>1. InterlockedInv => InterlockedSound
  BY SharedOnlyByOverlap DEF InterlockedInv, InterlockedSound
<1> QED
  BY <1>1, InterlockedInitInv, InterlockedNextInv, PTL DEF InterlockedSpec

-----------------------------------------------------------------------------
(***************************************************************************)
(* The life of the driver module.                                          *)
(***************************************************************************)

(* How far the module has come in its life says what it has registered, at *)
(* most ...                                                                *)
RegisteredAtMost ==
  /\ loader = "out" => \A x \in registered : x = "device" /\ old_kernel
  /\ loader = "starting" => lnext \in 1 .. 7 /\ \A i \in 1 .. 7 : InitOrder[i] \in registered => i < lnext
  /\ loader = "unwinding" =>
       /\ lnext \in 1 .. 4
       /\ \A i \in 1 .. 4 : UnwindOrder[i] \in registered => lnext <= i
       /\ registered \cap {"proc", "list"} = {}
       /\ "device" \in registered => old_kernel
  /\ loader = "freeing" => lnext \in 1 .. 4
  /\ loader = "removing" =>
       lnext \in 1 .. 7 /\ \A i \in 1 .. 7 : RemoveOrder[i] \in registered => lnext <= i
  /\ loader = "oops" => "proc" \notin registered

(* ... and at least. *)
RegisteredAtLeast ==
  /\ loader = "starting" =>
       /\ lnext > 2 => "class" \in registered \/ no_class
       /\ lnext > 3 => "memory" \in registered
       /\ lnext > 4 => "cdev" \in registered
  /\ loader \in {"in", "freeing"} =>
       {"memory", "cdev"} \subseteq registered /\ ("class" \in registered \/ no_class)
  /\ loader = "removing" =>
       /\ lnext <= 3 => "cdev" \in registered
       /\ lnext <= 5 => "memory" \in registered
       /\ lnext <= 6 => "class" \in registered \/ no_class

(* Later kernels keep the module as long as it has a file open. *)
UsersHoldModule ==
  /\ releasing > 0 => opened = {}
  /\ (~old_kernel /\ (opened # {} \/ releasing > 0)) =>
       "device" \in registered /\ loader \in {"starting", "in"}
  /\ \A c \in Client : reader[c] > 0 /\ ~old_kernel => "proc" \in registered

(* The last release frees one kind after the other, and leaves none. *)
FreedSoFar ==
  ~old_kernel =>
    /\ (opened = {} /\ releasing = 0) => objs = {}
    /\ releasing > 0 => \A i \in 1 .. 4 : i < releasing => FreeOrder[i] \notin objs

LifeInv ==
  /\ ModuleTypeOK
  /\ RegisteredAtMost
  /\ RegisteredAtLeast
  /\ OopsOnlyAfterMissedError
  /\ UsersHoldModule
  /\ FreedSoFar

-----------------------------------------------------------------------------
(* What a reader prints is the object whose list it has locked. *)
PrintedIsLocked ==
  \A c \in Client : viewed[c] # NoKind =>
    /\ reader[c] \in {2, 4, 6, 8}
    /\ viewed[c] = ShowOrder[reader[c] \div 2]
    /\ viewed[c] \in objs

HandlesOf(k) == {h \in handle_of : h[2] = k}

(* An object that is gone has left nothing behind. *)
RefsExact ==
  \A k \in ObjKind :
    IF k \in objs THEN refs[k] = Cardinality(HandlesOf(k)) + leaked[k]
                  ELSE HandlesOf(k) = {} /\ leaked[k] = 0

(* A call is in an object of which its client has a handle. *)
InsideHasHandle ==
  \A c \in Client : inside[c] # NoKind =>
    /\ c \in opened
    /\ ~old_kernel => <<c, inside[c]>> \in handle_of

ObjectsInv == LifeInv /\ PrintedIsLocked /\ RefsExact /\ InsideHasHandle

-----------------------------------------------------------------------------
(* What the sequences say. *)
LEMMA Orders ==
  /\ InitOrder[1] = "region" /\ InitOrder[2] = "class" /\ InitOrder[3] = "memory"
  /\ InitOrder[4] = "cdev" /\ InitOrder[5] = "device" /\ InitOrder[6] = "proc" /\ InitOrder[7] = "list"
  /\ Len(InitOrder) = 7
  /\ Range(InitOrder) = {"region", "class", "memory", "cdev", "device", "proc", "list"}
BY DEF InitOrder, Range

LEMMA EndOrders ==
  /\ UnwindOrder[1] = "cdev" /\ UnwindOrder[2] = "memory" /\ UnwindOrder[3] = "class"
  /\ UnwindOrder[4] = "region"
  /\ RemoveOrder[1] = "proc" /\ RemoveOrder[2] = "device" /\ RemoveOrder[3] = "cdev"
  /\ RemoveOrder[4] = "list" /\ RemoveOrder[5] = "memory" /\ RemoveOrder[6] = "class"
  /\ RemoveOrder[7] = "region" /\ Len(RemoveOrder) = 7
BY DEF UnwindOrder, RemoveOrder

LEMMA KindOrders ==
  /\ FreeOrder[1] = "sem" /\ FreeOrder[2] = "mutex" /\ FreeOrder[3] = "event" /\ FreeOrder[4] = "shm"
  /\ ShowOrder[1] = "shm" /\ ShowOrder[2] = "sem" /\ ShowOrder[3] = "mutex" /\ ShowOrder[4] = "event"
  /\ ObjKind \subseteq {"sem", "mutex", "event", "shm"}
BY ModuleAssumption DEF FreeOrder, ShowOrder, Range

LEMMA ModuleInitInv == ModuleInit => ObjectsInv
<1> SUFFICES ASSUME ModuleInit PROVE ObjectsInv
  OBVIOUS
<1> USE DEF ModuleInit
<1>1. ModuleTypeOK
  <2>1. /\ refs \in [ObjKind -> Nat] /\ leaked \in [ObjKind -> Nat]
        /\ reader \in [Client -> 0 .. 8]
        /\ inside \in [Client -> ObjKind \cup {NoKind}] /\ viewed \in [Client -> ObjKind \cup {NoKind}]
    OBVIOUS
  <2>2. /\ loader \in {"out", "starting", "unwinding", "in", "freeing", "removing", "oops"}
        /\ lnext \in 1 .. 8 /\ releasing \in 0 .. 4
    OBVIOUS
  <2>3. no_class \in BOOLEAN
    BY Zenon
  <2> QED
    BY <2>1, <2>2, <2>3 DEF ModuleTypeOK
<1>2. RegisteredAtMost /\ RegisteredAtLeast /\ OopsOnlyAfterMissedError /\ UsersHoldModule /\ FreedSoFar
  BY DEF RegisteredAtMost, RegisteredAtLeast, OopsOnlyAfterMissedError, UsersHoldModule, FreedSoFar
<1>3. PrintedIsLocked /\ RefsExact /\ InsideHasHandle
  BY DEF PrintedIsLocked, RefsExact, InsideHasHandle, HandlesOf
<1> QED
  BY <1>1, <1>2, <1>3 DEF ObjectsInv, LifeInv

(* A step that changes nothing of the objects, nor who may use them. *)
LEMMA ObjectsKept ==
  ASSUME ObjectsInv, LifeInv', UNCHANGED <<old_kernel, clientVars>>
  PROVE  ObjectsInv'
<1>1. PrintedIsLocked'
  BY DEF ObjectsInv, PrintedIsLocked, clientVars, objectsOf
<1>2. RefsExact'
  BY DEF ObjectsInv, RefsExact, HandlesOf, clientVars, objectsOf
<1>3. InsideHasHandle'
  BY DEF ObjectsInv, InsideHasHandle, clientVars, objectsOf
<1> QED
  BY <1>1, <1>2, <1>3 DEF ObjectsInv

-----------------------------------------------------------------------------
(* The start. *)
LEMMA StartStep ==
  ASSUME ObjectsInv,
         alloc_chrdev_region \/ class_create \/ ipc_probe \/ cdev_add \/ device_create
           \/ ipc_register_proc \/ list_add_tail
  PROVE  ObjectsInv'
<1>0. /\ ModuleTypeOK /\ RegisteredAtMost /\ RegisteredAtLeast /\ OopsOnlyAfterMissedError
      /\ UsersHoldModule /\ FreedSoFar
  BY DEF ObjectsInv, LifeInv
<1>1. loader = "starting" /\ UNCHANGED <<old_kernel, clientVars>>
  BY DEF alloc_chrdev_region, class_create, ipc_probe, cdev_add, device_create,
         ipc_register_proc, list_add_tail, Register, Missed, Fails
<1>2. lnext \in 1 .. 7
  BY <1>0, <1>1 DEF RegisteredAtMost
<1>a. ASSUME NEW thing \in {"region", "class", "memory", "cdev", "device", "proc", "list"},
             Register(thing)
      PROVE  LifeInv'
  <2> USE <1>0, <1>1, <1>2, <1>a, Orders DEF Register, StartGoesOn, clientVars, objectsOf
  <2>1. ModuleTypeOK'
    BY DEF ModuleTypeOK
  <2>2. RegisteredAtMost'
    BY DEF RegisteredAtMost
  <2>3. RegisteredAtLeast' /\ OopsOnlyAfterMissedError'
    BY DEF RegisteredAtLeast, OopsOnlyAfterMissedError
  <2>4. UsersHoldModule' /\ FreedSoFar'
    BY DEF UsersHoldModule, FreedSoFar
  <2> QED
    BY <2>1, <2>2, <2>3, <2>4 DEF LifeInv
<1>b. ASSUME NEW thing \in {"class", "device", "proc"}, Missed(thing)
      PROVE  LifeInv'
  <2> USE <1>0, <1>1, <1>2, <1>b, Orders DEF Missed, StartGoesOn, clientVars, objectsOf
  <2>1. ModuleTypeOK'
    BY DEF ModuleTypeOK
  <2>2. RegisteredAtMost'
    BY DEF RegisteredAtMost
  <2>3. no_class' <=> (no_class \/ thing = "class")
    OBVIOUS
  <2>5. lnext # 3 /\ lnext # 4 /\ (lnext = 2 => thing = "class")
    OBVIOUS
  <2>6. RegisteredAtLeast' /\ OopsOnlyAfterMissedError'
    BY <2>3, <2>5 DEF RegisteredAtLeast, OopsOnlyAfterMissedError
  <2>4. UsersHoldModule' /\ FreedSoFar'
    BY DEF UsersHoldModule, FreedSoFar
  <2> QED
    BY <2>1, <2>2, <2>4, <2>6 DEF LifeInv
<1>c. ASSUME NEW thing \in {"class", "memory", "cdev", "device"}, Fails(thing),
             registered' = registered \/ (registered' = registered \cup {"device"} /\ thing = "device"),
             thing = "device" => old_kernel
      PROVE  LifeInv'
  <2> USE <1>0, <1>1, <1>2, <1>c, Orders, EndOrders DEF Fails, UnwindFrom, clientVars, objectsOf
  <2>1. ModuleTypeOK'
    BY DEF ModuleTypeOK
  <2>2. RegisteredAtMost'
    <3>1. InitOrder[lnext] = thing /\ \A i \in 1 .. 7 : InitOrder[i] \in registered => i < lnext
      BY DEF RegisteredAtMost
    <3> QED
      BY <3>1 DEF RegisteredAtMost
  <2>3. RegisteredAtLeast' /\ OopsOnlyAfterMissedError'
    BY DEF RegisteredAtLeast, OopsOnlyAfterMissedError
  <2>4. UsersHoldModule' /\ FreedSoFar'
    <3>1. InitOrder[lnext] = thing /\ \A i \in 1 .. 7 : InitOrder[i] \in registered => i < lnext
      BY DEF RegisteredAtMost
    <3>2. "device" \notin registered /\ "proc" \notin registered /\ "proc" \notin registered'
      BY <3>1
    <3> QED
      BY <3>2 DEF UsersHoldModule, FreedSoFar
  <2> QED
    BY <2>1, <2>2, <2>3, <2>4 DEF LifeInv
<1>d. ASSUME InitOrder[lnext] = "region", loader' = "out", UNCHANGED <<lnext, registered, no_class>>
      PROVE  LifeInv'
  <2> USE <1>0, <1>1, <1>2, <1>d, Orders DEF clientVars, objectsOf
  <2>1. ModuleTypeOK'
    BY DEF ModuleTypeOK
  <2>2. registered = {}
    BY DEF RegisteredAtMost, ModuleTypeOK
  <2>3. RegisteredAtMost'
    BY <2>2 DEF RegisteredAtMost
  <2>4. RegisteredAtLeast' /\ OopsOnlyAfterMissedError'
    BY DEF RegisteredAtLeast, OopsOnlyAfterMissedError
  <2>5. UsersHoldModule' /\ FreedSoFar'
    BY <2>2 DEF UsersHoldModule, FreedSoFar
  <2> QED
    BY <2>1, <2>3, <2>4, <2>5 DEF LifeInv
<1>3. CASE alloc_chrdev_region
  BY <1>3, <1>a, <1>d, <1>1, ObjectsKept DEF alloc_chrdev_region
<1>4. CASE class_create
  BY <1>4, <1>a, <1>b, <1>c, <1>1, ObjectsKept DEF class_create
<1>5. CASE ipc_probe
  BY <1>5, <1>a, <1>c, <1>1, ObjectsKept DEF ipc_probe
<1>6. CASE cdev_add
  BY <1>6, <1>a, <1>c, <1>1, ObjectsKept DEF cdev_add
<1>7. CASE device_create
  BY <1>7, <1>a, <1>b, <1>c, <1>1, ObjectsKept DEF device_create
<1>8. CASE ipc_register_proc
  BY <1>8, <1>a, <1>b, <1>1, ObjectsKept DEF ipc_register_proc
<1>9. CASE list_add_tail
  BY <1>9, <1>a, <1>1, ObjectsKept DEF list_add_tail
<1> QED
  BY <1>3, <1>4, <1>5, <1>6, <1>7, <1>8, <1>9

-----------------------------------------------------------------------------
(* A failure takes back what the start has; the next one starts from       *)
(* nothing.                                                                *)
LEMMA InsmodStep ==
  ASSUME ObjectsInv, insmod
  PROVE  ObjectsInv'
<1>0. /\ ModuleTypeOK /\ RegisteredAtMost /\ RegisteredAtLeast /\ OopsOnlyAfterMissedError
      /\ UsersHoldModule /\ FreedSoFar
  BY DEF ObjectsInv, LifeInv
<1> USE <1>0, Orders DEF insmod, clientVars, objectsOf
<1>1. ModuleTypeOK'
  <2>1. no_class' \in BOOLEAN
    BY Zenon
  <2> QED
    BY <2>1 DEF ModuleTypeOK
<1>2. RegisteredAtMost' /\ RegisteredAtLeast' /\ OopsOnlyAfterMissedError'
  BY DEF RegisteredAtMost, RegisteredAtLeast, OopsOnlyAfterMissedError
<1>3. UsersHoldModule' /\ FreedSoFar'
  BY DEF UsersHoldModule, FreedSoFar
<1> QED
  BY <1>1, <1>2, <1>3, ObjectsKept DEF LifeInv

LEMMA UnwindStep ==
  ASSUME ObjectsInv, Unwind
  PROVE  ObjectsInv'
<1>0. /\ ModuleTypeOK /\ RegisteredAtMost /\ RegisteredAtLeast /\ OopsOnlyAfterMissedError
      /\ UsersHoldModule /\ FreedSoFar
  BY DEF ObjectsInv, LifeInv
<1> USE <1>0, Orders, EndOrders DEF Unwind, clientVars, objectsOf
<1>0a. lnext \in 1 .. 4
  BY DEF RegisteredAtMost
<1>1. ModuleTypeOK'
  BY <1>0a DEF ModuleTypeOK
<1>2. RegisteredAtMost'
  BY <1>0a DEF RegisteredAtMost, ModuleTypeOK
<1>3. RegisteredAtLeast' /\ OopsOnlyAfterMissedError'
  BY <1>0a DEF RegisteredAtLeast, OopsOnlyAfterMissedError
<1>4. UsersHoldModule' /\ FreedSoFar'
  <2>1. \A x \in {"region", "class", "memory", "cdev"} : x # "proc" /\ x # "device"
    OBVIOUS
  <2>2. UnwindOrder[lnext] \in {"region", "class", "memory", "cdev"}
    BY <1>0a
  <2>3. UNCHANGED <<old_kernel, opened, releasing, objs, reader>>
    OBVIOUS
  <2>4. loader = "unwinding" /\ registered' = registered \ {UnwindOrder[lnext]}
    OBVIOUS
  <2> QED
    BY <2>1, <2>2, <2>3, <2>4 DEF UsersHoldModule, FreedSoFar
<1> QED
  BY <1>1, <1>2, <1>3, <1>4, ObjectsKept DEF LifeInv

LEMMA RmmodStep ==
  ASSUME ObjectsInv, rmmod
  PROVE  ObjectsInv'
<1>0. /\ ModuleTypeOK /\ RegisteredAtMost /\ RegisteredAtLeast /\ OopsOnlyAfterMissedError
      /\ UsersHoldModule /\ FreedSoFar
  BY DEF ObjectsInv, LifeInv
<1> USE <1>0 DEF rmmod, MayUnload, clientVars, objectsOf
<1>1. ModuleTypeOK'
  BY DEF ModuleTypeOK
<1>2. RegisteredAtMost' /\ RegisteredAtLeast' /\ OopsOnlyAfterMissedError'
  BY DEF RegisteredAtMost, RegisteredAtLeast, OopsOnlyAfterMissedError
<1>3. UsersHoldModule' /\ FreedSoFar'
  BY DEF UsersHoldModule, FreedSoFar, ModuleTypeOK
<1> QED
  BY <1>1, <1>2, <1>3, ObjectsKept DEF LifeInv

LEMMA RemoveStep ==
  ASSUME ObjectsInv, ipc_remove
  PROVE  ObjectsInv'
<1>0. /\ ModuleTypeOK /\ RegisteredAtMost /\ RegisteredAtLeast /\ OopsOnlyAfterMissedError
      /\ UsersHoldModule /\ FreedSoFar
  BY DEF ObjectsInv, LifeInv
<1> DEFINE thing == RemoveOrder[lnext]
<1>1. lnext \in 1 .. 7 /\ loader = "removing"
  BY <1>0 DEF RegisteredAtMost, ipc_remove
<1>2. /\ (thing = "proc" /\ ~old_kernel) => \A c \in Client : reader[c] = 0
      /\ registered' = registered \ {thing}
      /\ loader' = IF thing = "device" /\ "class" \notin registered THEN "oops"
                   ELSE IF lnext = 7 THEN "out" ELSE "removing"
      /\ lnext' = IF lnext = 7 THEN 1 ELSE lnext + 1
      /\ UNCHANGED <<old_kernel, no_class, clientVars>>
  BY <1>1, EndOrders DEF ipc_remove
<1> HIDE DEF thing
<1>3. thing = CASE lnext = 1 -> "proc" [] lnext = 2 -> "device" [] lnext = 3 -> "cdev" [] lnext = 4 -> "list"
                [] lnext = 5 -> "memory" [] lnext = 6 -> "class" [] lnext = 7 -> "region"
  BY <1>1, EndOrders DEF thing
<1> USE <1>0, <1>1, <1>2, <1>3, Orders DEF clientVars, objectsOf
<1>4. ModuleTypeOK'
  BY DEF ModuleTypeOK
<1>5. RegisteredAtMost'
  BY EndOrders DEF RegisteredAtMost, ModuleTypeOK
<1>6. RegisteredAtLeast' /\ OopsOnlyAfterMissedError'
  BY DEF RegisteredAtLeast, OopsOnlyAfterMissedError
<1>7. UsersHoldModule' /\ FreedSoFar'
  BY DEF UsersHoldModule, FreedSoFar, ModuleTypeOK
<1> QED
  BY <1>4, <1>5, <1>6, <1>7, ObjectsKept DEF LifeInv

-----------------------------------------------------------------------------
(* The handles of an object can be counted. *)
LEMMA HandlesFinite ==
  ASSUME NEW hs \in SUBSET (Client \X ObjKind), NEW k \in ObjKind
  PROVE  IsFiniteSet({h \in hs : h[2] = k})
<1>1. IsFiniteSet({k}) /\ IsFiniteSet(Client)
  BY FS_Singleton, ModuleAssumption
<1>2. IsFiniteSet(Client \X {k})
  BY <1>1, FS_Product
<1>3. {h \in hs : h[2] = k} \subseteq Client \X {k}
  OBVIOUS
<1> QED
  BY <1>2, <1>3, FS_Subset

(* A step of the clients leaves the loader alone. *)
LEMMA LoaderKept ==
  ASSUME LifeInv, ModuleTypeOK', UsersHoldModule', FreedSoFar', UNCHANGED loaderVars
  PROVE  LifeInv'
BY DEF LifeInv, loaderVars, RegisteredAtMost, RegisteredAtLeast, OopsOnlyAfterMissedError

(* A close_all frees an object, with its references and its handles. *)
LEMMA FreeKindObjects ==
  ASSUME ObjectsInv, NEW k, FreeKind(k), UNCHANGED <<old_kernel, inside, reader, viewed>>,
         opened' = opened, ~old_kernel => opened = {}
  PROVE  /\ objs' \subseteq ObjKind /\ refs' \in [ObjKind -> Nat] /\ leaked' \in [ObjKind -> Nat]
         /\ handle_of' \subseteq Client \X ObjKind
         /\ PrintedIsLocked' /\ RefsExact' /\ InsideHasHandle'
<1>0. ModuleTypeOK /\ PrintedIsLocked /\ RefsExact /\ InsideHasHandle
  BY DEF ObjectsInv, LifeInv
<1> USE <1>0 DEF FreeKind, ModuleTypeOK
<1>1. /\ objs' \subseteq ObjKind /\ refs' \in [ObjKind -> Nat] /\ leaked' \in [ObjKind -> Nat]
      /\ handle_of' \subseteq Client \X ObjKind
  OBVIOUS
<1>2. PrintedIsLocked'
  BY DEF PrintedIsLocked, Locked
<1>3. RefsExact'
  <2> SUFFICES ASSUME NEW x \in ObjKind
               PROVE  IF x \in objs' THEN refs'[x] = Cardinality(HandlesOf(x)') + leaked'[x]
                                     ELSE HandlesOf(x)' = {} /\ leaked'[x] = 0
    BY DEF RefsExact
  <2>1. CASE x = k
    BY <2>1 DEF RefsExact, HandlesOf
  <2>2. CASE x # k
    <3>1. HandlesOf(x)' = HandlesOf(x)
      BY <2>2 DEF HandlesOf
    <3> QED
      BY <2>2, <3>1 DEF RefsExact
  <2> QED
    BY <2>1, <2>2
<1>4. InsideHasHandle'
  BY DEF InsideHasHandle
<1> QED
  BY <1>1, <1>2, <1>3, <1>4

LEMMA RemoveObjectsStep ==
  ASSUME ObjectsInv, RemoveObjects
  PROVE  ObjectsInv'
<1>0. /\ ModuleTypeOK /\ RegisteredAtMost /\ RegisteredAtLeast /\ OopsOnlyAfterMissedError
      /\ UsersHoldModule /\ FreedSoFar
  BY DEF ObjectsInv, LifeInv
<1>1. /\ loader = "freeing" /\ FreeKind(FreeOrder[lnext])
      /\ loader' = IF lnext = 4 THEN "removing" ELSE "freeing"
      /\ lnext' = IF lnext = 4 THEN 1 ELSE lnext + 1
      /\ UNCHANGED <<old_kernel, registered, no_class, opened, releasing, inside, reader, viewed>>
  BY DEF RemoveObjects
<1>2. ~old_kernel => opened = {} /\ releasing = 0
  BY <1>0, <1>1 DEF UsersHoldModule, ModuleTypeOK
<1>3. /\ objs' \subseteq ObjKind /\ refs' \in [ObjKind -> Nat] /\ leaked' \in [ObjKind -> Nat]
      /\ handle_of' \subseteq Client \X ObjKind
      /\ PrintedIsLocked' /\ RefsExact' /\ InsideHasHandle'
  BY <1>1, <1>2, FreeKindObjects
<1>4. lnext \in 1 .. 4
  BY <1>0, <1>1 DEF RegisteredAtMost
<1>5. ModuleTypeOK'
  BY <1>0, <1>1, <1>3, <1>4 DEF ModuleTypeOK
<1>6. RegisteredAtMost' /\ RegisteredAtLeast' /\ OopsOnlyAfterMissedError'
  <2>1. \A i \in 1 .. 7 : 1 <= i
    OBVIOUS
  <2> QED
    BY <1>0, <1>1, <1>4, <2>1 DEF RegisteredAtMost, RegisteredAtLeast, OopsOnlyAfterMissedError
<1>7. UsersHoldModule'
  BY <1>0, <1>1, <1>2, <1>4 DEF UsersHoldModule, ModuleTypeOK
<1>8. FreedSoFar'
  BY <1>0, <1>1, <1>2 DEF FreedSoFar, FreeKind
<1> QED
  BY <1>3, <1>5, <1>6, <1>7, <1>8 DEF ObjectsInv, LifeInv

LEMMA ReleaseObjectsStep ==
  ASSUME ObjectsInv, ReleaseObjects
  PROVE  ObjectsInv'
<1>0. ModuleTypeOK /\ UsersHoldModule /\ FreedSoFar
  BY DEF ObjectsInv, LifeInv
<1>1. /\ releasing > 0 /\ FreeKind(FreeOrder[releasing])
      /\ releasing' = IF releasing = 4 THEN 0 ELSE releasing + 1
      /\ UNCHANGED <<loaderVars, opened, inside, reader, viewed>>
  BY DEF ReleaseObjects
<1>2. opened = {}
  BY <1>0, <1>1 DEF UsersHoldModule
<1>3. /\ objs' \subseteq ObjKind /\ refs' \in [ObjKind -> Nat] /\ leaked' \in [ObjKind -> Nat]
      /\ handle_of' \subseteq Client \X ObjKind
      /\ PrintedIsLocked' /\ RefsExact' /\ InsideHasHandle'
  BY <1>1, <1>2, FreeKindObjects DEF loaderVars
<1>5. ModuleTypeOK'
  BY <1>0, <1>1, <1>3 DEF ModuleTypeOK, loaderVars
<1>7. UsersHoldModule'
  BY <1>0, <1>1, <1>2 DEF UsersHoldModule, ModuleTypeOK, loaderVars
<1>8. FreedSoFar'
  <2> SUFFICES ASSUME ~old_kernel
               PROVE  FreedSoFar'
    BY <1>1 DEF FreedSoFar, loaderVars
  <2>1. releasing \in 1 .. 4 /\ objs' = objs \ {FreeOrder[releasing]}
    BY <1>0, <1>1 DEF ModuleTypeOK, FreeKind
  <2>2. \A i \in 1 .. 4 : i <= releasing => FreeOrder[i] \notin objs'
    BY <1>0, <1>1, <2>1 DEF FreedSoFar
  <2>3. CASE releasing = 4
    <3>1. objs' \subseteq {"sem", "mutex", "event", "shm"}
      BY <1>3, KindOrders
    <3>2. objs' = {}
      BY <2>2, <2>3, <3>1, KindOrders
    <3> QED
      BY <1>1, <2>3, <3>2 DEF FreedSoFar
  <2>4. CASE releasing # 4
    BY <1>1, <2>1, <2>2, <2>4 DEF FreedSoFar
  <2> QED
    BY <2>3, <2>4
<1> QED
  BY <1>1, <1>3, <1>5, <1>7, <1>8, LoaderKept DEF ObjectsInv

-----------------------------------------------------------------------------
(* Clients open and close the device. *)
LEMMA DeviceOpenStep ==
  ASSUME ObjectsInv, NEW c \in Client, ipc_device_open(c)
  PROVE  ObjectsInv'
<1>0. /\ ModuleTypeOK /\ RegisteredAtMost /\ RegisteredAtLeast /\ UsersHoldModule /\ FreedSoFar
      /\ PrintedIsLocked /\ RefsExact /\ InsideHasHandle
  BY DEF ObjectsInv, LifeInv
<1> USE <1>0 DEF ipc_device_open, loaderVars, objectsOf
<1>1. ModuleTypeOK' /\ UsersHoldModule'
  BY DEF ModuleTypeOK, UsersHoldModule
<1>2. FreedSoFar'
  BY DEF FreedSoFar
<1>3. PrintedIsLocked' /\ RefsExact'
  BY DEF PrintedIsLocked, RefsExact, HandlesOf
<1>4. InsideHasHandle'
  BY DEF InsideHasHandle
<1> QED
  BY <1>1, <1>2, <1>3, <1>4, LoaderKept DEF ObjectsInv

LEMMA DeviceCloseStep ==
  ASSUME ObjectsInv, NEW c \in Client, ipc_device_close(c)
  PROVE  ObjectsInv'
<1>0. /\ ModuleTypeOK /\ RegisteredAtMost /\ RegisteredAtLeast /\ UsersHoldModule /\ FreedSoFar
      /\ PrintedIsLocked /\ RefsExact /\ InsideHasHandle
  BY DEF ObjectsInv, LifeInv
<1> USE <1>0 DEF ipc_device_close, loaderVars
<1>1. ModuleTypeOK'
  BY DEF ModuleTypeOK
<1>2. UsersHoldModule'
  BY DEF UsersHoldModule, ModuleTypeOK
<1>3. FreedSoFar'
  <2> SUFFICES ASSUME ~old_kernel
               PROVE  FreedSoFar'
    BY DEF FreedSoFar
  <2>1. "device" \in registered /\ loader \in {"starting", "in"}
    BY DEF UsersHoldModule
  <2>2. "memory" \in registered
    <3>1. CASE loader = "starting"
      BY <2>1, <3>1, Orders DEF RegisteredAtMost, RegisteredAtLeast
    <3>2. CASE loader = "in"
      BY <3>2 DEF RegisteredAtLeast
    <3> QED
      BY <2>1, <3>1, <3>2
  <2> QED
    BY <2>2 DEF FreedSoFar
<1>4. PrintedIsLocked' /\ InsideHasHandle'
  BY DEF PrintedIsLocked, InsideHasHandle, ModuleTypeOK
<1>5. RefsExact'
  <2> SUFFICES ASSUME NEW x \in ObjKind
               PROVE  IF x \in objs THEN refs[x] = Cardinality(HandlesOf(x)') + leaked'[x]
                                    ELSE HandlesOf(x)' = {} /\ leaked'[x] = 0
    BY DEF RefsExact
  <2>1. HandlesOf(x)' = HandlesOf(x) \ {<<c, x>>}
    BY DEF HandlesOf, ModuleTypeOK
  <2>2. <<c, x>> \in HandlesOf(x) <=> <<c, x>> \in handle_of
    BY DEF HandlesOf
  <2>3. IsFiniteSet(HandlesOf(x))
    BY HandlesFinite DEF HandlesOf, ModuleTypeOK
  <2>4. Cardinality(HandlesOf(x) \ {<<c, x>>}) =
          IF <<c, x>> \in HandlesOf(x) THEN Cardinality(HandlesOf(x)) - 1 ELSE Cardinality(HandlesOf(x))
    BY <2>3, FS_RemoveElement
  <2>5. Cardinality(HandlesOf(x)) \in Nat
    BY <2>3, FS_CardinalityType
  <2> QED
    BY <2>1, <2>2, <2>4, <2>5 DEF RefsExact, ModuleTypeOK
<1> QED
  BY <1>1, <1>2, <1>3, <1>4, <1>5, LoaderKept DEF ObjectsInv, objectsOf

-----------------------------------------------------------------------------
(* An ioctl finds the driver in use, so that nothing is being freed. *)
LEMMA InDriverHolds ==
  ASSUME ObjectsInv, NEW c \in Client, InDriver(c)
  PROVE  c \in opened /\ releasing = 0 /\ inside[c] = NoKind
BY DEF ObjectsInv, LifeInv, UsersHoldModule, ModuleTypeOK, InDriver

(* A create or an open adds a reference, for a handle or for nobody. *)
LEMMA OpenObjStep ==
  ASSUME ObjectsInv, NEW c \in Client, NEW k, OpenObj(c, k)
  PROVE  ObjectsInv'
<1>0. ModuleTypeOK /\ UsersHoldModule /\ FreedSoFar /\ PrintedIsLocked /\ RefsExact /\ InsideHasHandle
  BY DEF ObjectsInv, LifeInv
<1>1. /\ k \in ObjKind /\ c \in opened /\ releasing = 0
      /\ UNCHANGED <<loaderVars, opened, releasing, inside, reader, viewed>>
      /\ objs' = objs \cup {k}
      /\ refs' = [refs EXCEPT ![k] = IF k \in objs THEN @ + 1 ELSE 1]
  BY InDriverHolds DEF OpenObj, CopyFaults
<1>2. \/ <<c, k>> \notin handle_of /\ handle_of' = handle_of \cup {<<c, k>>} /\ leaked' = leaked
      \/ handle_of' = handle_of /\ leaked' = [leaked EXCEPT ![k] = @ + 1]
  BY DEF OpenObj, CopyFaults
<1>3. ModuleTypeOK'
  BY <1>0, <1>1, <1>2 DEF ModuleTypeOK, loaderVars
<1>4. UsersHoldModule' /\ FreedSoFar'
  BY <1>0, <1>1 DEF UsersHoldModule, FreedSoFar, loaderVars
<1>5. PrintedIsLocked' /\ InsideHasHandle'
  BY <1>0, <1>1, <1>2 DEF PrintedIsLocked, InsideHasHandle, loaderVars
<1>6. RefsExact'
  <2> SUFFICES ASSUME NEW x \in ObjKind
               PROVE  IF x \in objs' THEN refs'[x] = Cardinality(HandlesOf(x)') + leaked'[x]
                                     ELSE HandlesOf(x)' = {} /\ leaked'[x] = 0
    BY DEF RefsExact
  <2>1. CASE x # k
    <3>1. HandlesOf(x)' = HandlesOf(x)
      BY <1>2, <2>1 DEF HandlesOf
    <3> QED
      BY <1>0, <1>1, <1>2, <2>1, <3>1 DEF RefsExact, ModuleTypeOK
  <2>2. CASE x = k
    <3>1. IsFiniteSet(HandlesOf(k))
      BY <1>0, <1>1, HandlesFinite DEF HandlesOf, ModuleTypeOK
    <3>2. Cardinality(HandlesOf(k)) \in Nat
      BY <3>1, FS_CardinalityType
    <3>3. k \notin objs => Cardinality(HandlesOf(k)) = 0 /\ leaked[k] = 0
      BY <1>0, <1>1, FS_EmptySet DEF RefsExact
    <3>4. CASE <<c, k>> \notin handle_of /\ handle_of' = handle_of \cup {<<c, k>>} /\ leaked' = leaked
      <4>1. HandlesOf(k)' = HandlesOf(k) \cup {<<c, k>>} /\ <<c, k>> \notin HandlesOf(k)
        BY <3>4 DEF HandlesOf
      <4>2. Cardinality(HandlesOf(k)') = Cardinality(HandlesOf(k)) + 1
        BY <3>1, <4>1, FS_AddElement
      <4> QED
        BY <1>0, <1>1, <2>2, <3>2, <3>3, <3>4, <4>2 DEF RefsExact, ModuleTypeOK
    <3>5. CASE handle_of' = handle_of /\ leaked' = [leaked EXCEPT ![k] = @ + 1]
      <4>1. HandlesOf(k)' = HandlesOf(k)
        BY <3>5 DEF HandlesOf
      <4> QED
        BY <1>0, <1>1, <2>2, <3>2, <3>3, <3>5, <4>1 DEF RefsExact, ModuleTypeOK
    <3> QED
      BY <1>2, <3>4, <3>5
  <2> QED
    BY <2>1, <2>2
<1> QED
  BY <1>1, <1>3, <1>4, <1>5, <1>6, LoaderKept DEF ObjectsInv

(* A close takes one away; the object goes with the last. *)
LEMMA CloseObjStep ==
  ASSUME ObjectsInv, NEW c \in Client, NEW k, CloseObj(c, k)
  PROVE  ObjectsInv'
<1>0. ModuleTypeOK /\ UsersHoldModule /\ FreedSoFar /\ PrintedIsLocked /\ RefsExact /\ InsideHasHandle
  BY DEF ObjectsInv, LifeInv
<1>1. /\ c \in opened /\ releasing = 0 /\ inside[c] = NoKind /\ <<c, k>> \in handle_of /\ ~Locked(k)
      /\ UNCHANGED <<loaderVars, opened, releasing, leaked, inside, reader, viewed>>
      /\ refs' = [refs EXCEPT ![k] = @ - 1]
      /\ objs' = IF refs[k] = 1 THEN objs \ {k} ELSE objs
      /\ handle_of' = handle_of \ {<<c, k>>}
  BY InDriverHolds DEF CloseObj
<1>2. k \in ObjKind /\ <<c, k>> \in HandlesOf(k)
  BY <1>0, <1>1 DEF ModuleTypeOK, HandlesOf
<1>3. k \in objs /\ refs[k] = Cardinality(HandlesOf(k)) + leaked[k] /\ leaked[k] \in Nat
  BY <1>0, <1>2 DEF RefsExact, ModuleTypeOK
<1>4. IsFiniteSet(HandlesOf(k))
  BY <1>0, <1>2, HandlesFinite DEF HandlesOf, ModuleTypeOK
<1>5. Cardinality(HandlesOf(k)) \in Nat /\ Cardinality(HandlesOf(k)) # 0
  BY <1>2, <1>4, FS_CardinalityType, FS_EmptySet
<1>6. HandlesOf(k)' = HandlesOf(k) \ {<<c, k>>}
  BY <1>1 DEF HandlesOf
<1>7. IsFiniteSet(HandlesOf(k)') /\ Cardinality(HandlesOf(k)') = Cardinality(HandlesOf(k)) - 1
  BY <1>2, <1>4, <1>6, FS_RemoveElement
<1>8. ModuleTypeOK'
  BY <1>0, <1>1, <1>2, <1>3, <1>5 DEF ModuleTypeOK, loaderVars
<1>9. UsersHoldModule' /\ FreedSoFar'
  BY <1>0, <1>1 DEF UsersHoldModule, FreedSoFar, loaderVars
<1>10. PrintedIsLocked'
  BY <1>0, <1>1 DEF PrintedIsLocked, Locked
<1>11. InsideHasHandle'
  BY <1>0, <1>1 DEF InsideHasHandle, loaderVars
<1>12. RefsExact'
  <2> SUFFICES ASSUME NEW x \in ObjKind
               PROVE  IF x \in objs' THEN refs'[x] = Cardinality(HandlesOf(x)') + leaked'[x]
                                     ELSE HandlesOf(x)' = {} /\ leaked'[x] = 0
    BY DEF RefsExact
  <2>1. CASE x # k
    <3>1. HandlesOf(x)' = HandlesOf(x)
      BY <1>1, <2>1 DEF HandlesOf
    <3> QED
      BY <1>0, <1>1, <2>1, <3>1 DEF RefsExact, ModuleTypeOK
  <2>2. CASE x = k /\ refs[k] = 1
    <3>1. Cardinality(HandlesOf(k)') = 0 /\ leaked[k] = 0
      BY <1>3, <1>5, <1>7, <2>2
    <3>2. HandlesOf(k)' = {}
      BY <1>7, <3>1, FS_EmptySet
    <3> QED
      BY <1>1, <2>2, <3>1, <3>2
  <2>3. CASE x = k /\ refs[k] # 1
    BY <1>0, <1>1, <1>3, <1>5, <1>7, <2>3 DEF ModuleTypeOK
  <2> QED
    BY <2>1, <2>2, <2>3
<1> QED
  BY <1>1, <1>8, <1>9, <1>10, <1>11, <1>12, LoaderKept DEF ObjectsInv

(* A wait goes into its object, and out of it. *)
LEMMA InsideStep ==
  ASSUME ObjectsInv, NEW c \in Client, NEW k \in ObjKind \cup {NoKind}, inside' = [inside EXCEPT ![c] = k],
         k # NoKind => c \in opened /\ <<c, k>> \in handle_of,
         UNCHANGED <<loaderVars, opened, releasing, objectsOf, reader, viewed>>
  PROVE  ObjectsInv'
<1>0. ModuleTypeOK /\ UsersHoldModule /\ FreedSoFar /\ PrintedIsLocked /\ RefsExact /\ InsideHasHandle
  BY DEF ObjectsInv, LifeInv
<1> USE <1>0 DEF loaderVars, objectsOf
<1>1. ModuleTypeOK' /\ UsersHoldModule'
  BY DEF ModuleTypeOK, UsersHoldModule
<1>2. FreedSoFar' /\ PrintedIsLocked' /\ RefsExact'
  BY DEF FreedSoFar, PrintedIsLocked, RefsExact, HandlesOf
<1>3. InsideHasHandle'
  BY DEF InsideHasHandle, ModuleTypeOK
<1> QED
  BY <1>1, <1>2, <1>3, LoaderKept DEF ObjectsInv

LEMMA LockObjStep ==
  ASSUME ObjectsInv, NEW c \in Client, NEW k, LockObj(c, k)
  PROVE  ObjectsInv'
<1>1. <<c, k>> \in handle_of /\ c \in opened
  BY InDriverHolds DEF LockObj
<1>2. k \in ObjKind
  BY <1>1 DEF ObjectsInv, LifeInv, ModuleTypeOK
<1> QED
  BY <1>1, <1>2, InsideStep DEF LockObj

LEMMA UnlockObjStep ==
  ASSUME ObjectsInv, NEW c \in Client, NEW k, UnlockObj(c, k)
  PROVE  ObjectsInv'
<1> PICK d \in Client : inside' = [inside EXCEPT ![d] = NoKind]
  BY DEF UnlockObj
<1> QED
  BY InsideStep DEF UnlockObj

-----------------------------------------------------------------------------
(* A reader of the listing enters a list when nobody has it locked, and    *)
(* what it finds there stays while it is in it.                            *)
LEMMA ShowStep ==
  ASSUME ObjectsInv, NEW c \in Client, NEW i \in 1 .. 4, Show(c, i)
  PROVE  ObjectsInv'
<1>0. ModuleTypeOK /\ UsersHoldModule /\ FreedSoFar /\ PrintedIsLocked /\ RefsExact /\ InsideHasHandle
  BY DEF ObjectsInv, LifeInv
<1>1. UNCHANGED <<loaderVars, opened, releasing, objectsOf, inside>>
  BY DEF Show
<1> DEFINE Goes(to, x) ==
        /\ reader[c] \in {2 * i - 1, 2 * i}
        /\ reader' = [reader EXCEPT ![c] = to]
        /\ viewed' = [viewed EXCEPT ![c] = x]
        /\ x # NoKind => to = 2 * i /\ x = ShowOrder[i] /\ x \in objs
<1>2. \E to \in 0 .. 8, x \in ObjKind \cup {NoKind} : Goes(to, x)
  <2>1. ASSUME ReaderGoto(c, 2 * i - 1, 2 * i),
               viewed' = [viewed EXCEPT ![c] = IF ShowOrder[i] \in objs THEN ShowOrder[i] ELSE NoKind]
        PROVE  \E to \in 0 .. 8, x \in ObjKind \cup {NoKind} : Goes(to, x)
    <3> DEFINE x == IF ShowOrder[i] \in objs THEN ShowOrder[i] ELSE NoKind
    <3>1. x \in ObjKind \cup {NoKind} /\ 2 * i \in 0 .. 8
      BY <1>0 DEF ModuleTypeOK
    <3>2. Goes(2 * i, x)
      BY <2>1 DEF ReaderGoto
    <3> QED
      BY <3>1, <3>2
  <2>2. ASSUME ReaderGoto(c, 2 * i, IF i = 4 THEN 0 ELSE 2 * i + 1),
               viewed' = [viewed EXCEPT ![c] = NoKind]
        PROVE  \E to \in 0 .. 8, x \in ObjKind \cup {NoKind} : Goes(to, x)
    <3>1. (IF i = 4 THEN 0 ELSE 2 * i + 1) \in 0 .. 8
      OBVIOUS
    <3>2. Goes(IF i = 4 THEN 0 ELSE 2 * i + 1, NoKind)
      BY <2>2 DEF ReaderGoto
    <3> QED
      BY <3>1, <3>2
  <2> QED
    BY <2>1, <2>2 DEF Show
<1>p. PICK to \in 0 .. 8, x \in ObjKind \cup {NoKind} : Goes(to, x)
  BY <1>2
<1> USE <1>0, <1>1, <1>p DEF loaderVars, objectsOf
<1>3. ModuleTypeOK'
  BY DEF ModuleTypeOK
<1>4. UsersHoldModule'
  BY DEF UsersHoldModule, ModuleTypeOK
<1>5. FreedSoFar' /\ RefsExact' /\ InsideHasHandle'
  BY DEF FreedSoFar, RefsExact, HandlesOf, InsideHasHandle
<1>6. PrintedIsLocked'
  <2>1. 2 * i \in {2, 4, 6, 8} /\ (2 * i) \div 2 = i
    OBVIOUS
  <2> QED
    BY <2>1 DEF PrintedIsLocked, ModuleTypeOK
<1> QED
  BY <1>3, <1>4, <1>5, <1>6, LoaderKept DEF ObjectsInv

LEMMA ProcOpenStep ==
  ASSUME ObjectsInv, NEW c \in Client, ipcdrv_proc_open(c)
  PROVE  ObjectsInv'
<1>0. ModuleTypeOK /\ UsersHoldModule /\ FreedSoFar /\ PrintedIsLocked /\ RefsExact /\ InsideHasHandle
  BY DEF ObjectsInv, LifeInv
<1> USE <1>0 DEF loaderVars, objectsOf, ipcdrv_proc_open, ReaderGoto
<1>1. ModuleTypeOK'
  BY DEF ModuleTypeOK
<1>2. UsersHoldModule'
  BY DEF UsersHoldModule, ModuleTypeOK
<1>3. FreedSoFar' /\ RefsExact' /\ InsideHasHandle'
  BY DEF FreedSoFar, RefsExact, HandlesOf, InsideHasHandle
<1>4. PrintedIsLocked'
  BY DEF PrintedIsLocked, ModuleTypeOK
<1> QED
  BY <1>1, <1>2, <1>3, <1>4, LoaderKept DEF ObjectsInv

-----------------------------------------------------------------------------
LEMMA ModuleNextInv ==
  ASSUME ObjectsInv, [ModuleNext]_moduleVars
  PROVE  ObjectsInv'
<1>1. CASE insmod \/ rmmod \/ RemoveObjects \/ ipc_remove \/ Unwind
  BY <1>1, InsmodStep, RmmodStep, RemoveObjectsStep, RemoveStep, UnwindStep
<1>2. CASE alloc_chrdev_region \/ class_create \/ ipc_probe \/ cdev_add \/ device_create
             \/ ipc_register_proc \/ list_add_tail
  BY <1>2, StartStep
<1>3. CASE ReleaseObjects
  BY <1>3, ReleaseObjectsStep
<1>4. ASSUME NEW c \in Client, ipc_device_open(c) \/ ipc_device_close(c)
      PROVE  ObjectsInv'
  BY <1>4, DeviceOpenStep, DeviceCloseStep
<1>5. ASSUME NEW c \in Client,
             ioctl_sem_open(c) \/ ioctl_mutex_open(c) \/ ioctl_event_open(c) \/ ioctl_shm_open(c)
      PROVE  ObjectsInv'
  BY <1>5, OpenObjStep DEF ioctl_sem_open, ioctl_mutex_open, ioctl_event_open, ioctl_shm_open
<1>6. ASSUME NEW c \in Client,
             ioctl_sem_close(c) \/ ioctl_mutex_close(c) \/ ioctl_event_close(c) \/ ioctl_shm_close(c)
      PROVE  ObjectsInv'
  BY <1>6, CloseObjStep DEF ioctl_sem_close, ioctl_mutex_close, ioctl_event_close, ioctl_shm_close
<1>7. ASSUME NEW c \in Client, ioctl_sem_lock(c) \/ ioctl_mutex_lock(c) \/ ioctl_event_lock(c)
      PROVE  ObjectsInv'
  BY <1>7, LockObjStep DEF ioctl_sem_lock, ioctl_mutex_lock, ioctl_event_lock
<1>8. ASSUME NEW c \in Client,
             ioctl_sem_unlock(c) \/ ioctl_mutex_unlock(c) \/ ioctl_event_unlock(c) \/ ioctl_event_reset(c)
      PROVE  ObjectsInv'
  BY <1>8, UnlockObjStep DEF ioctl_sem_unlock, ioctl_mutex_unlock, ioctl_event_unlock, ioctl_event_reset
<1>9. ASSUME NEW c \in Client, WaitEnds(c)
      PROVE  ObjectsInv'
  BY <1>9, InsideStep DEF WaitEnds
<1>10. ASSUME NEW c \in Client,
              ipcdrv_proc_open(c) \/ show_shm_info(c) \/ show_sem_info(c) \/ show_mutex_info(c) \/ show_event_info(c)
       PROVE  ObjectsInv'
  BY <1>10, ProcOpenStep, ShowStep DEF show_shm_info, show_sem_info, show_mutex_info, show_event_info
<1>11. CASE UNCHANGED moduleVars
  <2>1. LifeInv'
    BY <1>11 DEF ObjectsInv, LifeInv, ModuleTypeOK, RegisteredAtMost, RegisteredAtLeast,
         OopsOnlyAfterMissedError, UsersHoldModule, FreedSoFar, moduleVars, loaderVars, objectsOf
  <2> QED
    BY <1>11, <2>1, ObjectsKept DEF moduleVars, loaderVars, clientVars
<1> QED
  BY <1>1, <1>2, <1>3, <1>4, <1>5, <1>6, <1>7, <1>8, <1>9, <1>10, <1>11 DEF ModuleNext

LEMMA ObjectsInvSound ==
  ASSUME ObjectsInv
  PROVE  ModuleLifeSound /\ ModuleObjectsSound
<1>0. /\ ModuleTypeOK /\ RegisteredAtMost /\ RegisteredAtLeast /\ OopsOnlyAfterMissedError
      /\ UsersHoldModule /\ FreedSoFar /\ PrintedIsLocked /\ RefsExact /\ InsideHasHandle
  BY DEF ObjectsInv, LifeInv
<1>a. ~old_kernel /\ ("device" \in registered \/ "proc" \in registered) =>
        /\ loader # "oops" => "memory" \in registered
        /\ loader \in {"starting", "in"} => "cdev" \in registered
  <2>1. CASE loader \in {"out", "in", "freeing", "oops"}
    BY <1>0, <2>1 DEF RegisteredAtMost, RegisteredAtLeast
  <2>4. CASE loader = "starting"
    BY <1>0, <2>4, Orders DEF RegisteredAtMost, RegisteredAtLeast
  <2>2. CASE loader = "unwinding"
    BY <1>0, <2>2, EndOrders DEF RegisteredAtMost
  <2>3. CASE loader = "removing"
    BY <1>0, <2>3, EndOrders DEF RegisteredAtMost, RegisteredAtLeast
  <2> QED
    BY <1>0, <2>1, <2>2, <2>3, <2>4 DEF ModuleTypeOK
<1>1. NothingLeftBehind
  BY <1>0 DEF NothingLeftBehind, RegisteredAtMost, UsersHoldModule, FreedSoFar, ModuleTypeOK
<1>2. FilesHaveDriver /\ ReadersHaveDriver
  BY <1>0, <1>a DEF FilesHaveDriver, ReadersHaveDriver, UsersHoldModule, RegisteredAtMost
<1>3. ReadersSeeObjects /\ LeaksEndWithLastFile
  BY <1>0 DEF ReadersSeeObjects, LeaksEndWithLastFile, PrintedIsLocked, FreedSoFar
<1>4. RefsAccountedFor
  BY <1>0 DEF RefsAccountedFor, RefsExact, HandlesOf, ModuleTypeOK
<1>5. WaitersKeepObject
  BY <1>0 DEF WaitersKeepObject, InsideHasHandle, RefsExact, HandlesOf, ModuleTypeOK
<1> QED
  BY <1>0, <1>1, <1>2, <1>3, <1>4, <1>5 DEF ModuleLifeSound, ModuleObjectsSound

(* Nothing of the module stays behind, and a later kernel never takes it   *)
(* from clients that have it open, whatever fails in a start.              *)
THEOREM ModuleLife == ModuleSpec => []ModuleLifeSound
<1>1. ModuleSpec => []ObjectsInv
  BY ModuleInitInv, ModuleNextInv, PTL DEF ModuleSpec
<1> QED
  BY <1>1, ObjectsInvSound, PTL

(* The objects of the driver have the references of their handles and of   *)
(* the handles that got lost, whatever fails and whoever dies; and nobody  *)
(* waits in, or prints, an object that is gone.                            *)
THEOREM ModuleObjects == ModuleSpec => []ModuleObjectsSound
<1>1. ModuleSpec => []ObjectsInv
  BY ModuleInitInv, ModuleNextInv, PTL DEF ModuleSpec
<1> QED
  BY <1>1, ObjectsInvSound, PTL
==============================================================================
