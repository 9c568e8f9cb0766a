--------------------------- MODULE PosixQnxProofs ---------------------------
(***************************************************************************)
(* Proofs about the parts of the system that wait: the POSIX backend, the  *)
(* QNX library with its resource manager, and threads; for any number of   *)
(* threads, names, handles and entries, whatever the calls ask for.        *)
(***************************************************************************)
EXTENDS PosixIpc, QnxServer, IpcThread, FiniteSetTheorems, SequenceTheorems, TLAPS

-----------------------------------------------------------------------------
(***************************************************************************)
(* The POSIX backend.                                                      *)
(***************************************************************************)

(* A call has a slot.  That of a create that is to try again, and of a     *)
(* delete that has yet to unlink, is empty and nobody else's; the handle   *)
(* that a call waits with is there as long as it waits.                    *)
CallsHaveSlots ==
  \A t \in Thread :
    /\ pstep[t] = "idle" => pslot[t] = NoSlot
    /\ pstep[t] # "idle" => pslot[t] \in Slot
    /\ pstep[t] \in {"reopen", "unlink"} =>
         /\ ipc_sem[pslot[t]] = NoObj
         /\ pslot[t] \notin closed
         /\ \A u \in Thread \ {t} : pslot[u] # pslot[t]
    /\ pstep[t] = "reopen" => pvalue[t] \in Asked[ipc_name[pslot[t]]]
    /\ pstep[t] \in {"wait", "reset"} => ipc_sem[pslot[t]] # NoObj
    /\ pstep[t] = "reset" => ipc_name[pslot[t]] \in EventName

ClosedStandForNothing == \A s \in closed : ipc_sem[s] = NoObj

(* A semaphore has one name: that of the handles that stand for it, and    *)
(* the only one that is bound to it.                                       *)
OneName ==
  /\ \A n, m \in Name : (bound[n] # NoObj /\ bound[m] = bound[n]) => m = n
  /\ \A s \in Slot, n \in Name : (ipc_sem[s] # NoObj /\ bound[n] = ipc_sem[s]) => ipc_name[s] = n
  /\ \A s, u \in Slot : (ipc_sem[s] # NoObj /\ ipc_sem[u] = ipc_sem[s]) => ipc_name[u] = ipc_name[s]

(* The unlink of a delete finds the name, unless another was faster. *)
UnlinkFindsName ==
  \A t \in Thread :
    (pstep[t] = "unlink" /\ pslot[t] \notin stale) => bound[ipc_name[pslot[t]]] # NoObj

WaitersDoNotHold == \A t \in Thread : pstep[t] = "wait" => t \notin held[ipc_sem[pslot[t]]]

(* A mutex is created with one token, which its maker may have, and is     *)
(* given others only by a release of a thread that does not hold it.       *)
MutexesHaveOneToken ==
  /\ \A n \in MutexName : bound[n] # NoObj => bound[n] \in strayed \/ due[bound[n]] <= 1
  /\ \A s \in Slot :
       (ipc_sem[s] # NoObj /\ ipc_name[s] \in MutexName)
         => ipc_sem[s] \in strayed \/ due[ipc_sem[s]] <= 1

OnlySemaphoresSpoiled ==
  /\ \A n \in Name : bound[n] \in spoiled => n \in SemName
  /\ \A s \in Slot : ipc_sem[s] \in spoiled => ipc_name[s] \in SemName

PosixInv ==
  /\ PosixTypeOK
  /\ CallsHaveSlots
  /\ ClosedStandForNothing
  /\ OneName
  /\ SplitOnlyByDelete
  /\ UnlinkFindsName
  /\ DeleteFailsOnlyAfterAnother
  /\ TokensConserved
  /\ WaitersDoNotHold
  /\ MutexesHaveOneToken
  /\ OnlySemaphoresSpoiled
  /\ KilledOnlyBySemaphores
  /\ ResetBlocksOnlyIfOvertaken

(* The semaphore that a sem_open of t with O_CREAT makes, when it is o. *)
Made(t, s, n, v, o) ==
  /\ bound[n] = NoObj
  /\ o \in Gone
  /\ bound' = [bound EXCEPT ![n] = o]
  /\ value' = [value EXCEPT ![o] = v]
  /\ spoiled' = spoiled \ {o}
  /\ ipc_sem' = [ipc_sem EXCEPT ![s] = o]
  /\ due' = [due EXCEPT ![o] = IF MadeTaken(n, v) THEN 1 ELSE v]
  /\ held' = [held EXCEPT ![o] = IF MadeTaken(n, v) THEN {t} ELSE {}]
  /\ strayed' = strayed \ {o}
  /\ UNCHANGED <<closed, stale, overtaken>>

LEMMA SemMakeMakes ==
  ASSUME NEW t, NEW s, NEW n, NEW v, SemMake(t, s, n, v)
  PROVE  \E o \in Obj : Made(t, s, n, v, o)
<1> DEFINE o == CHOOSE g \in Gone : TRUE
<1>1. o \in Gone
  BY DEF SemMake
<1>2. o \in Obj
  BY <1>1 DEF Gone
<1> HIDE DEF o
<1>3. Made(t, s, n, v, o)
  BY <1>1 DEF SemMake, Made, o
<1>4. QED
  BY <1>2, <1>3

LEMMA HoldersCounted ==
  ASSUME PosixTypeOK, NEW o \in Obj
  PROVE  IsFiniteSet(held[o]) /\ Cardinality(held[o]) \in Nat
<1>1. held[o] \subseteq Thread
  BY DEF PosixTypeOK
<1>2. QED
  BY <1>1, LibraryAssumption, FS_Subset, FS_CardinalityType

LEMMA CreateMakesKeepsInv ==
  ASSUME PosixInv, NEW t \in Thread, NEW s \in Slot, NEW n \in Name, NEW v \in Asked[n], NEW o \in Obj,
         pstep[t] = "idle", allocate_ipc_object(t, s, n), Made(t, s, n, v, o), UNCHANGED <<pstep, calls>>
  PROVE  PosixInv'
<1>0. PosixTypeOK /\ CallsHaveSlots /\ ClosedStandForNothing /\ OneName /\ SplitOnlyByDelete /\ UnlinkFindsName
      /\ DeleteFailsOnlyAfterAnother /\ TokensConserved /\ WaitersDoNotHold /\ MutexesHaveOneToken
      /\ OnlySemaphoresSpoiled /\ KilledOnlyBySemaphores /\ ResetBlocksOnlyIfOvertaken
  BY DEF PosixInv
<1>1. PosixTypeOK'
  BY <1>0, LibraryAssumption, PosixAssumption DEF PosixTypeOK, allocate_ipc_object, Made, calls
<1>2. CallsHaveSlots'
  BY <1>0, LibraryAssumption, PosixAssumption DEF CallsHaveSlots, allocate_ipc_object, Made, calls
<1>3. ClosedStandForNothing'
  BY <1>0, LibraryAssumption, PosixAssumption DEF ClosedStandForNothing, allocate_ipc_object, Made
<1>4. OneName'
  BY <1>0, LibraryAssumption, PosixAssumption DEF OneName, Gone, PosixTypeOK, allocate_ipc_object, Made
<1>5. SplitOnlyByDelete'
  BY <1>0, LibraryAssumption, PosixAssumption DEF SplitOnlyByDelete, PosixTypeOK, allocate_ipc_object, Made
<1>6. UnlinkFindsName'
  BY <1>0, LibraryAssumption, PosixAssumption DEF UnlinkFindsName, allocate_ipc_object, Made, calls
<1>7. DeleteFailsOnlyAfterAnother'
  BY <1>0, LibraryAssumption, PosixAssumption DEF DeleteFailsOnlyAfterAnother, Made
<1>8. TokensConserved'
  <2>1. Cardinality({}) = 0 /\ Cardinality({t}) = 1
    BY FS_EmptySet, FS_Singleton
  <2>2. QED
    BY <1>0, <2>1, LibraryAssumption, PosixAssumption, SMTT(20)
       DEF TokensConserved, MadeTaken, Gone, CallsHaveSlots, PosixTypeOK, allocate_ipc_object, Made, Name, objects,
           handles, calls, posixHistory
<1>9. WaitersDoNotHold'
  BY <1>0, LibraryAssumption, PosixAssumption DEF WaitersDoNotHold, allocate_ipc_object, Made, calls
<1>10. MutexesHaveOneToken'
  BY <1>0, LibraryAssumption, PosixAssumption
     DEF MutexesHaveOneToken, MadeTaken, PosixTypeOK, allocate_ipc_object, Made, Gone, Name
<1>11. OnlySemaphoresSpoiled'
  BY <1>0, LibraryAssumption, PosixAssumption DEF OnlySemaphoresSpoiled, allocate_ipc_object, Made
<1>12. KilledOnlyBySemaphores'
  BY <1>0, LibraryAssumption, PosixAssumption DEF KilledOnlyBySemaphores, allocate_ipc_object, calls
<1>13. ResetBlocksOnlyIfOvertaken'
  BY <1>0, LibraryAssumption, PosixAssumption
     DEF ResetBlocksOnlyIfOvertaken, CallsHaveSlots, Use, allocate_ipc_object, Made, Gone, calls
<1>14. QED
  BY <1>1, <1>2, <1>3, <1>4, <1>5, <1>6, <1>7, <1>8, <1>9, <1>10, <1>11, <1>12, <1>13 DEF PosixInv

LEMMA CreateRetriesKeepsInv ==
  ASSUME PosixInv, NEW t \in Thread, NEW s \in Slot, NEW n \in Name, NEW v \in Asked[n],
         allocate_ipc_object(t, s, n), PosixGoto(t, "idle", "reopen"), pslot' = [pslot EXCEPT ![t] = s],
         pvalue' = [pvalue EXCEPT ![t] = v], UNCHANGED <<objects, ipc_sem, closed, plimit, posixHistory>>
  PROVE  PosixInv'
<1>0. PosixTypeOK /\ CallsHaveSlots /\ ClosedStandForNothing /\ OneName /\ SplitOnlyByDelete /\ UnlinkFindsName
      /\ DeleteFailsOnlyAfterAnother /\ TokensConserved /\ WaitersDoNotHold /\ MutexesHaveOneToken
      /\ OnlySemaphoresSpoiled /\ KilledOnlyBySemaphores /\ ResetBlocksOnlyIfOvertaken
  BY DEF PosixInv
<1>1. PosixTypeOK'
  BY <1>0, LibraryAssumption, PosixAssumption DEF PosixTypeOK, allocate_ipc_object, PosixGoto, objects,
     posixHistory
<1>2. CallsHaveSlots'
  BY <1>0, LibraryAssumption, PosixAssumption DEF CallsHaveSlots, PosixTypeOK, allocate_ipc_object, PosixGoto
<1>3. ClosedStandForNothing'
  BY <1>0, LibraryAssumption, PosixAssumption DEF ClosedStandForNothing
<1>4. OneName'
  BY <1>0, LibraryAssumption, PosixAssumption DEF OneName, allocate_ipc_object, objects
<1>5. SplitOnlyByDelete'
  BY <1>0, LibraryAssumption, PosixAssumption DEF SplitOnlyByDelete, allocate_ipc_object, objects, posixHistory
<1>6. UnlinkFindsName'
  BY <1>0, LibraryAssumption, PosixAssumption
     DEF UnlinkFindsName, allocate_ipc_object, PosixGoto, objects, posixHistory
<1>7. DeleteFailsOnlyAfterAnother'
  BY <1>0, LibraryAssumption, PosixAssumption DEF DeleteFailsOnlyAfterAnother, posixHistory
<1>8. TokensConserved'
  BY <1>0, LibraryAssumption, PosixAssumption DEF TokensConserved, Gone, objects, posixHistory
<1>9. WaitersDoNotHold'
  BY <1>0, LibraryAssumption, PosixAssumption DEF WaitersDoNotHold, PosixGoto, posixHistory
<1>10. MutexesHaveOneToken'
  BY <1>0, LibraryAssumption, PosixAssumption DEF MutexesHaveOneToken, allocate_ipc_object, objects,
     posixHistory
<1>11. OnlySemaphoresSpoiled'
  BY <1>0, LibraryAssumption, PosixAssumption DEF OnlySemaphoresSpoiled, PosixTypeOK, allocate_ipc_object,
     objects
<1>12. KilledOnlyBySemaphores'
  BY <1>0, LibraryAssumption, PosixAssumption DEF KilledOnlyBySemaphores, allocate_ipc_object, PosixGoto
<1>13. ResetBlocksOnlyIfOvertaken'
  BY <1>0, LibraryAssumption, PosixAssumption DEF ResetBlocksOnlyIfOvertaken, Use, PosixGoto, objects,
     posixHistory
<1>14. QED
  BY <1>1, <1>2, <1>3, <1>4, <1>5, <1>6, <1>7, <1>8, <1>9, <1>10, <1>11, <1>12, <1>13 DEF PosixInv

LEMMA TruncateKeepsInv ==
  ASSUME PosixInv, NEW t \in Thread, NEW s \in Slot, NEW n \in SemName, OpenTruncating(t, s, n)
  PROVE  PosixInv'
<1>0. PosixTypeOK /\ CallsHaveSlots /\ ClosedStandForNothing /\ OneName /\ SplitOnlyByDelete /\ UnlinkFindsName
      /\ DeleteFailsOnlyAfterAnother /\ TokensConserved /\ WaitersDoNotHold /\ MutexesHaveOneToken
      /\ OnlySemaphoresSpoiled /\ KilledOnlyBySemaphores /\ ResetBlocksOnlyIfOvertaken
  BY DEF PosixInv
<1>1. PosixTypeOK'
  BY <1>0, LibraryAssumption, PosixAssumption
     DEF PosixTypeOK, OpenTruncating, SemFind, allocate_ipc_object, Name, calls, posixHistory
<1>2. CallsHaveSlots'
  BY <1>0, LibraryAssumption, PosixAssumption DEF CallsHaveSlots, OpenTruncating, SemFind, allocate_ipc_object,
     calls
<1>3. ClosedStandForNothing'
  BY <1>0, LibraryAssumption, PosixAssumption DEF ClosedStandForNothing, OpenTruncating, SemFind,
     allocate_ipc_object
<1>4. OneName'
  BY <1>0, LibraryAssumption, PosixAssumption
     DEF OneName, PosixTypeOK, OpenTruncating, SemFind, allocate_ipc_object, Name
<1>5. SplitOnlyByDelete'
  BY <1>0, LibraryAssumption, PosixAssumption
     DEF SplitOnlyByDelete, PosixTypeOK, OpenTruncating, SemFind, allocate_ipc_object, posixHistory
<1>6. UnlinkFindsName'
  BY <1>0, LibraryAssumption, PosixAssumption
     DEF UnlinkFindsName, OpenTruncating, SemFind, allocate_ipc_object, calls, posixHistory
<1>7. DeleteFailsOnlyAfterAnother'
  BY <1>0, LibraryAssumption, PosixAssumption DEF DeleteFailsOnlyAfterAnother, OpenTruncating, SemFind,
     posixHistory
<1>8. TokensConserved'
  BY <1>0, LibraryAssumption, PosixAssumption DEF TokensConserved, Gone, OpenTruncating, SemFind, Name,
     posixHistory
<1>9. WaitersDoNotHold'
  BY <1>0, LibraryAssumption, PosixAssumption
     DEF WaitersDoNotHold, OpenTruncating, SemFind, allocate_ipc_object, calls, posixHistory
<1>10. MutexesHaveOneToken'
  BY <1>0, LibraryAssumption, PosixAssumption
     DEF MutexesHaveOneToken, PosixTypeOK, OpenTruncating, SemFind, allocate_ipc_object, posixHistory
<1>11. OnlySemaphoresSpoiled'
  BY <1>0, LibraryAssumption, PosixAssumption
     DEF OnlySemaphoresSpoiled, OneName, PosixTypeOK, OpenTruncating, SemFind, allocate_ipc_object, Name
<1>12. KilledOnlyBySemaphores'
  BY <1>0, LibraryAssumption, PosixAssumption DEF KilledOnlyBySemaphores, OpenTruncating, allocate_ipc_object,
     calls
<1>13. ResetBlocksOnlyIfOvertaken'
  BY <1>0, LibraryAssumption, PosixAssumption
     DEF ResetBlocksOnlyIfOvertaken, Use, OpenTruncating, SemFind, allocate_ipc_object, calls, posixHistory
<1>14. QED
  BY <1>1, <1>2, <1>3, <1>4, <1>5, <1>6, <1>7, <1>8, <1>9, <1>10, <1>11, <1>12, <1>13 DEF PosixInv

LEMMA ReopenMakesKeepsInv ==
  ASSUME PosixInv, NEW t \in Thread, NEW o \in Obj, PosixGoto(t, "reopen", "idle"),
         Made(t, pslot[t], ipc_name[pslot[t]], pvalue[t], o), PosixReturn(t), UNCHANGED ipc_name
  PROVE  PosixInv'
<1>0. PosixTypeOK /\ CallsHaveSlots /\ ClosedStandForNothing /\ OneName /\ SplitOnlyByDelete /\ UnlinkFindsName
      /\ DeleteFailsOnlyAfterAnother /\ TokensConserved /\ WaitersDoNotHold /\ MutexesHaveOneToken
      /\ OnlySemaphoresSpoiled /\ KilledOnlyBySemaphores /\ ResetBlocksOnlyIfOvertaken
  BY DEF PosixInv
<1>1. PosixTypeOK'
  BY <1>0, LibraryAssumption, PosixAssumption DEF PosixTypeOK, CallsHaveSlots, PosixGoto, PosixReturn, Made
<1>2. CallsHaveSlots'
  BY <1>0, LibraryAssumption, PosixAssumption DEF CallsHaveSlots, PosixTypeOK, PosixGoto, PosixReturn, Made
<1>3. ClosedStandForNothing'
  BY <1>0, LibraryAssumption, PosixAssumption DEF ClosedStandForNothing, CallsHaveSlots, PosixGoto, Made
<1>4. OneName'
  BY <1>0, LibraryAssumption, PosixAssumption DEF OneName, Gone, Made
<1>5. SplitOnlyByDelete'
  BY <1>0, LibraryAssumption, PosixAssumption DEF SplitOnlyByDelete, PosixTypeOK, Made
<1>6. UnlinkFindsName'
  BY <1>0, LibraryAssumption, PosixAssumption DEF UnlinkFindsName, PosixGoto, PosixReturn, Made
<1>7. DeleteFailsOnlyAfterAnother'
  BY <1>0, LibraryAssumption, PosixAssumption DEF DeleteFailsOnlyAfterAnother, Made
<1>8. TokensConserved'
  <2>1. Cardinality({}) = 0 /\ Cardinality({t}) = 1
    BY FS_EmptySet, FS_Singleton
  <2>2. QED
    BY <1>0, <2>1, LibraryAssumption, PosixAssumption, SMTT(20)
       DEF TokensConserved, MadeTaken, Gone, CallsHaveSlots, PosixTypeOK, PosixGoto, PosixReturn, Made, Name, objects,
           handles, calls, posixHistory
<1>9. WaitersDoNotHold'
  BY <1>0, LibraryAssumption, PosixAssumption DEF WaitersDoNotHold, PosixTypeOK, PosixGoto, PosixReturn, Made
<1>10. MutexesHaveOneToken'
  BY <1>0, LibraryAssumption, PosixAssumption
     DEF MutexesHaveOneToken, MadeTaken, CallsHaveSlots, PosixTypeOK, PosixGoto, Made, Gone, Name
<1>11. OnlySemaphoresSpoiled'
  BY <1>0, LibraryAssumption, PosixAssumption DEF OnlySemaphoresSpoiled, Made
<1>12. KilledOnlyBySemaphores'
  BY <1>0, LibraryAssumption, PosixAssumption DEF KilledOnlyBySemaphores, PosixGoto, PosixReturn
<1>13. ResetBlocksOnlyIfOvertaken'
  BY <1>0, LibraryAssumption, PosixAssumption
     DEF ResetBlocksOnlyIfOvertaken, CallsHaveSlots, Use, PosixGoto, PosixReturn, Made, Gone
<1>14. QED
  BY <1>1, <1>2, <1>3, <1>4, <1>5, <1>6, <1>7, <1>8, <1>9, <1>10, <1>11, <1>12, <1>13 DEF PosixInv

LEMMA ReopenFindsKeepsInv ==
  ASSUME PosixInv, NEW t \in Thread, PosixGoto(t, "reopen", "idle"), SemFind(pslot[t], ipc_name[pslot[t]]),
         PosixReturn(t), UNCHANGED <<spoiled, ipc_name>>
  PROVE  PosixInv'
<1>0. PosixTypeOK /\ CallsHaveSlots /\ ClosedStandForNothing /\ OneName /\ SplitOnlyByDelete /\ UnlinkFindsName
      /\ DeleteFailsOnlyAfterAnother /\ TokensConserved /\ WaitersDoNotHold /\ MutexesHaveOneToken
      /\ OnlySemaphoresSpoiled /\ KilledOnlyBySemaphores /\ ResetBlocksOnlyIfOvertaken
  BY DEF PosixInv
<1>1. PosixTypeOK'
  BY <1>0, LibraryAssumption, PosixAssumption
     DEF PosixTypeOK, CallsHaveSlots, PosixGoto, PosixReturn, SemFind, posixHistory
<1>2. CallsHaveSlots'
  BY <1>0, LibraryAssumption, PosixAssumption DEF CallsHaveSlots, PosixTypeOK, PosixGoto, PosixReturn, SemFind
<1>3. ClosedStandForNothing'
  BY <1>0, LibraryAssumption, PosixAssumption DEF ClosedStandForNothing, CallsHaveSlots, PosixGoto, SemFind
<1>4. OneName'
  BY <1>0, LibraryAssumption, PosixAssumption DEF OneName, PosixTypeOK, SemFind
<1>5. SplitOnlyByDelete'
  BY <1>0, LibraryAssumption, PosixAssumption DEF SplitOnlyByDelete, SemFind, posixHistory
<1>6. UnlinkFindsName'
  BY <1>0, LibraryAssumption, PosixAssumption DEF UnlinkFindsName, PosixGoto, PosixReturn, SemFind, posixHistory
<1>7. DeleteFailsOnlyAfterAnother'
  BY <1>0, LibraryAssumption, PosixAssumption DEF DeleteFailsOnlyAfterAnother, SemFind, posixHistory
<1>8. TokensConserved'
  BY <1>0, LibraryAssumption, PosixAssumption DEF TokensConserved, Gone, PosixTypeOK, SemFind, posixHistory
<1>9. WaitersDoNotHold'
  BY <1>0, LibraryAssumption, PosixAssumption
     DEF WaitersDoNotHold, CallsHaveSlots, PosixGoto, PosixReturn, SemFind, posixHistory
<1>10. MutexesHaveOneToken'
  BY <1>0, LibraryAssumption, PosixAssumption DEF MutexesHaveOneToken, SemFind, posixHistory
<1>11. OnlySemaphoresSpoiled'
  BY <1>0, LibraryAssumption, PosixAssumption DEF OnlySemaphoresSpoiled, PosixTypeOK, SemFind
<1>12. KilledOnlyBySemaphores'
  BY <1>0, LibraryAssumption, PosixAssumption DEF KilledOnlyBySemaphores, PosixGoto, PosixReturn
<1>13. ResetBlocksOnlyIfOvertaken'
  BY <1>0, LibraryAssumption, PosixAssumption
     DEF ResetBlocksOnlyIfOvertaken, CallsHaveSlots, Use, PosixGoto, PosixReturn, SemFind, posixHistory
<1>14. QED
  BY <1>1, <1>2, <1>3, <1>4, <1>5, <1>6, <1>7, <1>8, <1>9, <1>10, <1>11, <1>12, <1>13 DEF PosixInv

LEMMA EndsKeepsInv ==
  ASSUME PosixInv, NEW t \in Thread, NEW from \in {"reopen", "wait"}, PosixGoto(t, from, "idle"), PosixReturn(t),
         UNCHANGED <<objects, handles, posixHistory>>
  PROVE  PosixInv'
<1>0. PosixTypeOK /\ CallsHaveSlots /\ ClosedStandForNothing /\ OneName /\ SplitOnlyByDelete /\ UnlinkFindsName
      /\ DeleteFailsOnlyAfterAnother /\ TokensConserved /\ WaitersDoNotHold /\ MutexesHaveOneToken
      /\ OnlySemaphoresSpoiled /\ KilledOnlyBySemaphores /\ ResetBlocksOnlyIfOvertaken
  BY DEF PosixInv
<1>1. PosixTypeOK'
  BY <1>0, LibraryAssumption, PosixAssumption DEF PosixTypeOK, PosixGoto, PosixReturn, objects, handles,
     posixHistory
<1>2. CallsHaveSlots'
  BY <1>0, LibraryAssumption, PosixAssumption DEF CallsHaveSlots, PosixTypeOK, PosixGoto, PosixReturn, handles
<1>3. ClosedStandForNothing'
  BY <1>0, LibraryAssumption, PosixAssumption DEF ClosedStandForNothing, handles
<1>4. OneName'
  BY <1>0, LibraryAssumption, PosixAssumption DEF OneName, objects, handles
<1>5. SplitOnlyByDelete'
  BY <1>0, LibraryAssumption, PosixAssumption DEF SplitOnlyByDelete, objects, handles, posixHistory
<1>6. UnlinkFindsName'
  BY <1>0, LibraryAssumption, PosixAssumption
     DEF UnlinkFindsName, PosixGoto, PosixReturn, objects, handles, posixHistory
<1>7. DeleteFailsOnlyAfterAnother'
  BY <1>0, LibraryAssumption, PosixAssumption DEF DeleteFailsOnlyAfterAnother, handles, posixHistory
<1>8. TokensConserved'
  BY <1>0, LibraryAssumption, PosixAssumption DEF TokensConserved, Gone, objects, handles, posixHistory
<1>9. WaitersDoNotHold'
  BY <1>0, LibraryAssumption, PosixAssumption
     DEF WaitersDoNotHold, PosixTypeOK, PosixGoto, PosixReturn, handles, posixHistory
<1>10. MutexesHaveOneToken'
  BY <1>0, LibraryAssumption, PosixAssumption DEF MutexesHaveOneToken, objects, handles, posixHistory
<1>11. OnlySemaphoresSpoiled'
  BY <1>0, LibraryAssumption, PosixAssumption DEF OnlySemaphoresSpoiled, objects, handles
<1>12. KilledOnlyBySemaphores'
  BY <1>0, LibraryAssumption, PosixAssumption DEF KilledOnlyBySemaphores, PosixGoto, PosixReturn, handles
<1>13. ResetBlocksOnlyIfOvertaken'
  BY <1>0, LibraryAssumption, PosixAssumption
     DEF ResetBlocksOnlyIfOvertaken, Use, PosixGoto, PosixReturn, objects, handles, posixHistory
<1>14. QED
  BY <1>1, <1>2, <1>3, <1>4, <1>5, <1>6, <1>7, <1>8, <1>9, <1>10, <1>11, <1>12, <1>13 DEF PosixInv

LEMMA WaitEnterKeepsInv ==
  ASSUME PosixInv, NEW t \in Thread, NEW s \in Slot, NEW l \in Limit, WaitEnter(t, s, l)
  PROVE  PosixInv'
<1>0. PosixTypeOK /\ CallsHaveSlots /\ ClosedStandForNothing /\ OneName /\ SplitOnlyByDelete /\ UnlinkFindsName
      /\ DeleteFailsOnlyAfterAnother /\ TokensConserved /\ WaitersDoNotHold /\ MutexesHaveOneToken
      /\ OnlySemaphoresSpoiled /\ KilledOnlyBySemaphores /\ ResetBlocksOnlyIfOvertaken
  BY DEF PosixInv
<1>1. PosixTypeOK'
  BY <1>0, LibraryAssumption, PosixAssumption DEF PosixTypeOK, WaitEnter, PosixGoto, objects, handles,
     posixHistory
<1>2. CallsHaveSlots'
  BY <1>0, LibraryAssumption, PosixAssumption DEF CallsHaveSlots, PosixTypeOK, WaitEnter, PosixGoto, handles
<1>3. ClosedStandForNothing'
  BY <1>0, LibraryAssumption, PosixAssumption DEF ClosedStandForNothing, WaitEnter, handles
<1>4. OneName'
  BY <1>0, LibraryAssumption, PosixAssumption DEF OneName, WaitEnter, objects, handles
<1>5. SplitOnlyByDelete'
  BY <1>0, LibraryAssumption, PosixAssumption DEF SplitOnlyByDelete, WaitEnter, objects, handles, posixHistory
<1>6. UnlinkFindsName'
  BY <1>0, LibraryAssumption, PosixAssumption
     DEF UnlinkFindsName, WaitEnter, PosixGoto, objects, handles, posixHistory
<1>7. DeleteFailsOnlyAfterAnother'
  BY <1>0, LibraryAssumption, PosixAssumption DEF DeleteFailsOnlyAfterAnother, WaitEnter, handles, posixHistory
<1>8. TokensConserved'
  BY <1>0, LibraryAssumption, PosixAssumption DEF TokensConserved, Gone, WaitEnter, objects, handles,
     posixHistory
<1>9. WaitersDoNotHold'
  BY <1>0, LibraryAssumption, PosixAssumption
     DEF WaitersDoNotHold, PosixTypeOK, WaitEnter, PosixGoto, handles, posixHistory
<1>10. MutexesHaveOneToken'
  BY <1>0, LibraryAssumption, PosixAssumption DEF MutexesHaveOneToken, WaitEnter, objects, handles, posixHistory
<1>11. OnlySemaphoresSpoiled'
  BY <1>0, LibraryAssumption, PosixAssumption DEF OnlySemaphoresSpoiled, WaitEnter, objects, handles
<1>12. KilledOnlyBySemaphores'
  BY <1>0, LibraryAssumption, PosixAssumption DEF KilledOnlyBySemaphores, WaitEnter, PosixGoto, handles
<1>13. ResetBlocksOnlyIfOvertaken'
  BY <1>0, LibraryAssumption, PosixAssumption
     DEF ResetBlocksOnlyIfOvertaken, Use, WaitEnter, PosixGoto, objects, handles, posixHistory
<1>14. QED
  BY <1>1, <1>2, <1>3, <1>4, <1>5, <1>6, <1>7, <1>8, <1>9, <1>10, <1>11, <1>12, <1>13 DEF PosixInv

LEMMA TakeKeepsInv ==
  ASSUME PosixInv, NEW t \in Thread, NEW from \in {"wait", "reset"}, PosixGoto(t, from, "idle"), Take(t)
  PROVE  PosixInv'
<1>0. PosixTypeOK /\ CallsHaveSlots /\ ClosedStandForNothing /\ OneName /\ SplitOnlyByDelete /\ UnlinkFindsName
      /\ DeleteFailsOnlyAfterAnother /\ TokensConserved /\ WaitersDoNotHold /\ MutexesHaveOneToken
      /\ OnlySemaphoresSpoiled /\ KilledOnlyBySemaphores /\ ResetBlocksOnlyIfOvertaken
  BY DEF PosixInv
<1>1. PosixTypeOK'
  <2>0. PICK o \in Obj : o = Use(t) /\ o \notin Gone
    BY <1>0 DEF CallsHaveSlots, PosixTypeOK, Use, PosixGoto, Gone
  <2>1. value[o] + Cardinality(held[o]) = due[o] /\ Cardinality(held[o]) \in Nat /\ value[o] \in Nat
        /\ value[o] > 0
    BY <1>0, <2>0, HoldersCounted DEF TokensConserved, Take, PosixTypeOK
  <2>2. due[o] - 1 \in Nat /\ value[o] - 1 \in Nat
    BY <1>0, <2>1 DEF PosixTypeOK
  <2>3. QED
    BY <1>0, <2>0, <2>2, LibraryAssumption, PosixAssumption, SMTT(20)
       DEF PosixTypeOK, CallsHaveSlots, PosixGoto, PosixReturn, Take, Use, Name, objects, handles, calls,
           posixHistory
<1>2. CallsHaveSlots'
  BY <1>0, LibraryAssumption, PosixAssumption DEF CallsHaveSlots, PosixTypeOK, PosixGoto, PosixReturn, Take,
     handles
<1>3. ClosedStandForNothing'
  BY <1>0, LibraryAssumption, PosixAssumption DEF ClosedStandForNothing, Take, handles
<1>4. OneName'
  BY <1>0, LibraryAssumption, PosixAssumption DEF OneName, Take, handles
<1>5. SplitOnlyByDelete'
  BY <1>0, LibraryAssumption, PosixAssumption DEF SplitOnlyByDelete, Take, handles
<1>6. UnlinkFindsName'
  BY <1>0, LibraryAssumption, PosixAssumption DEF UnlinkFindsName, PosixGoto, PosixReturn, Take, handles
<1>7. DeleteFailsOnlyAfterAnother'
  BY <1>0, LibraryAssumption, PosixAssumption DEF DeleteFailsOnlyAfterAnother, Take, handles
<1>8. TokensConserved'
  <2>0. PICK o \in Obj : o = Use(t) /\ o \notin Gone
    BY <1>0 DEF CallsHaveSlots, PosixTypeOK, Use, PosixGoto, Gone
  <2>1. value[o] + Cardinality(held[o]) = due[o] /\ Cardinality(held[o]) \in Nat /\ value[o] \in Nat
        /\ value[o] > 0
    BY <1>0, <2>0, HoldersCounted DEF TokensConserved, Take, PosixTypeOK
  <2>2. Gone' = Gone
    BY DEF Gone, Take, handles
  <2>3. SUFFICES ASSUME NEW x \in Obj, x \notin Gone PROVE value'[x] + Cardinality(held'[x]) = due'[x]
    BY <2>2 DEF TokensConserved
  <2>4. value[x] + Cardinality(held[x]) = due[x]
    BY <1>0, <2>3 DEF TokensConserved
  <2>5. CASE x # o
    BY <1>0, <2>0, <2>4, <2>5 DEF Take, PosixTypeOK
  <2>6. CASE x = o /\ ipc_name[pslot[t]] \in EventName
    BY <1>0, <2>0, <2>1, <2>6 DEF Take, PosixTypeOK
  <2>7. CASE x = o /\ ipc_name[pslot[t]] \notin EventName
    <3>1. from = "wait" /\ t \notin held[o]
      BY <1>0, <2>0, <2>7 DEF CallsHaveSlots, WaitersDoNotHold, PosixGoto, Use
    <3>2. Cardinality(held[o] \cup {t}) = Cardinality(held[o]) + 1
      BY <1>0, <3>1, HoldersCounted, FS_AddElement
    <3>3. held'[o] = held[o] \cup {t} /\ value'[o] = value[o] - 1 /\ due'[o] = due[o]
      BY <1>0, <2>0, <2>7 DEF Take, PosixTypeOK
    <3>4. QED
      BY <2>1, <2>7, <3>2, <3>3
  <2>8. QED
    BY <2>5, <2>6, <2>7
<1>9. WaitersDoNotHold'
  BY <1>0, LibraryAssumption, PosixAssumption
     DEF WaitersDoNotHold, CallsHaveSlots, PosixTypeOK, PosixGoto, PosixReturn, Take, handles
<1>10. MutexesHaveOneToken'
  BY <1>0, LibraryAssumption, PosixAssumption DEF MutexesHaveOneToken, PosixTypeOK, Take, Name, handles
<1>11. OnlySemaphoresSpoiled'
  BY <1>0, LibraryAssumption, PosixAssumption DEF OnlySemaphoresSpoiled, Take, handles
<1>12. KilledOnlyBySemaphores'
  BY <1>0, LibraryAssumption, PosixAssumption DEF KilledOnlyBySemaphores, PosixGoto, PosixReturn, Take, handles
<1>13. ResetBlocksOnlyIfOvertaken'
  BY <1>0, LibraryAssumption, PosixAssumption
     DEF ResetBlocksOnlyIfOvertaken, CallsHaveSlots, Use, OneName, PosixTypeOK, PosixGoto, PosixReturn, Take,
         handles
<1>14. QED
  BY <1>1, <1>2, <1>3, <1>4, <1>5, <1>6, <1>7, <1>8, <1>9, <1>10, <1>11, <1>12, <1>13 DEF PosixInv

LEMMA ResetInterruptedKeepsInv ==
  ASSUME PosixInv, NEW t \in Thread, ResetInterrupted(t)
  PROVE  PosixInv'
<1>0. PosixTypeOK /\ CallsHaveSlots /\ ClosedStandForNothing /\ OneName /\ SplitOnlyByDelete /\ UnlinkFindsName
      /\ DeleteFailsOnlyAfterAnother /\ TokensConserved /\ WaitersDoNotHold /\ MutexesHaveOneToken
      /\ OnlySemaphoresSpoiled /\ KilledOnlyBySemaphores /\ ResetBlocksOnlyIfOvertaken
  BY DEF PosixInv
<1>1. PosixTypeOK'
  BY <1>0, LibraryAssumption, PosixAssumption
     DEF PosixTypeOK, ResetInterrupted, PosixGoto, PosixReturn, objects, handles
<1>2. CallsHaveSlots'
  BY <1>0, LibraryAssumption, PosixAssumption
     DEF CallsHaveSlots, PosixTypeOK, ResetInterrupted, PosixGoto, PosixReturn, handles
<1>3. ClosedStandForNothing'
  BY <1>0, LibraryAssumption, PosixAssumption DEF ClosedStandForNothing, ResetInterrupted, handles
<1>4. OneName'
  BY <1>0, LibraryAssumption, PosixAssumption DEF OneName, ResetInterrupted, objects, handles
<1>5. SplitOnlyByDelete'
  BY <1>0, LibraryAssumption, PosixAssumption DEF SplitOnlyByDelete, ResetInterrupted, objects, handles
<1>6. UnlinkFindsName'
  BY <1>0, LibraryAssumption, PosixAssumption
     DEF UnlinkFindsName, ResetInterrupted, PosixGoto, PosixReturn, objects, handles
<1>7. DeleteFailsOnlyAfterAnother'
  BY <1>0, LibraryAssumption, PosixAssumption DEF DeleteFailsOnlyAfterAnother, ResetInterrupted, handles
<1>8. TokensConserved'
  BY <1>0, LibraryAssumption, PosixAssumption DEF TokensConserved, Gone, ResetInterrupted, objects, handles
<1>9. WaitersDoNotHold'
  BY <1>0, LibraryAssumption, PosixAssumption DEF WaitersDoNotHold, ResetInterrupted, PosixGoto, PosixReturn,
     handles
<1>10. MutexesHaveOneToken'
  BY <1>0, LibraryAssumption, PosixAssumption DEF MutexesHaveOneToken, ResetInterrupted, objects, handles
<1>11. OnlySemaphoresSpoiled'
  BY <1>0, LibraryAssumption, PosixAssumption DEF OnlySemaphoresSpoiled, ResetInterrupted, objects, handles
<1>12. KilledOnlyBySemaphores'
  BY <1>0, LibraryAssumption, PosixAssumption
     DEF KilledOnlyBySemaphores, ResetInterrupted, PosixGoto, PosixReturn, handles
<1>13. ResetBlocksOnlyIfOvertaken'
  BY <1>0, LibraryAssumption, PosixAssumption
     DEF ResetBlocksOnlyIfOvertaken, Use, PosixTypeOK, ResetInterrupted, PosixGoto, PosixReturn, objects,
         handles
<1>14. QED
  BY <1>1, <1>2, <1>3, <1>4, <1>5, <1>6, <1>7, <1>8, <1>9, <1>10, <1>11, <1>12, <1>13 DEF PosixInv

LEMMA KilledKeepsInv ==
  ASSUME PosixInv, NEW t \in Thread, Killed(t)
  PROVE  PosixInv'
<1>0. PosixTypeOK /\ CallsHaveSlots /\ ClosedStandForNothing /\ OneName /\ SplitOnlyByDelete /\ UnlinkFindsName
      /\ DeleteFailsOnlyAfterAnother /\ TokensConserved /\ WaitersDoNotHold /\ MutexesHaveOneToken
      /\ OnlySemaphoresSpoiled /\ KilledOnlyBySemaphores /\ ResetBlocksOnlyIfOvertaken
  BY DEF PosixInv
<1>1. PosixTypeOK'
  BY <1>0, LibraryAssumption, PosixAssumption
     DEF PosixTypeOK, Killed, PosixGoto, objects, handles, calls, posixHistory
<1>2. CallsHaveSlots'
  BY <1>0, LibraryAssumption, PosixAssumption DEF CallsHaveSlots, PosixTypeOK, Killed, PosixGoto, handles, calls
<1>3. ClosedStandForNothing'
  BY <1>0, LibraryAssumption, PosixAssumption DEF ClosedStandForNothing, Killed, handles
<1>4. OneName'
  BY <1>0, LibraryAssumption, PosixAssumption DEF OneName, Killed, objects, handles
<1>5. SplitOnlyByDelete'
  BY <1>0, LibraryAssumption, PosixAssumption DEF SplitOnlyByDelete, Killed, objects, handles, posixHistory
<1>6. UnlinkFindsName'
  BY <1>0, LibraryAssumption, PosixAssumption
     DEF UnlinkFindsName, PosixTypeOK, Killed, PosixGoto, objects, handles, calls, posixHistory
<1>7. DeleteFailsOnlyAfterAnother'
  BY <1>0, LibraryAssumption, PosixAssumption DEF DeleteFailsOnlyAfterAnother, Killed, handles, posixHistory
<1>8. TokensConserved'
  BY <1>0, LibraryAssumption, PosixAssumption DEF TokensConserved, Gone, Killed, objects, handles, posixHistory
<1>9. WaitersDoNotHold'
  BY <1>0, LibraryAssumption, PosixAssumption
     DEF WaitersDoNotHold, PosixTypeOK, Killed, PosixGoto, handles, calls, posixHistory
<1>10. MutexesHaveOneToken'
  BY <1>0, LibraryAssumption, PosixAssumption DEF MutexesHaveOneToken, Killed, objects, handles, posixHistory
<1>11. OnlySemaphoresSpoiled'
  BY <1>0, LibraryAssumption, PosixAssumption DEF OnlySemaphoresSpoiled, Killed, objects, handles
<1>12. KilledOnlyBySemaphores'
  BY <1>0, LibraryAssumption, PosixAssumption
     DEF KilledOnlyBySemaphores, CallsHaveSlots, OnlySemaphoresSpoiled, PosixTypeOK, Killed, PosixGoto, Use,
         handles,
         calls
<1>13. ResetBlocksOnlyIfOvertaken'
  BY <1>0, LibraryAssumption, PosixAssumption
     DEF ResetBlocksOnlyIfOvertaken, Use, PosixTypeOK, Killed, PosixGoto, objects, handles, calls, posixHistory
<1>14. QED
  BY <1>1, <1>2, <1>3, <1>4, <1>5, <1>6, <1>7, <1>8, <1>9, <1>10, <1>11, <1>12, <1>13 DEF PosixInv

LEMMA GiveBackKeepsInv ==
  ASSUME PosixInv, NEW t \in Thread, NEW s \in Slot, GiveBack(t, s), Post(t, s)
  PROVE  PosixInv'
<1>0. PosixTypeOK /\ CallsHaveSlots /\ ClosedStandForNothing /\ OneName /\ SplitOnlyByDelete /\ UnlinkFindsName
      /\ DeleteFailsOnlyAfterAnother /\ TokensConserved /\ WaitersDoNotHold /\ MutexesHaveOneToken
      /\ OnlySemaphoresSpoiled /\ KilledOnlyBySemaphores /\ ResetBlocksOnlyIfOvertaken
  BY DEF PosixInv
<1>1. PosixTypeOK'
  BY <1>0, LibraryAssumption, PosixAssumption DEF PosixTypeOK, GiveBack, Post, handles, calls
<1>2. CallsHaveSlots'
  BY <1>0, LibraryAssumption, PosixAssumption DEF CallsHaveSlots, Post, handles, calls
<1>3. ClosedStandForNothing'
  BY <1>0, LibraryAssumption, PosixAssumption DEF ClosedStandForNothing, Post, handles
<1>4. OneName'
  BY <1>0, LibraryAssumption, PosixAssumption DEF OneName, Post, handles
<1>5. SplitOnlyByDelete'
  BY <1>0, LibraryAssumption, PosixAssumption DEF SplitOnlyByDelete, Post, handles
<1>6. UnlinkFindsName'
  BY <1>0, LibraryAssumption, PosixAssumption DEF UnlinkFindsName, Post, handles, calls
<1>7. DeleteFailsOnlyAfterAnother'
  BY <1>0, LibraryAssumption, PosixAssumption DEF DeleteFailsOnlyAfterAnother, Post, handles
<1>8. TokensConserved'
  <2>0. PICK o \in Obj : o = ipc_sem[s] /\ o \notin Gone
    BY <1>0 DEF PosixTypeOK, Post, Gone
  <2>1. value[o] + Cardinality(held[o]) = due[o] /\ Cardinality(held[o]) \in Nat /\ value[o] \in Nat
    BY <1>0, <2>0, HoldersCounted DEF TokensConserved, PosixTypeOK
  <2>2. Gone' = Gone
    BY DEF Gone, Post, handles
  <2>3. SUFFICES ASSUME NEW x \in Obj, x \notin Gone PROVE value'[x] + Cardinality(held'[x]) = due'[x]
    BY <2>2 DEF TokensConserved
  <2>4. value[x] + Cardinality(held[x]) = due[x]
    BY <1>0, <2>3 DEF TokensConserved
  <2>5. CASE x # o
    BY <1>0, <2>0, <2>4, <2>5 DEF Post, GiveBack, PosixTypeOK
  <2>6. CASE x = o
    <3>1. Cardinality(held[o] \ {t}) = Cardinality(held[o]) - 1
      BY <1>0, <2>0, HoldersCounted, FS_RemoveElement DEF GiveBack
    <3>2. held'[o] = held[o] \ {t} /\ value'[o] = value[o] + 1 /\ due'[o] = due[o]
      BY <1>0, <2>0 DEF Post, GiveBack, PosixTypeOK
    <3>3. QED
      BY <2>1, <2>6, <3>1, <3>2
  <2>7. QED
    BY <2>5, <2>6
<1>9. WaitersDoNotHold'
  BY <1>0, LibraryAssumption, PosixAssumption DEF WaitersDoNotHold, GiveBack, Post, handles, calls
<1>10. MutexesHaveOneToken'
  BY <1>0, LibraryAssumption, PosixAssumption DEF MutexesHaveOneToken, GiveBack, Post, handles
<1>11. OnlySemaphoresSpoiled'
  BY <1>0, LibraryAssumption, PosixAssumption DEF OnlySemaphoresSpoiled, Post, handles
<1>12. KilledOnlyBySemaphores'
  BY <1>0, LibraryAssumption, PosixAssumption DEF KilledOnlyBySemaphores, Post, handles, calls
<1>13. ResetBlocksOnlyIfOvertaken'
  BY <1>0, LibraryAssumption, PosixAssumption DEF ResetBlocksOnlyIfOvertaken, Use, PosixTypeOK, Post, handles,
     calls
<1>14. QED
  BY <1>1, <1>2, <1>3, <1>4, <1>5, <1>6, <1>7, <1>8, <1>9, <1>10, <1>11, <1>12, <1>13 DEF PosixInv

LEMMA GiveKeepsInv ==
  ASSUME PosixInv, NEW t \in Thread, NEW s \in Slot, Give(s), Post(t, s),
         \/ ipc_name[s] \in SemName \cup EventName /\ UNCHANGED strayed
         \/ strayed' = strayed \cup {ipc_sem[s]}
  PROVE  PosixInv'
<1>0. PosixTypeOK /\ CallsHaveSlots /\ ClosedStandForNothing /\ OneName /\ SplitOnlyByDelete /\ UnlinkFindsName
      /\ DeleteFailsOnlyAfterAnother /\ TokensConserved /\ WaitersDoNotHold /\ MutexesHaveOneToken
      /\ OnlySemaphoresSpoiled /\ KilledOnlyBySemaphores /\ ResetBlocksOnlyIfOvertaken
  BY DEF PosixInv
<1>1. PosixTypeOK'
  BY <1>0, LibraryAssumption, PosixAssumption DEF PosixTypeOK, Give, Post, handles, calls
<1>2. CallsHaveSlots'
  BY <1>0, LibraryAssumption, PosixAssumption DEF CallsHaveSlots, Post, handles, calls
<1>3. ClosedStandForNothing'
  BY <1>0, LibraryAssumption, PosixAssumption DEF ClosedStandForNothing, Post, handles
<1>4. OneName'
  BY <1>0, LibraryAssumption, PosixAssumption DEF OneName, Post, handles
<1>5. SplitOnlyByDelete'
  BY <1>0, LibraryAssumption, PosixAssumption DEF SplitOnlyByDelete, Post, handles
<1>6. UnlinkFindsName'
  BY <1>0, LibraryAssumption, PosixAssumption DEF UnlinkFindsName, Post, handles, calls
<1>7. DeleteFailsOnlyAfterAnother'
  BY <1>0, LibraryAssumption, PosixAssumption DEF DeleteFailsOnlyAfterAnother, Post, handles
<1>8. TokensConserved'
  <2>0. PICK o \in Obj : o = ipc_sem[s] /\ o \notin Gone
    BY <1>0 DEF PosixTypeOK, Post, Gone
  <2>1. value[o] + Cardinality(held[o]) = due[o] /\ Cardinality(held[o]) \in Nat /\ value[o] \in Nat
    BY <1>0, <2>0, HoldersCounted DEF TokensConserved, PosixTypeOK
  <2>2. Gone' = Gone
    BY DEF Gone, Post, handles
  <2>3. SUFFICES ASSUME NEW x \in Obj, x \notin Gone PROVE value'[x] + Cardinality(held'[x]) = due'[x]
    BY <2>2 DEF TokensConserved
  <2>4. value[x] + Cardinality(held[x]) = due[x]
    BY <1>0, <2>3 DEF TokensConserved
  <2>5. CASE x # o
    BY <1>0, <2>0, <2>4, <2>5 DEF Post, Give, PosixTypeOK
  <2>6. CASE x = o
    BY <1>0, <2>0, <2>1, <2>6 DEF Post, Give, PosixTypeOK
  <2>7. QED
    BY <2>5, <2>6
<1>9. WaitersDoNotHold'
  BY <1>0, LibraryAssumption, PosixAssumption DEF WaitersDoNotHold, Give, Post, handles, calls
<1>10. MutexesHaveOneToken'
  BY <1>0, LibraryAssumption, PosixAssumption DEF MutexesHaveOneToken, OneName, Give, Post, Name, handles
<1>11. OnlySemaphoresSpoiled'
  BY <1>0, LibraryAssumption, PosixAssumption DEF OnlySemaphoresSpoiled, Post, handles
<1>12. KilledOnlyBySemaphores'
  BY <1>0, LibraryAssumption, PosixAssumption DEF KilledOnlyBySemaphores, Post, handles, calls
<1>13. ResetBlocksOnlyIfOvertaken'
  BY <1>0, LibraryAssumption, PosixAssumption DEF ResetBlocksOnlyIfOvertaken, Use, PosixTypeOK, Post, handles,
     calls
<1>14. QED
  BY <1>1, <1>2, <1>3, <1>4, <1>5, <1>6, <1>7, <1>8, <1>9, <1>10, <1>11, <1>12, <1>13 DEF PosixInv

LEMMA ResetEnterKeepsInv ==
  ASSUME PosixInv, NEW t \in Thread, NEW s \in Slot, ResetEnter(t, s)
  PROVE  PosixInv'
<1>0. PosixTypeOK /\ CallsHaveSlots /\ ClosedStandForNothing /\ OneName /\ SplitOnlyByDelete /\ UnlinkFindsName
      /\ DeleteFailsOnlyAfterAnother /\ TokensConserved /\ WaitersDoNotHold /\ MutexesHaveOneToken
      /\ OnlySemaphoresSpoiled /\ KilledOnlyBySemaphores /\ ResetBlocksOnlyIfOvertaken
  BY DEF PosixInv
<1>1. PosixTypeOK'
  BY <1>0, LibraryAssumption, PosixAssumption DEF PosixTypeOK, ResetEnter, objects, handles, posixHistory
<1>2. CallsHaveSlots'
  BY <1>0, LibraryAssumption, PosixAssumption DEF CallsHaveSlots, PosixTypeOK, ResetEnter, handles
<1>3. ClosedStandForNothing'
  BY <1>0, LibraryAssumption, PosixAssumption DEF ClosedStandForNothing, ResetEnter, handles
<1>4. OneName'
  BY <1>0, LibraryAssumption, PosixAssumption DEF OneName, ResetEnter, objects, handles
<1>5. SplitOnlyByDelete'
  BY <1>0, LibraryAssumption, PosixAssumption DEF SplitOnlyByDelete, ResetEnter, objects, handles, posixHistory
<1>6. UnlinkFindsName'
  BY <1>0, LibraryAssumption, PosixAssumption DEF UnlinkFindsName, ResetEnter, objects, handles, posixHistory
<1>7. DeleteFailsOnlyAfterAnother'
  BY <1>0, LibraryAssumption, PosixAssumption DEF DeleteFailsOnlyAfterAnother, ResetEnter, handles, posixHistory
<1>8. TokensConserved'
  BY <1>0, LibraryAssumption, PosixAssumption DEF TokensConserved, Gone, ResetEnter, objects, handles,
     posixHistory
<1>9. WaitersDoNotHold'
  BY <1>0, LibraryAssumption, PosixAssumption DEF WaitersDoNotHold, ResetEnter, handles, posixHistory
<1>10. MutexesHaveOneToken'
  BY <1>0, LibraryAssumption, PosixAssumption DEF MutexesHaveOneToken, ResetEnter, objects, handles,
     posixHistory
<1>11. OnlySemaphoresSpoiled'
  BY <1>0, LibraryAssumption, PosixAssumption DEF OnlySemaphoresSpoiled, ResetEnter, objects, handles
<1>12. KilledOnlyBySemaphores'
  BY <1>0, LibraryAssumption, PosixAssumption DEF KilledOnlyBySemaphores, ResetEnter, handles
<1>13. ResetBlocksOnlyIfOvertaken'
  BY <1>0, LibraryAssumption, PosixAssumption
     DEF ResetBlocksOnlyIfOvertaken, Use, PosixTypeOK, ResetEnter, objects, handles, posixHistory
<1>14. QED
  BY <1>1, <1>2, <1>3, <1>4, <1>5, <1>6, <1>7, <1>8, <1>9, <1>10, <1>11, <1>12, <1>13 DEF PosixInv

LEMMA KilledOnEntryKeepsInv ==
  ASSUME PosixInv, NEW t \in Thread, NEW s \in Slot, KilledOnEntry(t, s)
  PROVE  PosixInv'
<1>0. PosixTypeOK /\ CallsHaveSlots /\ ClosedStandForNothing /\ OneName /\ SplitOnlyByDelete /\ UnlinkFindsName
      /\ DeleteFailsOnlyAfterAnother /\ TokensConserved /\ WaitersDoNotHold /\ MutexesHaveOneToken
      /\ OnlySemaphoresSpoiled /\ KilledOnlyBySemaphores /\ ResetBlocksOnlyIfOvertaken
  BY DEF PosixInv
<1>1. PosixTypeOK'
  BY <1>0, LibraryAssumption, PosixAssumption
     DEF PosixTypeOK, KilledOnEntry, PosixGoto, objects, handles, posixHistory
<1>2. CallsHaveSlots'
  BY <1>0, LibraryAssumption, PosixAssumption DEF CallsHaveSlots, PosixTypeOK, KilledOnEntry, PosixGoto, handles
<1>3. ClosedStandForNothing'
  BY <1>0, LibraryAssumption, PosixAssumption DEF ClosedStandForNothing, KilledOnEntry, handles
<1>4. OneName'
  BY <1>0, LibraryAssumption, PosixAssumption DEF OneName, KilledOnEntry, objects, handles
<1>5. SplitOnlyByDelete'
  BY <1>0, LibraryAssumption, PosixAssumption DEF SplitOnlyByDelete, KilledOnEntry, objects, handles,
     posixHistory
<1>6. UnlinkFindsName'
  BY <1>0, LibraryAssumption, PosixAssumption
     DEF UnlinkFindsName, KilledOnEntry, PosixGoto, objects, handles, posixHistory
<1>7. DeleteFailsOnlyAfterAnother'
  BY <1>0, LibraryAssumption, PosixAssumption DEF DeleteFailsOnlyAfterAnother, KilledOnEntry, handles,
     posixHistory
<1>8. TokensConserved'
  BY <1>0, LibraryAssumption, PosixAssumption DEF TokensConserved, Gone, KilledOnEntry, objects, handles,
     posixHistory
<1>9. WaitersDoNotHold'
  BY <1>0, LibraryAssumption, PosixAssumption DEF WaitersDoNotHold, KilledOnEntry, PosixGoto, handles,
     posixHistory
<1>10. MutexesHaveOneToken'
  BY <1>0, LibraryAssumption, PosixAssumption DEF MutexesHaveOneToken, KilledOnEntry, objects, handles,
     posixHistory
<1>11. OnlySemaphoresSpoiled'
  BY <1>0, LibraryAssumption, PosixAssumption DEF OnlySemaphoresSpoiled, KilledOnEntry, objects, handles
<1>12. KilledOnlyBySemaphores'
  BY <1>0, LibraryAssumption, PosixAssumption
     DEF KilledOnlyBySemaphores, OnlySemaphoresSpoiled, PosixTypeOK, KilledOnEntry, PosixGoto, handles
<1>13. ResetBlocksOnlyIfOvertaken'
  BY <1>0, LibraryAssumption, PosixAssumption
     DEF ResetBlocksOnlyIfOvertaken, Use, KilledOnEntry, PosixGoto, objects, handles, posixHistory
<1>14. QED
  BY <1>1, <1>2, <1>3, <1>4, <1>5, <1>6, <1>7, <1>8, <1>9, <1>10, <1>11, <1>12, <1>13 DEF PosixInv

LEMMA DeleteCloseKeepsInv ==
  ASSUME PosixInv, NEW t \in Thread, NEW s \in Slot, DeleteClose(t, s)
  PROVE  PosixInv'
<1>0. PosixTypeOK /\ CallsHaveSlots /\ ClosedStandForNothing /\ OneName /\ SplitOnlyByDelete /\ UnlinkFindsName
      /\ DeleteFailsOnlyAfterAnother /\ TokensConserved /\ WaitersDoNotHold /\ MutexesHaveOneToken
      /\ OnlySemaphoresSpoiled /\ KilledOnlyBySemaphores /\ ResetBlocksOnlyIfOvertaken
  BY DEF PosixInv
<1>1. PosixTypeOK'
  BY <1>0, LibraryAssumption, PosixAssumption DEF PosixTypeOK, DeleteClose, PosixGoto, objects, posixHistory
<1>2. CallsHaveSlots'
  BY <1>0, LibraryAssumption, PosixAssumption
     DEF CallsHaveSlots, ClosedStandForNothing, PosixTypeOK, DeleteClose, PosixGoto
<1>3. ClosedStandForNothing'
  BY <1>0, LibraryAssumption, PosixAssumption DEF ClosedStandForNothing, DeleteClose
<1>4. OneName'
  BY <1>0, LibraryAssumption, PosixAssumption DEF OneName, DeleteClose, objects
<1>5. SplitOnlyByDelete'
  BY <1>0, LibraryAssumption, PosixAssumption DEF SplitOnlyByDelete, DeleteClose, objects, posixHistory
<1>6. UnlinkFindsName'
  BY <1>0, LibraryAssumption, PosixAssumption
     DEF UnlinkFindsName, SplitOnlyByDelete, PosixTypeOK, DeleteClose, PosixGoto, objects, posixHistory
<1>7. DeleteFailsOnlyAfterAnother'
  BY <1>0, LibraryAssumption, PosixAssumption DEF DeleteFailsOnlyAfterAnother, DeleteClose, posixHistory
<1>8. TokensConserved'
  BY <1>0, LibraryAssumption, PosixAssumption DEF TokensConserved, Gone, DeleteClose, objects, posixHistory
<1>9. WaitersDoNotHold'
  BY <1>0, LibraryAssumption, PosixAssumption DEF WaitersDoNotHold, DeleteClose, PosixGoto, posixHistory
<1>10. MutexesHaveOneToken'
  BY <1>0, LibraryAssumption, PosixAssumption DEF MutexesHaveOneToken, DeleteClose, objects, posixHistory
<1>11. OnlySemaphoresSpoiled'
  BY <1>0, LibraryAssumption, PosixAssumption DEF OnlySemaphoresSpoiled, PosixTypeOK, DeleteClose, objects
<1>12. KilledOnlyBySemaphores'
  BY <1>0, LibraryAssumption, PosixAssumption DEF KilledOnlyBySemaphores, DeleteClose, PosixGoto
<1>13. ResetBlocksOnlyIfOvertaken'
  BY <1>0, LibraryAssumption, PosixAssumption
     DEF ResetBlocksOnlyIfOvertaken, Use, DeleteClose, PosixGoto, objects, posixHistory
<1>14. QED
  BY <1>1, <1>2, <1>3, <1>4, <1>5, <1>6, <1>7, <1>8, <1>9, <1>10, <1>11, <1>12, <1>13 DEF PosixInv

LEMMA DeleteUnlinkKeepsInv ==
  ASSUME PosixInv, NEW t \in Thread, DeleteUnlink(t)
  PROVE  PosixInv'
<1>0. PosixTypeOK /\ CallsHaveSlots /\ ClosedStandForNothing /\ OneName /\ SplitOnlyByDelete /\ UnlinkFindsName
      /\ DeleteFailsOnlyAfterAnother /\ TokensConserved /\ WaitersDoNotHold /\ MutexesHaveOneToken
      /\ OnlySemaphoresSpoiled /\ KilledOnlyBySemaphores /\ ResetBlocksOnlyIfOvertaken
  BY DEF PosixInv
<1>1. PosixTypeOK'
  BY <1>0, LibraryAssumption, PosixAssumption
     DEF PosixTypeOK, CallsHaveSlots, DeleteUnlink, PosixGoto, PosixReturn, SlotsOf
<1>2. CallsHaveSlots'
  BY <1>0, LibraryAssumption, PosixAssumption DEF CallsHaveSlots, PosixTypeOK, DeleteUnlink, PosixGoto,
     PosixReturn
<1>3. ClosedStandForNothing'
  BY <1>0, LibraryAssumption, PosixAssumption DEF ClosedStandForNothing, CallsHaveSlots, DeleteUnlink, PosixGoto
<1>4. OneName'
  BY <1>0, LibraryAssumption, PosixAssumption DEF OneName, PosixTypeOK, DeleteUnlink
<1>5. SplitOnlyByDelete'
  BY <1>0, LibraryAssumption, PosixAssumption
     DEF SplitOnlyByDelete, CallsHaveSlots, PosixTypeOK, DeleteUnlink, PosixGoto, SlotsOf
<1>6. UnlinkFindsName'
  BY <1>0, LibraryAssumption, PosixAssumption
     DEF UnlinkFindsName, CallsHaveSlots, PosixTypeOK, DeleteUnlink, PosixGoto, PosixReturn, SlotsOf
<1>7. DeleteFailsOnlyAfterAnother'
  BY <1>0, LibraryAssumption, PosixAssumption
     DEF DeleteFailsOnlyAfterAnother, UnlinkFindsName, CallsHaveSlots, DeleteUnlink, PosixGoto
<1>8. TokensConserved'
  BY <1>0, LibraryAssumption, PosixAssumption DEF TokensConserved, Gone, PosixTypeOK, DeleteUnlink
<1>9. WaitersDoNotHold'
  BY <1>0, LibraryAssumption, PosixAssumption DEF WaitersDoNotHold, DeleteUnlink, PosixGoto, PosixReturn
<1>10. MutexesHaveOneToken'
  BY <1>0, LibraryAssumption, PosixAssumption DEF MutexesHaveOneToken, PosixTypeOK, DeleteUnlink, Name
<1>11. OnlySemaphoresSpoiled'
  BY <1>0, LibraryAssumption, PosixAssumption DEF OnlySemaphoresSpoiled, PosixTypeOK, DeleteUnlink
<1>12. KilledOnlyBySemaphores'
  BY <1>0, LibraryAssumption, PosixAssumption DEF KilledOnlyBySemaphores, DeleteUnlink, PosixGoto, PosixReturn
<1>13. ResetBlocksOnlyIfOvertaken'
  BY <1>0, LibraryAssumption, PosixAssumption
     DEF ResetBlocksOnlyIfOvertaken, Use, DeleteUnlink, PosixGoto, PosixReturn
<1>14. QED
  BY <1>1, <1>2, <1>3, <1>4, <1>5, <1>6, <1>7, <1>8, <1>9, <1>10, <1>11, <1>12, <1>13 DEF PosixInv

LEMMA NextKeepsPosixInv == PosixInv /\ [PosixNext]_posixVars => PosixInv'
<1> SUFFICES ASSUME PosixInv, [PosixNext]_posixVars PROVE PosixInv'
  OBVIOUS
<1>1. ASSUME NEW t \in Thread, Reopen(t) PROVE PosixInv'
  <2>1. CASE SemMake(t, pslot[t], ipc_name[pslot[t]], pvalue[t])
    <3>1. PICK o \in Obj : Made(t, pslot[t], ipc_name[pslot[t]], pvalue[t], o)
      BY <2>1, SemMakeMakes
    <3>2. QED
      BY <1>1, <3>1, ReopenMakesKeepsInv DEF Reopen
  <2>2. CASE SemFind(pslot[t], ipc_name[pslot[t]]) /\ UNCHANGED spoiled
    BY <1>1, <2>2, ReopenFindsKeepsInv DEF Reopen
  <2>3. CASE UNCHANGED <<objects, ipc_sem, closed, posixHistory>>
    BY <1>1, <2>3, EndsKeepsInv DEF Reopen, handles
  <2>4. QED
    BY <1>1, <2>1, <2>2, <2>3 DEF Reopen
<1>2. ASSUME NEW t \in Thread, WaitTake(t) \/ ResetTake(t) PROVE PosixInv'
  BY <1>2, TakeKeepsInv DEF WaitTake, ResetTake
<1>3. ASSUME NEW t \in Thread, WaitExpire(t) \/ WaitInterrupted(t) PROVE PosixInv'
  BY <1>3, EndsKeepsInv DEF WaitExpire, WaitInterrupted
<1>4. ASSUME NEW t \in Thread, Killed(t) \/ DeleteUnlink(t) \/ ResetInterrupted(t) PROVE PosixInv'
  BY <1>4, KilledKeepsInv, DeleteUnlinkKeepsInv, ResetInterruptedKeepsInv
<1>5. ASSUME NEW t \in Thread, NEW s \in Slot, NEW n \in Name, NEW v \in Asked[n], OpenExclusive(t, s, n, v)
      PROVE  PosixInv'
  <2>1. CASE SemMake(t, s, n, v) /\ UNCHANGED <<pstep, calls>>
    <3>1. PICK o \in Obj : Made(t, s, n, v, o)
      BY <2>1, SemMakeMakes
    <3>2. QED
      BY <1>5, <2>1, <3>1, CreateMakesKeepsInv DEF OpenExclusive
  <2>2. CASE /\ pstep' = [pstep EXCEPT ![t] = "reopen"]
             /\ pslot' = [pslot EXCEPT ![t] = s]
             /\ pvalue' = [pvalue EXCEPT ![t] = v]
             /\ UNCHANGED <<objects, ipc_sem, closed, plimit, posixHistory>>
    BY <1>5, <2>2, CreateRetriesKeepsInv DEF OpenExclusive, PosixGoto
  <2>3. QED
    BY <1>5, <2>1, <2>2 DEF OpenExclusive
<1>6. ASSUME NEW t \in Thread, NEW s \in Slot, NEW n \in Name, NEW v \in Asked[n],
             IPC_createMutex(t, s, n, v) \/ IPC_createSemaphore(t, s, n, v) \/ IPC_createEvent(t, s, n, v)
      PROVE  PosixInv'
  BY <1>5, <1>6, TruncateKeepsInv DEF IPC_createMutex, IPC_createSemaphore, IPC_createEvent
<1>7. ASSUME NEW t \in Thread, NEW s \in Slot, NEW l \in Limit,
             IPC_captureMutex(t, s, l) \/ IPC_lockSemaphore(t, s, l) \/ IPC_waitEvent(t, s, l)
      PROVE  PosixInv'
  BY <1>7, WaitEnterKeepsInv DEF IPC_captureMutex, IPC_lockSemaphore, IPC_waitEvent
<1>8. ASSUME NEW t \in Thread, NEW s \in Slot,
             IPC_releaseMutex(t, s) \/ IPC_unlockSemaphore(t, s) \/ IPC_setEvent(t, s)
      PROVE  PosixInv'
  BY <1>8, GiveBackKeepsInv, GiveKeepsInv DEF IPC_releaseMutex, IPC_unlockSemaphore, IPC_setEvent, GiveMore
<1>9. ASSUME NEW t \in Thread, NEW s \in Slot, ResetEnter(t, s) \/ KilledOnEntry(t, s) PROVE PosixInv'
  BY <1>9, ResetEnterKeepsInv, KilledOnEntryKeepsInv
<1>10. ASSUME NEW t \in Thread, NEW s \in Slot,
              IPC_deleteMutex(t, s) \/ IPC_deleteSemaphore(t, s) \/ IPC_deleteEvent(t, s)
       PROVE  PosixInv'
  BY <1>10, DeleteCloseKeepsInv DEF IPC_deleteMutex, IPC_deleteSemaphore, IPC_deleteEvent
<1>11. CASE UNCHANGED posixVars
  BY <1>11 DEF PosixInv, PosixTypeOK, CallsHaveSlots, ClosedStandForNothing, OneName, SplitOnlyByDelete,
     UnlinkFindsName, DeleteFailsOnlyAfterAnother, TokensConserved, Gone, WaitersDoNotHold,
     MutexesHaveOneToken, OnlySemaphoresSpoiled, KilledOnlyBySemaphores, ResetBlocksOnlyIfOvertaken, Use,
     posixVars, objects, handles, calls, posixHistory
<1>12. QED
  BY <1>1, <1>2, <1>3, <1>4, <1>6, <1>7, <1>8, <1>9, <1>10, <1>11 DEF PosixNext, PosixProceed

LEMMA InitHasPosixInv == PosixInit => PosixInv
<1> SUFFICES ASSUME PosixInit PROVE PosixInv
  OBVIOUS
<1>1. (CHOOSE n \in Name : TRUE) \in Name
  BY PosixAssumption
<1>2. PosixTypeOK
  BY <1>1 DEF PosixInit, PosixTypeOK
<1>3. TokensConserved
  BY PosixAssumption DEF PosixInit, TokensConserved, Gone
<1>4. QED
  BY <1>2, <1>3, PosixAssumption, LibraryAssumption
     DEF PosixInit, PosixInv, CallsHaveSlots, ClosedStandForNothing, OneName, SplitOnlyByDelete,
         UnlinkFindsName,
         DeleteFailsOnlyAfterAnother, WaitersDoNotHold, MutexesHaveOneToken, OnlySemaphoresSpoiled,
         KilledOnlyBySemaphores, ResetBlocksOnlyIfOvertaken, Use, Name

LEMMA OneTokenOneHolder == PosixInv => PosixMutualExclusion
<1> SUFFICES ASSUME PosixInv, NEW s \in Slot, ipc_sem[s] # NoObj, ipc_name[s] \in MutexName,
                    ipc_sem[s] \notin strayed
             PROVE  Cardinality(held[ipc_sem[s]]) <= 1
  BY DEF PosixMutualExclusion
<1>1. PosixTypeOK /\ TokensConserved /\ MutexesHaveOneToken
  BY DEF PosixInv
<1>2. PICK o \in Obj : o = ipc_sem[s] /\ o \notin Gone
  BY <1>1 DEF PosixTypeOK, Gone
<1>3. /\ value[o] \in Nat /\ due[o] \in Nat /\ due[o] <= 1
      /\ value[o] + Cardinality(held[o]) = due[o]
      /\ Cardinality(held[o]) \in Nat
  BY <1>1, <1>2, HoldersCounted DEF PosixTypeOK, TokensConserved, MutexesHaveOneToken
<1>4. QED
  BY <1>2, <1>3

LEMMA PosixInvAlways == PosixSpec => []PosixInv
  BY InitHasPosixInv, NextKeepsPosixInv, PTL DEF PosixSpec

(* What was put into a semaphore of the POSIX backend is in it, held or    *)
(* taken; a mutex has at most one holder, from the maker that asked for it *)
(* as taken on, until a thread releases it that does not hold it; and only *)
(* clients of semaphores are killed: for any number of threads, handles,   *)
(* names and semaphores, over signals, timeouts and unlinked names.        *)
THEOREM PosixObjects == PosixSpec => []PosixObjectsSound
<1>1. PosixInv => PosixObjectsSound
  BY OneTokenOneHolder DEF PosixInv, PosixObjectsSound
<1>2. QED
  BY <1>1, PosixInvAlways, PTL

(* Two handles of a name stand for different semaphores, and a delete      *)
(* leaves its handle behind, only where another delete took the name.      *)
THEOREM PosixNames == PosixSpec => []PosixNamesSound
<1>1. PosixInv => PosixNamesSound
  BY DEF PosixInv, PosixNamesSound
<1>2. QED
  BY <1>1, PosixInvAlways, PTL

(* A reset blocks only if somebody took the event after it had seen it.    *)
THEOREM PosixResets == PosixSpec => []ResetBlocksOnlyIfOvertaken
<1>1. PosixInv => ResetBlocksOnlyIfOvertaken
  BY DEF PosixInv
<1>2. QED
  BY <1>1, PosixInvAlways, PTL

-----------------------------------------------------------------------------
(***************************************************************************)
(* The QNX library and its resource manager.                               *)
(***************************************************************************)

(* An entry is on the list of its kind, once, and nowhere else. *)
EntriesListedOnce ==
  \A k \in Range(Kind) : \A i \in 1 .. Len(m_list[k]) :
    /\ m_list[k][i] \in allocated
    /\ KindOf(entryName[m_list[k][i]]) = k
    /\ \A j \in 1 .. Len(m_list[k]) : m_list[k][i] = m_list[k][j] => i = j

(* The handles of an entry. *)
HandlesFor(a) == {h \in Thread \X QName : qhandle[h] = a}

EntriesInv == QnxTypeOK /\ EntriesListedOnce /\ QnxNoUseAfterFree /\ QnxReferencesExact

(* What a request asks for is still so when the manager takes it: nobody   *)
(* but its client, which waits for the answer, could change it.            *)
Awaited(t) ==
  /\ EntryIn(t) = NoEntry <=> request[t].op = "open"
  /\ request[t].op = "lock" => t \notin got[EntryIn(t)]
  /\ NameIn(t) \in MutexName /\ request[t].op = "open" => request[t].value <= 1

RequestsUpToDate ==
  server = "up" => \A t \in Thread : request[t] # NoRequest => Awaited(t)

(* Posts and captures balance on every address, and not only on those that *)
(* are allocated.                                                          *)
TokensBalance ==
  \A a \in Entry :
    /\ sem[a] + Cardinality(got[a] \ deceived[a]) = due_q[a]
    /\ deceived[a] \subseteq got[a]

(* A mutex has no more than one token as long as only who has it releases  *)
(* it, and only semaphores deceive.                                        *)
OneToken ==
  \A a \in allocated :
    /\ entryName[a] \in MutexName /\ a \notin strayed_q => due_q[a] <= 1
    /\ entryName[a] \notin SemName => deceived[a] = {}

QnxInv == EntriesInv /\ RequestsUpToDate /\ TokensBalance /\ OneToken /\ StuckOnlyByLongWait

-----------------------------------------------------------------------------
LEMMA QnxKinds ==
  /\ Range(Kind) = {"sem", "mutex", "event", "shm"}
  /\ Kind[1] = "sem" /\ Kind[2] = "mutex" /\ Kind[3] = "event" /\ Kind[4] = "shm"
  /\ \A n \in QName : KindOf(n) \in Range(Kind)
  /\ \A n \in QName : (KindOf(n) = "sem" <=> n \in SemName) /\ (KindOf(n) = "event" <=> n \in EventName)
  /\ \A n \in QName : KindOf(n) = "mutex" => n \in MutexName
<1>1. Range(Kind) = {"sem", "mutex", "event", "shm"}
  BY DEF Kind, Range
<1> QED
  BY <1>1, LibraryAssumption DEF Kind, KindOf, QName, Name

(* What a sequence is without one of its elements. *)
LEMMA RemoveAtProperties ==
  ASSUME NEW S, NEW s \in Seq(S), NEW i \in 1 .. Len(s)
  PROVE  /\ RemoveAt(s, i) \in Seq(S)
         /\ Len(RemoveAt(s, i)) = Len(s) - 1
         /\ \A j \in 1 .. Len(s) - 1 : RemoveAt(s, i)[j] = IF j < i THEN s[j] ELSE s[j + 1]
<1>1. /\ SubSeq(s, 1, i - 1) \in Seq(S) /\ Len(SubSeq(s, 1, i - 1)) = i - 1
      /\ \A j \in 1 .. i - 1 : SubSeq(s, 1, i - 1)[j] = s[j]
  OBVIOUS
<1>2. /\ SubSeq(s, i + 1, Len(s)) \in Seq(S) /\ Len(SubSeq(s, i + 1, Len(s))) = Len(s) - i
      /\ \A j \in 1 .. Len(s) - i : SubSeq(s, i + 1, Len(s))[j] = s[i + j]
  OBVIOUS
<1> DEFINE front == SubSeq(s, 1, i - 1)  back == SubSeq(s, i + 1, Len(s))
<1>3. /\ front \o back \in Seq(S) /\ Len(front \o back) = Len(front) + Len(back)
      /\ \A j \in 1 .. Len(front) + Len(back) :
           (front \o back)[j] = IF j <= Len(front) THEN front[j] ELSE back[j - Len(front)]
  BY <1>1, <1>2, ConcatProperties
<1>4. Len(front) = i - 1 /\ Len(back) = Len(s) - i /\ Len(s) \in Nat
  BY <1>1, <1>2
<1> HIDE DEF front, back
<1>5. \A j \in 1 .. Len(s) - 1 : (front \o back)[j] = IF j < i THEN s[j] ELSE s[j + 1]
  <2> TAKE j \in 1 .. Len(s) - 1
  <2>1. (front \o back)[j] = IF j <= i - 1 THEN front[j] ELSE back[j - (i - 1)]
    BY <1>3, <1>4
  <2>2. CASE j < i
    BY <1>1, <2>1, <2>2 DEF front
  <2>3. CASE j >= i
    <3>1. j - (i - 1) \in 1 .. Len(s) - i /\ i + (j - (i - 1)) = j + 1
      BY <2>3
    <3>2. back[j - (i - 1)] = s[j + 1]
      BY <1>2, <3>1 DEF back
    <3> QED
      BY <2>1, <2>3, <3>2
  <2> QED
    BY <1>4, <2>2, <2>3
<1>6. Len(front \o back) = Len(s) - 1
  BY <1>3, <1>4
<1>7. RemoveAt(s, i) = front \o back
  BY DEF RemoveAt, front, back
<1> QED
  BY <1>3, <1>5, <1>6, <1>7

LEMMA RemoveFirstProperties ==
  ASSUME NEW S, NEW s \in Seq(S), NEW i \in 1 .. Len(s),
         \A j \in 1 .. Len(s) : s[j] = s[i] => j = i
  PROVE  RemoveFirst(s, s[i]) = RemoveAt(s, i)
<1>1. {j \in 1 .. Len(s) : s[j] = s[i]} = {i}
  OBVIOUS
<1>2. Min({i}) = i
  BY DEF Min
<1>3. SelectInSeq(s, LAMBDA v : v = s[i]) = i
  BY <1>1, <1>2 DEF SelectInSeq
<1> QED
  BY <1>3 DEF RemoveFirst

(* What a request consists of. *)
LEMMA RequestParts ==
  ASSUME QnxTypeOK, NEW t \in Thread, request[t] # NoRequest
  PROVE  /\ request[t] \in Request
         /\ NameIn(t) \in QName
         /\ request[t].op \in {"open", "lock", "unlock", "close", "reset"}
         /\ request[t].op = "open" => request[t].value \in Nat
         /\ request[t].op = "lock" => request[t].limit \in Limit /\ NameIn(t) \in Name
BY DEF QnxTypeOK, Request, NameIn, QName

LEMMA QnxInitInv == QnxInit => QnxInv
<1> SUFFICES ASSUME QnxInit PROVE QnxInv
  OBVIOUS
<1> USE DEF QnxInit
<1>1. QnxTypeOK
  <2>1. (CHOOSE n \in QName : TRUE) \in QName
    BY QnxAssumption
  <2>2. m_list \in [Range(Kind) -> Seq(Entry)] /\ entryName \in [Entry -> QName]
    BY <2>1
  <2>3. [kind |-> 1, i |-> 0] \in [kind : 1 .. 5, i : Nat]
    OBVIOUS
  <2> QED
    BY <2>2, <2>3 DEF QnxTypeOK
<1>2. EntriesListedOnce /\ QnxNoUseAfterFree /\ QnxReferencesExact
  BY DEF EntriesListedOnce, QnxNoUseAfterFree, QnxReferencesExact
<1>3. RequestsUpToDate /\ OneToken /\ StuckOnlyByLongWait
  BY DEF RequestsUpToDate, OneToken, StuckOnlyByLongWait
<1>4. TokensBalance
  BY FS_EmptySet DEF TokensBalance
<1> QED
  BY <1>1, <1>2, <1>3, <1>4 DEF QnxInv, EntriesInv

(* A step that leaves the entries and the handles as they are. *)
LEMMA EntriesKept ==
  ASSUME EntriesInv, QnxTypeOK', server' \in {"up", "stuck"} => server \in {"up", "stuck"},
         UNCHANGED <<m_list, allocated, entryName, owners, qhandle, lost>>
  PROVE  EntriesInv'
BY DEF EntriesInv, EntriesListedOnce, QnxNoUseAfterFree, QnxReferencesExact

(* A step that answers one client at most, and leaves the others what they *)
(* have.                                                                   *)
LEMMA RequestsKept ==
  ASSUME QnxInv, NEW t \in Thread, server' = "up" => server = "up",
         request'[t] = NoRequest,
         \A u \in Thread \ {t} : request'[u] = request[u],
         \A u \in Thread \ {t}, n \in QName : qhandle'[<<u, n>>] = qhandle[<<u, n>>],
         \A u \in Thread \ {t} : \A a \in allocated : u \in got'[a] <=> u \in got[a]
  PROVE  RequestsUpToDate'
<1>0. QnxTypeOK /\ QnxNoUseAfterFree /\ RequestsUpToDate
  BY DEF QnxInv, EntriesInv
<1> SUFFICES ASSUME server' = "up", NEW u \in Thread, request'[u] # NoRequest
             PROVE  Awaited(u)'
  BY DEF RequestsUpToDate
<1>1. u # t /\ request'[u] = request[u] /\ server = "up"
  OBVIOUS
<1>2. NameIn(u) \in QName /\ NameIn(u)' = NameIn(u)
  BY <1>0, <1>1, RequestParts DEF NameIn
<1>3. Awaited(u)
  BY <1>0, <1>1 DEF RequestsUpToDate
<1>4. EntryIn(u)' = EntryIn(u)
  BY <1>1, <1>2 DEF EntryIn
<1>5. EntryIn(u) # NoEntry => EntryIn(u) \in allocated
  BY <1>0, <1>1, <1>2 DEF QnxNoUseAfterFree, EntryIn
<1> QED
  BY <1>1, <1>2, <1>3, <1>4, <1>5 DEF Awaited

(* The manager is held up by a client that nobody can answer. *)
LEMMA StuckKept ==
  ASSUME StuckOnlyByLongWait, server' # "stuck" \/ server = "stuck",
         server = "stuck" => \A u \in Thread : request[u] # NoRequest => request'[u] = request[u]
  PROVE  StuckOnlyByLongWait'
BY DEF StuckOnlyByLongWait
-----------------------------------------------------------------------------
(* A client sends a request that is up to date. *)
LEMMA SendStep ==
  ASSUME QnxInv, NEW t \in Thread, NEW r \in Request, Send(t, r),
         server = "up" =>
           /\ qhandle[<<t, r.name>>] = NoEntry <=> r.op = "open"
           /\ r.op = "lock" => t \notin got[qhandle[<<t, r.name>>]]
           /\ r.name \in MutexName /\ r.op = "open" => r.value <= 1
  PROVE  QnxInv'
<1>0. EntriesInv /\ RequestsUpToDate /\ TokensBalance /\ OneToken /\ StuckOnlyByLongWait /\ QnxTypeOK
  BY DEF QnxInv, EntriesInv
<1> USE DEF Send, qEntries, qHistory
<1>1. QnxTypeOK'
  BY <1>0 DEF QnxTypeOK
<1>2. EntriesInv'
  BY <1>0, <1>1, EntriesKept
<1>3. RequestsUpToDate'
  <2> SUFFICES ASSUME server = "up", NEW u \in Thread, request'[u] # NoRequest
               PROVE  Awaited(u)'
    BY DEF RequestsUpToDate
  <2>1. CASE u = t
    <3>1. request'[u] = r
      BY <1>0, <2>1 DEF QnxTypeOK
    <3> QED
      BY <2>1, <3>1 DEF Awaited, EntryIn, NameIn
  <2>2. CASE u # t
    <3>1. request'[u] = request[u]
      BY <1>0, <2>2 DEF QnxTypeOK
    <3>2. Awaited(u)
      BY <1>0, <3>1 DEF RequestsUpToDate
    <3> QED
      BY <3>1, <3>2 DEF Awaited, EntryIn, NameIn
  <2> QED
    BY <2>1, <2>2
<1>4. TokensBalance' /\ OneToken'
  BY <1>0 DEF TokensBalance, OneToken
<1>5. StuckOnlyByLongWait'
  BY <1>0, StuckKept DEF QnxTypeOK
<1> QED
  BY <1>2, <1>3, <1>4, <1>5 DEF QnxInv

LEMMA CallStep ==
  ASSUME QnxInv, NEW t \in Thread, Call(t)
  PROVE  QnxInv'
<1>1. ASSUME NEW n \in QName, NEW v \in Nat, SendOpen(t, n, v), n \in MutexName => v <= 1
      PROVE  QnxInv'
  <2>1. [op |-> "open", name |-> n, value |-> v] \in Request
    BY DEF Request
  <2> QED
    BY <1>1, <2>1, SendStep DEF SendOpen
<1>2. ASSUME NEW n \in Name, NEW l \in Limit, SendLock(t, n, l)
      PROVE  QnxInv'
  <2>1. [op |-> "lock", name |-> n, limit |-> l] \in Request
    BY DEF Request
  <2> QED
    BY <1>2, <2>1, SendStep DEF SendLock
<1>3. ASSUME NEW n \in QName, NEW o \in {"unlock", "close", "reset"}, SendPlain(t, n, o)
      PROVE  QnxInv'
  <2>1. [op |-> o, name |-> n] \in Request
    BY DEF Request
  <2> QED
    BY <1>3, <2>1, SendStep DEF SendPlain
<1>4. ASSUME NEW n \in Name, NEW v \in Asked[n],
             qnx_createMutex(t, n, v) \/ qnx_createSemaphore(t, n, v) \/ qnx_createEvent(t, n, v)
      PROVE  QnxInv'
  <2>1. n \in QName /\ (IF v # 0 THEN 0 ELSE 1) \in Nat /\ (IF v # 0 THEN 0 ELSE 1) <= 1
    BY DEF QName
  <2> QED
    BY <1>1, <1>4, <2>1, LibraryAssumption DEF qnx_createMutex, qnx_createSemaphore, qnx_createEvent
<1>5. ASSUME NEW n \in Name, NEW l \in Limit,
             qnx_captureMutex(t, n, l) \/ qnx_lockSemaphore(t, n, l) \/ qnx_waitEvent(t, n, l)
      PROVE  QnxInv'
  BY <1>2, <1>5 DEF qnx_captureMutex, qnx_lockSemaphore, qnx_waitEvent
<1>6. ASSUME NEW n \in Name,
             \/ qnx_releaseMutex(t, n) \/ qnx_unlockSemaphore(t, n)
             \/ qnx_setEvent(t, n) \/ qnx_resetEvent(t, n)
             \/ qnx_deleteMutex(t, n) \/ qnx_deleteSemaphore(t, n) \/ qnx_deleteEvent(t, n)
      PROVE  QnxInv'
  BY <1>3, <1>6, LibraryAssumption DEF QName, qnx_releaseMutex, qnx_unlockSemaphore, qnx_setEvent,
     qnx_resetEvent, qnx_deleteMutex, qnx_deleteSemaphore, qnx_deleteEvent, Raises
<1>7. ASSUME NEW n \in ShmName, qnx_createSharedMemory(t, n) \/ qnx_deleteSharedMemory(t, n)
      PROVE  QnxInv'
  BY <1>1, <1>3, <1>7, LibraryAssumption DEF QName, Name, qnx_createSharedMemory, qnx_deleteSharedMemory
<1> QED
  BY <1>4, <1>5, <1>6, <1>7 DEF Call

-----------------------------------------------------------------------------
(* What a handler finds when it takes a request. *)
LEMMA Taken ==
  ASSUME QnxInv, NEW t \in Thread, NEW o, Takes(t, o)
  PROVE  /\ server = "up" /\ request[t] # NoRequest /\ request[t].op = o
         /\ NameIn(t) \in QName
         /\ request[t] \in Request
         /\ Awaited(t)
         /\ EntryIn(t) = qhandle[<<t, NameIn(t)>>]
         /\ o # "open" => EntryIn(t) \in allocated /\ EntryIn(t) \in Entry /\ entryName[EntryIn(t)] = NameIn(t)
<1>0. QnxTypeOK /\ QnxNoUseAfterFree /\ RequestsUpToDate
  BY DEF QnxInv, EntriesInv
<1>1. server = "up" /\ request[t] # NoRequest /\ request[t].op = o
  BY DEF Takes
<1>2. NameIn(t) \in QName /\ request[t] \in Request
  BY <1>0, <1>1, RequestParts
<1>3. Awaited(t)
  BY <1>0, <1>1 DEF RequestsUpToDate
<1>4. EntryIn(t) = qhandle[<<t, NameIn(t)>>]
  BY DEF EntryIn
<1>5. o # "open" => EntryIn(t) # NoEntry
  BY <1>1, <1>3 DEF Awaited
<1>6. o # "open" => EntryIn(t) \in allocated /\ entryName[EntryIn(t)] = NameIn(t)
  BY <1>0, <1>1, <1>2, <1>4, <1>5 DEF QnxNoUseAfterFree
<1> QED
  BY <1>0, <1>1, <1>2, <1>3, <1>4, <1>6 DEF QnxTypeOK

LEMMA HoldersFinite ==
  ASSUME NEW S \in SUBSET Thread
  PROVE  IsFiniteSet(S) /\ Cardinality(S) \in Nat
BY LibraryAssumption, FS_Subset, FS_CardinalityType

(* The handles of an entry can be counted while the manager serves: they   *)
(* are all of its name.                                                    *)
LEMMA HandlesCounted ==
  ASSUME QnxTypeOK, QnxNoUseAfterFree, server \in {"up", "stuck"}, NEW a \in Entry
  PROVE  IsFiniteSet(HandlesFor(a)) /\ Cardinality(HandlesFor(a)) \in Nat
<1>1. IsFiniteSet(Thread \X {entryName[a]})
  BY LibraryAssumption, FS_Singleton, FS_Product
<1>2. HandlesFor(a) \subseteq Thread \X {entryName[a]}
  BY QnxAssumption DEF QnxNoUseAfterFree, HandlesFor
<1> QED
  BY <1>1, <1>2, FS_Subset, FS_CardinalityType

-----------------------------------------------------------------------------
(* A wait that captures, or says so. *)
LEMMA CaptureStep ==
  ASSUME QnxInv, NEW t \in Thread, Takes(t, "lock"), UNCHANGED <<cursor, qhandle>>,
         LockTakes(t)
  PROVE  QnxInv'
<1> DEFINE a == EntryIn(t)
<1>0. EntriesInv /\ RequestsUpToDate /\ TokensBalance /\ OneToken /\ StuckOnlyByLongWait /\ QnxTypeOK
  BY DEF QnxInv, EntriesInv
<1>1. /\ server = "up" /\ a \in allocated /\ a \in Entry /\ t \notin got[a] /\ NameIn(t) \in QName
  BY Taken DEF Awaited
<1>2. /\ sem[a] > 0 /\ sem' = [sem EXCEPT ![a] = @ - 1]
      /\ \/ due_q' = [due_q EXCEPT ![a] = @ - 1] /\ UNCHANGED got
         \/ got' = [got EXCEPT ![a] = @ \cup {t}] /\ UNCHANGED due_q
      /\ request' = [request EXCEPT ![t] = NoRequest]
      /\ UNCHANGED <<server, m_list, allocated, entryName, owners, deceived, strayed_q, lost, cursor, qhandle>>
  BY DEF LockTakes, Answer
<1> HIDE DEF a
<1>3. IsFiniteSet(got[a] \ deceived[a]) /\ Cardinality(got[a] \ deceived[a]) \in Nat
  BY <1>0, <1>1, HoldersFinite DEF QnxTypeOK
<1>4. sem[a] \in Nat /\ sem[a] + Cardinality(got[a] \ deceived[a]) = due_q[a] /\ deceived[a] \subseteq got[a]
  BY <1>0, <1>1 DEF QnxTypeOK, TokensBalance
<1>5. due_q[a] - 1 \in Nat /\ sem[a] - 1 \in Nat
  BY <1>2, <1>3, <1>4
<1>6. /\ QnxTypeOK'
      /\ \A u \in Thread \ {t} : request'[u] = request[u]
      /\ \A u \in Thread \ {t} : \A b \in Entry : u \in got'[b] <=> u \in got[b]
      /\ \A b \in Entry : due_q'[b] <= due_q[b]
  <2>1. /\ sem' \in [Entry -> Nat] /\ request' \in [Thread -> Request \cup {NoRequest}]
        /\ \A u \in Thread \ {t} : request'[u] = request[u]
    BY <1>0, <1>1, <1>2, <1>5 DEF QnxTypeOK
  <2>d. due_q \in [Entry -> Nat] /\ got \in [Entry -> SUBSET Thread]
    BY <1>0 DEF QnxTypeOK
  <2>2. due_q' \in [Entry -> Nat] /\ \A b \in Entry : due_q'[b] <= due_q[b]
    <3>1. CASE due_q' = due_q
      BY <2>d, <3>1
    <3>2. CASE due_q' = [due_q EXCEPT ![a] = @ - 1]
      <4>1. \A b \in Entry : due_q'[b] = IF b = a THEN due_q[a] - 1 ELSE due_q[b]
        BY <2>d, <3>2
      <4>2. due_q' \in [Entry -> Nat]
        BY <1>5, <2>d, <3>2
      <4>3. \A b \in Entry : due_q[b] \in Nat
        BY <2>d
      <4> QED
        BY <4>1, <4>2, <4>3
    <3> QED
      BY <1>2, <3>1, <3>2
  <2>3. /\ got' \in [Entry -> SUBSET Thread]
        /\ \A u \in Thread \ {t} : \A b \in Entry : u \in got'[b] <=> u \in got[b]
    <3>1. CASE got' = got
      BY <2>d, <3>1
    <3>2. CASE got' = [got EXCEPT ![a] = @ \cup {t}]
      <4>1. \A b \in Entry : got'[b] = IF b = a THEN got[a] \cup {t} ELSE got[b]
        BY <2>d, <3>2
      <4>2. got' \in [Entry -> SUBSET Thread]
        BY <1>1, <2>d, <3>2
      <4> QED
        BY <4>1, <4>2
    <3> QED
      BY <1>2, <3>1, <3>2
  <2> QED
    BY <1>0, <1>2, <2>1, <2>2, <2>3 DEF QnxTypeOK
<1>7. EntriesInv'
  BY <1>0, <1>2, <1>6, EntriesKept
<1>8. RequestsUpToDate'
  <2>1. request'[t] = NoRequest /\ allocated \subseteq Entry
    BY <1>0, <1>2 DEF QnxTypeOK
  <2> QED
    BY <1>2, <1>6, <2>1, RequestsKept
<1>9. TokensBalance'
  <2> SUFFICES ASSUME NEW b \in Entry
               PROVE  /\ sem'[b] + Cardinality(got'[b] \ deceived[b]) = due_q'[b]
                      /\ deceived[b] \subseteq got'[b]
    BY <1>2 DEF TokensBalance
  <2>1. CASE b # a
    BY <1>0, <1>1, <1>2, <2>1 DEF QnxTypeOK, TokensBalance
  <2>2. CASE b = a /\ due_q' = [due_q EXCEPT ![a] = @ - 1] /\ UNCHANGED got
    BY <1>0, <1>1, <1>2, <1>3, <1>4, <2>2 DEF QnxTypeOK
  <2>3. CASE b = a /\ got' = [got EXCEPT ![a] = @ \cup {t}] /\ UNCHANGED due_q
    <3>1. got'[a] = got[a] \cup {t} /\ sem'[a] = sem[a] - 1 /\ due_q'[a] = due_q[a]
      BY <1>0, <1>1, <1>2, <2>3 DEF QnxTypeOK
    <3>2. got'[a] \ deceived[a] = (got[a] \ deceived[a]) \cup {t} /\ t \notin got[a] \ deceived[a]
      BY <1>1, <1>4, <3>1
    <3>3. Cardinality(got'[a] \ deceived[a]) = Cardinality(got[a] \ deceived[a]) + 1
      BY <1>3, <3>2, FS_AddElement
    <3> QED
      BY <1>3, <1>4, <2>3, <3>1, <3>3
  <2> QED
    BY <1>2, <2>1, <2>2, <2>3
<1>10. OneToken'
  <2>1. \A b \in allocated : b \in Entry /\ due_q[b] \in Nat /\ due_q'[b] \in Nat
    BY <1>0, <1>2, <1>6 DEF QnxTypeOK
  <2> QED
    BY <1>0, <1>2, <1>6, <2>1 DEF OneToken
<1>11. StuckOnlyByLongWait'
  BY <1>0, <1>1, <1>2, StuckKept
<1> QED
  BY <1>7, <1>8, <1>9, <1>10, <1>11 DEF QnxInv

LEMMA DeceiveStep ==
  ASSUME QnxInv, NEW t \in Thread, Takes(t, "lock"), UNCHANGED <<cursor, qhandle>>,
         LockDeceives(t), KindOf(NameIn(t)) = "sem"
  PROVE  QnxInv'
<1> DEFINE a == EntryIn(t)
<1>0. EntriesInv /\ RequestsUpToDate /\ TokensBalance /\ OneToken /\ StuckOnlyByLongWait /\ QnxTypeOK
  BY DEF QnxInv, EntriesInv
<1>1. /\ server = "up" /\ a \in allocated /\ a \in Entry /\ t \notin got[a] /\ NameIn(t) \in QName
      /\ entryName[a] \in SemName
  BY Taken, QnxKinds DEF Awaited
<1>2. /\ got' = [got EXCEPT ![a] = @ \cup {t}]
      /\ deceived' = [deceived EXCEPT ![a] = @ \cup {t}]
      /\ request' = [request EXCEPT ![t] = NoRequest]
      /\ UNCHANGED <<server, m_list, allocated, entryName, owners, sem, due_q, strayed_q, lost, cursor, qhandle>>
  BY DEF LockDeceives, Answer, qEntries
<1> HIDE DEF a
<1>6. QnxTypeOK'
  BY <1>0, <1>1, <1>2 DEF QnxTypeOK
<1>7. EntriesInv'
  BY <1>0, <1>2, <1>6, EntriesKept
<1>8. RequestsUpToDate'
  BY <1>0, <1>1, <1>2, RequestsKept DEF QnxTypeOK
<1>9. TokensBalance'
  <2>1. \A b \in Entry : got'[b] \ deceived'[b] = got[b] \ deceived[b] /\ deceived'[b] \subseteq got'[b]
    BY <1>0, <1>1, <1>2 DEF QnxTypeOK, TokensBalance
  <2> QED
    BY <1>0, <1>2, <2>1 DEF TokensBalance
<1>10. OneToken'
  BY <1>0, <1>1, <1>2 DEF OneToken, QnxTypeOK
<1>11. StuckOnlyByLongWait'
  BY <1>0, <1>1, <1>2, StuckKept
<1> QED
  BY <1>7, <1>8, <1>9, <1>10, <1>11 DEF QnxInv

(* A step that changes the state of the manager and answers, and no more. *)
LEMMA AnswerStep ==
  ASSUME QnxInv, NEW t \in Thread, server = "up", server' \in {"up", "stuck", "crashed", "closing"},
         request' = [request EXCEPT ![t] = NoRequest] \/ (request' = request /\ server' # "up"),
         server' = "stuck" => StuckOnlyByLongWait',
         UNCHANGED <<qEntries, cursor, qhandle, qHistory>>
  PROVE  QnxInv'
<1>0. EntriesInv /\ RequestsUpToDate /\ TokensBalance /\ OneToken /\ StuckOnlyByLongWait /\ QnxTypeOK
  BY DEF QnxInv, EntriesInv
<1> USE DEF qEntries, qHistory
<1>1. QnxTypeOK'
  BY <1>0 DEF QnxTypeOK
<1>2. EntriesInv'
  BY <1>0, <1>1, EntriesKept
<1>3. RequestsUpToDate'
  <2>1. CASE request' = [request EXCEPT ![t] = NoRequest]
    BY <1>0, <2>1, RequestsKept DEF QnxTypeOK
  <2>2. CASE request' = request /\ server' # "up"
    BY <2>2 DEF RequestsUpToDate
  <2> QED
    BY <2>1, <2>2
<1>4. TokensBalance' /\ OneToken'
  BY <1>0 DEF TokensBalance, OneToken
<1>5. StuckOnlyByLongWait'
  BY <1>0, StuckKept
<1> QED
  BY <1>2, <1>3, <1>4, <1>5 DEF QnxInv

LEMMA DivMod ==
  ASSUME NEW H \in Nat, H > 0, NEW n \in Nat
  PROVE  /\ n \div H \in Nat /\ (n % H) \in Nat /\ (n % H) < H
         /\ n = H * (n \div H) + (n % H)
         /\ n < H => (n % H) = n /\ n \div H = 0
BY SMT

(* "l" milliseconds in nanoseconds, h * 2^16 + q above the low half. *)
LEMMA ShortProduct ==
  ASSUME NEW l \in Int, NEW h \in Int, NEW r \in Int, NEW q \in Int,
         l <= 2147, l * 1000 = 65536 * h + r, 65536 * q <= r * 1000
  PROVE  h * 1000 + q <= 32760
BY SMT

(* A limit that becomes endless is long. *)
LEMMA EndlessIsLong ==
  ASSUME NEW l \in Nat, Endless(l)
  PROVE  l = 0 \/ l >= 2148
<1> SUFFICES ASSUME l # 0, l <= 2147 PROVE ~Negative(Nsec(l))
  BY SMT DEF Endless
<1>h. Half \in Nat /\ Half > 0 /\ Half = 65536 /\ Half \div 2 = 32768
  BY SMT DEF Half
<1>1. ToInt32(l).hi = 0 /\ ToInt32(l).lo = l
  <2>1. (l % Half) = l /\ l \div Half = 0
    BY <1>h, DivMod, SMT
  <2> QED
    BY <2>1 DEF ToInt32
<1> DEFINE h == (l * 1000) \div Half   r == (l * 1000) % Half   q == (r * 1000) \div Half
<1>2. h \in Nat /\ r \in Nat /\ r < Half /\ l * 1000 = Half * h + r
  <2>1. l * 1000 \in Nat
    BY SMT
  <2> QED
    BY <1>h, <2>1, DivMod
<1>3. Times(ToInt32(l), 1000).hi = (0 * 1000 + h) % Half /\ Times(ToInt32(l), 1000).lo = r
  BY <1>1 DEF Times
<1> HIDE DEF h
<1>4. Nsec(l).hi = (Times(ToInt32(l), 1000).hi * 1000 + q) % Half
  BY <1>3 DEF Nsec, Times
<1> HIDE DEF r
<1>5. q \in Nat /\ Half * q <= r * 1000
  <2>1. r * 1000 \in Nat
    BY <1>2, SMT
  <2>2. q \in Nat /\ ((r * 1000) % Half) \in Nat /\ r * 1000 = Half * q + ((r * 1000) % Half)
    BY <1>h, <2>1, DivMod
  <2> HIDE DEF q
  <2>3. \A m \in Nat : r * 1000 = Half * q + m => Half * q <= r * 1000
    BY <1>2, <1>h, <2>2, SMT
  <2> QED
    BY <2>2, <2>3
<1> HIDE DEF q
<1>6. h * 1000 + q <= 32760 /\ h * 1000 + q \in Nat /\ 0 * 1000 + h = h /\ h < Half
  BY <1>2, <1>5, <1>h, ShortProduct, SMT
<1>7. Times(ToInt32(l), 1000).hi = h
  BY <1>2, <1>3, <1>6, <1>h, DivMod
<1>8. Nsec(l).hi = h * 1000 + q
  <2>1. h * 1000 + q < Half
    BY <1>6, <1>h, SMT
  <2> QED
    BY <1>4, <1>6, <1>7, <1>h, <2>1, DivMod
<1> QED
  BY <1>6, <1>8, <1>h, SMT DEF Negative

LEMMA LockStep ==
  ASSUME QnxInv, NEW t \in Thread, qnx_sem_lock(t) \/ qnx_mutex_lock(t) \/ qnx_event_lock(t)
  PROVE  QnxInv'
<1>1. Takes(t, "lock") /\ UNCHANGED <<cursor, qhandle>>
  BY DEF qnx_sem_lock, qnx_mutex_lock, qnx_event_lock, qnx_lock
<1>2. CASE LockTakes(t)
  BY <1>1, <1>2, CaptureStep
<1>3. CASE LockFails(t)
  BY <1>1, <1>3, Taken, AnswerStep DEF LockFails, Answer
<1>4. CASE LockDeceives(t) /\ KindOf(NameIn(t)) = "sem"
  BY <1>1, <1>4, DeceiveStep
<1>5. CASE LockSticks(t)
  <2>1. server = "up" /\ request[t] # NoRequest /\ request[t].op = "lock" /\ request[t].limit \in Nat
    BY <1>1, Taken, RequestParts, LibraryAssumption DEF QnxInv, EntriesInv
  <2>2. request[t].limit = 0 \/ request[t].limit >= 2148
    BY <1>5, <2>1, EndlessIsLong DEF LockSticks
  <2>3. StuckOnlyByLongWait'
    BY <1>5, <2>1, <2>2 DEF LockSticks, StuckOnlyByLongWait
  <2> QED
    BY <1>1, <1>5, <2>1, <2>3, AnswerStep DEF LockSticks
<1> QED
  BY <1>2, <1>3, <1>4, <1>5 DEF qnx_sem_lock, qnx_mutex_lock, qnx_event_lock, qnx_lock

-----------------------------------------------------------------------------
(* A post: that of a mutex gives back what its client has, or strays. *)
LEMMA PostStep ==
  ASSUME QnxInv, NEW t \in Thread, NEW k, Post_q(t, k)
  PROVE  QnxInv'
<1> DEFINE a == EntryIn(t)
           pays == t \in got[a] \ deceived[a]
<1>0. EntriesInv /\ RequestsUpToDate /\ TokensBalance /\ OneToken /\ StuckOnlyByLongWait /\ QnxTypeOK
  BY DEF QnxInv, EntriesInv
<1>1. /\ server = "up" /\ a \in allocated /\ a \in Entry /\ entryName[a] = NameIn(t)
      /\ NameIn(t) \in MutexName => k = "mutex"
  <2>1. NameIn(t) \in MutexName => KindOf(NameIn(t)) = "mutex"
    BY LibraryAssumption DEF KindOf
  <2>2. Takes(t, "unlock") /\ KindOf(NameIn(t)) = k
    BY DEF Post_q
  <2>3. server = "up" /\ a \in allocated /\ a \in Entry /\ entryName[a] = NameIn(t)
    <3>1. "unlock" # "open"
      OBVIOUS
    <3> QED
      BY <2>2, <3>1, Taken
  <2> QED
    BY <2>1, <2>2, <2>3
<1>2. /\ sem' = [sem EXCEPT ![a] = @ + 1]
      /\ due_q' = [due_q EXCEPT ![a] = IF pays THEN @ ELSE @ + 1]
      /\ got' = [got EXCEPT ![a] = @ \ {t}]
      /\ deceived' = [deceived EXCEPT ![a] = @ \ {t}]
      /\ strayed_q' = IF k = "mutex" /\ ~pays THEN strayed_q \cup {a} ELSE strayed_q
      /\ request' = [request EXCEPT ![t] = NoRequest]
      /\ UNCHANGED <<server, m_list, allocated, entryName, owners, cursor, qhandle, lost>>
  BY DEF Post_q, Answer
<1> HIDE DEF a
<1>3. /\ sem \in [Entry -> Nat] /\ due_q \in [Entry -> Nat]
      /\ got \in [Entry -> SUBSET Thread] /\ deceived \in [Entry -> SUBSET Thread]
      /\ request \in [Thread -> Request \cup {NoRequest}] /\ allocated \subseteq Entry
      /\ strayed_q \subseteq Entry
  BY <1>0 DEF QnxTypeOK
<1>4. /\ \A b \in Entry : sem'[b] = IF b = a THEN sem[a] + 1 ELSE sem[b]
      /\ \A b \in Entry : got'[b] = IF b = a THEN got[a] \ {t} ELSE got[b]
      /\ \A b \in Entry : deceived'[b] = IF b = a THEN deceived[a] \ {t} ELSE deceived[b]
      /\ \A u \in Thread : request'[u] = IF u = t THEN NoRequest ELSE request[u]
  BY <1>1, <1>2, <1>3
<1>5. \A b \in Entry : due_q'[b] = IF b = a /\ ~pays THEN due_q[a] + 1 ELSE due_q[b]
  BY <1>1, <1>2, <1>3
<1>6. QnxTypeOK'
  <2>1. due_q' \in [Entry -> Nat]
    <3>1. CASE pays
      BY <1>1, <1>2, <1>3, <3>1
    <3>2. CASE ~pays
      BY <1>1, <1>2, <1>3, <3>2
    <3> QED
      BY <3>1, <3>2
  <2>2. /\ sem' \in [Entry -> Nat] /\ got' \in [Entry -> SUBSET Thread]
        /\ deceived' \in [Entry -> SUBSET Thread] /\ request' \in [Thread -> Request \cup {NoRequest}]
        /\ strayed_q' \subseteq Entry
    BY <1>1, <1>2, <1>3
  <2> QED
    BY <1>0, <1>2, <2>1, <2>2 DEF QnxTypeOK
<1>7. EntriesInv'
  BY <1>0, <1>2, <1>6, EntriesKept
<1>8. RequestsUpToDate'
  <2>1. /\ request'[t] = NoRequest /\ \A u \in Thread \ {t} : request'[u] = request[u]
        /\ \A u \in Thread \ {t} : \A b \in allocated : u \in got'[b] <=> u \in got[b]
    BY <1>3, <1>4
  <2> QED
    BY <1>2, <2>1, RequestsKept
<1>9. TokensBalance'
  <2> SUFFICES ASSUME NEW b \in Entry
               PROVE  /\ sem'[b] + Cardinality(got'[b] \ deceived'[b]) = due_q'[b]
                      /\ deceived'[b] \subseteq got'[b]
    BY DEF TokensBalance
  <2>1. sem[b] + Cardinality(got[b] \ deceived[b]) = due_q[b] /\ deceived[b] \subseteq got[b]
    BY <1>0 DEF TokensBalance
  <2>2. CASE b # a
    BY <1>4, <1>5, <2>1, <2>2
  <2>3. CASE b = a
    <3>1. IsFiniteSet(got[a] \ deceived[a]) /\ Cardinality(got[a] \ deceived[a]) \in Nat
      BY <1>1, <1>3, HoldersFinite
    <3>2. got'[a] \ deceived'[a] = (got[a] \ deceived[a]) \ {t} /\ deceived'[a] \subseteq got'[a]
      BY <1>1, <1>4, <2>1, <2>3
    <3>3. Cardinality((got[a] \ deceived[a]) \ {t}) =
            IF pays THEN Cardinality(got[a] \ deceived[a]) - 1 ELSE Cardinality(got[a] \ deceived[a])
      BY <3>1, FS_RemoveElement
    <3>4. sem'[a] = sem[a] + 1 /\ due_q'[a] = IF pays THEN due_q[a] ELSE due_q[a] + 1
      BY <1>1, <1>4, <1>5
    <3>5. sem[a] \in Nat /\ due_q[a] \in Nat
      BY <1>1, <1>3
    <3>6. CASE pays
      <4>0. /\ Cardinality(got'[a] \ deceived'[a]) = Cardinality(got[a] \ deceived[a]) - 1
            /\ due_q'[a] = due_q[a]
        BY <3>2, <3>3, <3>4, <3>6
      <4>1. sem'[a] + Cardinality(got'[a] \ deceived'[a]) = due_q'[a]
        BY <2>1, <2>3, <3>1, <3>4, <3>5, <4>0
      <4> QED
        BY <2>3, <3>2, <4>1
    <3>7. CASE ~pays
      <4>0. /\ Cardinality(got'[a] \ deceived'[a]) = Cardinality(got[a] \ deceived[a])
            /\ due_q'[a] = due_q[a] + 1
        BY <3>2, <3>3, <3>4, <3>7
      <4>1. sem'[a] + Cardinality(got'[a] \ deceived'[a]) = due_q'[a]
        BY <2>1, <2>3, <3>1, <3>4, <3>5, <4>0
      <4> QED
        BY <2>3, <3>2, <4>1
    <3> QED
      BY <3>6, <3>7
  <2> QED
    BY <2>2, <2>3
<1>10. OneToken'
  <2> SUFFICES ASSUME NEW b \in allocated
               PROVE  /\ entryName[b] \in MutexName /\ b \notin strayed_q' => due_q'[b] <= 1
                      /\ entryName[b] \notin SemName => deceived'[b] = {}
    BY <1>2 DEF OneToken
  <2>1. b \in Entry /\ (entryName[b] \in MutexName /\ b \notin strayed_q => due_q[b] <= 1)
                    /\ (entryName[b] \notin SemName => deceived[b] = {})
    BY <1>0, <1>3 DEF OneToken
  <2>2. entryName[b] \notin SemName => deceived'[b] = {}
    BY <1>4, <2>1
  <2>3. /\ strayed_q \subseteq strayed_q'
        /\ entryName[b] \in MutexName /\ b \notin strayed_q' => due_q'[b] = due_q[b]
    BY <1>1, <1>2, <1>5, <2>1
  <2> QED
    BY <2>1, <2>2, <2>3
<1>11. StuckOnlyByLongWait'
  BY <1>0, <1>1, <1>2, StuckKept
<1> QED
  BY <1>7, <1>8, <1>9, <1>10, <1>11 DEF QnxInv

-----------------------------------------------------------------------------
(* A client gives up its handle: the entry counts it as lost, or drops it, *)
(* and goes with the last.                                                 *)
LEMMA HandleGivenUp ==
  ASSUME QnxInv, NEW t \in Thread, Takes(t, "close"), NEW a, a = EntryIn(t),
         qhandle' = [qhandle EXCEPT ![<<t, NameIn(t)>>] = NoEntry]
  PROVE  /\ HandlesFor(a)' = HandlesFor(a) \ {<<t, NameIn(t)>>}
         /\ Cardinality(HandlesFor(a)') = Cardinality(HandlesFor(a)) - 1
         /\ Cardinality(HandlesFor(a)) \in Nat /\ Cardinality(HandlesFor(a)) > 0
         /\ \A b \in Entry \ {a} : HandlesFor(b)' = HandlesFor(b)
<1> DEFINE h == <<t, NameIn(t)>>
<1>1. a \in Entry /\ h \in Thread \X QName /\ a = qhandle[h] /\ server = "up"
  BY Taken
<1>2. qhandle \in [Thread \X QName -> Entry \cup {NoEntry}] /\ NoEntry \notin Entry
  BY QnxAssumption DEF QnxInv, EntriesInv, QnxTypeOK
<1>3. IsFiniteSet(HandlesFor(a)) /\ Cardinality(HandlesFor(a)) \in Nat
  BY <1>1, HandlesCounted DEF QnxInv, EntriesInv
<1> HIDE DEF h
<1>4. qhandle' = [qhandle EXCEPT ![h] = NoEntry]
  BY DEF h
<1>5. HandlesFor(a)' = HandlesFor(a) \ {h} /\ h \in HandlesFor(a)
  BY <1>1, <1>2, <1>4 DEF HandlesFor
<1>6. \A b \in Entry \ {a} : HandlesFor(b)' = HandlesFor(b)
  BY <1>1, <1>2, <1>4 DEF HandlesFor
<1>7. Cardinality(HandlesFor(a) \ {h}) = Cardinality(HandlesFor(a)) - 1 /\ Cardinality(HandlesFor(a)) # 0
  BY <1>3, <1>5, FS_RemoveElement, FS_EmptySet
<1>8. Cardinality(HandlesFor(a)') = Cardinality(HandlesFor(a)) - 1 /\ Cardinality(HandlesFor(a)) > 0
  BY <1>3, <1>5, <1>7
<1> QED
  BY <1>3, <1>5, <1>6, <1>8 DEF h

LEMMA ForgetStep ==
  ASSUME QnxInv, NEW t \in Thread, Takes(t, "close"), Forget(t)
  PROVE  QnxInv'
<1>0. EntriesInv /\ RequestsUpToDate /\ TokensBalance /\ OneToken /\ StuckOnlyByLongWait /\ QnxTypeOK
      /\ QnxNoUseAfterFree /\ QnxReferencesExact /\ EntriesListedOnce
  BY DEF QnxInv, EntriesInv
<1>p. PICK a : a = EntryIn(t)
  OBVIOUS
<1>1. /\ server = "up" /\ a \in allocated /\ a \in Entry /\ NameIn(t) \in QName
  <2>1. /\ server = "up" /\ EntryIn(t) \in allocated /\ EntryIn(t) \in Entry
        /\ NameIn(t) \in QName
    <3>1. server = "up" /\ NameIn(t) \in QName
      BY Taken
    <3>2. "close" # "open"
      OBVIOUS
    <3>3. EntryIn(t) \in allocated /\ EntryIn(t) \in Entry
      BY <3>2, Taken
    <3> QED
      BY <3>1, <3>3
  <2> QED
    BY <1>p, <2>1
<1>2. /\ lost' = [lost EXCEPT ![a] = @ + 1]
      /\ qhandle' = [qhandle EXCEPT ![<<t, NameIn(t)>>] = NoEntry]
      /\ request' = [request EXCEPT ![t] = NoRequest]
      /\ UNCHANGED <<server, m_list, allocated, entryName, owners, sem, cursor, due_q, got, deceived, strayed_q>>
  BY <1>p DEF Forget, Answer, qEntries
<1>3. QnxTypeOK'
  BY <1>0, <1>1, <1>2 DEF QnxTypeOK
<1>4. EntriesListedOnce'
  BY <1>0, <1>2 DEF EntriesListedOnce
<1>5. QnxNoUseAfterFree'
  BY <1>0, <1>1, <1>2 DEF QnxNoUseAfterFree, QnxTypeOK
<1>6. QnxReferencesExact'
  <2> SUFFICES ASSUME NEW b \in allocated
               PROVE  owners[b] = Cardinality(HandlesFor(b)') + lost'[b]
    BY <1>2 DEF QnxReferencesExact, HandlesFor
  <2>1. owners[b] = Cardinality(HandlesFor(b)) + lost[b] /\ b \in Entry /\ lost[b] \in Nat
    BY <1>0 DEF QnxReferencesExact, HandlesFor, QnxTypeOK
  <2>2. lost'[b] = IF b = a THEN lost[b] + 1 ELSE lost[b]
    BY <1>0, <1>2, <2>1 DEF QnxTypeOK
  <2>3. CASE b = a
    <3>1. Cardinality(HandlesFor(a)') = Cardinality(HandlesFor(a)) - 1 /\ Cardinality(HandlesFor(a)) \in Nat
      BY <1>p, <1>2, HandleGivenUp
    <3>2. Cardinality(HandlesFor(b)') = Cardinality(HandlesFor(a)') /\ lost'[b] = lost[a] + 1
      BY <2>2, <2>3
    <3> QED
      BY <2>1, <2>3, <3>1, <3>2
  <2>4. CASE b # a
    BY <1>p, <1>2, <2>1, <2>2, <2>4, HandleGivenUp
  <2> QED
    BY <2>3, <2>4
<1>7. RequestsUpToDate'
  <2>1. /\ request'[t] = NoRequest /\ \A u \in Thread \ {t} : request'[u] = request[u]
        /\ \A u \in Thread \ {t}, n \in QName : qhandle'[<<u, n>>] = qhandle[<<u, n>>]
    BY <1>0, <1>1, <1>2 DEF QnxTypeOK
  <2> QED
    BY <1>2, <2>1, RequestsKept
<1>8. TokensBalance' /\ OneToken'
  BY <1>0, <1>2 DEF TokensBalance, OneToken
<1>9. StuckOnlyByLongWait'
  BY <1>0, <1>1, <1>2, StuckKept
<1> QED
  BY <1>3, <1>4, <1>5, <1>6, <1>7, <1>8, <1>9 DEF QnxInv, EntriesInv

(* An element taken off a list is on it no more. *)
LEMMA TakenOff ==
  ASSUME EntriesListedOnce, QnxTypeOK, NEW k \in Range(Kind), NEW i \in 1 .. Len(m_list[k]),
         m_list' = [m_list EXCEPT ![k] = RemoveAt(m_list[k], i)],
         allocated' = allocated \ {m_list[k][i]}, UNCHANGED entryName
  PROVE  /\ m_list' \in [Range(Kind) -> Seq(Entry)]
         /\ EntriesListedOnce'
<1> DEFINE l == m_list[k]
<1>0. m_list \in [Range(Kind) -> Seq(Entry)] /\ l \in Seq(Entry)
  BY DEF QnxTypeOK
<1>1. /\ RemoveAt(l, i) \in Seq(Entry)
      /\ Len(RemoveAt(l, i)) = Len(l) - 1 /\ Len(l) \in Nat
      /\ \A j \in 1 .. Len(l) - 1 : RemoveAt(l, i)[j] = IF j < i THEN l[j] ELSE l[j + 1]
  BY <1>0, RemoveAtProperties, SMTT(30)
<1>2. m_list' \in [Range(Kind) -> Seq(Entry)] /\ m_list'[k] = RemoveAt(l, i)
      /\ \A x \in Range(Kind) \ {k} : m_list'[x] = m_list[x]
  BY <1>0, <1>1
<1>3. \A j \in 1 .. Len(l) - 1 : \E m \in 1 .. Len(l) :
        m # i /\ m_list'[k][j] = l[m] /\ (m = IF j < i THEN j ELSE j + 1)
  BY <1>1, <1>2
<1>4. EntriesListedOnce'
  <2> SUFFICES ASSUME NEW x \in Range(Kind), NEW j \in 1 .. Len(m_list'[x])
               PROVE  /\ m_list'[x][j] \in allocated'
                      /\ KindOf(entryName[m_list'[x][j]]) = x
                      /\ \A n \in 1 .. Len(m_list'[x]) : m_list'[x][j] = m_list'[x][n] => j = n
    BY DEF EntriesListedOnce
  <2>1. CASE x = k
    <3>1. j \in 1 .. Len(l) - 1
      BY <1>1, <1>2, <2>1
    <3>2. PICK m \in 1 .. Len(l) : m # i /\ m_list'[k][j] = l[m] /\ (m = IF j < i THEN j ELSE j + 1)
      BY <1>3, <3>1
    <3>3. l[m] \in allocated /\ l[m] # l[i] /\ KindOf(entryName[l[m]]) = k
      BY <3>2 DEF EntriesListedOnce
    <3>4. \A n \in 1 .. Len(m_list'[k]) : m_list'[k][j] = m_list'[k][n] => j = n
      <4> TAKE n \in 1 .. Len(m_list'[k])
      <4>1. n \in 1 .. Len(l) - 1
        BY <1>1, <1>2
      <4>2. PICK p \in 1 .. Len(l) : p # i /\ m_list'[k][n] = l[p] /\ (p = IF n < i THEN n ELSE n + 1)
        BY <1>3, <4>1
      <4>3. l[m] = l[p] => m = p
        BY DEF EntriesListedOnce
      <4> QED
        BY <1>1, <3>1, <3>2, <4>1, <4>2, <4>3
    <3> QED
      BY <2>1, <3>2, <3>3, <3>4
  <2>2. CASE x # k
    <3>1. m_list'[x] = m_list[x]
      BY <1>2, <2>2
    <3>2. KindOf(entryName[m_list[x][j]]) = x /\ KindOf(entryName[l[i]]) = k
      BY <3>1 DEF EntriesListedOnce
    <3> QED
      BY <2>2, <3>1, <3>2 DEF EntriesListedOnce
  <2> QED
    BY <2>1, <2>2
<1> QED
  BY <1>2, <1>4

LEMMA DropStep ==
  ASSUME QnxInv, NEW t \in Thread, Takes(t, "close"), Drop(t)
  PROVE  QnxInv'
<1>0. EntriesInv /\ RequestsUpToDate /\ TokensBalance /\ OneToken /\ StuckOnlyByLongWait /\ QnxTypeOK
      /\ QnxNoUseAfterFree /\ QnxReferencesExact /\ EntriesListedOnce
  BY DEF QnxInv, EntriesInv
<1>p. PICK a : a = EntryIn(t)
  OBVIOUS
<1> DEFINE k == KindOf(NameIn(t))
<1>1. /\ server = "up" /\ a \in allocated /\ a \in Entry /\ NameIn(t) \in QName /\ k \in Range(Kind)
      /\ entryName[a] = NameIn(t)
  <2>1. /\ server = "up" /\ EntryIn(t) \in allocated /\ EntryIn(t) \in Entry
        /\ NameIn(t) \in QName /\ entryName[EntryIn(t)] = NameIn(t)
    <3>1. server = "up" /\ NameIn(t) \in QName
      BY Taken
    <3>2. "close" # "open"
      OBVIOUS
    <3>3. EntryIn(t) \in allocated /\ EntryIn(t) \in Entry /\ entryName[EntryIn(t)] = NameIn(t)
      BY <3>2, Taken
    <3> QED
      BY <3>1, <3>3
  <2> QED
    BY <1>p, <2>1, QnxKinds
<1>2. /\ owners' = [owners EXCEPT ![a] = @ - 1]
      /\ IF owners[a] = 1
         THEN allocated' = allocated \ {a} /\ m_list' = [m_list EXCEPT ![k] = RemoveFirst(m_list[k], a)]
         ELSE UNCHANGED <<allocated, m_list>>
      /\ qhandle' = [qhandle EXCEPT ![<<t, NameIn(t)>>] = NoEntry]
      /\ request' = [request EXCEPT ![t] = NoRequest]
      /\ UNCHANGED <<server, entryName, sem, cursor, due_q, got, deceived, strayed_q, lost>>
  BY <1>p DEF Drop, Answer, qHistory
<1> HIDE DEF k
<1>3. /\ HandlesFor(a)' = HandlesFor(a) \ {<<t, NameIn(t)>>}
      /\ Cardinality(HandlesFor(a)') = Cardinality(HandlesFor(a)) - 1
      /\ Cardinality(HandlesFor(a)) \in Nat /\ Cardinality(HandlesFor(a)) > 0
      /\ \A b \in Entry \ {a} : HandlesFor(b)' = HandlesFor(b)
  BY <1>p, <1>2, HandleGivenUp
<1>4. owners[a] = Cardinality(HandlesFor(a)) + lost[a] /\ owners[a] \in Nat /\ lost[a] \in Nat
  BY <1>0, <1>1 DEF QnxReferencesExact, HandlesFor, QnxTypeOK
<1>5. owners' \in [Entry -> Nat] /\ \A b \in Entry : owners'[b] = IF b = a THEN owners[a] - 1 ELSE owners[b]
  <2>1. owners[a] - 1 \in Nat /\ owners \in [Entry -> Nat]
    BY <1>0, <1>3, <1>4 DEF QnxTypeOK
  <2> QED
    BY <1>1, <1>2, <2>1
<1>6. m_list' \in [Range(Kind) -> Seq(Entry)] /\ EntriesListedOnce'
  <2>1. CASE owners[a] = 1 /\ a \in Range(m_list[k])
    <3>1. m_list[k] \in Seq(Entry)
      BY <1>0, <1>1 DEF QnxTypeOK
    <3>2. PICK i \in 1 .. Len(m_list[k]) : m_list[k][i] = a
      BY <2>1, <3>1 DEF Range
    <3>3. RemoveFirst(m_list[k], a) = RemoveAt(m_list[k], i)
      BY <1>0, <1>1, <3>1, <3>2, RemoveFirstProperties DEF EntriesListedOnce
    <3> QED
      BY <1>0, <1>1, <1>2, <2>1, <3>2, <3>3, TakenOff
  <2>2. CASE owners[a] = 1 /\ a \notin Range(m_list[k])
    <3>1. m_list[k] \in Seq(Entry) /\ m_list \in [Range(Kind) -> Seq(Entry)]
      BY <1>0, <1>1 DEF QnxTypeOK
    <3>2. \A i \in 1 .. Len(m_list[k]) : m_list[k][i] # a
      BY <2>2, <3>1 DEF Range
    <3>3. m_list' = m_list
      BY <1>2, <2>2, <3>1, <3>2 DEF RemoveFirst
    <3>4. \A x \in Range(Kind) : \A i \in 1 .. Len(m_list[x]) : m_list[x][i] # a
      BY <1>0, <1>1, <3>2 DEF EntriesListedOnce, k
    <3>5. \A b \in allocated : b # a => b \in allocated'
      BY <1>2
    <3> QED
      BY <1>0, <1>2, <3>1, <3>3, <3>4, <3>5 DEF EntriesListedOnce
  <2>3. CASE owners[a] # 1
    BY <1>0, <1>2, <2>3 DEF EntriesListedOnce, QnxTypeOK
  <2> QED
    BY <2>1, <2>2, <2>3
<1>7. allocated' \subseteq allocated /\ (owners[a] # 1 => allocated' = allocated)
      /\ \A b \in allocated : b # a => b \in allocated'
  BY <1>2
<1>8. QnxTypeOK'
  <2>1. /\ qhandle' \in [Thread \X QName -> Entry \cup {NoEntry}]
        /\ request' \in [Thread -> Request \cup {NoRequest}]
    BY <1>0, <1>1, <1>2 DEF QnxTypeOK
  <2> QED
    BY <1>0, <1>2, <1>5, <1>6, <1>7, <2>1 DEF QnxTypeOK
<1>9. QnxNoUseAfterFree'
  <2>1. owners[a] = 1 => HandlesFor(a)' = {}
    <3>1. IsFiniteSet(HandlesFor(a)')
      <4>1. IsFiniteSet(HandlesFor(a))
        BY <1>0, <1>1, HandlesCounted
      <4>2. IsFiniteSet(HandlesFor(a) \ {<<t, NameIn(t)>>})
        BY <4>1, FS_RemoveElement
      <4> QED
        BY <1>3, <4>2
    <3>2. owners[a] = 1 => Cardinality(HandlesFor(a)') = 0
      BY <1>3, <1>4
    <3> QED
      BY <3>1, <3>2, FS_EmptySet
  <2>2. \A h \in Thread \X QName : qhandle'[h] = a => owners[a] # 1
    BY <2>1 DEF HandlesFor
  <2>3. \A h \in Thread \X QName : qhandle'[h] # NoEntry => qhandle'[h] = qhandle[h]
    BY <1>0, <1>1, <1>2 DEF QnxTypeOK
  <2> QED
    BY <1>0, <1>1, <1>2, <1>7, <2>2, <2>3 DEF QnxNoUseAfterFree
<1>10. QnxReferencesExact'
  <2> SUFFICES ASSUME NEW b \in allocated'
               PROVE  owners'[b] = Cardinality(HandlesFor(b)') + lost[b]
    BY <1>2 DEF QnxReferencesExact, HandlesFor
  <2>1. owners[b] = Cardinality(HandlesFor(b)) + lost[b] /\ b \in Entry /\ lost[b] \in Nat
    BY <1>0, <1>7 DEF QnxReferencesExact, HandlesFor, QnxTypeOK
  <2>3. CASE b = a
    <3>1. Cardinality(HandlesFor(b)') = Cardinality(HandlesFor(a)') /\ owners'[b] = owners[a] - 1
      BY <1>5, <2>1, <2>3
    <3> QED
      BY <1>3, <1>4, <2>1, <2>3, <3>1
  <2>4. CASE b # a
    BY <1>3, <1>5, <2>1, <2>4
  <2> QED
    BY <2>3, <2>4
<1>11. RequestsUpToDate'
  <2>1. /\ request'[t] = NoRequest /\ \A u \in Thread \ {t} : request'[u] = request[u]
        /\ \A u \in Thread \ {t}, n \in QName : qhandle'[<<u, n>>] = qhandle[<<u, n>>]
    BY <1>0, <1>1, <1>2 DEF QnxTypeOK
  <2> QED
    BY <1>2, <2>1, RequestsKept
<1>12. TokensBalance' /\ OneToken'
  BY <1>0, <1>2, <1>7 DEF TokensBalance, OneToken
<1>13. StuckOnlyByLongWait'
  BY <1>0, <1>1, <1>2, StuckKept
<1> QED
  BY <1>6, <1>8, <1>9, <1>10, <1>11, <1>12, <1>13 DEF QnxInv, EntriesInv

-----------------------------------------------------------------------------
(* A create or an open that finds the entry takes a reference of it. *)
LEMMA OpenFoundStep ==
  ASSUME QnxInv, NEW t \in Thread, Takes(t, "open"), UNCHANGED cursor, Answer(t),
         NEW a \in Find(ListOf(t), NameIn(t)), OpenFound(t, a)
  PROVE  QnxInv'
<1>0. EntriesInv /\ RequestsUpToDate /\ TokensBalance /\ OneToken /\ StuckOnlyByLongWait /\ QnxTypeOK
      /\ QnxNoUseAfterFree /\ QnxReferencesExact /\ EntriesListedOnce
  BY DEF QnxInv, EntriesInv
<1> DEFINE h == <<t, NameIn(t)>>
<1>1. /\ server = "up" /\ NameIn(t) \in QName /\ h \in Thread \X QName /\ qhandle[h] = NoEntry
      /\ KindOf(NameIn(t)) \in Range(Kind)
  BY Taken, QnxKinds DEF Awaited
<1>a. a \in allocated /\ entryName[a] = NameIn(t) /\ a \in Entry /\ a # NoEntry
  <2>1. m_list[KindOf(NameIn(t))] \in Seq(Entry) /\ allocated \subseteq Entry
    BY <1>0, <1>1 DEF QnxTypeOK
  <2>2. PICK i \in 1 .. Len(m_list[KindOf(NameIn(t))]) : a = m_list[KindOf(NameIn(t))][i]
    BY <2>1 DEF Find, ListOf, Range
  <2> QED
    BY <1>0, <1>1, <2>1, <2>2, QnxAssumption DEF EntriesListedOnce, Find
<1>2. /\ owners' = [owners EXCEPT ![a] = @ + 1]
      /\ qhandle' = [qhandle EXCEPT ![h] = a]
      /\ request' = [request EXCEPT ![t] = NoRequest]
      /\ UNCHANGED <<server, m_list, allocated, entryName, sem, cursor, due_q, got, deceived, strayed_q, lost>>
  BY DEF OpenFound, Answer, qHistory
<1>q. /\ qhandle \in [Thread \X QName -> Entry \cup {NoEntry}] /\ NoEntry \notin Entry
      /\ owners \in [Entry -> Nat] /\ allocated \subseteq Entry
  BY <1>0, QnxAssumption DEF QnxTypeOK
<1>3. QnxTypeOK'
  BY <1>0, <1>1, <1>a, <1>2 DEF QnxTypeOK
<1>4. EntriesListedOnce'
  BY <1>0, <1>2 DEF EntriesListedOnce
<1>n. \A g \in Thread \X QName : qhandle'[g] = IF g = h THEN a ELSE qhandle[g]
  <2> HIDE DEF h
  <2> QED
    BY <1>1, <1>2, <1>q
<1>5. QnxNoUseAfterFree'
  BY <1>0, <1>1, <1>a, <1>2, <1>n DEF QnxNoUseAfterFree
<1>6. QnxReferencesExact'
  <2> SUFFICES ASSUME NEW b \in allocated
               PROVE  owners'[b] = Cardinality(HandlesFor(b)') + lost[b]
    BY <1>2 DEF QnxReferencesExact, HandlesFor
  <2>1. owners[b] = Cardinality(HandlesFor(b)) + lost[b] /\ b \in Entry /\ lost[b] \in Nat
    BY <1>0 DEF QnxReferencesExact, HandlesFor, QnxTypeOK
  <2>2. owners'[b] = IF b = a THEN owners[b] + 1 ELSE owners[b]
    BY <1>2, <1>q, <2>1
  <2> HIDE DEF h
  <2>3. CASE b = a
    <3>1. HandlesFor(a)' = HandlesFor(a) \cup {h} /\ h \notin HandlesFor(a)
      BY <1>1, <1>a, <1>n DEF HandlesFor
    <3>2. IsFiniteSet(HandlesFor(a)) /\ Cardinality(HandlesFor(a)) \in Nat
      BY <1>0, <1>1, <1>a, HandlesCounted
    <3>3. Cardinality(HandlesFor(a)') = Cardinality(HandlesFor(a)) + 1
      BY <3>1, <3>2, FS_AddElement
    <3> QED
      BY <2>1, <2>2, <2>3, <3>2, <3>3
  <2>4. CASE b # a
    <3>1. HandlesFor(b)' = HandlesFor(b)
      BY <1>1, <1>n, <1>q, <2>1, <2>4 DEF HandlesFor
    <3> QED
      BY <2>1, <2>2, <2>4, <3>1
  <2> QED
    BY <2>3, <2>4
<1>7. RequestsUpToDate'
  <2>1. /\ request'[t] = NoRequest /\ \A u \in Thread \ {t} : request'[u] = request[u]
    BY <1>0, <1>1, <1>2 DEF QnxTypeOK
  <2>2. \A u \in Thread \ {t}, n \in QName : qhandle'[<<u, n>>] = qhandle[<<u, n>>]
    BY <1>n
  <2> QED
    BY <1>2, <2>1, <2>2, RequestsKept
<1>8. TokensBalance' /\ OneToken'
  BY <1>0, <1>2 DEF TokensBalance, OneToken
<1>9. StuckOnlyByLongWait'
  BY <1>0, <1>1, <1>2, StuckKept
<1> QED
  BY <1>3, <1>4, <1>5, <1>6, <1>7, <1>8, <1>9 DEF QnxInv, EntriesInv

(* One that finds none makes an entry, which nobody has known before. *)
LEMMA OpenMadeStep ==
  ASSUME QnxInv, NEW t \in Thread, Takes(t, "open"), UNCHANGED cursor, Answer(t),
         NEW a \in Entry, NEW start \in Nat, OpenMade(t, a, start),
         NameIn(t) \in MutexName => start <= 1
  PROVE  QnxInv'
<1>0. EntriesInv /\ RequestsUpToDate /\ TokensBalance /\ OneToken /\ StuckOnlyByLongWait /\ QnxTypeOK
      /\ QnxNoUseAfterFree /\ QnxReferencesExact /\ EntriesListedOnce
  BY DEF QnxInv, EntriesInv
<1> DEFINE n == NameIn(t)   h == <<t, n>>   k == KindOf(n)
           taken == MadeTaken_q(t, start)
           D == IF taken THEN 1 ELSE start
           G == IF taken THEN {t} ELSE {}
<1>1. server = "up" /\ n \in QName /\ h \in Thread \X QName /\ qhandle[h] = NoEntry
  BY Taken DEF Awaited
<1>k. k \in Range(Kind)
  BY <1>1, QnxKinds
<1>2. /\ a \notin allocated /\ allocated' = allocated \cup {a}
      /\ m_list' = [m_list EXCEPT ![k] = Append(m_list[k], a)]
      /\ entryName' = [entryName EXCEPT ![a] = n]
      /\ owners' = [owners EXCEPT ![a] = 1]
      /\ sem' = [sem EXCEPT ![a] = start]
      /\ qhandle' = [qhandle EXCEPT ![h] = a]
      /\ due_q' = [due_q EXCEPT ![a] = D]
      /\ got' = [got EXCEPT ![a] = G]
      /\ deceived' = [deceived EXCEPT ![a] = {}]
      /\ strayed_q' = strayed_q \ {a}
      /\ lost' = [lost EXCEPT ![a] = 0]
      /\ request' = [request EXCEPT ![t] = NoRequest]
      /\ UNCHANGED <<server, cursor>>
  BY DEF OpenMade, Answer
<1>g. /\ D \in Nat /\ G \in SUBSET Thread /\ G \ {} = G /\ start + Cardinality(G) = D
      /\ n \in MutexName => D <= 1
  <2>1. CASE taken
    <3>1. start = 0 /\ Cardinality({t}) = 1
      BY <2>1, FS_Singleton DEF MadeTaken_q
    <3> HIDE DEF n
    <3> QED
      BY <2>1, <3>1
  <2>2. CASE ~taken
    <3>1. Cardinality({}) = 0
      BY FS_EmptySet
    <3> QED
      BY <2>2, <3>1
  <2> QED
    BY <2>1, <2>2
<1> HIDE DEF n, h, k, D, G
<1>q. /\ qhandle \in [Thread \X QName -> Entry \cup {NoEntry}] /\ NoEntry \notin Entry
      /\ owners \in [Entry -> Nat] /\ lost \in [Entry -> Nat] /\ allocated \subseteq Entry
      /\ m_list \in [Range(Kind) -> Seq(Entry)] /\ entryName \in [Entry -> QName]
      /\ sem \in [Entry -> Nat] /\ due_q \in [Entry -> Nat]
      /\ got \in [Entry -> SUBSET Thread] /\ deceived \in [Entry -> SUBSET Thread]
      /\ request \in [Thread -> Request \cup {NoRequest}] /\ strayed_q \subseteq Entry
  BY <1>0, QnxAssumption DEF QnxTypeOK
<1>l. /\ Append(m_list[k], a) \in Seq(Entry)
      /\ Len(Append(m_list[k], a)) = Len(m_list[k]) + 1 /\ Len(m_list[k]) \in Nat
      /\ Append(m_list[k], a)[Len(m_list[k]) + 1] = a
      /\ \A i \in 1 .. Len(m_list[k]) : Append(m_list[k], a)[i] = m_list[k][i]
  <2>1. m_list[k] \in Seq(Entry)
    BY <1>k, <1>q
  <2> QED
    BY <2>1, AppendProperties
<1>n. \A g \in Thread \X QName : qhandle'[g] = IF g = h THEN a ELSE qhandle[g]
  BY <1>1, <1>2, <1>q
<1>m. \A x \in Range(Kind) : m_list'[x] = IF x = k THEN Append(m_list[k], a) ELSE m_list[x]
  BY <1>k, <1>2, <1>q
<1>f. \A b \in Entry : IF b = a
        THEN entryName'[b] = n /\ owners'[b] = 1 /\ sem'[b] = start /\ due_q'[b] = D
             /\ got'[b] = G /\ deceived'[b] = {} /\ lost'[b] = 0
        ELSE entryName'[b] = entryName[b] /\ owners'[b] = owners[b] /\ sem'[b] = sem[b]
             /\ due_q'[b] = due_q[b] /\ got'[b] = got[b] /\ deceived'[b] = deceived[b] /\ lost'[b] = lost[b]
  BY <1>2, <1>q
<1>3. QnxTypeOK'
  <2>1. m_list' \in [Range(Kind) -> Seq(Entry)] /\ qhandle' \in [Thread \X QName -> Entry \cup {NoEntry}]
    BY <1>k, <1>1, <1>2, <1>l, <1>q
  <2>2. /\ entryName' \in [Entry -> QName] /\ owners' \in [Entry -> Nat] /\ lost' \in [Entry -> Nat]
        /\ sem' \in [Entry -> Nat] /\ due_q' \in [Entry -> Nat] /\ allocated' \subseteq Entry
        /\ strayed_q' \subseteq Entry
    BY <1>1, <1>2, <1>g, <1>q
  <2>3. /\ got' \in [Entry -> SUBSET Thread] /\ deceived' \in [Entry -> SUBSET Thread]
        /\ request' \in [Thread -> Request \cup {NoRequest}]
    BY <1>2, <1>g, <1>q
  <2> QED
    BY <1>0, <1>2, <2>1, <2>2, <2>3 DEF QnxTypeOK
<1>4. EntriesListedOnce'
  <2> SUFFICES ASSUME NEW x \in Range(Kind), NEW i \in 1 .. Len(m_list'[x])
               PROVE  /\ m_list'[x][i] \in allocated'
                      /\ KindOf(entryName'[m_list'[x][i]]) = x
                      /\ \A j \in 1 .. Len(m_list'[x]) : m_list'[x][i] = m_list'[x][j] => i = j
    BY DEF EntriesListedOnce
  <2>1. \A j \in 1 .. Len(m_list[x]) : /\ m_list[x][j] \in allocated /\ m_list[x][j] # a
                                       /\ m_list[x][j] \in Entry
                                       /\ KindOf(entryName'[m_list[x][j]]) = x
    <3> TAKE j \in 1 .. Len(m_list[x])
    <3>1. m_list[x][j] \in allocated /\ KindOf(entryName[m_list[x][j]]) = x
      BY <1>0 DEF EntriesListedOnce
    <3>2. m_list[x][j] # a /\ m_list[x][j] \in Entry
      BY <1>2, <1>q, <3>1
    <3>3. entryName'[m_list[x][j]] = entryName[m_list[x][j]]
      BY <1>f, <3>2
    <3> QED
      BY <3>1, <3>2, <3>3
  <2>2. CASE x = k
    <3>1. KindOf(entryName'[a]) = k
      BY <1>f DEF k
    <3>2. m_list'[x] = Append(m_list[k], a)
      BY <1>m, <2>2
    <3>3. CASE i = Len(m_list[k]) + 1
      BY <1>l, <1>2, <2>1, <2>2, <3>1, <3>2, <3>3
    <3>4. CASE i # Len(m_list[k]) + 1
      <4>1. i \in 1 .. Len(m_list[k]) /\ m_list'[x][i] = m_list[x][i]
        BY <1>l, <2>2, <3>2, <3>4
      <4>2. \A j \in 1 .. Len(m_list[k]) : m_list[x][i] = m_list[x][j] => i = j
        BY <1>0, <2>2, <4>1 DEF EntriesListedOnce
      <4>3. \A j \in 1 .. Len(m_list'[x]) : m_list'[x][i] = m_list'[x][j] => i = j
        BY <1>l, <2>1, <2>2, <3>2, <4>1, <4>2
      <4> QED
        BY <1>2, <2>1, <2>2, <4>1, <4>3
    <3> QED
      BY <3>3, <3>4
  <2>3. CASE x # k
    BY <1>0, <1>m, <1>2, <2>1, <2>3 DEF EntriesListedOnce
  <2> QED
    BY <2>2, <2>3
<1>o. \A g \in Thread \X QName : qhandle[g] # a
  BY <1>0, <1>1, <1>2, <1>q DEF QnxNoUseAfterFree
<1>5. QnxNoUseAfterFree'
  <2> SUFFICES ASSUME NEW g \in Thread \X QName, qhandle'[g] # NoEntry
               PROVE  qhandle'[g] \in allocated' /\ entryName'[qhandle'[g]] = g[2]
    BY DEF QnxNoUseAfterFree
  <2>1. CASE g = h
    BY <1>2, <1>f, <1>n, <2>1 DEF h
  <2>2. CASE g # h
    BY <1>0, <1>1, <1>2, <1>f, <1>n, <1>o, <1>q, <2>2 DEF QnxNoUseAfterFree
  <2> QED
    BY <2>1, <2>2
<1>6. QnxReferencesExact'
  <2> SUFFICES ASSUME NEW b \in allocated'
               PROVE  owners'[b] = Cardinality(HandlesFor(b)') + lost'[b]
    BY DEF QnxReferencesExact, HandlesFor
  <2>1. CASE b = a
    <3>1. HandlesFor(a)' = {h}
      BY <1>1, <1>n, <1>o DEF HandlesFor
    <3>2. Cardinality(HandlesFor(a)') = 1
      BY <3>1, FS_Singleton
    <3> QED
      BY <1>f, <2>1, <3>2
  <2>2. CASE b # a
    <3>1. b \in allocated /\ b \in Entry
      BY <1>2, <1>q, <2>2
    <3>2. HandlesFor(b)' = HandlesFor(b)
      BY <1>1, <1>n, <1>q, <2>2, <3>1 DEF HandlesFor
    <3> QED
      BY <1>0, <1>f, <2>2, <3>1, <3>2 DEF QnxReferencesExact, HandlesFor
  <2> QED
    BY <2>1, <2>2
<1>7. RequestsUpToDate'
  <2>1. /\ request'[t] = NoRequest /\ \A u \in Thread \ {t} : request'[u] = request[u]
    BY <1>2, <1>q
  <2>2. \A u \in Thread \ {t}, m \in QName : qhandle'[<<u, m>>] = qhandle[<<u, m>>]
    BY <1>n DEF h
  <2>3. \A u \in Thread \ {t} : \A b \in allocated : u \in got'[b] <=> u \in got[b]
    BY <1>2, <1>f, <1>q
  <2> QED
    BY <1>2, <2>1, <2>2, <2>3, RequestsKept
<1>8. TokensBalance'
  <2> SUFFICES ASSUME NEW b \in Entry
               PROVE  /\ sem'[b] + Cardinality(got'[b] \ deceived'[b]) = due_q'[b]
                      /\ deceived'[b] \subseteq got'[b]
    BY DEF TokensBalance
  <2>1. CASE b = a
    <3>1. got'[b] \ deceived'[b] = G /\ sem'[b] = start /\ due_q'[b] = D /\ deceived'[b] = {}
      BY <1>f, <1>g, <2>1
    <3> QED
      BY <1>g, <3>1
  <2>2. CASE b # a
    BY <1>0, <1>f, <2>2 DEF TokensBalance
  <2> QED
    BY <2>1, <2>2
<1>9. OneToken'
  <2> SUFFICES ASSUME NEW b \in allocated'
               PROVE  /\ entryName'[b] \in MutexName /\ b \notin strayed_q' => due_q'[b] <= 1
                      /\ entryName'[b] \notin SemName => deceived'[b] = {}
    BY DEF OneToken
  <2>1. CASE b = a
    BY <1>f, <1>g, <2>1
  <2>2. CASE b # a
    BY <1>0, <1>2, <1>f, <1>q, <2>2 DEF OneToken
  <2> QED
    BY <2>1, <2>2
<1>10. StuckOnlyByLongWait'
  BY <1>0, <1>1, <1>2, StuckKept
<1> QED
  BY <1>3, <1>4, <1>5, <1>6, <1>7, <1>8, <1>9, <1>10 DEF QnxInv, EntriesInv

LEMMA OpenStep ==
  ASSUME QnxInv, NEW t \in Thread,
         qnx_sem_create(t) \/ qnx_mutex_create(t) \/ qnx_event_create(t) \/ qnx_shm_open(t)
  PROVE  QnxInv'
<1>1. PICK start \in Nat, k \in Range(Kind) :
        Open(t, k, start) /\ (NameIn(t) \in MutexName => start <= 1)
  <2>0. Takes(t, "open")
    BY DEF qnx_sem_create, qnx_mutex_create, qnx_event_create, qnx_shm_open, Open
  <2>1. /\ NameIn(t) \in MutexName => request[t].value <= 1
        /\ request[t].value \in Nat
    BY <2>0, Taken, RequestParts DEF Awaited, QnxInv, EntriesInv
  <2>2. {"sem", "mutex", "event", "shm"} \subseteq Range(Kind)
    BY QnxKinds
  <2>3. 0 \in Nat /\ 1 \in Nat /\ 0 <= 1 /\ 1 <= 1
    OBVIOUS
  <2>4. CASE qnx_sem_create(t) \/ qnx_mutex_create(t)
    BY <2>1, <2>2, <2>4 DEF qnx_sem_create, qnx_mutex_create
  <2>5. CASE qnx_event_create(t) \/ qnx_shm_open(t)
    BY <2>2, <2>3, <2>5 DEF qnx_event_create, qnx_shm_open
  <2> QED
    BY <2>4, <2>5
<1>2. Takes(t, "open") /\ Answer(t) /\ UNCHANGED cursor
  BY <1>1 DEF Open
<1>3. CASE \E a \in Find(ListOf(t), NameIn(t)) : OpenFound(t, a)
  BY <1>2, <1>3, OpenFoundStep
<1>4. CASE \E a \in Entry : OpenMade(t, a, start)
  BY <1>1, <1>2, <1>4, OpenMadeStep
<1>5. CASE server' = "crashed" /\ UNCHANGED <<qEntries, qhandle, qHistory>>
  <2>1. server = "up"
    BY <1>2, Taken
  <2> QED
    BY <1>2, <1>5, <2>1, AnswerStep DEF Answer
<1> QED
  BY <1>1, <1>3, <1>4, <1>5 DEF Open

-----------------------------------------------------------------------------
(* A client dies with the handle that it had of each entry, and with what  *)
(* it had captured.                                                        *)
LEMMA DieStep ==
  ASSUME QnxInv, NEW t \in Thread, QnxDie(t)
  PROVE  QnxInv'
<1>0. EntriesInv /\ RequestsUpToDate /\ TokensBalance /\ OneToken /\ StuckOnlyByLongWait /\ QnxTypeOK
      /\ QnxNoUseAfterFree /\ QnxReferencesExact /\ EntriesListedOnce
  BY DEF QnxInv, EntriesInv
<1> DEFINE has(a) == {n \in QName : qhandle[<<t, n>>] = a}
<1>1. /\ server \in {"up", "stuck"}
      /\ qhandle' = [h \in Thread \X QName |-> IF h[1] = t THEN NoEntry ELSE qhandle[h]]
      /\ lost' = [a \in Entry |-> lost[a] + Cardinality(has(a))]
      /\ due_q' = [a \in Entry |-> IF t \in got[a] \ deceived[a] THEN due_q[a] - 1 ELSE due_q[a]]
      /\ got' = [a \in Entry |-> got[a] \ {t}]
      /\ deceived' = [a \in Entry |-> deceived[a] \ {t}]
      /\ request' = IF server = "up" THEN [request EXCEPT ![t] = NoRequest] ELSE request
      /\ UNCHANGED <<server, m_list, allocated, entryName, owners, sem, cursor, strayed_q>>
  BY DEF QnxDie, qEntries
<1>2. /\ qhandle \in [Thread \X QName -> Entry \cup {NoEntry}] /\ NoEntry \notin Entry
      /\ lost \in [Entry -> Nat] /\ allocated \subseteq Entry
      /\ entryName \in [Entry -> QName] /\ sem \in [Entry -> Nat] /\ due_q \in [Entry -> Nat]
      /\ got \in [Entry -> SUBSET Thread] /\ deceived \in [Entry -> SUBSET Thread]
      /\ request \in [Thread -> Request \cup {NoRequest}]
  BY <1>0, QnxAssumption DEF QnxTypeOK
<1>3. ASSUME NEW a \in Entry
      PROVE  /\ Cardinality(has(a)) \in Nat
             /\ Cardinality(HandlesFor(a)) = Cardinality(HandlesFor(a)') + Cardinality(has(a))
             /\ Cardinality(HandlesFor(a)') \in Nat
  <2>1. has(a) \subseteq {entryName[a]}
    BY <1>0, <1>1, <1>2, <1>3 DEF QnxNoUseAfterFree
  <2>2. HandlesFor(a)' = {h \in HandlesFor(a) : h[1] # t}
    BY <1>1, <1>2, <1>3 DEF HandlesFor
  <2>3. IsFiniteSet(HandlesFor(a)) /\ Cardinality(HandlesFor(a)) \in Nat
    BY <1>0, <1>1, <1>3, HandlesCounted
  <2>4. \A h \in HandlesFor(a) : h \in Thread \X QName /\ h[2] = entryName[a]
    BY <1>0, <1>1, <1>2, <1>3 DEF QnxNoUseAfterFree, HandlesFor
  <2>5. CASE entryName[a] \in has(a)
    <3>1. has(a) = {entryName[a]}
      BY <2>1, <2>5
    <3>2. Cardinality(has(a)) = 1
      BY <3>1, FS_Singleton
    <3>3. <<t, entryName[a]>> \in HandlesFor(a)
      BY <2>5 DEF HandlesFor
    <3>4. HandlesFor(a)' = HandlesFor(a) \ {<<t, entryName[a]>>}
      <4> HIDE DEF has
      <4>1. \A h \in HandlesFor(a) : h[1] = t <=> h = <<t, entryName[a]>>
        BY <2>4
      <4> QED
        BY <2>2, <4>1
    <3>5. /\ Cardinality(HandlesFor(a)') = Cardinality(HandlesFor(a)) - 1
          /\ IsFiniteSet(HandlesFor(a) \ {<<t, entryName[a]>>})
      BY <2>3, <3>3, <3>4, FS_RemoveElement
    <3>6. Cardinality(HandlesFor(a)') \in Nat
      BY <3>4, <3>5, FS_CardinalityType
    <3> HIDE DEF has
    <3> QED
      BY <2>3, <3>2, <3>5, <3>6
  <2>6. CASE entryName[a] \notin has(a)
    <3>1. has(a) = {}
      BY <2>1, <2>6
    <3>2. Cardinality(has(a)) = 0
      BY <3>1, FS_EmptySet
    <3>3. \A h \in HandlesFor(a) : h[1] # t
      BY <2>4, <3>1 DEF HandlesFor
    <3>4. HandlesFor(a)' = HandlesFor(a)
      BY <2>2, <3>3
    <3> HIDE DEF has
    <3> QED
      BY <2>3, <3>2, <3>4
  <2> QED
    BY <2>5, <2>6
<1> HIDE DEF has
<1>4. ASSUME NEW a \in Entry
      PROVE  /\ due_q'[a] \in Nat
             /\ sem'[a] + Cardinality(got'[a] \ deceived'[a]) = due_q'[a]
             /\ deceived'[a] \subseteq got'[a]
             /\ due_q'[a] <= due_q[a]
  <2> DEFINE C == got[a] \ deceived[a]
  <2>1. sem[a] + Cardinality(C) = due_q[a] /\ deceived[a] \subseteq got[a] /\ sem[a] \in Nat /\ sem'[a] = sem[a]
    BY <1>0, <1>1, <1>2, <1>4 DEF TokensBalance
  <2>2. IsFiniteSet(C) /\ Cardinality(C) \in Nat /\ due_q[a] \in Nat
    BY <1>2, <1>4, HoldersFinite
  <2>3. got'[a] \ deceived'[a] = C \ {t} /\ deceived'[a] \subseteq got'[a]
    BY <1>1, <1>4, <2>1
  <2>4. Cardinality(C \ {t}) = IF t \in C THEN Cardinality(C) - 1 ELSE Cardinality(C)
    BY <2>2, FS_RemoveElement
  <2>5. Cardinality(C \ {t}) \in Nat
    BY <2>2, FS_RemoveElement, FS_CardinalityType
  <2>6. due_q'[a] = IF t \in C THEN due_q[a] - 1 ELSE due_q[a]
    BY <1>1, <1>4
  <2> HIDE DEF C
  <2>7. CASE t \in C
    <3>1. due_q'[a] = due_q[a] - 1 /\ Cardinality(C \ {t}) = Cardinality(C) - 1
      BY <2>4, <2>6, <2>7
    <3>2. sem'[a] + Cardinality(C \ {t}) = due_q'[a] /\ due_q'[a] \in Nat /\ due_q'[a] <= due_q[a]
      BY <2>1, <2>2, <2>5, <3>1
    <3> QED
      BY <2>3, <3>2
  <2>8. CASE t \notin C
    <3>1. due_q'[a] = due_q[a] /\ Cardinality(C \ {t}) = Cardinality(C)
      BY <2>4, <2>6, <2>8
    <3>2. sem'[a] + Cardinality(C \ {t}) = due_q'[a] /\ due_q'[a] \in Nat /\ due_q'[a] <= due_q[a]
      BY <2>1, <2>2, <2>5, <3>1
    <3> QED
      BY <2>3, <3>2
  <2> QED
    BY <2>7, <2>8
<1>5. QnxTypeOK'
  <2>1. lost' \in [Entry -> Nat]
    <3>1. \A a \in Entry : lost[a] + Cardinality(has(a)) \in Nat
      BY <1>2, <1>3
    <3> QED
      BY <1>1, <3>1
  <2>2. due_q' \in [Entry -> Nat]
    <3>1. \A a \in Entry : (IF t \in got[a] \ deceived[a] THEN due_q[a] - 1 ELSE due_q[a]) \in Nat
      BY <1>1, <1>4
    <3> QED
      BY <1>1, <3>1
  <2>3. /\ got' \in [Entry -> SUBSET Thread] /\ deceived' \in [Entry -> SUBSET Thread]
        /\ qhandle' \in [Thread \X QName -> Entry \cup {NoEntry}]
    BY <1>1, <1>2
  <2>4. request' \in [Thread -> Request \cup {NoRequest}]
    BY <1>1, <1>2
  <2> QED
    BY <1>0, <1>1, <2>1, <2>2, <2>3, <2>4 DEF QnxTypeOK
<1>6. EntriesListedOnce'
  BY <1>0, <1>1 DEF EntriesListedOnce
<1>7. QnxNoUseAfterFree'
  BY <1>0, <1>1 DEF QnxNoUseAfterFree
<1>8. QnxReferencesExact'
  <2> SUFFICES ASSUME NEW a \in allocated
               PROVE  owners[a] = Cardinality(HandlesFor(a)') + lost'[a]
    BY <1>1 DEF QnxReferencesExact, HandlesFor
  <2>1. owners[a] = Cardinality(HandlesFor(a)) + lost[a] /\ a \in Entry /\ lost[a] \in Nat
    BY <1>0, <1>2 DEF QnxReferencesExact, HandlesFor
  <2>2. lost'[a] = lost[a] + Cardinality(has(a))
    BY <1>1, <2>1
  <2> QED
    BY <1>3, <2>1, <2>2
<1>9. RequestsUpToDate'
  <2>1. CASE server = "up"
    <3>1. /\ request'[t] = NoRequest /\ \A u \in Thread \ {t} : request'[u] = request[u]
          /\ \A u \in Thread \ {t}, n \in QName : qhandle'[<<u, n>>] = qhandle[<<u, n>>]
          /\ \A u \in Thread \ {t} : \A a \in allocated : u \in got'[a] <=> u \in got[a]
      BY <1>1, <1>2, <2>1
    <3> QED
      BY <1>1, <3>1, RequestsKept
  <2>2. CASE server # "up"
    BY <1>1, <2>2 DEF RequestsUpToDate
  <2> QED
    BY <2>1, <2>2
<1>10. TokensBalance'
  BY <1>4 DEF TokensBalance
<1>11. OneToken'
  <2>1. \A a \in allocated : a \in Entry /\ due_q[a] \in Nat /\ due_q'[a] \in Nat /\ due_q'[a] <= due_q[a]
    BY <1>2, <1>4
  <2>2. \A a \in allocated : deceived[a] = {} => deceived'[a] = {}
    BY <1>1, <1>2
  <2> SUFFICES ASSUME NEW a \in allocated
               PROVE  /\ entryName[a] \in MutexName /\ a \notin strayed_q => due_q'[a] <= 1
                      /\ entryName[a] \notin SemName => deceived'[a] = {}
    BY <1>1 DEF OneToken
  <2>3. entryName[a] \in MutexName /\ a \notin strayed_q => due_q[a] <= 1
    BY <1>0 DEF OneToken
  <2>4. entryName[a] \notin SemName => deceived'[a] = {}
    BY <1>0, <2>2 DEF OneToken
  <2> QED
    BY <2>1, <2>3, <2>4
<1>12. StuckOnlyByLongWait'
  <2>1. server = "stuck" => request' = request
    BY <1>1
  <2> QED
    BY <1>0, <1>1, <2>1, StuckKept
<1> QED
  BY <1>5, <1>6, <1>7, <1>8, <1>9, <1>10, <1>11, <1>12 DEF QnxInv, EntriesInv

-----------------------------------------------------------------------------
(* The end of the manager. *)
LEMMA CloseAllStep ==
  ASSUME QnxInv, NEW k \in Range(Kind), CloseAll(k)
  PROVE  QnxInv'
<1>0. EntriesInv /\ RequestsUpToDate /\ TokensBalance /\ OneToken /\ StuckOnlyByLongWait /\ QnxTypeOK
      /\ QnxNoUseAfterFree /\ QnxReferencesExact /\ EntriesListedOnce
  BY DEF QnxInv, EntriesInv
<1>1. /\ server = "closing" /\ cursor.kind <= 4 /\ cursor \in [kind : 1 .. 5, i : Nat]
      /\ UNCHANGED <<server, entryName, owners, sem, qhandle, request, due_q, got, deceived, strayed_q, lost>>
      /\ allocated' \subseteq allocated
  BY <1>0 DEF CloseAll, qHistory, QnxTypeOK
<1>2. m_list' \in [Range(Kind) -> Seq(Entry)] /\ EntriesListedOnce' /\ cursor' \in [kind : 1 .. 5, i : Nat]
  <2>0. m_list[k] \in Seq(Entry)
    BY <1>0 DEF QnxTypeOK
  <2>1. CASE cursor.i < Len(m_list[k])
    <3>1. cursor.i + 1 \in 1 .. Len(m_list[k])
      BY <1>1, <2>0, <2>1
    <3>2. /\ m_list' = [m_list EXCEPT ![k] = RemoveAt(m_list[k], cursor.i + 1)]
          /\ allocated' = allocated \ {m_list[k][cursor.i + 1]}
          /\ cursor' = [cursor EXCEPT !.i = @ + 1]
      BY <2>1 DEF CloseAll
    <3>3. cursor' \in [kind : 1 .. 5, i : Nat]
      BY <1>1, <3>2
    <3> QED
      BY <1>0, <1>1, <3>1, <3>2, <3>3, TakenOff
  <2>2. CASE ~(cursor.i < Len(m_list[k]))
    <3>1. UNCHANGED <<m_list, allocated>> /\ cursor' = [kind |-> cursor.kind + 1, i |-> 0]
      BY <2>2 DEF CloseAll
    <3>2. cursor' \in [kind : 1 .. 5, i : Nat]
      BY <1>1, <3>1
    <3> QED
      BY <1>0, <1>1, <3>1, <3>2 DEF EntriesListedOnce, QnxTypeOK
  <2> QED
    BY <2>1, <2>2
<1>3. QnxTypeOK'
  BY <1>0, <1>1, <1>2 DEF QnxTypeOK
<1>4. QnxNoUseAfterFree' /\ QnxReferencesExact'
  BY <1>0, <1>1 DEF QnxNoUseAfterFree, QnxReferencesExact
<1>5. RequestsUpToDate' /\ StuckOnlyByLongWait'
  BY <1>1 DEF RequestsUpToDate, StuckOnlyByLongWait
<1>6. TokensBalance' /\ OneToken'
  BY <1>0, <1>1 DEF TokensBalance, OneToken
<1> QED
  BY <1>2, <1>3, <1>4, <1>5, <1>6 DEF QnxInv, EntriesInv

LEMMA ClosingStep ==
  ASSUME QnxInv, Closing
  PROVE  QnxInv'
<1>0. EntriesInv /\ RequestsUpToDate /\ TokensBalance /\ OneToken /\ StuckOnlyByLongWait /\ QnxTypeOK
      /\ QnxNoUseAfterFree /\ QnxReferencesExact /\ EntriesListedOnce
  BY DEF QnxInv, EntriesInv
<1>1. CASE remove_instance
  <2> USE <1>1 DEF remove_instance, qEntries, qHistory
  <2>1. QnxTypeOK'
    BY <1>0 DEF QnxTypeOK
  <2>2. EntriesInv'
    BY <1>0, <2>1, EntriesKept
  <2>3. RequestsUpToDate' /\ StuckOnlyByLongWait'
    BY DEF RequestsUpToDate, StuckOnlyByLongWait
  <2>4. TokensBalance' /\ OneToken'
    BY <1>0 DEF TokensBalance, OneToken
  <2> QED
    BY <2>2, <2>3, <2>4 DEF QnxInv
<1>2. CASE qnx_sem_close_all \/ qnx_mutex_close_all \/ qnx_event_close_all \/ qnx_shm_close_all
  BY <1>2, CloseAllStep, QnxKinds
     DEF qnx_sem_close_all, qnx_mutex_close_all, qnx_event_close_all, qnx_shm_close_all
<1>3. CASE ManagerExits
  <2> USE <1>3 DEF ManagerExits, qHistory
  <2>1. QnxTypeOK'
    <3>1. m_list' \in [Range(Kind) -> Seq(Entry)]
      OBVIOUS
    <3> QED
      BY <1>0, <3>1 DEF QnxTypeOK
  <2>2. EntriesListedOnce'
    BY DEF EntriesListedOnce
  <2>3. QnxNoUseAfterFree' /\ QnxReferencesExact'
    BY <1>0 DEF QnxNoUseAfterFree, QnxReferencesExact
  <2>4. RequestsUpToDate' /\ StuckOnlyByLongWait'
    BY DEF RequestsUpToDate, StuckOnlyByLongWait
  <2>5. TokensBalance' /\ OneToken'
    BY <1>0 DEF TokensBalance, OneToken
  <2> QED
    BY <2>1, <2>2, <2>3, <2>4, <2>5 DEF QnxInv, EntriesInv
<1> QED
  BY <1>1, <1>2, <1>3 DEF Closing

LEMMA QnxNextInv ==
  ASSUME QnxInv, [QnxNext]_qnxVars
  PROVE  QnxInv'
<1>1. ASSUME NEW t \in Thread, Call(t)
      PROVE  QnxInv'
  BY <1>1, CallStep
<1>2. ASSUME NEW t \in Thread, Handle(t)
      PROVE  QnxInv'
  <2>1. CASE qnx_sem_create(t) \/ qnx_mutex_create(t) \/ qnx_event_create(t) \/ qnx_shm_open(t)
    BY <2>1, OpenStep
  <2>2. CASE qnx_sem_lock(t) \/ qnx_mutex_lock(t) \/ qnx_event_lock(t)
    BY <2>2, LockStep
  <2>3. CASE qnx_sem_unlock(t) \/ qnx_mutex_unlock(t) \/ qnx_event_unlock(t)
    BY <2>3, PostStep DEF qnx_sem_unlock, qnx_mutex_unlock, qnx_event_unlock
  <2>4. CASE qnx_sem_close(t) \/ qnx_mutex_close(t)
    BY <2>4, DropStep DEF qnx_sem_close, qnx_mutex_close
  <2>5. CASE qnx_event_close(t) \/ qnx_shm_close(t)
    BY <2>5, ForgetStep DEF qnx_event_close, qnx_shm_close
  <2>6. CASE qnx_event_reset(t)
    BY <2>6, Taken, AnswerStep DEF qnx_event_reset, Answer
  <2> QED
    BY <1>2, <2>1, <2>2, <2>3, <2>4, <2>5, <2>6 DEF Handle
<1>3. ASSUME NEW t \in Thread, QnxDie(t)
      PROVE  QnxInv'
  BY <1>3, DieStep
<1>4. CASE Closing
  BY <1>4, ClosingStep
<1>5. CASE UNCHANGED qnxVars
  <2> USE <1>5 DEF qnxVars, qEntries, qHistory
  <2>1. EntriesInv'
    BY DEF QnxInv, EntriesInv, QnxTypeOK, EntriesListedOnce, QnxNoUseAfterFree, QnxReferencesExact
  <2>2. RequestsUpToDate'
    BY DEF QnxInv, RequestsUpToDate, Awaited, EntryIn, NameIn
  <2>3. TokensBalance' /\ OneToken' /\ StuckOnlyByLongWait'
    BY DEF QnxInv, TokensBalance, OneToken, StuckOnlyByLongWait
  <2> QED
    BY <2>1, <2>2, <2>3 DEF QnxInv
<1> QED
  BY <1>1, <1>2, <1>3, <1>4, <1>5 DEF QnxNext

-----------------------------------------------------------------------------
LEMMA QnxInvSound ==
  ASSUME QnxInv
  PROVE  QnxEntriesSound /\ QnxWaitsSound
<1>0. EntriesInv /\ RequestsUpToDate /\ TokensBalance /\ OneToken /\ StuckOnlyByLongWait /\ QnxTypeOK
      /\ QnxNoUseAfterFree /\ QnxReferencesExact /\ EntriesListedOnce
  BY DEF QnxInv, EntriesInv
<1>1. ListsHoldAllocated
  <2> SUFFICES ASSUME NEW k \in Range(Kind), NEW a \in Range(m_list[k])
               PROVE  a \in allocated
    BY DEF ListsHoldAllocated
  <2>1. m_list[k] \in Seq(Entry)
    BY <1>0 DEF QnxTypeOK
  <2>2. PICK i \in 1 .. Len(m_list[k]) : a = m_list[k][i]
    BY <2>1 DEF Range
  <2> QED
    BY <1>0, <2>2 DEF EntriesListedOnce
<1>2. QnxTokensConserved
  BY <1>0 DEF QnxTokensConserved, TokensBalance, QnxTypeOK
<1>3. QnxMutualExclusion
  <2> SUFFICES ASSUME NEW a \in allocated, entryName[a] \in MutexName, a \notin strayed_q
               PROVE  Cardinality(got[a]) <= 1
    BY <1>0 DEF QnxMutualExclusion, OneToken
  <2>1. deceived[a] = {} /\ due_q[a] <= 1
    BY <1>0, LibraryAssumption DEF OneToken
  <2>2. got[a] \ deceived[a] = got[a] /\ a \in Entry /\ sem[a] \in Nat
    BY <1>0, <2>1 DEF QnxTypeOK
  <2>3. Cardinality(got[a]) \in Nat
    BY <1>0, <2>2, HoldersFinite DEF QnxTypeOK
  <2>4. sem[a] + Cardinality(got[a]) = due_q[a]
    BY <1>0, <2>2 DEF TokensBalance
  <2> QED
    BY <2>1, <2>2, <2>3, <2>4
<1> QED
  BY <1>0, <1>1, <1>2, <1>3 DEF QnxEntriesSound, QnxWaitsSound

(* The entries of the resource manager are on their lists, referenced by   *)
(* their handles and by those that got lost, and in place as long as a     *)
(* client has one, whoever dies and however the manager ends.              *)
THEOREM QnxEntries == QnxSpec => []QnxEntriesSound
<1>1. QnxSpec => []QnxInv
  BY QnxInitInv, QnxNextInv, PTL DEF QnxSpec
<1> QED
  BY <1>1, QnxInvSound, PTL

(* Posts and captures of the resource manager balance; a mutex has one     *)
(* holder, from the maker that asked for it as taken on, until a client    *)
(* releases it that does not have it; and only a wait without a limit, or  *)
(* with a limit that is beyond 2147 ms, holds up the manager for good.     *)
THEOREM QnxWaits == QnxSpec => []QnxWaitsSound
<1>1. QnxSpec => []QnxInv
  BY QnxInitInv, QnxNextInv, PTL DEF QnxSpec
<1> QED
  BY <1>1, QnxInvSound, PTL

-----------------------------------------------------------------------------
(***************************************************************************)
(* Threads.                                                                *)
(***************************************************************************)

(* A call that creates a thread has a place of its own for the handle, and *)
(* one that joins has the handle of a thread that no other call joins.     *)
CallsHavePlaces ==
  \A c \in Caller :
    /\ cstep[c] = "idle" => cplace[c] = NoPlace
    /\ cstep[c] # "idle" => cplace[c] \in Place
    /\ cstep[c] \in {"lock", "spawn"} =>
         /\ ipc_thread[cplace[c]] = NoTid
         /\ ipc_gate[cplace[c]] \in Gate
         /\ \A d \in Caller \ {c} : cplace[d] # cplace[c]
    /\ cstep[c] = "lock" => cplace[c] \in paused
    /\ cstep[c] = "join" =>
         /\ ipc_thread[cplace[c]] \in Tid
         /\ tstate[ipc_thread[cplace[c]]] # "free"
         /\ \A d \in Caller \ {c} :
              cstep[d] = "join" => ipc_thread[cplace[d]] # ipc_thread[cplace[c]]

ThreadsHaveOwners == \A i \in Tid : tstate[i] # "free" => owner[i] \in Place

(* A place without a handle is not marked paused or started, and a paused  *)
(* handle has a gate.                                                      *)
PlacesWithoutHandle ==
  \A s \in Place :
    /\ ipc_thread[s] = NoTid => s \notin started
    /\ Vacant(s) => s \notin paused
    /\ s \in paused => ipc_gate[s] \in Gate

Holder(s) ==
  /\ s \in paused \ started
  /\ \A c \in Caller : cstep[c] = "lock" => cplace[c] # s

(* A gate that no signal and no second start has left up, and that no      *)
(* paused create has found down without waiting for it, is 0 or 1, and it  *)
(* is 0 as long as a handle holds it, the only one.                        *)
GateHeldOnce ==
  \A g \in Gate \ (astray \cup crowded) :
    /\ gate[g] \in {0, 1}
    /\ \A s \in Place :
         (Holder(s) /\ ipc_gate[s] = g) =>
           /\ gate[g] = 0
           /\ \A u \in Place : (Holder(u) /\ ipc_gate[u] = g) => u = s

ThreadInv ==
  /\ ThreadTypeOK
  /\ CallsHavePlaces
  /\ ThreadsHaveOwners
  /\ ThreadsHaveHandles
  /\ HandlesKeepTheirThreads
  /\ PlacesWithoutHandle
  /\ GateHeldOnce
  /\ GateDownOnlyForPaused
  /\ PausedUntilStarted

LEMMA CreateKeepsInv ==
  ASSUME ThreadInv, NEW c \in Caller, NEW s \in Place, Create(c, s), Spawned(s, "body") \/ NotSpawned_qnx(s)
  PROVE  ThreadInv'
<1>0. ThreadTypeOK /\ CallsHavePlaces /\ ThreadsHaveOwners /\ ThreadsHaveHandles /\ HandlesKeepTheirThreads
      /\ PlacesWithoutHandle /\ GateHeldOnce /\ GateDownOnlyForPaused /\ PausedUntilStarted
  BY DEF ThreadInv
<1>1. ThreadTypeOK'
  BY <1>0, ThreadAssumption DEF ThreadTypeOK, Create, Spawned, NotSpawned_qnx, callOf, gateHistory
<1>2. CallsHavePlaces'
  BY <1>0, ThreadAssumption
  DEF CallsHavePlaces, ThreadTypeOK, Create, Spawned, NotSpawned_qnx, Vacant, callOf, gateHistory
<1>3. ThreadsHaveOwners'
  BY <1>0, ThreadAssumption DEF ThreadsHaveOwners, ThreadTypeOK, Spawned, NotSpawned_qnx
<1>4. ThreadsHaveHandles'
  BY <1>0, ThreadAssumption
  DEF ThreadsHaveHandles, ThreadsHaveOwners, ThreadTypeOK, Create, Spawned, NotSpawned_qnx, Vacant
<1>5. HandlesKeepTheirThreads'
  BY <1>0, ThreadAssumption DEF HandlesKeepTheirThreads, ThreadTypeOK, Create, Spawned, NotSpawned_qnx
<1>6. PlacesWithoutHandle'
  BY <1>0, ThreadAssumption
  DEF PlacesWithoutHandle, Vacant, ThreadTypeOK, Create, Spawned, NotSpawned_qnx, callOf, gateHistory
<1>7. GateHeldOnce'
  BY <1>0, ThreadAssumption DEF GateHeldOnce, Holder, Create, callOf, gateHistory
<1>8. GateDownOnlyForPaused'
  BY <1>0, ThreadAssumption DEF GateDownOnlyForPaused, Create, gateHistory
<1>9. PausedUntilStarted'
  BY <1>0, ThreadAssumption
  DEF PausedUntilStarted, ZeroWaits, PlacesWithoutHandle, ThreadTypeOK, Create, Spawned, NotSpawned_qnx, gateHistory
<1>10. QED
  BY <1>1, <1>2, <1>3, <1>4, <1>5, <1>6, <1>7, <1>8, <1>9 DEF ThreadInv

LEMMA CreateExKeepsInv ==
  ASSUME ThreadInv, NEW c \in Caller, NEW s \in Place, NEW g \in Gate, NEW p \in BOOLEAN, CreateEx(c, s, g, p)
  PROVE  ThreadInv'
<1>0. ThreadTypeOK /\ CallsHavePlaces /\ ThreadsHaveOwners /\ ThreadsHaveHandles /\ HandlesKeepTheirThreads
      /\ PlacesWithoutHandle /\ GateHeldOnce /\ GateDownOnlyForPaused /\ PausedUntilStarted
  BY DEF ThreadInv
<1>1. ThreadTypeOK'
  BY <1>0, ThreadAssumption DEF ThreadTypeOK, CreateEx, CGoto, threadsOf
<1>2. CallsHavePlaces'
  BY <1>0, ThreadAssumption DEF CallsHavePlaces, ThreadTypeOK, CreateEx, CGoto, Vacant, threadsOf
<1>3. ThreadsHaveOwners'
  BY <1>0, ThreadAssumption DEF ThreadsHaveOwners, CreateEx, threadsOf
<1>4. ThreadsHaveHandles'
  BY <1>0, ThreadAssumption DEF ThreadsHaveHandles, CreateEx, threadsOf
<1>5. HandlesKeepTheirThreads'
  BY <1>0, ThreadAssumption DEF HandlesKeepTheirThreads, CreateEx, threadsOf
<1>6. PlacesWithoutHandle'
  BY <1>0, ThreadAssumption DEF PlacesWithoutHandle, Vacant, CallsHavePlaces, ThreadTypeOK, CreateEx, CGoto
<1>7. GateHeldOnce'
  BY <1>0, ThreadAssumption DEF GateHeldOnce, Holder, PlacesWithoutHandle, ThreadTypeOK, CreateEx, CGoto,
     threadsOf
<1>8. GateDownOnlyForPaused'
  BY <1>0, ThreadAssumption DEF GateDownOnlyForPaused, PlacesWithoutHandle, CreateEx, threadsOf
<1>9. PausedUntilStarted'
  BY <1>0, ThreadAssumption DEF PausedUntilStarted, ZeroWaits, ThreadsHaveHandles, Vacant, CreateEx, threadsOf
<1>10. QED
  BY <1>1, <1>2, <1>3, <1>4, <1>5, <1>6, <1>7, <1>8, <1>9 DEF ThreadInv

LEMMA LockGateKeepsInv ==
  ASSUME ThreadInv, NEW c \in Caller, LockGate(c)
  PROVE  ThreadInv'
<1>0. ThreadTypeOK /\ CallsHavePlaces /\ ThreadsHaveOwners /\ ThreadsHaveHandles /\ HandlesKeepTheirThreads
      /\ PlacesWithoutHandle /\ GateHeldOnce /\ GateDownOnlyForPaused /\ PausedUntilStarted
  BY DEF ThreadInv
<1>1. ThreadTypeOK'
  BY <1>0, ThreadAssumption DEF ThreadTypeOK, CallsHavePlaces, LockGate, CGoto, threadHandles
<1>2. CallsHavePlaces'
  BY <1>0, ThreadAssumption DEF CallsHavePlaces, LockGate, CGoto, threadHandles
<1>3. ThreadsHaveOwners'
  BY <1>0, ThreadAssumption DEF ThreadsHaveOwners, LockGate
<1>4. ThreadsHaveHandles'
  BY <1>0, ThreadAssumption DEF ThreadsHaveHandles, LockGate, threadHandles
<1>5. HandlesKeepTheirThreads'
  BY <1>0, ThreadAssumption DEF HandlesKeepTheirThreads, LockGate, threadHandles
<1>6. PlacesWithoutHandle'
  BY <1>0, ThreadAssumption DEF PlacesWithoutHandle, Vacant, LockGate, threadHandles
<1>7. GateHeldOnce'
  BY <1>0, ThreadAssumption DEF GateHeldOnce, Holder, ThreadTypeOK, LockGate, CGoto, threadHandles
<1>8. GateDownOnlyForPaused'
  BY <1>0, ThreadAssumption
  DEF GateDownOnlyForPaused, PlacesWithoutHandle, CallsHavePlaces, ThreadTypeOK, LockGate, CGoto, threadHandles
<1>9. PausedUntilStarted'
  BY <1>0, ThreadAssumption DEF PausedUntilStarted, ZeroWaits, LockGate, threadHandles
<1>10. QED
  BY <1>1, <1>2, <1>3, <1>4, <1>5, <1>6, <1>7, <1>8, <1>9 DEF ThreadInv

LEMMA SpawnExKeepsInv ==
  ASSUME ThreadInv, NEW c \in Caller, SpawnEx(c)
  PROVE  ThreadInv'
<1>0. ThreadTypeOK /\ CallsHavePlaces /\ ThreadsHaveOwners /\ ThreadsHaveHandles /\ HandlesKeepTheirThreads
      /\ PlacesWithoutHandle /\ GateHeldOnce /\ GateDownOnlyForPaused /\ PausedUntilStarted
  BY DEF ThreadInv
<1>1. ThreadTypeOK'
  BY <1>0, ThreadAssumption DEF ThreadTypeOK, SpawnEx, CGoto, CReturn, Spawned, NotSpawned_qnx, gateHistory
<1>2. CallsHavePlaces'
  BY <1>0, ThreadAssumption
  DEF CallsHavePlaces, ThreadTypeOK, SpawnEx, CGoto, CReturn, Spawned, NotSpawned_qnx, gateHistory
<1>3. ThreadsHaveOwners'
  BY <1>0, ThreadAssumption
  DEF ThreadsHaveOwners, CallsHavePlaces, ThreadTypeOK, SpawnEx, CGoto, Spawned, NotSpawned_qnx
<1>4. ThreadsHaveHandles'
  BY <1>0, ThreadAssumption
  DEF ThreadsHaveHandles, ThreadsHaveOwners, CallsHavePlaces, ThreadTypeOK, SpawnEx, CGoto, Spawned,
      NotSpawned_qnx
<1>5. HandlesKeepTheirThreads'
  BY <1>0, ThreadAssumption DEF HandlesKeepTheirThreads, ThreadTypeOK, SpawnEx, Spawned, NotSpawned_qnx
<1>6. PlacesWithoutHandle'
  BY <1>0, ThreadAssumption
  DEF PlacesWithoutHandle, Vacant, ThreadTypeOK, SpawnEx, CReturn, Spawned, NotSpawned_qnx, gateHistory
<1>7. GateHeldOnce'
  BY <1>0, ThreadAssumption DEF GateHeldOnce, Holder, SpawnEx, CGoto, CReturn, gateHistory
<1>8. GateDownOnlyForPaused'
  BY <1>0, ThreadAssumption DEF GateDownOnlyForPaused, SpawnEx, gateHistory
<1>9. PausedUntilStarted'
  BY <1>0, ThreadAssumption DEF PausedUntilStarted, ZeroWaits, ThreadTypeOK, SpawnEx, Spawned, NotSpawned_qnx, gateHistory
<1>10. QED
  BY <1>1, <1>2, <1>3, <1>4, <1>5, <1>6, <1>7, <1>8, <1>9 DEF ThreadInv

LEMMA SpawnExFailsKeepsInv ==
  ASSUME ThreadInv, NEW c \in Caller, SpawnExFails(c)
  PROVE  ThreadInv'
<1>0. ThreadTypeOK /\ CallsHavePlaces /\ ThreadsHaveOwners /\ ThreadsHaveHandles /\ HandlesKeepTheirThreads
      /\ PlacesWithoutHandle /\ GateHeldOnce /\ GateDownOnlyForPaused /\ PausedUntilStarted
  BY DEF ThreadInv
<1>1. ThreadTypeOK'
  BY <1>0, ThreadAssumption DEF ThreadTypeOK, CallsHavePlaces, SpawnExFails, CGoto, CReturn, FreeHandle,
     threadsOf
<1>2. CallsHavePlaces'
  BY <1>0, ThreadAssumption DEF CallsHavePlaces, ThreadTypeOK, SpawnExFails, CGoto, CReturn, FreeHandle,
     threadsOf
<1>3. ThreadsHaveOwners'
  BY <1>0, ThreadAssumption DEF ThreadsHaveOwners, SpawnExFails, threadsOf
<1>4. ThreadsHaveHandles'
  BY <1>0, ThreadAssumption DEF ThreadsHaveHandles, CallsHavePlaces, SpawnExFails, CGoto, FreeHandle, threadsOf
<1>5. HandlesKeepTheirThreads'
  BY <1>0, ThreadAssumption DEF HandlesKeepTheirThreads, SpawnExFails, FreeHandle, threadsOf
<1>6. PlacesWithoutHandle'
  BY <1>0, ThreadAssumption DEF PlacesWithoutHandle, Vacant, SpawnExFails, CReturn, FreeHandle
<1>7. GateHeldOnce'
  BY <1>0, ThreadAssumption DEF GateHeldOnce, Holder, SpawnExFails, CGoto, CReturn, FreeHandle, threadsOf
<1>8. GateDownOnlyForPaused'
  BY <1>0, ThreadAssumption DEF GateDownOnlyForPaused, SpawnExFails, FreeHandle, threadsOf
<1>9. PausedUntilStarted'
  BY <1>0, ThreadAssumption DEF PausedUntilStarted, ZeroWaits, SpawnExFails, FreeHandle, threadsOf
<1>10. QED
  BY <1>1, <1>2, <1>3, <1>4, <1>5, <1>6, <1>7, <1>8, <1>9 DEF ThreadInv

LEMMA PassesKeepsInv ==
  ASSUME ThreadInv, NEW i \in Tid, ThreadPasses(i)
  PROVE  ThreadInv'
<1>0. ThreadTypeOK /\ CallsHavePlaces /\ ThreadsHaveOwners /\ ThreadsHaveHandles /\ HandlesKeepTheirThreads
      /\ PlacesWithoutHandle /\ GateHeldOnce /\ GateDownOnlyForPaused /\ PausedUntilStarted
  BY DEF ThreadInv
<1>1. ThreadTypeOK'
  BY <1>0, ThreadAssumption DEF ThreadTypeOK, ThreadPasses, threadHandles, callOf, threadHistory, gateHistory
<1>2. CallsHavePlaces'
  BY <1>0, ThreadAssumption DEF CallsHavePlaces, ThreadPasses, threadHandles, callOf, threadHistory, gateHistory
<1>3. ThreadsHaveOwners'
  BY <1>0, ThreadAssumption DEF ThreadsHaveOwners, ThreadPasses, threadHistory
<1>4. ThreadsHaveHandles'
  BY <1>0, ThreadAssumption DEF ThreadsHaveHandles, ThreadPasses, threadHandles, threadHistory
<1>5. HandlesKeepTheirThreads'
  BY <1>0, ThreadAssumption DEF HandlesKeepTheirThreads, ThreadPasses, threadHandles, threadHistory
<1>6. PlacesWithoutHandle'
  BY <1>0, ThreadAssumption
  DEF PlacesWithoutHandle, Vacant, ThreadPasses, threadHandles, callOf, threadHistory, gateHistory
<1>7. GateHeldOnce'
  BY <1>0, ThreadAssumption DEF GateHeldOnce, Holder, ThreadPasses, threadHandles, callOf, threadHistory,
     gateHistory
<1>8. GateDownOnlyForPaused'
  BY <1>0, ThreadAssumption DEF GateDownOnlyForPaused, ThreadPasses, threadHandles, threadHistory, gateHistory
<1>9. PausedUntilStarted'
  BY <1>0, ThreadAssumption
  DEF PausedUntilStarted, ZeroWaits, ThreadsHaveHandles, PlacesWithoutHandle, GateHeldOnce, Holder, CallsHavePlaces,
      ThreadTypeOK, ThreadPasses, threadHandles, threadHistory, gateHistory
<1>10. QED
  BY <1>1, <1>2, <1>3, <1>4, <1>5, <1>6, <1>7, <1>8, <1>9 DEF ThreadInv

LEMMA EndKeepsInv ==
  ASSUME ThreadInv, NEW i \in Tid, ThreadEnds(i)
  PROVE  ThreadInv'
<1>0. ThreadTypeOK /\ CallsHavePlaces /\ ThreadsHaveOwners /\ ThreadsHaveHandles /\ HandlesKeepTheirThreads
      /\ PlacesWithoutHandle /\ GateHeldOnce /\ GateDownOnlyForPaused /\ PausedUntilStarted
  BY DEF ThreadInv
<1>1. ThreadTypeOK'
  BY <1>0, ThreadAssumption DEF ThreadTypeOK, ThreadEnds, threadHandles, callOf, threadHistory, gateHistory
<1>2. CallsHavePlaces'
  BY <1>0, ThreadAssumption DEF CallsHavePlaces, ThreadEnds, threadHandles, callOf, threadHistory, gateHistory
<1>3. ThreadsHaveOwners'
  BY <1>0, ThreadAssumption DEF ThreadsHaveOwners, ThreadEnds, threadHistory
<1>4. ThreadsHaveHandles'
  BY <1>0, ThreadAssumption DEF ThreadsHaveHandles, ThreadEnds, threadHandles, threadHistory
<1>5. HandlesKeepTheirThreads'
  BY <1>0, ThreadAssumption DEF HandlesKeepTheirThreads, ThreadEnds, threadHandles, threadHistory
<1>6. PlacesWithoutHandle'
  BY <1>0, ThreadAssumption
  DEF PlacesWithoutHandle, Vacant, ThreadEnds, threadHandles, callOf, threadHistory, gateHistory
<1>7. GateHeldOnce'
  BY <1>0, ThreadAssumption DEF GateHeldOnce, Holder, ThreadEnds, threadHandles, callOf, threadHistory,
     gateHistory
<1>8. GateDownOnlyForPaused'
  BY <1>0, ThreadAssumption DEF GateDownOnlyForPaused, ThreadEnds, threadHandles, threadHistory, gateHistory
<1>9. PausedUntilStarted'
  BY <1>0, ThreadAssumption DEF PausedUntilStarted, ZeroWaits, ThreadEnds, threadHandles, threadHistory, gateHistory
<1>10. QED
  BY <1>1, <1>2, <1>3, <1>4, <1>5, <1>6, <1>7, <1>8, <1>9 DEF ThreadInv

LEMMA StartKeepsInv ==
  ASSUME ThreadInv, NEW c \in Caller, NEW s \in Place, Start(c, s)
  PROVE  ThreadInv'
<1>0. ThreadTypeOK /\ CallsHavePlaces /\ ThreadsHaveOwners /\ ThreadsHaveHandles /\ HandlesKeepTheirThreads
      /\ PlacesWithoutHandle /\ GateHeldOnce /\ GateDownOnlyForPaused /\ PausedUntilStarted
  BY DEF ThreadInv
<1>1. ThreadTypeOK'
  BY <1>0, ThreadAssumption DEF ThreadTypeOK, Start, threadHandles, callOf
<1>2. CallsHavePlaces'
  BY <1>0, ThreadAssumption DEF CallsHavePlaces, Start, threadHandles, callOf
<1>3. ThreadsHaveOwners'
  BY <1>0, ThreadAssumption DEF ThreadsHaveOwners, Start
<1>4. ThreadsHaveHandles'
  BY <1>0, ThreadAssumption DEF ThreadsHaveHandles, Start, threadHandles
<1>5. HandlesKeepTheirThreads'
  BY <1>0, ThreadAssumption DEF HandlesKeepTheirThreads, Start, threadHandles
<1>6. PlacesWithoutHandle'
  BY <1>0, ThreadAssumption DEF PlacesWithoutHandle, Vacant, Start, threadHandles, callOf
<1>7. GateHeldOnce'
  BY <1>0, ThreadAssumption DEF GateHeldOnce, Holder, CallsHavePlaces, Start, threadHandles, callOf
<1>8. GateDownOnlyForPaused'
  BY <1>0, ThreadAssumption DEF GateDownOnlyForPaused, ThreadTypeOK, Start, threadHandles
<1>9. PausedUntilStarted'
  BY <1>0, ThreadAssumption DEF PausedUntilStarted, ZeroWaits, Start, threadHandles
<1>10. QED
  BY <1>1, <1>2, <1>3, <1>4, <1>5, <1>6, <1>7, <1>8, <1>9 DEF ThreadInv

LEMMA StopKeepsInv ==
  ASSUME ThreadInv, NEW c \in Caller, NEW s \in Place, Stop(c, s)
  PROVE  ThreadInv'
<1>0. ThreadTypeOK /\ CallsHavePlaces /\ ThreadsHaveOwners /\ ThreadsHaveHandles /\ HandlesKeepTheirThreads
      /\ PlacesWithoutHandle /\ GateHeldOnce /\ GateDownOnlyForPaused /\ PausedUntilStarted
  BY DEF ThreadInv
<1>1. ThreadTypeOK'
  BY <1>0, ThreadAssumption DEF ThreadTypeOK, Stop, threadHandles, callOf, threadHistory, gateHistory
<1>2. CallsHavePlaces'
  BY <1>0, ThreadAssumption DEF CallsHavePlaces, Stop, threadHandles, callOf, threadHistory, gateHistory
<1>3. ThreadsHaveOwners'
  BY <1>0, ThreadAssumption DEF ThreadsHaveOwners, Stop, threadHistory
<1>4. ThreadsHaveHandles'
  BY <1>0, ThreadAssumption DEF ThreadsHaveHandles, Stop, threadHandles, threadHistory
<1>5. HandlesKeepTheirThreads'
  BY <1>0, ThreadAssumption DEF HandlesKeepTheirThreads, Stop, threadHandles, threadHistory
<1>6. PlacesWithoutHandle'
  BY <1>0, ThreadAssumption DEF PlacesWithoutHandle, Vacant, Stop, threadHandles, callOf, threadHistory,
     gateHistory
<1>7. GateHeldOnce'
  BY <1>0, ThreadAssumption DEF GateHeldOnce, Holder, Stop, threadHandles, callOf, threadHistory, gateHistory
<1>8. GateDownOnlyForPaused'
  BY <1>0, ThreadAssumption DEF GateDownOnlyForPaused, Stop, threadHandles, threadHistory, gateHistory
<1>9. PausedUntilStarted'
  BY <1>0, ThreadAssumption DEF PausedUntilStarted, ZeroWaits, Stop, threadHandles, threadHistory, gateHistory
<1>10. QED
  BY <1>1, <1>2, <1>3, <1>4, <1>5, <1>6, <1>7, <1>8, <1>9 DEF ThreadInv

LEMMA JoinEnterKeepsInv ==
  ASSUME ThreadInv, NEW c \in Caller, NEW s \in Place, NEW l \in JoinLimit \cup {-1}, JoinEnter(c, s, l),
         deletes' \subseteq Caller
  PROVE  ThreadInv'
<1>0. ThreadTypeOK /\ CallsHavePlaces /\ ThreadsHaveOwners /\ ThreadsHaveHandles /\ HandlesKeepTheirThreads
      /\ PlacesWithoutHandle /\ GateHeldOnce /\ GateDownOnlyForPaused /\ PausedUntilStarted
  BY DEF ThreadInv
<1>1. ThreadTypeOK'
  BY <1>0, ThreadAssumption DEF ThreadTypeOK, JoinEnter, CGoto, threadHandles, threadsOf, threadHistory,
     gateHistory
<1>2. CallsHavePlaces'
  BY <1>0, ThreadAssumption
  DEF CallsHavePlaces, ThreadTypeOK, JoinEnter, Joining, CGoto, threadHandles, threadsOf, threadHistory,
      gateHistory
<1>3. ThreadsHaveOwners'
  BY <1>0, ThreadAssumption DEF ThreadsHaveOwners, JoinEnter, threadsOf, threadHistory
<1>4. ThreadsHaveHandles'
  BY <1>0, ThreadAssumption DEF ThreadsHaveHandles, JoinEnter, threadHandles, threadsOf, threadHistory
<1>5. HandlesKeepTheirThreads'
  BY <1>0, ThreadAssumption DEF HandlesKeepTheirThreads, JoinEnter, threadHandles, threadsOf, threadHistory
<1>6. PlacesWithoutHandle'
  BY <1>0, ThreadAssumption
  DEF PlacesWithoutHandle, Vacant, CallsHavePlaces, JoinEnter, CGoto, threadHandles, threadHistory, gateHistory
<1>7. GateHeldOnce'
  BY <1>0, ThreadAssumption
  DEF GateHeldOnce, Holder, JoinEnter, CGoto, threadHandles, threadsOf, threadHistory, gateHistory
<1>8. GateDownOnlyForPaused'
  BY <1>0, ThreadAssumption DEF GateDownOnlyForPaused, JoinEnter, threadHandles, threadsOf, threadHistory,
     gateHistory
<1>9. PausedUntilStarted'
  BY <1>0, ThreadAssumption DEF PausedUntilStarted, ZeroWaits, JoinEnter, threadHandles, threadsOf, threadHistory,
     gateHistory
<1>10. QED
  BY <1>1, <1>2, <1>3, <1>4, <1>5, <1>6, <1>7, <1>8, <1>9 DEF ThreadInv

LEMMA DeleteKeepsInv ==
  ASSUME ThreadInv, NEW c \in Caller, NEW s \in Place, NobodyHas(s), FreeHandle(s),
         UNCHANGED <<system, threadsOf, callOf, owner, astray, crowded>>, joined' = joined \ {s}, robbed' = robbed \ {s}
  PROVE  ThreadInv'
<1>0. ThreadTypeOK /\ CallsHavePlaces /\ ThreadsHaveOwners /\ ThreadsHaveHandles /\ HandlesKeepTheirThreads
      /\ PlacesWithoutHandle /\ GateHeldOnce /\ GateDownOnlyForPaused /\ PausedUntilStarted
  BY DEF ThreadInv
<1>1. ThreadTypeOK'
  BY <1>0, ThreadAssumption DEF ThreadTypeOK, PlacesWithoutHandle, FreeHandle, threadsOf, callOf
<1>2. CallsHavePlaces'
  BY <1>0, ThreadAssumption DEF CallsHavePlaces, NobodyHas, FreeHandle, threadsOf, callOf
<1>3. ThreadsHaveOwners'
  BY <1>0, ThreadAssumption DEF ThreadsHaveOwners, threadsOf
<1>4. ThreadsHaveHandles'
  BY <1>0, ThreadAssumption DEF ThreadsHaveHandles, NobodyHas, FreeHandle, threadsOf
<1>5. HandlesKeepTheirThreads'
  BY <1>0, ThreadAssumption DEF HandlesKeepTheirThreads, ThreadTypeOK, FreeHandle, threadsOf
<1>6. PlacesWithoutHandle'
  BY <1>0, ThreadAssumption DEF PlacesWithoutHandle, Vacant, FreeHandle, callOf
<1>7. GateHeldOnce'
  BY <1>0, ThreadAssumption DEF GateHeldOnce, Holder, FreeHandle, threadsOf, callOf
<1>8. GateDownOnlyForPaused'
  BY <1>0, ThreadAssumption DEF GateDownOnlyForPaused, FreeHandle, threadsOf
<1>9. PausedUntilStarted'
  BY <1>0, ThreadAssumption DEF PausedUntilStarted, ZeroWaits, FreeHandle, threadsOf
<1>10. QED
  BY <1>1, <1>2, <1>3, <1>4, <1>5, <1>6, <1>7, <1>8, <1>9 DEF ThreadInv

LEMMA JoinDoneKeepsInv ==
  ASSUME ThreadInv, NEW c \in Caller, JoinDone(c)
  PROVE  ThreadInv'
<1>0. ThreadTypeOK /\ CallsHavePlaces /\ ThreadsHaveOwners /\ ThreadsHaveHandles /\ HandlesKeepTheirThreads
      /\ PlacesWithoutHandle /\ GateHeldOnce /\ GateDownOnlyForPaused /\ PausedUntilStarted
  BY DEF ThreadInv
<1>1. ThreadTypeOK'
  BY <1>0, ThreadAssumption
  DEF ThreadTypeOK, CallsHavePlaces, PlacesWithoutHandle, ThreadsHaveOwners, JoinDone, CGoto, CReturn,
      FreeHandle
<1>2. CallsHavePlaces'
  BY <1>0, ThreadAssumption DEF CallsHavePlaces, ThreadTypeOK, JoinDone, CGoto, CReturn, FreeHandle
<1>3. ThreadsHaveOwners'
  BY <1>0, ThreadAssumption DEF ThreadsHaveOwners, ThreadTypeOK, JoinDone
<1>4. ThreadsHaveHandles'
  BY <1>0, ThreadAssumption DEF ThreadsHaveHandles, ThreadsHaveOwners, ThreadTypeOK, JoinDone, FreeHandle
<1>5. HandlesKeepTheirThreads'
  BY <1>0, ThreadAssumption DEF HandlesKeepTheirThreads, ThreadTypeOK, JoinDone, FreeHandle
<1>6. PlacesWithoutHandle'
  BY <1>0, ThreadAssumption
  DEF PlacesWithoutHandle, Vacant, CallsHavePlaces, ThreadTypeOK, JoinDone, CGoto, CReturn, FreeHandle
<1>7. GateHeldOnce'
  BY <1>0, ThreadAssumption DEF GateHeldOnce, Holder, ThreadTypeOK, JoinDone, CGoto, CReturn, FreeHandle
<1>8. GateDownOnlyForPaused'
  BY <1>0, ThreadAssumption DEF GateDownOnlyForPaused, ThreadTypeOK, JoinDone, FreeHandle
<1>9. PausedUntilStarted'
  BY <1>0, ThreadAssumption DEF PausedUntilStarted, ZeroWaits, ThreadTypeOK, JoinDone, FreeHandle
<1>10. QED
  BY <1>1, <1>2, <1>3, <1>4, <1>5, <1>6, <1>7, <1>8, <1>9 DEF ThreadInv

LEMMA JoinExpiresKeepsInv ==
  ASSUME ThreadInv, NEW c \in Caller, JoinExpires(c)
  PROVE  ThreadInv'
<1>0. ThreadTypeOK /\ CallsHavePlaces /\ ThreadsHaveOwners /\ ThreadsHaveHandles /\ HandlesKeepTheirThreads
      /\ PlacesWithoutHandle /\ GateHeldOnce /\ GateDownOnlyForPaused /\ PausedUntilStarted
  BY DEF ThreadInv
<1>1. ThreadTypeOK'
  BY <1>0, ThreadAssumption
  DEF ThreadTypeOK, JoinExpires, CGoto, CReturn, threadHandles, threadsOf, threadHistory, gateHistory
<1>2. CallsHavePlaces'
  BY <1>0, ThreadAssumption
  DEF CallsHavePlaces, ThreadTypeOK, JoinExpires, CGoto, CReturn, threadHandles, threadsOf, threadHistory,
      gateHistory
<1>3. ThreadsHaveOwners'
  BY <1>0, ThreadAssumption DEF ThreadsHaveOwners, JoinExpires, threadsOf, threadHistory
<1>4. ThreadsHaveHandles'
  BY <1>0, ThreadAssumption DEF ThreadsHaveHandles, JoinExpires, threadHandles, threadsOf, threadHistory
<1>5. HandlesKeepTheirThreads'
  BY <1>0, ThreadAssumption DEF HandlesKeepTheirThreads, JoinExpires, threadHandles, threadsOf, threadHistory
<1>6. PlacesWithoutHandle'
  BY <1>0, ThreadAssumption
  DEF PlacesWithoutHandle, Vacant, CallsHavePlaces, JoinExpires, CGoto, CReturn, threadHandles, threadHistory,
      gateHistory
<1>7. GateHeldOnce'
  BY <1>0, ThreadAssumption
  DEF GateHeldOnce, Holder, JoinExpires, CGoto, CReturn, threadHandles, threadsOf, threadHistory, gateHistory
<1>8. GateDownOnlyForPaused'
  BY <1>0, ThreadAssumption
  DEF GateDownOnlyForPaused, JoinExpires, threadHandles, threadsOf, threadHistory, gateHistory
<1>9. PausedUntilStarted'
  BY <1>0, ThreadAssumption DEF PausedUntilStarted, ZeroWaits, JoinExpires, threadHandles, threadsOf, threadHistory,
     gateHistory
<1>10. QED
  BY <1>1, <1>2, <1>3, <1>4, <1>5, <1>6, <1>7, <1>8, <1>9 DEF ThreadInv

LEMMA NextKeepsThreadInv == ThreadInv /\ [ThreadNext]_threadVars => ThreadInv'
<1> SUFFICES ASSUME ThreadInv, [ThreadNext]_threadVars PROVE ThreadInv'
  OBVIOUS
<1>1. ASSUME NEW c \in Caller, CallerProceeds(c) PROVE ThreadInv'
  BY <1>1, LockGateKeepsInv, SpawnExKeepsInv, SpawnExFailsKeepsInv, JoinDoneKeepsInv, JoinExpiresKeepsInv
     DEF CallerProceeds
<1>2. ASSUME NEW c \in Caller, NEW s \in Place, IPC_createThread(c, s) \/ qnx_createThread(c, s)
      PROVE  ThreadInv'
  BY <1>2, CreateKeepsInv DEF IPC_createThread, qnx_createThread
<1>3. ASSUME NEW c \in Caller, NEW s \in Place, NEW g \in Gate, NEW p \in BOOLEAN,
             IPC_createThreadEx(c, s, g, p) \/ qnx_createThreadEx(c, s, g, p)
      PROVE  ThreadInv'
  BY <1>3, CreateExKeepsInv DEF IPC_createThreadEx, qnx_createThreadEx
<1>4. ASSUME NEW c \in Caller, NEW s \in Place,
             \/ IPC_startThread(c, s) \/ qnx_startThread(c, s)
             \/ IPC_stopThread(c, s) \/ qnx_stopThread(c, s)
      PROVE  ThreadInv'
  BY <1>4, StartKeepsInv, StopKeepsInv
     DEF IPC_startThread, qnx_startThread, IPC_stopThread, qnx_stopThread
<1>5. deletes \subseteq Caller
  BY DEF ThreadInv, ThreadTypeOK
<1>6. ASSUME NEW c \in Caller, NEW s \in Place, NEW l \in JoinLimit,
             IPC_waitThread(c, s, l) \/ qnx_waitThread(c, s, l)
      PROVE  ThreadInv'
  <2>1. CASE IPC_waitThread(c, s, l)
    BY <1>5, <2>1, JoinEnterKeepsInv DEF IPC_waitThread
  <2>2. CASE qnx_waitThread(c, s, l)
    <3>1. PICK k \in JoinLimit \cup {-1} : JoinEnter(c, s, k)
      BY <2>2 DEF qnx_waitThread
    <3>2. deletes' \subseteq Caller
      BY <1>5, <2>2 DEF qnx_waitThread
    <3>3. QED
      BY <3>1, <3>2, JoinEnterKeepsInv
  <2>3. QED
    BY <1>6, <2>1, <2>2
<1>7. ASSUME NEW c \in Caller, NEW s \in Place, IPC_deleteThread(c, s) \/ qnx_deleteThread(c, s)
      PROVE  ThreadInv'
  <2>1. Delete(c, s)
    BY <1>7 DEF IPC_deleteThread, qnx_deleteThread
  <2>2. CASE JoinEnter(c, s, -1) /\ deletes' = deletes \cup {c}
    <3>1. deletes' \subseteq Caller
      BY <1>5, <2>2
    <3>2. QED
      BY <2>2, <3>1, JoinEnterKeepsInv
  <2>3. CASE ~(JoinEnter(c, s, -1) /\ deletes' = deletes \cup {c})
    BY <2>1, <2>3, DeleteKeepsInv DEF Delete
  <2>4. QED
    BY <2>2, <2>3
<1>8. ASSUME NEW i \in Tid, ThreadPasses(i) \/ ThreadEnds(i) PROVE ThreadInv'
  BY <1>8, PassesKeepsInv, EndKeepsInv
<1>9. CASE UNCHANGED threadVars
  BY <1>9 DEF ThreadInv, ThreadTypeOK, CallsHavePlaces, ThreadsHaveOwners, ThreadsHaveHandles,
     HandlesKeepTheirThreads, PlacesWithoutHandle, Vacant, GateHeldOnce, Holder, GateDownOnlyForPaused,
     PausedUntilStarted, ZeroWaits, threadVars, threadHandles, threadsOf, callOf, threadHistory, gateHistory
<1>10. QED
  BY <1>1, <1>2, <1>3, <1>4, <1>6, <1>7, <1>8, <1>9 DEF ThreadNext

(* Until it is joined a handle stands for the thread that was made for it, *)
(* a thread never outlives its handle, a thread that was created paused    *)
(* does nothing before its start, unless a signal or a second start left   *)
(* its gate up or, with a driver, a paused create found that gate down;    *)
(* and a gate is down only for such a thread: whatever creates, starts,    *)
(* stops, waits and deletes there are, of any number of callers, handles,  *)
(* threads and gates, in each of the three systems.                        *)
THEOREM ThreadHandles == ThreadSpec => []ThreadsSound
<1>1. ThreadInit => ThreadInv
  BY ThreadAssumption DEF ThreadInit, ThreadInv, ThreadTypeOK, CallsHavePlaces, ThreadsHaveOwners,
     ThreadsHaveHandles, HandlesKeepTheirThreads, PlacesWithoutHandle, Vacant, GateHeldOnce, Holder,
     GateDownOnlyForPaused, PausedUntilStarted
<1>2. ThreadInv => ThreadsSound
  BY DEF ThreadInv, ThreadsSound
<1>3. QED
  BY <1>1, <1>2, NextKeepsThreadInv, PTL DEF ThreadSpec
=============================================================================
