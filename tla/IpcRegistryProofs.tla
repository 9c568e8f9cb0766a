--------------------------- MODULE IpcRegistryProofs ---------------------------
(***************************************************************************)
(* The registry keeps its promises in every kind of object: proofs about   *)
(* the steps of IpcRegistry alone, used by the proofs of the modules that  *)
(* extend it.                                                              *)
(***************************************************************************)
EXTENDS IpcRegistry, FiniteSetTheorems, TLAPS

(* What any of the modules that extend the registry may do with it. *)
RegistryNext ==
  \/ \E s \in Slot, n \in Name :
       OpenExisting(s, n) \/ OpenFails(s, n) \/ \E a \in Addr : OpenNew(s, n, a)
  \/ \E s \in Slot : Close(s)
  \/ \E t \in Thread : Return(t) \/ \E s \in Slot : Validate(t, s)

RegistryInv ==
  /\ RegistryTypeOK
  /\ RefCountExact
  /\ NoDanglingHandle
  /\ OneObjectPerName
  /\ NoUseAfterFree

-----------------------------------------------------------------------------
LEMMA HoldersFinite ==
  ASSUME NEW a
  PROVE  IsFiniteSet(Holders(a)) /\ Cardinality(Holders(a)) \in Nat
<1>1. Holders(a) \in SUBSET Slot
  BY DEF Holders
<1>2. IsFiniteSet(Slot)
  BY RegistryAssumption
<1>3. IsFiniteSet(Holders(a))
  BY <1>1, <1>2, FS_Subset
<1> QED
  BY <1>3, FS_CardinalityType

(* A slot that changes from s's old value to v moves one reference. *)
LEMMA HoldersAfterSet ==
  ASSUME RegistryTypeOK, NEW s \in Slot, NEW v, NEW a,
         handle' = [handle EXCEPT ![s] = v]
  PROVE  Holders(a)' = IF v = a THEN Holders(a) \cup {s} ELSE Holders(a) \ {s}
BY DEF Holders, RegistryTypeOK

LEMMA RegistryInitInv == RegistryInit => RegistryInv
BY RegistryAssumption
   DEF RegistryInit, RegistryInv, RegistryTypeOK, RefCountExact, NoDanglingHandle,
       OneObjectPerName, NoUseAfterFree

LEMMA OpenExistingInv ==
  ASSUME RegistryInv, NEW s \in Slot, NEW n \in Name, OpenExisting(s, n)
  PROVE  RegistryInv'
<1> USE DEF RegistryInv
<1>1. PICK a \in Named(n) :
        /\ handle[s] = NoHandle
        /\ owner_count' = [owner_count EXCEPT ![a] = @ + 1]
        /\ handle' = [handle EXCEPT ![s] = a]
        /\ UNCHANGED <<listed, nameOf, via>>
  BY DEF OpenExisting
<1>2. a \in listed /\ a \in Addr
  BY DEF Named, RegistryTypeOK
<1>3. RegistryTypeOK'
  BY <1>1, <1>2 DEF RegistryTypeOK
<1>4. RefCountExact'
  <2> SUFFICES ASSUME NEW b \in listed
               PROVE  owner_count'[b] = Cardinality(Holders(b)')
    BY <1>1 DEF RefCountExact, Holders
  <2>1. /\ owner_count[b] = Cardinality(Holders(b))
        /\ IsFiniteSet(Holders(b))
        /\ s \notin Holders(b)
    BY <1>1, HoldersFinite, RegistryAssumption DEF RefCountExact, Holders, RegistryTypeOK
  <2>2. Holders(b)' = IF a = b THEN Holders(b) \cup {s} ELSE Holders(b) \ {s}
    BY <1>1, HoldersAfterSet
  <2>3. CASE a = b
    <3>1. Holders(b)' = Holders(b) \cup {s}
      BY <2>2, <2>3
    <3>2. Cardinality(Holders(b) \cup {s}) = Cardinality(Holders(b)) + 1
      BY <2>1, FS_AddElement
    <3>3. owner_count'[b] = owner_count[b] + 1
      BY <1>1, <1>2, <2>3 DEF RegistryTypeOK
    <3> QED
      BY <2>1, <3>1, <3>2, <3>3
  <2>4. CASE a # b
    <3>1. Holders(b)' = Holders(b)
      BY <2>1, <2>2, <2>4
    <3> QED
      BY <1>1, <2>1, <2>4, <3>1 DEF RegistryTypeOK
  <2> QED
    BY <2>3, <2>4
<1>5. NoDanglingHandle'
  BY <1>1, <1>2 DEF NoDanglingHandle, RegistryTypeOK
<1>6. OneObjectPerName'
  BY <1>1 DEF OneObjectPerName
<1>7. NoUseAfterFree'
  BY <1>1, <1>2, RegistryAssumption DEF NoUseAfterFree, EntryOf, RegistryTypeOK
<1> QED
  BY <1>3, <1>4, <1>5, <1>6, <1>7

LEMMA OpenNewInv ==
  ASSUME RegistryInv, NEW s \in Slot, NEW n \in Name, NEW a \in Addr, OpenNew(s, n, a)
  PROVE  RegistryInv'
<1> USE DEF RegistryInv
<1>1. RegistryTypeOK'
  BY DEF RegistryTypeOK, OpenNew
<1>2. RefCountExact'
  <2> SUFFICES ASSUME NEW b \in listed \cup {a}
               PROVE  owner_count'[b] = Cardinality(Holders(b)')
    BY DEF RefCountExact, Holders, OpenNew
  <2>1. Holders(b)' = IF a = b THEN Holders(b) \cup {s} ELSE Holders(b) \ {s}
    BY HoldersAfterSet DEF OpenNew
  <2>2. CASE a = b
    <3>1. Holders(a) = {}
      BY DEF Holders, NoDanglingHandle, OpenNew
    <3>2. Holders(b)' = {s}
      BY <2>1, <2>2, <3>1
    <3> QED
      BY <2>2, <3>2, FS_Singleton DEF OpenNew, RegistryTypeOK
  <2>3. CASE a # b
    <3>1. s \notin Holders(b)
      BY RegistryAssumption, <2>3 DEF Holders, OpenNew, RegistryTypeOK
    <3>2. Holders(b)' = Holders(b)
      BY <2>1, <2>3, <3>1
    <3> QED
      BY <2>3, <3>2 DEF OpenNew, RegistryTypeOK, RefCountExact
  <2> QED
    BY <2>2, <2>3
<1>3. NoDanglingHandle'
  BY DEF NoDanglingHandle, RegistryTypeOK, OpenNew
<1>4. OneObjectPerName'
  BY DEF OneObjectPerName, RegistryTypeOK, OpenNew, Named
<1>5. NoUseAfterFree'
  BY RegistryAssumption DEF NoUseAfterFree, EntryOf, RegistryTypeOK, OpenNew
<1> QED
  BY <1>1, <1>2, <1>3, <1>4, <1>5

LEMMA OpenFailsInv ==
  ASSUME RegistryInv, NEW s \in Slot, NEW n \in Name, OpenFails(s, n)
  PROVE  RegistryInv'
<1> USE DEF RegistryInv
<1>1. RegistryTypeOK'
  BY DEF RegistryTypeOK, OpenFails
<1>2. RefCountExact'
  <2> SUFFICES ASSUME NEW b \in listed
               PROVE  Holders(b)' = Holders(b)
    BY DEF RefCountExact, OpenFails
  <2>1. b # NullEntry /\ b # NoHandle
    BY RegistryAssumption DEF RegistryTypeOK
  <2> QED
    BY <2>1 DEF Holders, OpenFails, RegistryTypeOK
<1>3. NoDanglingHandle'
  BY RegistryAssumption DEF NoDanglingHandle, RegistryTypeOK, OpenFails
<1>4. OneObjectPerName'
  BY DEF OneObjectPerName, OpenFails
<1>5. NoUseAfterFree'
  BY RegistryAssumption DEF NoUseAfterFree, EntryOf, RegistryTypeOK, OpenFails
<1> QED
  BY <1>1, <1>2, <1>3, <1>4, <1>5

LEMMA CloseInv ==
  ASSUME RegistryInv, NEW s \in Slot, Close(s)
  PROVE  RegistryInv'
<1> USE DEF RegistryInv
<1>1. CASE handle[s] \in listed
  <2>0. PICK a \in Addr : a = handle[s]
    BY <1>1 DEF RegistryTypeOK
  <2>1. /\ a \in listed /\ a \in Addr /\ a # NoHandle
        /\ owner_count' = [owner_count EXCEPT ![a] = @ - 1]
        /\ listed' = IF owner_count[a] = 1 THEN listed \ {a} ELSE listed
        /\ handle' = [handle EXCEPT ![s] = NoHandle]
        /\ UNCHANGED <<nameOf, via>>
    BY <1>1, <2>0, RegistryAssumption DEF Close, RegistryTypeOK
  <2>2. \A b \in listed : Holders(b)' = Holders(b) \ {s}
    <3> SUFFICES ASSUME NEW b \in listed
                 PROVE  Holders(b)' = Holders(b) \ {s}
      OBVIOUS
    <3>1. b # NoHandle
      BY RegistryAssumption DEF RegistryTypeOK
    <3> QED
      BY <2>1, <3>1, HoldersAfterSet
  <2>3. s \in Holders(a) /\ \A b \in listed : b # a => s \notin Holders(b)
    BY <2>0 DEF Holders
  <2>4. \A b \in listed : /\ owner_count[b] = Cardinality(Holders(b))
                          /\ IsFiniteSet(Holders(b))
    BY HoldersFinite DEF RefCountExact
  <2>5. /\ Cardinality(Holders(a)') = owner_count[a] - 1
        /\ IsFiniteSet(Holders(a)')
    <3>1. Holders(a)' = Holders(a) \ {s}
      BY <2>1, <2>2
    <3>2. Cardinality(Holders(a) \ {s}) = Cardinality(Holders(a)) - 1 /\ IsFiniteSet(Holders(a) \ {s})
      BY <2>1, <2>3, <2>4, FS_RemoveElement
    <3> QED
      BY <2>1, <2>4, <3>1, <3>2
  <2>6. owner_count[a] \in Nat \ {0}
    BY <2>1, <2>3, <2>4, FS_EmptySet DEF RegistryTypeOK
  <2>7. RegistryTypeOK'
    BY <2>1, <2>6 DEF RegistryTypeOK
  <2>8. RefCountExact'
    <3> SUFFICES ASSUME NEW b \in listed'
                 PROVE  owner_count'[b] = Cardinality(Holders(b)')
      BY DEF RefCountExact
    <3>1. b \in listed
      BY <2>1
    <3>2. CASE b = a
      BY <2>1, <2>5, <3>2 DEF RegistryTypeOK
    <3>3. CASE b # a
      <4>1. Holders(b)' = Holders(b)
        BY <2>2, <2>3, <3>1, <3>3
      <4> QED
        BY <2>1, <2>4, <3>1, <3>3, <4>1 DEF RegistryTypeOK
    <3> QED
      BY <3>2, <3>3
  <2>9. owner_count[a] = 1 => Holders(a)' = {}
    BY <2>5, <2>6, FS_EmptySet
  <2>10. NoDanglingHandle'
    <3> SUFFICES ASSUME NEW r \in Slot, handle'[r] \in Addr
                 PROVE  handle'[r] \in listed'
      BY DEF NoDanglingHandle
    <3>1. r # s /\ handle'[r] = handle[r] /\ handle[r] \in listed
      BY <2>1, RegistryAssumption DEF RegistryTypeOK, NoDanglingHandle
    <3>2. handle[r] = a => r \in Holders(a)'
      BY <3>1 DEF Holders
    <3> QED
      BY <2>1, <2>9, <3>1, <3>2
  <2>11. OneObjectPerName'
    BY <2>1 DEF OneObjectPerName
  <2>12. NoUseAfterFree'
    <3> SUFFICES ASSUME NEW t \in Thread, via[t] # NoSlot
                 PROVE  handle'[via[t]] \in listed'
      BY <2>1 DEF NoUseAfterFree, EntryOf
    <3>1. via[t] \in Slot /\ via[t] # s
      BY DEF Close, Unused, RegistryTypeOK
    <3>2. handle'[via[t]] = handle[via[t]] /\ handle[via[t]] \in listed
      BY <2>1, <3>1 DEF NoUseAfterFree, EntryOf, RegistryTypeOK
    <3>3. handle[via[t]] = a => via[t] \in Holders(a)'
      BY <3>1, <3>2 DEF Holders
    <3> QED
      BY <2>1, <2>9, <3>2, <3>3
  <2> QED
    BY <2>7, <2>8, <2>10, <2>11, <2>12
<1>2. CASE handle[s] \notin listed
  <2>1. /\ handle' = [handle EXCEPT ![s] = NoHandle]
        /\ UNCHANGED <<owner_count, listed, nameOf, via>>
    BY <1>2 DEF Close
  <2>2. RegistryTypeOK'
    BY <2>1 DEF RegistryTypeOK
  <2>3. RefCountExact'
    <3> SUFFICES ASSUME NEW b \in listed
                 PROVE  Holders(b)' = Holders(b)
      BY <2>1 DEF RefCountExact
    <3>1. b # NoHandle /\ s \notin Holders(b)
      BY <1>2, RegistryAssumption DEF RegistryTypeOK, Holders
    <3>2. Holders(b)' = Holders(b) \ {s}
      BY <2>1, <3>1, HoldersAfterSet
    <3> QED
      BY <3>1, <3>2
  <2>4. NoDanglingHandle'
    BY <2>1, RegistryAssumption DEF NoDanglingHandle, RegistryTypeOK
  <2>5. OneObjectPerName'
    BY <2>1 DEF OneObjectPerName
  <2>6. NoUseAfterFree'
    BY <2>1 DEF NoUseAfterFree, EntryOf, RegistryTypeOK, Close, Unused
  <2> QED
    BY <2>2, <2>3, <2>4, <2>5, <2>6
<1> QED
  BY <1>1, <1>2

LEMMA CallInv ==
  ASSUME RegistryInv, NEW t \in Thread, Return(t) \/ \E s \in Slot : Validate(t, s)
  PROVE  RegistryInv'
<1> USE DEF RegistryInv
<1>1. UNCHANGED <<listed, nameOf, owner_count, handle>>
  BY DEF Return, Validate
<1>2. RegistryTypeOK'
  BY <1>1 DEF RegistryTypeOK, Return, Validate
<1>3. RefCountExact' /\ NoDanglingHandle' /\ OneObjectPerName'
  BY <1>1 DEF RefCountExact, Holders, NoDanglingHandle, OneObjectPerName
<1>4. NoUseAfterFree'
  BY <1>1 DEF NoUseAfterFree, EntryOf, RegistryTypeOK, Return, Validate
<1> QED
  BY <1>2, <1>3, <1>4

(* Every step that a kind of object takes with the registry preserves it. *)
LEMMA RegistryStepInv ==
  ASSUME RegistryInv, [RegistryNext]_registryVars
  PROVE  RegistryInv'
<1>1. CASE RegistryNext
  BY <1>1, OpenExistingInv, OpenFailsInv, OpenNewInv, CloseInv, CallInv DEF RegistryNext
<1>2. CASE UNCHANGED registryVars
  BY <1>2 DEF registryVars, RegistryInv, RegistryTypeOK, RefCountExact, Holders,
              NoDanglingHandle, OneObjectPerName, NoUseAfterFree, EntryOf
<1> QED
  BY <1>1, <1>2
=============================================================================
