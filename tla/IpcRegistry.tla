------------------------------ MODULE IpcRegistry ------------------------------
(***************************************************************************)
(* What the four object files of linux/ipcdrv (ipcmutex.c, ipcsem.c,       *)
(* ipcevent.c, ipcshm.c) have in common: one list of named, reference      *)
(* counted objects per kind, guarded by one list mutex, and the handles    *)
(* that the driver gave out to its clients.                                *)
(*                                                                         *)
(* Every operation here runs with the list mutex held from its first read  *)
(* of the list to its last write, so it is one step.  What the object of a *)
(* kind holds besides its name and its reference count, and the steps that *)
(* the driver takes outside the list mutex, are added by IpcMutex, IpcSem  *)
(* and IpcEvent, which extend this module.                                 *)
(***************************************************************************)
EXTENDS Integers, FiniteSets

CONSTANTS
  Thread,      (* threads of the client processes                            *)
  Slot,        (* variables of the clients that hold a handle                *)
  Addr,        (* addresses that kzalloc can return                          *)
  Name,        (* object names                                               *)
  NoHandle,    (* the NULL handle                                            *)
  NullEntry,   (* the address of the handle field of the entry at NULL       *)
  NoSlot,      (* a thread that is in no call                                *)
  AllocFails   (* whether kzalloc may fail                                   *)

ASSUME RegistryAssumption ==
  /\ IsFiniteSet(Slot)
  /\ NoHandle \notin Addr
  /\ NullEntry \notin Addr
  /\ NoHandle # NullEntry
  /\ NoSlot \notin Slot
  /\ AllocFails \in BOOLEAN

VARIABLES
  listed,      (* the objects on the list: allocated and not yet freed       *)
  nameOf,      (* X_name of the object at an address                         *)
  owner_count, (* X_owner_count of the object at an address                  *)
  handle,      (* the handle each slot holds                                 *)
  via          (* the slot whose handle a thread passed to the running ioctl *)

registryVars == <<listed, nameOf, owner_count, handle, via>>

RegistryTypeOK ==
  /\ listed \subseteq Addr
  /\ nameOf \in [Addr -> Name]
  /\ owner_count \in [Addr -> Nat]
  /\ handle \in [Slot -> Addr \cup {NoHandle, NullEntry}]
  /\ via \in [Thread -> Slot \cup {NoSlot}]

RegistryInit ==
  /\ listed = {}
  /\ nameOf \in [Addr -> Name]
  /\ owner_count = [a \in Addr |-> 0]
  /\ handle = [s \in Slot |-> NoHandle]
  /\ via = [t \in Thread |-> NoSlot]

-----------------------------------------------------------------------------
(* The search that every create starts with. *)
Named(n) == {a \in listed : nameOf[a] = n}

(* The slots that hold a reference to the object at a. *)
Holders(a) == {s \in Slot : handle[s] = a}

(* The entry that the running call of t works on. *)
EntryOf(t) == handle[via[t]]

(* The clients' side of the contract: a handle is not closed by one thread *)
(* while another is inside a call that uses it.  The driver has no defence *)
(* of its own: it keeps no reference for a call that has left the list     *)
(* mutex.                                                                  *)
Unused(s) == \A t \in Thread : via[t] # s

-----------------------------------------------------------------------------
(* Mutant: the reference of a second opener is not counted. *)
OpenExisting_Uncounted(s, n) ==
  \E a \in Named(n) :
    /\ handle[s] = NoHandle
    /\ handle' = [handle EXCEPT ![s] = a]
    /\ UNCHANGED <<listed, nameOf, owner_count, via>>

(* A create that finds the name: one more reference to the same object. *)
OpenExisting(s, n) ==
  \E a \in Named(n) :
    /\ handle[s] = NoHandle
    /\ owner_count' = [owner_count EXCEPT ![a] = @ + 1]
    /\ handle' = [handle EXCEPT ![s] = a]
    /\ UNCHANGED <<listed, nameOf, via>>

(* Mutant: the list is not searched before the insertion. *)
OpenNew_Unsearched(s, n, a) ==
  /\ handle[s] = NoHandle
  /\ a \notin listed
  /\ listed' = listed \cup {a}
  /\ nameOf' = [nameOf EXCEPT ![a] = n]
  /\ owner_count' = [owner_count EXCEPT ![a] = 1]
  /\ handle' = [handle EXCEPT ![s] = a]
  /\ UNCHANGED via

(* A create that does not: a fresh entry goes on the list. *)
OpenNew(s, n, a) ==
  /\ handle[s] = NoHandle
  /\ Named(n) = {}
  /\ a \notin listed
  /\ listed' = listed \cup {a}
  /\ nameOf' = [nameOf EXCEPT ![a] = n]
  /\ owner_count' = [owner_count EXCEPT ![a] = 1]
  /\ handle' = [handle EXCEPT ![s] = a]
  /\ UNCHANGED via

(* kzalloc fails: "goto do_out" still returns the address of the handle    *)
(* field, now of an entry at NULL, and the ioctl reports success.          *)
OpenFails(s, n) ==
  /\ AllocFails
  /\ handle[s] = NoHandle
  /\ Named(n) = {}
  /\ handle' = [handle EXCEPT ![s] = NullEntry]
  /\ UNCHANGED <<listed, nameOf, owner_count, via>>

(* Mutants: one reference too early; one decrement too many. *)
Close_Early(s) ==
  /\ handle[s] # NoHandle
  /\ Unused(s)
  /\ handle' = [handle EXCEPT ![s] = NoHandle]
  /\ IF handle[s] \in listed
     THEN LET a == handle[s] IN
          /\ owner_count' = [owner_count EXCEPT ![a] = @ - 1]
          /\ listed' = IF owner_count[a] <= 2 THEN listed \ {a} ELSE listed
     ELSE UNCHANGED <<owner_count, listed>>
  /\ UNCHANGED <<nameOf, via>>

Close_Twice(s) ==
  /\ handle[s] \in listed
  /\ Unused(s)
  /\ handle' = [handle EXCEPT ![s] = NoHandle]
  /\ owner_count' = [owner_count EXCEPT ![handle[s]] = @ - 2]
  /\ UNCHANGED <<listed, nameOf, via>>

(* A close drops one reference and frees the entry with the last one; the  *)
(* entry at NULL is refused with -EINVAL.  The client forgets the handle.  *)
Close(s) ==
  /\ handle[s] # NoHandle
  /\ Unused(s)
  /\ handle' = [handle EXCEPT ![s] = NoHandle]
  /\ IF handle[s] \in listed
     THEN LET a == handle[s] IN
          /\ owner_count' = [owner_count EXCEPT ![a] = @ - 1]
          /\ listed' = IF owner_count[a] = 1 THEN listed \ {a} ELSE listed
     ELSE UNCHANGED <<owner_count, listed>>
  /\ UNCHANGED <<nameOf, via>>

(* The start of a lock, unlock or reset: the magic number of the entry is  *)
(* checked under the list mutex.  A live entry passes.                     *)
Validate(t, s) ==
  /\ via[t] = NoSlot
  /\ handle[s] \in listed
  /\ via' = [via EXCEPT ![t] = s]
  /\ UNCHANGED <<listed, nameOf, owner_count, handle>>

(* The call of t returns to user space. *)
Return(t) ==
  /\ via' = [via EXCEPT ![t] = NoSlot]
  /\ UNCHANGED <<listed, nameOf, owner_count, handle>>

-----------------------------------------------------------------------------
(* A name stands for one object: two opens of one name that are both still *)
(* open reach the same entry (strcmp search and insertion in one critical  *)
(* section of create).                                                     *)
OneObjectPerName ==
  \A a, b \in listed : nameOf[a] = nameOf[b] => a = b

(* The reference count of a live object is the number of handles that the  *)
(* clients still hold (atomic_inc in create, atomic_dec_and_test in close).*)
RefCountExact ==
  \A a \in listed : owner_count[a] = Cardinality(Holders(a))

(* No client holds a handle of a freed entry: close frees only with the    *)
(* last reference.                                                         *)
NoDanglingHandle ==
  \A s \in Slot : handle[s] \in Addr => handle[s] \in listed

(* A call that has passed its check and left the list mutex keeps working  *)
(* on an entry that nobody frees under it.                                 *)
NoUseAfterFree ==
  \A t \in Thread : via[t] # NoSlot => EntryOf(t) \in listed
=============================================================================
