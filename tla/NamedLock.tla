------------------------------- MODULE NamedLock -------------------------------
(***************************************************************************)
(* What a mutex of the library promises, without the driver: every object  *)
(* that exists has at most one holder, only a free object is acquired, and *)
(* only its holder gives it back.  An object may be created already held   *)
(* and may be destroyed at any time.                                       *)
(***************************************************************************)
CONSTANTS
  Thread,   (* who can hold a lock                *)
  Obj,      (* the identities of the lock objects *)
  NoOwner   (* nobody                             *)

VARIABLES
  live,     (* the lock objects that exist  *)
  holder    (* who holds each of them       *)

lockVars == <<live, holder>>

Init ==
  /\ live = {}
  /\ holder \in [Obj -> Thread \cup {NoOwner}]

Create(o, h) ==
  /\ o \notin live
  /\ live' = live \cup {o}
  /\ holder' = [holder EXCEPT ![o] = h]

Destroy(o) ==
  /\ o \in live
  /\ live' = live \ {o}
  /\ UNCHANGED holder

Acquire(t, o) ==
  /\ o \in live
  /\ holder[o] = NoOwner
  /\ holder' = [holder EXCEPT ![o] = t]
  /\ UNCHANGED live

Release(t, o) ==
  /\ o \in live
  /\ holder[o] = t
  /\ holder' = [holder EXCEPT ![o] = NoOwner]
  /\ UNCHANGED live

Next ==
  \E o \in Obj :
    \/ \E h \in Thread \cup {NoOwner} : Create(o, h)
    \/ Destroy(o)
    \/ \E t \in Thread : Acquire(t, o) \/ Release(t, o)

Spec == Init /\ [][Next]_lockVars
=============================================================================
