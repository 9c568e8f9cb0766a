------------------------------ MODULE Interlocked ------------------------------
(***************************************************************************)
(* IPC_interlockedIncrement, -Decrement, -Exchange, -ExchangeAdd and       *)
(* -CompareExchange of linux/libsrc/sysipc.cpp; qnx/sysipc.cpp has the     *)
(* same.  Each reads a volatile long and writes it, in steps of its own.   *)
(*                                                                         *)
(* Clients use a long either as a counter or as a lock, which is taken by  *)
(* a compare-exchange of 0 with 1 that returns 0, and given back by an     *)
(* exchange with 0.                                                        *)
(***************************************************************************)
EXTENDS Integers, FiniteSets

CONSTANTS
  User,          (* threads that call the functions                           *)
  Operand,       (* values that they add to a counter, or store in it         *)
  MaxLong        (* bound of the model: the values of a counter               *)

ASSUME InterlockedAssumption ==
  /\ MaxLong \in Nat
  /\ Operand \subseteq 0 .. MaxLong

VARIABLES
  isLock,        (* what the long is used for                                 *)
  word,          (* the long                                                  *)
  istep,         (* the next step of each thread                              *)
  tmp,           (* what its call read                                        *)
  arg,           (* the value that it stores or adds                          *)
  exact,         (* history: the counter had each call been one step          *)
  stale_tmp,     (* history: calls since whose read another one wrote         *)
  spoilt,        (* history: such a call has written since the last exchange  *)
  owning,        (* history: threads that were told that they have the lock   *)
  doubted        (* history: one of them was told so by such a call           *)

interlockedVars == <<isLock, word, istep, tmp, arg, exact, stale_tmp, spoilt, owning, doubted>>

InterlockedTypeOK ==
  /\ isLock \in BOOLEAN
  /\ word \in -MaxLong .. MaxLong
  /\ istep \in [User -> {"idle", "store", "again", "add", "compare", "swap"}]
  /\ tmp \in [User -> -MaxLong .. MaxLong]
  /\ arg \in [User -> Operand \cup {-1, 0, 1}]
  /\ exact \in -MaxLong .. MaxLong
  /\ stale_tmp \subseteq User
  /\ owning \subseteq User
  /\ {spoilt, doubted} \subseteq BOOLEAN

InterlockedInit ==
  /\ isLock \in BOOLEAN
  /\ word = 0
  /\ istep = [u \in User |-> "idle"]
  /\ tmp = [u \in User |-> 0]
  /\ arg = [u \in User |-> 0]
  /\ exact = 0
  /\ stale_tmp = {}
  /\ spoilt = FALSE
  /\ owning = {}
  /\ doubted = FALSE

-----------------------------------------------------------------------------
(* The read at the start of each call. *)
Fetch(u, next, a) ==
  /\ istep[u] = "idle"
  /\ istep' = [istep EXCEPT ![u] = next]
  /\ tmp' = [tmp EXCEPT ![u] = word]
  /\ arg' = [arg EXCEPT ![u] = a]
  /\ UNCHANGED <<isLock, word, exact, stale_tmp, spoilt, owning, doubted>>

IPC_interlockedIncrement(u) == ~isLock /\ Fetch(u, "add", 1)
IPC_interlockedDecrement(u) == ~isLock /\ Fetch(u, "add", -1)
IPC_interlockedExchangeAdd(u, v) == ~isLock /\ Fetch(u, "again", v)

(* Who gives back a lock has it. *)
IPC_interlockedExchange(u, v) ==
  /\ isLock => v = 0 /\ u \in owning
  /\ Fetch(u, "store", v)

IPC_interlockedCompareExchange(u) ==
  /\ isLock
  /\ u \notin owning
  /\ Fetch(u, "compare", 1)

(* The write at its end. *)
StoreWord(u, v) ==
  /\ v \in -MaxLong .. MaxLong
  /\ word' = v
  /\ istep' = [istep EXCEPT ![u] = "idle"]
  /\ stale_tmp' = (stale_tmp \cup {x \in User : istep[x] # "idle"}) \ {u}
  /\ UNCHANGED <<isLock, tmp, arg>>

(* An exchange-add returns what it read and adds to what it reads now. *)
FetchAgain(u) ==
  /\ istep[u] = "again"
  /\ istep' = [istep EXCEPT ![u] = "add"]
  /\ tmp' = [tmp EXCEPT ![u] = word]
  /\ stale_tmp' = stale_tmp \ {u}
  /\ UNCHANGED <<isLock, word, arg, exact, spoilt, owning, doubted>>

Add(u) ==
  /\ istep[u] = "add"
  /\ StoreWord(u, tmp[u] + arg[u])
  /\ exact' = exact + arg[u]
  /\ exact' \in -MaxLong .. MaxLong
  /\ spoilt' = (spoilt \/ u \in stale_tmp)
  /\ UNCHANGED <<owning, doubted>>

(* An exchange puts the counter right again, and gives back a lock. *)
Store(u) ==
  /\ istep[u] = "store"
  /\ StoreWord(u, arg[u])
  /\ exact' = arg[u]
  /\ spoilt' = FALSE
  /\ owning' = owning \ {u}
  /\ doubted' = (doubted /\ owning \ {u} # {})

(* The second read of a compare-exchange, which it compares; what it       *)
(* returns is the first.                                                   *)
Told(u) ==
  /\ owning' = IF tmp[u] = 0 THEN owning \cup {u} ELSE owning
  /\ doubted' = (doubted \/ (tmp[u] = 0 /\ u \in stale_tmp))

Compare(u) ==
  /\ istep[u] = "compare"
  /\ IF word = 0
     THEN /\ istep' = [istep EXCEPT ![u] = "swap"]
          /\ UNCHANGED <<stale_tmp, owning, doubted>>
     ELSE /\ istep' = [istep EXCEPT ![u] = "idle"]
          /\ stale_tmp' = stale_tmp \ {u}
          /\ Told(u)
  /\ UNCHANGED <<isLock, word, tmp, arg, exact, spoilt>>

(* Mutant: nothing is compared, and the new value is returned as success. *)
Swap_Blind(u) ==
  /\ istep[u] \in {"compare", "swap"}
  /\ StoreWord(u, arg[u])
  /\ owning' = owning \cup {u}
  /\ doubted' = (doubted \/ (tmp[u] = 0 /\ u \in stale_tmp))
  /\ UNCHANGED <<exact, spoilt>>

Swap(u) ==
  /\ istep[u] = "swap"
  /\ StoreWord(u, arg[u])
  /\ Told(u)
  /\ UNCHANGED <<exact, spoilt>>

-----------------------------------------------------------------------------
InterlockedNext ==
  \E u \in User :
    \/ IPC_interlockedIncrement(u) \/ IPC_interlockedDecrement(u)
    \/ \E v \in Operand : IPC_interlockedExchangeAdd(u, v) \/ IPC_interlockedExchange(u, v)
    \/ IPC_interlockedCompareExchange(u)
    \/ FetchAgain(u) \/ Add(u) \/ Store(u) \/ Compare(u) \/ Swap(u)

InterlockedSpec == InterlockedInit /\ [][InterlockedNext]_interlockedVars

-----------------------------------------------------------------------------
(* A counter is wrong only after a call during which another one wrote,    *)
(* and only until the next exchange: calls that overlap in any other way   *)
(* lose nothing.                                                           *)
CounterWrongOnlyByOverlap == (~isLock /\ ~spoilt) => word = exact

(* Two threads have the lock only if one of them was told so by a          *)
(* compare-exchange during which another call wrote.                       *)
LockSharedOnlyByOverlap == ~doubted => Cardinality(owning) <= 1

(* Counters and locks made of the interlocked operations.                  *)
InterlockedSound == InterlockedTypeOK /\ CounterWrongOnlyByOverlap /\ LockSharedOnlyByOverlap
=============================================================================
