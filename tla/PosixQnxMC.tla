------------------------------- MODULE PosixQnxMC -------------------------------
(***************************************************************************)
(* Small instances for TLC, with liveness, of two parts of the system that *)
(* wait: the POSIX backend, and the QNX library with its resource manager. *)
(* The parts share nothing, and each behaviour is one of one part:         *)
(* "scenario" says of which, and of which of the names, entries, timeouts  *)
(* and so on, and how high a value may go.                                 *)
(***************************************************************************)
EXTENDS PosixIpc, QnxServer, TLC

VARIABLE scenario

AskedMC == [n \in Name |-> IF n \in SemName THEN {1} ELSE {0, 1}]

Posix(names, limits, top) == [part |-> "posix", names |-> names, limits |-> limits, top |-> top]

(* "up": whether the manager neither ends nor runs out of memory. *)
Qnx(names, entries, limits, up) ==
  [part |-> "qnx", names |-> names, entries |-> entries, limits |-> limits, up |-> up]

AnEntry == CHOOSE a \in Entry : TRUE

Scenarios ==
  {Posix({n}, Limit, MaxValue) : n \in MutexName \cup EventName}
  \cup {Posix(SemName, {0, 50}, 1),
        Qnx(MutexName, Entry, Limit, TRUE), Qnx(MutexName, Entry, {}, FALSE),
        Qnx(EventName, Entry, Limit, FALSE), Qnx(ShmName, Entry, {}, FALSE),
        Qnx(SemName, {AnEntry}, Limit, TRUE), Qnx(SemName, Entry, {}, FALSE)}

Init ==
  /\ scenario \in Scenarios
  /\ PosixInit /\ QnxInit

PosixPart ==
  /\ scenario.part = "posix"
  /\ PosixNext
  /\ \A n \in Name : bound'[n] # NoObj => n \in scenario.names
  /\ \A t \in Thread : plimit'[t] \in scenario.limits
  /\ \A o \in Obj : value'[o] <= scenario.top
  /\ UNCHANGED qnxVars

QnxPart ==
  /\ scenario.part = "qnx"
  /\ QnxNext
  /\ \A t \in Thread :
       LET r == request'[t] IN
       r # NoRequest => /\ r.name \in scenario.names
                        /\ r.op = "lock" => r.limit \in scenario.limits
  /\ allocated' \subseteq scenario.entries
  /\ scenario.up => server' \in {"up", "stuck"}
  /\ UNCHANGED posixVars

Next ==
  /\ PosixPart \/ QnxPart
  /\ UNCHANGED scenario

vars == <<scenario, posixVars, qnxVars>>

Spec ==
  /\ Init /\ [][Next]_vars
  /\ PosixFairness /\ QnxFairness
=============================================================================
