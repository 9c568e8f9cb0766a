----------------------------- MODULE AutoResetEvent -----------------------------
(***************************************************************************)
(* What an event of the library promises: it has two states, a set that    *)
(* was called takes effect once before it returns, and a signalled event   *)
(* lets exactly one wait through and is not signalled any more.            *)
(***************************************************************************)
CONSTANTS
  Thread,     (* the callers                      *)
  Obj         (* the identities of the events     *)

VARIABLES
  live,       (* the events that exist                                    *)
  signalled,  (* the state of each event                                  *)
  setting,    (* <<t, o>>: t has called set on o and it has not acted yet *)
  woken       (* <<t, o>>: the last wait of t on o was let through        *)

eventVars == <<live, signalled, setting, woken>>

Init ==
  /\ live = {}
  /\ signalled \in [Obj -> BOOLEAN]
  /\ setting = {}
  /\ woken = {}

Create(o) ==
  /\ o \notin live
  /\ live' = live \cup {o}
  /\ \E state \in BOOLEAN : signalled' = [signalled EXCEPT ![o] = state]
  /\ woken' = woken \ (Thread \X {o})
  /\ UNCHANGED setting

Destroy(o) ==
  /\ o \in live
  /\ \A t \in Thread : <<t, o>> \notin setting
  /\ live' = live \ {o}
  /\ UNCHANGED <<signalled, setting, woken>>

CallSet(t, o) ==
  /\ o \in live
  /\ <<t, o>> \notin setting
  /\ setting' = setting \cup {<<t, o>>}
  /\ UNCHANGED <<live, signalled, woken>>

Set(t, o) ==
  /\ <<t, o>> \in setting
  /\ signalled' = [signalled EXCEPT ![o] = TRUE]
  /\ setting' = setting \ {<<t, o>>}
  /\ UNCHANGED <<live, woken>>

CallWait(t, o) ==
  /\ o \in live
  /\ woken' = woken \ {<<t, o>>}
  /\ UNCHANGED <<live, signalled, setting>>

Wake(t, o) ==
  /\ o \in live
  /\ signalled[o]
  /\ <<t, o>> \notin woken
  /\ signalled' = [signalled EXCEPT ![o] = FALSE]
  /\ woken' = woken \cup {<<t, o>>}
  /\ UNCHANGED <<live, setting>>

Next ==
  \E o \in Obj :
    \/ Create(o) \/ Destroy(o)
    \/ \E t \in Thread : CallSet(t, o) \/ Set(t, o) \/ CallWait(t, o) \/ Wake(t, o)

Spec == Init /\ [][Next]_eventVars
=============================================================================
