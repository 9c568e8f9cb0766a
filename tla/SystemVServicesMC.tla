---------------------------- MODULE SystemVServicesMC ----------------------------
(***************************************************************************)
(* Small instances of the safety of seven parts of the system for TLC: the *)
(* System V backend, shared memory of the three backends without a driver, *)
(* INI files, interlocked operations, threads, and the driver as a module. *)
(* The parts share nothing, and each behaviour is one of one part:         *)
(* "scenario" says of which, and of which of the names, inodes, sets, kinds *)
(* of objects, kernels, systems and timeouts, of how many clients of the   *)
(* module at once, and how high the gate of a thread may go.               *)
(***************************************************************************)
EXTENDS SystemVIpc, SystemVShm, PosixShm, IpcProfile, Interlocked, IpcThread, IpcModule, TLC

VARIABLE scenario

AskedMC == [n \in Name |-> IF n \in EventName THEN {0, 1} ELSE {1}]

LowerMC == [w \in Word |-> CASE w = "A" -> "a" [] w = "K" -> "k" [] OTHER -> w]
(* The value 2 is a blank and "kk": the line "k= kk" is taken for kk.       *)
LooksLikeMC ==
  {p \in KeyWord \X Value \X KeyWord : LowerMC[p[1]] = LowerMC[p[3]]} \cup {<<"k", 2, "kk">>, <<"K", 2, "kk">>}
StartsWithMC == {p \in Word \X Word : LowerMC[p[1]] = LowerMC[p[2]]} \cup {<<"kk", "k">>, <<"kk", "K">>}

(* Sections that come up twice, in two spellings, and options that begin   *)
(* like another or are spelled in two ways.                                *)
Section(n) == [kind |-> "section", name |-> n]
Option(n) == [kind |-> "option", name |-> n, value |-> 1]
FileMC ==
  {<<>>} \cup {<<Section("a"), x, Option(k)>> :
                 x \in {Section("A"), Section("b"), Option("K")}, k \in {"k", "kk"}}

SystemV(names, inodes, ids) == [part |-> "systemv", names |-> names, inodes |-> inodes, ids |-> ids]
Module(kind, clients, old) == [part |-> "module", kind |-> kind, clients |-> clients, old |-> old]
Threads(os, tids, limits, top) ==
  [part |-> "thread", os |-> os, tids |-> tids, limits |-> limits, top |-> top]
Other(part) == [part |-> part]

JoinLimitMC == {-1, 0, 5}

Scenarios ==
  {SystemV({"m1"}, {11}, {1, 2}), SystemV({"m1"}, Inode, {0, 1}), SystemV(MutexName, Inode, {1}),
   SystemV(SemName, {11}, {1}), SystemV(EventName, {11}, {1}),
   Module("sem", 1, TRUE),
   Threads("linux", Tid, {-1}, 1), Threads("driver", Tid, {-1}, 1),
   Threads("linux", {1}, {-1, 5}, 1), Threads("qnx", {1}, JoinLimit, MaxGate)}
  \cup {Module(k, 2, FALSE) : k \in ObjKind}
  \cup {Other(p) : p \in {"systemv_shm", "posix_shm", "profile", "interlocked"}}

Init ==
  /\ scenario \in Scenarios
  /\ SystemVInit /\ SystemVShmInit /\ PosixShmInit /\ ProfileInit /\ InterlockedInit /\ ModuleInit
  /\ ThreadInit
  /\ scenario.part # "posix_shm" => ~qnx
  /\ scenario.part # "profile" => file = <<>>
  /\ scenario.part # "interlocked" => ~isLock
  /\ system = IF scenario.part = "thread" THEN scenario.os ELSE "linux"
  /\ old_kernel = (scenario.part = "module" /\ scenario.old)

SystemVPart ==
  /\ scenario.part = "systemv"
  /\ SystemVNext
  /\ \A n \in Name : keyfile'[n] # NoInode => n \in scenario.names /\ keyfile'[n] \in scenario.inodes
  /\ sets' \subseteq scenario.ids
  /\ UNCHANGED <<systemVShmVars, shmVars, profileVars, interlockedVars, threadVars, moduleVars>>

SystemVShmPart ==
  /\ scenario.part = "systemv_shm"
  /\ SystemVShmNext
  /\ UNCHANGED <<systemVVars, shmVars, profileVars, interlockedVars, threadVars, moduleVars>>

PosixShmPart ==
  /\ scenario.part = "posix_shm"
  /\ PosixShmNext
  /\ UNCHANGED <<systemVVars, systemVShmVars, profileVars, interlockedVars, threadVars, moduleVars>>

ProfilePart ==
  /\ scenario.part = "profile"
  /\ ProfileNext
  /\ UNCHANGED <<systemVVars, systemVShmVars, shmVars, interlockedVars, threadVars, moduleVars>>

InterlockedPart ==
  /\ scenario.part = "interlocked"
  /\ InterlockedNext
  /\ UNCHANGED <<systemVVars, systemVShmVars, shmVars, profileVars, threadVars, moduleVars>>

ThreadPart ==
  /\ scenario.part = "thread"
  /\ ThreadNext
  /\ \A c \in Caller : climit'[c] \in scenario.limits
  /\ \A i \in Tid : tstate'[i] # "free" => i \in scenario.tids
  /\ \A g \in Gate : gate'[g] <= scenario.top
  /\ UNCHANGED <<systemVVars, systemVShmVars, shmVars, profileVars, interlockedVars, moduleVars>>

ModulePart ==
  /\ scenario.part = "module"
  /\ ModuleNext
  /\ objs' \subseteq {scenario.kind}
  /\ Cardinality({c \in Client : c \in opened' \/ reader'[c] > 0}) <= scenario.clients
  /\ UNCHANGED <<systemVVars, systemVShmVars, shmVars, profileVars, interlockedVars, threadVars>>

Next ==
  /\ \/ SystemVPart \/ SystemVShmPart \/ PosixShmPart \/ ProfilePart \/ InterlockedPart
     \/ ThreadPart \/ ModulePart
  /\ UNCHANGED scenario

vars ==
  <<scenario, systemVVars, systemVShmVars, shmVars, profileVars, interlockedVars, threadVars, moduleVars>>

Spec == Init /\ [][Next]_vars

Symmetry == Permutations(Thread)
=============================================================================
