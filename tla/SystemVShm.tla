------------------------------- MODULE SystemVShm -------------------------------
(***************************************************************************)
(* Shared memory on System V segments: linux/libsrc/systemv/shmipc.cpp,    *)
(* with the key files of SystemVIpc.                                       *)
(*                                                                         *)
(* A delete asks how many processes have the segment attached, and if none *)
(* has, removes it in a second system call and the key file in a third;    *)
(* who has a handle and no mapping at that moment does not count.          *)
(*                                                                         *)
(* A thread stands for a process with one handle for each name.            *)
(***************************************************************************)
EXTENDS Library

CONSTANTS
  ShmId,         (* identifiers of segments; none is used twice               *)
  NoShmId,       (* the process has no handle of the name                     *)
  ShmInode,      (* inode numbers of key files                                *)
  NoFile         (* the name has no key file                                  *)

ASSUME SystemVShmAssumption ==
  /\ NoShmId \notin ShmId
  /\ NoFile \notin ShmInode

VARIABLES
  shm_file,      (* the inode of the key file of each name                    *)
  segments,      (* the segments that a key stands for                        *)
  shm_key,       (* the key of each segment                                   *)
  shmid,         (* ipc_descr.ipc_shm of the handle of a process for a name   *)
  h_key,         (* ipc_key of that handle                                    *)
  attached,      (* handles that are mapped                                   *)
  xstep,         (* the next step of each process                             *)
  xname,         (* the name its call works on                                *)
  opens,         (* its create is an open: it makes no segment                *)
  no_file,       (* history: handles whose key file is not the name's any more*)
  tardy          (* history: maps after a delete had seen nobody attached     *)

segVars == <<segments, shm_key>>
shmidVars == <<shmid, h_key, attached>>
xCall == <<xname, opens>>
xHistory == <<no_file, tardy>>
systemVShmVars == <<shm_file, segVars, shmidVars, xstep, xCall, xHistory>>

XHandle == Thread \X ShmName

SystemVShmTypeOK ==
  /\ shm_file \in [ShmName -> ShmInode \cup {NoFile}]
  /\ segments \subseteq ShmId
  /\ shm_key \in [ShmId -> ShmInode \cup {NoFile}]
  /\ shmid \in [XHandle -> ShmId \cup {NoShmId}]
  /\ h_key \in [XHandle -> ShmInode \cup {NoFile}]
  /\ attached \subseteq XHandle
  /\ xstep \in [Thread -> {"idle", "ftok", "make", "find", "stat", "rmid", "unlink"}]
  /\ xname \in [Thread -> ShmName]
  /\ opens \in [Thread -> BOOLEAN]
  /\ no_file \subseteq XHandle
  /\ tardy \subseteq XHandle

SystemVShmInit ==
  /\ shm_file = [n \in ShmName |-> NoFile]
  /\ segments = {}
  /\ shm_key = [i \in ShmId |-> NoFile]
  /\ shmid = [h \in XHandle |-> NoShmId]
  /\ h_key = [h \in XHandle |-> NoFile]
  /\ attached = {}
  /\ xstep = [t \in Thread |-> "idle"]
  /\ xname = [t \in Thread |-> CHOOSE n \in ShmName : TRUE]
  /\ opens = [t \in Thread |-> FALSE]
  /\ no_file = {}
  /\ tardy = {}

-----------------------------------------------------------------------------
XGoto(t, from, to) ==
  /\ xstep[t] = from
  /\ xstep' = [xstep EXCEPT ![t] = to]

XH(t) == <<t, xname[t]>>

(* The process has no handle any more. *)
Without(hs) ==
  /\ shmid' = [h \in XHandle |-> IF h \in hs THEN NoShmId ELSE shmid[h]]
  /\ h_key' = [h \in XHandle |-> IF h \in hs THEN NoFile ELSE h_key[h]]
  /\ attached' = attached \ hs
  /\ tardy' = tardy \ hs

(* The three creates begin with allocate_ipc_object: the key file is made  *)
(* or is there, in an open too.                                            *)
MakeKeyFile(t, n, o) ==
  /\ XGoto(t, "idle", "ftok")
  /\ shmid[<<t, n>>] = NoShmId
  /\ IF shm_file[n] = NoFile
     THEN \E k \in ShmInode :
            /\ \A x \in ShmName : shm_file[x] # k
            /\ shm_file' = [shm_file EXCEPT ![n] = k]
     ELSE UNCHANGED shm_file
  /\ xname' = [xname EXCEPT ![t] = n]
  /\ opens' = [opens EXCEPT ![t] = o]
  /\ UNCHANGED <<segVars, shmidVars, xHistory>>

IPC_createSharedMemory_sv(t, n) == MakeKeyFile(t, n, FALSE)
IPC_createSharedMemoryEx_sv(t, n) == MakeKeyFile(t, n, FALSE)
IPC_openSharedMemory_sv(t, n) == MakeKeyFile(t, n, TRUE)

(* get_ipc_key.  If the file has gone since, the create fails and unlinks  *)
(* the one that another create may have made in the meantime.              *)
KeyOfFile(t) ==
  LET k == shm_file[xname[t]] IN
  /\ XGoto(t, "ftok", CASE k = NoFile -> "unlink" [] k # NoFile /\ opens[t] -> "find" [] OTHER -> "make")
  /\ h_key' = [h_key EXCEPT ![XH(t)] = k]
  /\ UNCHANGED <<shm_file, segVars, shmid, attached, xCall, xHistory>>

OfKey(k) == {i \in segments : shm_key[i] = k}

(* shmget with IPC_EXCL. *)
ShmMake(t) ==
  LET k == h_key[XH(t)] IN
  /\ XGoto(t, "make", IF OfKey(k) = {} THEN "idle" ELSE "find")
  /\ IF OfKey(k) = {}
     THEN \E i \in ShmId :
            /\ shm_key[i] = NoFile
            /\ segments' = segments \cup {i}
            /\ shm_key' = [shm_key EXCEPT ![i] = k]
            /\ shmid' = [shmid EXCEPT ![XH(t)] = i]
     ELSE UNCHANGED <<segVars, shmid>>
  /\ UNCHANGED <<shm_file, h_key, attached, xCall, xHistory>>

(* shmget of a segment that was there; a failure leaves the key file.  A   *)
(* segment without a key is found by nobody.                               *)
ShmFind(t) ==
  LET found == OfKey(h_key[XH(t)]) IN
  /\ XGoto(t, "find", "idle")
  /\ IF found = {}
     THEN Without({XH(t)}) /\ no_file' = no_file \ {XH(t)}
     ELSE /\ \E i \in found : shmid' = [shmid EXCEPT ![XH(t)] = i]
          /\ UNCHANGED <<h_key, attached, tardy, no_file>>
  /\ UNCHANGED <<shm_file, segVars, xCall>>

-----------------------------------------------------------------------------
Holds(t, n) == xstep[t] = "idle" /\ shmid[<<t, n>>] # NoShmId

Unattached(i) == \A h \in attached : shmid[h] # i

(* A segment that was removed is there as long as it is attached.          *)
Exists(i) == i \in segments \/ ~Unattached(i)

(* shmat. *)
IPC_mapSharedMemory_sv(t, n) ==
  LET i == shmid[<<t, n>>] IN
  /\ Holds(t, n)
  /\ Exists(i)
  /\ attached' = attached \cup {<<t, n>>}
  /\ tardy' = IF i \notin segments \/ \E u \in Thread : xstep[u] = "rmid" /\ shmid[XH(u)] = i
              THEN tardy \cup {<<t, n>>} ELSE tardy
  /\ UNCHANGED <<shm_file, segVars, shmid, h_key, xstep, xCall, no_file>>

IPC_unmapSharedMemory_sv(t, n) ==
  /\ Holds(t, n)
  /\ <<t, n>> \in attached
  /\ attached' = attached \ {<<t, n>>}
  /\ tardy' = tardy \ {<<t, n>>}
  /\ UNCHANGED <<shm_file, segVars, shmid, h_key, xstep, xCall, no_file>>

(* A delete unmaps first.  If others have the segment attached it ends     *)
(* there, with success, and keeps the handle.                              *)
IPC_deleteSharedMemory_sv(t, n) ==
  /\ Holds(t, n)
  /\ xstep' = [xstep EXCEPT ![t] = "stat"]
  /\ xname' = [xname EXCEPT ![t] = n]
  /\ attached' = attached \ {<<t, n>>}
  /\ tardy' = tardy \ {<<t, n>>}
  /\ UNCHANGED <<shm_file, segVars, shmid, h_key, opens, no_file>>

(* Mutant: one process may have the segment attached: it is taken for the  *)
(* caller.                                                                 *)
ShmStat_One(t) ==
  LET i == shmid[XH(t)]
      free == i \in segments /\ Cardinality({h \in attached : shmid[h] = i}) <= 1
  IN
  /\ XGoto(t, "stat", IF free THEN "rmid" ELSE "idle")
  /\ UNCHANGED <<shm_file, segVars, shmidVars, xCall, xHistory>>

ShmStat(t) ==
  LET i == shmid[XH(t)] IN
  /\ XGoto(t, "stat", IF i \in segments /\ Unattached(i) THEN "rmid" ELSE "idle")
  /\ UNCHANGED <<shm_file, segVars, shmidVars, xCall, xHistory>>

(* IPC_RMID: nobody finds the segment any more, and it goes with its last  *)
(* mapping; until then it may be removed again.  If it has gone, the       *)
(* delete fails and keeps the handle.                                      *)
ShmRmId(t) ==
  LET i == shmid[XH(t)] IN
  /\ XGoto(t, "rmid", IF Exists(i) THEN "unlink" ELSE "idle")
  /\ segments' = segments \ {i}
  /\ UNCHANGED <<shm_file, shm_key, shmidVars, xCall, xHistory>>

(* delete_ipc_object, and the end of a create without a key: the key file  *)
(* and the handle.                                                         *)
ShmUnlink(t) ==
  LET n == xname[t] IN
  /\ XGoto(t, "unlink", "idle")
  /\ shm_file' = [shm_file EXCEPT ![n] = NoFile]
  /\ no_file' = (no_file \cup {h \in Thread \X {n} : h_key[h] # NoFile}) \ {XH(t)}
  /\ Without({XH(t)})
  /\ UNCHANGED <<segVars, xCall>>

(* A process ends: its mappings and handles go, nothing else. *)
ShmDie(t) ==
  /\ Without({t} \X ShmName)
  /\ no_file' = no_file \ ({t} \X ShmName)
  /\ xstep' = [xstep EXCEPT ![t] = "idle"]
  /\ UNCHANGED <<shm_file, segVars, xCall>>

-----------------------------------------------------------------------------
SystemVShmNext ==
  \E t \in Thread :
    \/ KeyOfFile(t) \/ ShmMake(t) \/ ShmFind(t)
    \/ ShmStat(t) \/ ShmRmId(t) \/ ShmUnlink(t)
    \/ ShmDie(t)
    \/ \E n \in ShmName :
         \/ IPC_createSharedMemory_sv(t, n) \/ IPC_createSharedMemoryEx_sv(t, n)
         \/ IPC_openSharedMemory_sv(t, n)
         \/ IPC_mapSharedMemory_sv(t, n) \/ IPC_unmapSharedMemory_sv(t, n)
         \/ IPC_deleteSharedMemory_sv(t, n)

SystemVShmSpec == SystemVShmInit /\ [][SystemVShmNext]_systemVShmVars

-----------------------------------------------------------------------------
(* A segment is removed under a process that has it mapped only if that    *)
(* process mapped it after the delete had seen nobody attached.            *)
NotRemovedUnderMapping ==
  \A h \in attached : shmid[h] \notin segments => h \in tardy

(* Two processes that have a name mapped share its memory, unless a delete *)
(* removed the segment or the key file of one of them.                     *)
MappedShare ==
  \A n \in ShmName : \A t, u \in Thread :
    LET a == <<t, n>>  b == <<u, n>> IN
    ({a, b} \subseteq attached /\ {shmid[a], shmid[b]} \subseteq segments /\ {a, b} \cap no_file = {})
      => shmid[a] = shmid[b]

(* The segments of names, shared and not removed under those who map them. *)
SystemVShmSound == SystemVShmTypeOK /\ NotRemovedUnderMapping /\ MappedShare
=============================================================================
