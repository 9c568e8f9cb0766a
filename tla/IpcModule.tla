-------------------------------- MODULE IpcModule --------------------------------
(***************************************************************************)
(* The Linux driver as a module of the kernel: its start and its end       *)
(* (ipcmodule.c, and ipcext.c, which makes up on kernel 2.4 for what later *)
(* kernels have), the boundary of its ioctls to user space (ioctlrw.c),    *)
(* and the listing in /proc (ipcproc.c).                                   *)
(*                                                                         *)
(* A start registers one thing after the other, and takes back what it has *)
(* if one fails; meanwhile clients open the device, call, read the listing *)
(* and die.  There is one object of each kind, whose inside IpcMutex,      *)
(* IpcSem, IpcEvent and IpcShm have: here a wait is in it or is over.      *)
(*                                                                         *)
(* External: on later kernels class_create and device_create return an     *)
(* error that is not NULL, which the code takes for success, the kernel    *)
(* does not unload a module that has a file open, and removing an entry of *)
(* /proc waits for its readers; kernel 2.4 does neither of the last two,   *)
(* as the operations have no owner there.                                  *)
(***************************************************************************)
EXTENDS Integers, FiniteSets, Sequences, SequencesExt

CONSTANTS
  Client,        (* processes that open the device and its listing            *)
  ObjKind,       (* the kinds of object that they use                         *)
  NoKind,        (* no object                                                 *)
  OldKernel,     (* which kernels there are: a subset of BOOLEAN              *)
  MaxLeaks       (* bound of the model: references that nobody can close      *)

(* What a start registers, and a failure and a removal take back.          *)
InitOrder == <<"region", "class", "memory", "cdev", "device", "proc", "list">>
UnwindOrder == <<"cdev", "memory", "class", "region">>

(* Mutant: the class goes before its device. *)
RemoveOrder_ClassFirst == <<"proc", "class", "device", "cdev", "list", "memory", "region">>

RemoveOrder == <<"proc", "device", "cdev", "list", "memory", "class", "region">>

(* The order in which kinds are freed, and in which they are listed. *)
FreeOrder == <<"sem", "mutex", "event", "shm">>
ShowOrder == <<"shm", "sem", "mutex", "event">>

ASSUME ModuleAssumption ==
  /\ IsFiniteSet(Client)
  /\ ObjKind \subseteq Range(ShowOrder)
  /\ NoKind \notin ObjKind
  /\ OldKernel \subseteq BOOLEAN
  /\ MaxLeaks \in Nat

VARIABLES
  old_kernel,    (* whether this is kernel 2.4                                *)
  loader,        (* what the kernel is doing with the module                  *)
  lnext,         (* the next step of it                                       *)
  registered,    (* what is registered or allocated                           *)
  opened,        (* clients that have the device open                         *)
  releasing,     (* 1..4: the kind that the last release frees next; or 0     *)
  objs,          (* the objects that exist                                    *)
  refs,          (* their reference counts                                    *)
  handle_of,     (* <<c, k>>: client c has a handle of the object             *)
  inside,        (* the object in which the ioctl of a client waits           *)
  reader,        (* where each client is in reading the listing               *)
  viewed,        (* the object that it is printing                            *)
  no_class,      (* history: class_create failed unnoticed                    *)
  leaked         (* history: references that no client can close              *)

loaderVars == <<old_kernel, loader, lnext, registered, no_class>>
objectsOf == <<objs, refs, handle_of, leaked>>
moduleVars == <<loaderVars, opened, releasing, objectsOf, inside, reader, viewed>>

ModuleTypeOK ==
  /\ old_kernel \in OldKernel
  /\ loader \in {"out", "starting", "unwinding", "in", "freeing", "removing", "oops"}
  /\ lnext \in 1 .. 8
  /\ registered \subseteq Range(InitOrder)
  /\ opened \subseteq Client
  /\ releasing \in 0 .. 4
  /\ objs \subseteq ObjKind
  /\ refs \in [ObjKind -> Nat]
  /\ handle_of \subseteq Client \X ObjKind
  /\ inside \in [Client -> ObjKind \cup {NoKind}]
  /\ reader \in [Client -> 0 .. 8]
  /\ viewed \in [Client -> ObjKind \cup {NoKind}]
  /\ no_class \in BOOLEAN
  /\ leaked \in [ObjKind -> Nat]

ModuleInit ==
  /\ old_kernel \in OldKernel
  /\ loader = "out" /\ lnext = 1 /\ registered = {} /\ no_class = FALSE
  /\ opened = {} /\ releasing = 0
  /\ objs = {} /\ refs = [k \in ObjKind |-> 0] /\ handle_of = {} /\ leaked = [k \in ObjKind |-> 0]
  /\ inside = [c \in Client |-> NoKind]
  /\ reader = [c \in Client |-> 0]
  /\ viewed = [c \in Client |-> NoKind]

-----------------------------------------------------------------------------
(* The start: ipc_module_init, and ipc_probe from the memory on.           *)
clientVars == <<opened, releasing, objectsOf, inside, reader, viewed>>

(* A start after one that left something behind is not modelled. *)
insmod ==
  /\ loader = "out"
  /\ registered = {}
  /\ loader' = "starting"
  /\ lnext' = 1
  /\ no_class' = FALSE
  /\ UNCHANGED <<old_kernel, registered, clientVars>>

StartGoesOn ==
  /\ loader' = IF lnext = Len(InitOrder) THEN "in" ELSE "starting"
  /\ lnext' = IF lnext = Len(InitOrder) THEN 1 ELSE lnext + 1

Register(thing) ==
  /\ loader = "starting"
  /\ InitOrder[lnext] = thing
  /\ registered' = registered \cup {thing}
  /\ StartGoesOn
  /\ UNCHANGED <<old_kernel, no_class, clientVars>>

(* Failures that the code does not notice: those of later kernels, and of  *)
(* the listing.  Without a class there is no device.                       *)
Missed(thing) ==
  /\ loader = "starting"
  /\ InitOrder[lnext] = thing
  /\ no_class' = (no_class \/ thing = "class")
  /\ StartGoesOn
  /\ UNCHANGED <<old_kernel, registered, clientVars>>

(* The label to which a failure jumps. *)
UnwindFrom(thing) ==
  CASE thing = "class" -> 4 [] thing = "memory" -> 3 [] thing = "cdev" -> 2 [] thing = "device" -> 1

Fails(thing) ==
  /\ loader = "starting"
  /\ InitOrder[lnext] = thing
  /\ loader' = "unwinding"
  /\ lnext' = UnwindFrom(thing)
  /\ UNCHANGED <<old_kernel, no_class, clientVars>>

alloc_chrdev_region ==
  \/ Register("region")
  \/ /\ ~old_kernel
     /\ loader = "starting"
     /\ InitOrder[lnext] = "region"
     /\ loader' = "out"
     /\ UNCHANGED <<old_kernel, lnext, registered, no_class, clientVars>>

class_create ==
  \/ Register("class")
  \/ ~old_kernel /\ Missed("class")
  \/ old_kernel /\ Fails("class") /\ UNCHANGED registered

ipc_probe == Register("memory") \/ (Fails("memory") /\ UNCHANGED registered)

cdev_add == Register("cdev") \/ (~old_kernel /\ Fails("cdev") /\ UNCHANGED registered)

(* On kernel 2.4 a device is a major number and a structure; if there is   *)
(* no memory for the structure the number stays registered.                *)
device_create ==
  \/ ~no_class /\ Register("device")
  \/ ~old_kernel /\ Missed("device")
  \/ /\ old_kernel
     /\ Fails("device")
     /\ registered' \in {registered, registered \cup {"device"}}

ipc_register_proc == Register("proc") \/ Missed("proc")
list_add_tail == Register("list")

Unwind ==
  /\ loader = "unwinding"
  /\ registered' = registered \ {UnwindOrder[lnext]}
  /\ loader' = IF lnext = 4 THEN "out" ELSE "unwinding"
  /\ lnext' = IF lnext = 4 THEN 1 ELSE lnext + 1
  /\ UNCHANGED <<old_kernel, no_class, clientVars>>

-----------------------------------------------------------------------------
(* The list of a kind is locked while the listing goes through it.         *)
Locked(k) == \E c \in Client : reader[c] \in {2, 4, 6, 8} /\ ShowOrder[reader[c] \div 2] = k

MayUnload == old_kernel \/ (opened = {} /\ releasing = 0)

(* The end: ipc_module_cleanup, with ipc_remove. *)
rmmod ==
  /\ loader = "in"
  /\ MayUnload
  /\ loader' = "freeing"
  /\ lnext' = 1
  /\ UNCHANGED <<old_kernel, registered, no_class, clientVars>>

(* A close_all. *)
FreeKind(k) ==
  /\ ~Locked(k)
  /\ objs' = objs \ {k}
  /\ refs' = [x \in ObjKind |-> IF x = k THEN 0 ELSE refs[x]]
  /\ leaked' = [x \in ObjKind |-> IF x = k THEN 0 ELSE leaked[x]]
  /\ handle_of' = {h \in handle_of : h[2] # k}

RemoveObjects ==
  /\ loader = "freeing"
  /\ FreeKind(FreeOrder[lnext])
  /\ loader' = IF lnext = 4 THEN "removing" ELSE "freeing"
  /\ lnext' = IF lnext = 4 THEN 1 ELSE lnext + 1
  /\ UNCHANGED <<old_kernel, registered, no_class, opened, releasing, inside, reader, viewed>>

(* device_destroy looks for the device in its class. *)
ipc_remove ==
  LET thing == RemoveOrder[lnext] IN
  /\ loader = "removing"
  /\ (thing = "proc" /\ ~old_kernel) => \A c \in Client : reader[c] = 0
  /\ registered' = registered \ {thing}
  /\ loader' = CASE thing = "device" /\ "class" \notin registered -> "oops"
                 [] lnext = Len(RemoveOrder) -> "out"
                 [] OTHER -> "removing"
  /\ lnext' = IF lnext = Len(RemoveOrder) THEN 1 ELSE lnext + 1
  /\ UNCHANGED <<old_kernel, no_class, clientVars>>

-----------------------------------------------------------------------------
(* ipc_device_open: kernel 2.4 looks for the driver in ipc_list. *)
ipc_device_open(c) ==
  /\ IF old_kernel THEN "list" \in registered ELSE loader \in {"starting", "in"}
  /\ "device" \in registered
  /\ c \notin opened
  /\ releasing = 0
  /\ opened' = opened \cup {c}
  /\ UNCHANGED <<loaderVars, releasing, objectsOf, inside, reader, viewed>>

(* ipc_device_close, also when a client dies in a call.  What it had open  *)
(* stays referenced, until the last release frees everything; on kernel    *)
(* 2.4 it does nothing once the driver is no more in ipc_list.             *)
ipc_device_close(c) ==
  /\ c \in opened
  /\ releasing = 0
  /\ opened' = opened \ {c}
  /\ releasing' = IF opened = {c} /\ (old_kernel => "list" \in registered) THEN 1 ELSE 0
  /\ handle_of' = {h \in handle_of : h[1] # c}
  /\ leaked' = [k \in ObjKind |-> IF <<c, k>> \in handle_of THEN leaked[k] + 1 ELSE leaked[k]]
  /\ inside' = [inside EXCEPT ![c] = NoKind]
  /\ UNCHANGED <<loaderVars, objs, refs, reader, viewed>>

ReleaseObjects ==
  /\ releasing > 0
  /\ FreeKind(FreeOrder[releasing])
  /\ releasing' = IF releasing = 4 THEN 0 ELSE releasing + 1
  /\ UNCHANGED <<loaderVars, opened, inside, reader, viewed>>

-----------------------------------------------------------------------------
(* The ioctls.  One whose arguments cannot be read fails before it has     *)
(* done anything, and is no step.                                          *)
InDriver(c) == c \in opened /\ "memory" \in registered /\ inside[c] = NoKind

(* copy_to_user fails: the object has its reference, and nobody a handle.  *)
CopyFaults(k) ==
  /\ leaked[k] < MaxLeaks
  /\ objs' = objs \cup {k}
  /\ refs' = [refs EXCEPT ![k] = IF k \in objs THEN @ + 1 ELSE 1]
  /\ leaked' = [leaked EXCEPT ![k] = @ + 1]
  /\ UNCHANGED handle_of

OpenObj(c, k) ==
  /\ k \in ObjKind
  /\ InDriver(c)
  /\ ~Locked(k)
  /\ \/ /\ <<c, k>> \notin handle_of
        /\ leaked[k] < MaxLeaks
        /\ objs' = objs \cup {k}
        /\ refs' = [refs EXCEPT ![k] = IF k \in objs THEN @ + 1 ELSE 1]
        /\ handle_of' = handle_of \cup {<<c, k>>}
        /\ UNCHANGED leaked
     \/ CopyFaults(k)
  /\ UNCHANGED <<loaderVars, opened, releasing, inside, reader, viewed>>

ioctl_sem_open(c) == OpenObj(c, "sem")
ioctl_mutex_open(c) == OpenObj(c, "mutex")
ioctl_event_open(c) == OpenObj(c, "event")
ioctl_shm_open(c) == OpenObj(c, "shm")

(* Mutant: the object goes with its last but one reference. *)
CloseObj_Early(c, k) ==
  /\ InDriver(c)
  /\ <<c, k>> \in handle_of
  /\ ~Locked(k)
  /\ refs' = [refs EXCEPT ![k] = @ - 1]
  /\ objs' = IF refs[k] <= 2 THEN objs \ {k} ELSE objs
  /\ handle_of' = handle_of \ {<<c, k>>}
  /\ UNCHANGED <<loaderVars, opened, releasing, leaked, inside, reader, viewed>>

CloseObj(c, k) ==
  /\ InDriver(c)
  /\ <<c, k>> \in handle_of
  /\ ~Locked(k)
  /\ refs' = [refs EXCEPT ![k] = @ - 1]
  /\ objs' = IF refs[k] = 1 THEN objs \ {k} ELSE objs
  /\ handle_of' = handle_of \ {<<c, k>>}
  /\ UNCHANGED <<loaderVars, opened, releasing, leaked, inside, reader, viewed>>

ioctl_sem_close(c) == CloseObj(c, "sem")
ioctl_mutex_close(c) == CloseObj(c, "mutex")
ioctl_event_close(c) == CloseObj(c, "event")
ioctl_shm_close(c) == CloseObj(c, "shm")

(* A wait goes into the object, and stays there. *)
LockObj(c, k) ==
  /\ InDriver(c)
  /\ <<c, k>> \in handle_of
  /\ ~Locked(k)
  /\ inside' = [inside EXCEPT ![c] = k]
  /\ UNCHANGED <<loaderVars, opened, releasing, objectsOf, reader, viewed>>

ioctl_sem_lock(c) == LockObj(c, "sem")
ioctl_mutex_lock(c) == LockObj(c, "mutex")
ioctl_event_lock(c) == LockObj(c, "event")

(* A release, a set or a reset of another client ends it, or a timeout.    *)
UnlockObj(c, k) ==
  /\ InDriver(c)
  /\ <<c, k>> \in handle_of
  /\ ~Locked(k)
  /\ \E d \in Client :
       /\ inside[d] = k
       /\ inside' = [inside EXCEPT ![d] = NoKind]
  /\ UNCHANGED <<loaderVars, opened, releasing, objectsOf, reader, viewed>>

ioctl_sem_unlock(c) == UnlockObj(c, "sem")
ioctl_mutex_unlock(c) == UnlockObj(c, "mutex")
ioctl_event_unlock(c) == UnlockObj(c, "event")
ioctl_event_reset(c) == UnlockObj(c, "event")

WaitEnds(c) ==
  /\ inside[c] # NoKind
  /\ inside' = [inside EXCEPT ![c] = NoKind]
  /\ UNCHANGED <<loaderVars, opened, releasing, objectsOf, reader, viewed>>

-----------------------------------------------------------------------------
(* A reader of the listing: at 2i - 1 it comes to the list of the i-th     *)
(* kind, and at 2i it is in the list and holds its lock.                   *)
ReaderGoto(c, from, to) ==
  /\ reader[c] = from
  /\ reader' = [reader EXCEPT ![c] = to]

ipcdrv_proc_open(c) ==
  /\ "proc" \in registered
  /\ ReaderGoto(c, 0, 1)
  /\ UNCHANGED <<loaderVars, opened, releasing, objectsOf, inside, viewed>>

Show(c, i) ==
  LET k == ShowOrder[i] IN
  \/ /\ ReaderGoto(c, 2 * i - 1, 2 * i)
     /\ ~Locked(k)
     /\ viewed' = [viewed EXCEPT ![c] = IF k \in objs THEN k ELSE NoKind]
     /\ UNCHANGED <<loaderVars, opened, releasing, objectsOf, inside>>
  \/ /\ ReaderGoto(c, 2 * i, IF i = 4 THEN 0 ELSE 2 * i + 1)
     /\ viewed' = [viewed EXCEPT ![c] = NoKind]
     /\ UNCHANGED <<loaderVars, opened, releasing, objectsOf, inside>>

show_shm_info(c) == Show(c, 1)
show_sem_info(c) == Show(c, 2)
show_mutex_info(c) == Show(c, 3)
show_event_info(c) == Show(c, 4)

-----------------------------------------------------------------------------
ModuleNext ==
  \/ insmod \/ rmmod \/ RemoveObjects \/ ipc_remove \/ Unwind
  \/ alloc_chrdev_region \/ class_create \/ ipc_probe \/ cdev_add \/ device_create
  \/ ipc_register_proc \/ list_add_tail
  \/ ReleaseObjects
  \/ \E c \in Client :
       \/ ipc_device_open(c) \/ ipc_device_close(c)
       \/ ioctl_sem_open(c) \/ ioctl_mutex_open(c) \/ ioctl_event_open(c) \/ ioctl_shm_open(c)
       \/ ioctl_sem_close(c) \/ ioctl_mutex_close(c) \/ ioctl_event_close(c) \/ ioctl_shm_close(c)
       \/ ioctl_sem_lock(c) \/ ioctl_mutex_lock(c) \/ ioctl_event_lock(c)
       \/ ioctl_sem_unlock(c) \/ ioctl_mutex_unlock(c) \/ ioctl_event_unlock(c)
       \/ ioctl_event_reset(c)
       \/ WaitEnds(c)
       \/ ipcdrv_proc_open(c)
       \/ show_shm_info(c) \/ show_sem_info(c) \/ show_mutex_info(c) \/ show_event_info(c)

ModuleSpec == ModuleInit /\ [][ModuleNext]_moduleVars

-----------------------------------------------------------------------------
(* Whatever step of a start fails, and after a removal, nothing of the     *)
(* module stays in the kernel; but on kernel 2.4 its major number does if  *)
(* there was no memory for the device.                                     *)
NothingLeftBehind ==
  loader = "out" =>
    /\ registered \subseteq (IF old_kernel THEN {"device"} ELSE {})
    /\ ~old_kernel => objs = {}

(* A client that has the device open, or reads the listing, never works on *)
(* a driver that was freed, while the module starts, fails to start or is  *)
(* removed; on kernel 2.4 nothing keeps the driver for them.               *)
FilesHaveDriver == (~old_kernel /\ opened # {}) => {"memory", "cdev"} \subseteq registered
ReadersHaveDriver ==
  (~old_kernel /\ \E c \in Client : reader[c] > 0) => "memory" \in registered

(* The removal of the module dereferences an error for a class only if the *)
(* start passed over that error.                                           *)
OopsOnlyAfterMissedError == loader = "oops" => no_class

(* A reader prints no object that a close or a close_all has freed. *)
ReadersSeeObjects == \A c \in Client : viewed[c] # NoKind => viewed[c] \in objs

(* The references of an object are the handles of its clients and those    *)
(* that nobody can close: of clients that died, and of handles that could  *)
(* not be copied out.                                                      *)
RefsAccountedFor ==
  \A k \in objs : refs[k] = Cardinality({h \in handle_of : h[2] = k}) + leaked[k]

(* The object that a client waits in is there. *)
WaitersKeepObject ==
  ~old_kernel => \A c \in Client : inside[c] # NoKind => inside[c] \in objs

(* What leaked goes with the last client that has the device open; on      *)
(* kernel 2.4 that client may outlive the driver that it would go from.    *)
LeaksEndWithLastFile == (~old_kernel /\ opened = {} /\ releasing = 0) => objs = {}

(* The life of the module: what it registers and frees, whoever has it     *)
(* open; and that of the objects in it, whoever lists them and whatever    *)
(* handle gets lost.                                                       *)
ModuleLifeSound ==
  ModuleTypeOK /\ NothingLeftBehind /\ FilesHaveDriver /\ ReadersHaveDriver /\ OopsOnlyAfterMissedError

ModuleObjectsSound ==
  ReadersSeeObjects /\ RefsAccountedFor /\ WaitersKeepObject /\ LeaksEndWithLastFile
=============================================================================
