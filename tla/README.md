# GIPCY in TLA+

GIPCY is a C/C++ library of interprocess communication primitives (named
mutexes, semaphores, events and shared memory, and thin layers over threads,
files, devices, sockets) with one set of headers (`include/`) and several
implementations: on Linux over a kernel driver of its own (`linux/ipcdrv` and
`linux/libsrc/insys`), over POSIX objects (`linux/libsrc/posix`) or over System V
objects (`linux/libsrc/systemv`); on QNX over a resource manager
(`qnx/ipcdrv`) or POSIX; on Windows over Win32.

This directory models the named objects in each of these implementations except
Windows, the Linux driver both as a keeper of objects and as a module of the
kernel, and those of the thin layers that share state: what is kept for a named
object, how several threads of several processes run through it, and what
happens when they die.  Safety and liveness are model-checked with TLC on small
instances.  Every safety invariant that a run checks, and the refinement of an
abstract lock and an abstract event, are also proved with TLAPS, for every value
of the constants; liveness is only model-checked.

All source paths below are relative to `src/`.

## 1. Inventory

### 1.1 Named objects in the Linux driver (`linux/ipcdrv`)

`struct ipc_driver` (`ipcmodule.h:114-145`) has four lists, of mutexes,
semaphores, events and shared memory names, each with a *list mutex*
(`m_mutex_lock`, `m_sem_lock`, `m_event_lock`, `m_shm_lock`).  An entry has a
name, a reference count (`X_owner_count`), a mark (`X_id`) and what its kind
needs.  The handle of a client is the address of a field of the entry.

| operation | file | what it does |
|---|---|---|
| create | `ipc*.c: ipc_X_create` | under the list mutex: search by name, count one more reference or insert a new entry with one; a failed `kzalloc` yields the handle of an entry at NULL |
| close | `ipc_X_close` | under the list mutex: one reference less, and `kfree` with the last; `-EBUSY` when others remain |
| lock, unlock, reset | `ipc_X_lock`, `ipc_X_unlock`, `ipc_event_reset` | checks the mark under the list mutex, drops it, and works on the entry *outside* of it |
| close_all | `ipc_X_close_all` | frees every entry of a kind, by force |

- *Mutex* (`ipcmutex.c`): a kernel semaphore that starts at 1, or at 0 when the
  creator asks to own it, `m_lockerid` with the number of the owning thread, and
  a counter for `/proc`.  A recursive capture succeeds without counting, and a
  release by another thread than the owner is ignored with a success.
- *Semaphore* (`ipcsem.c`): a kernel semaphore and a counter.  Anybody may
  release.  The library always passes 1 for the initial value
  (`libsrc/insys/semipc.cpp:31`).
- *Event* (`ipcevent.c`): a kernel semaphore that starts at 1 and a counter of
  the waits that took it.  A set gives the semaphore back only if the counter is
  not 0; a reset has the same body.  The initial state and the manual flag are
  not read.
- *Shared memory* (`ipcshm.c`): name and reference count only.  The library
  (`libsrc/insys/shmipc.cpp`) keeps the memory in a POSIX object of that name, and
  the driver tells it who is the last user, who has to unlink.

Hard: everything outside the list mutex interleaves access by access; a
timeout races the release it waits for; signals reach a waiting thread; a
thread dies while it holds something, and its number is given to another; an
entry is used after the list mutex that guarded its check was dropped; counting
and unlinking a shared memory name are two system calls.

Correct means: one owner of a mutex; no permit of a semaphore lost or made up;
an event that is a state and not a count, and is never lost; waiters that are
served; exact reference counts, one object to a name, no use of a freed entry;
the same memory for all who have a name open, gone with the last of them.

### 1.2 The device and the library's descriptor (`ipcmodule.c`, `libsrc/insys/linipc.cpp`)

The driver counts the opens of its device (`m_usage`) under `m_ipc_mutex`, and
the last release frees all objects of all kinds.  `IPC_init` opens the device
once for a process and `IPC_cleanup` closes it; the static descriptor is tested
and assigned without protection.  A process that dies is released by the kernel
and leaves its references behind.  A fork copies descriptor and handles, and the
driver is told nothing.

Hard: the forced close runs kind after kind while other processes open the
device; ioctls that wait in the driver for long; two threads in `IPC_init`.
Correct means: the forced close meets nobody's handle and nobody's call, and
nothing of a dead process outlives the last user.

### 1.3 How the parts interact

A call of the library is one ioctl of the process's descriptor; `ipc_device_ioctl`
dispatches it to `ioctl_X_*` (`ioctlrw.c`), which copies the argument, calls
`ipc_X_*` and maps its error.  Different ioctls of different threads run at the
same time: `m_ipc_mutex` is held by open and release only, and the list mutex
of a kind only as said above.  The kinds share nothing but the device.  This is
why each kind has a module of its own and the device another.

### 1.4 The other implementations and the rest

| part | state and operations | hard, and what would be correct |
|---|---|---|
| module start and end (`ipcmodule.c`, `ipcext.c`) | what is registered with the kernel, in seven steps; undone in reverse | a step fails while clients are already in; errors that are not NULL. Nothing stays behind, and nobody works on a driver that was freed |
| ioctl boundary (`ioctlrw.c`) | none | the handle of a new reference cannot be copied out. References are accounted for |
| `/proc` listing (`ipcproc.c`) | goes through the four lists under their mutexes | objects go while they are listed. No freed object is printed |
| POSIX backend (`linux/libsrc/posix`) | `sem_open` and `shm_open` objects by name, no counting | every delete unlinks the name under its other users (`semipc.cpp:128`); sets of an event accumulate; a reset looks before it waits (`eventipc.cpp:141`); relative timeouts passed as absolute. One object to a name as far as deletes allow; resets block for a reason only; calls with a limit end |
| System V backend (`linux/libsrc/systemv`) | key files, `semget` and `shmget` by the key of the file's inode | creation and `SETVAL` in two steps; `SEM_UNDO` when a process dies; an object removed after separate looks (`linipc.cpp:267`). What was captured comes back, nothing more; removal under a user only if it came in late |
| threads (`threadipc.cpp` of Linux and QNX) | a handle with a thread, and a semaphore as its gate | a wait joins and a delete joins again, when the number may be another thread's; timeouts. A handle stands for its own thread; a paused thread waits |
| INI files (`sysipc.cpp`) | the file | read, truncate and write are separate steps; writes compare otherwise than reads. What was written is read, all else is kept |
| interlocked operations (`sysipc.cpp`) | a `long` | a read and a write. No update lost unless calls overlap |
| QNX resource manager (`qnx/ipcdrv`), library (`qnx/insys`) | the same lists, in one single-threaded server | a wait blocks the server and with it the release waited for (`resmgr.cpp:153`); closing that tests the wrong mark; products that overflow. Every request answered until then; exact references |
| the rest of the system services (`IPC_itoa`, memory, sleep, time), files, devices, directories, dynamic libraries, sockets, strings | none; one system call each | nothing of their own |
| Windows (`windows`) | Win32 handles | in the operating system |

## 2. Modules

| module | models | state |
|---|---|---|
| `IpcRegistry` | search, insert, count, close and check of a named entry, common to the four kinds (`ipc_X_create`, `ipc_X_close`, first part of `ipc_X_lock`) | `listed`, `nameOf`, `owner_count` of the entries by address; `handle` of the clients; `via`, the handle a running call works on |
| `IpcMutex`, extends `IpcRegistry` | `ipcmutex.c` | `count` of the kernel semaphore, `m_lockerid`, `lock_count`; `pc` of the threads; history `held`, `captures`, `nested` |
| `IpcSem`, extends `IpcRegistry` | `ipcsem.c`, `insys/semipc.cpp` | `count`, `lock_count`, `pc`; history `initial`, `held`, `posted` |
| `IpcEvent`, extends `IpcRegistry` | `ipcevent.c` | `count`, `lock_count`, `pc`; history `cleared`, `woken` |
| `IpcShm`, extends `IpcRegistry` | `insys/shmipc.cpp` over `ipcshm.c` | `linked` and `st_size` of `/dev/shm`, the four fields of a handle, `pc` and arguments of the calls; history `orphaned` |
| `IpcDriver` | `ipc_device_open`, `ipc_device_close`, the close_all of the kinds, `insys/linipc.cpp` | `m_usage`, the release in progress, files and descriptors, `ipc_driver_fd`, objects with counts, handles |
| `NamedLock` | what a named mutex promises | `live`, `holder` |
| `AutoResetEvent` | what an event promises | `live`, `signalled`, `setting`, `woken` |
| `Ipc*MC` | symmetry sets for TLC | |
| `Library` | the clients and names that the modules below share, and their assumptions | |
| `PosixIpc`, extends `Library`, `Int32` | mutexes, semaphores, events of `linux/libsrc/posix` | `bound`, `value`, `spoiled` of the named semaphores; `ipc_name`, `ipc_sem` of the handles; `pstep` and arguments of the calls; history `due`, `held`, `strayed`, `stale`, `overtaken` |
| `PosixShm`, extends `Library` | `posix/shmipc.cpp`, and `qnx/insys/shmipc.cpp` (`qnx`) | `object`, `st_size` of `/dev/shm`; the fields of a handle; `mstep`; history `creators`, `cut_off` |
| `SystemVIpc`, extends `Library` | mutexes, semaphores, events of `linux/libsrc/systemv`, key files | `keyfile`, `sets`, `sem_key`, `semval`, `semadj` of the kernel; `sem_id`, `ipc_key` of the handles; `vstep` and arguments; history `start`, `raised`, `holding`, `users`, `unlinked`, `late` |
| `SystemVShm`, extends `Library` | `systemv/shmipc.cpp` | `shm_file`, `segments`, `shm_key`; `shmid`, `attached`; `xstep`; history `no_file`, `tardy` |
| `QnxServer`, extends `Library`, `Int32` | `qnx/ipcdrv` and the requests of `qnx/insys` | `server`, the lists and entries of the manager, `cursor` of a close_all; `qhandle`, `request` of the clients; history `due_q`, `got`, `deceived`, `strayed_q`, `lost` |
| `Int32` | products in an `int` that wrap around, as two halves of 16 bits | |
| `IpcThread` | `threadipc.cpp` on Linux, with and without the driver, and on QNX (`system`) | `ipc_thread`, `ipc_gate` of the handles; `gate`, `tstate`, `cancelled`; `cstep` of the callers; history `owner`, `joined`, `paused`, `crowded`, ... |
| `IpcProfile` | INI files of both systems | `file`; `wstep`, `pBuf`, `job` of the writers; history `overlapped`, `cut_short`, `garbled`, ... |
| `Interlocked` | the interlocked operations | `word`; `istep`, `tmp`, `arg`; history `exact`, `owning`, ... |
| `IpcModule` | `ipcmodule.c`, `ipcext.c`, `ioctlrw.c`, `ipcproc.c` | `loader`, `registered`; `opened`, `releasing`; `objs`, `refs`, `handle_of`, `inside`; `reader`, `viewed`; history `no_class`, `leaked` |
| `PosixQnxMC`, `SystemVServicesMC` | instances of several of the modules above, see 3 | `scenario` |
| `IpcRegistryProofs`, `IpcMutexProofs`, `IpcSemProofs`, `IpcEventProofs`, `IpcShmProofs`, `IpcDriverProofs` | theorems about the module named, see 4 | |
| `PosixQnxProofs`, `SystemVServicesProofs` | theorems about the modules that `PosixQnxMC` and `SystemVServicesMC` run (`IpcThread` in the first), see 4 | |

### 2.1 Correspondence

*A step is one access to shared state.*  What runs under the list mutex from the
first read to the last write is one step (`OpenExisting`, `OpenNew`,
`OpenFails`, `Close`, `Validate`).  Outside it each access to the semaphore, the
owner or the counter is a step, named after its place in `pc`: in a lock
`checkowner`, `down` or `down_timeout`, `inc`, `setowner`; in an unlock
`compare`, `clearowner`, `up`, `dec`; in a set `check`, `up`, `dec`.  `down`,
`down_timeout` and `up` of the kernel are each one step on `count`.  The last
access of a call and its return to the client are one step.

*Addresses* are values of `Addr`; a freed one may be allocated again at once, and
carries its old contents until then, so that a use after free would be seen.
*Handles* live in `Slot`s, variables of the clients, and every slot counts one
reference.  A thread is identified with its number (`tid`): `Exit` ends it and
`Reuse` gives the number to a new one.

*Clients keep one rule*, `Unused`: nobody closes a handle while another thread is
inside a call with that very handle.  The driver has no defence against it, and a
client has no reason to.  Other clients' handles of the same object are not
restricted.  `IpcMutex` adds `CloseHeld` (clients may close the last handle of a
held mutex), which is off only where liveness is checked, and `Recursive` (threads that
capture a mutex that they have; `MaxNested` bounds how often), and `IpcShm` adds
`Overlap`, see 3.  On POSIX and the QNX manager nobody captures a mutex or a semaphore
that he has, since he would wait for himself; releases come from anybody, and what a
release by a thread that has nothing does to a mutex is kept in `strayed` and `strayed_q`.
On System V captures are at most one to a process and releases of a mutex come from its
holder: what `SEM_UNDO` makes of two captures, or of the release of a mutex that was
created as taken (which `SETVAL` does, without an undo value, so that the release leaves
the undo value at -1), is not modelled.

*Captures.*  `held` of `IpcMutex` has the threads that captured since their last
release, which is what the driver knows.  `captures` counts the captures that returned
`IPC_OK`, less the releases that the thread has begun, which is what the clients know: a
capture of a mutex that one has is counted there (`LockByOwner`), and nowhere in the
driver.  `nested` has the threads that captured in this way and have not got down to no
capture since.  A mutex that is created as taken is its maker's: in `captures`, and in
`held` of `PosixIpc` (`MadeTaken`) and `got` of `QnxServer` (`MadeTaken_q`).

*The device.*  In `IpcDriver` a kind's objects are a name and a count, so that
the question of the last release can be asked without their insides.  The steps of
`ipc_device_close` are `ReleaseBegin` (`m_usage` goes down), one
`ReleaseCloseAll` for each kind in the order of the code, and `ReleaseEnd`; an
open waits for `m_ipc_mutex`, which is `closer = NoFile`.  The kernel calls
release when no descriptor and no running system call refers to the file
(`Unreferenced`).  `stale` remembers handles whose object was freed.

*Shared memory.*  Each system call of `shmipc.cpp` is a step: the ioctl, the
exclusive `shm_open`, the second `shm_open`, `fstat`, `ftruncate`, `mmap`,
`shm_unlink`.  `Faults` lets `shm_open`, `ftruncate` and `mmap` fail.

*The backends without a driver.*  Each system call is a step, and the state is that
of the kernel and the file system: what a name, a key file or a key stands for, apart
from what a handle stands for.  In `SystemVIpc`, `SystemVShm` and `QnxServer` a
thread stands for a process with one handle of each name, and may die between any
two steps; in the others a thread may have several handles in slots.  System calls
are *external*: `sem_open`, `semop` with its undo values, `shmat` of a removed
segment, `pthread_join` and so on are modelled as far as the library relies on them.
`IPC_createSemaphore` of the POSIX backend passes `IPC_CREAT | IPC_EXCL` to
`sem_open`, which are the bits of `O_TRUNC` and `O_APPEND`: `spoiled` has the
semaphores whose file was cut off, whose next user is killed.

*The resource manager.*  It has one thread, so that each request is one step
(`Handle`), and a request that waits without an end is the end of all others
(`server = "stuck"`).  The end of the manager is stepwise, one element of a loop
each (`CloseAll`), because its loops erase at the index and count on.

*Products in an int* (`Int32`) are computed in two halves, as TLC's integers have
32 bits themselves.  Of the limits 50 and 150000 ms the second is one for which
`ms*1000*1000` wraps around in an int, and for which the nanoseconds `timeout*10000`
are more than a second, which the kernel refuses.

*INI files* are sequences of lines, and lines are sections or options; spelling is
three relations, `Lower`, `StartsWith` and `LooksLike`.  The last is the search on Linux
(`sysipc.cpp:274`), which looks for the option anywhere in the line, value included, and
takes the line if a blank or `=` stands where the option would end had the line begun
with it; in the run the line `k= kk` is taken for `kk`.  The new contents of a file are a
function of the old (`Rewritten`), and reading, truncating and writing the file are
steps.  In an empty file the code reads nothing into its buffer and appends to it, after
whatever that memory held (`sysipc.cpp:447`, `525`): the two lines come after as much of
other text, and as much is cut off at the end, so that each may be there or not
(`Jumbled`).  `garbled` says that this happened; no further write of that file is
modelled.  Left out are values with brackets or signs of comments, lines without a
newline, and the byte that is written in front of `sNextSection` when a line is empty.

*Threads.*  A create of a paused thread takes its gate with a timeout of 0 and does not
look at the result (Linux `threadipc.cpp:72`, QNX `:67`).  On the POSIX and System V
backends a timeout of 0 is no limit, and the create waits for a gate that is down
(`ZeroWaits`, `system = "linux"`).  The driver (`ipcsem.c:117`) and the manager of QNX
(`ipcsem.cpp:118`) give up at once: the create goes on without the gate
(`system = "driver"` and `"qnx"`), and `crowded` has the gates this happened to.

*The module.*  The seven registrations of a start are steps in `InitOrder`, each of
which may fail where the code or the kernel lets it; clients are there all the
time.  The objects are one to a kind, with references and without insides, which
the modules of the kinds have.

*Abstracted away*: names are model values, not strings (the driver's limits
on their length are not modelled); the mark of an entry is membership in `listed`;
access modes, the contents of the memory, messages, and return codes except that of
a wait that timed out.

## 3. Runs

No run needs more than a few minutes with two workers.  Each property of a
passing run has a mutant, a definition changed by a plausible mistake (kept next
to the definition, with the comment "Mutant"), under which TLC finds it violated.
A property whose name ends in `Sound` is the type invariant of a module and the
invariants of one part of it, each stated and named before it.

| run | instance | what it shows |
|---|---|---|
| `mutex_safety` | 3 threads, 2 handles, 2 names, 2 addresses, a mutex captured twice by any thread, no signals | one owner until a mutex captured twice is released (`MutualExclusion`); the semaphore is always somebody's (`NeverLost`); names and counts exact, no use after free; `ImplementsNamedLock` |
| `mutex_liveness` | 3 threads sharing one handle, one that captures twice, one reached by signals | a waiter is served (`WaiterServed`) |
| `sem` | 3 threads, 2 handles, initial values 0, 1 and 2, one stray release | `SemCountsSound`: permits conserved, captures bounded by them, the counter exact up to calls in progress; waiters served |
| `event_safety` | 3 threads, one of which sets | `EventSound`: two states, never lost; refinement of `AutoResetEvent`; `SetWakes` |
| `event_counting` | 2 setters, 2 resetters, 3 waiters | `EventConserved`: whatever races, the parts add up to one |
| `driver_safety` | 2 processes of 2 threads, 3 files, 2 kinds | nobody's handle or call is met by the forced close; counts cover handles |
| `driver_forks` | 2 processes that may fork, 2 files, 2 kinds | all is freed with the last user, and only if there is none (`FreedWithLastUser`, `EventuallyFreed`); no descriptor is forgotten |
| `shm_safety` | 3 threads, 3 handles, 1 name, 3 objects, failing calls | `SameMemory`, `ShmMappingsSound`, `UnlinkedWithLastHandle` |
| `posix_qnx` | 2 threads, 2 handles, 3 objects, limits none, 50 and 150000 ms; 2 entries of the manager; mutexes made free and taken | see below |
| `systemv_services` | 2 processes, 2 names of mutexes, 2 inodes, 2 sets at a time; 3 handles of 2 memory objects; 2 writers; 2 users; 2 callers, 2 threads of theirs and a gate, on Linux with and without the driver and on QNX; 2 clients of the module | see below |

`posix_qnx` and `systemv_services` take the parts that share nothing with each other one
after the other: `scenario` is chosen at the start and says which part runs, and with which of the names,
objects and limits, so that each is explored on its own and TLC is started once.

| part | properties |
|---|---|
| `PosixIpc` | `PosixObjectsSound`: what was put into a semaphore is in it, held or taken; one holder of a mutex, its maker included, signals or not, until somebody releases it who does not have it; only semaphores get their users killed. `PosixNamesSound`: handles of a name split, and deletes fail, by other deletes only. `ResetBlocksOnlyIfOvertaken`. `LimitedWaitEnds` |
| `QnxServer` | `QnxEntriesSound`: lists hold what is allocated, also while the close_all loops skip; no use after free; references are handles and those that were lost. `QnxWaitsSound`: posts and captures balance, a mutex has one holder in the same sense, only semaphores report a timeout as success, and only a wait without a limit or of 2148 ms or more holds up the manager. `RequestsAnswered` until then |
| `IpcThread` | `ThreadsSound`: a handle stands for its own thread until it is joined, by whomever; no thread outlives its handle; a paused thread does nothing before its start, unless its gate was left up or a create went on without it, which only happens where a wait of 0 ms gives up; gates are down for a reason |
| `SystemVIpc` | `SystemVTokensSound`: `SEM_UNDO` gives back exactly what was captured, with deaths anywhere, and nobody gets into a set without a value. `SystemVNamesSound`: a mutex is removed only under a holder who came in after the look; handles of a name split, and names share a set, only after an unlink, by a delete or by a create that fails (`get_ipc_key` without its file, a signal at the first capture of an event) |
| `SystemVShm` | `SystemVShmSound`: no removal under those who had it mapped at the look; those who map a name share it unless it was removed or its key file unlinked, also by a create that fails. A segment that was removed and is still attached can be removed again |
| `PosixShm` | `PosixShmSound`: no mapping beyond its object although makers die before they size it; one creator; one object to a name unless deleted |
| `IpcProfile` | `ProfileSound`: what was written last is read, and all other keys that the lines put in and taken out are not taken for are kept, on both systems, unless writes overlap, a writer dies between truncation and writing, or one finds the file empty |
| `Interlocked` | `InterlockedSound`: a counter is wrong, or a lock shared, only after a call during which another wrote |
| `IpcModule` | `ModuleLifeSound`: nothing is left by a failed start or a removal, and files and readers have their driver. `ModuleObjectsSound`: readers see objects that are there, references are accounted for, and what leaked goes with the last file |

Many of these are of the form "only if": the backends do lose names, let two users
have a lock or wait for ever, and what can be said, and is checked, is by what
alone that comes about.  Where a hazard is of one system or kernel, the property
says so.

Why the bounds are enough: a race over an object needs a thread that is in
possession, one that gives up or wants it, and a third to see the result; three
threads have all of them.  Two addresses are enough for a name to be freed and
allocated at another place while calls on the first are remembered.  Two
processes suffice for a release against an open, three files so that one process
can open twice (the race in `IPC_init`) while the other is open too.  Two of the four kinds in
`driver_*` give a forced close that is under way, with a kind freed and one
not yet.  Where an object's state is checked through, one name is enough, since
objects do not interact.  In the backends without a driver two processes are
enough, as one suffices to hold or to wait and the other to delete, to make
again and to die in between; two inodes let a key file go and come back with the
inode of another, and the identifier 0 is there because the code takes it for a
failure.  Two entries are the least on which a loop that erases at its index skips
one.  One value of `pthread_t` is given out again at once, two are two threads
that overlap.

The bounds that the modules themselves have: `MaxCount` in `IpcMutex` (no signal
is delivered once the counters have grown so far), `MaxCount` in `IpcEvent` (cap
of the semaphore), `MaxPosts` in `IpcSem` (stray releases), `MaxRefs` in
`IpcDriver`; `MaxValue` in `PosixIpc`, `MaxCount` in `QnxServer`, `MaxSemval` in
`SystemVIpc` and `MaxGate` in `IpcThread` (values that sets, raises and starts
reach), `MaxLost` in `QnxServer` and `MaxLeaks` in `IpcModule` (references that
nobody can give back), `MaxWrites` in `IpcProfile`, `MaxLong` in `Interlocked`.
`MaxNested` in `IpcMutex` is how many captures a recursive thread goes up to; two are
enough for one that the driver has forgotten.
`IpcSem` and `PosixIpc` have each thread capture a semaphore at most once.  In
`SystemVShm` no identifier of a segment is given out twice, which bounds the
segments that a behaviour makes to two.

Deadlock is not checked in `mutex_*` safety runs, `sem`, `event_*` and `shm_*`
runs, `posix_qnx` and `systemv_services`, because clients really can stop for
good: two threads may each wait for the mutex of the other, all may wait for an
event that nobody sets, a manager may wait for ever, a create or a delete for a gate
or a thread, and TLC counts it as a
deadlock when every slot is in use and no call is under way.  The `driver_*`
runs and `mutex_liveness` do check it.

### 3.1 Where the code differs from what it says

| run | violated | what happens |
|---|---|---|
| `mutex_signal` | `MutualExclusion` | the result of `down_interruptible` is not looked at (`ipcmutex.c:139`): a signal makes the waiter a second owner |
| `shm_race` | `SameMemory` | with `Overlap`, a create that falls between the driver's last close and `shm_unlink` (`shmipc.cpp:390`) loses its name, and the next one gets other memory under the same entry |

These are also why the passing runs are of instances without signals, and with
deletes apart from creates: there the properties hold, and the two runs show that
the conditions are needed.  `event_safety` has one setter and no resets for such
reasons too: two sets that both read the counter as 1 both give the semaphore back
(`ipcevent.c:164`), and two waits pass; a reset has the body of a set
(`ipcevent.c:262`) and leaves the event signalled, where `include/eventipc.h:41` says
that it puts it in the non-signalled state.  `event_counting` runs both.

Modelled, and what the "only if" of the other properties is about:

- driver: a capture by the owner succeeds and is not counted (`ipcmutex.c:131`, the counted
  release at `196-201` is commented out), so that the first release frees the mutex while
  the thread has captures left; `MutualExclusion` excepts exactly those.  A failed
  `kzalloc` gives out a handle of an entry at NULL (`OpenFails`), which the driver refuses
  from then on, and for which `IPC_waitEvent` returns `IPC_OK` all the same;
  the initial value of a semaphore and the initial state of an event are ignored;
  the owner of a mutex that ends is not noticed, although the headers have
  `IPC_WAIT_ABANDONED` (`Exit`); a create of an existing shared memory name keeps its
  size but records the one asked for (`FstatSized`), which is why
  `ShmMappingsSound` is checked with one size.
- driver as a module: `class_create` and `device_create` return an error pointer on
  later kernels, which the code compares with NULL: the start goes on, and the removal
  dereferences it (`Missed`, `loader = "oops"`).  On kernel 2.4 the module can be
  unloaded under open files, and a start that has no memory for the device leaves
  its major number registered.  A handle that `copy_to_user` cannot deliver is a
  reference that nobody can close before the last release.
- POSIX: `IPC_createSemaphore` (`semipc.cpp:30`) cuts off the file of a semaphore that
  exists, whose users then get SIGBUS, where `include/semipc.h:17` says that it creates
  a semaphore; every delete unlinks the name; a wait with a limit waits for nothing
  (`semipc.cpp:65`); sets of an event add up; a release of a mutex by a thread that does not
  have it (`mutexipc.cpp:97`) lets two in, on QNX too (`qnx/ipcdrv/ipcmutex.cpp:178`).
- System V: the set with the identifier 0 is taken for one that exists; the key file
  goes with the first delete, and with a create that finds none or that a signal
  interrupts (`linipc.cpp:184`, `eventipc.cpp:65`); `is_ok_remove` decides on three looks; the wait of an
  event with automatic reset gives back what it took.
- QNX: the close of events and shared memory and the reset of events always fail; a
  semaphore answers a timeout with success; a wait holds up all clients, for ever from
  2148 ms on.
- threads: `IPC_deleteThread` joins where `include/threadipc.h:88` says that it stops
  the thread, and `IPC_stopThread` cancels where the header says that it suspends;
  `libtest/threadtest/thread_test.cpp:68` waits and then deletes, which joins twice;
  limits that are not a whole number of seconds may fail at once; with the driver and on
  QNX a second paused create on a gate does not wait for it, and one start lets both
  threads run.
- INI files: a write spells out what a read compares without case; on Linux a read takes
  a line for an option that is in its value; a process that dies after the truncation
  leaves an empty file, and a write to an empty file leaves other text in it.
- interlocked operations lose updates.

Not modelled, since return codes are not: the delete of one of two shared memory
handles on the driver returns an error, because the branch for `-EBUSY`
(`shmipc.cpp:380`) compares with what ioctl never returns.

### 3.2 Fairness

- A thread inside the driver keeps running: `WF` of `Proceed`, and of
  `LockTimeout`, since a timer expires.
- `SF` of `LockDown`: a kernel semaphore hands over to its waiters in the order in
  which they came, so a waiter is not passed over for ever.
- `SF` of `ReleaseHeld` in `IpcMutex` and `IpcSem`: a client that captured an
  object releases it, as `libtest/mutextest_mt` does between its captures.  It is
  an assumption on the clients and used for `WaiterServed` only; a semaphore
  that started at 0 is excepted there.  `IpcEvent` assumes nothing of clients:
  `SetWakes` starts from a set that was called.
- `WF` of `PosixProceed` and `Handle` in `posix_qnx`: a thread whose system call can
  return, a manager that can take a request.  Nobody need release or set anything:
  `LimitedWaitEnds` and `RequestsAnswered` hold whatever the other clients do.  A
  request is answered although others keep coming because the kernel delivers
  requests of equal priority in the order they came, which is `WF` for each client.
- `WF` of `Release` in `IpcDriver`: the kernel completes a release that is due.
  Processes need never exit, open or close.

## 4. Proofs

The theorems are in the eight modules `*Proofs`, one to a component or, for the parts
that share nothing, one to the parts that are run together.  `IpcRegistryProofs` is
about the steps of the registry alone, and the proofs of the four kinds use it.  The
assumptions are the ones that the modules declare: null values are not members of the
sets they are null for; sets that a value is chosen from are not empty; `Slot` and
`Thread` are finite where handles, holders or calls are counted, as are `Process` of
`IpcDriver` and `Client` of `IpcModule`.  How many there are is not bounded, nor are
addresses, names, files, objects, entries, inodes or lines of a file (`MaxCount` and its
like remain guards, and may be any number).  A condition is an assumption of the theorem,
and the sections below say why it cannot go.

| theorem | statement | condition |
|---|---|---|
| `MutexTypes` | `Spec => [](TypeOK /\ CallsHaveEntry)` | none |
| `MutexReferences` | `Spec => []RefCountExact` | none |
| `MutexNames` | `Spec => []OneObjectPerName` | none |
| `MutexNoUseAfterFree` | `Spec => []NoUseAfterFree` | none |
| `MutexSafe` | `Spec => [](MutexInv /\ MutualExclusion)` | `Signalled = {}` |
| `MutexNeverLost` | `Spec => []NeverLost` | `Signalled = {}` |
| `MutexRefines` | `Spec => ImplementsNamedLock` | `Signalled = {}` |
| `SemCounts` | `Spec => []SemCountsSound` | none |
| `SemNoUseAfterFree` | `Spec => []NoUseAfterFree` | none |
| `EventCounts` | `Spec => []EventConserved` | none |
| `EventTwoState` | `Spec => []EventSound` | `SetsAlone` |
| `EventRefines` | `Spec => ImplementsAutoResetEvent` | `SetsAlone` |
| `ShmMappedWithinObject` | `Spec => []ShmMappingsSound` | `OneSize` |
| `ShmSameMemory` | `Spec => []SameMemory` | `Overlap = FALSE` |
| `ShmUnlinkedWithLastHandle` | `Spec => []UnlinkedWithLastHandle` | `Overlap = FALSE` |
| `LastReleaseFreesAll` | `Spec => []FreedWithLastUser` | none |
| `DriverSafe` | `Spec => [](DriverReferencesSound /\ NoStaleHandle /\ NoUseAfterCloseAll)` | `Forks = FALSE` |
| `DriverReferences`, `DriverHandles` | its first two parts, each for itself | `Forks = FALSE` |
| `NothingForgotten` | `Spec => []NoForgottenDescriptor` | `OneWorker` |
| `ModuleLife` | `ModuleSpec => []ModuleLifeSound` | none |
| `ModuleObjects` | `ModuleSpec => []ModuleObjectsSound` | none |
| `PosixObjects` | `PosixSpec => []PosixObjectsSound` | none |
| `PosixNames` | `PosixSpec => []PosixNamesSound` | none |
| `PosixResets` | `PosixSpec => []ResetBlocksOnlyIfOvertaken` | none |
| `PosixShmSafe` | `PosixShmSpec => []PosixShmSound` | `ShmName # {}` |
| `SystemVTokens` | `SystemVSpec => []SystemVTokensSound` | none |
| `SystemVNames` | `SystemVSpec => []SystemVNamesSound` | none |
| `SystemVShmSafe` | `SystemVShmSpec => []SystemVShmSound` | `ShmName # {}` |
| `QnxEntries` | `QnxSpec => []QnxEntriesSound` | none |
| `QnxWaits` | `QnxSpec => []QnxWaitsSound` | none |
| `ThreadHandles` | `ThreadSpec => []ThreadsSound` | none |
| `ProfileReads` | `ProfileSpec => []ProfileSound` | none |
| `InterlockedOnlyOverlap` | `InterlockedSpec => []InterlockedSound` | none |

*References.*  `RegistryInv` is the types, exact counts, no dangling handle, one
object to a name and no use after free; it is inductive.  The lemma to see is
`HoldersAfterSet`: a handle that changes moves one holder, and with it one
reference, so that the count reaches 0 exactly when no slot is left.  A call in
progress is safe because its slot is a holder and `Unused` keeps that slot from
being closed.  `StepsOfRegistry` says that every step of a mutex is one of the
registry or leaves it alone.

*Mutual exclusion.*  "At most one thread has captured" is not inductive: it does
not say why a second `down` cannot succeed.  `MutexInv` follows the one token of
the semaphore.  It is in `count`, or with the recorded owner (`RecordedToken`:
a record means `count = 0`), or with a thread between `down` and the record or
between the clearing and `up`, when nobody is recorded (`UnrecordedToken`), and
there is only one such thread (`OneUnrecorded`).  `ReleaseUnderway` ties the
comparison in unlock to the clearing that follows it: only the owner itself
changes its record, so what it compared is still true.  `HolderIsRecorded` then
gives that `held` has one thread, since `m_lockerid` is one value.  `MutualExclusion` is
about `captures`, and `CapturesKnown` leads from one to the other: a thread with a capture
is in `held`, or is one that captured twice and has released since.  Exits and reused thread
numbers disturb none of it: a new thread with the number of a dead owner is, for
the driver, that owner.  A signal breaks the first `down`, so `Signalled = {}`
cannot be dropped; `mutex_signal` is the counterexample.

*Refinement.*  With `holder = m_lockerid`, `LockSetOwner` is `Acquire` and
`UnlockClearOwner` is `Release`; the invariant gives their guards, that the
record was empty and that it was one's own.

`MutexInv` and its part `SemaphoreConserved` are proved for every instance, and no
run checks them any more.

*Permits.*  `SemInv` is two sums over the threads at each step of a lock and an
unlock: what the semaphore has, what is captured and what is on its way is what it
was given (`PermitsConserved`), and the same for the counter.  Every step of a call
moves one thread from one step to the next and nothing else (`CallStep`), so that two
cardinalities change by one; a close moves nobody, as an entry that goes has no
call in it, which is `NoUseAfterFree` of the registry.  The limit of the captures
is the first sum, with no term negative.

*Events.*  `EventConserved` is a sum of the same kind, and each step is a `Move` that
adds `dc` to the semaphore and `dl` to the counter.  That needs no condition, and is
all that can be said of racing sets.  `SetsAlone`, one setter and no resetter, gives
`SetsCovered`: the counter is at least the number of sets that are past their test of
it, since the one setter that tests it is the only one (`CheckAlone`) and waits only
raise it.  With the sum it bounds the semaphore and the waits at `inc` by one.  For two
setters it is false: both test a counter of 1.

*Refinement of `AutoResetEvent`.*  An event is signalled when its semaphore is up or a
wait has taken it down without being counted yet; a wait gets through at `inc`, and a
set takes effect where it gives the semaphore back, or where it finds the counter at
zero.  `EventTwoState` gives that in that last case the event was signalled already
(`TakenIsCounted`), and `WaitersOut` that who waits has not been let through.

*Shared memory of the driver.*  What every instance has is that a create or an open
owns its handle until it returns (`CallOwnsSlot`), although other threads may close or
map all the others.  If clients agree on the size (`OneSize`), an object is empty or has
that size, and a handle has no size before its object has (`SizesAgree`); with two sizes
a create records the one that it asked for, and maps beyond the object.  Without
`Overlap`, a name has no entry while it is being unlinked (`UnlinkAlone`), and so the
handles of an entry stand for the very object that its name is linked to
(`HandlesOnLinked`).  "Nothing is left in `/dev/shm` when all calls have returned" says
nothing of the calls; inductive is `LinkedHasUser`: of a linked object somebody is left
who will unlink it, a delete on its way or a user whose create has not failed.
`shm_race` shows `SameMemory` violated with `Overlap`.

*The device.*  `DeviceInv` ties `m_usage` to the open files and descriptors to both
(`UsageExact`); `CloserWasLast` says that while kinds are left to free no file is
open, because opens wait for `m_ipc_mutex`, so that the objects left are of the kinds
left.  With forks that is all there is.  Without them, references are compared not with
the handles but with the *users* of an object: the handles, and the ioctls that outlive
them because another thread of the process has closed the device (`CleanupClose`).
Counting handles alone is not inductive, since it leaves such an ioctl without a
reference, and another process's close would take its object away.
A child of a fork has handles without references of its own, hence `Forks = FALSE`.

*Descriptors.*  In `NoForgottenDescriptor` the processes may fork, but have one thread
each.  Then the step of that thread says what the descriptors of its process are
(`DescriptorsKnown`): none between the check and the open, the one it got until it has
stored it, none between the close and the reset of `ipc_driver_fd`, and otherwise at most
`ipc_driver_fd`.  Two threads both find `ipc_driver_fd` unset, and the first descriptor
is lost; `OneWorker` cannot go.

*The module.*  At every step of a start, of the unwinding of one that failed, and of a
removal the next step `lnext` says what is registered at most (`RegisteredAtMost`) and at
least (`RegisteredAtLeast`), up to the device class, of which a later kernel takes an
error for success.  Files hold the module on later kernels (`UsersHoldModule`), so that
the removal meets nobody; the last release frees one kind after the other
(`FreedSoFar`), and no open comes in between.  References are the handles and what a
failing `copy_to_user` has leaked (`RefsExact`).

*Shared memory of POSIX.*  A create that is under way has its slot to itself
(`CreateOwnsSlot`) and writes the size of the handle last (`SizedWhenOpened`), after
the object has its size, whoever gave it; so a mapping is never longer.  `ShmName # {}`
is there for the type of the variable that holds the name of a call.

*Shared memory of System V.*  `LateMapsKnown`: between the look of a delete and its
removal, who has the segment attached is in `tardy`.  `KeysAgree` and
`OneSegmentPerKey` give that handles of a name, unless known to have lost it, have one
segment: the segment has the key of the handle's file, the file is the name's, and a
key has one segment.

*POSIX semaphores.*  A semaphore is bound to one name at most and all its handles have
that name (`OneName`).  What it was given is in it or held (`TokensConserved`), and a
thread that waits does not hold it (`WaitersDoNotHold`), so that a capture moves one
token.  A mutex was given one token, in its semaphore or with its maker, and has no other until it is in
`strayed` (`MutexesHaveOneToken`), hence one holder.
`UnlinkFindsName` says that the name of a delete is still bound unless another delete was
faster; who was overtaken is in `stale`.

*System V semaphores.*  `SETVAL` comes once to a set, and before it the set has no value
to get in with (`SetvalOnce`).  In a set that is only captured and released, the undo
value of a process is 1 if it holds it and else 0 (`UndoExact`), which is what its death
gives back; that with the value it makes the initial value again is
`TokensSurviveDeaths`.  For names: a handle has the key of its set
(`HandlesHaveKeys`), the key is that of the name's file unless that was unlinked
(`KeysOfFiles`), and a key has one set.  A delete that has found a mutex free has no
holder to meet but those who came in since (`HoldersAreLate`), because a mutex is taken
and given back by one token and nobody waits for what it holds.

*The QNX manager.*  A client that has sent a request waits, so what the request asks for
is still so when it is taken (`RequestsUpToDate`): the entry it names is one that the
client has a handle of, and who asks for a capture has none.  An entry is once on the
list of its kind and on no other (`EntriesListedOnce`), also while a close_all skips over
some.  Posts and captures balance at every address, allocated or not (`TokensBalance`).
For a limit below 2148 ms the product with 1000000 does not wrap around, which is
arithmetic on the two halves in `Int32`.

*Threads.*  Each call has a place of its own (`CallsHavePlaces`), and a place that stands
for nothing is not marked (`PlacesWithoutHandle`).  A gate that no signal and no second
start has left up, and that no create went past, is held by one handle at most and is 0 while it is (`GateHeldOnce`); a
paused handle whose thread runs has been started.

*INI files.*  A write edits the lines: there is a map of the old positions to the new ones
that keeps their order, the lines it leaves are as they were, and those it adds or
replaces have the name that is written (`Edited`).  A read is the least position of a
set, `Hits`, and an edit takes the hits of a key that it is `Unlike` to the hits in the new file
(`OtherHitsKept`), the first to the first.  The written option stands after its section
with nothing of its name in between (`Placed`), hence is the first hit unless a line before
it is taken for it.  As long as writes have not overlapped there is one writer, and the
file is empty while it writes (`OneWriter`), so that the file is exactly what it had in
mind.

*Interlocked operations.*  What a call has read is still in the word unless another
call has written since (`FreshReads`), so that its own write is as if the two were one
step; a lock that nobody was told of by mistake has one owner (`OneOwner`), because
the exchange that gives it back comes from that owner.

The proofs made two properties stronger.  `NamesShareOnlyAfterUnlink` of `SystemVIpc` has
no exception for sets that outlive their key file: one of the two handles is always among
those whose file was unlinked.  `PausedUntilStarted` of `IpcThread` has none for gates that
several handles share, where the create waits for them.  The assumptions on `IpcProfile`, `PosixIpc` and `QnxServer` say
what the proofs need of data: the sets of names are not empty, and a word starts with
itself.

Only model-checked is liveness: `WaiterServed`, `SetWakes`, `EventuallyFreed`,
`LimitedWaitEnds` and `RequestsAnswered`.  It rests on fairness, hence
on `ENABLED`, which is out of this prover's reach.  That a search in a recursive
definition ends with what it should is not proved anywhere, because the models have no
recursion: the reads and writes of `IpcProfile` are least elements of sets.

## 5. Plan

Done: the registry, the four kinds, the device, two abstract specifications that the
driver implements; the POSIX and System V backends, the resource manager of QNX,
threads, INI files and interlocked operations, the module and the listing; the proofs
of section 4.  Next:

1. Action properties and abstract specifications of the backends: that the mutexes of
   POSIX, System V and the QNX manager implement `NamedLock` as far as names do not
   split, with the holder as history has it.
2. `EventSound` of `IpcEvent` without `SetsAlone`, as a bound on the waits that racing
   sets can let through.

### Not modelled

- Files, devices, directories, dynamic libraries, sockets, strings, and memory, sleep,
  time and `IPC_itoa` of the system services: one system call or one loop over a
  buffer per function, and no state that two callers share.
- Thread-local storage and the wait of a NULL handle in `threadipc.cpp`.
- `qnx/posix`: the same functions as `linux/libsrc/posix`; what is said of `PosixIpc`
  and `PosixShm` is said of them.  `qnx/insys/qnxipc.cpp` opens its descriptor as
  `linipc.cpp` does, which `IpcDriver` has.
- Windows: the behaviour is in the operating system.
- Tests, the utilities `rmsemsv` and `rmshmsv`, which remove System V objects by hand,
  headers and make files.
