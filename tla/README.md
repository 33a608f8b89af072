# Verification of the Android start-up code: properties, services, actions, ART's classes and threads

The repository is an annotated reading copy of the code that brings an Android
device up: the Linux kernel's `init/main.c` and its neighbours, `init` (pid 1),
bionic's system properties, the zygote's start-up and the parts of ART that it
needs. This directory holds TLA+ models of that code, the TLC instances that
check them, and machine-checked proofs.

## 1. Inventory

`P` stands for `src/app/src/main/cpp/platform`, `init/` for
`P/system/core/init`.

| Part | State it keeps | Operations | Hard behaviour |
|---|---|---|---|
| **Property in shared memory** (`P/bionic/libc/bionic/system_properties.cpp`) | `prop_info`: a 32-bit serial (length, 24-bit counter, dirty bit) and a value buffer; the area's serial | init: update, add; every process: find, read, wait, wait_any | lock-free: init writes the buffer while others copy it; futex sleep against wake; counters that wrap |
| **Property trie and contexts** (same file) | trie of binary trees in a bump-allocated area; list of prefixes and contexts | find, add, foreach; open of a context | nodes linked while others walk; space exhausted half way |
| **Property service** (`init/property_service.cpp`) | properties, `persistent_properties_loaded`, files in `/data/property` | set over a socket (two protocols), boot files, persistent properties | write-once `ro.`, crash between write and rename, socket timeouts |
| **Services** (`init/service.cpp`, `signal_handler.cpp`) | per service flags, pid, times, crash count; one `exec_waiter_`; the signal socket | start, stop, reset, restart, enable, class commands, exec, exec_start, reap, restart after 5 s | children exit at any time, SIGCHLD does not queue, commands arrive for a process that is dying |
| **Actions and main loop** (`init/action.cpp`, `init.cpp`) | `actions_`, `trigger_queue_`, `current_executing_actions_`, `property_triggers_enabled`, what `wait_for_prop` waits for | queue triggers, run one command, restart, sleep in epoll | triggers raised before they are enabled, waits, imports that change the running action |
| **rc parser** (`init/init_parser.cpp`, `parser.cpp`, `import_parser.cpp`) | sections, pending imports | parse a file or directory | text only |
| **First stage, SELinux set-up, ueventd, watchdogd, other builtins** | none of their own | mounts, policy, device nodes | I/O |
| **Zygote start-up** (`app_main.cpp`, `AndroidRuntime.cpp`, `ZygoteInit.java`, `ZygoteHooks`) | options, registered natives, hooks around fork | start the VM, preload, fork | no threads may run across the fork |
| **ART** (`P/art/runtime`) | class table and class status; thread state words, suspend counts; shared-library table; JNI references | define, link and initialize classes; attach, suspend, checkpoint; load libraries | many threads, locks per class, waiting for another thread's initialization |
| **Kernel** (`src/app/src/main/cpp/msm`) | kthreads, pids, scheduler, RCU | kthread create/stop/park, pid allocation, `rest_init` | third-party; concurrent |
| **libcore, libselinux, atrace, NDK example** | none | system-call wrappers, tools | none of their own |

How the parts interact. init is one thread: its loop runs one command of the
action queue, restarts services that are due, and then handles one event:
bytes in the signal socket (children to reap), a connection to the property
service, a keychord. Setting a property (by a command, by a service changing
state, by a client) updates the shared memory, may queue a property trigger and
may end a `wait_for_prop`. Services tell the world their state by
`init.svc.<name>`; an `exec` holds the action queue up until its process is
reaped. Every other process reads the shared memory directly.

What makes each part correct:

* properties: a read never returns a mixture; nobody sleeps through a change;
* property service: what a client is told is what happened; `ro.` is written
  once; a crash leaves every file with its old or its new value;
* services: init's idea of which process belongs to which service is the
  kernel's; no exited child is forgotten; a stop sticks; a crash is followed by
  a restart;
* actions: init does not sleep while it has work; no property change is missed
  at boot; waits end exactly when their condition holds;
* trie: a look-up is true at an instant of its call; a foreach skips and repeats
  nothing; a full area loses nothing;
* class linker: one class for a name and a loader; each initializer runs once,
  after those of the supertypes unless it runs inside one of them; nobody waits for
  ever but threads that wait for each other for classes that need each other;
* threads: nobody runs in a pause; a checkpoint runs once, in the thread or for
  it; every request is answered.

`PROJECT.json` lists the hazards with the lines where they bite.

## 2. Plan

1. `PropInfo`, its instance and its proofs (done): the protocol every process
   on the device depends on, and the one no test reaches.
2. `Services` (done, with proofs): the life cycle of services and reaping.
3. `Actions` (done, with proofs): the queue and the loop.
4. `PropertyService` (done, with proofs): `property_set`, write-once, the two
   protocols and their timeouts, persistent properties with crashes between
   temporary file, rename and load.
5. `PropTrie` and `PropStore` (done, with proofs): the trie as a linked
   structure that readers walk while init links nodes into it; a set of names
   with atomic look-ups as its abstract specification.
6. `ClassLinker` (done, with proofs): find, define, link, verify and initialize
   by concurrent threads.
7. `Threads` (done, with proofs): the state word, checkpoints, suspensions,
   births.

Every safety property that a run checks is also a theorem. The first components to
add are in section 6.

## 3. Modules

### PropInfo (system_properties.cpp)

One property and the area's serial. init's `__system_property_update` is
`UpdateBegin` (dirty bit), `UpdateCopy` (one byte of `strlcpy`), `UpdatePublish`
(length and counter in one store), `UpdateWake`, `BumpArea`, `WakeArea`;
`__system_property_add` of another property is `AddOther` and the last two. A
client loads the area's serial (`LoadArea`), reads (`LoadSerial`, `DirtyWait`,
`CopyByte`, `CheckSerial`: `__system_property_serial`, `_read` and
`_read_callback`), and may wait on the property or on the area (`BeginWait`,
`WaitFutex`, `WaitLoad`, `Interrupted`: `__system_property_wait`, `_wait_any`).

A byte is represented by the number of the update that wrote it, so a torn read
is one whose bytes have different numbers. Bytes are copied in any order on both
sides. The fences of the code order the dirty store before the copy and the copy
before the publishing store, and the loads likewise; the model is sequentially
consistent within that order, which is what the code's comments claim of it.
The widths of the counters are parameters (`Half`: 2^23, `AreaMod`: 2^32 in the
code). History variables `ver`, `bumps`, `cver`, `cbumps` count without wrapping.

### Services (service.cpp, builtins.cpp, init.cpp, signal_handler.cpp)

The flags, `pid_`, `init.svc.<name>`, crash count and times of each service, the
children as the kernel sees them, SIGCHLD and the socket it is written to. Each
call of `Service` is an operator of the same name; `Command`, `ClassCommand`,
`ControlMessage` and `ExecCommand` are the ways in, guarded as in the loop
(commands not while an exec is waited for, control messages always). A class
command and the `onrestart` commands of a reaped service are lists of calls, and
signals and exits interleave with them. `ReapOneProcess` is one turn of the reap
loop. Time is two booleans per service: less than 5 s since the start, within
four minutes of the first crash. A null `exec_waiter_` read by
`ReapOneProcess` ends init (status `segv`), as a panic does.

Left out: process groups beyond the main process; what the child does between
fork and exec; `Terminate`, which nothing in the tree calls; keychords (a start
like a control message); class and control operations on the temporary services
of `exec`; `wait_for_prop`, which holds up restarts as an exec does (see
`Actions`).

### Actions (action.cpp, init.cpp, builtins.cpp)

`actions_`, the trigger queue, the actions being executed, the properties, the
two waits, and the loop as three program points: `CommandStep`, `RestartStep`
(restart services, then choose the timeout), and the event or timeout. Commands
are the builtins that touch this state (`setprop`, `trigger`, `wait_for_prop`,
`exec`, `mount_all` with its late import and filesystem event, the two builtin
actions that enable and evaluate property triggers); every other builtin is
`other`. Other boot-time builtin actions behave like an event with `other`
commands. `owed` is a history variable: the property actions whose conditions
came true and that have not been started since. rc files are parameters: which
actions there are, their commands, event names and conditions. Assumed of them
(`ScriptAssumption`, `TriggerAssumption`): every action has a command, and no
section is named after one of init's two builtin actions. `Select` is `SelectSeq`
written so that it can be reasoned about; `MCActions` checks that they agree.

### PropertyService (property_service.cpp, system_properties.cpp)

init's side: a handler (the boot files and `start_property_service`,
`load_persist_props`, one connection) is a list of `property_set` calls, run one
by one by `PropertySet` and `PropertySetFails`. A call on a persistent property
goes on through `WriteTemp` (or `MkstempFails`), `Fsync` and `Rename`, the points
at which a crash finds different things on the disk: `file` is the directory as
processes see it, `disk` as a crash would leave it, and the file system copies
one to the other at any time (`Writeback`), perhaps with only part of the content
if that was never forced out. None of the results of `write` and `fsync` is looked
at, so both may fail and the rename comes all the same. Three history variables say
what went wrong: `torn` (a write or an fsync of that file has failed, ever),
`spoilt` (in this boot, the file could not be read, or not be written since the
property was last set) and `again` (`load_persist_props` ran with the files loaded
already). `Accept`, `Receive` and `ReceiveTimeout` are
`handle_property_set_fd`; the two seconds are a choice, and a message that comes
too late for its name and value to be read is one of the outcomes.

The clients' side is `__system_property_set`: `Connect` (with the detection of
the protocol), `Send`, and the two ways to wait for the end, `FinishLegacy` and
`Finish`. `Crash` loses power or kills init, which is the same for a client.

A name is a model value with its kind (`Ro`, `Persist`, `Ctl`, `Illegal`); a
value is also a possible name, as the code makes it one for protocol 1, and may be
one of any kind: a call of protocol 1 whose value is a `persist.` name writes that
property's file. Assumed of the constants: the kinds exclude each other as their
prefixes do, the two properties that init sets by itself are `ro.` names, and the
marks for "no value" and "part of a value" are no values.
`property_changed` and control messages are the subject of `Actions` and
`Services`. Left out: the text of property files, `load_system_props`, failures
of `accept` and `getsockopt`, a message that arrives in pieces, and a file
system mounted over `/data` between two loads.

### PropTrie and PropStore (system_properties.cpp)

The areas of the contexts as functions from offsets to `prop_bt` and `prop_info`,
`bytes_used_`, and the lists of prefixes and contexts. `ReadLine` builds the
lists; `Begin`, `Level`, `Search` and `Prop` are one load each of
`find_property` and `find_prop_bt`, for readers and for init; where init meets a
null pointer, `Allocate` makes the object that `Link` then stores a pointer to,
so that a reader runs between the two. `BeginForeach`, `Visit` and `EndForeach`
are `foreach_property` with its recursion as a stack. `Walker` and `Foreach` are
the local variables of the two kinds of call, `Lookup` what a call is to
`PropStore`. What is behind a pointer
is visible with it (release and consume in the code). A token is a number, which
stands for the order of `cmp_prop_name`; the empty token is that of `a..b`.

`PropStore` is what the trie promises: a set of names that grows, and look-ups
that take effect at one instant. `Linearizable` is its specification under the
mapping in `PropTrie`: the set is what pointers lead to, and a look-up takes
effect at its last load, the one of the null pointer or of `prop`.

Left out: opening and mapping the files, the access rights of a process to a
context, and the text of `property_contexts`.

### ClassLinker (class_linker.cc, jni_internal.cc)

The class objects with status, initializing thread, supertypes and monitor; the
class tables of the boot loader and of one `PathClassLoader` above it; and for
each thread the stack of the calls it is in. A step runs to the next point at
which another thread could see a difference: a monitor taken or released, a
table read or written. The functions keep their names: `FindClass` with
`FindClassInBaseDexClassLoader` and `Found`, `CreateArrayClass`, `DefineClass`,
`InsertClass`, `LoadSuperAndInterfaces`, `LinkClass`, `EnsureResolved`,
`VerifyClass`, `AttemptSupertypeVerification`, `InitializeClass`,
`WaitForInitializeClass`, `InitializeDefaultInterfaceRecursive`. An instantiable
class is defined as a temporary object, which `LinkClass` retires and replaces by
a copy; those who found the temporary one wait for that. Each allocation, check
and initializer may fail (`faults`), and a wait may end without a notification
(`spurious`). Monitors, `SetStatus` and its notification are external. The iftable
is a set: the order in which `Supertypes` lists it is arbitrary but fixed.

Left out: the compiler (AOT statuses, transactions), images and oat files, the
layout of vtables, IMT and fields, proxies, the resolution of members, the
classes the verifier loads by itself and those of catch blocks that
`ResolveClassExceptionHandlerTypes` loads while it holds the monitor of the class
(`class_linker.cc:4121`), and `init_done_` false.

Assumed of the hierarchy (`HierarchyAssumption`): arrays have a component, and the
supertypes of an interface are interfaces (`LinkSuperClass` and the iftable's
set-up reject others). Nothing excludes cycles: initializers may use each other, a
superclass's may use its subclass, an interface's a class that implements it, and
classes and interfaces may be their own supertypes, directly or through others. A
class that extends itself directly is a `ClassCircularityError`
(`class_linker.cc:5571`, `extendsItself`), as is an interface that does when
`EnsureResolved` meets it; a class that is its own superclass through another one
waits for its own temporary object for ever, which the code has as a TODO
(`:5567`). `Needs` is what a class needs to load and in its `<clinit>`, `Behind` the
same through others, and `Loops` the classes that need themselves so: three of the
properties speak of them. The history variable `denied` has the loaders and
descriptors for which `DefineClass` could not allocate a class. Of the other
constants: the loaders differ, and `NULL` is no thread, descriptor, class or text
of a CHECK (`ConstantsAssumption`, `NullAssumption`).

### Threads (thread.cc, thread-inl.h, runtime.cc)

Each `Thread` with the word of state and flags, the suspend count, barriers,
closures and flip function, and where it is between managed and native code:
`BecomeSuspended`, `SeeBarrier`, `Claim`, `PassBarrier`, `BecomeRunnable`,
`WaitToResume`, `CheckSuspend`, `TakeCheckpoint`, `RunCheckpoint`. Requesters ask
for a synchronous checkpoint (`LookAt` to `LetGo`: it either installs the closure
or holds the thread suspended and runs it itself), for an empty checkpoint, or
suspend all threads. A step is one critical section of
`thread_suspend_count_lock_`, or a load and the swap that depends on it; the load
and the swap of `RequestCheckpoint` are two steps. Of a suspension, `RaiseOne`
raises a thread's count and gives it the barrier, and only then, with the lock
still held, `ClearOne` looks at the thread's state and takes the barrier back if it
does not run. The swap that ends `kRunnable` takes no lock and can come in between,
so that `Claim` finds its flag gone (`thread.cc:1238`). `LockList` takes
`thread_list_lock_` and `HoldSuspended` raises the count with it held, however long
it has to retry (`thread.cc:1432`). `CreateNativeThread`,
`CreateCallback`, `Attach`, `Destroy`, `Unregister` and `AwaitBirths` are the life
of threads against `~Runtime`. The CHECKs and `LOG(FATAL)`s on the way are aborts,
but for one: `CHECK(self->Init(...))` of `CreateCallback` (`thread.cc:424`) is left
out, which fails only if the stack of the new thread cannot be set up.

`thread_list.cc` is not in the repository: suspension of all threads,
registration and the flip of threads that sleep in the transition are modelled
from the calls and comments in `thread.cc` and marked external. Also assumed of
callers: a requester keeps its target from being detached, and empty checkpoints
are one requester's at a time. Of the constants: there are finitely many threads
and requesters, and `NULL` is none of them and none of the kinds of request.

## 4. Runs

| Run | Instance | Shows |
|---|---|---|
| `propinfo` | 1 client, 2-byte buffer, counter of 4, area serial of 3, 4 updates or adds | no torn read, no lost wake-up, no missed update; reads and waits return |
| `services` | a critical service with an `onrestart`, a disabled one, one exec, 3 pids, 3 requests, 1 orphan, socket of 2 bytes, crash limit 1 | pids, signals, stops and `init.svc` agree |
| `services_live` | one critical service, 2 pids, any number of requests, crashes and orphans | every exited child is reaped, every crashed service is started again |
| `services_exec` | as `services` | **violation**: commands go on although an exec has not finished |
| `services_restart` | as `services` | **violation**: a `restart` of a service that is being stopped is lost |
| `actions` | boot, imported, waiting, exec and four property actions; 4 events from outside | no sleep with work, no missed property, waits are needed, the queue drains |
| `propservice` | a client of each protocol, 2 calls, backlog of 1, a name of each kind, the persistent one also as a value, a default, a file and an override for the persistent one, 1 crash, 2 loads | answers are true, `ro.` is written once, files survive crashes and agree with memory |
| `propservice_live` | the same with one request per client and 1 load | a call that has sent its message returns |
| `propservice_legacy` | as `propservice` | **violation**: a call with protocol 1 sets another property |
| `proptrie` | 1 reader with 1 call, 4 adds of 6 names of 1 or 2 tokens, 5 lines with `*` and `ctl.`, 2 areas of 13 units (node 2, property 3) | the trie is a set with atomic look-ups; foreach, allocation, prefixes; calls return |
| `classlinker` | 2 threads with 1 call, 2 loaders, 13 descriptors in 7 groups of which the threads ask for one, 1 failure, 1 spurious wake-up | one class for a name, one `<clinit>`, supertypes first or further out, no thread left waiting but those that wait for each other |
| `threads` | 2 threads, 2 requesters, 1 barrier; one of three scenes: two requesters ask the main thread, a thread is born and detached during a shutdown, two suspensions at once | no CHECK fails, requests are honoured and answered |

Why the bounds are enough. In `PropInfo` clients only read what init writes, so
one client meets every interleaving with init that several would (the theorems
are for any set); both counters wrap within four updates, and a buffer of two
bytes can be torn. In `Services` three requests reach every pair of
requests on a service whose process is dying, and the third one's effect; three
pids allow both services and an exec to be alive together; the crash limit and the socket are small so
that both are exceeded. In `Actions` four events are enough for a property to
be set before, between and after enabling and evaluation of triggers, with a
service exit as well. In `PropertyService` two calls let one client be served,
refused or timed out while the other waits, and set the same persistent property
twice around a crash or a second load; additions fail only after boot. In
`PropTrie` readers only read, so one meets what several would; 13 units hold some
of the names, so that an add fails after it has linked nodes, and the four adds
try it again. In `ClassLinker` the two threads ask for the same or for related
classes, and so meet in every pair of functions: a boot class `S` and its array
through both loaders; `C`, which extends `S`, implements `I` and uses itself, with
`I`, which has default methods, a super-interface `K` and an initializer that uses
`C`; `I` with `E`, which also implements it; `P`, whose initializer uses its subclass
`Q`, which implements `D`; `A` and `B`, which extend each other; a class `X` and an
interface `J` that extend themselves; a class that is not there. From the two ends
of `I` and `C`, of `P` and `Q` and of `A` and `B` the threads do come to wait for
each other. The failure or the spurious wake-up may hit either. In `Threads` the code's
three barriers are one, so that the list is full when two suspensions meet; two
requests of each requester allow a second to come while the first is being
answered, and a thread to leave `kRunnable` between its barrier and the look at its
state. The scenes keep apart what would only multiply.
Deadlock is checked only in `PropInfo`: init goes down for good after a panic, a
failed CHECK ends a process, and the bounded instances run out of calls and events;
`PropInfo` has no such state.

### Fairness

* `PropInfo`: init finishes an update it has begun, and a client that is not
  asleep runs (weak fairness). Nothing obliges init to update or a client to read.
* `Services`: a handler in progress goes on and pending signals are delivered
  (weak). Strong fairness on `HandleSignal`, since epoll's ready list serves
  descriptors in turn; on `ReapOneProcess(p)`, since waitpid takes the
  children in turn; on `RestartIfNeeded(s)`, since `restart_processes` runs in
  every iteration that is not waiting. Clients and children owe nothing.
  `Respawn` is conditional on execs ending and on children not exiting for ever
  faster than init reaps them: the code promises no more.
* `Actions`: init's thread runs (weak). `QueueDrains` is conditional on waits
  ending again and again.
* `PropertyService`: init runs a handler to its end (weak), and epoll serves the
  socket in its turn (strong fairness on `Accept`); a client takes its answer.
  No client has to send what it connected for, and disk writes may never happen.
* `PropTrie`: a reader that has begun a call runs on (weak).
* `ClassLinker`: each thread's next step is taken (weak): monitors are handed on
  and Java code in `loadClass` and `<clinit>` ends.
* `Threads`: a thread goes on through its transitions and compiled code polls the
  flags (weak, `Runs`), requesters go on (weak, `Serves`), and `~Runtime` runs when
  it has been woken. No thread has to enter or leave native code.

### Findings

1. `SVC_EXEC` is never cleared and there is one `exec_waiter_` for all: after
   `exec_start` of a service that already runs, the death of that service while
   a later exec is waited for ends the wait early; with no exec in progress it
   makes `ReapOneProcess` read through a null pointer
   (`service.cpp:1063`, `:1086`).
2. `restart` of a service that has been stopped or reset and not yet reaped is
   lost: `Reap` looks at `SVC_DISABLED | SVC_RESET` before `SVC_RESTART`
   (`service.cpp:294`).
3. With protocol 1 the value is passed as the name: the call sets (if the policy
   allows it) a property named like its value, and the client reports success
   (`property_service.cpp:422`).

Smaller observations from the same model, not runs of their own. A failed
`mkstemp`, `write`, `fsync` or `rename` is reported as success: the exceptions
`spoilt` in `MemoryMatchesFiles`, which ends with the next write that succeeds or
the next boot, and `torn` in `FilesAreGenuine`. A second `load_persist_props` writes
`local.prop` over the persistent files before it reads them (the exception `again`
in `FilesAreGenuine`; the first one does not). And by finding 3 a client of protocol
1 that asks for any property with a `persist.` name as the value writes that name's
file, if the policy lets it set that name.

Observations about ART, also not runs of their own:

* `RequestSynchronousCheckpoint` lowers the suspend count without a broadcast of
  `resume_cond_` (`thread.cc:1455`): a thread that tried to become runnable in the
  meantime stays asleep until another resume broadcasts. The request itself is
  answered (`Answered`).
* `VerifyClass` takes a return from its wait for a change of the status and
  CHECKs it (`class_linker.cc:3995`), so a spurious wake-up ends the process;
  `WaitForInitializeClass` allows for one.
* the CHECK at `class_linker.cc:4128` ends the process if the superclass's
  `<clinit>` fails in another thread while the class is being verified.
* `CreateArrayClass` accepts any class in the table as component when `FindClass`
  failed, for instance a temporary one after an `OutOfMemoryError`.
* two threads that initialize, or define, classes that need each other from
  different ends wait for each other for ever (`class_linker.cc:4675`), as the Java
  language allows of initializers. One thread does whose class is its own superclass
  through another (`:5567`). `CallsReturn` makes an exception of these, and of no
  other wait (`Entangled`: each waits for a class that another of them defines or
  initializes, and one of the classes is in `Loops`).
* an interface is marked by `SetRecursivelyInitialized` also when
  `EnsureInitialized` returned at once because the same thread is initializing it
  further out. Other threads then skip it and run the `<clinit>` of a class that
  implements it before that of the interface has ended; the comment
  (`class_linker.cc:4889`) calls the mark purely a performance optimization. This
  is what `Begun` in `InitSeen` allows for interfaces in `Loops`.

`FaultsOnly` states when the second to fourth happen: the first CHECK fails only after a
spurious wake-up, the second only with the superclass of the class in the verifier
erroneous, and a retired class is a component only after `DefineClass` could not
allocate one for that loader and descriptor.

## 5. Proofs

Each theorem below is proved for every value of the constants that satisfies the
assumptions of the module. The argument is the same everywhere: an invariant
`IInv`, a lemma that `Init` implies it, one lemma per action (or per operation that
several actions share), `Spec => []IInv`, and what follows from it.

### PropInfoProofs

For every finite set of clients, every buffer length, every `Half >= 1` and
`AreaMod >= 1`:

* `TypeCorrect`: `Spec => []TypeOK`
* `ReadsAreAtomic`: `Spec => []NoTornRead`
* `WakeupsAreNotLost`: `Spec => []NoLostWakeup`
* `UpdatesAreNotMissed`: `Spec => []NoMissedUpdate`

None of the three safety properties is inductive. The invariant `IInv` adds:

* `WriterInv`: the dirty bit is set exactly while init is writing the buffer;
  outside of that every byte up to the terminator is of the published version,
  inside, every byte already stored is of the next one;
* `CountInv`: how far the serials have moved since a client loaded them: the
  counter by two per published update as long as fewer than `Half` were
  published, the area's serial by one per bump as long as there were fewer than
  `AreaMod`. This is what makes the comparison of two serials mean something in
  spite of the wrap (lemma `EqualSerial`);
* `ReadInv`: while a client copies and no update has begun since its load, its
  serial is the current one and every byte it has copied is of that version;
* `SleepInv`: a thread asleep on a serial that moved has not been woken yet, and
  a client whose area serial is still current has read the current version, or
  init has published and not bumped yet.

### ServicesProofs

For every set of services and `onrestart` scripts, every set of pids, crash limit
and capacity of the socket:

* `TypeCorrect`: `Spec => []TypeOK`
* `PidsAreAlwaysOwn`: `Spec => []PidsAreOwn`
* `SigchldIsNeverLost`: `Spec => []SigchldNotLost`
* `StopAlwaysSticks`: `Spec => []StopSticks`
* `SvcPropertyIsTrue`: `Spec => []SvcPropertyAgrees`, if `OnRestartOthers`

The first four are one inductive invariant: a stop kills the process of the
service's `pid_`, which needs `PidsAreOwn`, and the reap loop finds the service by
pid. What every call of `Service` keeps is stated once (`CallKeeps`) and shown for
each of `Start`, `StopOrReset`, `Restart` and the rest; the actions follow from it.
The last one needs two more facts. While the `onrestart` commands of a reaped
service run, its property is still the one of before (`NotifyStateChange` comes
last), so `WorkInv` says that the service has no process during them. That is
false when a service's `onrestart` starts the service itself: it is then running
when `Reap` ends and `init.svc.<name>` becomes `restarting`. `OnRestartOthers`
excludes such scripts. No script in the repository is one, and the parser accepts
one, so this is a hypothesis of the theorem and not an assumption of the model.

### PropertyServiceProofs

For every set of clients and calls, names of each kind, values, boot files,
overrides and contents of the disk, and every backlog:

* `TypeCorrect`: `Spec => []TypeOK`
* `RepliesAreTrue`: `Spec => []ReplyIsTrue`
* `FilesAreAlwaysGenuine`: `Spec => []FilesAreGenuine`
* `MemoryAlwaysMatchesFiles`: `Spec => []MemoryMatchesFiles`
* `ReadOnlyIsWriteOnce`: `Spec => WriteOnce`, an action property

What the invariant adds to them:

* `TodoInv`, `BootInv`: a handler's list is empty exactly between two handlers;
  before the socket exists nothing is loaded or served; afterwards whatever is
  still to be set on a persistent property may also be in its file, unless the
  files have still to be loaded first (`Pending`): this is why the first
  `load_persist_props` leaves no value of `local.prop` in a file;
* `WriteInv`: while a file is written, memory has the value already, the temporary
  file has it too or the write failed, and when it comes to the rename the content
  is on the disk or the fsync failed. This is why a crash leaves part of a value
  only of a name in `torn`;
* `FileInv`: what is in the directory and what a crash would leave are both genuine;
* `MatchInv`: memory and file agree, or a call that will make them agree is in the
  list (while the directory is being loaded), or the file is being written;
* `CallInv`, `AnswerInv`: the calls in the backlog and the one served are different
  and unanswered, and have had no effect until `property_set` is called.

### ActionsProofs

For every set of rc actions, commands, conditions, properties and services:

* `TypeCorrect`: `Spec => []TypeOK` (with it: the command that is next exists)
* `NeverSleepsWithWork`: `Spec => []NoSleepWithWork`
* `WaitsAreNeeded`: `Spec => []WaitIsNeeded`
* `PropertiesAreNotMissed`: `Spec => []NoMissedProperty`

The last one is the hard one: it speaks of an empty queue, and the invariant of
what is in the queue before that. `OwedInv` says that once triggers are enabled
each action that is owed a run is waiting in what is being executed, or a trigger
in the queue will start it: one for a property of its conditions *with the value
it has now* (a later change queues another), or the evaluation of all properties.
`EnableInv` says that this evaluation comes: the builtin action that queues the
enabling one is still to come, or the enabling one is, with the evaluation behind
it in the queue. `CmdInv` keeps the builtin actions' single command against late
imports. `QueueInv` takes what runs and what is queued as parameters, because a
trigger is taken off the queue and its first command run in one step.
The attempt to prove it corrected the model twice: an event trigger never
matches an action without an event (`CheckEventTrigger`), and `mount_all` owes
nothing for a `ro.` property that it could not set again.

### PropTrieProofs

For every set of readers, names and tokens, every `property_contexts` and every
size of areas, nodes and properties (with a root that fits):

* `TypeCorrect`: `Spec => []TypeOK`
* `ForeachIsComplete`: `Spec => []ForeachComplete`
* `TrieIsLinearizable`: `Spec => Linearizable`, the refinement of `PropStore`
* `LongestPrefix`: `Spec => []LongestPrefixWins`
* `SpaceIsAccounted`: `Spec => []NothingLeaks`

The code never states what a node is there for: that follows from the pointers on
the way to it. The proofs name it. Each node that pointers lead to has a *level*
`lev`, the tokens on the way to its binary tree, and a *range* `rng`, the tokens
that a search which comes to it can be looking for; `IInv` says that such
functions exist, and each step says what they become. On them rests:

* `Tree`: a node has the level and the range of the pointer to it (`Edges`), for
  each token of a level there is at most one null pointer at which a search can
  end (`Gaps`) and none if there is a node (`Taken`), nodes have different words
  (`Unique`), and beginnings of words have nodes (`Closed`). `Linking` a node keeps
  all of it, with ranges cut at the new node;
* `WalkOK`, `LinkOK`: where a walk stands, the token it looks for is in the range
  of the node it stands on; and the null pointer that init met is still null when
  it links, since nobody else writes;
* `PropInv`: `prop` of a node is the property of the node's word, and of no other.

A look-up that ends at a null pointer then proves the name absent *at that load*
(`NullSlot`, `NotHeld`), which is the refinement: the reader's last load is
`Answer`, init's store to `prop` is `Add`, and every other step is a stutter.
For foreach, `Ahead` says which words an entry of the stack will still come to;
`ForeachOK` says that every property there at the beginning has been seen or is
ahead, that what has been seen is not ahead, and that two entries have nothing
ahead in common (`Apart`). A node linked meanwhile comes below one entry or none.

The last two theorems add `FileInv` (the list of prefixes holds the lines read so
far but those of `ctl.`, longer ones first and `*` last; the insertion of a line
keeps it so) and `SpaceInv` (`bytes_used_` counts the nodes and the properties,
each node but the root is pointed to, each property belongs to a node or is about
to be linked, and each word is the beginning of a name). Only `NothingLeaks` needs
the set of names to be finite. The attempt to prove `LongestPrefixWins` corrected
its statement: it chose by `CASE` with conditions that overlap.

### ThreadsProofs

For every finite set of threads and of requesters, every capacity of the list of
barriers and every number of requests:

* `TypeCorrect`: `Spec => []TypeOK`
* `NeverFatal`: `Spec => []NoFatal`
* `RequestsAreHonoured`: `Spec => []RequestHonoured`

A requester decides from one load of a thread's word what to do, and a thread from
its own flags; what the two know of each other is counted, not stored. The
invariant says what each counter counts:

* `CountInv`: a thread's suspend count is the number of its `Holders`, the
  suspensions that have come to it and the synchronous checkpoints that hold it;
  `suspend_all_count` is the number of suspensions under way. A thread that is
  registered in the middle of one takes that number as its count, which is right
  because it is in nobody's list of threads still to be raised;
* `BarrierInv`: a suspension's barrier is the number of threads `Pending`, those
  still to be raised and those that have its barrier or have claimed it. A thread
  that runs although a suspension holds it has that barrier: so when the barrier
  is zero nobody runs, and nobody passes a barrier that is not counted;
* `ClosureInv`, `EmptyInv`: a closure is in one place of one thread, at most once,
  and its requester waits for it; the barrier is one less than that when the
  closure runs before its requester has counted it;
* `BirthInv`: `threads_being_born_` is the number of threads between
  `StartThreadBirth` and their registration, so none is when `~Runtime` is past its
  wait;
* `LockInv`, `TargetInv`: who holds a lock from one step to the next, and that the
  thread a request is about is registered and not being detached;
* `ThreadOK`, of one object: the flags agree with the fields, and where the thread
  is in the code with what it can have pending (`PlaceAgrees`): checkpoints only
  while it is runnable, no barrier both in its list and claimed, a flip function only
  on its way from the sleep to `kRunnable`. This excludes each abort.

Beside `IInv` stands `ClearInv`: between raising a thread's count and looking at its
state a requester's barrier is still where it put it, since nobody claims one
without the lock. The two are inductive together (`Inductive`), and `ClearStep`
keeps the second: no step of another takes a barrier away (`BarriersStay`). A thread
that has a barrier is held, so its count is not zero and it has no flip function
(`BarrierHeld`).

The lemmas follow the shape of the steps: those of a thread on its own object
(`LocalStep`, `PlaceStep`, `OwnParts`), of a requester on its own (`RequestStep`),
of a requester on a thread (`JointParts`, `CalmParts`, `GripStep`, and `GatherStep`
for the two steps of a suspension), and of threads
that are born or detached (`RegistryStep`, `QuietStep`, `JoinStep`).

### ClassLinkerLoadingProofs and ClassLinkerProofs

For every set of threads, every hierarchy and class path that satisfies
`HierarchyAssumption`, and any number of failures and spurious wake-ups:

* `TypeCorrect`: `Spec => []TypeOK` (with it: monitors are left as often as entered)
* `FindsOneClass`: `Spec => []OneClass`
* `ClinitRunsOnce`: `Spec => []ClinitOnce`
* `SupertypesFirst`: `Spec => []InitSeen`
* `ChecksFailAfterFaults`: `Spec => []FaultsOnly`
* `HasOneInitializer`: `Spec => []OneInitializer`: a class that is being initialized
  has exactly one frame of one thread that will store its final status

A function of the class linker calls others, which release what it holds or meet
the same class again, and goes on from what it knew. So the invariant speaks of
whole stacks, and the calls between two functions may be any number:

* `Objects`, `Tables`: which statuses a temporary class, its copy and any other
  class can have, that supertypes are resolved classes that the class needs, which
  object the table has for a name, that what was returned is that object, and that an
  initializer that has run shows in the status of its class;
* `FrameOK`, of one frame: what the function relies on at that place, whatever its
  callees do. A frame in `DefAts` defines a class that only its thread touches, one
  in `Ver2` or `Ini2` has the class in a status that no other thread changes;
* `LinkOK`, of a frame and its caller: what was called for. `BelowOK`, of any two
  frames of a stack: the inner one is for a class that the outer one's needs
  (`Behind`), no two define or initialize the same class, and above a frame that
  verifies there is verification only;
* `TopOK`, of the innermost frame: where an exception may be pending and what the
  last result is worth, also after a failed look-up (`Dead`);
* `Monitors`: `Held` is the set of frames of a thread that hold a monitor; the
  owner's count is its size, and a waiter has saved it. It is at most three
  (`ThriceHeld`): where the class is defined, where it is about to be initialized,
  and in the innermost frame;
* `Verifiers`, `Initializers`: one thread verifies a class; a class in status
  `Initializing` has its frame in the stack of the thread it names;
* `Orders`: the superclass that a frame of `InitializeClass` is done with
  (`DoneWith`) is initialized, or is being initialized further out in the same stack
  (`Within`). The interfaces it has passed are `Ready`: initialized, or in `Loops` and
  begun;
* `Aborts`: the first CHECK fails after a spurious wake-up only.

`SuperFailed`, for the second CHECK, is a small invariant of its own: only
`VerifyClass` aborts (`AbortedBy`), and nothing moves afterwards.

An action that preserves this changes one stack and a few class objects. `Grows`
says what may become of objects and tables (statuses go forward, entries are
replaced only by the copy), `Own` what each frame needs to be left alone, and the
lemmas of section "A whole step" put the parts together: an action shows `Grows`,
that the frames of the others are `Apart` from the objects it changes, and the
new innermost frame. `Apart` follows from the monitor for the steps that hold one,
and from `Verifiers` and `Initializers` for the others.

Two arguments are not local. A thread that finds a class being initialized by
itself returns at once, without an exception (`Recursive`). If that is the superclass that
`InitializeSupers` has just asked for, then its frame is further out in the same
stack (`Initializers`), and stays there as long as this one (`Within`): the
`<clinit>` that runs next runs inside the superclass's. If it is an interface, then
by `BelowOK` what is initialized now is behind the interface and needs it, so that the
interface is in `Loops`. It cannot be the caller's class, below which there is
nothing. And two objects of one name and loader, neither temporary, are the same object
(`UniqueGood`), since the table had room for one: hence one run of `<clinit>` for
an object is one for the name. TLC checked the invariant on the instance of the
`classlinker` run before it was proved. The proof attempt corrected it where a
verification had released its class (`VerFrame`) and for frames that a callee
replaces by another function of the same class (`Kin`).

### Only model-checked

Every liveness
property (`ReadReturns`, `WaitReturns`, `ChildReaped`, `Respawn`, `QueueDrains`,
`CallReturns`, `FindReturns`, `CallsReturn`, `Answered`): fairness is outside the
prover's reach.

## 6. Not modelled

* The kernel sources (`msm`): third-party files that the repository only
  annotates, most of them (scheduler, RCU, memory policy, assembly) about
  memory and hardware that a model of this size would not be faithful to.
  `kthread.c` (create, stop, park) is the one that could be modelled alone.
* rc parser, first stage, SELinux set-up, ueventd, watchdogd, most builtins,
  libcore, atrace: sequences of system calls or text, without state of their own
  that two actors share.
* Zygote start-up: straight-line code up to the fork; what it needs of threads is
  in `Threads`.
* JNI references and the start and stop of the runtime's subsystems:
  `IndirectReferenceTable` and `Heap` are not in the tree, and what remains wraps
  single calls.
* `LoadNativeLibrary` and `UnloadNativeLibraries` (`java_vm_ext.cc`): a table under
  a lock, and a wait for another thread's `JNI_OnLoad`; the first component to add.
  Reading it shows that a thread that loses the race to add a library is not
  asked whether its class loader is the one of the library it found, as a thread
  that comes later is.
* Of the components that are modelled in part, `PROJECT.json` says what is left.

The map covers a small share of the repository for this reason: most of its
lines are the kernel's and the class linker's layout code.

## 7. Running

    tlc -workers 2 -config MCPropInfo.cfg MCPropInfo
    tlapm PropInfoProofs.tla        (likewise ServicesProofs, PropertyServiceProofs,
                                     ActionsProofs, PropTrieProofs, ThreadsProofs,
                                     ClassLinkerLoadingProofs and ClassLinkerProofs)
