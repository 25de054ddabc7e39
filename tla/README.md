# User-mode scheduling (UMS): models, checks and proofs

The repository implements user-mode scheduling for Linux: a kernel module
(`src/src/module`) that switches register contexts between *schedulers*
(pthreads) and *worker threads* on request, a library (`src/src/library`) that
wraps its ioctls and keeps a cache of what can be run, and three example
programs. This directory holds TLA+ modules translated from that code, TLC
configurations that check them on small instances and TLAPS proofs.

## 1. Inventory

| Component | State | Operations | What makes it correct | Module |
|---|---|---|---|---|
| Kernel request handlers, `ums_api.c` | `process_list` and, per process, its completion lists (idle list, busy list, four counters, state), workers (state, pid, sid, clid, registers) and schedulers (state, wid, registers, return snapshot) | `enter_ums`, `exit_ums`, `create_completion_list`, `create_worker_thread`, `enter_scheduling_mode`, `exit_scheduling_mode`, `execute_thread`, `thread_yield`, `dequeue_completion_list_items` | a worker is linked exactly once, counters agree with lists, a running worker has one scheduler, no context is resumed twice, finished is for ever, dequeue tells the truth, idle workers queue | `UmsApi` |
| ioctl dispatch, `ums_dev.c` | one spinlock | `ioctl_ums` | a handler is atomic | `UmsApi`, `UmsModule` |
| Statistics, `ums_api.c:514-539, 578-579, 1090-1101` | switch counters, times | part of each switch | they say what happened; no division by zero | `UmsStats` |
| `/proc/ums`, `ums_api.c:1109-1414` | directories and files per process, scheduler, worker | creation, open, show | a file shows the node it is named after, and an existing one | `UmsApi`, `UmsModule` |
| Module load, exit, `ums_dev.c:122-158`, `ums_api.c:905-1082` | the device, `/proc/ums`, every node | `init_dev`, `exit_dev`, `cleanup` | every node freed once, nothing freed is reached | `UmsModule` |
| Library, `ums_lib.c` | lists of completion lists, workers and schedulers with states of their own; per scheduler a cached `list_params` | `ums_enter` ... `ums_get_next_worker_thread`, `cleanup` | its view never contradicts the kernel's; every worker that keeps yielding finishes and every loop ends | `UmsLib` |
| Device handle, `ums_lib.c:44-101` | `ums_dev`, `ums_mutex`, the descriptor table | `open_device`, `close_device`, the ioctl of every call | one descriptor, no ioctl beside it, the mutex is released | `UmsResources` |
| Worker stacks, `ums_lib.c:231-264, 649-671` | an address and a size | allocation, error paths, `cleanup` | `free` gets the start of a block, and every block is freed | `UmsResources` |
| Examples | - | `main`, `loop1` | - | `UmsLib` |
| `list.h`, build files, documentation images | - | - | - | - |

How they interact. A program calls the library; the library keeps its own
records (not protected by any lock) and issues ioctls; `ioctl_ums` serialises
the handlers under one spinlock with interrupts off. A handler that switches
contexts replaces the saved user registers of the calling task, so that the
"return" from the ioctl continues in other code: `enter_scheduling_mode`
continues in the scheduler's entry function, `execute_thread` in the worker,
`thread_yield` in the scheduler after its `ums_execute_thread` call, on
whatever pthread is executing the worker then, and `exit_scheduling_mode` where
the pthread entered. Library state and kernel state are therefore updated in
separate steps of interleaved threads, and one library call may start on one
worker stack and its effects be observed by another scheduler before it ends.

Hard behaviours: (1) any code may issue any request (a worker may execute
another worker, a pthread may register itself, a scheduler may leave and come
back); (2) schedulers that share a completion list; (3) early returns after a
node has been linked, when a copy or a `/proc` file fails; (4) lookups that
return an uninitialised variable; (5) the library's unlocked cache. The list of
hazards in `PROJECT.json` names the lines.

## 2. Modules

| Module | Models | Role |
|---|---|---|
| `UmsApi` | `ums_api.c` behind `ioctl_ums` | state, one action per handler, consistency properties |
| `UmsClient` | the execution flow of `doc/report.md` section 3 and the examples | `UmsApi` restricted to what a program that follows the flow may ask; refinement |
| `UmsLib` | `ums_lib.c` (without the device handle and the stacks), `main` and `loop1` of the examples | the program of one process, step by step: library records, ioctls, interleaved threads, liveness |
| `UmsStats` | the statistics of the two switches | `UmsClient` under a clock |
| `UmsModule` | `init_dev`, `exit_dev`, `cleanup`, `/proc/ums` | `UmsApi` from load to unload, beside readers |
| `UmsResources` | `open_device`, `close_device`, worker stacks | the threads of a process and what the library owns for them; stands alone |
| `WorkerScheduling` | - | abstract specification: what user-mode scheduling promises |
| `UmsApiProofs`, `UmsOwnsProofs`, `UmsContextProofs` | - | TLAPS proofs about `UmsApi` |
| `UmsClientProofs` | - | TLAPS proofs about `UmsClient`, its refinement of `WorkerScheduling` included |
| `UmsLibProofs` | - | TLAPS proofs about `UmsLib`, its refinement of `UmsClient` included |
| `UmsModuleProofs`, `UmsStatsProofs`, `UmsResourcesProofs` | - | TLAPS proofs about `UmsModule`, `UmsStats` and `UmsResources` |
| `MC*` | - | instances for TLC |

`UmsClient` and `UmsModule` extend `UmsApi`, `UmsLib` and `UmsStats` extend
`UmsClient`: their actions are requests of `UmsApi` with the caller's own
conditions and state around them, so a handler is written once.

### State and code

`UmsApi` names its variables after the data they model. `process[pid]` is the
node of `process_list` (`"NONE"` when there is none) with its three counters
and `schedulers`, the length of its scheduler list, which differs from
`scheduler_count` between two lines of `enter_scheduling_mode`. Identifiers are
those of the kernel: the n-th list, worker or scheduler of a process is the pair
`<<pid, n>>`. `comp_list[l].idle_list` and `.busy_list` are sequences of worker
ids, for the intrusive lists threaded through `worker->local_list`, and their
`worker_count` fields are `idle_count` and `busy_count`. `scheduler[s].home`
stands for `return_addr`, `stack_ptr` and `base_ptr`. `regs[t]` is
`task_pt_regs` of task `t`: the code it resumes in user space.

A register snapshot is abstracted to the code it belongs to (a pthread's own,
a scheduler's, a worker's, or garbage) and to whether that code is at its entry
point or inside. This is what a missed, swapped or repeated `memcpy` changes.
Loading a snapshot leads *inside*: the code has moved on when it calls the
kernel again.

One action is one handler, because `ioctl_ums` holds `spinlock_ums` from before
the first to after the last line of it. Guards, early returns and their order
are the code's: `RejectCaller` are the two lookups that open every scheduler
request; `Miss` is a lookup without a match, which returns an uninitialised
local variable, hence either the error the handler has for NULL or `Crash`, a
wild pointer followed. `undef` records a crash; nothing is claimed after it.
Early returns that leave something behind are modelled as such: a linked but
uncounted scheduler when `copy_to_user` fails, a list already RUNNING and a
complete scheduler when `/proc` files fail, a process node with half-made
directories when `enter_ums` fails.

`Faults` says which kernel services may fail. Requests with an id that does not
exist are limited to ids below the bounds, and to -1 for `execute_thread`.

`UmsClient` lets a task ask only what the code it is executing would: the main
thread creates things and leaves after its schedulers have (`pthread_join` in
`ums_exit`), a pthread enters scheduling mode once, scheduler code dequeues,
executes *any* worker id and leaves whenever it likes, worker code pauses or
finishes. Nothing is assumed of the scheduling policy.

`UmsLib` adds the library's own data: `completion_lists` (counter of workers,
FINISHED flag), `workers` (the state of each `ums_worker_t`; of two records with one
id, the earlier, which is the one that is found), `schedulers` (per
pthread its list, `wid` and `list_params`, the cached array), and where the
code of each thread is: `main`, `pc` for the scheduler code of a pthread, `at`
for the code of a worker. The library takes no lock around these records. A
call is therefore split where it reads or writes a record that another thread
may write, and at its ioctl; steps that touch only the thread's own
`list_params` are merged with the next one. `ums_execute_thread` is four steps
(choose and test the state, mark RUNNING, ioctl, and back in `loop1` when the
worker yields), `ums_thread_yield` two (mark, ioctl). The steps of a worker are
taken by whichever pthread hosts it. Constants say what the program does
(`Pauses`, `SharedLists`, `LateWorkers`) and what is left open by the code
(`FreshMemory`: what `malloc` leaves in a `list_params`; `StrayLookups`: whether
the kernel's failed lookup may give a stray pointer).

The library takes a negative return of an ioctl for an error. A handler whose copy
fails returns the number of bytes that were not copied, which is positive.
`ums_create_worker_thread` takes it for the id of a new worker, and records and
counts one; `ums_dequeue_completion_list_items` takes it for success and goes on
with the list as it is, which a failed `copy_to_user` may have overwritten in part
(`PartlyCopied`); `ums_enter_scheduling_mode` ends its pthread either way. An error
that is negative makes dequeue return it where `loop1` expects a pointer; the
pthread is then `lost`.

`UmsStats` puts the statistics next to the switches of `UmsClient`:
`sched_stats` and `worker_stats` are the `switch_count`, `avg_switch_time`, last
and total switch time and `total_exec_time` fields, `clock` is what
`ktime_get_real_ts64` reads. `execute_thread` reads the clock three times, the
first time before and the last time after the switch, so that time may pass, or
the clock may be set, within the action; `thread_yield` reads it once. Widths are
constants (`CountBits` for the 32 of `switch_count`, `TimeBits` for the 64 of a
time), and all arithmetic is modulo them. `oops` is a division by zero. Three
variables are no state of the code but what the statistics should say: `ran`, the
time each worker has been RUNNING; `switched`, the number of its switches; and
`disturbed`, the nodes that were timing something when the clock was set.

`UmsModule` adds to `UmsApi` the life of the module. `module` is where `init_dev`
or `exit_dev` is, call by call; `devices` are the tasks that have `/dev/ums` open,
which the `owner` field of `fops_ums` turns into a reference count of the module;
only they can make requests. `dirs[s]` is the directory of a scheduler: `none`,
`partial` (creation failed half-way) or `complete`, the workers whose
`proc_entry` was set for it (`files`), and those of them whose file
`proc_create` refused (`refused`; the handler does not look). `place[p]` is where
the directories of the schedulers of process `p` are made: below `/proc/ums`; below
`/proc/<pid>` when the process entered before `/proc/ums` was there, its parent
then being NULL; or in `/proc` itself when `enter_ums` failed to make
`schedulers`, which leaves NULL as the parent of what follows (`ums_api.c:1184`,
1219). `delete_proc` removes only the first. Files of the third kind are seen but
never open: `scheduler_proc_open` and `worker_proc_open` read the pid off a
directory that is not there (`PidInPath`). `reader` is the node that an open `/proc` file keeps, `freed` how often
`cleanup` has freed each node, and `wild` what was used that is not there: a
`proc_entry` that nobody set, or code of a module that is gone. Readers take no
lock and are enabled in every state.

`UmsResources` is about the threads of one process and what the library holds for
them, without the requests themselves. `ums_dev`, `ums_mutex` are the globals,
`files` the descriptor table (0 is standard input), `pc[t]` where in
`open_device`, `close_device` or its ioctl thread `t` is, `op[t]` the kind of call
(an ordinary request, `ums_create_worker_thread`, `ums_exit`, or the destructor
`end`), `known` whether the library knows a completion list. `stacks` records of
every worker stack the size of the block, `stack_size` and `stack_addr` of the
parameters, relative to the block and in words of eight bytes, and what became of
it: freeing any address other than 0 gives `corrupted`.

### Abstract specification

`WorkerScheduling` has no lists, nodes or registers: workers belong to lists,
a list is closed by the first host attached to it, a host runs at most one
worker, of its list, a worker runs on at most one host, and is done once. The
refinement mapping in `UmsClient` reads a worker's phase from its state, closed
lists from their RUNNING state, attached hosts from the schedulers that are not
FINISHED, and who runs whom from `worker->pid`.

## 3. Runs

| Run | Shows |
|---|---|
| `api` | all consistency properties hold for any sequence of requests of two threads from any context |
| `api_faults` | they hold when copies and `/proc` creation fail at any request and are retried |
| `client` | contexts follow the nodes, a paused worker resumes where it paused, no running worker is lost, and `WorkerScheduling` is implemented |
| `lib` | a list of workers that pause and a shared list of workers that do not: library and kernel agree, no request of a scheduler with a list of its own is refused, every loop ends with its workers finished, and every step is one `UmsClient` allows |
| `stats` | the statistics say what happened, up to their width, and a handler divides by zero exactly when a switch counter wraps |
| `module` | load to unload with requests, readers and faults in between: a scheduler's directory has all its workers and shows its own node, `cleanup` frees each worker once, what is freed can be reached by no request, and through `/proc` only by a file of a process that entered before `/proc/ums` was there, and which pointers `cleanup` frees that nobody set |
| `resources` | racing threads open one descriptor, no ioctl misses it before `ums_exit`, stacks are given back when they are as large as the minimum, calls return unless a failed `open` abandoned the mutex |
| `lib_shared_pause` | finding: a worker of a shared list that pauses may be refused for ever (the loops of both schedulers then spin) |
| `lib_fresh_memory` | finding: the first dequeue reads uninitialised memory |
| `lib_shared_miss` | finding: a lookup without a match is not NULL, and example 1 reaches one through the library |
| `reentry` | finding: a thread that leaves the mode and enters it again is served by its first, finished scheduler, not by the one it runs |
| `open_fails` | finding: after one failed `open` the next call waits for ever |

### Bounds

- `api`, `client`, `lib`, `stats`: one process. Two tasks (`api`) or a main thread
  and two pthreads, two or three workers, two schedulers. That is what it takes
  for a worker to be paused on one pthread and resumed on the other, for two
  schedulers to compete for a worker, and for one to execute a worker from a
  worker; two schedulers of one task for a thread that enters twice. `Owners`
  bounds the main-thread requests to the main thread.
- `api_faults`: one task and two lists, every service failing at any request.
- `lib`: three workers, one of which pauses once (as `function1`), are the least
  with which a cached array is partly erased, refilled with fewer workers than it
  holds, and a paused worker comes back behind others. A second pause of the same
  worker repeats a state of the kernel that the first one left. `SharedLists` and
  `Pauses` let list 0 have workers that pause and one scheduler, list 1 any number
  of schedulers and workers that do not pause; a shared list of workers that
  pause is `lib_shared_pause`.
- `stats`: a switch counter of one bit wraps at the second switch, which two
  schedulers and one worker reach together with a switch of either before it;
  times of three bits and a clock up to 4 let a difference wrap when the clock is
  set back; a switch takes at most one unit and the clock is set at most once.
- `module`: one process of one thread, two lists, one worker, two schedulers, with
  `copy_to_user` and `/proc` failing. The worker is idle, running or finished and
  the list with or without a directory when the module goes; a second scheduler
  makes two nodes with one sid possible. One load, since `cleanup` leaves nothing.
- `resources`: three threads with three calls each can race for the first call,
  reuse what another opened, and call after a failure; two stacks of sizes one
  word below, at and above the minimum.

`lib` starts from `malloc` returning zeroes (`FreshMemory = {"zero"}`), creates no
worker after a scheduler (`LateWorkers = FALSE`) and takes a failed lookup to
give NULL (`StrayLookups = FALSE`): what happens without these is
`lib_fresh_memory`, the first of the smaller disagreements below, and
`lib_shared_miss`.

Symmetry is used in `stats` only, between the two pthreads, which nothing
distinguishes there; that run has no temporal property.

Deadlock checking is on for `UmsLib`, where a process that has exited stutters
(`Terminated`) and anything else that stops is an error. It is off elsewhere: in
`UmsApi`, `UmsClient`, `UmsModule` and `UmsStats` a process that has used up its
lists, workers and schedulers, or crashed, has nothing more to do; in
`UmsResources` an abandoned mutex stops everything, which the two liveness
properties are about.

### Fairness

`UmsLib` and `UmsResources` assume weak fairness of the steps of each thread: in
`UmsLib` of the main thread and of each pthread, in `UmsResources` of a thread that
is inside the library (`Proceed`), since whether a program calls at all is its own
affair. The threads are ordinary threads preempted by the Linux scheduler, so one
that can go on does; handlers do not wait, the kernel's queued spinlock is handed
over in order, and a thread that waits for `ums_mutex` runs when it is free for
good. Nothing is assumed of which worker a scheduler picks or which scheduler wins
a race, and a worker's code is driven only by the pthread that hosts it.

### What the code and its documentation disagree on

The five findings have runs. The remaining ones are smaller, or further off the
documented flow:

- A worker created after `ums_create_scheduler`, before the pthread has reached
  the kernel, makes dequeue copy more ids than the array holds, which was sized at
  `ums_lib.c:283, 312-314`. With `LateWorkers = TRUE`, TLC refutes `BufferHoldsList`.
- `enter_scheduling_mode` links the scheduler before `copy_to_user` may fail
  (`ums_api.c:376`); a caller that retries is served by the first, half-made
  scheduler, and leaves through its uninitialised snapshot.
- A worker that executes another (`ums_api.c:523`) is left RUNNING with no
  scheduler that names it. `SchedulerOwnsWorker` speaks of schedulers and holds; a
  RUNNING worker is sure to have a host only in the documented flow
  (`RunningWorkerIsHosted` of `UmsClient`).
- `cleanup` frees the `proc_entry` of nodes that never had one (`UnsetIsUnlisted`
  of `UmsModule` says which), and `create_scheduler_proc_entry` does not look at
  what `proc_create` returns for a worker.
- "Deletes all proc files" (`ums_api.c:1123`) is not so when `enter_ums` failed to make
  `schedulers`, or entered before `/proc/ums` was there: the directories of the
  process's schedulers are then elsewhere, and stay. When `/proc/<pid>` is where
  they are, their files can be opened until the module is gone, and one that is
  open keeps a node that `cleanup` frees (`FreedIsUnreachable` says that this is
  the only such case).
- A failed copy is taken for success, or for a worker id, by the library
  (`ums_lib.c:257`, 586). A worker recorded that way does not exist in the kernel; it
  makes arrays too long and can hide the record of a later worker of that id, but
  no request outside the documented flow comes of it (`LibFollowsTheFlow`).
- A stack below `UMS_MIN_STACK_SIZE` is freed at a wrong address by `cleanup`, and
  every stack on the error paths of `ums_create_worker_thread` (`StacksGivenBack`
  says that nothing else is).
- The first `close_device` leaves 0 in `ums_dev` (`ums_lib.c:92`): a second one, as the
  destructor after `ums_exit`, closes standard input (`StdinKeptByOneClose` says
  that the first does not).
- `ums_api.c:626` says dequeue reports FINISHED when no worker is available; it
  does when all are finished (668).
- `const.h:87` of the module describes a FINISHED completion list; no list ever
  gets that state.
- `ums_api.h:103` calls `process->pid` the tgid of the threads; `enter_ums` stores the
  pid of the caller (60), so that a pthread that registers itself is not found by
  its own scheduler requests.

Each property is paired in `PROJECT.json` with a mutated operator of the module
it is about, written next to the operator it replaces; with it TLC finds the
property violated.

## 4. Proofs

Every safety and action property that a passing run checks is proved, of the
specification that the run checks on an instance: for every set of tasks, every
assignment of tasks to processes, every bound, and every choice of the other
constants that the named assumptions of the modules allow. What is left to TLC is
at the end of this section.

The assumptions say what the code's own types and environment do: the main thread
of a task is a task (`TasksAssumption`); the bounds are positive
(`BoundsAssumption`); the failing services are among those the code calls
(`FaultsAssumption`); in a program that uses the module, the main thread of a
process is its own, and -1 is no task (`ClientAssumption`); the threads of
`UmsLib` are of one process, and workers pause some number of times
(`LibAssumption`); there are finitely many tasks, of which the statistics are sums,
and the range of a counter is positive, which is plain for `2 ^ CountBits` but
beyond what the provers know of powers (`StatsAssumption`).

The theorems about `UmsClient` and `UmsLib` have hypotheses on the constants, for
each of which there is a run or an account of what happens without it; three about
`UmsResources` take the threads of a process to be finitely many.

- `SoundFaults`: of the kernel services only `copy_from_user` fails. After a failed
  `copy_to_user` or `/proc` entry `enter_scheduling_mode` has linked a scheduler
  whose pthread is still in its own code, and `ContextFollowsScheduler` is false.
- `Calm`: no service fails, `malloc` returns cleared memory, and no worker is
  created after the first scheduler (as in the examples, and in the `lib` run). On
  memory as it comes the first dequeue reads garbage (`lib_fresh_memory`); a late
  worker makes a list longer than its array (`LateWorkers = TRUE` refutes
  `BufferHoldsList`). A failed copy breaks what the records say: a worker is
  recorded and counted that the kernel does not have, and a dequeue is taken for
  done that has not been, so that the scheduler may run on a list that is stale or
  written in part.
- `NoSharedPause`: the workers of a list with several schedulers do not pause.
  `lib_shared_pause` shows an idle worker refused for ever when one does.

| Theorem | States | From |
|---|---|---|
| `UmsApiProofs!TypeCorrect` | `Spec => [](TypeOK /\ CountedAreLinked)` | `TypeInv` |
| `UmsApiProofs!ListsSplitWorkers` | `Spec => []ListPartition` | `ListInv` |
| `UmsOwnsProofs!SchedulersOwnWorkers` | `Spec => []SchedulerOwnsWorker` | `OwnInv` |
| `UmsOwnsProofs!FinishedStays` | `Spec => FinishedForever` | `OwnInv` |
| `UmsContextProofs!ContextsOnce` | `Spec => []ContextsNotDuplicated` | `CtxInv` |
| `UmsOwnsProofs!CountersCorrect` | `Spec => []CountersMatch` | `CountInv` |
| `UmsOwnsProofs!CompleteStays` | `Spec => CompleteForever` | `CountInv` |
| `UmsOwnsProofs!DequeueIsTruthful` | `Spec => DequeueTellsTheTruth` | `CountInv` |
| `UmsApiProofs!IdleIsAQueue` | `Spec => IdleOrderKept` | `TypeInv` |
| `UmsClientProofs!ContextsFollow` | `SoundFaults => (ClientSpec => []ContextFollowsScheduler)` | `ClientInv` |
| `UmsClientProofs!IdleKept` | `SoundFaults => (ClientSpec => []IdleWorkerKeepsItsContext)` | `ClientInv` |
| `UmsClientProofs!RunningHosted` | `SoundFaults => (ClientSpec => []RunningWorkerIsHosted)` | `ClientInv` |
| `UmsClientProofs!ClientImplements` | `SoundFaults => (ClientSpec => ImplementsWorkerScheduling)` | `ClientInv` |
| `UmsLibProofs!LibFollowsTheFlow` | `SoundFaults => (LibSpec => FollowsTheFlow)` | `FlowInv` |
| `UmsLibProofs!OwnListIsServed` | `Calm => (LibSpec => []OwnListNeverRefused)` | `LibInv` |
| `UmsLibProofs!FinishedInTime` | `Calm => (LibSpec => []FinishedIsNotEarly)` | `LibInv` |
| `UmsLibProofs!BufferIsLargeEnough` | `Calm => (LibSpec => []BufferHoldsList)` | `LibInv` |
| `UmsLibProofs!CacheNeverRunsDry` | `Calm => (LibSpec => []CacheHasNext)` | `LibInv` |
| `UmsLibProofs!OffersAreTakeable` | `Calm /\ NoSharedPause => (LibSpec => []OfferedCanBeTaken)` | `LibInv`, `OfferInv` |
| `UmsModuleProofs!DirectoryStaysComplete` | `ModuleSpec => []DirectoryComplete` | `ModuleInv` |
| `UmsModuleProofs!InfoFindsItsOwn` | `ModuleSpec => []InfoIsOwn` | `ModuleInv` |
| `UmsModuleProofs!FreedIsOutOfReach` | `ModuleSpec => []FreedIsUnreachable` | `ModuleInv`, `Opened` |
| `UmsModuleProofs!UnsetIsOfUnlisted` | `ModuleSpec => []UnsetIsUnlisted` | `ModuleInv` |
| `UmsModuleProofs!WorkersAreFreedOnce` | `ModuleSpec => FreedOnce` | `ModuleInv` |
| `UmsStatsProofs!TotalIsTimeRun` | `StatsSpec => []ExecTimeIsTimeRun` | `StatsInv` |
| `UmsStatsProofs!SwitchesAgree` | `StatsSpec => []SwitchesBalance` | `StatsInv` |
| `UmsStatsProofs!DividesByZeroAtWrap` | `StatsSpec => []OopsOnlyAtWrap` | `StatsInv` |
| `UmsStatsProofs!AverageIsBounded` | `StatsSpec => []AverageIsOfSwitches` | `StatsInv` |
| `UmsResourcesProofs!OneDescriptorAlways` | `IsFiniteSet(Threads) => (Spec => []OneDescriptor)` | `DeviceInv` |
| `UmsResourcesProofs!StdinKept` | `IsFiniteSet(Threads) => (Spec => []StdinKeptByOneClose)` | `DeviceInv` |
| `UmsResourcesProofs!IoctlsOnDevice` | `IsFiniteSet(Threads) => (Spec => IoctlsReachDevice)` | `DeviceInv` |
| `UmsResourcesProofs!StacksAreGivenBack` | `Spec => []StacksGivenBack` | `StackInv` |

The invariants of `UmsApi` build on each other; each proof has one lemma per
handler that can disturb the new conjunct, and one for all the others, failures
and crashes included.

- `TypeInv` is `TypeOK` and `CountedAreLinked`. `TypeOK` alone is not inductive:
  `enter_scheduling_mode` links a scheduler before it counts it, and the next
  `sid` is the counter. That the counter stays a possible sid needs that it never
  exceeds the number of linked schedulers, which the guard bounds. The lemmas
  about the two list operations (`RemoveAtProperties`, `RemoveAtSet`, `AppendSet`:
  what `list_move_tail` takes out and puts in) are here.
- `ListInv` adds `ListPartition` and `WorkersHaveList` (a worker belongs to a list
  that exists): without it a new completion list could already have members when
  its empty idle list is installed. `MembersOfChanged` says how the members of any
  list in any set of states change when one worker node is replaced;
  `ChangedSplits` turns that into the preservation of `ListPartition` for any step
  that moves one worker between the two sequences as its state changes, and is
  used for both switches.
- `OwnInv` adds `SchedulerOwnsWorker`. A worker is taken from the idle list, hence
  IDLE, hence named by no scheduler; a worker that yields is the one its scheduler
  names, hence RUNNING and of that scheduler's list. That no request touches a
  FINISHED worker follows in each step.
- `CountInv` adds `CountersMatch` and `UsedExists` (a list with a scheduler was
  created). The first three counters are lengths, and follow from the lemmas about
  sequences; `finished_count` is a cardinality and grows by one because the worker
  that finishes was RUNNING. A complete list stays complete because no worker is
  added to a RUNNING list, and because such a list's id is not handed out again
  (`UsedExists`). What dequeue answers is then a matter of the counters and the
  partition.
- `CtxInv` adds `Distinct`, that two holders of one context are the same holder.
  It is kept by a rotation of contexts between three holders (each switch is one)
  and by a step that gives one holder code that nobody holds. The latter needs
  `Provenance`: the code of a new node is new because held code belongs to nodes
  that exist (`HeldExists`); `exit_scheduling_mode` resumes the pthread's own code,
  which only the pthread or its scheduler can hold (`OwnWhere`, `HomeIsOwn`,
  `OwnBefore`, `HostIsAway`).
- The order of the idle list needs no invariant but the types: each handler
  leaves an idle list alone, appends to it, takes one node out or starts it anew,
  and each of these keeps the order of what stays.

`ClientInv` is `CountInv`, which holds because a client's step is a request
(`ClientIssuesRequests`), and `UseInv`, which says where everybody is. A pthread
has at most one scheduler (`OneEach`), so that the lookup by pid finds the right
one; that scheduler was entered from the pthread's own code, uses a RUNNING list,
and its node says what the pthread executes (`EachHost`); each RUNNING worker is
named by a scheduler that exists (`Hosted`), which is what makes a host that is
about to dispatch free in `WorkerScheduling`. One lemma per kind of step shows the
invariant and the abstract step together (`Simulates`): a new worker is `Create`,
`enter_scheduling_mode` is `Attach`, the two switches are `Dispatch` and
`Release`, `exit_scheduling_mode` is `Detach`, and all the rest, a new completion
list with it (`UsedExists`), changes nothing.

`DeviceInv` is about control: between lock and unlock there is one thread, the
one that locked (`Exclusive`); an open descriptor is the one in `ums_dev`, and none
is open while a thread opens one (`Named`, `NoneYet`). An ioctl stands outside the
mutex; it reaches the device because `ums_dev` was set when it was reached and
nobody closes it before `ums_exit`, which waits for the pthreads
(`OpenWhenSet`, `OpenWhenUsed`, `AloneWhenClosing`). Standard input is lost only
after `ums_dev` has become what `close` returned (`StdinFirst`).

`StackInv` follows a stack from its allocation to `free`. Its parameters hold the
larger of the size asked for and the minimum, and an address one word below the
end of the block (`MadeStack`); the two sizes agree when the program asked for the
minimum or more, and then `cleanup` computes the start of the block
(`ReleasedWell`). At most the newest stack is in nobody's list, while the call
that creates it is under way, so `end()` finds all the others.

`ModuleInv` is `CountInv`, until `cleanup` has run, with three claims about
directories (`Told`). A complete directory lists the members of its scheduler's
list, and these stay the same because a list in use takes no more workers
(`DirsListed`). A scheduler's sid is below the counter as soon as the scheduler
was counted, and the handler counts it unless `copy_to_user` fails, so that a sid
is told twice only by a scheduler that was given up half-made (`SidCounted`,
`SidsTold`). One lemma says what of this any request leaves alone (`SchedsKept`), so that
only `enter_scheduling_mode` and `create_worker_thread` need an argument of their
own. What is freed is out of reach by the order of `exit_dev`: the reference count
lets it start only without an open device, and `proc_remove` waits for the readers
below `/proc/ums` (`NoDevices`, `NoReaders`). That no file in the root of `/proc` is
ever open, before or after, is an invariant of its own (`Opened`): the reader is a
node of a process that has entered, its place is decided when it enters and never
again, and a place in the root opens nothing. `FreedOnce` is a statement about a
fold: `cleanup` frees what the lists hold, list by list. That the fold is 1 for each worker is proved
from the partition of `ListInv`, each worker being a member of one list and at one
place in one of its two sequences.

`StatsInv` is `OwnInv` and arithmetic modulo the widths. A step of `UmsStats`
starts a worker, stops one, lets time pass or leaves the statistics alone. The
inductive form of `ExecTimeIsTimeRun` has to speak of a RUNNING worker: its total
and the time since it was executed are together the time it ran, modulo the
width (`RunTimed`). For the average, the total is at most `MaxSwitch` for each
switch (`SwitchTimed`), so that the quotient is at most `MaxSwitch`; the division is
by the true number of switches unless the counter has wrapped. `SwitchesBalance`
compares two sums over sets. That changing a function at one member of a finite
set changes its sum by the difference (`SumChange`, of `UmsApiProofs`) is proved
from the definition of the community modules' fold: that the recursive function in
it exists (`SmallSums`), and induction along the elements it takes
(`FoldInduction`), both by taking the least cardinality at which they would fail.
The library's induction theorems are not needed for this, whose operator
parameters the provers cannot instantiate.

About the library there are three invariants.

- `FlowInv` is `ClientInv`, the types of the library's records and `AllPlaced`: a
  pthread that has not entered the mode has no scheduler in the kernel and is in
  its own code; one in a call of its loop has one, and unless it is waiting for its
  worker that scheduler names none, so that the kernel has the pthread in the
  scheduler's code; one that has left has only a FINISHED one. That is the
  condition under which `UmsClient` allows the request that the call makes,
  hence `LibFollowsTheFlow`, for whatever is in the cache. One lemma for each
  ioctl says what it changes or that it was refused (`EnterDoes`, `AskDoes`,
  `ExecuteDoes`, `YieldDoes`, `LeaveDoes`); the rest of the module uses these and
  not the handlers.
- `LibInv` adds what the records say of the kernel. What is known was created,
  and the library's counter of a list is the kernel's, but for the worker that is
  created and not recorded yet (`RecordsInv`); an array is as long as its list,
  because no worker follows a scheduler (`ThreadInv`). The heart is `Cached`: an
  array is some number of erased entries followed by `worker_count` different
  workers, each of which the scheduler may take. Those are, in a list that the
  scheduler has to itself, idle workers other than the one it is taking, and in a
  shared list any member (`MayTake`). For a list of its own nobody else executes
  these workers, so that what dequeue said stays true until it is used; for a
  shared list only membership does. FINISHED in a record means that the kernel's
  list is complete, which it stays (`CompleteForever`). A step of one pthread
  moves only what concerns that pthread (`Moves`), and what it leaves alone keeps
  the invariant of all others (`MovesKeep`), however their steps interleave.
- `OfferInv` is about the marks that `ums_execute_thread` and `ums_thread_yield` make
  before they ask the kernel. A worker that is RUNNING or FINISHED for the library
  and IDLE for the kernel is about to be executed; one that is on its way back is
  still RUNNING in the kernel and already what it will be in the library
  (`YieldInv`). With `NoSharedPause` a worker of a shared list is never executed
  a second time, and no second scheduler can take it between its mark and its
  ioctl.

Only model-checked: liveness (`LoopsEnd`, `CallsReturnUnlessAbandoned`), because
liveness under fairness and ENABLED are outside the provers, and what the five
findings refute. No module declares a RECURSIVE operator.

## 5. Not modelled

- Sleeping calls (`copy_from_user`, `kmalloc(GFP_KERNEL)`, `/proc` creation) made
  under a spinlock with interrupts off (`ums_dev.c:73`): the models take a handler
  as atomic, as the lock intends. What a processor does that sleeps there is a
  matter of the kernel.
- Death of a task without `exit_ums`, and reuse of a pid. The nodes of a process
  stay linked, which `UmsModule` has; that a later task of the same pid finds them
  is not modelled.
- Memory contents: the list of schedulers that is allocated with the size of a
  pointer (`ums_api.c:141`), the return address stored in the word after a stack
  (`ums_lib.c:244`).
- The text that the `/proc` files show.
- `delete_process` and `check_schedulers_state`, which nothing calls.
- A second load of the module, after an unload or a failed one.
- FPU registers are taken as part of the snapshot they are saved with.
- In the library: failing `malloc`, `posix_memalign` (whose errors are positive, so
  that the library does not see them), `pthread_create` and `sched_setaffinity`;
  processor affinity; `loop2`, which no example uses; the walk of a list of records
  while another thread links to it.
- `list.h` (the Linux list implementation, for which the models use sequences),
  build files and documentation images.
