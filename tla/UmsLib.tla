------------------------------- MODULE UmsLib -------------------------------
(***************************************************************************)
(* The user-space library (src/src/library/ums_lib.c) on top of the kernel *)
(* module, in one process that runs the program of the examples: the main  *)
(* thread creates completion lists, workers and schedulers and waits in    *)
(* ums_exit; every scheduler runs loop1; every worker pauses some number   *)
(* of times and exits.                                                     *)
(*                                                                         *)
(* The library keeps records of its own and takes no lock around them, so  *)
(* a call is split at each access to a record that another thread writes   *)
(* and at its ioctl.  An ioctl is one action of UmsApi.  Steps of a worker *)
(* belong to the worker: they are taken by the pthread that hosts it.      *)
(***************************************************************************)
EXTENDS UmsClient

CONSTANTS
  Main,           \* the main thread
  Pauses,         \* how often a worker of each list pauses before it exits
  SharedLists,    \* the lists that two schedulers may be created for
  LateWorkers,    \* may workers be created after the first scheduler?
  FreshMemory,    \* what malloc leaves in a new list_params
  StrayLookups    \* may a lookup without a match give a stray pointer?

ASSUME LibAssumption ==
  /\ Main \in Tasks /\ Owners = {Main}
  /\ \A t \in Tasks : Tgid[t] = Main
  /\ Pauses \in [Clids -> [Wids -> Nat]]
  /\ SharedLists \subseteq Clids /\ LateWorkers \in BOOLEAN
  /\ StrayLookups \in BOOLEAN
  /\ FreshMemory \subseteq {"zero", "old"} /\ FreshMemory # {}

VARIABLES
  main,         \* where the main thread is
  completion_lists, \* the library's completion lists
  workers,      \* the state the library records of each worker
  schedulers,   \* the library's scheduler of each pthread
  pc,           \* where each pthread's scheduler code is
  local,        \* the worker its call of ums_execute_thread is about
  at,           \* where each worker's code is
  pauses        \* how often each worker has still to pause

lib  == <<main, completion_lists, workers, schedulers, pc, local, at, pauses>>
all  == <<vars, lib>>

NoList == [known |-> FALSE, state |-> "IDLE", worker_count |-> 0]

\* list_params as malloc returns it, for a list of size workers.
NewListParams(size, memory) ==
  IF memory = "zero"
  THEN [size |-> size, worker_count |-> 0, state |-> "IDLE",
        workers |-> [i \in 1 .. size |-> 0]]
  ELSE [size |-> size, worker_count |-> 1, state |-> "FINISHED",
        workers |-> [i \in 1 .. size |-> NoId]]

NoScheduler == [clid |-> 0, wid |-> NoId, list |-> NewListParams(0, "zero")]

LibInit ==
  /\ Init
  /\ main = "start"
  /\ completion_lists = [c \in Clids |-> NoList]
  /\ workers = [n \in Wids |-> "ABSENT"]
  /\ schedulers = [t \in Pthreads |-> NoScheduler]
  /\ pc = [t \in Pthreads |-> "none"]
  /\ local = [t \in Pthreads |-> NoId]
  /\ at = [n \in Wids |-> "call"]
  /\ pauses = [n \in Wids |-> 0]

-----------------------------------------------------------------------------
(* The main thread *)

\* An ioctl on a build whose failed lookups give what StrayLookups says.
Ioctl(request) == request /\ (StrayLookups \/ undef' = undef)

Created(t)       == pc[t] # "none"
ListKnown(c)     == completion_lists[c].known
WorkerKnown(wid) == wid \in Wids /\ workers[wid] # "ABSENT"

\* ums_enter
LibEnter ==
  /\ main = "start"
  /\ Ioctl(EnterUms(Main))
  /\ main' = "setup"
  /\ UNCHANGED <<completion_lists, workers, schedulers, pc, local, at, pauses>>

\* ums_create_completion_list
LibCreateCompletionList ==
  /\ main = "setup"
  /\ Ioctl(CreateCompletionList(Main))
  /\ completion_lists' =
       [completion_lists EXCEPT ![reply'.id] =
          [known |-> TRUE, state |-> "IDLE", worker_count |-> 0]]
  /\ UNCHANGED <<main, workers, schedulers, pc, local, at, pauses>>

\* Mutant of Recorded: the library's counter forgotten.
RecordedUncounted(list) == list

\* comp_list->worker_count++
Recorded(list) == [list EXCEPT !.worker_count = @ + 1]

\* The record of a new worker goes behind those there are: lookups of an id that
\* has one already still find the earlier.
WithRecord(n) ==
  [workers EXCEPT ![n] = IF workers[n] = "ABSENT" THEN "IDLE" ELSE workers[n]]

\* The kernel refuses with a negative error, except when a copy fails: then it
\* returns the number of bytes not copied.
Negative(err) == err \notin {"SUCCESS", "BYTES_NOT_COPIED"}

ParamBytes == 40      \* sizeof(worker_params_t)

\* ums_create_worker_thread up to its ioctl; LibRecordWorker is the rest.  How
\* often the worker pauses is decided by the function it is created for.  Bytes
\* not copied are taken for the id of a worker, which is recorded (at once: the
\* ioctl has changed nothing).  Bound: only in a list of less than MaxWorkers.
LibCreateWorkerThread(c) ==
  /\ main = "setup"
  /\ ListKnown(c)
  /\ LateWorkers \/ \A t \in Pthreads : ~ Created(t)
  /\ Ioctl(CreateWorkerThread(Main, c))
  /\ \/ /\ reply'.err = "SUCCESS"
        /\ main' = "record"
        /\ pauses' = [pauses EXCEPT ![reply'.id] = Pauses[c][reply'.id]]
        /\ UNCHANGED <<completion_lists, workers>>
     \/ /\ reply'.err = "BYTES_NOT_COPIED"
        /\ completion_lists[c].worker_count < MaxWorkers
        /\ completion_lists' = [completion_lists EXCEPT ![c] = Recorded(@)]
        /\ \E bytes \in 1 .. ParamBytes :
             workers' = IF bytes \in Wids THEN WithRecord(bytes) ELSE workers
        /\ UNCHANGED <<main, pauses>>
     \/ /\ Negative(reply'.err)
        /\ UNCHANGED <<main, completion_lists, workers, pauses>>
  /\ UNCHANGED <<schedulers, pc, local, at>>

LibRecordWorker(n, c) ==
  /\ main = "record"
  /\ n = process[Main].worker_count - 1 /\ c = worker[<<Main, n>>].clid
  /\ main' = "setup"
  /\ workers' = WithRecord(n)
  /\ completion_lists' = [completion_lists EXCEPT ![c] = Recorded(@)]
  /\ UNCHANGED <<vars, schedulers, pc, local, at, pauses>>

\* ums_create_scheduler: the record and its list, sized by what the library has
\* counted so far, then the pthread.
LibCreateScheduler(t, c) ==
  /\ main = "setup"
  /\ ~ Created(t)
  /\ ListKnown(c)
  /\ c \in SharedLists \/ \A u \in Pthreads : Created(u) => schedulers[u].clid # c
  /\ \E memory \in FreshMemory :
       schedulers' = [schedulers EXCEPT ![t] =
         [clid |-> c, wid |-> NoId,
          list |-> NewListParams(completion_lists[c].worker_count, memory)]]
  /\ pc' = [pc EXCEPT ![t] = "enter"]
  /\ UNCHANGED <<vars, main, completion_lists, workers, local, at, pauses>>

\* Mutant of SchedulersJoined: ums_exit does not wait.
SchedulersNotJoined == TRUE

\* pthread_join of every scheduler.
SchedulersJoined == \A t \in Pthreads : Created(t) => pc[t] = "gone"

\* cleanup: every record freed.
Cleanup ==
  /\ completion_lists' = [c \in Clids |-> NoList]
  /\ workers' = [n \in Wids |-> "ABSENT"]
  /\ schedulers' = [t \in Pthreads |-> NoScheduler]

\* ums_exit: every pthread joined, the ioctl, and cleanup.
LibExit ==
  /\ main = "setup"
  /\ SchedulersJoined
  /\ Ioctl(ExitUms(Main))
  /\ main' = "gone"
  /\ Cleanup
  /\ UNCHANGED <<pc, local, at, pauses>>

-----------------------------------------------------------------------------
(* A pthread in the library, and in loop1 *)

ListParams(t) == schedulers[t].list

\* The kernel's list, of the scheduler that the pthread t was created for.
ListOfPthread(t) == <<Main, schedulers[t].clid>>

InLoop(t)     == CodeOf(regs[t])[1] = "scheduler"

\* ums_enter_scheduling_mode: into loop1, or pthread_exit on an error.
LibEnterSchedulingMode(t) ==
  /\ pc[t] = "enter"
  /\ Ioctl(EnterSchedulingMode(t, schedulers[t].clid))
  /\ pc' = [pc EXCEPT ![t] = IF reply'.err = "SUCCESS" THEN "dequeue" ELSE "gone"]
  /\ UNCHANGED <<main, completion_lists, workers, schedulers, local, at, pauses>>

\* ums_dequeue_completion_list_items up to its ioctl: a cached list that is not
\* used up, or known to be finished, is returned without asking the kernel.
LibDequeue(t) ==
  /\ pc[t] = "dequeue"
  /\ InLoop(t)
  /\ LET finished == completion_lists[schedulers[t].clid].state = "FINISHED" IN
     IF ListParams(t).worker_count = 0 /\ ~ finished
     THEN /\ pc' = [pc EXCEPT ![t] = "ask"]
          /\ UNCHANGED schedulers
     ELSE /\ pc' = [pc EXCEPT ![t] = "next"]
          /\ schedulers' = IF finished
                           THEN [schedulers EXCEPT ![t].list.state = "FINISHED"]
                           ELSE schedulers
  /\ UNCHANGED <<vars, main, completion_lists, workers, local, at, pauses>>

\* The list the kernel copies back: its workers, and what was there behind them.
Overwritten(list, wids) ==
  [i \in 1 .. list.size |-> IF i <= Len(wids) THEN wids[i] ELSE list.workers[i]]

\* What a copy_to_user that fails may have written of it: any number of fields,
\* in their order.
PartlyCopied(list, l) ==
  {list, [list EXCEPT !.worker_count = l.idle_count]}
    \cup {[list EXCEPT !.worker_count = l.idle_count, !.state = DequeueState(l),
                       !.workers = Overwritten(list, SubSeq(l.idle_list, 1, i))] :
            i \in 0 .. Len(l.idle_list)}

\* A negative error is taken for the list, and followed, in loop1; bytes not copied
\* are taken for success, and the list is used as it is.
LibAsk(t) ==
  /\ pc[t] = "ask"
  /\ Ioctl(DequeueCompletionListItems(t))
  /\ \/ /\ reply'.err = "SUCCESS"
        /\ schedulers' = [schedulers EXCEPT ![t].list =
               [@ EXCEPT !.state = reply'.state, !.worker_count = Len(reply'.wids),
                         !.workers = Overwritten(ListParams(t), reply'.wids)]]
        /\ pc' = [pc EXCEPT ![t] = "told"]
     \/ /\ reply'.err = "BYTES_NOT_COPIED"
        /\ \E list \in IF "copy_to_user" \in Faults
                       THEN PartlyCopied(ListParams(t), comp_list[ListOfPthread(t)])
                       ELSE {ListParams(t)} :
             schedulers' = [schedulers EXCEPT ![t].list = list]
        /\ pc' = [pc EXCEPT ![t] = "told"]
     \/ /\ Negative(reply'.err)
        /\ pc' = [pc EXCEPT ![t] = "lost"]
        /\ UNCHANGED schedulers
  /\ UNCHANGED <<main, completion_lists, workers, local, at, pauses>>

\* ... and after it: the other schedulers of the list are told.
LibTold(t) ==
  /\ pc[t] = "told"
  /\ completion_lists' =
       IF ListParams(t).state = "FINISHED"
       THEN [completion_lists EXCEPT ![schedulers[t].clid].state = "FINISHED"]
       ELSE completion_lists
  /\ pc' = [pc EXCEPT ![t] = "next"]
  /\ UNCHANGED <<vars, main, workers, schedulers, local, at, pauses>>

\* The first entry that is not erased, or whatever lies behind the array.
NextWorker(list) ==
  LET rest == {i \in 1 .. list.size : list.workers[i] # NoId} IN
  IF rest # {} THEN {list.workers[Min(rest)]} ELSE Wids \cup {NoId}

\* Mutant of Erased: the counter forgotten.
ErasedUncounted(list, wid) ==
  [list EXCEPT !.workers = [i \in DOMAIN @ |->
     IF @[i] = wid /\ \A j \in 1 .. i - 1 : @[j] # wid THEN NoId ELSE @[i]]]

\* The first entry of wid is erased, and counted as gone.
Erased(list, wid) ==
  [list EXCEPT !.worker_count = @ - 1, !.workers = [i \in DOMAIN @ |->
     IF @[i] = wid /\ \A j \in 1 .. i - 1 : @[j] # wid THEN NoId ELSE @[i]]]

\* ums_get_next_worker_thread, the test of loop1, and ums_execute_thread up to
\* its test of the worker's state.
LibNext(t) ==
  /\ pc[t] = "next"
  /\ LET list == ListParams(t) IN
     \/ /\ list.state = "FINISHED"
        /\ pc' = [pc EXCEPT ![t] = "leave"]
        /\ UNCHANGED <<schedulers, local>>
     \/ /\ list.state # "FINISHED"
        /\ list.worker_count = 0
        /\ pc' = [pc EXCEPT ![t] = "dequeue"]
        /\ UNCHANGED <<schedulers, local>>
     \/ /\ list.state # "FINISHED"
        /\ list.worker_count # 0
        /\ \E wid \in NextWorker(list) :
             IF ~ WorkerKnown(wid)
             THEN /\ pc' = [pc EXCEPT ![t] = "dequeue"]
                  /\ UNCHANGED <<schedulers, local>>
             ELSE /\ pc' = [pc EXCEPT ![t] = IF workers[wid] = "IDLE"
                                            THEN "mark" ELSE "dequeue"]
                  /\ local' = [local EXCEPT ![t] = wid]
                  /\ schedulers' = [schedulers EXCEPT ![t].list = Erased(@, wid)]
  /\ UNCHANGED <<vars, main, completion_lists, workers, at, pauses>>

\* ums_execute_thread: the worker is marked before the kernel is asked ...
LibMark(t, wid) ==
  /\ pc[t] = "mark"
  /\ wid = local[t]
  /\ schedulers' = [schedulers EXCEPT ![t].wid = wid]
  /\ workers' = [workers EXCEPT ![wid] = "RUNNING"]
  /\ pc' = [pc EXCEPT ![t] = "execute"]
  /\ UNCHANGED <<vars, main, completion_lists, local, at, pauses>>

\* ... and keeps its mark when the kernel refuses.  On success loop1 goes on
\* when the worker has yielded.
LibExecute(t, wid) ==
  /\ pc[t] = "execute"
  /\ wid = local[t]
  /\ Ioctl(ExecuteThread(t, wid))
  /\ pc' = [pc EXCEPT ![t] = "dequeue"]
  /\ UNCHANGED <<main, completion_lists, workers, schedulers, local, at, pauses>>

LibExitSchedulingMode(t) ==
  /\ pc[t] = "leave"
  /\ Ioctl(ExitSchedulingMode(t))
  /\ pc' = [pc EXCEPT ![t] = IF reply'.err = "SUCCESS" THEN "gone" ELSE "lost"]
  /\ UNCHANGED <<main, completion_lists, workers, schedulers, local, at, pauses>>

-----------------------------------------------------------------------------
(* A worker, on the pthread that hosts it *)

Runs(t, n) == regs[t] = WorkerCtx(<<Main, n>>)

StatusOf(n) == IF pauses[n] > 0 THEN "PAUSE" ELSE "FINISH"

\* Mutant of Marked: a paused worker marked as a finished one.
MarkedFinished(status) == "FINISHED"

Marked(status) == IF status = "PAUSE" THEN "IDLE" ELSE "FINISHED"

\* ums_thread_yield up to its ioctl: the worker its scheduler names is marked
\* before the kernel has taken it off the pthread.
LibMarkYield(t, n) ==
  /\ Runs(t, n)
  /\ at[n] = "call"
  /\ workers' = [workers EXCEPT ![schedulers[t].wid] = Marked(StatusOf(n))]
  /\ at' = [at EXCEPT ![n] = "yield"]
  /\ UNCHANGED <<vars, main, completion_lists, schedulers, pc, local, pauses>>

LibYield(t, n) ==
  /\ Runs(t, n)
  /\ at[n] = "yield"
  /\ Ioctl(ThreadYield(t, StatusOf(n)))
  /\ at' = [at EXCEPT ![n] = "call"]
  /\ pauses' = [pauses EXCEPT ![n] = IF @ > 0 THEN @ - 1 ELSE 0]
  /\ UNCHANGED <<main, completion_lists, workers, schedulers, pc, local>>

-----------------------------------------------------------------------------
MainStep ==
  \/ LibEnter
  \/ LibCreateCompletionList
  \/ \E c \in Clids : LibCreateWorkerThread(c)
  \/ \E n \in Wids, c \in Clids : LibRecordWorker(n, c)
  \/ \E t \in Pthreads, c \in Clids : LibCreateScheduler(t, c)
  \/ LibExit

PthreadStep(t) ==
  \/ LibEnterSchedulingMode(t)
  \/ LibDequeue(t)
  \/ LibAsk(t)
  \/ LibTold(t)
  \/ LibNext(t)
  \/ \E n \in Wids : LibMark(t, n) \/ LibExecute(t, n)
  \/ LibExitSchedulingMode(t)
  \/ \E n \in Wids : LibMarkYield(t, n) \/ LibYield(t, n)

\* The process has exited.
Terminated == main = "gone" /\ UNCHANGED all

LibNextStep ==
  \/ /\ ~ undef
     /\ MainStep \/ \E t \in Pthreads : PthreadStep(t)
  \/ Terminated

LibSpec == LibInit /\ [][LibNextStep]_all

\* The threads of the process are preempted by the Linux scheduler, and the
\* spinlock of the module is handed over in order: each thread moves on.
Fairness == /\ WF_all(~ undef /\ MainStep)
            /\ \A t \in Pthreads : WF_all(~ undef /\ PthreadStep(t))

FairLibSpec == LibSpec /\ Fairness

-----------------------------------------------------------------------------
(* Properties *)

\* The library and loop1 ask the kernel only what the documented flow allows,
\* so that all that holds of UmsClient, whatever the policy, holds of them.
FollowsTheFlow == ClientSpec

\* No request of a scheduler that has its list to itself is ever refused: the
\* library's records do not let it ask for a worker it cannot have.
OwnListNeverRefused ==
  reply.task \in Pthreads =>
    \/ reply.err = "SUCCESS"
    \/ schedulers[reply.task].clid \in SharedLists

\* A scheduler leaves its loop, and the library tells the others of the list to
\* leave theirs, only when the kernel has finished every worker of the list: the
\* cached FINISHED is never ahead of the kernel.
FinishedIsNotEarly ==
  /\ \A t \in Pthreads :
       pc[t] \in {"leave", "gone"} /\ main # "gone" =>
         MembersIn(ListOfPthread(t), {"IDLE", "RUNNING"}) = {}
  /\ \A c \in Clids :
       completion_lists[c].state = "FINISHED" =>
         MembersIn(<<Main, c>>, {"IDLE", "RUNNING"}) = {}

\* When a scheduler asks for its list, the array it hands to the kernel holds as
\* many workers as the kernel copies to it, whatever was created since.
BufferHoldsList ==
  \A t \in Pthreads :
    pc[t] = "ask" =>
      comp_list[ListOfPthread(t)].worker_count <= ListParams(t).size

\* While the cached counter says that a worker is left, the array has one that
\* is not erased, and it is a worker of the scheduler's list.
CacheHasNext ==
  \A t \in Pthreads :
    LET list == ListParams(t) IN
    pc[t] = "next" /\ list.state # "FINISHED" /\ list.worker_count > 0 =>
      /\ \E i \in 1 .. list.size : list.workers[i] # NoId
      /\ NextWorker(list) \subseteq Members(ListOfPthread(t))

\* A worker that the kernel offers can be taken: the library has it RUNNING only
\* while a scheduler is on its way to execute it.
OfferedCanBeTaken ==
  \A n \in Wids :
    /\ WorkerExists(<<Main, n>>)
    /\ worker[<<Main, n>>].state = "IDLE"
    /\ workers[n] \in {"RUNNING", "FINISHED"}
    => \E t \in Pthreads : pc[t] = "execute" /\ local[t] = n

\* Every scheduler that is created runs its loop to its end, and with it every
\* worker of its list.
LoopsEnd == \A t \in Pthreads : pc[t] = "enter" ~> pc[t] = "gone"
=============================================================================
