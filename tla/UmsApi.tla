------------------------------- MODULE UmsApi -------------------------------
(***************************************************************************)
(* The UMS kernel module (src/src/module/ums_api.c) as the kernel runs it: *)
(* every request arrives through ioctl_ums (ums_dev.c), which holds one    *)
(* spinlock with interrupts off from the first to the last line of a       *)
(* handler, so that a handler is one atomic step.  Any task may issue any  *)
(* request with any argument while it is executing any context: this is    *)
(* what user space can do, whatever the library would ask for.             *)
(*                                                                         *)
(* Identifiers are the kernel's own: the n-th completion list, worker or   *)
(* scheduler of a process is the pair <<pid, n>>, n counted from 0.        *)
(* Register snapshots are abstracted to the code they belong to (that of   *)
(* the task itself, of a scheduler or of a worker) and to whether that     *)
(* code is still at its entry point or inside.                             *)
(***************************************************************************)
EXTENDS Integers, SequencesExt

CONSTANTS
  Tasks,        \* kernel tasks, named by their pid
  Tgid,         \* the pid of the main thread of each task's process
  Owners,       \* bound: the tasks that issue main-thread requests
  MaxLists,     \* bound: completion lists of a process
  MaxWorkers,   \* bound: workers of a process
  MaxScheds,    \* bound: schedulers of a process
  Faults        \* which kernel services may fail

ASSUME TasksAssumption == /\ Tgid \in [Tasks -> Tasks]
                          /\ Owners \subseteq Tasks
ASSUME BoundsAssumption ==
  /\ MaxLists \in Nat \ {0}
  /\ MaxWorkers \in Nat \ {0}
  /\ MaxScheds \in Nat \ {0}
ASSUME FaultsAssumption ==
  Faults \subseteq {"copy_from_user", "copy_to_user", "proc"}

VARIABLES
  process,      \* process_list: the node of each pid, "NONE" when absent
  comp_list,    \* the completion lists of all processes
  worker,       \* the workers of all processes
  scheduler,    \* the schedulers of all processes
  regs,         \* task_pt_regs: the context each task resumes in user space
  reply,        \* what the last ioctl returned, and to whom
  undef         \* TRUE once a wild pointer or garbage registers were used

vars == <<process, comp_list, worker, scheduler, regs, reply, undef>>

Clids == 0 .. MaxLists - 1
Wids  == 0 .. MaxWorkers - 1
Sids  == 0 .. MaxScheds - 1

NoId == -1      \* (unsigned) -1, the "no worker" value of scheduler->wid

Lists   == Tasks \X Clids
Workers == Tasks \X Wids
Scheds  == Tasks \X Sids

Own(t)         == <<"own", t, "inside">>        \* the pthread's ordinary code
SchedEntry(s)  == <<"scheduler", s, "entry">>   \* not started yet
SchedCtx(s)    == <<"scheduler", s, "inside">>
WorkerEntry(w) == <<"worker", w, "entry">>      \* not started yet
WorkerCtx(w)   == <<"worker", w, "inside">>
Garbage        == <<"garbage", NoId, "inside">> \* fields nobody initialised

Contexts == {Own(t) : t \in Tasks}
              \cup {SchedEntry(s) : s \in Scheds} \cup {SchedCtx(s) : s \in Scheds}
              \cup {WorkerEntry(w) : w \in Workers} \cup {WorkerCtx(w) : w \in Workers}
              \cup {Garbage}

\* A context loaded into a task is inside its code by the next request.
Entered(ctx) == <<ctx[1], ctx[2], "inside">>
CodeOf(ctx)  == <<ctx[1], ctx[2]>>

States   == {"IDLE", "RUNNING", "FINISHED"}
Statuses == {"PAUSE", "FINISH", "OTHER"}

Errors == {"SUCCESS", "PROCESS_NOT_FOUND", "PROCESS_ALREADY_EXISTS",
           "COMPLETION_LIST_NOT_FOUND", "SCHEDULER_NOT_FOUND",
           "WORKER_NOT_FOUND", "CMD_IS_NOT_ISSUED_BY_MAIN_THREAD",
           "WORKER_ALREADY_RUNNING", "WORKER_ALREADY_FINISHED",
           "WRONG_INPUT", "CMD_IS_NOT_ISSUED_BY_SCHEDULER",
           "FAILED_TO_CREATE_PROC_ENTRY", "BYTES_NOT_COPIED",
           "COMPLETION_LIST_IS_USED_AND_CANNOT_BE_MODIFIED"}

ProcessNodes ==
  [state : States \cup {"NONE"}, list_count : 0 .. MaxLists,
   worker_count : 0 .. MaxWorkers, scheduler_count : 0 .. MaxScheds,
   schedulers : 0 .. MaxScheds,      \* length of the scheduler list
   proc_entry : {"none", "complete", "partial"}]

ListNodes ==
  [state : States, worker_count : Nat, finished_count : Nat,
   idle_list : Seq(Wids), idle_count : Int,
   busy_list : Seq(Wids), busy_count : Int]

WorkerNodes ==
  [state : States, clid : Clids, pid : Tasks \cup {NoId},
   sid : Sids \cup {NoId}, regs : Contexts]

SchedNodes ==
  [sid : Sids, pid : Tasks \cup {NoId}, wid : Wids \cup {NoId},
   state : States, comp_list : Clids, regs : Contexts, home : Contexts]

Replies ==
  [task : Tasks \cup {NoId}, err : Errors, id : Nat,
   state : States \cup {"NONE"}, wids : Seq(Wids)]

NoProcess == [state |-> "NONE", list_count |-> 0, worker_count |-> 0,
              scheduler_count |-> 0, schedulers |-> 0, proc_entry |-> "none"]

EmptyList == [state |-> "IDLE", worker_count |-> 0, finished_count |-> 0,
              idle_list |-> <<>>, idle_count |-> 0,
              busy_list |-> <<>>, busy_count |-> 0]

NoWorker == [state |-> "IDLE", clid |-> 0, pid |-> NoId, sid |-> NoId,
             regs |-> Garbage]

NoSched == [sid |-> 0, pid |-> NoId, wid |-> NoId, state |-> "IDLE",
            comp_list |-> 0, regs |-> Garbage, home |-> Garbage]

Init ==
  /\ process   = [p \in Tasks |-> NoProcess]
  /\ comp_list = [l \in Lists |-> EmptyList]
  /\ worker    = [w \in Workers |-> NoWorker]
  /\ scheduler = [s \in Scheds |-> NoSched]
  /\ regs      = [t \in Tasks |-> Own(t)]
  /\ reply     = [task |-> NoId, err |-> "SUCCESS", id |-> 0,
                  state |-> "NONE", wids |-> <<>>]
  /\ undef     = FALSE

-----------------------------------------------------------------------------
(* Lookups, returns and errors *)

Managed(p)       == process[p].state # "NONE"
ListExists(l)    == l[2] < process[l[1]].list_count
WorkerExists(w)  == w[2] < process[w[1]].worker_count
SchedExists(s)   == s[2] < process[s[1]].schedulers

\* check_if_scheduler_exists_run_by: the first scheduler of t's process
\* whose pid is t.
RunBy(s, t) ==
  /\ s[1] = Tgid[t]
  /\ SchedExists(s)
  /\ scheduler[s].pid = t
  /\ \A n \in 0 .. s[2] - 1 : scheduler[<<s[1], n>>].pid # t

ListOf(s) == <<s[1], scheduler[s].comp_list>>

ReplyTo(t, err, id) == [task |-> t, err |-> err, id |-> id,
                        state |-> "NONE", wids |-> <<>>]

\* The handler returns to task t; its other effects are the caller's.
Return(t, err, id) == /\ reply' = ReplyTo(t, err, id)
                      /\ undef' = undef

\* An early return: nothing else changes.
Fail(t, err) == /\ Return(t, err, 0)
                /\ UNCHANGED <<process, comp_list, worker, scheduler, regs>>

\* A wild pointer is followed, or garbage registers are loaded.
Crash == /\ undef' = TRUE
         /\ UNCHANGED <<process, comp_list, worker, scheduler, regs, reply>>

\* A lookup without a match returns its uninitialised local variable: NULL,
\* which the handler reports as err, or a stray pointer, which it follows.
Miss(t, err) == Fail(t, err) \/ Crash

\* The two checks that open every handler a scheduler's task calls.
RejectCaller(t) ==
  \/ /\ ~ Managed(Tgid[t])
     /\ Fail(t, "PROCESS_NOT_FOUND")
  \/ /\ Managed(Tgid[t])
     /\ ~ \E s \in Scheds : RunBy(s, t)
     /\ Miss(t, "SCHEDULER_NOT_FOUND")

-----------------------------------------------------------------------------
(* What the handlers do to a node n *)

\* list_add_tail of a new worker, and the counters next to it.
LinkIdle(n, wid) ==
  [n EXCEPT !.idle_list = Append(@, wid), !.idle_count = @ + 1,
            !.worker_count = @ + 1]

\* list_move_tail of the i-th idle worker to the busy list.
MoveToBusy(n, i) ==
  [n EXCEPT !.idle_list = RemoveAt(@, i), !.idle_count = @ - 1,
            !.busy_list = Append(@, n.idle_list[i]), !.busy_count = @ + 1]

\* Mutants of MoveToIdle: list_add_tail without list_del; list_move to the head.
MoveToIdleKeepingBusy(n, i) ==
  [n EXCEPT !.busy_count = @ - 1,
            !.idle_list = Append(@, n.busy_list[i]), !.idle_count = @ + 1]

MoveToIdleHead(n, i) ==
  [n EXCEPT !.busy_list = RemoveAt(@, i), !.busy_count = @ - 1,
            !.idle_list = <<n.busy_list[i]>> \o @, !.idle_count = @ + 1]

\* list_move_tail of the i-th busy worker to the idle list.
MoveToIdle(n, i) ==
  [n EXCEPT !.busy_list = RemoveAt(@, i), !.busy_count = @ - 1,
            !.idle_list = Append(@, n.busy_list[i]), !.idle_count = @ + 1]

\* Mutant of Yielded: a paused worker is counted as finished too.
YieldedAlwaysCounted(n, i, status) ==
  IF status = "PAUSE" THEN [MoveToIdle(n, i) EXCEPT !.finished_count = @ + 1]
  ELSE [n EXCEPT !.finished_count = @ + 1]

\* A paused worker goes back to the idle list, a finished one is counted and
\* stays in the busy list.
Yielded(n, i, status) ==
  IF status = "PAUSE" THEN MoveToIdle(n, i)
  ELSE [n EXCEPT !.finished_count = @ + 1]

\* Mutants: the tgid stored for the pid; the worker's registers not saved.
AssignedToProcess(n, sid, t) ==
  [n EXCEPT !.state = "RUNNING", !.sid = sid, !.pid = Tgid[t]]

ReleasedUnsaved(n, status, ctx) ==
  [n EXCEPT !.state = IF status = "PAUSE" THEN "IDLE" ELSE "FINISHED"]

\* The worker node: run by a scheduler on task t, and released with its context.
Assigned(n, sid, t) ==
  [n EXCEPT !.state = "RUNNING", !.sid = sid, !.pid = t]

Released(n, status, ctx) ==
  [n EXCEPT !.state = IF status = "PAUSE" THEN "IDLE" ELSE "FINISHED",
            !.regs = ctx]

\* Mutants: the scheduler's registers not saved; wid not reset on a yield.
HostingUnsaved(n, wid, ctx) == [n EXCEPT !.wid = wid, !.state = "RUNNING"]

WaitingWithWid(n) == [n EXCEPT !.state = "IDLE"]

\* The scheduler node: its own context put aside for worker wid, and back.
Hosting(n, wid, ctx) ==
  [n EXCEPT !.wid = wid, !.state = "RUNNING", !.regs = ctx]

Waiting(n) == [n EXCEPT !.wid = NoId, !.state = "IDLE"]

\* exit_scheduling_mode: for good, with the context it was entered from.
Left(n) == [n EXCEPT !.state = "FINISHED", !.regs = n.home]

\* Mutants: the checks forgotten.
ModifiableAlways(n) == TRUE

UnoccupiedAlways(n) == TRUE

\* The conditions under which a list takes workers, and a scheduler may leave.
Modifiable(n) == n.state # "RUNNING"
Unoccupied(n) == n.wid = NoId

\* Mutant: FINISHED as soon as no worker is idle.
DequeueStateOfIdle(n) == IF n.idle_count = 0 THEN "FINISHED" ELSE "IDLE"

\* The state dequeue reports.
DequeueState(n) ==
  IF n.finished_count = n.worker_count THEN "FINISHED" ELSE "IDLE"

-----------------------------------------------------------------------------
(* Requests of the main thread *)

\* enter_ums: a node for the caller's pid, then its /proc directories.  When
\* those fail the node stays, with a half-initialised proc_entry.
EnterUms(t) ==
  \/ /\ Managed(t)
     /\ Fail(t, "PROCESS_ALREADY_EXISTS")
  \/ /\ ~ Managed(t)
     /\ \/ /\ process' = [process EXCEPT ![t].state = "RUNNING",
                                         ![t].proc_entry = "complete"]
           /\ Return(t, "SUCCESS", 0)
        \/ /\ "proc" \in Faults
           /\ process' = [process EXCEPT ![t].state = "RUNNING",
                                         ![t].proc_entry = "partial"]
           /\ Return(t, "FAILED_TO_CREATE_PROC_ENTRY", 0)
     /\ UNCHANGED <<comp_list, worker, scheduler, regs>>

\* exit_ums: only the state changes; the node is kept until module exit.
ExitUms(t) ==
  \/ /\ ~ Managed(t)
     /\ Fail(t, "CMD_IS_NOT_ISSUED_BY_MAIN_THREAD")
  \/ /\ Managed(t)
     /\ process' = [process EXCEPT ![t].state = "FINISHED"]
     /\ Return(t, "SUCCESS", 0)
     /\ UNCHANGED <<comp_list, worker, scheduler, regs>>

CreateCompletionList(t) ==
  \/ /\ ~ Managed(t)
     /\ Fail(t, "PROCESS_NOT_FOUND")
  \/ /\ Managed(t)
     /\ process[t].list_count < MaxLists
     /\ process' = [process EXCEPT ![t].list_count = @ + 1]
     /\ comp_list' = [comp_list EXCEPT ![<<t, process[t].list_count>>] = EmptyList]
     /\ Return(t, "SUCCESS", process[t].list_count)
     /\ UNCHANGED <<worker, scheduler, regs>>

\* create_worker_thread, once its checks have passed: the worker joins the
\* tail of the idle list of c.
AddWorker(t, c) ==
  LET wid == process[t].worker_count
      w   == <<t, wid>>
      l   == <<t, c>>
  IN
  /\ wid < MaxWorkers
  /\ process' = [process EXCEPT ![t].worker_count = @ + 1]
  /\ worker' = [worker EXCEPT ![w] =
       [state |-> "IDLE", clid |-> c, pid |-> NoId, sid |-> NoId,
        regs |-> WorkerEntry(w)]]
  /\ comp_list' = [comp_list EXCEPT ![l] = LinkIdle(@, wid)]
  /\ Return(t, "SUCCESS", wid)
  /\ UNCHANGED <<scheduler, regs>>

\* create_worker_thread: refused once a scheduler has been attached to c.
CreateWorkerThread(t, c) ==
  \/ /\ ~ Managed(t)
     /\ Fail(t, "PROCESS_NOT_FOUND")
  \/ /\ Managed(t)
     /\ "copy_from_user" \in Faults
     /\ Fail(t, "BYTES_NOT_COPIED")
  \/ /\ Managed(t)
     /\ ~ ListExists(<<t, c>>)
     /\ Miss(t, "COMPLETION_LIST_NOT_FOUND")
  \/ /\ Managed(t)
     /\ ListExists(<<t, c>>)
     /\ IF Modifiable(comp_list[<<t, c>>])
        THEN AddWorker(t, c)
        ELSE Fail(t, "COMPLETION_LIST_IS_USED_AND_CANNOT_BE_MODIFIED")

-----------------------------------------------------------------------------
(* Requests of the pthreads that become schedulers *)

\* Mutant of NewSched: the sid taken from the counter of workers.
NewSchedNumberedByWorkers(t, c) ==
  [sid |-> process[Tgid[t]].worker_count, pid |-> t, wid |-> NoId,
   state |-> "IDLE", comp_list |-> c, regs |-> Garbage, home |-> Garbage]

\* Mutant of NewSched: the tgid stored for the pid.
NewSchedOfProcess(t, c) ==
  [sid |-> process[Tgid[t]].scheduler_count, pid |-> Tgid[t], wid |-> NoId,
   state |-> "IDLE", comp_list |-> c, regs |-> Garbage, home |-> Garbage]

\* The node enter_scheduling_mode allocates, before its registers are saved.
NewSched(t, c) ==
  [sid |-> process[Tgid[t]].scheduler_count, pid |-> t, wid |-> NoId,
   state |-> "IDLE", comp_list |-> c, regs |-> Garbage, home |-> Garbage]

\* enter_scheduling_mode, once its checks have passed.  The node is linked, then
\* the parameters are copied back, and only then is it counted; the list is
\* RUNNING and the node complete before its /proc files are made, and only
\* after them is the context switched.
AddScheduler(t, c) ==
  LET p == Tgid[t]
      s == <<p, process[p].schedulers>>
  IN
  /\ process[p].schedulers < MaxScheds
  /\ \/ /\ "copy_to_user" \in Faults
        /\ process' = [process EXCEPT ![p].schedulers = @ + 1]
        /\ scheduler' = [scheduler EXCEPT ![s] = NewSched(t, c)]
        /\ Return(t, "BYTES_NOT_COPIED", 0)
        /\ UNCHANGED <<comp_list, regs>>
     \/ /\ process' = [process EXCEPT ![p].schedulers = @ + 1,
                                      ![p].scheduler_count = @ + 1]
        /\ scheduler' = [scheduler EXCEPT ![s] =
             [NewSched(t, c) EXCEPT !.regs = SchedEntry(s), !.home = regs[t]]]
        /\ comp_list' = [comp_list EXCEPT ![<<p, c>>].state = "RUNNING"]
        /\ \/ /\ regs' = [regs EXCEPT ![t] = SchedCtx(s)]
              /\ Return(t, "SUCCESS", process[p].scheduler_count)
           \/ /\ "proc" \in Faults
              /\ UNCHANGED regs
              /\ Return(t, "FAILED_TO_CREATE_PROC_ENTRY", 0)
  /\ UNCHANGED worker

\* enter_scheduling_mode: the process is found by tgid, the list by the copied
\* parameters.  Half-made directories of the process (enter_ums) are a wild
\* parent pointer here.
EnterSchedulingMode(t, c) ==
  LET p == Tgid[t] IN
  \/ /\ ~ Managed(p)
     /\ Fail(t, "PROCESS_NOT_FOUND")
  \/ /\ Managed(p)
     /\ "copy_from_user" \in Faults
     /\ Fail(t, "BYTES_NOT_COPIED")
  \/ /\ Managed(p)
     /\ ~ ListExists(<<p, c>>)
     /\ Miss(t, "COMPLETION_LIST_NOT_FOUND")
  \/ /\ Managed(p)
     /\ ListExists(<<p, c>>)
     /\ \/ AddScheduler(t, c)
        \/ /\ process[p].proc_entry = "partial"
           /\ Crash

\* exit_scheduling_mode: back to where the pthread entered.
ExitSchedulingMode(t) ==
  \/ RejectCaller(t)
  \/ \E s \in Scheds :
       /\ RunBy(s, t)
       /\ \/ /\ ~ Unoccupied(scheduler[s])
             /\ Fail(t, "CMD_IS_NOT_ISSUED_BY_SCHEDULER")
          \/ /\ Unoccupied(scheduler[s])
             /\ scheduler[s].home = Garbage
             /\ Crash
          \/ /\ Unoccupied(scheduler[s])
             /\ scheduler[s].home # Garbage
             /\ scheduler' = [scheduler EXCEPT ![s] = Left(@)]
             /\ regs' = [regs EXCEPT ![t] = scheduler[s].home]
             /\ Return(t, "SUCCESS", 0)
             /\ UNCHANGED <<process, comp_list, worker>>

\* The switch in execute_thread: the i-th idle worker goes to the tail of the
\* busy list, and the caller's context is swapped with the worker's.
SwitchToWorker(t, s, i) ==
  LET l   == ListOf(s)
      wid == comp_list[l].idle_list[i]
      w   == <<s[1], wid>>
  IN
  /\ worker' = [worker EXCEPT ![w] = Assigned(@, scheduler[s].sid, t)]
  /\ scheduler' = [scheduler EXCEPT ![s] = Hosting(@, wid, regs[t])]
  /\ comp_list' = [comp_list EXCEPT ![l] = MoveToBusy(@, i)]
  /\ regs' = [regs EXCEPT ![t] = Entered(worker[w].regs)]
  /\ Return(t, "SUCCESS", 0)
  /\ UNCHANGED process

\* execute_thread: looks wid up in the idle list of the scheduler's own list.
ExecuteThread(t, wid) ==
  \/ RejectCaller(t)
  \/ \E s \in Scheds :
       LET idle  == comp_list[ListOf(s)].idle_list
           state == worker[<<s[1], wid>>].state
       IN
       /\ RunBy(s, t)
       /\ \/ /\ wid \notin ToSet(idle)
             /\ Miss(t, "WORKER_NOT_FOUND")
          \/ \E i \in DOMAIN idle :
               /\ idle[i] = wid
               /\ IF state = "IDLE" THEN SwitchToWorker(t, s, i)
                  ELSE Fail(t, IF state = "RUNNING" THEN "WORKER_ALREADY_RUNNING"
                                                    ELSE "WORKER_ALREADY_FINISHED")

\* The switch in thread_yield: a paused worker goes to the tail of the idle
\* list, a finished one stays in the busy list; the context the scheduler saved
\* when it executed the worker is resumed.
SwitchToScheduler(t, s, i, status) ==
  LET l   == ListOf(s)
      wid == comp_list[l].busy_list[i]
      w   == <<s[1], wid>>
  IN
  /\ worker' = [worker EXCEPT ![w] = Released(@, status, regs[t])]
  /\ scheduler' = [scheduler EXCEPT ![s] = Waiting(@)]
  /\ comp_list' = [comp_list EXCEPT ![l] = Yielded(@, i, status)]
  /\ regs' = [regs EXCEPT ![t] = Entered(scheduler[s].regs)]
  /\ Return(t, "SUCCESS", 0)
  /\ UNCHANGED process

\* thread_yield: looks the scheduler's wid up in the busy list.
ThreadYield(t, status) ==
  \/ /\ status = "OTHER"
     /\ Fail(t, "WRONG_INPUT")
  \/ /\ status # "OTHER"
     /\ RejectCaller(t)
  \/ /\ status # "OTHER"
     /\ \E s \in Scheds :
          LET busy == comp_list[ListOf(s)].busy_list IN
          /\ RunBy(s, t)
          /\ \/ /\ scheduler[s].wid \notin ToSet(busy)
                /\ Miss(t, "WORKER_NOT_FOUND")
             \/ \E i \in DOMAIN busy :
                  /\ busy[i] = scheduler[s].wid
                  /\ SwitchToScheduler(t, s, i, status)

\* dequeue_completion_list_items: a copy of the idle list for the caller, which
\* takes nothing off it, and FINISHED once every worker of the list is.
DequeueCompletionListItems(t) ==
  \/ RejectCaller(t)
  \/ \E s \in Scheds :
       LET l == comp_list[ListOf(s)] IN
       /\ RunBy(s, t)
       /\ \/ /\ reply' = [ReplyTo(t, "SUCCESS", 0) EXCEPT
                  !.state = DequeueState(l),
                  !.wids = l.idle_list]
             /\ undef' = undef
             /\ UNCHANGED <<process, comp_list, worker, scheduler, regs>>
          \/ /\ Faults \cap {"copy_from_user", "copy_to_user"} # {}
             /\ Fail(t, "BYTES_NOT_COPIED")

-----------------------------------------------------------------------------
MainRequest(t) ==
  \/ EnterUms(t)
  \/ ExitUms(t)
  \/ CreateCompletionList(t)
  \/ \E c \in Clids : CreateWorkerThread(t, c)

SchedulerRequest(t) ==
  \/ \E c \in Clids : EnterSchedulingMode(t, c)
  \/ ExitSchedulingMode(t)
  \/ \E wid \in Wids \cup {NoId} : ExecuteThread(t, wid)
  \/ \E status \in Statuses : ThreadYield(t, status)
  \/ DequeueCompletionListItems(t)

\* ioctl_ums: one request of one task at a time.
Next == /\ ~ undef
        /\ \/ \E t \in Owners : MainRequest(t)
           \/ \E t \in Tasks : SchedulerRequest(t)

Spec == Init /\ [][Next]_vars
-----------------------------------------------------------------------------
(* Properties *)

\* Every field of every node holds a value of its type (ums_api.h).
TypeOK ==
  /\ process \in [Tasks -> ProcessNodes]
  /\ comp_list \in [Lists -> ListNodes]
  /\ worker \in [Workers -> WorkerNodes]
  /\ scheduler \in [Scheds -> SchedNodes]
  /\ regs \in [Tasks -> Contexts]
  /\ reply \in Replies
  /\ undef \in BOOLEAN

Members(l) ==
  {n \in Wids : WorkerExists(<<l[1], n>>) /\ worker[<<l[1], n>>].clid = l[2]}

MembersIn(l, states) ==
  {n \in Members(l) : worker[<<l[1], n>>].state \in states}

\* The idle and busy lists of a completion list split its workers: each one is
\* linked exactly once, in the idle list while IDLE and in the busy list while
\* RUNNING or FINISHED, whatever was created, executed, paused and finished.
ListPartition ==
  \A l \in Lists :
    /\ IsInjective(comp_list[l].idle_list)
    /\ IsInjective(comp_list[l].busy_list)
    /\ ToSet(comp_list[l].idle_list) = MembersIn(l, {"IDLE"})
    /\ ToSet(comp_list[l].busy_list) = MembersIn(l, {"RUNNING", "FINISHED"})

\* The four counters of a completion list, each kept by hand next to the lists,
\* agree with the lists and with the states of the workers; dequeue sizes its
\* buffer and decides FINISHED from them.
CountersMatch ==
  \A l \in Lists :
    LET c == comp_list[l] IN
    /\ c.idle_count = Len(c.idle_list)
    /\ c.busy_count = Len(c.busy_list)
    /\ c.worker_count = Len(c.idle_list) + Len(c.busy_list)
    /\ c.finished_count = Cardinality(MembersIn(l, {"FINISHED"}))

\* A scheduler is RUNNING exactly while it names a worker; that worker is
\* RUNNING, of the scheduler's own list, marked with the scheduler's sid and
\* pid, and named by no other scheduler.
SchedulerOwnsWorker ==
  \A s \in Scheds :
    /\ (scheduler[s].state = "RUNNING") <=> (scheduler[s].wid # NoId)
    /\ scheduler[s].wid # NoId =>
         LET w == worker[<<s[1], scheduler[s].wid>>] IN
         /\ scheduler[s].wid \in Members(ListOf(s))
         /\ w.state = "RUNNING"
         /\ w.pid = scheduler[s].pid
         /\ w.sid = scheduler[s].sid
         /\ \A r \in Scheds \ {s} :
              r[1] = s[1] => scheduler[r].wid # scheduler[s].wid

\* The places a context may be resumed from: a task that is executing it, a
\* scheduler waiting for its worker, an idle worker.
Holders ==
  {<<"task", t>> : t \in Tasks}
    \cup {<<"scheduler", s>> : s \in {r \in Scheds : scheduler[r].wid # NoId}}
    \cup {<<"worker", w>> : w \in {v \in Workers : WorkerExists(v)
                                     /\ worker[v].state = "IDLE"}}

ContextOf(h) ==
  CASE h[1] = "task"      -> regs[h[2]]
    [] h[1] = "scheduler" -> scheduler[h[2]].regs
    [] h[1] = "worker"    -> worker[h[2]].regs

\* No register snapshot is ever duplicated: a context that one task executes is
\* not also waiting to be resumed elsewhere, so that no code runs on one stack
\* twice at a time, whichever handlers are called from whichever context.
ContextsNotDuplicated ==
  \A h \in Holders, k \in Holders :
    CodeOf(ContextOf(h)) = CodeOf(ContextOf(k)) => h = k

\* A finished worker is never touched again: not executed, paused or finished
\* a second time, on any task.
FinishedForever ==
  [][\A w \in Workers :
       WorkerExists(w) /\ worker[w].state = "FINISHED" => worker'[w] = worker[w]]_vars

\* No worker is added to a list with a scheduler, so a list whose last worker
\* finished stays complete: the library remembers FINISHED and asks no more.
Complete(l) == /\ comp_list[l].state = "RUNNING"
               /\ MembersIn(l, {"IDLE", "RUNNING"}) = {}
CompleteForever == [][\A l \in Lists : Complete(l) => Complete(l)']_vars

\* What dequeue answers is true when it answers: FINISHED exactly when every
\* worker of the caller's list is, and otherwise the idle ones, each once, at
\* most as many as the caller's buffer holds.
DequeueTellsTheTruth ==
  [][\A t \in Tasks, s \in Scheds :
       /\ RunBy(s, t)
       /\ DequeueCompletionListItems(t)
       /\ reply'.err = "SUCCESS"
       => LET l == ListOf(s) IN
          /\ reply'.state = "FINISHED" <=> MembersIn(l, {"IDLE", "RUNNING"}) = {}
          /\ ToSet(reply'.wids) = MembersIn(l, {"IDLE"})
          /\ Len(reply'.wids) = Cardinality(MembersIn(l, {"IDLE"}))
          /\ Len(reply'.wids) <= comp_list[l].worker_count]_vars

Before(list, a, b) ==
  \E i \in DOMAIN list, j \in DOMAIN list : i < j /\ list[i] = a /\ list[j] = b

\* Idle workers are offered first in, first out: a worker that becomes idle
\* later never overtakes one that is waiting.
IdleOrderKept ==
  [][\A l \in Lists :
       \A a \in ToSet(comp_list[l].idle_list), b \in ToSet(comp_list'[l].idle_list) :
         a # b /\ a \in ToSet(comp_list'[l].idle_list)
           /\ ~ Before(comp_list[l].idle_list, b, a)
           => Before(comp_list'[l].idle_list, a, b)]_vars

-----------------------------------------------------------------------------
(* What the documentation says and the code does not do *)

\* ums_api.c documents each lookup as returning NULL when there is no match;
\* no handler then follows a pointer to nothing.
LookupMissIsNull == ~ undef

\* ums_api.h documents scheduler->pid as the thread that is currently running
\* the scheduler: the lookup by pid finds the scheduler whose code the thread
\* runs, whatever other schedulers it has left for good before.
LookupFindsRunningScheduler ==
  \A t \in Tasks, s \in Scheds :
    /\ regs[t] = SchedCtx(s)
    /\ \A r \in Scheds \ {s} :
         SchedExists(r) /\ scheduler[r].pid = t => scheduler[r].state = "FINISHED"
    => RunBy(s, t)
=============================================================================
