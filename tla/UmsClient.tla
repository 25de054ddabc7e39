----------------------------- MODULE UmsClient ------------------------------
(***************************************************************************)
(* The kernel module used in the order doc/report.md section 3 gives: the  *)
(* main thread registers, creates completion lists and workers, and leaves *)
(* when its schedulers are done; each pthread enters scheduling mode once; *)
(* scheduler code dequeues, executes workers of its choice (any id, also a *)
(* stale or wrong one) and exits; worker code pauses or finishes.  Which   *)
(* code a task is in, and hence what it may ask for, is what the kernel    *)
(* last put into its registers.                                            *)
(***************************************************************************)
EXTENDS UmsApi

Mains    == {t \in Tasks : Tgid[t] = t}
Pthreads == Tasks \ Mains

\* A process is named by its main thread, and -1 is nobody's pid.
ASSUME ClientAssumption == /\ \A t \in Tasks : Tgid[t] \in Mains
                           /\ NoId \notin Tasks

\* pthread_join: every pthread that became a scheduler has left the mode.
Joined(t) == \A s \in Scheds :
               s[1] = t /\ SchedExists(s) => scheduler[s].state = "FINISHED"

MainCode(t) ==
  /\ t \in Owners \cap Mains
  /\ \/ EnterUms(t)
     \/ CreateCompletionList(t)
     \/ \E c \in Clids : CreateWorkerThread(t, c)
     \/ Joined(t) /\ ExitUms(t)

PthreadCode(t) ==
  /\ t \in Pthreads
  /\ regs[t] = Own(t)
  /\ ~ \E s \in Scheds : RunBy(s, t)
  /\ \E c \in Clids : EnterSchedulingMode(t, c)

SchedulerCode(t) ==
  /\ t \in Pthreads
  /\ \E s \in Scheds : regs[t] = SchedCtx(s)
  /\ \/ DequeueCompletionListItems(t)
     \/ \E wid \in Wids \cup {NoId} : ExecuteThread(t, wid)
     \/ ExitSchedulingMode(t)

WorkerCode(t) ==
  /\ t \in Pthreads
  /\ \E w \in Workers : regs[t] = WorkerCtx(w)
  /\ \E status \in {"PAUSE", "FINISH"} : ThreadYield(t, status)

ClientNext ==
  /\ ~ undef
  /\ \E t \in Tasks :
       MainCode(t) \/ PthreadCode(t) \/ SchedulerCode(t) \/ WorkerCode(t)

ClientSpec == Init /\ [][ClientNext]_vars

-----------------------------------------------------------------------------
(* Properties *)

\* A pthread executes exactly what its scheduler node says: the worker named by
\* wid while there is one, with the scheduler's own code saved for its return;
\* else the scheduler's code until it leaves, then the pthread's.
ContextFollowsScheduler ==
  \A t \in Pthreads, s \in Scheds :
    RunBy(s, t) =>
      IF scheduler[s].wid # NoId
      THEN /\ regs[t] = WorkerCtx(<<s[1], scheduler[s].wid>>)
           /\ scheduler[s].regs = SchedCtx(s)
      ELSE regs[t] = IF scheduler[s].state = "FINISHED"
                     THEN Own(t) ELSE SchedCtx(s)

\* An idle worker resumes its own code, on whichever pthread it is executed: at
\* its entry point if it never ran, where it paused if it did.
IdleWorkerKeepsItsContext ==
  \A w \in Workers :
    WorkerExists(w) /\ worker[w].state = "IDLE" =>
      worker[w].regs = IF worker[w].pid = NoId THEN WorkerEntry(w) ELSE WorkerCtx(w)

\* A RUNNING worker is on the processor of the pthread recorded in it, run by
\* a scheduler that names it: no worker is lost while RUNNING.
RunningWorkerIsHosted ==
  \A w \in Workers :
    WorkerExists(w) /\ worker[w].state = "RUNNING" =>
      /\ regs[worker[w].pid] = WorkerCtx(w)
      /\ \E s \in Scheds : RunBy(s, worker[w].pid) /\ scheduler[s].wid = w[2]

-----------------------------------------------------------------------------
(* The kernel module, so used, implements WorkerScheduling. *)

PhaseIn  == [IDLE |-> "ready", RUNNING |-> "running", FINISHED |-> "done"]
Phase(w) == IF WorkerExists(w) THEN PhaseIn[worker[w].state] ELSE "absent"

Phases   == [w \in Workers |-> Phase(w)]
Member   == {<<w, <<w[1], worker[w].clid>>>> : w \in {v \in Workers : WorkerExists(v)}}
Closed   == {l \in Lists : comp_list[l].state = "RUNNING"}
Attached == {<<scheduler[s].pid, ListOf(s)>> :
               s \in {r \in Scheds : SchedExists(r) /\ scheduler[r].state # "FINISHED"}}
On       == {<<worker[w].pid, w>> :
               w \in {v \in Workers : WorkerExists(v) /\ worker[v].state = "RUNNING"}}

Abstract == INSTANCE WorkerScheduling WITH
  Hosts <- Pthreads, phase <- Phases, member <- Member, closed <- Closed,
  attached <- Attached, on <- On

\* Every step of the kernel module under this use is a step of the abstract
\* scheduling of workers, or changes nothing a program can tell.
ImplementsWorkerScheduling == Abstract!Spec
=============================================================================
