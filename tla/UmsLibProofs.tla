---------------------------- MODULE UmsLibProofs ----------------------------
(***************************************************************************)
(* The library of UmsLib on the kernel module, for every number of         *)
(* pthreads, workers and lists, and every number of pauses.                *)
(*                                                                         *)
(* FlowInv says where the code of each pthread is, in the library and for  *)
(* the kernel, so that each request is one of UmsClient.  It is kept also  *)
(* when a copy from user space fails and whatever malloc returns.          *)
(*                                                                         *)
(* LibInv relates the records of the library, which no lock protects, to   *)
(* those of the kernel.  It needs Calm: what the code does without it is   *)
(* shown by runs.  A step of pthread t changes what concerns t only        *)
(* (Moves), which leaves the rest of LibInv alone (MovesKeep).             *)
(*                                                                         *)
(* OfferInv says which workers the library may mark before the kernel has  *)
(* answered.  It needs that workers of a shared list do not pause.         *)
(***************************************************************************)
EXTENDS UmsLib, UmsClientProofs

\* Between two calls of its loop, and inside one.
Calls == {"ask", "told", "next", "mark", "execute", "leave"}
Loop  == Calls \cup {"dequeue"}

HasNode(t, s) == SchedExists(s) /\ scheduler[s].pid = t

ListRecords ==
  UNION {[size : {k}, worker_count : Int, state : States \cup {"NONE"},
          workers : [1 .. k -> Wids \cup {NoId}]] : k \in Nat}

SchedulerRecords == [clid : Clids, wid : Wids \cup {NoId}, list : ListRecords]
KnownLists       == [known : BOOLEAN, state : {"IDLE", "FINISHED"}, worker_count : Nat]

LibTypeOK ==
  /\ main \in {"start", "setup", "record", "gone"}
  /\ completion_lists \in [Clids -> KnownLists]
  /\ workers \in [Wids -> {"ABSENT", "IDLE", "RUNNING", "FINISHED"}]
  /\ schedulers \in [Pthreads -> SchedulerRecords]
  /\ pc \in [Pthreads -> Loop \cup {"none", "enter", "lost", "gone"}]
  /\ local \in [Pthreads -> Wids \cup {NoId}]
  /\ at \in [Wids -> {"call", "yield"}]
  /\ pauses \in [Wids -> Nat]

\* Where a pthread's code is agrees with what the kernel has for it.
Placed(t) ==
  /\ pc[t] \in {"none", "enter"} => regs[t] = Own(t) /\ \A s \in Scheds : ~ HasNode(t, s)
  /\ pc[t] \in Loop =>
       \E s \in Scheds : /\ HasNode(t, s) /\ scheduler[s].state # "FINISHED"
                         /\ pc[t] \in Calls => ~ Names(s)
  /\ pc[t] = "gone" =>
       /\ regs[t] = Own(t)
       /\ \A s \in Scheds : HasNode(t, s) => scheduler[s].state = "FINISHED"

AllPlaced == ~ undef => \A t \in Pthreads : Placed(t)

FlowInv == ClientInv /\ LibTypeOK /\ AllPlaced

LEMMA OneMain ==
  /\ Main \in Tasks /\ Main \in Mains /\ Main \in Owners
  /\ \A t \in Pthreads : t \in Tasks /\ Tgid[t] = Main /\ t # Main
  /\ \A s \in Scheds : s[1] \in Tasks
BY LibAssumption, TasksAssumption, SchedPair DEF Mains, Pthreads

LEMMA FlowInvHas ==
  ASSUME FlowInv
  PROVE  ClientInv /\ TypeInv /\ TypeOK /\ LibTypeOK /\ CountInv /\ ListInv /\ UseInv
BY ClientInvHas DEF FlowInv, TypeInv

LEMMA SchedulerIs ==
  ASSUME FlowInv, NEW t \in Pthreads
  PROVE  /\ schedulers[t] \in SchedulerRecords
         /\ schedulers[t].clid \in Clids /\ schedulers[t].wid \in Wids \cup {NoId}
         /\ ListParams(t) \in ListRecords /\ ListParams(t) = schedulers[t].list
<1>1. schedulers[t] \in SchedulerRecords
  BY DEF FlowInv, LibTypeOK
<1> QED
  BY <1>1 DEF SchedulerRecords, ListParams

-----------------------------------------------------------------------------
(* The library follows the documented flow *)

\* In a call of its loop, a pthread is in its scheduler's code.
LEMMA CallsAreSchedulerCode ==
  ASSUME FlowInv, ~ undef, NEW t \in Pthreads, pc[t] \in Calls
  PROVE  \E s \in Scheds : /\ RunBy(s, t) /\ HasNode(t, s) /\ regs[t] = SchedCtx(s)
                           /\ ~ Names(s) /\ scheduler[s].state # "FINISHED"
                           /\ HostKnown(s)
<1>1. PICK s \in Scheds : HasNode(t, s) /\ scheduler[s].state # "FINISHED" /\ ~ Names(s)
  BY DEF FlowInv, AllPlaced, Placed, Loop
<1>2. HostKnown(s) /\ InContext(s)
  BY <1>1, FlowInvHas DEF UseInv, EachHost, HasNode
<1>3. regs[t] = SchedCtx(s)
  BY <1>1, <1>2 DEF InContext, HasNode
<1>4. RunBy(s, t)
  BY <1>1, LookupFinds, FlowInvHas DEF HasNode
<1> QED
  BY <1>1, <1>2, <1>3, <1>4

LEMMA JoinedWhenGone ==
  ASSUME FlowInv, ~ undef, SchedulersJoined
  PROVE  Joined(Main)
<1> SUFFICES ASSUME NEW s \in Scheds, SchedExists(s)
             PROVE  scheduler[s].state = "FINISHED"
  BY DEF Joined
<1> PICK t \in Pthreads : t = scheduler[s].pid
  BY FlowInvHas DEF UseInv, EachHost, HostKnown
<1>1. HasNode(t, s) /\ Placed(t)
  BY DEF HasNode, FlowInv, AllPlaced
<1>2. pc[t] # "none"
  BY <1>1 DEF Placed
<1>3. pc[t] = "gone"
  BY <1>2 DEF SchedulersJoined, Created
<1> QED
  BY <1>1, <1>3 DEF Placed

\* Every request of the library is one of the documented flow.
LEMMA LibIsClient ==
  ASSUME FlowInv, [LibNextStep]_all
  PROVE  [ClientNext]_vars
<1>1. CASE UNCHANGED all
  BY <1>1 DEF all, vars
<1>2. CASE Terminated
  BY <1>2 DEF Terminated, all, vars
<1>3. CASE ~ undef /\ MainStep
  <2>1. Main \in Owners \cap Mains /\ Main \in Tasks
    BY OneMain
  <2>2. CASE LibEnter
    BY <1>3, <2>1, <2>2 DEF LibEnter, Ioctl, ClientNext, MainCode
  <2>3. CASE LibCreateCompletionList
    BY <1>3, <2>1, <2>3 DEF LibCreateCompletionList, Ioctl, ClientNext, MainCode
  <2>4. CASE \E c \in Clids : LibCreateWorkerThread(c)
    BY <1>3, <2>1, <2>4 DEF LibCreateWorkerThread, Ioctl, ClientNext, MainCode
  <2>5. CASE \E n \in Wids, c \in Clids : LibRecordWorker(n, c)
    BY <2>5 DEF LibRecordWorker
  <2>6. CASE \E t \in Pthreads, c \in Clids : LibCreateScheduler(t, c)
    BY <2>6 DEF LibCreateScheduler
  <2>7. CASE LibExit
    <3>1. Joined(Main)
      BY <1>3, <2>7, JoinedWhenGone DEF LibExit
    <3> QED
      BY <1>3, <2>1, <2>7, <3>1 DEF LibExit, Ioctl, ClientNext, MainCode
  <2> QED
    BY <1>3, <2>2, <2>3, <2>4, <2>5, <2>6, <2>7 DEF MainStep
<1>4. ASSUME ~ undef, NEW t \in Pthreads, PthreadStep(t)
      PROVE  [ClientNext]_vars
  <2>1. t \in Tasks
    BY OneMain
  <2>2. CASE LibEnterSchedulingMode(t)
    <3>1. regs[t] = Own(t) /\ ~ \E s \in Scheds : RunBy(s, t)
      BY <1>4, <2>2 DEF FlowInv, AllPlaced, Placed, LibEnterSchedulingMode, RunBy, HasNode
    <3>2. schedulers[t].clid \in Clids
      BY SchedulerIs
    <3> QED
      BY <1>4, <2>1, <2>2, <3>1, <3>2
         DEF LibEnterSchedulingMode, Ioctl, ClientNext, PthreadCode
  <2>3. CASE LibDequeue(t) \/ LibTold(t) \/ LibNext(t)
             \/ \E n \in Wids : LibMark(t, n) \/ LibMarkYield(t, n)
    BY <2>3 DEF LibDequeue, LibTold, LibNext, LibMark, LibMarkYield
  <2>4. ASSUME pc[t] \in Calls
        PROVE  \E s \in Scheds : regs[t] = SchedCtx(s)
    BY <1>4, <2>4, CallsAreSchedulerCode
  <2>5. CASE LibAsk(t)
    <3>1. DequeueCompletionListItems(t) /\ \E s \in Scheds : regs[t] = SchedCtx(s)
      BY <2>4, <2>5 DEF LibAsk, Ioctl, Calls
    <3> QED
      BY <1>4, <2>1, <3>1 DEF ClientNext, SchedulerCode
  <2>6. CASE \E n \in Wids : LibExecute(t, n)
    <3>1. PICK n \in Wids : LibExecute(t, n)
      BY <2>6
    <3>2. ExecuteThread(t, n) /\ \E s \in Scheds : regs[t] = SchedCtx(s)
      BY <2>4, <3>1 DEF LibExecute, Ioctl, Calls
    <3> QED
      BY <1>4, <2>1, <3>2 DEF ClientNext, SchedulerCode
  <2>7. CASE LibExitSchedulingMode(t)
    <3>1. ExitSchedulingMode(t) /\ \E s \in Scheds : regs[t] = SchedCtx(s)
      BY <2>4, <2>7 DEF LibExitSchedulingMode, Ioctl, Calls
    <3> QED
      BY <1>4, <2>1, <3>1 DEF ClientNext, SchedulerCode
  <2>8. CASE \E n \in Wids : LibYield(t, n)
    <3>1. PICK n \in Wids : LibYield(t, n)
      BY <2>8
    <3>2. /\ <<Main, n>> \in Workers /\ regs[t] = WorkerCtx(<<Main, n>>)
          /\ ThreadYield(t, StatusOf(n)) /\ StatusOf(n) \in {"PAUSE", "FINISH"}
      BY <3>1, OneMain DEF LibYield, Ioctl, Runs, StatusOf, Workers
    <3> QED
      BY <1>4, <2>1, <3>2 DEF ClientNext, WorkerCode
  <2> QED
    BY <1>4, <2>2, <2>3, <2>5, <2>6, <2>7, <2>8 DEF PthreadStep
<1> QED
  BY <1>1, <1>2, <1>3, <1>4 DEF LibNextStep

-----------------------------------------------------------------------------
(* What a request of a pthread does *)

Untouched == UNCHANGED <<process, comp_list, worker, scheduler, regs>>

\* The request of t came to nothing: an error, or a wild pointer.
Refused(t) ==
  /\ Untouched
  /\ \/ reply' = reply /\ undef'
     \/ reply'.task = t /\ reply'.err # "SUCCESS" /\ undef' = undef

LEMMA RefusalIs ==
  ASSUME NEW t, NEW err, err # "SUCCESS",
         Fail(t, err) \/ Miss(t, err) \/ RejectCaller(t) \/ Crash
  PROVE  Refused(t)
<1>1. ASSUME NEW e, e # "SUCCESS", Fail(t, e) \/ Crash
      PROVE  Refused(t)
  <2>1. CASE Crash
    BY <2>1 DEF Crash, Refused, Untouched
  <2>2. CASE Fail(t, e)
    BY <1>1, <2>2 DEF Fail, Return, ReplyTo, Refused, Untouched
  <2> QED
    BY <1>1, <2>1, <2>2
<1>2. "PROCESS_NOT_FOUND" # "SUCCESS" /\ "SCHEDULER_NOT_FOUND" # "SUCCESS"
  OBVIOUS
<1> QED
  BY <1>1, <1>2 DEF Miss, RejectCaller

\* Node s is made for pthread t, whose code it becomes.
Added(t, c, s) ==
  /\ s \in Scheds /\ ~ SchedExists(s)
  /\ \A r \in Scheds : SchedExists(r)' <=> SchedExists(r) \/ r = s
  /\ \A r \in Scheds : r # s => scheduler'[r] = scheduler[r]
  /\ scheduler'[s].pid = t /\ scheduler'[s].wid = NoId /\ scheduler'[s].state = "IDLE"
  /\ ListOf(s)' = <<Main, c>>
  /\ regs'[t] = SchedCtx(s) /\ \A u \in Tasks : u # t => regs'[u] = regs[u]
  /\ worker' = worker
  /\ process' = [process EXCEPT ![Main].schedulers = @ + 1, ![Main].scheduler_count = @ + 1]
  /\ comp_list' = [comp_list EXCEPT ![<<Main, c>>].state = "RUNNING"]
  /\ reply'.task = t /\ reply'.err = "SUCCESS"

LEMMA EnterDoes ==
  ASSUME TypeInv, SoundFaults, NEW t \in Pthreads, NEW c \in Clids,
         EnterSchedulingMode(t, c)
  PROVE  Refused(t) \/ \E s \in Scheds : Added(t, c, s)
<1>1. t \in Tasks /\ Tgid[t] = Main /\ Main \in Tasks
  BY OneMain
<1>2. CASE \E err : err # "SUCCESS" /\ (Fail(t, err) \/ Miss(t, err) \/ Crash)
  BY <1>2, RefusalIs
<1>3. CASE AddScheduler(t, c)
  <2> PICK s : s = <<Main, process[Main].schedulers>>
    OBVIOUS
  <2>1. process[Main] \in ProcessNodes /\ process[Main].schedulers < MaxScheds
    BY <1>1, <1>3 DEF AddScheduler, TypeInv, TypeOK
  <2>2. s \in Scheds
    BY <1>1, <2>1, BoundsAssumption DEF ProcessNodes, Scheds, Sids
  <2>3. /\ process' = [process EXCEPT ![Main].schedulers = @ + 1,
                                      ![Main].scheduler_count = @ + 1]
        /\ scheduler' = [scheduler EXCEPT ![s] =
             [NewSched(t, c) EXCEPT !.regs = SchedEntry(s), !.home = regs[t]]]
        /\ comp_list' = [comp_list EXCEPT ![<<Main, c>>].state = "RUNNING"]
        /\ regs' = [regs EXCEPT ![t] = SchedCtx(s)]
        /\ Return(t, "SUCCESS", process[Main].scheduler_count)
        /\ worker' = worker
    BY <1>1, <1>3 DEF AddScheduler, SoundFaults
  <2>4. /\ \A r \in Scheds : SchedExists(r)' <=> SchedExists(r) \/ r = s
        /\ ~ SchedExists(s)
    <3>1. process \in [Tasks -> ProcessNodes]
      BY DEF TypeInv, TypeOK
    <3>2. \A p \in Tasks : process'[p].schedulers =
            IF p = Main THEN process[Main].schedulers + 1 ELSE process[p].schedulers
      BY <1>1, <2>3, <3>1 DEF ProcessNodes
    <3>3. \A p \in Tasks : process[p].schedulers \in Int
      BY <3>1, BoundsAssumption DEF ProcessNodes
    <3>4. ASSUME NEW r \in Scheds
          PROVE  SchedExists(r)' <=> SchedExists(r) \/ r = s
      BY <3>2, <3>3, SchedPair DEF SchedExists
    <3> QED
      BY <3>3, <3>4, <1>1 DEF SchedExists
  <2>5. /\ scheduler'[s] = [NewSched(t, c) EXCEPT !.regs = SchedEntry(s), !.home = regs[t]]
        /\ \A r \in Scheds : r # s => scheduler'[r] = scheduler[r]
    BY <2>2, <2>3 DEF TypeInv, TypeOK
  <2>6. scheduler'[s].pid = t /\ scheduler'[s].wid = NoId /\ scheduler'[s].state = "IDLE"
        /\ scheduler'[s].comp_list = c
    BY <2>5 DEF NewSched
  <2>7. ListOf(s)' = <<Main, c>>
    BY <2>6 DEF ListOf
  <2>8. regs'[t] = SchedCtx(s) /\ \A u \in Tasks : u # t => regs'[u] = regs[u]
    BY <1>1, <2>3 DEF TypeInv, TypeOK
  <2>9. reply'.task = t /\ reply'.err = "SUCCESS"
    BY <2>3 DEF Return, ReplyTo
  <2> QED
    BY <2>2, <2>3, <2>4, <2>5, <2>6, <2>7, <2>8, <2>9 DEF Added
<1> QED
  <2>1. /\ "PROCESS_NOT_FOUND" # "SUCCESS" /\ "BYTES_NOT_COPIED" # "SUCCESS"
        /\ "COMPLETION_LIST_NOT_FOUND" # "SUCCESS"
    OBVIOUS
  <2> QED
    BY <1>2, <1>3, <2>1 DEF EnterSchedulingMode, Miss

\* Scheduler s gets its list, or an error.
LEMMA AskDoes ==
  ASSUME NEW t \in Pthreads, NEW s \in Scheds, RunBy(s, t),
         DequeueCompletionListItems(t)
  PROVE  /\ Untouched
         /\ Managed(Main) /\ Faults = {} =>
              /\ reply'.task = t /\ reply'.err = "SUCCESS" /\ undef' = undef
              /\ reply'.state = DequeueState(comp_list[ListOf(s)])
              /\ reply'.wids = comp_list[ListOf(s)].idle_list
<1>1. t \in Tasks /\ Tgid[t] = Main
  BY OneMain
<1>2. CASE RejectCaller(t)
  BY <1>1, <1>2 DEF RejectCaller, Fail, Untouched
<1>3. ASSUME NEW r \in Scheds, RunBy(r, t),
             reply' = [ReplyTo(t, "SUCCESS", 0) EXCEPT
                         !.state = DequeueState(comp_list[ListOf(r)]),
                         !.wids = comp_list[ListOf(r)].idle_list],
             undef' = undef, Untouched
      PROVE  /\ Untouched
             /\ reply'.task = t /\ reply'.err = "SUCCESS" /\ undef' = undef
             /\ reply'.state = DequeueState(comp_list[ListOf(s)])
             /\ reply'.wids = comp_list[ListOf(s)].idle_list
  <2>1. r = s
    BY <1>1, <1>3, RunByUnique
  <2> QED
    BY <1>3, <2>1 DEF ReplyTo
<1>4. CASE /\ Faults \cap {"copy_from_user", "copy_to_user"} # {}
           /\ Fail(t, "BYTES_NOT_COPIED")
  BY <1>4 DEF Fail, Untouched
<1> QED
  BY <1>2, <1>3, <1>4 DEF DequeueCompletionListItems, Untouched

\* One node of t changes, and what t executes.
NodeChanges(t, s) ==
  /\ process' = process
  /\ scheduler'[s].pid = scheduler[s].pid /\ ListOf(s)' = ListOf(s)
  /\ \A r \in Scheds : r # s => scheduler'[r] = scheduler[r]
  /\ \A u \in Tasks : u # t => regs'[u] = regs[u]
  /\ \A m \in Lists : /\ comp_list'[m].worker_count = comp_list[m].worker_count
                      /\ comp_list'[m].state = comp_list[m].state

\* Scheduler s puts idle worker n on t.
Took(t, s, n) ==
  /\ NodeChanges(t, s)
  /\ n \in MembersIn(ListOf(s), {"IDLE"})
  /\ Replaced(<<Main, n>>, worker'[<<Main, n>>]) /\ worker'[<<Main, n>>].state = "RUNNING"
  /\ scheduler'[s].state = "RUNNING" /\ scheduler'[s].wid = n
  /\ regs'[t] = WorkerCtx(<<Main, n>>)
  /\ reply'.task = t /\ reply'.err = "SUCCESS"

LEMMA ExecuteDoes ==
  ASSUME FlowInv, ~ undef, NEW t \in Pthreads, pc[t] \in Calls, NEW n \in Wids,
         ExecuteThread(t, n)
  PROVE  \E s \in Scheds :
           /\ HasNode(t, s)
           /\ \/ Refused(t) /\ (Managed(Main) => n \notin MembersIn(ListOf(s), {"IDLE"}))
              \/ Took(t, s, n)
<1>1. t \in Tasks /\ Tgid[t] = Main /\ Main \in Tasks
  BY OneMain
<1>2. PICK s \in Scheds : RunBy(s, t) /\ HasNode(t, s) /\ regs[t] = SchedCtx(s)
  BY CallsAreSchedulerCode
<1>3. s[1] = Main
  BY <1>1, <1>2 DEF RunBy
<1> PICK l \in Lists : l = ListOf(s) /\ l = <<Main, scheduler[s].comp_list>>
  BY <1>3, FlowInvHas, ListOfType DEF ListOf
<1>4. \A k : k \in ToSet(comp_list[l].idle_list) <=> k \in MembersIn(l, {"IDLE"})
  BY FlowInvHas DEF ListInv, ListPartition
<1>5. CASE RejectCaller(t)
  <2>1. ~ Managed(Main)
    BY <1>1, <1>2, <1>5 DEF RejectCaller
  <2>2. Refused(t)
    BY <1>5, RefusalIs
  <2> QED
    BY <1>2, <2>1, <2>2
<1>6. CASE n \notin ToSet(comp_list[l].idle_list) /\ Miss(t, "WORKER_NOT_FOUND")
  <2>1. Refused(t)
    BY <1>6, RefusalIs
  <2> QED
    BY <1>2, <1>4, <1>6, <2>1
<1>7. ASSUME NEW i \in DOMAIN comp_list[l].idle_list, comp_list[l].idle_list[i] = n
      PROVE  /\ n \in MembersIn(l, {"IDLE"}) /\ worker[<<Main, n>>].state = "IDLE"
             /\ SwitchToWorker(t, s, i) => Took(t, s, n)
  <2> PICK w : w = <<Main, n>>
    OBVIOUS
  <2>1. n \in MembersIn(l, {"IDLE"}) /\ worker[w].state = "IDLE" /\ WorkerExists(w)
    BY <1>4, <1>7 DEF ToSet, MembersIn, Members
  <2>2. w \in Workers
    BY <1>1 DEF Workers
  <2> SUFFICES ASSUME SwitchToWorker(t, s, i) PROVE Took(t, s, n)
    BY <2>1
  <2>3. /\ worker' = [worker EXCEPT ![w] = Assigned(@, scheduler[s].sid, t)]
        /\ scheduler' = [scheduler EXCEPT ![s] = Hosting(@, n, regs[t])]
        /\ comp_list' = [comp_list EXCEPT ![l] = MoveToBusy(@, i)]
        /\ regs' = [regs EXCEPT ![t] = Entered(worker[w].regs)]
        /\ Return(t, "SUCCESS", 0)
        /\ process' = process
    BY <1>3, <1>7 DEF SwitchToWorker
  <2>4. /\ Replaced(w, worker'[w]) /\ worker'[w].state = "RUNNING"
    BY <2>2, <2>3, FlowInvHas DEF TypeOK, WorkerNodes, Assigned, Replaced
  <2>5. /\ scheduler'[s].pid = scheduler[s].pid
        /\ scheduler'[s].comp_list = scheduler[s].comp_list
        /\ scheduler'[s].state = "RUNNING" /\ scheduler'[s].wid = n
        /\ \A r \in Scheds : r # s => scheduler'[r] = scheduler[r]
    BY <2>3, FlowInvHas DEF TypeOK, SchedNodes, Hosting
  <2>6. regs'[t] = WorkerCtx(w) /\ \A u \in Tasks : u # t => regs'[u] = regs[u]
    <3>1. worker[w].regs \in {WorkerEntry(w), WorkerCtx(w)}
      BY <2>1, <2>2, FlowInvHas DEF UseInv, IdleWorkerKeepsItsContext
    <3>2. Entered(worker[w].regs) = WorkerCtx(w)
      BY <3>1 DEF Entered, WorkerEntry, WorkerCtx
    <3> QED
      BY <1>1, <2>3, <3>2, FlowInvHas DEF TypeOK
  <2>7. \A m \in Lists : /\ comp_list'[m].worker_count = comp_list[m].worker_count
                         /\ comp_list'[m].state = comp_list[m].state
    BY <2>3, FlowInvHas DEF TypeOK, ListNodes, MoveToBusy
  <2>8. reply'.task = t /\ reply'.err = "SUCCESS"
    BY <2>3 DEF Return, ReplyTo
  <2>9. ListOf(s)' = ListOf(s)
    BY <2>5 DEF ListOf
  <2> QED
    BY <2>1, <2>3, <2>4, <2>5, <2>6, <2>7, <2>8, <2>9 DEF Took, NodeChanges
<1>8. CASE \E i \in DOMAIN comp_list[l].idle_list :
             comp_list[l].idle_list[i] = n /\ SwitchToWorker(t, s, i)
  BY <1>2, <1>7, <1>8
<1>9. \A r \in Scheds : RunBy(r, t) => r = s
  BY <1>1, <1>2, RunByUnique
<1> QED
  BY <1>3, <1>5, <1>6, <1>7, <1>8, <1>9 DEF ExecuteThread

\* Worker n gives t back to scheduler s.
Gave(t, s, n, status) ==
  /\ NodeChanges(t, s)
  /\ Names(s) /\ scheduler[s].wid = n /\ n \in MembersIn(ListOf(s), {"RUNNING"})
  /\ Replaced(<<Main, n>>, worker'[<<Main, n>>])
  /\ worker'[<<Main, n>>].state = IF status = "PAUSE" THEN "IDLE" ELSE "FINISHED"
  /\ scheduler'[s].state = "IDLE" /\ scheduler'[s].wid = NoId
  /\ regs'[t] = SchedCtx(s)
  /\ reply'.task = t /\ reply'.err = "SUCCESS"

\* A pthread that executes a worker and has a node is where the node says.
LEMMA RunsIs ==
  ASSUME ClientInv, NEW t \in Pthreads, NEW n \in Wids, Runs(t, n),
         NEW s \in Scheds, HasNode(t, s)
  PROVE  /\ RunBy(s, t) /\ Names(s) /\ scheduler[s].wid = n /\ s[1] = Main
         /\ scheduler[s].state = "RUNNING" /\ n \in MembersIn(ListOf(s), {"RUNNING"})
         /\ scheduler[s].regs = SchedCtx(s)
<1>1. HostKnown(s) /\ InContext(s) /\ Owns(s)
  BY ClientInvHas DEF UseInv, EachHost, HasNode
<1>2. Names(s)
  BY <1>1 DEF HasNode, InContext, Runs, WorkerCtx, SchedCtx, Own
<1>3. scheduler[s].wid = n
  BY <1>1, <1>2 DEF HasNode, InContext, Runs, WorkerCtx, Named
<1>4. RunBy(s, t)
  BY LookupFinds DEF HasNode
<1>5. s[1] = Main
  BY <1>4, OneMain DEF RunBy
<1>6. n \in MembersIn(ListOf(s), {"RUNNING"})
  BY <1>1, <1>2, <1>3, <1>5 DEF Owns, Named, MembersIn, ListOf
<1> QED
  BY <1>1, <1>2, <1>3, <1>4, <1>5, <1>6 DEF Owns, InContext

LEMMA YieldDoes ==
  ASSUME ClientInv, NEW t \in Pthreads, NEW n \in Wids, Runs(t, n),
         NEW status \in {"PAUSE", "FINISH"}, ThreadYield(t, status)
  PROVE  \/ Refused(t) /\ (~ Managed(Main) \/ \A s \in Scheds : ~ HasNode(t, s))
         \/ \E s \in Scheds : HasNode(t, s) /\ Gave(t, s, n, status)
<1>1. t \in Tasks /\ Tgid[t] = Main /\ Main \in Tasks /\ status # "OTHER"
  BY OneMain
<1>2. CASE RejectCaller(t)
  <2>1. ~ Managed(Main) \/ \A s \in Scheds : ~ HasNode(t, s)
    BY <1>1, <1>2, LookupFinds DEF RejectCaller, HasNode
  <2>2. Refused(t)
    BY <1>2, RefusalIs
  <2> QED
    BY <2>1, <2>2
<1>3. ASSUME NEW s \in Scheds, RunBy(s, t)
      PROVE  /\ HasNode(t, s)
             /\ scheduler[s].wid \in ToSet(comp_list[ListOf(s)].busy_list)
             /\ \A i \in DOMAIN comp_list[ListOf(s)].busy_list :
                  /\ comp_list[ListOf(s)].busy_list[i] = scheduler[s].wid
                  /\ SwitchToScheduler(t, s, i, status)
                  => Gave(t, s, n, status)
  <2>1. HasNode(t, s)
    BY <1>3, LookupFinds DEF HasNode
  <2>2. /\ Names(s) /\ scheduler[s].wid = n /\ s[1] = Main
        /\ scheduler[s].state = "RUNNING" /\ n \in MembersIn(ListOf(s), {"RUNNING"})
        /\ scheduler[s].regs = SchedCtx(s)
    BY <2>1, RunsIs
  <2> PICK l \in Lists : l = ListOf(s) /\ l = <<Main, scheduler[s].comp_list>>
    BY <2>2, ClientInvHas, ListOfType DEF ListOf
  <2>3. n \in MembersIn(l, {"RUNNING", "FINISHED"})
    BY <2>2 DEF MembersIn
  <2>4. n \in ToSet(comp_list[l].busy_list)
    BY <2>3, ClientInvHas DEF ListInv, ListPartition
  <2>5. ASSUME NEW i \in DOMAIN comp_list[l].busy_list, comp_list[l].busy_list[i] = n,
               SwitchToScheduler(t, s, i, status)
        PROVE  Gave(t, s, n, status)
    <3> PICK w : w = <<Main, n>>
      OBVIOUS
    <3>1. w \in Workers
      BY <1>1 DEF Workers
    <3>2. /\ worker' = [worker EXCEPT ![w] = Released(@, status, regs[t])]
          /\ scheduler' = [scheduler EXCEPT ![s] = Waiting(@)]
          /\ comp_list' = [comp_list EXCEPT ![l] = Yielded(@, i, status)]
          /\ regs' = [regs EXCEPT ![t] = Entered(scheduler[s].regs)]
          /\ Return(t, "SUCCESS", 0)
          /\ process' = process
      BY <2>2, <2>5 DEF SwitchToScheduler
    <3>3. /\ Replaced(w, worker'[w])
          /\ worker'[w].state = IF status = "PAUSE" THEN "IDLE" ELSE "FINISHED"
      BY <3>1, <3>2, ClientInvHas DEF TypeInv, TypeOK, WorkerNodes, Released, Replaced
    <3>4. /\ scheduler'[s].pid = scheduler[s].pid
          /\ scheduler'[s].comp_list = scheduler[s].comp_list
          /\ scheduler'[s].state = "IDLE" /\ scheduler'[s].wid = NoId
          /\ \A r \in Scheds : r # s => scheduler'[r] = scheduler[r]
      BY <3>2, ClientInvHas DEF TypeInv, TypeOK, SchedNodes, Waiting
    <3>5. regs'[t] = SchedCtx(s) /\ \A u \in Tasks : u # t => regs'[u] = regs[u]
      <4>1. Entered(scheduler[s].regs) = SchedCtx(s)
        BY <2>2 DEF Entered, SchedCtx
      <4> QED
        BY <1>1, <3>2, <4>1, ClientInvHas DEF TypeInv, TypeOK
    <3>6. \A m \in Lists : /\ comp_list'[m].worker_count = comp_list[m].worker_count
                           /\ comp_list'[m].state = comp_list[m].state
      BY <3>2, ClientInvHas DEF TypeInv, TypeOK, ListNodes, Yielded, MoveToIdle
    <3>7. reply'.task = t /\ reply'.err = "SUCCESS"
      BY <3>2 DEF Return, ReplyTo
    <3>8. ListOf(s)' = ListOf(s)
      BY <3>4 DEF ListOf
    <3> QED
      BY <2>2, <3>2, <3>3, <3>4, <3>5, <3>6, <3>7, <3>8 DEF Gave, NodeChanges
  <2> QED
    BY <2>1, <2>2, <2>4, <2>5
<1> QED
  BY <1>1, <1>2, <1>3 DEF ThreadYield

\* Scheduler s leaves for good.
Quit(t, s) ==
  /\ NodeChanges(t, s)
  /\ worker' = worker
  /\ scheduler'[s].state = "FINISHED" /\ scheduler'[s].wid = scheduler[s].wid
  /\ regs'[t] = Own(t)
  /\ reply'.task = t /\ reply'.err = "SUCCESS"

LEMMA LeaveDoes ==
  ASSUME FlowInv, ~ undef, NEW t \in Pthreads, pc[t] \in Calls, ExitSchedulingMode(t)
  PROVE  \E s \in Scheds : /\ HasNode(t, s)
                           /\ (Refused(t) /\ ~ Managed(Main)) \/ Quit(t, s)
<1>1. t \in Tasks /\ Tgid[t] = Main
  BY OneMain
<1>2. PICK s \in Scheds : /\ RunBy(s, t) /\ HasNode(t, s) /\ ~ Names(s) /\ HostKnown(s)
  BY CallsAreSchedulerCode
<1>3. CASE RejectCaller(t)
  <2>1. ~ Managed(Main)
    BY <1>1, <1>2, <1>3 DEF RejectCaller
  <2>2. Refused(t)
    BY <1>3, RefusalIs
  <2> QED
    BY <1>2, <2>1, <2>2
<1>4. \A r \in Scheds : RunBy(r, t) => r = s
  BY <1>1, <1>2, RunByUnique
<1>5. Unoccupied(scheduler[s]) /\ scheduler[s].home = Own(t) /\ Own(t) # Garbage
  BY <1>2 DEF Unoccupied, Names, HostKnown, HasNode, Own, Garbage
<1>6. CASE /\ scheduler' = [scheduler EXCEPT ![s] = Left(@)]
           /\ regs' = [regs EXCEPT ![t] = scheduler[s].home]
           /\ Return(t, "SUCCESS", 0)
           /\ UNCHANGED <<process, comp_list, worker>>
  <2>1. /\ scheduler'[s].pid = scheduler[s].pid
        /\ scheduler'[s].comp_list = scheduler[s].comp_list
        /\ scheduler'[s].wid = scheduler[s].wid
        /\ scheduler'[s].state = "FINISHED"
        /\ \A r \in Scheds : r # s => scheduler'[r] = scheduler[r]
    BY <1>6, FlowInvHas DEF TypeOK, SchedNodes, Left
  <2>2. ListOf(s)' = ListOf(s)
    BY <2>1 DEF ListOf
  <2>3. regs'[t] = Own(t) /\ \A u \in Tasks : u # t => regs'[u] = regs[u]
    BY <1>1, <1>5, <1>6, FlowInvHas DEF TypeOK
  <2>4. reply'.task = t /\ reply'.err = "SUCCESS"
    BY <1>6 DEF Return, ReplyTo
  <2> QED
    BY <1>2, <1>6, <2>1, <2>2, <2>3, <2>4 DEF Quit, NodeChanges
<1> QED
  BY <1>3, <1>4, <1>5, <1>6 DEF ExitSchedulingMode

-----------------------------------------------------------------------------
(* Where each pthread is, after a step *)

\* The step leaves what the kernel has for pthread u alone.
SameFor(u) ==
  /\ regs'[u] = regs[u]
  /\ \A s \in Scheds : /\ HasNode(u, s)' <=> HasNode(u, s)
                       /\ HasNode(u, s) => scheduler'[s] = scheduler[s]

LEMMA PlacedSame ==
  ASSUME NEW u \in Pthreads, Placed(u), SameFor(u), pc'[u] = pc[u]
  PROVE  Placed(u)'
<1>1. ASSUME NEW s \in Scheds, HasNode(u, s)
      PROVE  Names(s)' <=> Names(s)
  BY <1>1 DEF SameFor, Names
<1> QED
  BY <1>1 DEF Placed, SameFor

LEMMA UntouchedSame ==
  ASSUME Untouched, NEW u
  PROVE  SameFor(u)
BY DEF Untouched, SameFor, HasNode, SchedExists

LEMMA MainSame ==
  ASSUME scheduler' = scheduler, regs' = regs, NEW u,
         \A p \in Tasks : process'[p].schedulers = process[p].schedulers
  PROVE  SameFor(u)
BY OneMain DEF SameFor, HasNode, SchedExists

LEMMA NodeChangesSame ==
  ASSUME NEW t \in Pthreads, NEW s \in Scheds, HasNode(t, s), NodeChanges(t, s)
  PROVE  /\ \A r \in Scheds : HasNode(t, r)' <=> HasNode(t, r)
         /\ \A u \in Pthreads : u # t => SameFor(u)
<1>1. \A r \in Scheds : SchedExists(r)' <=> SchedExists(r)
  BY DEF NodeChanges, SchedExists
<1>2. \A r \in Scheds : scheduler'[r].pid = scheduler[r].pid
  BY DEF NodeChanges
<1>3. \A u : \A r \in Scheds : HasNode(u, r)' <=> HasNode(u, r)
  BY <1>1, <1>2 DEF HasNode
<1>4. ASSUME NEW u \in Pthreads, u # t
      PROVE  SameFor(u)
  <2>1. regs'[u] = regs[u]
    BY <1>4, OneMain DEF NodeChanges
  <2>2. ASSUME NEW r \in Scheds, HasNode(u, r)
        PROVE  scheduler'[r] = scheduler[r]
    BY <1>4, <2>2 DEF HasNode, NodeChanges
  <2> QED
    BY <1>3, <2>1, <2>2 DEF SameFor
<1> QED
  BY <1>3, <1>4

LEMMA AddedSame ==
  ASSUME NEW t \in Pthreads, NEW c, NEW s, Added(t, c, s)
  PROVE  /\ HasNode(t, s)'
         /\ \A r \in Scheds : HasNode(t, r)' => HasNode(t, r) \/ r = s
         /\ \A u \in Pthreads : u # t => SameFor(u)
<1>1. ASSUME NEW u, NEW r \in Scheds, r # s
      PROVE  HasNode(u, r)' <=> HasNode(u, r)
  BY <1>1 DEF Added, HasNode
<1>2. ASSUME NEW u \in Pthreads, u # t
      PROVE  SameFor(u)
  <2>1. ~ HasNode(u, s)' /\ ~ HasNode(u, s)
    BY <1>2 DEF Added, HasNode
  <2>2. regs'[u] = regs[u]
    BY <1>2, OneMain DEF Added
  <2>3. \A r \in Scheds : HasNode(u, r) => scheduler'[r] = scheduler[r]
    BY <2>1 DEF Added
  <2> QED
    BY <1>1, <2>1, <2>2, <2>3 DEF SameFor
<1>3. HasNode(t, s)'
  BY DEF Added, HasNode
<1> QED
  BY <1>1, <1>2, <1>3

LEMMA PlacedStep ==
  ASSUME FlowInv, SoundFaults, LibNextStep, ~ undef, ~ undef', NEW u \in Pthreads
  PROVE  Placed(u)'
<1>1. Placed(u) /\ pc \in [Pthreads -> Loop \cup {"none", "enter", "lost", "gone"}]
  BY FlowInvHas DEF FlowInv, AllPlaced, LibTypeOK
<1>2. ASSUME pc' = pc, scheduler' = scheduler, regs' = regs,
             \A p \in Tasks : process'[p].schedulers = process[p].schedulers
      PROVE  Placed(u)'
  BY <1>1, <1>2, MainSame, PlacedSame
<1>3. ASSUME UNCHANGED vars, NEW t \in Pthreads, NEW to,
             pc' = [pc EXCEPT ![t] = to], pc[t] \in Loop, to \in Loop \cup {"lost"},
             to \in Calls => \A s \in Scheds : HasNode(t, s) => ~ Names(s)
      PROVE  Placed(u)'
  <2>1. SameFor(u)
    BY <1>3, MainSame DEF vars
  <2>2. CASE u # t
    BY <1>1, <1>3, <2>1, <2>2, PlacedSame
  <2>3. CASE u = t
    <3>1. pc'[t] = to
      BY <1>1, <1>3
    <3>2. PICK s \in Scheds : HasNode(t, s) /\ scheduler[s].state # "FINISHED"
      BY <1>1, <1>3, <2>3 DEF Placed
    <3>3. HasNode(t, s)' /\ scheduler'[s].state # "FINISHED" /\ (Names(s)' <=> Names(s))
      BY <1>3, <3>2 DEF vars, HasNode, SchedExists, Names
    <3>4. to \in Calls => ~ Names(s)'
      BY <1>3, <3>2, <3>3
    <3> QED
      BY <1>3, <2>3, <3>1, <3>3, <3>4 DEF Placed, Loop, Calls
  <2> QED
    BY <2>2, <2>3
<1>4. CASE MainStep
  <2>1. CASE LibEnter \/ LibExit \/ LibCreateCompletionList
    <3>1. /\ scheduler' = scheduler /\ regs' = regs /\ pc' = pc
          /\ \A p \in Tasks : process'[p].schedulers = process[p].schedulers
      BY <2>1, FlowInvHas
         DEF LibEnter, LibExit, LibCreateCompletionList, Ioctl, EnterUms, ExitUms,
             CreateCompletionList, Fail, TypeOK, ProcessNodes
    <3> QED
      BY <1>2, <3>1
  <2>2. CASE \E c \in Clids : LibCreateWorkerThread(c)
    <3>1. /\ scheduler' = scheduler /\ regs' = regs /\ pc' = pc
          /\ \A p \in Tasks : process'[p].schedulers = process[p].schedulers
      BY <2>2, FlowInvHas
         DEF LibCreateWorkerThread, Ioctl, CreateWorkerThread, AddWorker, Fail, Miss, Crash,
             TypeOK, ProcessNodes
    <3> QED
      BY <1>2, <3>1
  <2>3. CASE \E n \in Wids, c \in Clids : LibRecordWorker(n, c)
    BY <1>2, <2>3 DEF LibRecordWorker, vars
  <2>4. CASE \E t \in Pthreads, c \in Clids : LibCreateScheduler(t, c)
    <3>1. PICK t \in Pthreads, c \in Clids : LibCreateScheduler(t, c)
      BY <2>4
    <3>2. pc' = [pc EXCEPT ![t] = "enter"] /\ pc[t] = "none" /\ UNCHANGED vars
      BY <3>1 DEF LibCreateScheduler, Created
    <3>3. SameFor(u)
      BY <3>2, MainSame DEF vars
    <3>4. CASE u # t
      BY <1>1, <3>2, <3>3, <3>4, PlacedSame
    <3>5. CASE u = t
      <4>1. pc'[u] = "enter"
        BY <1>1, <3>2, <3>5
      <4>2. regs[u] = Own(u) /\ \A s \in Scheds : ~ HasNode(u, s)
        BY <1>1, <3>2, <3>5 DEF Placed
      <4> QED
        BY <3>3, <4>1, <4>2 DEF Placed, SameFor, Loop, Calls
    <3> QED
      BY <3>4, <3>5
  <2> QED
    BY <1>4, <2>1, <2>2, <2>3, <2>4 DEF MainStep
<1>5. ASSUME NEW t \in Pthreads, PthreadStep(t)
      PROVE  Placed(u)'
  <2>1. CASE LibEnterSchedulingMode(t)
    <3>1. /\ pc[t] = "enter" /\ EnterSchedulingMode(t, schedulers[t].clid)
          /\ pc' = [pc EXCEPT ![t] = IF reply'.err = "SUCCESS" THEN "dequeue" ELSE "gone"]
          /\ schedulers[t].clid \in Clids
      BY <2>1, SchedulerIs DEF LibEnterSchedulingMode, Ioctl
    <3>2. regs[t] = Own(t) /\ \A s \in Scheds : ~ HasNode(t, s)
      BY <3>1, <1>1 DEF FlowInv, AllPlaced, Placed
    <3>3. CASE Refused(t)
      <4>1. SameFor(u) /\ reply'.err # "SUCCESS"
        BY <3>3, UntouchedSame DEF Refused
      <4>2. CASE u # t
        BY <1>1, <3>1, <4>1, <4>2, PlacedSame
      <4>3. CASE u = t
        <5>1. pc'[u] = "gone"
          BY <1>1, <3>1, <4>1, <4>3
        <5>2. regs'[u] = Own(u)
          BY <3>2, <4>1, <4>3 DEF SameFor
        <5> QED
          BY <3>2, <4>1, <4>3, <5>1, <5>2 DEF Placed, SameFor, Loop, Calls
      <4> QED
        BY <4>2, <4>3
    <3>4. ASSUME NEW s \in Scheds, Added(t, schedulers[t].clid, s)
          PROVE  Placed(u)'
      <4>1. HasNode(t, s)' /\ (u # t => SameFor(u))
        BY <3>4, AddedSame
      <4>2. CASE u # t
        BY <1>1, <3>1, <4>1, <4>2, PlacedSame
      <4>3. CASE u = t
        <5>1. pc'[u] = "dequeue"
          BY <1>1, <3>1, <3>4, <4>3 DEF Added
        <5>2. scheduler'[s].state # "FINISHED"
          BY <3>4 DEF Added
        <5> QED
          BY <4>1, <4>3, <5>1, <5>2 DEF Placed, Loop, Calls
      <4> QED
        BY <4>2, <4>3
    <3> QED
      BY <3>1, <3>3, <3>4, EnterDoes, FlowInvHas
  <2>2. CASE LibDequeue(t)
    <3>1. /\ UNCHANGED vars /\ pc[t] = "dequeue" /\ InLoop(t)
          /\ \E to \in {"ask", "next"} : pc' = [pc EXCEPT ![t] = to]
      BY <2>2 DEF LibDequeue
    <3>2. ASSUME NEW s \in Scheds, HasNode(t, s) PROVE ~ Names(s)
      <4>1. InContext(s)
        BY <3>2, FlowInvHas DEF UseInv, EachHost, HasNode
      <4> QED
        BY <3>1, <3>2, <4>1 DEF InContext, InLoop, CodeOf, WorkerCtx, HasNode
    <3> QED
      BY <1>3, <3>1, <3>2 DEF Loop, Calls
  <2>3. ASSUME pc[t] \in Calls
        PROVE  \A s \in Scheds : HasNode(t, s) => ~ Names(s)
    BY <2>3, CallsAreSchedulerCode, FlowInvHas DEF UseInv, OneEach, HasNode
  <2>4. CASE LibTold(t) \/ LibNext(t) \/ \E n \in Wids : LibMark(t, n)
    <3>1. /\ UNCHANGED vars /\ pc[t] \in Calls
          /\ \E to \in Loop : pc' = [pc EXCEPT ![t] = to]
      BY <2>4 DEF LibTold, LibNext, LibMark, Loop, Calls
    <3> QED
      BY <1>3, <2>3, <3>1 DEF Loop
  <2>5. CASE \E n \in Wids : LibMarkYield(t, n)
    BY <1>2, <2>5 DEF LibMarkYield, vars
  <2>6. CASE LibAsk(t)
    <3>1. /\ pc[t] = "ask" /\ DequeueCompletionListItems(t)
          /\ \E to \in {"told", "lost"} : pc' = [pc EXCEPT ![t] = to]
      BY <2>6 DEF LibAsk, Ioctl
    <3>2. PICK s \in Scheds : /\ RunBy(s, t) /\ HasNode(t, s) /\ ~ Names(s)
                              /\ scheduler[s].state # "FINISHED"
      BY <3>1, CallsAreSchedulerCode DEF Calls
    <3>3. Untouched
      BY <3>1, <3>2, AskDoes
    <3>4. SameFor(u) /\ SameFor(t)
      BY <3>3, UntouchedSame
    <3>5. CASE u # t
      BY <1>1, <3>1, <3>4, <3>5, PlacedSame
    <3>6. CASE u = t
      <4>1. pc'[t] \in {"told", "lost"}
        BY <1>1, <3>1
      <4>2. HasNode(t, s)' /\ scheduler'[s].state # "FINISHED" /\ ~ Names(s)'
        BY <3>2, <3>4 DEF SameFor, Names
      <4> QED
        BY <3>6, <4>1, <4>2 DEF Placed, Loop, Calls
    <3> QED
      BY <3>5, <3>6
  <2>7. ASSUME NEW n \in Wids, LibExecute(t, n)
        PROVE  Placed(u)'
    <3>1. /\ pc[t] \in Calls /\ ExecuteThread(t, n)
          /\ pc' = [pc EXCEPT ![t] = "dequeue"]
      BY <2>7 DEF LibExecute, Ioctl, Calls
    <3>2. PICK s \in Scheds : HasNode(t, s) /\ (Refused(t) \/ Took(t, s, n))
      BY <3>1, ExecuteDoes
    <3>3. scheduler[s].state # "FINISHED"
      BY <3>1, <3>2, CallsAreSchedulerCode, FlowInvHas DEF UseInv, OneEach, HasNode
    <3>4. (u # t => SameFor(u)) /\ HasNode(t, s)' /\ scheduler'[s].state # "FINISHED"
      <4>1. CASE Refused(t)
        BY <3>2, <3>3, <4>1, UntouchedSame DEF Refused, SameFor
      <4>2. CASE Took(t, s, n)
        BY <3>2, <4>2, NodeChangesSame DEF Took
      <4> QED
        BY <3>2, <4>1, <4>2
    <3>5. CASE u # t
      BY <1>1, <3>1, <3>4, <3>5, PlacedSame
    <3>6. CASE u = t
      <4>1. pc'[t] = "dequeue"
        BY <1>1, <3>1
      <4> QED
        BY <3>4, <3>6, <4>1 DEF Placed, Loop, Calls
    <3> QED
      BY <3>5, <3>6
  <2>8. CASE LibExitSchedulingMode(t)
    <3>1. /\ pc[t] \in Calls /\ ExitSchedulingMode(t)
          /\ pc' = [pc EXCEPT ![t] = IF reply'.err = "SUCCESS" THEN "gone" ELSE "lost"]
      BY <2>8 DEF LibExitSchedulingMode, Ioctl, Calls
    <3>2. PICK s \in Scheds : HasNode(t, s) /\ (Refused(t) \/ Quit(t, s))
      BY <3>1, LeaveDoes
    <3>3. u # t => SameFor(u)
      BY <3>2, UntouchedSame, NodeChangesSame DEF Refused, Quit
    <3>4. CASE u # t
      BY <1>1, <3>1, <3>3, <3>4, PlacedSame
    <3>5. CASE u = t
      <4>1. CASE Refused(t)
        <5>1. pc'[t] = "lost"
          BY <1>1, <3>1, <4>1 DEF Refused
        <5> QED
          BY <3>5, <5>1 DEF Placed, Loop, Calls
      <4>2. CASE Quit(t, s)
        <5>1. pc'[t] = "gone"
          BY <1>1, <3>1, <4>2 DEF Quit
        <5>2. ASSUME NEW r \in Scheds, HasNode(t, r)'
              PROVE  scheduler'[r].state = "FINISHED"
          <6>1. HasNode(t, r)
            BY <3>2, <4>2, <5>2, NodeChangesSame DEF Quit
          <6>2. r = s
            BY <3>2, <6>1, FlowInvHas DEF UseInv, OneEach, HasNode
          <6> QED
            BY <4>2, <6>2 DEF Quit
        <5>3. regs'[t] = Own(t)
          BY <4>2 DEF Quit
        <5> QED
          BY <3>5, <5>1, <5>2, <5>3 DEF Placed, Loop, Calls
      <4> QED
        BY <3>2, <4>1, <4>2
    <3> QED
      BY <3>4, <3>5
  <2>9. ASSUME NEW n \in Wids, LibYield(t, n)
        PROVE  Placed(u)'
    <3>1. /\ Runs(t, n) /\ ThreadYield(t, StatusOf(n)) /\ pc' = pc
          /\ StatusOf(n) \in {"PAUSE", "FINISH"}
      BY <2>9 DEF LibYield, Ioctl, StatusOf
    <3>2. CASE Refused(t)
      BY <1>1, <3>1, <3>2, UntouchedSame, PlacedSame DEF Refused
    <3>3. ASSUME NEW s \in Scheds, HasNode(t, s), Gave(t, s, n, StatusOf(n))
          PROVE  Placed(u)'
      <4>1. /\ \A r \in Scheds : HasNode(t, r)' <=> HasNode(t, r)
            /\ \A v \in Pthreads : v # t => SameFor(v)
        BY <3>3, NodeChangesSame DEF Gave
      <4>2. CASE u # t
        BY <1>1, <3>1, <4>1, <4>2, PlacedSame
      <4>3. CASE u = t
        <5>1. \A r \in Scheds : HasNode(t, r) => r = s
          BY <3>3, FlowInvHas DEF UseInv, OneEach, HasNode
        <5>2. HasNode(t, s)' /\ scheduler'[s].state # "FINISHED" /\ ~ Names(s)'
          BY <3>3, <4>1 DEF Gave, Names
        <5>3. scheduler[s].state = "RUNNING"
          BY <3>1, <3>3, RunsIs, FlowInvHas
        <5>4. pc[t] \notin {"none", "enter", "gone"}
          BY <1>1, <3>3, <4>3, <5>3 DEF Placed
        <5> QED
          BY <3>1, <4>3, <5>2, <5>4 DEF Placed
      <4> QED
        BY <4>2, <4>3
    <3> QED
      BY <3>1, <3>2, <3>3, YieldDoes, FlowInvHas
  <2> QED
    BY <1>5, <2>1, <2>2, <2>4, <2>5, <2>6, <2>7, <2>8, <2>9 DEF PthreadStep
<1>6. CASE Terminated
  BY <1>2, <1>6 DEF Terminated, all, lib, vars
<1>7. MainStep \/ (\E t \in Pthreads : PthreadStep(t)) \/ Terminated
  BY DEF LibNextStep
<1> QED
  BY <1>4, <1>5, <1>6, <1>7

\* What the library does to a list keeps it one.
LEMMA ListRecordIs ==
  ASSUME NEW list \in ListRecords
  PROVE  /\ list.size \in Nat /\ list.worker_count \in Int
         /\ list.state \in States \cup {"NONE"}
         /\ list.workers \in [1 .. list.size -> Wids \cup {NoId}]
<1>1. PICK k \in Nat : list \in [size : {k}, worker_count : Int, state : States \cup {"NONE"},
                                 workers : [1 .. k -> Wids \cup {NoId}]]
  BY DEF ListRecords
<1>2. list.size = k
  BY <1>1
<1> QED
  BY <1>1, <1>2

LEMMA ListRecordSet ==
  ASSUME NEW list \in ListRecords, NEW state \in States \cup {"NONE"}, NEW count \in Int,
         NEW array \in [1 .. list.size -> Wids \cup {NoId}]
  PROVE  /\ [list EXCEPT !.state = state] \in ListRecords
         /\ [list EXCEPT !.worker_count = count, !.workers = array] \in ListRecords
         /\ [list EXCEPT !.state = state, !.worker_count = count, !.workers = array]
              \in ListRecords
<1>1. PICK k \in Nat : list \in [size : {k}, worker_count : Int, state : States \cup {"NONE"},
                                 workers : [1 .. k -> Wids \cup {NoId}]]
  BY DEF ListRecords
<1> DEFINE R == [size : {k}, worker_count : Int, state : States \cup {"NONE"},
                 workers : [1 .. k -> Wids \cup {NoId}]]
<1>2. \A r \in R : r \in ListRecords
  BY DEF ListRecords
<1>3. array \in [1 .. k -> Wids \cup {NoId}]
  BY <1>1
<1>4. [list EXCEPT !.state = state] \in R
  BY <1>1
<1>5. [list EXCEPT !.worker_count = count, !.workers = array] \in R
  BY <1>1, <1>3
<1>6. [list EXCEPT !.state = state, !.worker_count = count, !.workers = array] \in R
  <2> PICK l : l = [list EXCEPT !.state = state]
    OBVIOUS
  <2>1. [l EXCEPT !.worker_count = count, !.workers = array] \in R
    BY <1>3, <1>4
  <2>2. [list EXCEPT !.state = state, !.worker_count = count, !.workers = array]
          = [l EXCEPT !.worker_count = count, !.workers = array]
    BY <1>1
  <2> QED
    BY <2>1, <2>2
<1> QED
  BY <1>2, <1>4, <1>5, <1>6

LEMMA NewListTyped ==
  ASSUME NEW size \in Nat, NEW memory
  PROVE  NewListParams(size, memory) \in ListRecords
<1>1. 0 \in Wids
  BY BoundsAssumption DEF Wids
<1>2. NewListParams(size, memory)
        \in [size : {size}, worker_count : Int, state : States \cup {"NONE"},
             workers : [1 .. size -> Wids \cup {NoId}]]
  BY <1>1 DEF NewListParams, States
<1> QED
  BY <1>2 DEF ListRecords

LEMMA OverwrittenTyped ==
  ASSUME NEW list \in ListRecords, NEW wids \in Seq(Wids)
  PROVE  Overwritten(list, wids) \in [1 .. list.size -> Wids \cup {NoId}]
BY ListRecordIs DEF Overwritten

LEMMA ErasedTyped ==
  ASSUME NEW list \in ListRecords, NEW wid
  PROVE  Erased(list, wid) \in ListRecords
<1> PICK array : array = [i \in 1 .. list.size |->
             IF list.workers[i] = wid /\ \A j \in 1 .. i - 1 : list.workers[j] # wid
             THEN NoId ELSE list.workers[i]]
  OBVIOUS
<1>1. list.workers \in [1 .. list.size -> Wids \cup {NoId}] /\ list.worker_count - 1 \in Int
  BY ListRecordIs
<1>2. array \in [1 .. list.size -> Wids \cup {NoId}]
  BY <1>1
<1>3. Erased(list, wid) = [list EXCEPT !.worker_count = list.worker_count - 1,
                                       !.workers = array]
  BY <1>1 DEF Erased
<1>4. [list EXCEPT !.worker_count = list.worker_count - 1, !.workers = array] \in ListRecords
  BY <1>1, <1>2, ListRecordIs, ListRecordSet
<1> QED
  BY <1>3, <1>4

LEMMA RecordTyped ==
  ASSUME LibTypeOK
  PROVE  /\ \A n \in Wids :
              WithRecord(n) \in [Wids -> {"ABSENT", "IDLE", "RUNNING", "FINISHED"}]
         /\ \A c \in Clids : Recorded(completion_lists[c]) \in KnownLists
<1>1. ASSUME NEW c \in Clids
      PROVE  Recorded(completion_lists[c]) \in KnownLists
  <2>1. completion_lists[c] \in KnownLists
    BY DEF LibTypeOK
  <2> QED
    BY <2>1 DEF Recorded, KnownLists
<1> QED
  BY <1>1 DEF WithRecord, LibTypeOK

LEMMA LibTypeStep ==
  ASSUME LibTypeOK, SoundFaults, reply' \in Replies, [LibNextStep]_all
  PROVE  LibTypeOK'
<1>1. CASE UNCHANGED all
  BY <1>1 DEF all, lib, LibTypeOK
<1>2. CASE Terminated
  BY <1>2 DEF Terminated, all, lib, LibTypeOK
<1>3. ASSUME NEW t \in Pthreads
      PROVE  /\ schedulers[t] \in SchedulerRecords
             /\ ListParams(t) \in ListRecords /\ schedulers[t].clid \in Clids
             /\ \A list \in ListRecords :
                  [schedulers EXCEPT ![t].list = list] \in [Pthreads -> SchedulerRecords]
  <2>1. schedulers[t] \in SchedulerRecords
    BY DEF LibTypeOK
  <2>2. \A list \in ListRecords : [schedulers[t] EXCEPT !.list = list] \in SchedulerRecords
    BY <2>1 DEF SchedulerRecords
  <2> QED
    BY <2>1, <2>2 DEF LibTypeOK, ListParams, SchedulerRecords
<1>4. CASE MainStep
  <2>1. CASE LibEnter
    BY <2>1 DEF LibEnter, LibTypeOK
  <2>2. CASE LibCreateCompletionList
    <3>1. [known |-> TRUE, state |-> "IDLE", worker_count |-> 0] \in KnownLists
      BY DEF KnownLists
    <3> QED
      BY <2>2, <3>1 DEF LibCreateCompletionList, LibTypeOK
  <2>3. ASSUME NEW c \in Clids, LibCreateWorkerThread(c)
        PROVE  LibTypeOK'
    <3>1. \A n \in Wids : Pauses[c][n] \in Nat
      BY LibAssumption
    <3>2. main' \in {"start", "setup", "record", "gone"} /\ pauses' \in [Wids -> Nat]
      BY <2>3, <3>1 DEF LibCreateWorkerThread, LibTypeOK
    <3>3. /\ completion_lists' \in [Clids -> KnownLists]
          /\ workers' \in [Wids -> {"ABSENT", "IDLE", "RUNNING", "FINISHED"}]
      BY <2>3, RecordTyped DEF LibCreateWorkerThread, LibTypeOK
    <3> QED
      BY <2>3, <3>2, <3>3 DEF LibCreateWorkerThread, LibTypeOK
  <2>4. ASSUME NEW n \in Wids, NEW c \in Clids, LibRecordWorker(n, c)
        PROVE  LibTypeOK'
    <3>1. /\ completion_lists' \in [Clids -> KnownLists]
          /\ workers' \in [Wids -> {"ABSENT", "IDLE", "RUNNING", "FINISHED"}]
      BY <2>4, RecordTyped DEF LibRecordWorker, LibTypeOK
    <3> QED
      BY <2>4, <3>1 DEF LibRecordWorker, LibTypeOK
  <2>5. ASSUME NEW t \in Pthreads, NEW c \in Clids, LibCreateScheduler(t, c)
        PROVE  LibTypeOK'
    <3>1. PICK memory \in FreshMemory :
            schedulers' = [schedulers EXCEPT ![t] =
              [clid |-> c, wid |-> NoId,
               list |-> NewListParams(completion_lists[c].worker_count, memory)]]
      BY <2>5 DEF LibCreateScheduler
    <3>2. completion_lists[c] \in KnownLists
      BY DEF LibTypeOK
    <3>3. NewListParams(completion_lists[c].worker_count, memory) \in ListRecords
      BY <3>2, NewListTyped DEF KnownLists
    <3>4. [clid |-> c, wid |-> NoId,
           list |-> NewListParams(completion_lists[c].worker_count, memory)] \in SchedulerRecords
      BY <3>3 DEF SchedulerRecords
    <3> QED
      BY <2>5, <3>1, <3>4 DEF LibCreateScheduler, LibTypeOK, Loop
  <2>6. CASE LibExit
    <3>1. NoScheduler \in SchedulerRecords
      BY NewListTyped, BoundsAssumption DEF NoScheduler, Clids, SchedulerRecords
    <3>2. NoList \in KnownLists
      BY DEF NoList, KnownLists
    <3> QED
      BY <2>6, <3>1, <3>2 DEF LibExit, Cleanup, LibTypeOK
  <2> QED
    BY <1>4, <2>1, <2>2, <2>3, <2>4, <2>5, <2>6 DEF MainStep
<1>5. ASSUME NEW t \in Pthreads, PthreadStep(t)
      PROVE  LibTypeOK'
  <2>1. CASE LibEnterSchedulingMode(t)
    BY <2>1 DEF LibEnterSchedulingMode, LibTypeOK, Loop
  <2>2. CASE LibDequeue(t)
    <3>1. [ListParams(t) EXCEPT !.state = "FINISHED"] \in ListRecords
      BY <1>3, ListRecordIs, ListRecordSet DEF States
    <3>2. schedulers' \in [Pthreads -> SchedulerRecords]
      <4>1. \/ schedulers' = schedulers
            \/ schedulers' = [schedulers EXCEPT ![t].list.state = "FINISHED"]
        BY <2>2 DEF LibDequeue
      <4>2. CASE schedulers' = schedulers
        BY <4>2 DEF LibTypeOK
      <4>3. CASE schedulers' = [schedulers EXCEPT ![t].list.state = "FINISHED"]
        <5>1. schedulers' =
                [schedulers EXCEPT ![t].list = [ListParams(t) EXCEPT !.state = "FINISHED"]]
          BY <1>3, <4>3 DEF LibTypeOK, ListParams, SchedulerRecords
        <5> QED
          BY <1>3, <3>1, <5>1
      <4> QED
        BY <4>1, <4>2, <4>3
    <3>3. pc' \in [Pthreads -> Loop \cup {"none", "enter", "lost", "gone"}]
      BY <2>2 DEF LibDequeue, LibTypeOK, Loop, Calls
    <3> QED
      BY <2>2, <3>2, <3>3 DEF LibDequeue, LibTypeOK
  <2>3. CASE LibAsk(t)
    <3>1. /\ reply'.state \in States \cup {"NONE"} /\ reply'.wids \in Seq(Wids)
          /\ Len(reply'.wids) \in Int
      BY DEF Replies
    <3>2. Overwritten(ListParams(t), reply'.wids) \in [1 .. ListParams(t).size -> Wids \cup {NoId}]
      BY <1>3, <3>1, OverwrittenTyped
    <3>3. [ListParams(t) EXCEPT !.state = reply'.state, !.worker_count = Len(reply'.wids),
                                !.workers = Overwritten(ListParams(t), reply'.wids)] \in ListRecords
      BY <1>3, <3>1, <3>2, ListRecordSet
    <3>4. schedulers' \in [Pthreads -> SchedulerRecords]
      <4>1. CASE reply'.err = "SUCCESS"
        <5>1. schedulers' = [schedulers EXCEPT ![t].list =
                 [ListParams(t) EXCEPT !.state = reply'.state,
                                       !.worker_count = Len(reply'.wids),
                                       !.workers = Overwritten(ListParams(t), reply'.wids)]]
          BY <2>3, <4>1 DEF LibAsk, Negative, LibTypeOK, ListParams
        <5> QED
          BY <1>3, <3>3, <5>1
      <4>2. CASE reply'.err = "BYTES_NOT_COPIED"
        <5>1. schedulers' = [schedulers EXCEPT ![t].list = ListParams(t)]
          BY <2>3, <4>2 DEF LibAsk, Negative, SoundFaults
        <5> QED
          BY <1>3, <5>1
      <4>3. CASE Negative(reply'.err)
        BY <2>3, <4>3 DEF LibAsk, Negative, LibTypeOK
      <4> QED
        BY <4>1, <4>2, <4>3 DEF Negative
    <3>5. pc' \in [Pthreads -> Loop \cup {"none", "enter", "lost", "gone"}]
      BY <2>3 DEF LibAsk, LibTypeOK, Loop, Calls
    <3> QED
      BY <2>3, <3>4, <3>5 DEF LibAsk, LibTypeOK
  <2>4. CASE LibTold(t)
    <3>1. pc' \in [Pthreads -> Loop \cup {"none", "enter", "lost", "gone"}]
      BY <2>4 DEF LibTold, LibTypeOK, Loop, Calls
    <3>2. \A c \in Clids : /\ completion_lists[c] \in KnownLists
                           /\ [completion_lists[c] EXCEPT !.state = "FINISHED"] \in KnownLists
      BY DEF LibTypeOK, KnownLists
    <3>3. completion_lists' \in [Clids -> KnownLists]
      BY <1>3, <2>4, <3>2 DEF LibTold, LibTypeOK
    <3> QED
      BY <2>4, <3>1, <3>3 DEF LibTold, LibTypeOK
  <2>5. CASE LibNext(t)
    <3>1. \A wid : Erased(ListParams(t), wid) \in ListRecords
      BY <1>3, ErasedTyped
    <3>2. schedulers' \in [Pthreads -> SchedulerRecords]
      BY <1>3, <2>5, <3>1 DEF LibNext, LibTypeOK, ListParams
    <3>3. local' \in [Pthreads -> Wids \cup {NoId}]
      BY <2>5 DEF LibNext, LibTypeOK, WorkerKnown
    <3>4. pc' \in [Pthreads -> Loop \cup {"none", "enter", "lost", "gone"}]
      BY <2>5 DEF LibNext, LibTypeOK, Loop, Calls
    <3> QED
      BY <2>5, <3>2, <3>3, <3>4 DEF LibNext, LibTypeOK
  <2>6. ASSUME NEW n \in Wids, LibMark(t, n)
        PROVE  LibTypeOK'
    <3>1. [schedulers[t] EXCEPT !.wid = n] \in SchedulerRecords
      BY <1>3 DEF SchedulerRecords
    <3>2. schedulers' \in [Pthreads -> SchedulerRecords]
      BY <2>6, <3>1 DEF LibMark, LibTypeOK
    <3>3. pc' \in [Pthreads -> Loop \cup {"none", "enter", "lost", "gone"}]
      BY <2>6 DEF LibMark, LibTypeOK, Loop, Calls
    <3> QED
      BY <2>6, <3>2, <3>3 DEF LibMark, LibTypeOK
  <2>7. CASE \E n \in Wids : LibExecute(t, n)
    BY <2>7 DEF LibExecute, LibTypeOK, Loop, Calls
  <2>8. CASE LibExitSchedulingMode(t)
    BY <2>8 DEF LibExitSchedulingMode, LibTypeOK, Loop, Calls
  <2>9. CASE \E n \in Wids : LibMarkYield(t, n)
    BY <2>9 DEF LibMarkYield, LibTypeOK, Marked
  <2>10. CASE \E n \in Wids : LibYield(t, n)
    BY <2>10 DEF LibYield, LibTypeOK
  <2> QED
    BY <1>5, <2>1, <2>2, <2>3, <2>4, <2>5, <2>6, <2>7, <2>8, <2>9, <2>10 DEF PthreadStep
<1>6. MainStep \/ (\E t \in Pthreads : PthreadStep(t)) \/ Terminated \/ UNCHANGED all
  BY DEF LibNextStep
<1> QED
  BY <1>1, <1>2, <1>4, <1>5, <1>6

LEMMA FlowInit ==
  ASSUME LibInit
  PROVE  FlowInv
<1>1. ClientInv
  BY ClientInit DEF LibInit
<1>2. NoScheduler \in SchedulerRecords
  BY NewListTyped, BoundsAssumption DEF NoScheduler, Clids, SchedulerRecords
<1>3. LibTypeOK
  BY <1>2 DEF LibInit, LibTypeOK, NoList, KnownLists
<1>4. ASSUME NEW t \in Pthreads
      PROVE  Placed(t)
  <2>1. pc[t] = "none" /\ regs[t] = Own(t)
    BY <1>4, OneMain DEF LibInit, Init
  <2>2. \A s \in Scheds : ~ HasNode(t, s)
    BY BoundsAssumption DEF LibInit, Init, NoProcess, HasNode, SchedExists, Scheds, Sids
  <2> QED
    BY <2>1, <2>2 DEF Placed, Loop, Calls
<1> QED
  BY <1>1, <1>3, <1>4 DEF FlowInv, AllPlaced

LEMMA FlowStep ==
  ASSUME FlowInv, SoundFaults, [LibNextStep]_all
  PROVE  FlowInv' /\ [ClientNext]_vars
<1>1. [ClientNext]_vars
  BY LibIsClient
<1>2. ClientInv'
  BY <1>1, ClientStep DEF FlowInv
<1>3. TypeOK'
  BY <1>2 DEF ClientInv, CountInv, OwnInv, ListInv, TypeInv
<1>4. LibTypeOK'
  BY <1>3, LibTypeStep DEF FlowInv, TypeOK
<1>5. AllPlaced'
  <2> SUFFICES ASSUME ~ undef', NEW u \in Pthreads
               PROVE  Placed(u)'
    BY DEF AllPlaced
  <2>1. CASE UNCHANGED all
    <3>1. pc' = pc /\ Untouched /\ ~ undef
      BY <2>1 DEF all, lib, vars, Untouched
    <3> QED
      BY <3>1, UntouchedSame, PlacedSame DEF FlowInv, AllPlaced
  <2>2. CASE LibNextStep /\ ~ undef
    BY <2>2, PlacedStep
  <2>3. CASE Terminated /\ undef
    BY <2>3 DEF Terminated, all, vars
  <2> QED
    BY <2>1, <2>2, <2>3 DEF LibNextStep
<1> QED
  BY <1>1, <1>2, <1>4, <1>5 DEF FlowInv

\* The library and loop1 keep to the documented flow: whatever is cached, whatever
\* malloc leaves in a new list, and also when a copy from user space fails, which the
\* library takes for success or for a worker's id, each of their requests is one
\* that UmsClient allows, so that all that is proved of UmsClient holds of them.
THEOREM LibFollowsTheFlow == SoundFaults => (LibSpec => FollowsTheFlow)
<1> SUFFICES ASSUME SoundFaults PROVE LibSpec => FollowsTheFlow
  OBVIOUS
<1>1. LibInit => FlowInv /\ Init
  BY FlowInit DEF LibInit
<1>2. FlowInv /\ [LibNextStep]_all => FlowInv' /\ [ClientNext]_vars
  BY FlowStep
<1> QED
  BY <1>1, <1>2, PTL DEF LibSpec, FollowsTheFlow, ClientSpec

-----------------------------------------------------------------------------
(* The library's records, when every kernel service works, malloc returns      *)
(* cleared memory and every worker is created before the first scheduler       *)

Calm == Faults = {} /\ FreshMemory = {"zero"} /\ ~ LateWorkers

\* Created by the kernel, but not recorded yet.
Newest        == process[Main].worker_count - 1
Unrecorded(n) == main = "record" /\ n = Newest

\* The main thread: what the kernel has of the process, and the pthreads with it.
SetupInv ==
  /\ main # "start" => Managed(Main)
  /\ process[Main].proc_entry # "partial"
  /\ main \in {"start", "record"} => \A t \in Pthreads : ~ Created(t)
  /\ main = "record" => process[Main].worker_count > 0
  /\ main = "gone" => /\ \A t \in Pthreads : pc[t] \in {"none", "gone"}
                      /\ \A n \in Wids : ~ WorkerKnown(n)

\* What is known was created, and is counted as the kernel counts it.
RecordsInv ==
  /\ \A c \in Clids : ListKnown(c) =>
       /\ ListExists(<<Main, c>>)
       /\ comp_list[<<Main, c>>].worker_count =
            completion_lists[c].worker_count
              + IF main = "record" /\ worker[<<Main, Newest>>].clid = c THEN 1 ELSE 0
  /\ \A n \in Wids :
       /\ WorkerExists(<<Main, n>>) /\ main # "gone" /\ ~ Unrecorded(n) => WorkerKnown(n)
       /\ WorkerKnown(n) => WorkerExists(<<Main, n>>)

IsShared(t) == schedulers[t].clid \in SharedLists

\* The workers that t may have in its cache: those of a list of its own do not go
\* to anyone else.
Cacheable(t) == IF IsShared(t) THEN Members(ListOfPthread(t))
                               ELSE MembersIn(ListOfPthread(t), {"IDLE"})

\* The worker t is about to execute, no longer in the cache.
Taken(t)   == IF pc[t] \in {"mark", "execute"} THEN {local[t]} ELSE {}
MayTake(t) == Cacheable(t) \ Taken(t)

\* The first e entries of a list are erased; then come its workers, once each.
Caches(list, e, S) ==
  /\ list.worker_count \in Nat /\ e + list.worker_count <= list.size
  /\ \A i \in 1 .. e : list.workers[i] = NoId
  /\ \A i \in e + 1 .. e + list.worker_count :
       /\ list.workers[i] \in S
       /\ \A j \in e + 1 .. e + list.worker_count :
            list.workers[i] = list.workers[j] => i = j

Cached(list, S) == \E e \in 0 .. list.size : Caches(list, e, S)

\* The scheduler of a pthread, in the library and in the kernel.
ThreadInv(t) ==
  /\ ListKnown(schedulers[t].clid)
  /\ ListParams(t).size = comp_list[ListOfPthread(t)].worker_count
  /\ \A s \in Scheds : HasNode(t, s) => ListOf(s) = ListOfPthread(t)
  /\ Cached(ListParams(t), MayTake(t))
  /\ Taken(t) \subseteq Cacheable(t)
  /\ pc[t] = "execute" => schedulers[t].wid = local[t]
  /\ \A n \in Wids : Runs(t, n) => schedulers[t].wid = n
  /\ ListParams(t).state = "FINISHED" \/ pc[t] \in {"leave", "gone"}
       => Complete(ListOfPthread(t))
  /\ pc[t] # "lost"

ThreadsInv == main # "gone" => \A t \in Pthreads : Created(t) => ThreadInv(t)

\* Two schedulers for one list only where the program means it.
ListsAreOwn ==
  main # "gone" =>
    \A t \in Pthreads, u \in Pthreads :
      /\ t # u /\ Created(t) /\ Created(u)
      /\ schedulers[t].clid = schedulers[u].clid
      => IsShared(t)

FinishedInv ==
  \A c \in Clids : completion_lists[c].state = "FINISHED" => Complete(<<Main, c>>)

ReplyInv ==
  reply.task \in Pthreads =>
    Created(reply.task) /\ (reply.err = "SUCCESS" \/ IsShared(reply.task))

LibInv ==
  /\ FlowInv /\ SetupInv /\ RecordsInv
  /\ ThreadsInv /\ ListsAreOwn /\ FinishedInv /\ ReplyInv

\* The workers of a shared list do not pause.
NoSharedPause == \A c \in SharedLists, n \in Wids : Pauses[c][n] = 0

\* A worker that is on its way back to the kernel is still RUNNING there, and
\* already what it will be for the library.
YieldInv(n) ==
  at[n] = "yield" =>
    /\ WorkerExists(<<Main, n>>) /\ worker[<<Main, n>>].state = "RUNNING"
    /\ pauses[n] = 0 \/ workers[n] = "IDLE"

Executing(n) == \E t \in Pthreads : pc[t] = "execute" /\ local[t] = n

EachOffer(n) ==
  /\ /\ WorkerExists(<<Main, n>>) /\ worker[<<Main, n>>].state = "IDLE"
     /\ workers[n] \in {"RUNNING", "FINISHED"}
     => Executing(n)
  /\ main # "gone" =>
       /\ YieldInv(n)
       /\ WorkerExists(<<Main, n>>) /\ worker[<<Main, n>>].clid \in SharedLists
            => pauses[n] = 0

OfferInv == \A n \in Wids : EachOffer(n)

-----------------------------------------------------------------------------
(* The cached list *)

LEMMA CachedSame ==
  ASSUME NEW list, NEW other, NEW S, NEW T, Cached(list, S), S \subseteq T,
         other.size = list.size, other.worker_count = list.worker_count,
         other.workers = list.workers
  PROVE  Cached(other, T)
BY DEF Cached, Caches

LEMMA CachedFresh ==
  ASSUME NEW size \in Nat, NEW S
  PROVE  Cached(NewListParams(size, "zero"), S)
<1> PICK list : list = NewListParams(size, "zero")
  OBVIOUS
<1>1. list.size = size /\ list.worker_count = 0
  BY DEF NewListParams
<1>2. Caches(list, 0, S)
  BY <1>1 DEF Caches
<1> QED
  BY <1>1, <1>2 DEF Cached

\* The kernel's answer fills the array from its start.
LEMMA CachedAnswer ==
  ASSUME NEW list \in ListRecords, NEW state, NEW wids \in Seq(Wids), IsInjective(wids),
         Len(wids) <= list.size, NEW S, ToSet(wids) \subseteq S
  PROVE  Cached([list EXCEPT !.state = state, !.worker_count = Len(wids),
                             !.workers = Overwritten(list, wids)], S)
<1> PICK other : other = [list EXCEPT !.state = state, !.worker_count = Len(wids),
                                      !.workers = Overwritten(list, wids)]
  OBVIOUS
<1>1. list.size \in Nat /\ Len(wids) \in Nat
  BY ListRecordIs
<1>2. /\ other.size = list.size /\ other.worker_count = Len(wids)
      /\ other.workers = Overwritten(list, wids)
  <2>1. PICK k \in Nat : list \in [size : {k}, worker_count : Int,
                                   state : States \cup {"NONE"},
                                   workers : [1 .. k -> Wids \cup {NoId}]]
    BY DEF ListRecords
  <2> QED
    BY <2>1
<1>3. \A i \in 1 .. Len(wids) : other.workers[i] = wids[i] /\ wids[i] \in ToSet(wids)
  BY <1>1, <1>2 DEF Overwritten, ToSet
<1>4. \A i \in 1 .. Len(wids), j \in 1 .. Len(wids) : wids[i] = wids[j] => i = j
  BY DEF IsInjective
<1>5. Caches(other, 0, S)
  BY <1>1, <1>2, <1>3, <1>4 DEF Caches
<1> QED
  BY <1>1, <1>2, <1>5 DEF Cached

\* The next worker is the first one that is not erased; erased, it is in the cache
\* no more.
LEMMA CachedNext ==
  ASSUME NEW list \in ListRecords, NEW S, S \subseteq Wids, Cached(list, S),
         list.worker_count # 0
  PROVE  /\ \E i \in 1 .. list.size : list.workers[i] # NoId
         /\ NextWorker(list) \subseteq S
         /\ \A wid \in NextWorker(list) : Cached(Erased(list, wid), S \ {wid})
<1>1. /\ list.size \in Nat /\ list.worker_count \in Int
      /\ list.workers \in [1 .. list.size -> Wids \cup {NoId}]
  BY ListRecordIs
<1>2. PICK e \in 0 .. list.size : Caches(list, e, S)
  BY DEF Cached
<1> PICK first : first = e + 1
  OBVIOUS
<1>3. /\ list.worker_count \in Nat /\ e + list.worker_count <= list.size
      /\ \A i \in 1 .. e : list.workers[i] = NoId
  BY <1>2 DEF Caches
<1>4. /\ \A i \in first .. e + list.worker_count :
           /\ list.workers[i] \in S
           /\ \A j \in first .. e + list.worker_count :
                list.workers[i] = list.workers[j] => i = j
  BY <1>2 DEF Caches
<1>5. /\ first \in 1 .. list.size /\ first \in first .. e + list.worker_count
      /\ list.workers[first] \in S /\ list.workers[first] # NoId
  <2>1. first \in 1 .. list.size /\ first \in first .. e + list.worker_count
    BY <1>1, <1>3
  <2>2. NoId \notin Wids
    BY BoundsAssumption DEF NoId, Wids
  <2> QED
    BY <1>4, <2>1, <2>2
<1>6. NextWorker(list) = {list.workers[first]}
  <2> DEFINE rest == {i \in 1 .. list.size : list.workers[i] # NoId}
  <2>1. first \in rest /\ \A i \in rest : first <= i
    BY <1>1, <1>3, <1>5
  <2>2. \A i \in rest : i \in Int
    OBVIOUS
  <2>3. first \in Int
    BY <1>1
  <2> HIDE DEF rest
  <2> PICK least : least = Min(rest)
    OBVIOUS
  <2>4. least \in rest /\ \A i \in rest : least <= i
    BY <2>1 DEF Min
  <2>5. least = first
    BY <2>1, <2>2, <2>3, <2>4
  <2> QED
    BY <2>1, <2>5 DEF NextWorker, rest
<1> PICK wid : wid = list.workers[first]
  OBVIOUS
<1> PICK other : other = Erased(list, wid)
  OBVIOUS
<1>7. /\ other.size = list.size /\ other.worker_count = list.worker_count - 1
      /\ other.workers = [i \in 1 .. list.size |->
           IF list.workers[i] = wid /\ \A j \in 1 .. i - 1 : list.workers[j] # wid
           THEN NoId ELSE list.workers[i]]
  <2>1. PICK k \in Nat : list \in [size : {k}, worker_count : Int,
                                   state : States \cup {"NONE"},
                                   workers : [1 .. k -> Wids \cup {NoId}]]
    BY DEF ListRecords
  <2> QED
    BY <1>1, <2>1 DEF Erased
<1>8. \A i \in 1 .. e : other.workers[i] = NoId
  BY <1>1, <1>3, <1>7
<1>9. other.workers[first] = NoId
  <2>1. \A j \in 1 .. first - 1 : list.workers[j] # wid
    BY <1>3, <1>5
  <2> QED
    BY <1>5, <1>7, <2>1
<1>10. \A i \in first + 1 .. e + list.worker_count :
         other.workers[i] = list.workers[i] /\ list.workers[i] # wid
  <2> TAKE i \in first + 1 .. e + list.worker_count
  <2>1. i \in first .. e + list.worker_count /\ i \in 1 .. list.size /\ i # first
    BY <1>1, <1>3
  <2>2. list.workers[i] # wid
    BY <1>4, <1>5, <2>1
  <2> QED
    BY <1>7, <2>1, <2>2
<1>11. Caches(other, first, S \ {wid})
  <2>1. /\ other.worker_count \in Nat
        /\ first + other.worker_count = e + list.worker_count
        /\ first + other.worker_count <= other.size
    BY <1>1, <1>3, <1>7
  <2>2. \A i \in 1 .. first : other.workers[i] = NoId
    BY <1>8, <1>9
  <2>3. \A i \in first + 1 .. first + other.worker_count :
          /\ i \in first .. e + list.worker_count
          /\ other.workers[i] = list.workers[i] /\ list.workers[i] # wid
    BY <1>1, <1>3, <1>10, <2>1
  <2>4. \A i \in first + 1 .. first + other.worker_count :
          other.workers[i] \in S \ {wid}
    BY <1>4, <2>3
  <2>5. \A i \in first + 1 .. first + other.worker_count,
           j \in first + 1 .. first + other.worker_count :
          other.workers[i] = other.workers[j] => i = j
    BY <1>4, <2>3
  <2> QED
    BY <2>1, <2>2, <2>4, <2>5 DEF Caches
<1>12. Cached(other, S \ {wid})
  BY <1>1, <1>5, <1>7, <1>11 DEF Cached
<1> QED
  BY <1>5, <1>6, <1>12

-----------------------------------------------------------------------------
(* What a step of one pthread leaves alone *)

LEMMA LibInvHas ==
  ASSUME LibInv
  PROVE  /\ ClientInv /\ TypeInv /\ TypeOK /\ LibTypeOK /\ CountInv /\ ListInv /\ UseInv
         /\ FlowInv /\ SetupInv /\ RecordsInv
         /\ ThreadsInv /\ ListsAreOwn /\ FinishedInv /\ ReplyInv
BY FlowInvHas DEF LibInv

LEMMA ListTyped ==
  ASSUME FlowInv, NEW t \in Pthreads
  PROVE  ListOfPthread(t) \in Lists /\ ListOfPthread(t) = <<Main, schedulers[t].clid>>
BY SchedulerIs, OneMain DEF ListOfPthread, Lists

\* Nothing is created, and no worker changes its list.
Steady ==
  /\ process'[Main].state = process[Main].state
  /\ process'[Main].proc_entry = process[Main].proc_entry
  /\ process'[Main].worker_count = process[Main].worker_count
  /\ process'[Main].list_count = process[Main].list_count
  /\ \A l \in Lists : comp_list'[l].worker_count = comp_list[l].worker_count
  /\ \A n \in Wids : worker'[<<Main, n>>].clid = worker[<<Main, n>>].clid

\* Only what the kernel has for pthread t changes, and workers of its list.
OnlyFor(t) ==
  /\ Steady
  /\ \A u \in Pthreads : u # t => SameFor(u)
  /\ \A n \in Wids : worker'[<<Main, n>>].state # worker[<<Main, n>>].state =>
                       n \in Members(ListOfPthread(t))

LEMMA SteadyMembers ==
  ASSUME Steady
  PROVE  /\ \A n \in Wids : WorkerExists(<<Main, n>>)' <=> WorkerExists(<<Main, n>>)
         /\ \A c : Members(<<Main, c>>)' = Members(<<Main, c>>)
         /\ \A c : ListExists(<<Main, c>>)' <=> ListExists(<<Main, c>>)
         /\ Managed(Main)' <=> Managed(Main)
<1>1. \A n \in Wids : WorkerExists(<<Main, n>>)' <=> WorkerExists(<<Main, n>>)
  BY DEF Steady, WorkerExists
<1>2. ASSUME NEW c PROVE Members(<<Main, c>>)' = Members(<<Main, c>>)
  BY <1>1 DEF Steady, Members
<1> QED
  BY <1>1, <1>2 DEF Steady, ListExists, Managed

LEMMA SetupSteady ==
  ASSUME SetupInv, Steady, main' = main, main # "gone",
         \A u \in Pthreads : Created(u)' <=> Created(u)
  PROVE  SetupInv'
BY SteadyMembers DEF SetupInv, Steady

LEMMA RecordsSteady ==
  ASSUME RecordsInv, Steady, main' = main, main # "gone", SetupInv, TypeInv,
         \A c \in Clids :
           /\ completion_lists'[c].known = completion_lists[c].known
           /\ completion_lists'[c].worker_count = completion_lists[c].worker_count,
         \A n \in Wids : WorkerKnown(n)' <=> WorkerKnown(n)
  PROVE  RecordsInv'
<1>1. Newest' = Newest /\ \A n \in Wids : Unrecorded(n)' <=> Unrecorded(n)
  BY DEF Steady, Newest, Unrecorded
<1>2. main = "record" => Newest \in Wids
  BY OneMain, BoundsAssumption DEF SetupInv, TypeInv, TypeOK, ProcessNodes, Newest, Wids
<1>3. ASSUME NEW c \in Clids, ListKnown(c)'
      PROVE  /\ ListExists(<<Main, c>>)'
             /\ comp_list'[<<Main, c>>].worker_count =
                  completion_lists'[c].worker_count
                    + IF main' = "record" /\ worker'[<<Main, Newest'>>].clid = c
                      THEN 1 ELSE 0
  <2>1. ListKnown(c)
    BY <1>3 DEF ListKnown
  <2>2. <<Main, c>> \in Lists
    BY OneMain DEF Lists
  <2>3. main = "record" => worker'[<<Main, Newest'>>].clid = worker[<<Main, Newest>>].clid
    BY <1>1, <1>2 DEF Steady
  <2>4. comp_list'[<<Main, c>>].worker_count = comp_list[<<Main, c>>].worker_count
    BY <2>2 DEF Steady
  <2>5. ListExists(<<Main, c>>)'
    BY <2>1, SteadyMembers DEF RecordsInv
  <2> QED
    BY <2>1, <2>3, <2>4, <2>5 DEF RecordsInv
<1>4. \A n \in Wids :
        /\ WorkerExists(<<Main, n>>)' /\ main' # "gone" /\ ~ Unrecorded(n)'
             => WorkerKnown(n)'
        /\ WorkerKnown(n)' => WorkerExists(<<Main, n>>)'
  BY <1>1, SteadyMembers DEF RecordsInv
<1> QED
  BY <1>3, <1>4 DEF RecordsInv

\* What another pthread may have cached is still there.
LEMMA CacheableKept ==
  ASSUME LibInv, main # "gone", NEW t \in Pthreads, Created(t), OnlyFor(t),
         NEW u \in Pthreads, u # t, Created(u), schedulers'[u] = schedulers[u]
  PROVE  Cacheable(u) \subseteq Cacheable(u)'
<1>1. /\ ListOfPthread(u) = <<Main, schedulers[u].clid>>
      /\ ListOfPthread(t) = <<Main, schedulers[t].clid>>
      /\ ListOfPthread(u)' = ListOfPthread(u)
  BY DEF ListOfPthread
<1>2. Members(ListOfPthread(u))' = Members(ListOfPthread(u))
  BY <1>1, SteadyMembers DEF OnlyFor
<1>3. CASE IsShared(u)
  BY <1>2, <1>3 DEF Cacheable, IsShared
<1>4. CASE ~ IsShared(u)
  <2>1. schedulers[u].clid # schedulers[t].clid
    BY <1>4, LibInvHas DEF ListsAreOwn
  <2>2. ASSUME NEW n \in MembersIn(ListOfPthread(u), {"IDLE"})
        PROVE  n \in MembersIn(ListOfPthread(u), {"IDLE"})'
    <3>1. n \in Wids /\ n \in Members(ListOfPthread(u)) /\ worker[<<Main, n>>].state = "IDLE"
      BY <1>1 DEF MembersIn, Members
    <3>2. n \notin Members(ListOfPthread(t))
      BY <1>1, <2>1, <3>1 DEF Members
    <3>3. worker'[<<Main, n>>].state = "IDLE"
      BY <3>1, <3>2 DEF OnlyFor
    <3> QED
      BY <1>1, <1>2, <3>1, <3>3 DEF MembersIn
  <2>3. ~ IsShared(u)'
    BY <1>4 DEF IsShared
  <2> QED
    BY <1>4, <2>2, <2>3 DEF Cacheable
<1> QED
  BY <1>3, <1>4

LEMMA CompleteThen ==
  ASSUME NEW t, NEW l, ListOfPthread(t)' = l, Complete(l)'
  PROVE  Complete(ListOfPthread(t))'
BY DEF Complete, MembersIn, Members, WorkerExists

\* A pthread whose own part is as it was keeps its invariant.
LEMMA ThreadKept ==
  ASSUME LibInv, main # "gone", NEW u \in Pthreads, Created(u), SameFor(u),
         schedulers'[u] = schedulers[u], pc'[u] = pc[u], local'[u] = local[u],
         completion_lists'[schedulers[u].clid].known = completion_lists[schedulers[u].clid].known,
         Cacheable(u) \subseteq Cacheable(u)',
         NEW l, l = ListOfPthread(u),
         comp_list'[l].worker_count = comp_list[l].worker_count, Complete(l) => Complete(l)'
  PROVE  ThreadInv(u)'
<1>1. ThreadInv(u)
  BY LibInvHas DEF ThreadsInv
<1>2. ListOfPthread(u)' = l /\ ListParams(u)' = ListParams(u) /\ Taken(u)' = Taken(u)
  BY DEF ListOfPthread, ListParams, Taken
<1>3. Cached(ListParams(u), MayTake(u)')
  <2>1. MayTake(u) \subseteq MayTake(u)'
    BY <1>2 DEF MayTake
  <2> QED
    BY <1>1, <2>1, CachedSame DEF ThreadInv
<1>4. \A s \in Scheds : HasNode(u, s)' => ListOf(s)' = l
  BY <1>1 DEF SameFor, ListOf, ThreadInv
<1>5. \A n \in Wids : Runs(u, n)' => schedulers[u].wid = n
  BY <1>1 DEF SameFor, Runs, ThreadInv
<1>6. ListParams(u).size = comp_list'[l].worker_count
  BY <1>1 DEF ThreadInv
<1>7. ListKnown(schedulers[u].clid)'
  BY <1>1 DEF ListKnown, ThreadInv
<1>8. ListParams(u).state = "FINISHED" \/ pc[u] \in {"leave", "gone"}
        => Complete(ListOfPthread(u))'
  BY <1>1, <1>2, CompleteThen DEF ThreadInv
<1>9. /\ Taken(u) \subseteq Cacheable(u)' /\ pc[u] # "lost"
      /\ pc[u] = "execute" => schedulers[u].wid = local[u]
  BY <1>1 DEF ThreadInv
<1>10. /\ ListParams(u)'.size = comp_list'[ListOfPthread(u)'].worker_count
       /\ \A s \in Scheds : HasNode(u, s)' => ListOf(s)' = ListOfPthread(u)'
       /\ Cached(ListParams(u)', MayTake(u)')
       /\ Taken(u)' \subseteq Cacheable(u)'
       /\ pc'[u] = "execute" => schedulers'[u].wid = local'[u]
       /\ \A n \in Wids : Runs(u, n)' => schedulers'[u].wid = n
       /\ ListParams(u)'.state = "FINISHED" \/ pc'[u] \in {"leave", "gone"}
            => Complete(ListOfPthread(u))'
       /\ pc'[u] # "lost"
  BY <1>2, <1>3, <1>4, <1>5, <1>6, <1>8, <1>9
<1> QED
  BY <1>7, <1>10 DEF ThreadInv

LEMMA OtherKept ==
  ASSUME LibInv, main # "gone", NEW t \in Pthreads, Created(t), OnlyFor(t),
         NEW u \in Pthreads, u # t, Created(u),
         schedulers'[u] = schedulers[u], pc'[u] = pc[u], local'[u] = local[u],
         \A c \in Clids : completion_lists'[c].known = completion_lists[c].known,
         \A l \in Lists : Complete(l) => Complete(l)'
  PROVE  ThreadInv(u)'
<1> PICK l \in Lists : l = ListOfPthread(u)
  BY LibInvHas, ListTyped
<1>1. schedulers[u].clid \in Clids
  BY LibInvHas, SchedulerIs
<1>2. /\ SameFor(u) /\ comp_list'[l].worker_count = comp_list[l].worker_count
      /\ Complete(l) => Complete(l)'
  BY DEF OnlyFor, Steady
<1>3. Cacheable(u) \subseteq Cacheable(u)'
  BY CacheableKept
<1> QED
  BY <1>1, <1>2, <1>3, ThreadKept

\* A step of pthread t, in view of the rest of the library.
Moves(t) ==
  /\ main' = main
  /\ OnlyFor(t)
  /\ Created(t) /\ pc'[t] # "none" /\ schedulers'[t].clid = schedulers[t].clid
  /\ \A u \in Pthreads : u # t =>
       schedulers'[u] = schedulers[u] /\ pc'[u] = pc[u] /\ local'[u] = local[u]
  /\ \A c \in Clids :
       /\ completion_lists'[c].known = completion_lists[c].known
       /\ completion_lists'[c].worker_count = completion_lists[c].worker_count
       /\ completion_lists'[c].state = "FINISHED" =>
            completion_lists[c].state = "FINISHED" \/ Complete(<<Main, c>>)
  /\ \A n \in Wids : WorkerKnown(n)' <=> WorkerKnown(n)
  /\ \/ reply' = reply
     \/ reply'.task = t /\ (reply'.err = "SUCCESS" \/ IsShared(t))

LEMMA MovesKeep ==
  ASSUME LibInv, main # "gone", NEW t \in Pthreads, Moves(t), ThreadInv(t)', FlowInv',
         \A l \in Lists : Complete(l) => Complete(l)'
  PROVE  LibInv'
<1>1. Steady /\ OnlyFor(t) /\ main' = main /\ Created(t)
  BY DEF Moves, OnlyFor
<1>2. \A u \in Pthreads : /\ Created(u)' <=> Created(u)
                          /\ schedulers'[u].clid = schedulers[u].clid
  BY DEF Moves, Created
<1>3. SetupInv'
  BY <1>1, <1>2, SetupSteady, LibInvHas
<1>4. RecordsInv'
  BY <1>1, RecordsSteady, LibInvHas DEF Moves
<1>5. ThreadsInv'
  <2> SUFFICES ASSUME NEW u \in Pthreads, Created(u)'
               PROVE  ThreadInv(u)'
    BY DEF ThreadsInv
  <2>1. CASE u = t
    BY <2>1
  <2>2. CASE u # t
    BY <1>1, <1>2, <2>2, OtherKept DEF Moves
  <2> QED
    BY <2>1, <2>2
<1>6. ListsAreOwn'
  BY <1>1, <1>2, LibInvHas DEF ListsAreOwn, IsShared
<1>7. FinishedInv'
  <2> SUFFICES ASSUME NEW c \in Clids, completion_lists'[c].state = "FINISHED"
               PROVE  Complete(<<Main, c>>)'
    BY DEF FinishedInv
  <2>1. Complete(<<Main, c>>)
    BY LibInvHas DEF FinishedInv, Moves
  <2>2. <<Main, c>> \in Lists
    BY OneMain DEF Lists
  <2> QED
    BY <2>1, <2>2
<1>8. ReplyInv'
  <2>1. CASE reply' = reply
    BY <1>2, <2>1, LibInvHas DEF ReplyInv, IsShared
  <2>2. CASE reply'.task = t /\ (reply'.err = "SUCCESS" \/ IsShared(t))
    BY <1>1, <1>2, <2>2 DEF ReplyInv, IsShared
  <2> QED
    BY <2>1, <2>2 DEF Moves
<1> QED
  BY <1>3, <1>4, <1>5, <1>6, <1>7, <1>8 DEF LibInv

\* Once the main thread has left, nothing happens any more.
LEMMA AfterExit ==
  ASSUME LibInv, ~ undef, main = "gone"
  PROVE  ~ MainStep /\ \A t \in Pthreads : ~ PthreadStep(t)
<1>1. ~ MainStep
  BY DEF MainStep, LibEnter, LibCreateCompletionList, LibCreateWorkerThread,
         LibRecordWorker, LibCreateScheduler, LibExit
<1>2. ASSUME NEW t \in Pthreads
      PROVE  pc[t] \in {"none", "gone"} /\ \A n \in Wids : ~ Runs(t, n)
  <2>1. pc[t] \in {"none", "gone"}
    BY LibInvHas DEF SetupInv
  <2>2. regs[t] = Own(t)
    BY <2>1, LibInvHas DEF FlowInv, AllPlaced, Placed
  <2> QED
    BY <2>1, <2>2 DEF Runs, WorkerCtx, Own
<1> QED
  BY <1>1, <1>2
     DEF PthreadStep, LibEnterSchedulingMode, LibDequeue, LibAsk, LibTold, LibNext, LibMark,
         LibExecute, LibExitSchedulingMode, LibMarkYield, LibYield

LEMMA LibInvSame ==
  ASSUME LibInv, FlowInv', UNCHANGED all
  PROVE  LibInv'
<1>1. /\ main' = main /\ completion_lists' = completion_lists /\ workers' = workers
      /\ schedulers' = schedulers /\ pc' = pc /\ local' = local
      /\ process' = process /\ comp_list' = comp_list /\ worker' = worker
      /\ scheduler' = scheduler /\ regs' = regs /\ reply' = reply
  BY DEF all, lib, vars
<1>2. SetupInv'
  BY <1>1, LibInvHas DEF SetupInv, Managed, Created, WorkerKnown
<1>3. RecordsInv'
  BY <1>1, LibInvHas
     DEF RecordsInv, ListKnown, ListExists, WorkerExists, WorkerKnown, Unrecorded, Newest
<1>4. \A l : Complete(l)' <=> Complete(l)
  BY <1>1 DEF Complete, MembersIn, Members, WorkerExists
<1>5. FinishedInv'
  BY <1>1, <1>4, LibInvHas DEF FinishedInv
<1>6. ReplyInv' /\ ListsAreOwn'
  BY <1>1, LibInvHas DEF ReplyInv, ListsAreOwn, Created, IsShared
<1>7. ASSUME NEW t \in Pthreads
      PROVE  ThreadInv(t)' <=> ThreadInv(t)
  <2>1. /\ ListOfPthread(t)' = ListOfPthread(t) /\ ListParams(t)' = ListParams(t)
        /\ MayTake(t)' = MayTake(t) /\ Cacheable(t)' = Cacheable(t) /\ Taken(t)' = Taken(t)
    BY <1>1 DEF ListOfPthread, ListParams, MayTake, Cacheable, Taken, MembersIn, Members,
                WorkerExists, IsShared
  <2>2. \A s : (HasNode(t, s)' <=> HasNode(t, s)) /\ ListOf(s)' = ListOf(s)
    BY <1>1 DEF HasNode, SchedExists, ListOf
  <2> QED
    BY <1>1, <1>4, <2>1, <2>2 DEF ThreadInv, ListKnown, Runs, Complete, MembersIn, Members, WorkerExists
<1>8. ThreadsInv'
  BY <1>1, <1>7, LibInvHas DEF ThreadsInv, Created
<1> QED
  BY <1>2, <1>3, <1>5, <1>6, <1>8 DEF LibInv

-----------------------------------------------------------------------------
(* The steps of a pthread that ask the kernel nothing *)

\* The library's variables are functions, so that a step of t is one of t alone.
LEMMA LibFunctions ==
  ASSUME FlowInv
  PROVE  /\ DOMAIN pc = Pthreads /\ pc = [t \in Pthreads |-> pc[t]]
         /\ schedulers = [t \in Pthreads |-> schedulers[t]]
         /\ local = [t \in Pthreads |-> local[t]]
         /\ completion_lists = [c \in Clids |-> completion_lists[c]]
         /\ workers = [n \in Wids |-> workers[n]]
BY DEF FlowInv, LibTypeOK

LEMMA QuietIsOnly ==
  ASSUME UNCHANGED vars, NEW t \in Pthreads
  PROVE  OnlyFor(t)
<1>1. \A u \in Pthreads : SameFor(u)
  BY MainSame DEF vars
<1> QED
  BY <1>1 DEF vars, OnlyFor, Steady

LEMMA QuietThread ==
  ASSUME LibInv, main # "gone", NEW t \in Pthreads, Created(t), UNCHANGED vars,
         schedulers'[t].clid = schedulers[t].clid,
         \A c \in Clids : completion_lists'[c].known = completion_lists[c].known,
         ListParams(t)'.size = ListParams(t).size,
         NEW taken, taken = Taken(t)',
         taken \subseteq Cacheable(t), Cached(ListParams(t)', Cacheable(t) \ taken),
         pc'[t] = "execute" => schedulers'[t].wid = local'[t],
         \A n \in Wids : Runs(t, n) => schedulers'[t].wid = n,
         ListParams(t)'.state = "FINISHED" \/ pc'[t] \in {"leave", "gone"}
           => Complete(ListOfPthread(t)),
         pc'[t] # "lost"
  PROVE  ThreadInv(t)'
<1>1. ThreadInv(t) /\ schedulers[t].clid \in Clids
  BY LibInvHas, SchedulerIs DEF ThreadsInv
<1>2. /\ ListOfPthread(t)' = ListOfPthread(t)
      /\ Cacheable(t)' = Cacheable(t)
      /\ Complete(ListOfPthread(t)) => Complete(ListOfPthread(t))'
      /\ \A n : Runs(t, n)' <=> Runs(t, n)
      /\ \A s : (HasNode(t, s)' <=> HasNode(t, s)) /\ ListOf(s)' = ListOf(s)
      /\ comp_list' = comp_list
  BY DEF vars, ListOfPthread, Cacheable, IsShared, MembersIn, Members, WorkerExists,
         Complete, Runs, HasNode, SchedExists, ListOf
<1>3. ListKnown(schedulers[t].clid)'
  BY <1>1 DEF ListKnown, ThreadInv
<1>4. MayTake(t)' = Cacheable(t) \ taken
  BY <1>2 DEF MayTake
<1>5. /\ ListParams(t)'.size = comp_list'[ListOfPthread(t)'].worker_count
      /\ \A s \in Scheds : HasNode(t, s)' => ListOf(s)' = ListOfPthread(t)'
      /\ Cached(ListParams(t)', MayTake(t)')
      /\ Taken(t)' \subseteq Cacheable(t)'
      /\ \A n \in Wids : Runs(t, n)' => schedulers'[t].wid = n
      /\ ListParams(t)'.state = "FINISHED" \/ pc'[t] \in {"leave", "gone"}
            => Complete(ListOfPthread(t))'
  BY <1>1, <1>2, <1>4 DEF ThreadInv
<1> QED
  BY <1>3, <1>5 DEF ThreadInv

\* A step of t on its own records only.
LEMMA QuietMoves ==
  ASSUME LibInv, NEW t \in Pthreads, UNCHANGED vars, main' = main,
         Created(t), pc'[t] # "none", schedulers'[t].clid = schedulers[t].clid,
         \A u \in Pthreads : u # t =>
           schedulers'[u] = schedulers[u] /\ pc'[u] = pc[u] /\ local'[u] = local[u],
         completion_lists' = completion_lists,
         \A n \in Wids : WorkerKnown(n)' <=> WorkerKnown(n)
  PROVE  Moves(t)
BY QuietIsOnly DEF Moves, vars

LEMMA DequeueMoves ==
  ASSUME LibInv, main # "gone", NEW t \in Pthreads, LibDequeue(t)
  PROVE  Moves(t) /\ ThreadInv(t)'
<1>1. /\ Created(t) /\ pc[t] = "dequeue" /\ UNCHANGED vars /\ main' = main
      /\ completion_lists' = completion_lists /\ workers' = workers /\ local' = local
      /\ \E to \in {"ask", "next"} : pc' = [pc EXCEPT ![t] = to]
  BY DEF LibDequeue, Created
<1>2. ThreadInv(t) /\ schedulers[t].clid \in Clids
  BY <1>1, LibInvHas, SchedulerIs DEF ThreadsInv
<1>3. pc'[t] \in {"ask", "next"} /\ \A u \in Pthreads : u # t => pc'[u] = pc[u]
  BY <1>1, LibInvHas, LibFunctions
<1>4. \/ schedulers' = schedulers
      \/ /\ schedulers' = [schedulers EXCEPT ![t].list.state = "FINISHED"]
         /\ completion_lists[schedulers[t].clid].state = "FINISHED"
  BY DEF LibDequeue
<1>5. /\ schedulers'[t].clid = schedulers[t].clid /\ schedulers'[t].wid = schedulers[t].wid
      /\ \A u \in Pthreads : u # t => schedulers'[u] = schedulers[u]
      /\ ListParams(t)'.size = ListParams(t).size
      /\ ListParams(t)'.worker_count = ListParams(t).worker_count
      /\ ListParams(t)'.workers = ListParams(t).workers
      /\ ListParams(t)'.state = "FINISHED" =>
           \/ ListParams(t).state = "FINISHED"
           \/ completion_lists[schedulers[t].clid].state = "FINISHED"
  <2>1. CASE schedulers' = schedulers
    BY <2>1 DEF ListParams
  <2>2. CASE /\ schedulers' = [schedulers EXCEPT ![t].list.state = "FINISHED"]
             /\ completion_lists[schedulers[t].clid].state = "FINISHED"
    BY <2>2, LibInvHas DEF ListParams, LibTypeOK, SchedulerRecords
  <2> QED
    BY <1>4, <2>1, <2>2
<1>6. Taken(t) = {} /\ Taken(t)' = {}
  BY <1>1, <1>3 DEF Taken
<1>7. Cached(ListParams(t)', Cacheable(t))
  <2>1. Cached(ListParams(t), Cacheable(t))
    BY <1>2, <1>6, CachedSame DEF ThreadInv, MayTake
  <2> QED
    BY <1>5, <2>1, CachedSame
<1>8. ListParams(t)'.state = "FINISHED" => Complete(ListOfPthread(t))
  BY <1>2, <1>5, LibInvHas DEF ThreadInv, FinishedInv, ListOfPthread
<1>9. Moves(t)
  BY <1>1, <1>3, <1>5, QuietMoves DEF WorkerKnown
<1>10. ThreadInv(t)'
  BY <1>1, <1>2, <1>3, <1>5, <1>6, <1>7, <1>8, QuietThread DEF ThreadInv
<1> QED
  BY <1>9, <1>10

LEMMA ToldMoves ==
  ASSUME LibInv, main # "gone", NEW t \in Pthreads, LibTold(t)
  PROVE  Moves(t) /\ ThreadInv(t)'
<1>1. /\ Created(t) /\ pc[t] = "told" /\ UNCHANGED vars /\ main' = main
      /\ workers' = workers /\ local' = local /\ schedulers' = schedulers
      /\ pc' = [pc EXCEPT ![t] = "next"]
  BY DEF LibTold, Created
<1>2. ThreadInv(t) /\ schedulers[t].clid \in Clids
  BY <1>1, LibInvHas, SchedulerIs DEF ThreadsInv
<1>3. pc'[t] = "next" /\ \A u \in Pthreads : u # t => pc'[u] = pc[u]
  BY <1>1, LibInvHas, LibFunctions
<1>4. \A c \in Clids :
        /\ completion_lists'[c].known = completion_lists[c].known
        /\ completion_lists'[c].worker_count = completion_lists[c].worker_count
        /\ completion_lists'[c].state = "FINISHED" =>
             \/ completion_lists[c].state = "FINISHED"
             \/ c = schedulers[t].clid /\ ListParams(t).state = "FINISHED"
  <2>1. \A c \in Clids : completion_lists[c] \in KnownLists
    BY LibInvHas DEF LibTypeOK
  <2>2. CASE completion_lists' = completion_lists
    BY <2>2
  <2>3. CASE /\ completion_lists' =
                  [completion_lists EXCEPT ![schedulers[t].clid].state = "FINISHED"]
             /\ ListParams(t).state = "FINISHED"
    BY <2>1, <2>3, LibInvHas DEF LibTypeOK, KnownLists
  <2> QED
    BY <2>2, <2>3 DEF LibTold
<1>5. Taken(t) = {} /\ Taken(t)' = {}
  BY <1>1, <1>3 DEF Taken
<1>6. ListParams(t)' = ListParams(t) /\ Cached(ListParams(t), Cacheable(t))
  BY <1>1, <1>2, <1>5, CachedSame DEF ThreadInv, MayTake, ListParams
<1>7. ListParams(t).state = "FINISHED" => Complete(<<Main, schedulers[t].clid>>)
  BY <1>2 DEF ThreadInv, ListOfPthread
<1>8. Moves(t)
  BY <1>1, <1>3, <1>4, <1>7, QuietIsOnly DEF Moves, vars, WorkerKnown
<1>9. ThreadInv(t)'
  BY <1>1, <1>2, <1>3, <1>4, <1>5, <1>6, QuietThread DEF ThreadInv
<1> QED
  BY <1>8, <1>9

LEMMA CacheableIn ==
  ASSUME NEW t
  PROVE  Cacheable(t) \subseteq Members(ListOfPthread(t)) /\ Cacheable(t) \subseteq Wids
BY DEF Cacheable, MembersIn, Members

\* Every worker of a list is known as soon as there is a scheduler.
LEMMA MembersKnown ==
  ASSUME LibInv, main # "gone", NEW t \in Pthreads, Created(t),
         NEW n \in Members(ListOfPthread(t))
  PROVE  n \in Wids /\ WorkerExists(<<Main, n>>) /\ WorkerKnown(n)
<1>1. n \in Wids /\ WorkerExists(<<Main, n>>)
  BY DEF Members, ListOfPthread
<1>2. ~ Unrecorded(n)
  BY LibInvHas DEF SetupInv, Unrecorded
<1> QED
  BY <1>1, <1>2, LibInvHas DEF RecordsInv

\* Of a pthread whose worker runs.
LEMMA RunsHas ==
  ASSUME LibInv, ~ undef, main # "gone", NEW t \in Pthreads, NEW n \in Wids, Runs(t, n)
  PROVE  /\ Created(t) /\ pc[t] = "dequeue" /\ schedulers[t].wid = n
         /\ n \in MembersIn(ListOfPthread(t), {"RUNNING"})
         /\ WorkerKnown(n) /\ WorkerExists(<<Main, n>>)
         /\ worker[<<Main, n>>].state = "RUNNING"
         /\ \E s \in Scheds : HasNode(t, s)
<1>1. Placed(t) /\ pc[t] \in Loop \cup {"none", "enter", "lost", "gone"}
  BY LibInvHas DEF FlowInv, AllPlaced, LibTypeOK
<1>2. regs[t] # Own(t) /\ \A s : regs[t] # SchedCtx(s)
  BY DEF Runs, WorkerCtx, Own, SchedCtx
<1>3. Created(t) /\ pc[t] \notin {"none", "enter", "gone"}
  BY <1>1, <1>2 DEF Placed, Created
<1>4. ThreadInv(t)
  BY <1>3, LibInvHas DEF ThreadsInv
<1>5. pc[t] \in Loop
  BY <1>1, <1>3, <1>4 DEF ThreadInv
<1>6. pc[t] \notin Calls
  BY <1>2, CallsAreSchedulerCode, LibInvHas
<1>7. pc[t] = "dequeue"
  BY <1>5, <1>6 DEF Loop
<1>8. PICK s \in Scheds : HasNode(t, s)
  BY <1>1, <1>5 DEF Placed
<1>9. n \in MembersIn(ListOf(s), {"RUNNING"})
  BY <1>8, RunsIs, LibInvHas
<1>10. ListOf(s) = ListOfPthread(t) /\ schedulers[t].wid = n
  BY <1>4, <1>8 DEF ThreadInv
<1>11. n \in Members(ListOfPthread(t)) /\ worker[<<Main, n>>].state = "RUNNING"
  BY <1>9, <1>10 DEF MembersIn, ListOfPthread
<1>12. WorkerKnown(n) /\ WorkerExists(<<Main, n>>)
  BY <1>3, <1>11, MembersKnown
<1> QED
  BY <1>3, <1>7, <1>8, <1>9, <1>10, <1>11, <1>12

LEMMA NextMoves ==
  ASSUME LibInv, main # "gone", NEW t \in Pthreads, LibNext(t)
  PROVE  Moves(t) /\ ThreadInv(t)'
<1> PICK list \in ListRecords : list = ListParams(t) /\ list = schedulers[t].list
  BY LibInvHas, SchedulerIs
<1>1. /\ Created(t) /\ pc[t] = "next" /\ UNCHANGED vars /\ main' = main
      /\ workers' = workers /\ completion_lists' = completion_lists
  BY DEF LibNext, Created
<1>2. ThreadInv(t)
  BY <1>1, LibInvHas DEF ThreadsInv
<1>3. Taken(t) = {} /\ Cached(list, Cacheable(t))
  <2>1. Taken(t) = {}
    BY <1>1 DEF Taken
  <2> QED
    BY <1>2, <2>1, CachedSame DEF ThreadInv, MayTake
<1>4. ASSUME NEW to \in {"leave", "dequeue"}, pc' = [pc EXCEPT ![t] = to],
             schedulers' = schedulers, local' = local,
             to = "leave" => list.state = "FINISHED"
      PROVE  Moves(t) /\ ThreadInv(t)'
  <2>1. pc'[t] = to /\ \A u \in Pthreads : u # t => pc'[u] = pc[u]
    BY <1>4, LibInvHas, LibFunctions
  <2>2. Taken(t)' = {} /\ ListParams(t)' = list
    BY <1>4, <2>1 DEF Taken, ListParams
  <2>3. Moves(t)
    BY <1>1, <1>4, <2>1, QuietMoves DEF WorkerKnown
  <2>4. Cached(ListParams(t)', Cacheable(t) \ {})
    BY <1>3, <2>2, CachedSame
  <2>5. /\ schedulers'[t].clid = schedulers[t].clid
        /\ ListParams(t)'.size = ListParams(t).size
        /\ pc'[t] \notin {"execute", "gone", "lost"}
        /\ ListParams(t)'.state = "FINISHED" \/ pc'[t] = "leave"
             => Complete(ListOfPthread(t))
        /\ \A n \in Wids : Runs(t, n) => schedulers'[t].wid = n
    BY <1>2, <1>4, <2>1, <2>2 DEF ThreadInv
  <2>6. ThreadInv(t)'
    BY <1>1, <2>2, <2>4, <2>5, QuietThread
  <2> QED
    BY <2>3, <2>6
<1>5. ASSUME NEW wid \in NextWorker(list), WorkerKnown(wid), list.worker_count # 0,
             list.state # "FINISHED", NEW to \in {"mark", "dequeue"},
             pc' = [pc EXCEPT ![t] = to], local' = [local EXCEPT ![t] = wid],
             schedulers' = [schedulers EXCEPT ![t].list = Erased(@, wid)]
      PROVE  Moves(t) /\ ThreadInv(t)'
  <2>1. /\ pc'[t] = to /\ \A u \in Pthreads : u # t => pc'[u] = pc[u]
        /\ local'[t] = wid /\ \A u \in Pthreads : u # t => local'[u] = local[u]
    BY <1>5, LibInvHas, LibFunctions
  <2> PICK rest : rest = Erased(list, wid)
    OBVIOUS
  <2>2. /\ schedulers'[t].clid = schedulers[t].clid /\ schedulers'[t].wid = schedulers[t].wid
        /\ ListParams(t)' = rest
        /\ \A u \in Pthreads : u # t => schedulers'[u] = schedulers[u]
    <3>1. schedulers[t] \in SchedulerRecords
      BY LibInvHas, SchedulerIs
    <3> QED
      BY <1>5, <3>1, LibInvHas DEF ListParams, LibTypeOK, SchedulerRecords
  <2>3. rest.size = list.size /\ rest.state = list.state
    <3>1. PICK k \in Nat : list \in [size : {k}, worker_count : Int,
                                     state : States \cup {"NONE"},
                                     workers : [1 .. k -> Wids \cup {NoId}]]
      BY DEF ListRecords
    <3> QED
      BY <3>1 DEF Erased
  <2>4. wid \in Cacheable(t) /\ Cached(rest, Cacheable(t) \ {wid})
    BY <1>3, <1>5, CacheableIn, CachedNext
  <2>5. Taken(t)' = IF to = "mark" THEN {wid} ELSE {}
    BY <2>1 DEF Taken
  <2> PICK taken : taken = Taken(t)'
    OBVIOUS
  <2>6. taken \subseteq Cacheable(t) /\ Cached(rest, Cacheable(t) \ taken)
    <3>1. taken \subseteq {wid}
      BY <2>5
    <3>2. Cacheable(t) \ {wid} \subseteq Cacheable(t) \ taken
      BY <3>1
    <3> QED
      BY <2>4, <3>1, <3>2, CachedSame
  <2>7. Moves(t)
    BY <1>1, <1>5, <2>1, <2>2, QuietMoves DEF WorkerKnown
  <2>8. /\ ListParams(t)'.size = ListParams(t).size
        /\ Cached(ListParams(t)', Cacheable(t) \ taken)
        /\ pc'[t] \notin {"execute", "leave", "gone", "lost"}
        /\ ListParams(t)'.state # "FINISHED"
        /\ \A n \in Wids : Runs(t, n) => schedulers'[t].wid = n
    BY <1>2, <1>5, <2>1, <2>2, <2>3, <2>6 DEF ThreadInv
  <2>9. ThreadInv(t)'
    BY <1>1, <2>2, <2>6, <2>8, QuietThread
  <2> QED
    BY <2>7, <2>9
<1>6. CASE /\ list.state = "FINISHED"
           /\ pc' = [pc EXCEPT ![t] = "leave"] /\ UNCHANGED <<schedulers, local>>
  BY <1>4, <1>6
<1>7. CASE /\ pc' = [pc EXCEPT ![t] = "dequeue"] /\ UNCHANGED <<schedulers, local>>
  BY <1>4, <1>7
<1>8. CASE /\ list.state # "FINISHED" /\ list.worker_count # 0
           /\ \E wid \in NextWorker(list) :
                /\ WorkerKnown(wid)
                /\ pc' = [pc EXCEPT ![t] = IF workers[wid] = "IDLE"
                                           THEN "mark" ELSE "dequeue"]
                /\ local' = [local EXCEPT ![t] = wid]
                /\ schedulers' = [schedulers EXCEPT ![t].list = Erased(@, wid)]
  BY <1>5, <1>8
<1> QED
  BY <1>6, <1>7, <1>8 DEF LibNext

LEMMA MarkMoves ==
  ASSUME LibInv, ~ undef, main # "gone", NEW t \in Pthreads, NEW wid \in Wids,
         LibMark(t, wid)
  PROVE  Moves(t) /\ ThreadInv(t)'
<1>1. /\ Created(t) /\ pc[t] = "mark" /\ wid = local[t] /\ UNCHANGED vars /\ main' = main
      /\ local' = local /\ completion_lists' = completion_lists
      /\ schedulers' = [schedulers EXCEPT ![t].wid = wid]
      /\ workers' = [workers EXCEPT ![wid] = "RUNNING"]
      /\ pc' = [pc EXCEPT ![t] = "execute"]
  BY DEF LibMark, Created
<1>2. ThreadInv(t)
  BY <1>1, LibInvHas DEF ThreadsInv
<1>3. pc'[t] = "execute" /\ \A u \in Pthreads : u # t => pc'[u] = pc[u]
  BY <1>1, LibInvHas, LibFunctions
<1>4. /\ schedulers'[t].clid = schedulers[t].clid /\ schedulers'[t].wid = wid
      /\ ListParams(t)' = ListParams(t)
      /\ \A u \in Pthreads : u # t => schedulers'[u] = schedulers[u]
  <2>1. schedulers[t] \in SchedulerRecords
    BY LibInvHas, SchedulerIs
  <2> QED
    BY <1>1, <2>1, LibInvHas DEF ListParams, LibTypeOK, SchedulerRecords
<1>5. Taken(t) = {wid} /\ Taken(t)' = {wid}
  BY <1>1, <1>3 DEF Taken
<1>6. WorkerKnown(wid)
  BY <1>1, <1>2, <1>5, CacheableIn, MembersKnown DEF ThreadInv
<1>7. \A n \in Wids : WorkerKnown(n)' <=> WorkerKnown(n)
  BY <1>1, <1>6, LibInvHas DEF WorkerKnown, LibTypeOK
<1>8. \A n \in Wids : ~ Runs(t, n)
  BY <1>1, LibInvHas, CallsAreSchedulerCode DEF Calls, Runs, SchedCtx, WorkerCtx
<1>9. Moves(t)
  BY <1>1, <1>3, <1>4, <1>7, QuietMoves
<1>10. /\ ListParams(t)'.size = ListParams(t).size
       /\ {wid} \subseteq Cacheable(t) /\ Cached(ListParams(t)', Cacheable(t) \ {wid})
       /\ schedulers'[t].wid = local'[t]
       /\ ListParams(t)'.state = "FINISHED" => Complete(ListOfPthread(t))
  BY <1>1, <1>2, <1>4, <1>5 DEF ThreadInv, MayTake
<1>11. ThreadInv(t)'
  BY <1>1, <1>3, <1>4, <1>5, <1>8, <1>10, QuietThread
<1> QED
  BY <1>9, <1>11

LEMMA MarkYieldMoves ==
  ASSUME LibInv, ~ undef, main # "gone", NEW t \in Pthreads, NEW n \in Wids,
         LibMarkYield(t, n)
  PROVE  Moves(t) /\ ThreadInv(t)'
<1>1. /\ Runs(t, n) /\ UNCHANGED vars /\ main' = main
      /\ local' = local /\ completion_lists' = completion_lists
      /\ schedulers' = schedulers /\ pc' = pc
      /\ workers' = [workers EXCEPT ![schedulers[t].wid] = Marked(StatusOf(n))]
  BY DEF LibMarkYield
<1>2. /\ Created(t) /\ pc[t] = "dequeue" /\ schedulers[t].wid = n /\ WorkerKnown(n)
  BY <1>1, RunsHas
<1>3. ThreadInv(t)
  BY <1>2, LibInvHas DEF ThreadsInv
<1>4. Marked(StatusOf(n)) # "ABSENT"
  BY DEF Marked
<1>5. \A k \in Wids : WorkerKnown(k)' <=> WorkerKnown(k)
  BY <1>1, <1>2, <1>4, LibInvHas DEF WorkerKnown, LibTypeOK
<1>6. Taken(t) = {} /\ Taken(t)' = {}
  BY <1>1, <1>2 DEF Taken
<1>7. /\ ListParams(t)' = ListParams(t) /\ Cached(ListParams(t), Cacheable(t))
  BY <1>1, <1>3, <1>6, CachedSame DEF ListParams, ThreadInv, MayTake
<1>8. Moves(t)
  BY <1>1, <1>2, <1>5, QuietMoves DEF Created
<1>9. ThreadInv(t)'
  BY <1>1, <1>2, <1>3, <1>6, <1>7, QuietThread DEF ThreadInv
<1> QED
  BY <1>8, <1>9

-----------------------------------------------------------------------------
(* The steps of a pthread that ask the kernel *)

LEMMA UntouchedIsOnly ==
  ASSUME Untouched, NEW t \in Pthreads
  PROVE  /\ OnlyFor(t)
         /\ schedulers'[t].clid = schedulers[t].clid => Cacheable(t)' = Cacheable(t)
         /\ \A s \in Scheds : (HasNode(t, s)' <=> HasNode(t, s)) /\ ListOf(s)' = ListOf(s)
<1>1. \A u \in Pthreads : SameFor(u)
  BY UntouchedSame
<1>2. OnlyFor(t)
  BY <1>1 DEF Untouched, OnlyFor, Steady
<1>3. schedulers'[t].clid = schedulers[t].clid => Cacheable(t)' = Cacheable(t)
  BY DEF Untouched, Cacheable, IsShared, ListOfPthread, MembersIn, Members, WorkerExists
<1>4. \A s \in Scheds : (HasNode(t, s)' <=> HasNode(t, s)) /\ ListOf(s)' = ListOf(s)
  BY DEF Untouched, HasNode, SchedExists, ListOf
<1> QED
  BY <1>2, <1>3, <1>4

LEMMA ChangesAreOnly ==
  ASSUME LibInv, NEW t \in Pthreads, NEW s \in Scheds, HasNode(t, s), NodeChanges(t, s),
         \/ worker' = worker
         \/ \E n \in Members(ListOfPthread(t)) : Replaced(<<Main, n>>, worker'[<<Main, n>>])
  PROVE  /\ OnlyFor(t)
         /\ \A r \in Scheds : (HasNode(t, r)' <=> HasNode(t, r)) /\ ListOf(r)' = ListOf(r)
<1>1. /\ \A r \in Scheds : HasNode(t, r)' <=> HasNode(t, r)
      /\ \A u \in Pthreads : u # t => SameFor(u)
  BY NodeChangesSame
<1>2. \A r \in Scheds : ListOf(r)' = ListOf(r)
  BY DEF NodeChanges, ListOf
<1>3. \A n \in Wids :
        /\ worker'[<<Main, n>>].clid = worker[<<Main, n>>].clid
        /\ worker'[<<Main, n>>].state # worker[<<Main, n>>].state =>
             n \in Members(ListOfPthread(t))
  <2>1. CASE worker' = worker
    BY <2>1
  <2>2. ASSUME NEW n \in Members(ListOfPthread(t)),
               Replaced(<<Main, n>>, worker'[<<Main, n>>]), NEW k \in Wids
        PROVE  /\ worker'[<<Main, k>>].clid = worker[<<Main, k>>].clid
               /\ worker'[<<Main, k>>].state # worker[<<Main, k>>].state => k = n
    <3>1. <<Main, k>> \in Workers /\ worker \in [Workers -> WorkerNodes]
      BY OneMain, LibInvHas DEF Workers, TypeOK
    <3> QED
      BY <2>2, <3>1 DEF Replaced
  <2> QED
    BY <2>1, <2>2
<1>4. Steady
  BY <1>3 DEF NodeChanges, Steady
<1> QED
  BY <1>1, <1>2, <1>3, <1>4 DEF OnlyFor

\* A pthread's invariant after a request of its own.
LEMMA AskedThread ==
  ASSUME LibInv, main # "gone", NEW t \in Pthreads, Created(t), OnlyFor(t),
         schedulers'[t].clid = schedulers[t].clid, completion_lists' = completion_lists,
         ListParams(t)'.size = ListParams(t).size,
         \A s \in Scheds : HasNode(t, s)' => ListOf(s)' = ListOfPthread(t),
         Cached(ListParams(t)', MayTake(t)'), Taken(t)' \subseteq Cacheable(t)',
         pc'[t] = "execute" => schedulers'[t].wid = local'[t],
         \A n \in Wids : Runs(t, n)' => schedulers'[t].wid = n,
         NEW l, l = ListOfPthread(t),
         ListParams(t)'.state = "FINISHED" \/ pc'[t] \in {"leave", "gone"} => Complete(l)',
         pc'[t] # "lost"
  PROVE  ThreadInv(t)'
<1>1. ThreadInv(t) /\ schedulers[t].clid \in Clids /\ l \in Lists
  BY LibInvHas, SchedulerIs, ListTyped DEF ThreadsInv
<1>2. ListOfPthread(t)' = l
  BY DEF ListOfPthread
<1>3. ListKnown(schedulers[t].clid)'
  BY <1>1 DEF ListKnown, ThreadInv
<1>4. ListParams(t)'.size = comp_list'[l].worker_count
  BY <1>1 DEF ThreadInv, OnlyFor, Steady
<1>5. ListParams(t)'.state = "FINISHED" \/ pc'[t] \in {"leave", "gone"}
        => Complete(ListOfPthread(t))'
  BY <1>2, CompleteThen
<1> QED
  BY <1>2, <1>3, <1>4, <1>5 DEF ThreadInv

\* What every request of a scheduler's code has to go on.
LEMMA AsksFrom ==
  ASSUME LibInv, ~ undef, main # "gone", NEW t \in Pthreads, pc[t] \in Calls
  PROVE  /\ Created(t) /\ ThreadInv(t) /\ Managed(Main)
         /\ \E s \in Scheds :
              /\ RunBy(s, t) /\ HasNode(t, s) /\ ~ Names(s)
              /\ ListOf(s) = ListOfPthread(t) /\ comp_list[ListOf(s)].state = "RUNNING"
         /\ \A n \in Wids : ~ Runs(t, n)
<1>1. PICK s \in Scheds : /\ RunBy(s, t) /\ HasNode(t, s) /\ regs[t] = SchedCtx(s)
                          /\ ~ Names(s) /\ HostKnown(s)
  BY CallsAreSchedulerCode, LibInvHas
<1>2. Created(t)
  BY DEF Created, Calls
<1>3. ThreadInv(t)
  BY <1>2, LibInvHas DEF ThreadsInv
<1>4. Managed(Main)
  BY <1>2, LibInvHas DEF SetupInv
<1>5. \A n \in Wids : ~ Runs(t, n)
  BY <1>1 DEF Runs, SchedCtx, WorkerCtx
<1> QED
  BY <1>1, <1>2, <1>3, <1>4, <1>5 DEF ThreadInv, HostKnown

LEMMA AskMoves ==
  ASSUME LibInv, Faults = {}, ~ undef, main # "gone", NEW t \in Pthreads, LibAsk(t)
  PROVE  Moves(t) /\ ThreadInv(t)'
<1> PICK list \in ListRecords : list = ListParams(t) /\ list = schedulers[t].list
  BY LibInvHas, SchedulerIs
<1>1. /\ pc[t] = "ask" /\ DequeueCompletionListItems(t) /\ main' = main
      /\ completion_lists' = completion_lists /\ workers' = workers /\ local' = local
  BY DEF LibAsk, Ioctl
<1>2. Created(t) /\ ThreadInv(t) /\ Managed(Main) /\ \A n \in Wids : ~ Runs(t, n)
  BY <1>1, AsksFrom DEF Calls
<1>3. PICK s \in Scheds : /\ RunBy(s, t) /\ HasNode(t, s) /\ ListOf(s) = ListOfPthread(t)
                          /\ comp_list[ListOf(s)].state = "RUNNING"
  BY <1>1, AsksFrom DEF Calls
<1> PICK l \in Lists : l = ListOfPthread(t)
  BY LibInvHas, ListTyped
<1>4. /\ Untouched /\ reply'.task = t /\ reply'.err = "SUCCESS"
      /\ reply'.state = DequeueState(comp_list[l])
      /\ reply'.wids = comp_list[l].idle_list
  BY <1>1, <1>2, <1>3, AskDoes
<1> PICK wids : wids = reply'.wids
  OBVIOUS
<1> PICK next : next = [list EXCEPT !.state = reply'.state, !.worker_count = Len(wids),
                                    !.workers = Overwritten(list, wids)]
  OBVIOUS
<1>5. /\ schedulers' = [schedulers EXCEPT ![t].list = next]
      /\ pc' = [pc EXCEPT ![t] = "told"]
  <2>1. schedulers' = [schedulers EXCEPT ![t].list =
               [@ EXCEPT !.state = reply'.state, !.worker_count = Len(reply'.wids),
                         !.workers = Overwritten(ListParams(t), reply'.wids)]]
        /\ pc' = [pc EXCEPT ![t] = "told"]
    BY <1>4 DEF LibAsk, Negative
  <2> QED
    BY <2>1, LibInvHas DEF LibTypeOK
<1>6. pc'[t] = "told" /\ \A u \in Pthreads : u # t => pc'[u] = pc[u]
  BY <1>5, LibInvHas, LibFunctions
<1>7. /\ schedulers'[t].clid = schedulers[t].clid /\ ListParams(t)' = next
      /\ \A u \in Pthreads : u # t => schedulers'[u] = schedulers[u]
  <2>1. schedulers[t] \in SchedulerRecords
    BY LibInvHas, SchedulerIs
  <2> QED
    BY <1>5, <2>1, LibInvHas DEF ListParams, LibTypeOK, SchedulerRecords
<1>8. next.size = list.size /\ next.state = reply'.state
  <2>1. PICK k \in Nat : list \in [size : {k}, worker_count : Int,
                                   state : States \cup {"NONE"},
                                   workers : [1 .. k -> Wids \cup {NoId}]]
    BY DEF ListRecords
  <2> QED
    BY <2>1
<1>9. /\ wids \in Seq(Wids) /\ IsInjective(wids) /\ Len(wids) <= list.size
      /\ ToSet(wids) = MembersIn(l, {"IDLE"})
  <2>1. wids \in Seq(Wids)
    BY <1>4, LibInvHas DEF TypeOK, ListNodes
  <2>2. IsInjective(wids) /\ ToSet(wids) = MembersIn(l, {"IDLE"})
    BY <1>4, LibInvHas DEF ListInv, ListPartition
  <2>3. Len(wids) <= comp_list[l].worker_count
    BY <1>4, LibInvHas, CountersTell
  <2> QED
    BY <1>2, <2>1, <2>2, <2>3 DEF ThreadInv
<1>10. Cached(next, MembersIn(l, {"IDLE"}))
  BY <1>9, CachedAnswer
<1>11. /\ OnlyFor(t) /\ Cacheable(t)' = Cacheable(t)
       /\ \A s1 \in Scheds : HasNode(t, s1)' => ListOf(s1)' = ListOfPthread(t)
  BY <1>2, <1>4, <1>7, UntouchedIsOnly DEF ThreadInv
<1>12. Taken(t)' = {} /\ MayTake(t)' = Cacheable(t)
  BY <1>6, <1>11 DEF Taken, MayTake
<1>13. Cached(ListParams(t)', MayTake(t)')
  <2>1. MembersIn(l, {"IDLE"}) \subseteq Cacheable(t)
    BY DEF Cacheable, MembersIn
  <2> QED
    BY <1>7, <1>10, <1>12, <2>1, CachedSame
<1>14. next.state = "FINISHED" => Complete(l)'
  <2>1. next.state = "FINISHED" => MembersIn(l, {"IDLE", "RUNNING"}) = {}
    BY <1>4, <1>8, LibInvHas, CountersTell
  <2>2. next.state = "FINISHED" => Complete(l)
    BY <1>3, <2>1 DEF Complete
  <2> QED
    BY <1>4, <2>2 DEF Untouched, Complete, MembersIn, Members, WorkerExists
<1>15. Moves(t)
  BY <1>1, <1>2, <1>4, <1>6, <1>7, <1>11 DEF Moves, WorkerKnown
<1>16. \A n \in Wids : ~ Runs(t, n)'
  BY <1>2, <1>4 DEF Untouched, Runs
<1>17. ThreadInv(t)'
  BY <1>1, <1>2, <1>6, <1>7, <1>8, <1>11, <1>12, <1>13, <1>14, <1>16, AskedThread
<1> QED
  BY <1>15, <1>17

LEMMA LeaveMoves ==
  ASSUME LibInv, ~ undef, main # "gone", NEW t \in Pthreads, LibExitSchedulingMode(t),
         \A l \in Lists : Complete(l) => Complete(l)'
  PROVE  Moves(t) /\ ThreadInv(t)'
<1>1. /\ pc[t] = "leave" /\ ExitSchedulingMode(t) /\ main' = main
      /\ completion_lists' = completion_lists /\ workers' = workers /\ local' = local
      /\ schedulers' = schedulers
      /\ pc' = [pc EXCEPT ![t] = IF reply'.err = "SUCCESS" THEN "gone" ELSE "lost"]
  BY DEF LibExitSchedulingMode, Ioctl
<1>2. Created(t) /\ ThreadInv(t) /\ Managed(Main)
  BY <1>1, AsksFrom DEF Calls
<1>3. PICK s \in Scheds : HasNode(t, s) /\ Quit(t, s)
  BY <1>1, <1>2, LeaveDoes, LibInvHas DEF Calls
<1> PICK l \in Lists : l = ListOfPthread(t)
  BY LibInvHas, ListTyped
<1>4. pc'[t] = "gone" /\ \A u \in Pthreads : u # t => pc'[u] = pc[u]
  BY <1>1, <1>3, LibInvHas, LibFunctions DEF Quit
<1>5. /\ OnlyFor(t)
      /\ \A r \in Scheds : HasNode(t, r)' => ListOf(r)' = ListOfPthread(t)
  BY <1>2, <1>3, ChangesAreOnly DEF Quit, ThreadInv
<1>6. worker' = worker /\ process' = process /\ regs'[t] = Own(t)
  BY <1>3 DEF Quit, NodeChanges
<1>7. Taken(t) = {} /\ Taken(t)' = {} /\ ListParams(t)' = ListParams(t)
  BY <1>1, <1>4 DEF Taken, ListParams
<1>8. Cacheable(t)' = Cacheable(t)
  BY <1>1, <1>6 DEF Cacheable, IsShared, ListOfPthread, MembersIn, Members, WorkerExists
<1>9. Cached(ListParams(t)', MayTake(t)')
  BY <1>2, <1>7, <1>8 DEF ThreadInv, MayTake
<1>10. \A n \in Wids : ~ Runs(t, n)'
  BY <1>6 DEF Runs, Own, WorkerCtx
<1>11. Complete(l)'
  BY <1>1, <1>2 DEF ThreadInv
<1>12. Moves(t)
  BY <1>1, <1>2, <1>3, <1>4, <1>5 DEF Moves, WorkerKnown, Quit
<1>13. ThreadInv(t)'
  BY <1>1, <1>2, <1>4, <1>5, <1>7, <1>9, <1>10, <1>11, AskedThread
<1> QED
  BY <1>12, <1>13

\* What stays a worker of t's list, or idle there, may stay in its cache.
LEMMA CacheableAfter ==
  ASSUME LibInv, NEW t \in Pthreads, Steady, schedulers'[t].clid = schedulers[t].clid,
         NEW n \in Wids, NEW node, Replaced(<<Main, n>>, node)
  PROVE  Cacheable(t) \ {n} \subseteq Cacheable(t)'
<1> PICK l \in Lists : l = ListOfPthread(t) /\ l = <<Main, schedulers[t].clid>>
  BY LibInvHas, ListTyped
<1>1. ListOfPthread(t)' = l /\ (IsShared(t)' <=> IsShared(t))
  BY DEF ListOfPthread, IsShared
<1>2. Members(l)' = Members(l)
  BY SteadyMembers
<1>3. MembersIn(l, {"IDLE"}) \ {n} \subseteq MembersIn(l, {"IDLE"})'
  <2>1. <<Main, n>> \in Workers
    BY OneMain DEF Workers
  <2> QED
    BY <2>1, MembersOfChanged, LibInvHas
<1>4. CASE IsShared(t)
  BY <1>1, <1>2, <1>4 DEF Cacheable, Members, WorkerExists
<1>5. CASE ~ IsShared(t)
  BY <1>1, <1>3, <1>5 DEF Cacheable, MembersIn, Members, WorkerExists
<1> QED
  BY <1>4, <1>5

LEMMA ExecuteMoves ==
  ASSUME LibInv, ~ undef, main # "gone", NEW t \in Pthreads, NEW wid \in Wids,
         LibExecute(t, wid), \A l \in Lists : Complete(l) => Complete(l)'
  PROVE  Moves(t) /\ ThreadInv(t)'
<1>1. /\ pc[t] = "execute" /\ wid = local[t] /\ ExecuteThread(t, wid) /\ main' = main
      /\ completion_lists' = completion_lists /\ workers' = workers /\ local' = local
      /\ schedulers' = schedulers /\ pc' = [pc EXCEPT ![t] = "dequeue"]
  BY DEF LibExecute, Ioctl
<1>2. Created(t) /\ ThreadInv(t) /\ Managed(Main) /\ \A n \in Wids : ~ Runs(t, n)
  BY <1>1, AsksFrom DEF Calls
<1>3. PICK s \in Scheds :
        /\ HasNode(t, s)
        /\ \/ Refused(t) /\ (Managed(Main) => wid \notin MembersIn(ListOf(s), {"IDLE"}))
           \/ Took(t, s, wid)
  BY <1>1, ExecuteDoes, LibInvHas DEF Calls
<1> PICK l \in Lists : l = ListOfPthread(t)
  BY LibInvHas, ListTyped
<1>4. ListOf(s) = l
  BY <1>2, <1>3 DEF ThreadInv
<1>5. pc'[t] = "dequeue" /\ \A u \in Pthreads : u # t => pc'[u] = pc[u]
  BY <1>1, LibInvHas, LibFunctions
<1>6. /\ Taken(t) = {wid} /\ Taken(t)' = {} /\ ListParams(t)' = ListParams(t)
      /\ schedulers[t].wid = wid /\ wid \in Cacheable(t)
      /\ Cached(ListParams(t), Cacheable(t) \ {wid})
  <2>1. Taken(t) = {wid} /\ Taken(t)' = {} /\ ListParams(t)' = ListParams(t)
    BY <1>1, <1>5 DEF Taken, ListParams
  <2>2. MayTake(t) = Cacheable(t) \ {wid}
    BY <2>1 DEF MayTake
  <2>3. Cached(ListParams(t), Cacheable(t) \ {wid})
    BY <1>2, <2>2 DEF ThreadInv
  <2> QED
    BY <1>1, <1>2, <2>1, <2>3 DEF ThreadInv
<1>7. ListParams(t)'.state = "FINISHED" => Complete(l)'
  BY <1>2, <1>6 DEF ThreadInv
<1>8. ASSUME OnlyFor(t), \A r \in Scheds : (HasNode(t, r)' <=> HasNode(t, r)) /\ ListOf(r)' = ListOf(r),
             Cacheable(t) \ {wid} \subseteq Cacheable(t)',
             (reply'.task = t /\ (reply'.err = "SUCCESS" \/ IsShared(t))) \/ reply' = reply,
             \A n \in Wids : Runs(t, n)' => n = wid
      PROVE  Moves(t) /\ ThreadInv(t)'
  <2>1. Moves(t)
    BY <1>1, <1>2, <1>5, <1>8 DEF Moves, WorkerKnown
  <2>2. MayTake(t)' = Cacheable(t)'
    BY <1>6 DEF MayTake
  <2>3. Cached(ListParams(t)', MayTake(t)')
    BY <1>6, <1>8, <2>2, CachedSame
  <2>4. \A r \in Scheds : HasNode(t, r)' => ListOf(r)' = ListOfPthread(t)
    BY <1>2, <1>8 DEF ThreadInv
  <2>5. ThreadInv(t)'
    BY <1>1, <1>2, <1>5, <1>6, <1>7, <1>8, <2>3, <2>4, AskedThread
  <2> QED
    BY <2>1, <2>5
<1>9. CASE Refused(t) /\ wid \notin MembersIn(l, {"IDLE"})
  <2>1. IsShared(t)
    BY <1>6, <1>9 DEF Cacheable
  <2>2. /\ OnlyFor(t) /\ Cacheable(t)' = Cacheable(t)
        /\ \A r \in Scheds : (HasNode(t, r)' <=> HasNode(t, r)) /\ ListOf(r)' = ListOf(r)
    BY <1>1, <1>9, UntouchedIsOnly DEF Refused
  <2>3. \A n \in Wids : ~ Runs(t, n)'
    BY <1>2, <1>9 DEF Refused, Untouched, Runs
  <2>4. reply'.task = t \/ reply' = reply
    BY <1>9 DEF Refused
  <2> QED
    BY <1>8, <2>1, <2>2, <2>3, <2>4
<1>10. CASE Took(t, s, wid)
  <2>1. /\ NodeChanges(t, s) /\ wid \in Members(l) /\ wid \in Wids
        /\ Replaced(<<Main, wid>>, worker'[<<Main, wid>>])
        /\ regs'[t] = WorkerCtx(<<Main, wid>>)
        /\ reply'.task = t /\ reply'.err = "SUCCESS"
    BY <1>4, <1>10 DEF Took, MembersIn
  <2>2. /\ OnlyFor(t)
        /\ \A r \in Scheds : (HasNode(t, r)' <=> HasNode(t, r)) /\ ListOf(r)' = ListOf(r)
    BY <1>3, <2>1, ChangesAreOnly
  <2>3. Cacheable(t) \ {wid} \subseteq Cacheable(t)'
    BY <1>1, <2>1, <2>2, CacheableAfter DEF OnlyFor
  <2>4. \A n \in Wids : Runs(t, n)' => n = wid
    BY <2>1 DEF Runs, WorkerCtx
  <2> QED
    BY <1>8, <2>1, <2>2, <2>3, <2>4
<1> QED
  BY <1>2, <1>3, <1>4, <1>9, <1>10

LEMMA YieldMoves ==
  ASSUME LibInv, ~ undef, main # "gone", NEW t \in Pthreads, NEW n \in Wids,
         LibYield(t, n), \A l \in Lists : Complete(l) => Complete(l)'
  PROVE  Moves(t) /\ ThreadInv(t)'
<1>1. /\ Runs(t, n) /\ ThreadYield(t, StatusOf(n)) /\ StatusOf(n) \in {"PAUSE", "FINISH"}
      /\ main' = main
      /\ completion_lists' = completion_lists /\ workers' = workers /\ local' = local
      /\ schedulers' = schedulers /\ pc' = pc
  BY DEF LibYield, Ioctl, StatusOf
<1>2. /\ Created(t) /\ pc[t] = "dequeue"
      /\ n \in MembersIn(ListOfPthread(t), {"RUNNING"})
      /\ \E r \in Scheds : HasNode(t, r)
  BY <1>1, RunsHas
<1>3. ThreadInv(t) /\ Managed(Main)
  BY <1>2, LibInvHas DEF ThreadsInv, SetupInv
<1>4. PICK s \in Scheds : HasNode(t, s) /\ Gave(t, s, n, StatusOf(n))
  BY <1>1, <1>2, <1>3, YieldDoes, LibInvHas
<1> PICK l \in Lists : l = ListOfPthread(t)
  BY LibInvHas, ListTyped
<1>5. /\ NodeChanges(t, s) /\ n \in Members(l) /\ worker[<<Main, n>>].state = "RUNNING"
      /\ Replaced(<<Main, n>>, worker'[<<Main, n>>])
      /\ regs'[t] = SchedCtx(s)
      /\ reply'.task = t /\ reply'.err = "SUCCESS"
  BY <1>2, <1>4 DEF Gave, MembersIn, ListOfPthread
<1>6. /\ OnlyFor(t)
      /\ \A r \in Scheds : HasNode(t, r)' => ListOf(r)' = ListOfPthread(t)
  BY <1>3, <1>4, <1>5, ChangesAreOnly DEF ThreadInv
<1>7. Taken(t) = {} /\ Taken(t)' = {} /\ ListParams(t)' = ListParams(t)
  BY <1>1, <1>2 DEF Taken, ListParams
<1>8. Cacheable(t) \subseteq Cacheable(t)'
  <2>1. CASE IsShared(t)
    <3>1. Members(l)' = Members(l)
      BY <1>6, LibInvHas, ListTyped, SteadyMembers DEF OnlyFor
    <3> QED
      BY <1>1, <2>1, <3>1 DEF Cacheable, IsShared, ListOfPthread, Members, WorkerExists
  <2>2. CASE ~ IsShared(t)
    <3>1. n \notin Cacheable(t)
      BY <1>5, <2>2 DEF Cacheable, MembersIn, ListOfPthread
    <3>2. Cacheable(t) \ {n} \subseteq Cacheable(t)'
      BY <1>1, <1>5, <1>6, CacheableAfter DEF OnlyFor
    <3> QED
      BY <3>1, <3>2
  <2> QED
    BY <2>1, <2>2
<1>9. Cached(ListParams(t)', MayTake(t)')
  <2>1. MayTake(t) \subseteq MayTake(t)'
    BY <1>7, <1>8 DEF MayTake
  <2> QED
    BY <1>3, <1>7, <2>1, CachedSame DEF ThreadInv
<1>10. \A k \in Wids : ~ Runs(t, k)'
  BY <1>5 DEF Runs, SchedCtx, WorkerCtx
<1>11. ListParams(t)'.state = "FINISHED" => Complete(l)'
  BY <1>3, <1>7 DEF ThreadInv
<1>12. Moves(t)
  BY <1>1, <1>2, <1>5, <1>6 DEF Moves, WorkerKnown, Created
<1>13. ThreadInv(t)'
  BY <1>1, <1>2, <1>6, <1>7, <1>9, <1>10, <1>11, AskedThread
<1> QED
  BY <1>12, <1>13

LEMMA EnterMoves ==
  ASSUME LibInv, Faults = {}, ~ undef, main # "gone", NEW t \in Pthreads,
         LibEnterSchedulingMode(t), \A l \in Lists : Complete(l) => Complete(l)'
  PROVE  Moves(t) /\ ThreadInv(t)'
<1> PICK c \in Clids : c = schedulers[t].clid
  BY LibInvHas, SchedulerIs
<1>1. /\ pc[t] = "enter" /\ EnterSchedulingMode(t, c) /\ main' = main
      /\ completion_lists' = completion_lists /\ workers' = workers /\ local' = local
      /\ schedulers' = schedulers
      /\ pc' = [pc EXCEPT ![t] = IF reply'.err = "SUCCESS" THEN "dequeue" ELSE "gone"]
  BY DEF LibEnterSchedulingMode, Ioctl
<1>2. Created(t) /\ ThreadInv(t) /\ Managed(Main) /\ process[Main].proc_entry # "partial"
  BY <1>1, LibInvHas DEF Created, ThreadsInv, SetupInv
<1>3. \A s \in Scheds : ~ HasNode(t, s)
  BY <1>1, LibInvHas DEF FlowInv, AllPlaced, Placed
<1> PICK l \in Lists : l = ListOfPthread(t) /\ l = <<Main, c>>
  BY LibInvHas, ListTyped
<1>4. ListExists(l) /\ Tgid[t] = Main
  BY <1>2, LibInvHas, OneMain DEF ThreadInv, RecordsInv
<1>5. AddScheduler(t, c)
  BY <1>1, <1>2, <1>4 DEF EnterSchedulingMode
<1>6. PICK s : Added(t, c, s)
  <2>1. ~ Refused(t)
    <3>1. reply'.err = "SUCCESS" /\ undef' = undef
      BY <1>5 DEF AddScheduler, Return, ReplyTo
    <3> QED
      BY <3>1 DEF Refused
  <2> QED
    BY <1>1, <2>1, EnterDoes, LibInvHas DEF SoundFaults
<1>7. pc'[t] = "dequeue" /\ \A u \in Pthreads : u # t => pc'[u] = pc[u]
  <2>1. pc' = [pc EXCEPT ![t] = "dequeue"]
    BY <1>1, <1>6 DEF Added
  <2> QED
    BY <2>1, LibInvHas, LibFunctions
<1>8. /\ worker' = worker /\ regs'[t] = SchedCtx(s)
      /\ reply'.task = t /\ reply'.err = "SUCCESS"
  BY <1>6 DEF Added
<1>9. OnlyFor(t)
  <2>1. /\ process'[Main].state = process[Main].state
        /\ process'[Main].proc_entry = process[Main].proc_entry
        /\ process'[Main].worker_count = process[Main].worker_count
        /\ process'[Main].list_count = process[Main].list_count
    <3>1. process[Main] \in ProcessNodes /\ DOMAIN process = Tasks
      BY OneMain, LibInvHas DEF TypeOK
    <3>2. process'[Main] = [process[Main] EXCEPT !.schedulers = @ + 1, !.scheduler_count = @ + 1]
      BY <1>6, <3>1, OneMain DEF Added
    <3> QED
      BY <3>1, <3>2 DEF ProcessNodes
  <2>2. \A m \in Lists : comp_list'[m].worker_count = comp_list[m].worker_count
    BY <1>6, LibInvHas DEF Added, TypeOK, ListNodes
  <2>3. Steady
    BY <1>8, <2>1, <2>2 DEF Steady
  <2>4. \A u \in Pthreads : u # t => SameFor(u)
    BY <1>6, AddedSame
  <2> QED
    BY <1>8, <2>3, <2>4 DEF OnlyFor
<1>10. \A r \in Scheds : HasNode(t, r)' => ListOf(r)' = ListOfPthread(t)
  <2>1. \A r \in Scheds : HasNode(t, r)' => r = s
    BY <1>3, <1>6, AddedSame
  <2>2. ListOf(s)' = l
    BY <1>6 DEF Added
  <2> QED
    BY <2>1, <2>2
<1>11. Taken(t) = {} /\ Taken(t)' = {} /\ ListParams(t)' = ListParams(t)
  BY <1>1, <1>7 DEF Taken, ListParams
<1>12. Cacheable(t)' = Cacheable(t)
  <2>1. Members(l)' = Members(l)
    BY <1>9, SteadyMembers DEF OnlyFor
  <2>2. MembersIn(l, {"IDLE"})' = MembersIn(l, {"IDLE"})
    BY <1>8, <2>1 DEF MembersIn
  <2>3. (IsShared(t)' <=> IsShared(t)) /\ ListOfPthread(t)' = l
    BY <1>1 DEF IsShared, ListOfPthread
  <2>4. CASE IsShared(t)
    BY <2>1, <2>3, <2>4 DEF Cacheable, Members, WorkerExists
  <2>5. CASE ~ IsShared(t)
    BY <2>2, <2>3, <2>5 DEF Cacheable, MembersIn, Members, WorkerExists
  <2> QED
    BY <2>4, <2>5
<1>13. Cached(ListParams(t)', MayTake(t)')
  BY <1>2, <1>11, <1>12 DEF ThreadInv, MayTake
<1>14. \A n \in Wids : ~ Runs(t, n)'
  BY <1>8 DEF Runs, SchedCtx, WorkerCtx
<1>15. ListParams(t)'.state = "FINISHED" => Complete(l)'
  BY <1>2, <1>11 DEF ThreadInv
<1>16. Moves(t)
  BY <1>1, <1>2, <1>7, <1>8, <1>9 DEF Moves, WorkerKnown
<1>17. ThreadInv(t)'
  BY <1>1, <1>2, <1>7, <1>9, <1>10, <1>11, <1>13, <1>14, <1>15, AskedThread
<1> QED
  BY <1>16, <1>17

-----------------------------------------------------------------------------
(* The steps of the main thread *)

LEMMA MainReply ==
  ASSUME LibInv, reply' = reply \/ reply'.task = Main, pc' = pc, schedulers' = schedulers
  PROVE  ReplyInv'
BY OneMain, LibInvHas DEF ReplyInv, Created, IsShared

LEMMA NobodyCreated ==
  ASSUME \A t \in Pthreads : ~ Created(t), pc' = pc
  PROVE  ThreadsInv' /\ ListsAreOwn'
BY DEF ThreadsInv, ListsAreOwn, Created

LEMMA FinishedStill ==
  ASSUME LibInv,
         \A c \in Clids : completion_lists'[c].state = "FINISHED" =>
                            completion_lists[c].state = "FINISHED",
         \A l \in Lists : Complete(l) => Complete(l)'
  PROVE  FinishedInv'
<1>1. \A c \in Clids : <<Main, c>> \in Lists
  BY OneMain DEF Lists
<1>2. ASSUME NEW c \in Clids, completion_lists'[c].state = "FINISHED"
      PROVE  Complete(<<Main, c>>)'
  <2>1. Complete(<<Main, c>>)
    BY <1>2, LibInvHas DEF FinishedInv
  <2> QED
    BY <1>1, <2>1
<1> QED
  BY <1>2 DEF FinishedInv

LEMMA EnterKeeps ==
  ASSUME LibInv, Faults = {}, LibEnter, FlowInv',
         \A l \in Lists : Complete(l) => Complete(l)'
  PROVE  LibInv'
<1>1. /\ main = "start" /\ EnterUms(Main) /\ main' = "setup"
      /\ completion_lists' = completion_lists /\ workers' = workers
      /\ schedulers' = schedulers /\ pc' = pc
  BY DEF LibEnter, Ioctl
<1>2. /\ \A t \in Pthreads : ~ Created(t)
      /\ process[Main].proc_entry # "partial"
      /\ process[Main] \in ProcessNodes /\ process \in [Tasks -> ProcessNodes]
  BY <1>1, OneMain, LibInvHas DEF SetupInv, TypeOK
<1>3. /\ comp_list' = comp_list /\ worker' = worker
      /\ reply'.task = Main
      /\ Managed(Main)' /\ process'[Main].proc_entry # "partial"
      /\ process'[Main].worker_count = process[Main].worker_count
      /\ process'[Main].list_count = process[Main].list_count
  BY <1>1, <1>2, OneMain DEF EnterUms, Fail, Return, ReplyTo, Managed, ProcessNodes
<1>4. SetupInv'
  BY <1>1, <1>3 DEF SetupInv
<1>5. RecordsInv'
  <2>1. /\ \A c \in Clids : (ListKnown(c)' <=> ListKnown(c))
                            /\ (ListExists(<<Main, c>>)' <=> ListExists(<<Main, c>>))
        /\ \A n \in Wids : (WorkerKnown(n)' <=> WorkerKnown(n))
                           /\ (WorkerExists(<<Main, n>>)' <=> WorkerExists(<<Main, n>>))
    BY <1>1, <1>3 DEF ListKnown, ListExists, WorkerKnown, WorkerExists
  <2> QED
    BY <1>1, <1>3, <2>1, LibInvHas DEF RecordsInv, Unrecorded
<1>6. ThreadsInv' /\ ListsAreOwn' /\ ReplyInv'
  BY <1>1, <1>2, <1>3, NobodyCreated, MainReply
<1>7. FinishedInv'
  BY <1>1, FinishedStill
<1> QED
  BY <1>4, <1>5, <1>6, <1>7 DEF LibInv

\* A new list is none of those that are used.
LEMMA NewListKeeps ==
  ASSUME LibInv, LibCreateCompletionList, FlowInv',
         \A l \in Lists : Complete(l) => Complete(l)'
  PROVE  LibInv'
<1> PICK new \in Clids : new = process[Main].list_count
  <2>1. Managed(Main) /\ process[Main] \in ProcessNodes
    BY OneMain, LibInvHas DEF LibCreateCompletionList, SetupInv, TypeOK
  <2> QED
    BY <2>1, BoundsAssumption
       DEF LibCreateCompletionList, Ioctl, CreateCompletionList, ProcessNodes, Clids
<1>1. /\ main = "setup" /\ CreateCompletionList(Main) /\ main' = main /\ Managed(Main)
      /\ workers' = workers /\ schedulers' = schedulers /\ pc' = pc /\ local' = local
  BY LibInvHas DEF LibCreateCompletionList, Ioctl, SetupInv
<1>2. /\ process' = [process EXCEPT ![Main].list_count = @ + 1]
      /\ comp_list' = [comp_list EXCEPT ![<<Main, new>>] = EmptyList]
      /\ worker' = worker /\ scheduler' = scheduler /\ regs' = regs
      /\ reply'.task = Main /\ reply'.id = new
  BY <1>1 DEF CreateCompletionList, Return, ReplyTo
<1>3. /\ process'[Main].state = process[Main].state
      /\ process'[Main].proc_entry = process[Main].proc_entry
      /\ process'[Main].worker_count = process[Main].worker_count
      /\ process'[Main].list_count = new + 1
      /\ \A p \in Tasks : process'[p].schedulers = process[p].schedulers
  BY <1>2, OneMain, LibInvHas DEF TypeOK, ProcessNodes
<1>4. /\ completion_lists'[new] = [known |-> TRUE, state |-> "IDLE", worker_count |-> 0]
      /\ \A c \in Clids : c # new => completion_lists'[c] = completion_lists[c]
  BY <1>2, LibInvHas DEF LibCreateCompletionList, LibTypeOK
<1>5. /\ comp_list'[<<Main, new>>] = EmptyList
      /\ \A c \in Clids : c # new => comp_list'[<<Main, c>>] = comp_list[<<Main, c>>]
  BY <1>2, OneMain, LibInvHas DEF TypeOK, Lists
<1>6. \A c \in Clids : ListKnown(c) => c # new
  <2>1. \A c \in Clids : ListKnown(c) => c < process[Main].list_count
    BY LibInvHas DEF RecordsInv, ListExists
  <2>2. \A c \in Clids : c < new => c # new
    BY DEF Clids
  <2> QED
    BY <2>1, <2>2
<1>7. SetupInv'
  BY <1>1, <1>3, LibInvHas DEF SetupInv, Managed
<1>8. RecordsInv'
  <2>1. ASSUME NEW c \in Clids, ListKnown(c)'
        PROVE  ListExists(<<Main, c>>)'
               /\ comp_list'[<<Main, c>>].worker_count = completion_lists'[c].worker_count
    <3>1. CASE c = new
      <4>1. new < new + 1
        BY DEF Clids
      <4> QED
        BY <1>3, <1>4, <1>5, <3>1, <4>1 DEF ListExists, EmptyList
    <3>2. CASE c # new
      <4>1. ListKnown(c)
        BY <1>4, <2>1, <3>2 DEF ListKnown
      <4>2. ListExists(<<Main, c>>) /\ c \in Int /\ new \in Int
        BY <4>1, LibInvHas DEF RecordsInv, Clids
      <4>3. comp_list[<<Main, c>>].worker_count = completion_lists[c].worker_count
        <5>1. completion_lists[c].worker_count \in Nat
          BY LibInvHas DEF LibTypeOK, KnownLists
        <5> QED
          BY <1>1, <4>1, <5>1, LibInvHas DEF RecordsInv
      <4> QED
        BY <1>3, <1>4, <1>5, <3>2, <4>2, <4>3 DEF ListExists
    <3> QED
      BY <3>1, <3>2
  <2>2. \A n \in Wids : (WorkerKnown(n)' <=> WorkerKnown(n))
                        /\ (WorkerExists(<<Main, n>>)' <=> WorkerExists(<<Main, n>>))
    BY <1>1, <1>3 DEF WorkerKnown, WorkerExists
  <2>3. \A c \in Clids : completion_lists'[c].worker_count \in Nat
    BY DEF FlowInv, LibTypeOK, KnownLists
  <2> QED
    BY <1>1, <2>1, <2>2, <2>3, LibInvHas DEF RecordsInv, Unrecorded
<1>9. ThreadsInv'
  <2> SUFFICES ASSUME NEW t \in Pthreads, Created(t)
               PROVE  ThreadInv(t)'
    BY <1>1 DEF ThreadsInv, Created
  <2> PICK c \in Clids : c = schedulers[t].clid
    BY LibInvHas, SchedulerIs
  <2> PICK l \in Lists : l = ListOfPthread(t) /\ l = <<Main, c>>
    BY LibInvHas, ListTyped
  <2>1. c # new
    BY <1>1, <1>6, LibInvHas DEF ThreadsInv, ThreadInv
  <2>2. SameFor(t)
    BY <1>2, <1>3, MainSame
  <2>3. Cacheable(t)' = Cacheable(t)
    BY <1>1, <1>2, <1>3 DEF Cacheable, IsShared, ListOfPthread, MembersIn, Members, WorkerExists
  <2>4. /\ completion_lists'[c].known = completion_lists[c].known
        /\ comp_list'[l].worker_count = comp_list[l].worker_count
        /\ Complete(l) => Complete(l)'
    BY <1>4, <1>5, <2>1
  <2> QED
    BY <1>1, <2>2, <2>3, <2>4, ThreadKept
<1>10. ListsAreOwn'
  BY <1>1, LibInvHas DEF ListsAreOwn, Created, IsShared
<1>11. FinishedInv'
  <2>1. \A c \in Clids : completion_lists'[c].state = "FINISHED" =>
                           completion_lists[c].state = "FINISHED"
    BY <1>4
  <2> QED
    BY <2>1, FinishedStill
<1>12. ReplyInv'
  BY <1>1, <1>2, MainReply
<1> QED
  BY <1>7, <1>8, <1>9, <1>10, <1>11, <1>12 DEF LibInv

\* The kernel's counters are ahead of the library's by the worker not yet recorded.
\* When every service works, a request for a worker is refused or answered.
LEMMA NewWorkerIs ==
  ASSUME Faults = {}, NEW c \in Clids, LibCreateWorkerThread(c),
         Managed(Main), ListExists(<<Main, c>>)
  PROVE  /\ \/ Fail(Main, "COMPLETION_LIST_IS_USED_AND_CANNOT_BE_MODIFIED")
            \/ AddWorker(Main, c)
         /\ completion_lists' = completion_lists /\ workers' = workers
         /\ IF reply'.err = "SUCCESS"
            THEN /\ main' = "record"
                 /\ pauses' = [pauses EXCEPT ![reply'.id] = Pauses[c][reply'.id]]
            ELSE UNCHANGED <<main, pauses>>
<1>1. CreateWorkerThread(Main, c)
  BY DEF LibCreateWorkerThread, Ioctl
<1>2. \/ Fail(Main, "COMPLETION_LIST_IS_USED_AND_CANNOT_BE_MODIFIED")
      \/ AddWorker(Main, c)
  BY <1>1 DEF CreateWorkerThread
<1>3. reply'.err # "BYTES_NOT_COPIED"
  BY <1>2 DEF Fail, AddWorker, Return, ReplyTo
<1> QED
  BY <1>2, <1>3 DEF LibCreateWorkerThread, Negative

LEMMA NewWorkerKeeps ==
  ASSUME LibInv, Faults = {}, ~ LateWorkers, NEW c \in Clids, LibCreateWorkerThread(c), FlowInv',
         \A l \in Lists : Complete(l) => Complete(l)'
  PROVE  LibInv'
<1> PICK l \in Lists : l = <<Main, c>>
  BY OneMain DEF Lists
<1> PICK wid : wid = process[Main].worker_count
  OBVIOUS
<1>1. Managed(Main) /\ ListExists(l)
  BY LibInvHas DEF LibCreateWorkerThread, SetupInv, RecordsInv
<1>2. /\ main = "setup" /\ ListKnown(c) /\ CreateWorkerThread(Main, c)
      /\ completion_lists' = completion_lists /\ workers' = workers
      /\ schedulers' = schedulers /\ pc' = pc
      /\ main' = IF reply'.err = "SUCCESS" THEN "record" ELSE main
      /\ \A t \in Pthreads : ~ Created(t)
  BY <1>1, NewWorkerIs DEF LibCreateWorkerThread, Ioctl
<1>3. ThreadsInv' /\ ListsAreOwn' /\ FinishedInv'
  BY <1>2, NobodyCreated, FinishedStill
<1>4. \A k \in Clids : ListKnown(k)' <=> ListKnown(k)
  BY <1>2 DEF ListKnown
<1>5. \A n \in Wids : WorkerKnown(n)' <=> WorkerKnown(n)
  BY <1>2 DEF WorkerKnown
<1>6. CASE Fail(Main, "COMPLETION_LIST_IS_USED_AND_CANNOT_BE_MODIFIED")
  <2>1. /\ reply'.task = Main /\ reply'.err # "SUCCESS" /\ main' = main
        /\ process' = process /\ comp_list' = comp_list /\ worker' = worker
    BY <1>2, <1>6 DEF Fail, Return, ReplyTo
  <2>2. Steady
    BY <2>1 DEF Steady
  <2>3. SetupInv' /\ RecordsInv'
    BY <1>2, <1>5, <2>1, <2>2, SetupSteady, RecordsSteady, LibInvHas DEF Created
  <2>4. ReplyInv'
    BY <1>2, <2>1, MainReply
  <2> QED
    BY <1>3, <2>3, <2>4 DEF LibInv
<1>7. CASE AddWorker(Main, c)
  <2>1. /\ process' = [process EXCEPT ![Main].worker_count = @ + 1]
        /\ worker' = [worker EXCEPT ![<<Main, wid>>] =
             [state |-> "IDLE", clid |-> c, pid |-> NoId, sid |-> NoId,
              regs |-> WorkerEntry(<<Main, wid>>)]]
        /\ comp_list' = [comp_list EXCEPT ![l] = LinkIdle(@, wid)]
        /\ reply'.task = Main /\ reply'.err = "SUCCESS" /\ main' = "record"
    BY <1>2, <1>7 DEF AddWorker, Return, ReplyTo
  <2>2. wid \in Wids /\ ~ WorkerExists(<<Main, wid>>)
    BY <1>7, OneMain, AddWorkerMembers, LibInvHas
  <2>3. /\ process'[Main].state = process[Main].state
        /\ process'[Main].proc_entry = process[Main].proc_entry
        /\ process'[Main].worker_count = wid + 1
        /\ process'[Main].list_count = process[Main].list_count
    BY <2>1, OneMain, LibInvHas DEF TypeOK, ProcessNodes
  <2>4. worker'[<<Main, wid>>].clid = c
    BY <2>1, <2>2, OneMain, LibInvHas DEF TypeOK, Workers
  <2>5. \A m \in Lists : comp_list'[m].worker_count =
                            comp_list[m].worker_count + IF m = l THEN 1 ELSE 0
    <3>1. /\ comp_list \in [Lists -> ListNodes]
          /\ \A m \in Lists : comp_list[m] \in ListNodes /\ comp_list[m].worker_count \in Nat
      BY LibInvHas DEF TypeOK, ListNodes
    <3>2. \A m \in Lists : LinkIdle(comp_list[m], wid).worker_count = comp_list[m].worker_count + 1
      BY <3>1 DEF ListNodes, LinkIdle
    <3>3. \A m \in Lists : comp_list'[m] = IF m = l THEN LinkIdle(comp_list[m], wid)
                                                    ELSE comp_list[m]
      BY <2>1, <3>1
    <3> QED
      BY <3>1, <3>2, <3>3
  <2>6. /\ wid \in Nat /\ wid + 1 - 1 = wid /\ wid + 1 > 0
        /\ Newest' = wid
    BY <2>2, <2>3 DEF Wids, Newest
  <2>7. SetupInv'
    BY <1>2, <1>1, <2>1, <2>3, <2>6, LibInvHas DEF SetupInv, Managed, Created
  <2>8. ASSUME NEW k \in Clids, ListKnown(k)
        PROVE  /\ ListExists(<<Main, k>>)'
               /\ comp_list'[<<Main, k>>].worker_count =
                    completion_lists'[k].worker_count
                      + IF main' = "record" /\ worker'[<<Main, Newest'>>].clid = k
                        THEN 1 ELSE 0
    <3>1. <<Main, k>> \in Lists /\ (<<Main, k>> = l <=> c = k)
      BY OneMain DEF Lists
    <3>2. ListExists(<<Main, k>>)
          /\ comp_list[<<Main, k>>].worker_count = completion_lists[k].worker_count + 0
      BY <1>2, <2>8, LibInvHas DEF RecordsInv
    <3>3. completion_lists[k].worker_count \in Nat
      BY LibInvHas DEF LibTypeOK, KnownLists
    <3>4. comp_list'[<<Main, k>>].worker_count =
            completion_lists'[k].worker_count + IF c = k THEN 1 ELSE 0
      BY <1>2, <2>5, <3>1, <3>2, <3>3
    <3> QED
      BY <2>1, <2>3, <2>4, <2>6, <3>2, <3>4 DEF ListExists
  <2>9. ASSUME NEW n \in Wids
        PROVE  /\ WorkerExists(<<Main, n>>)' /\ ~ Unrecorded(n)' => WorkerKnown(n)
               /\ WorkerKnown(n) => WorkerExists(<<Main, n>>)'
    <3>1. WorkerExists(<<Main, n>>)' <=> WorkerExists(<<Main, n>>) \/ n = wid
      BY <2>3, <2>6 DEF WorkerExists, Wids
    <3>2. Unrecorded(n)' <=> n = wid
      BY <2>1, <2>6 DEF Unrecorded
    <3>3. WorkerExists(<<Main, n>>) <=> WorkerKnown(n)
      BY <1>2, LibInvHas DEF RecordsInv, Unrecorded
    <3> QED
      BY <3>1, <3>2, <3>3
  <2>10. RecordsInv'
    BY <1>4, <1>5, <2>8, <2>9 DEF RecordsInv
  <2>11. ReplyInv'
    BY <1>2, <2>1, MainReply
  <2> QED
    BY <1>3, <2>7, <2>10, <2>11 DEF LibInv
<1> QED
  BY <1>2, <1>1, <1>6, <1>7 DEF CreateWorkerThread

LEMMA RecordKeeps ==
  ASSUME LibInv, NEW n \in Wids, NEW c \in Clids, LibRecordWorker(n, c), FlowInv',
         \A l \in Lists : Complete(l) => Complete(l)'
  PROVE  LibInv'
<1>1. /\ main = "record" /\ n = Newest /\ c = worker[<<Main, n>>].clid /\ main' = "setup"
      /\ workers' = WithRecord(n)
      /\ completion_lists' = [completion_lists EXCEPT ![c] = Recorded(@)]
      /\ process' = process /\ comp_list' = comp_list /\ worker' = worker
      /\ reply' = reply /\ schedulers' = schedulers /\ pc' = pc
  BY DEF LibRecordWorker, vars, Newest
<1>2. Managed(Main) /\ \A t \in Pthreads : ~ Created(t)
  BY <1>1, LibInvHas DEF SetupInv
<1>3. \A k \in Clids :
        /\ completion_lists[k].worker_count \in Nat
        /\ completion_lists'[k].known = completion_lists[k].known
        /\ completion_lists'[k].state = completion_lists[k].state
        /\ completion_lists'[k].worker_count =
             completion_lists[k].worker_count + IF k = c THEN 1 ELSE 0
  <2>1. /\ completion_lists \in [Clids -> KnownLists]
        /\ \A k \in Clids : completion_lists[k] \in KnownLists
    BY LibInvHas DEF LibTypeOK
  <2> QED
    BY <1>1, <2>1 DEF Recorded, KnownLists
<1>4. SetupInv'
  BY <1>1, <1>2, LibInvHas DEF SetupInv, Managed
<1>5. \A k \in Clids : ListKnown(k)' =>
        /\ ListExists(<<Main, k>>)'
        /\ comp_list'[<<Main, k>>].worker_count = completion_lists'[k].worker_count + 0
  <2> SUFFICES ASSUME NEW k \in Clids, ListKnown(k)'
               PROVE  /\ ListExists(<<Main, k>>)'
                      /\ comp_list'[<<Main, k>>].worker_count =
                           completion_lists'[k].worker_count + 0
    OBVIOUS
  <2>1. ListKnown(k)
    BY <1>3 DEF ListKnown
  <2>2. /\ ListExists(<<Main, k>>)
        /\ comp_list[<<Main, k>>].worker_count =
             completion_lists[k].worker_count + IF c = k THEN 1 ELSE 0
    BY <1>1, <2>1, LibInvHas DEF RecordsInv
  <2>3. ListExists(<<Main, k>>)'
    BY <1>1, <2>2 DEF ListExists
  <2> QED
    BY <1>1, <1>3, <2>2, <2>3
<1>6. \A k \in Wids :
        /\ WorkerExists(<<Main, k>>)' => WorkerKnown(k)'
        /\ WorkerKnown(k)' => WorkerExists(<<Main, k>>)'
  <2>1. \A k \in Wids : WorkerKnown(k)' <=> WorkerKnown(k) \/ k = n
    BY <1>1, LibInvHas DEF WorkerKnown, WithRecord, LibTypeOK
  <2>2. \A k \in Wids : WorkerExists(<<Main, k>>)' <=> WorkerExists(<<Main, k>>)
    BY <1>1 DEF WorkerExists
  <2>3. WorkerExists(<<Main, n>>)
    BY <1>1, OneMain, LibInvHas DEF WorkerExists, Newest, SetupInv, TypeOK, ProcessNodes
  <2>4. \A k \in Wids : Unrecorded(k) <=> k = n
    BY <1>1 DEF Unrecorded
  <2> QED
    BY <1>1, <2>1, <2>2, <2>3, <2>4, LibInvHas DEF RecordsInv
<1>7. RecordsInv'
  BY <1>1, <1>5, <1>6 DEF RecordsInv
<1>8. ThreadsInv' /\ ListsAreOwn' /\ ReplyInv'
  BY <1>1, <1>2, NobodyCreated, MainReply
<1>9. FinishedInv'
  BY <1>3, FinishedStill
<1> QED
  BY <1>4, <1>7, <1>8, <1>9 DEF LibInv

LEMMA NewSchedulerKeeps ==
  ASSUME LibInv, ~ undef, FreshMemory = {"zero"}, NEW t \in Pthreads, NEW c \in Clids,
         LibCreateScheduler(t, c), FlowInv', \A l \in Lists : Complete(l) => Complete(l)'
  PROVE  LibInv'
<1> PICK list : list = NewListParams(completion_lists[c].worker_count, "zero")
  OBVIOUS
<1>1. /\ main = "setup" /\ ~ Created(t) /\ ListKnown(c) /\ UNCHANGED vars /\ main' = main
      /\ c \in SharedLists \/ \A u \in Pthreads : Created(u) => schedulers[u].clid # c
      /\ completion_lists' = completion_lists /\ workers' = workers /\ local' = local
      /\ schedulers' = [schedulers EXCEPT ![t] = [clid |-> c, wid |-> NoId, list |-> list]]
      /\ pc' = [pc EXCEPT ![t] = "enter"]
  BY DEF LibCreateScheduler
<1>2. /\ pc'[t] = "enter" /\ pc[t] = "none"
      /\ schedulers'[t] = [clid |-> c, wid |-> NoId, list |-> list]
      /\ \A u \in Pthreads : u # t =>
           schedulers'[u] = schedulers[u] /\ pc'[u] = pc[u] /\ local'[u] = local[u]
  BY <1>1, LibInvHas, LibFunctions DEF Created
<1>3. \A u \in Pthreads : Created(u)' <=> Created(u) \/ u = t
  BY <1>1, <1>2 DEF Created
<1>4. /\ comp_list' = comp_list /\ worker' = worker /\ process' = process
      /\ scheduler' = scheduler /\ regs' = regs /\ reply' = reply
  BY <1>1 DEF vars
<1>5. SetupInv'
  BY <1>1, <1>4, LibInvHas DEF SetupInv, Managed
<1>6. RecordsInv'
  <2>1. Steady
    BY <1>4 DEF Steady
  <2> QED
    BY <1>1, <2>1, RecordsSteady, LibInvHas DEF WorkerKnown
<1>7. ThreadInv(t)'
  <2> PICK l \in Lists : l = <<Main, c>>
    BY OneMain DEF Lists
  <2>1. ListOfPthread(t)' = l /\ ListParams(t)' = list /\ Taken(t)' = {}
    BY <1>2 DEF ListOfPthread, ListParams, Taken
  <2>2. completion_lists[c].worker_count \in Nat
    BY LibInvHas DEF LibTypeOK, KnownLists
  <2>3. list.size = completion_lists[c].worker_count /\ list.state = "IDLE"
    BY DEF NewListParams
  <2>4. comp_list[l].worker_count = completion_lists[c].worker_count
    BY <1>1, <2>2, LibInvHas DEF RecordsInv
  <2>5. Cached(list, MayTake(t)')
    BY <2>2, CachedFresh
  <2>6. regs[t] = Own(t) /\ \A s \in Scheds : ~ HasNode(t, s)
    BY <1>1, <1>2, LibInvHas DEF FlowInv, AllPlaced, Placed, LibCreateScheduler
  <2>7. \A s \in Scheds : ~ HasNode(t, s)'
    BY <1>4, <2>6 DEF HasNode, SchedExists
  <2>8. \A n \in Wids : ~ Runs(t, n)'
    BY <1>4, <2>6 DEF Runs, Own, WorkerCtx
  <2>9. ListKnown(schedulers[t].clid)'
    BY <1>1, <1>2 DEF ListKnown
  <2> QED
    BY <1>2, <1>4, <2>1, <2>3, <2>4, <2>5, <2>7, <2>8, <2>9 DEF ThreadInv
<1>8. ThreadsInv'
  <2> SUFFICES ASSUME NEW u \in Pthreads, Created(u), u # t
               PROVE  ThreadInv(u)'
    BY <1>3, <1>7 DEF ThreadsInv
  <2> PICK l : l = ListOfPthread(u)
    OBVIOUS
  <2>1. SameFor(u)
    BY <1>4, MainSame
  <2>2. Cacheable(u)' = Cacheable(u)
    <3>1. schedulers'[u] = schedulers[u]
      BY <1>2
    <3>2. IsShared(u)' <=> IsShared(u)
      BY <3>1 DEF IsShared
    <3>3. ListOfPthread(u)' = l
      BY <3>1 DEF ListOfPthread
    <3>4. Members(ListOfPthread(u))' = Members(l)
      BY <1>4, <3>3 DEF Members, WorkerExists
    <3>5. MembersIn(ListOfPthread(u), {"IDLE"})' = MembersIn(l, {"IDLE"})
      BY <1>4, <3>3, <3>4 DEF MembersIn
    <3> QED
      BY <3>2, <3>4, <3>5 DEF Cacheable
  <2>3. Complete(l) => Complete(l)'
    BY <1>4 DEF Complete, MembersIn, Members, WorkerExists
  <2> QED
    BY <1>1, <1>2, <1>4, <2>1, <2>2, <2>3, ThreadKept
<1>9. ListsAreOwn'
  <2> SUFFICES ASSUME NEW u \in Pthreads, NEW v \in Pthreads, u # v,
                      Created(u)', Created(v)', schedulers'[u].clid = schedulers'[v].clid
               PROVE  schedulers'[u].clid \in SharedLists
    BY DEF ListsAreOwn, IsShared
  <2>1. CASE u = t
    BY <1>1, <1>2, <1>3, <2>1
  <2>2. CASE v = t
    BY <1>1, <1>2, <1>3, <2>2
  <2>3. CASE u # t /\ v # t
    BY <1>1, <1>2, <1>3, <2>3, LibInvHas DEF ListsAreOwn, IsShared
  <2> QED
    BY <2>1, <2>2, <2>3
<1>10. FinishedInv'
  BY <1>1, FinishedStill
<1>11. ReplyInv'
  <2> PICK u : u = reply.task
    OBVIOUS
  <2> SUFFICES ASSUME u \in Pthreads
               PROVE  Created(u)' /\ (reply.err = "SUCCESS" \/ IsShared(u)')
    BY <1>4 DEF ReplyInv, Created, IsShared
  <2>1. Created(u) /\ (reply.err = "SUCCESS" \/ IsShared(u))
    BY LibInvHas DEF ReplyInv
  <2>2. u # t
    BY <1>1, <2>1
  <2> QED
    BY <1>2, <1>3, <2>1, <2>2 DEF IsShared
<1> QED
  BY <1>5, <1>6, <1>8, <1>9, <1>10, <1>11 DEF LibInv

LEMMA ExitKeeps ==
  ASSUME LibInv, LibExit, FlowInv', \A l \in Lists : Complete(l) => Complete(l)'
  PROVE  LibInv'
<1>1. /\ main = "setup" /\ SchedulersJoined /\ ExitUms(Main) /\ main' = "gone" /\ Cleanup
      /\ pc' = pc
  BY DEF LibExit, Ioctl
<1>2. Managed(Main) /\ process[Main] \in ProcessNodes
  BY <1>1, OneMain, LibInvHas DEF SetupInv, TypeOK
<1>3. /\ process'[Main] = [process[Main] EXCEPT !.state = "FINISHED"]
      /\ reply'.task = Main
  BY <1>1, <1>2, OneMain, LibInvHas DEF ExitUms, Return, ReplyTo, TypeOK
<1>4. Managed(Main)' /\ process'[Main].proc_entry = process[Main].proc_entry
  BY <1>2, <1>3 DEF Managed, ProcessNodes
<1>5. /\ \A c \in Clids : ~ ListKnown(c)' /\ completion_lists'[c].state # "FINISHED"
      /\ \A n \in Wids : ~ WorkerKnown(n)'
  BY <1>1 DEF Cleanup, ListKnown, WorkerKnown, NoList
<1>6. \A t \in Pthreads : pc'[t] \in {"none", "gone"}
  BY <1>1 DEF SchedulersJoined, Created
<1>7. SetupInv'
  BY <1>1, <1>4, <1>5, <1>6, LibInvHas DEF SetupInv
<1>8. RecordsInv'
  BY <1>1, <1>5 DEF RecordsInv
<1>9. ThreadsInv' /\ ListsAreOwn' /\ FinishedInv'
  BY <1>1, <1>5 DEF ThreadsInv, ListsAreOwn, FinishedInv
<1>10. ReplyInv'
  BY <1>3, OneMain DEF ReplyInv
<1> QED
  BY <1>7, <1>8, <1>9, <1>10 DEF LibInv

-----------------------------------------------------------------------------
(* Every step *)

LEMMA LibInitInv == LibInit => LibInv
<1> SUFFICES ASSUME LibInit PROVE LibInv
  OBVIOUS
<1>1. /\ main = "start" /\ \A t \in Pthreads : ~ Created(t)
      /\ \A c \in Clids : ~ ListKnown(c) /\ completion_lists[c].state # "FINISHED"
      /\ \A n \in Wids : ~ WorkerKnown(n)
  BY DEF LibInit, Created, ListKnown, NoList, WorkerKnown
<1>2. process[Main] = NoProcess /\ reply.task = NoId
  BY OneMain DEF LibInit, Init
<1>3. SetupInv
  BY <1>1, <1>2 DEF SetupInv, NoProcess
<1>4. RecordsInv
  BY <1>1, <1>2 DEF RecordsInv, WorkerExists, NoProcess, Wids
<1>5. ThreadsInv /\ ListsAreOwn /\ FinishedInv
  BY <1>1 DEF ThreadsInv, ListsAreOwn, FinishedInv
<1>6. ReplyInv
  BY <1>2, ClientAssumption DEF ReplyInv, Pthreads
<1> QED
  BY <1>3, <1>4, <1>5, <1>6, FlowInit DEF LibInv

\* A step of a pthread, whichever it is.
LEMMA PthreadMoves ==
  ASSUME LibInv, Faults = {}, ~ undef, main # "gone", NEW t \in Pthreads, PthreadStep(t),
         \A l \in Lists : Complete(l) => Complete(l)'
  PROVE  Moves(t) /\ ThreadInv(t)'
<1>1. CASE LibEnterSchedulingMode(t)
  BY <1>1, EnterMoves
<1>2. CASE LibDequeue(t)
  BY <1>2, DequeueMoves
<1>3. CASE LibAsk(t)
  BY <1>3, AskMoves
<1>4. CASE LibTold(t)
  BY <1>4, ToldMoves
<1>5. CASE LibNext(t)
  BY <1>5, NextMoves
<1>6. CASE \E n \in Wids : LibMark(t, n) \/ LibExecute(t, n)
  BY <1>6, MarkMoves, ExecuteMoves
<1>7. CASE LibExitSchedulingMode(t)
  BY <1>7, LeaveMoves
<1>8. CASE \E n \in Wids : LibMarkYield(t, n) \/ LibYield(t, n)
  BY <1>8, MarkYieldMoves, YieldMoves
<1> QED
  BY <1>1, <1>2, <1>3, <1>4, <1>5, <1>6, <1>7, <1>8 DEF PthreadStep

LEMMA LibStep ==
  ASSUME LibInv, Calm, [LibNextStep]_all
  PROVE  LibInv'
<1>1. FlowInv' /\ [ClientNext]_vars
  BY FlowStep, LibInvHas DEF Calm, SoundFaults
<1>2. \A l \in Lists : Complete(l) => Complete(l)'
  <2>1. [Next]_vars
    BY <1>1, ClientIssuesRequests
  <2> QED
    BY <2>1, CountStep, LibInvHas
<1>3. CASE UNCHANGED all
  BY <1>1, <1>3, LibInvSame
<1>4. CASE Terminated
  BY <1>1, <1>4, LibInvSame DEF Terminated
<1>5. CASE ~ undef /\ MainStep
  <2>1. CASE LibEnter
    BY <1>1, <1>2, <2>1, EnterKeeps DEF Calm
  <2>2. CASE LibCreateCompletionList
    BY <1>1, <1>2, <2>2, NewListKeeps
  <2>3. CASE \E c \in Clids : LibCreateWorkerThread(c)
    BY <1>1, <1>2, <2>3, NewWorkerKeeps DEF Calm
  <2>4. CASE \E n \in Wids, c \in Clids : LibRecordWorker(n, c)
    BY <1>1, <1>2, <2>4, RecordKeeps
  <2>5. CASE \E t \in Pthreads, c \in Clids : LibCreateScheduler(t, c)
    BY <1>1, <1>2, <1>5, <2>5, NewSchedulerKeeps DEF Calm
  <2>6. CASE LibExit
    BY <1>1, <1>2, <2>6, ExitKeeps
  <2> QED
    BY <1>5, <2>1, <2>2, <2>3, <2>4, <2>5, <2>6 DEF MainStep
<1>6. ASSUME ~ undef, NEW t \in Pthreads, PthreadStep(t)
      PROVE  LibInv'
  <2>1. main # "gone"
    BY <1>6, AfterExit
  <2>2. Moves(t) /\ ThreadInv(t)'
    BY <1>2, <1>6, <2>1, PthreadMoves DEF Calm
  <2> QED
    BY <1>1, <1>2, <2>1, <2>2, MovesKeep
<1> QED
  BY <1>3, <1>4, <1>5, <1>6 DEF LibNextStep

LEMMA LibAlways == Calm => (LibSpec => []LibInv)
<1> SUFFICES ASSUME Calm PROVE LibSpec => []LibInv
  OBVIOUS
<1>1. LibInit => LibInv
  BY LibInitInv
<1>2. LibInv /\ [LibNextStep]_all => LibInv'
  BY LibStep
<1> QED
  BY <1>1, <1>2, PTL DEF LibSpec

\* A pthread in a call of its loop, with the process still there.
LEMMA InCallHas ==
  ASSUME LibInv, NEW t \in Pthreads, pc[t] \notin {"none", "gone"}
  PROVE  main # "gone" /\ Created(t) /\ ThreadInv(t)
BY LibInvHas DEF SetupInv, ThreadsInv, Created

\* A scheduler that has its list to itself never gets an error from the kernel,
\* whatever it asks for and however the others interleave: the library lets it ask
\* only for workers that are idle (ums_lib.c, loop1 and ums_execute_thread).
THEOREM OwnListIsServed == Calm => (LibSpec => []OwnListNeverRefused)
<1>1. LibInv => OwnListNeverRefused
  BY LibInvHas DEF ReplyInv, OwnListNeverRefused, IsShared
<1> QED
  BY <1>1, LibAlways, PTL

\* No scheduler leaves its loop, and none is told that its list is FINISHED, before
\* the kernel has finished every worker of the list.
THEOREM FinishedInTime == Calm => (LibSpec => []FinishedIsNotEarly)
<1>1. LibInv => FinishedIsNotEarly
  <2> SUFFICES ASSUME LibInv PROVE FinishedIsNotEarly
    OBVIOUS
  <2>1. ASSUME NEW t \in Pthreads, pc[t] \in {"leave", "gone"}, main # "gone"
        PROVE  MembersIn(ListOfPthread(t), {"IDLE", "RUNNING"}) = {}
    <3>1. Created(t)
      BY <2>1 DEF Created
    <3>2. Complete(ListOfPthread(t))
      BY <2>1, <3>1, LibInvHas DEF ThreadsInv, ThreadInv
    <3> QED
      BY <3>2 DEF Complete
  <2>2. \A c \in Clids : completion_lists[c].state = "FINISHED" =>
                           MembersIn(<<Main, c>>, {"IDLE", "RUNNING"}) = {}
    BY LibInvHas DEF FinishedInv, Complete
  <2> QED
    BY <2>1, <2>2 DEF FinishedIsNotEarly
<1> QED
  BY <1>1, LibAlways, PTL

\* The array a scheduler hands to dequeue_completion_list_items was allocated for as
\* many workers as the kernel's list has when the request is made.
THEOREM BufferIsLargeEnough == Calm => (LibSpec => []BufferHoldsList)
<1>1. LibInv => BufferHoldsList
  <2> SUFFICES ASSUME LibInv, NEW t \in Pthreads, pc[t] = "ask"
               PROVE  comp_list[ListOfPthread(t)].worker_count <= ListParams(t).size
    BY DEF BufferHoldsList
  <2>1. ThreadInv(t) /\ ListOfPthread(t) \in Lists
    BY InCallHas, LibInvHas, ListTyped
  <2>2. comp_list[ListOfPthread(t)].worker_count \in Nat
    BY <2>1, LibInvHas DEF TypeOK, ListNodes
  <2> QED
    BY <2>1, <2>2 DEF ThreadInv
<1> QED
  BY <1>1, LibAlways, PTL

\* While the cached counter is not used up, ums_get_next_worker_thread finds an entry
\* inside the array, and it is a worker of the scheduler's own list.
THEOREM CacheNeverRunsDry == Calm => (LibSpec => []CacheHasNext)
<1>1. LibInv => CacheHasNext
  <2> SUFFICES ASSUME LibInv, NEW t \in Pthreads, NEW list, list = ListParams(t),
                      pc[t] = "next", list.worker_count > 0
               PROVE  /\ \E i \in 1 .. list.size : list.workers[i] # NoId
                      /\ NextWorker(list) \subseteq Members(ListOfPthread(t))
    BY DEF CacheHasNext
  <2>1. ThreadInv(t) /\ list \in ListRecords
    BY InCallHas, LibInvHas, SchedulerIs
  <2>2. Cached(list, Cacheable(t))
    <3>1. Taken(t) = {}
      BY DEF Taken
    <3> QED
      BY <2>1, <3>1, CachedSame DEF ThreadInv, MayTake
  <2>3. Cacheable(t) \subseteq Wids /\ Cacheable(t) \subseteq Members(ListOfPthread(t))
    BY CacheableIn
  <2>4. list.worker_count # 0
    OBVIOUS
  <2>5. /\ \E i \in 1 .. list.size : list.workers[i] # NoId
        /\ NextWorker(list) \subseteq Cacheable(t)
    BY <2>1, <2>2, <2>3, <2>4, CachedNext
  <2> QED
    BY <2>3, <2>5
<1> QED
  BY <1>1, LibAlways, PTL

-----------------------------------------------------------------------------
(* What the kernel offers can be taken, when workers of shared lists do not    *)
(* pause                                                                       *)

LEMMA OfferFrame ==
  ASSUME NEW n \in Wids, EachOffer(n), main' # "gone" => main # "gone",
         WorkerExists(<<Main, n>>)' <=> WorkerExists(<<Main, n>>),
         worker'[<<Main, n>>].state = worker[<<Main, n>>].state,
         worker'[<<Main, n>>].clid = worker[<<Main, n>>].clid,
         workers'[n] = workers[n], at'[n] = at[n], pauses'[n] = pauses[n],
         Executing(n) => Executing(n)'
  PROVE  EachOffer(n)'
BY DEF EachOffer, YieldInv

\* A step of t concerns no worker but the one t executes.
LEMMA ExecutingKept ==
  ASSUME NEW t \in Pthreads, NEW n,
         \A u \in Pthreads : u # t => pc'[u] = pc[u] /\ local'[u] = local[u],
         pc[t] # "execute" \/ local[t] # n
  PROVE  Executing(n) => Executing(n)'
BY DEF Executing

\* The workers that a step of t does not touch.
LEMMA MovesOffer ==
  ASSUME OfferInv, NEW t \in Pthreads, Moves(t), NEW n \in Wids,
         worker'[<<Main, n>>].state = worker[<<Main, n>>].state,
         workers'[n] = workers[n], at'[n] = at[n], pauses'[n] = pauses[n],
         pc[t] # "execute" \/ local[t] # n
  PROVE  EachOffer(n)'
<1>1. /\ Steady /\ main' = main
      /\ \A u \in Pthreads : u # t => pc'[u] = pc[u] /\ local'[u] = local[u]
  BY DEF Moves, OnlyFor
<1>2. /\ WorkerExists(<<Main, n>>)' <=> WorkerExists(<<Main, n>>)
      /\ worker'[<<Main, n>>].clid = worker[<<Main, n>>].clid
  BY <1>1, SteadyMembers DEF Steady
<1>3. Executing(n) => Executing(n)'
  BY <1>1, ExecutingKept
<1> QED
  BY <1>1, <1>2, <1>3, OfferFrame DEF OfferInv

LEMMA ReplacedOthers ==
  ASSUME LibInv, NEW n \in Wids, Replaced(<<Main, n>>, worker'[<<Main, n>>]),
         NEW k \in Wids, k # n
  PROVE  worker'[<<Main, k>>].state = worker[<<Main, k>>].state
<1>1. <<Main, k>> \in Workers /\ worker \in [Workers -> WorkerNodes]
  BY OneMain, LibInvHas DEF Workers, TypeOK
<1> QED
  BY <1>1 DEF Replaced

\* The steps that neither mark a worker nor ask for one.
LEMMA QuietOffer ==
  ASSUME OfferInv, NEW t \in Pthreads, Moves(t), worker' = worker, workers' = workers,
         at' = at, pauses' = pauses, pc[t] # "execute"
  PROVE  OfferInv'
BY MovesOffer DEF OfferInv

LEMMA MarkOffer ==
  ASSUME LibInv, OfferInv, main # "gone", NEW t \in Pthreads, NEW wid \in Wids,
         LibMark(t, wid), Moves(t)
  PROVE  OfferInv'
<1>1. /\ pc[t] = "mark" /\ wid = local[t] /\ UNCHANGED vars /\ main' = main
      /\ local' = local /\ at' = at /\ pauses' = pauses
      /\ workers' = [workers EXCEPT ![wid] = "RUNNING"]
      /\ pc' = [pc EXCEPT ![t] = "execute"]
  BY DEF LibMark
<1>2. pc'[t] = "execute" /\ workers'[wid] = "RUNNING" /\ worker' = worker
      /\ \A n \in Wids : n # wid => workers'[n] = workers[n]
  BY <1>1, LibInvHas, LibFunctions DEF vars
<1>3. ASSUME NEW n \in Wids, n # wid
      PROVE  EachOffer(n)'
  BY <1>1, <1>2, <1>3, MovesOffer
<1>4. EachOffer(wid)'
  <2>1. Executing(wid)'
    BY <1>1, <1>2 DEF Executing
  <2>2. EachOffer(wid)
    BY DEF OfferInv
  <2>3. /\ WorkerExists(<<Main, wid>>)' <=> WorkerExists(<<Main, wid>>)
        /\ worker'[<<Main, wid>>].clid = worker[<<Main, wid>>].clid
    BY <1>1 DEF vars, WorkerExists
  <2>4. at[wid] = "yield" => pauses[wid] = 0
    <3>1. ThreadInv(t) /\ Taken(t) = {wid}
      BY <1>1, InCallHas DEF Taken
    <3>2. wid \in Cacheable(t)
      BY <3>1 DEF ThreadInv
    <3>3. CASE IsShared(t)
      BY <2>2, <3>2, <3>3, CacheableIn DEF EachOffer, Members, ListOfPthread, IsShared
    <3>4. CASE ~ IsShared(t)
      BY <2>2, <3>2, <3>4 DEF EachOffer, YieldInv, Cacheable, MembersIn, ListOfPthread
    <3> QED
      BY <3>3, <3>4
  <2>5. /\ YieldInv(wid)'
        /\ WorkerExists(<<Main, wid>>)' /\ worker'[<<Main, wid>>].clid \in SharedLists
             => pauses'[wid] = 0
    BY <1>1, <1>2, <2>2, <2>3, <2>4 DEF EachOffer, YieldInv
  <2> QED
    BY <2>1, <2>5 DEF EachOffer
<1> QED
  BY <1>3, <1>4 DEF OfferInv

LEMMA ExecuteOffer ==
  ASSUME LibInv, OfferInv, ~ undef, main # "gone", NEW t \in Pthreads, NEW wid \in Wids,
         LibExecute(t, wid), Moves(t)
  PROVE  OfferInv'
<1>1. /\ pc[t] = "execute" /\ wid = local[t] /\ ExecuteThread(t, wid) /\ main' = main
      /\ workers' = workers /\ at' = at /\ pauses' = pauses
  BY DEF LibExecute, Ioctl
<1>2. PICK s \in Scheds :
        /\ HasNode(t, s)
        /\ \/ Refused(t) /\ (Managed(Main) => wid \notin MembersIn(ListOf(s), {"IDLE"}))
           \/ Took(t, s, wid)
  BY <1>1, ExecuteDoes, LibInvHas DEF Calls
<1>3. /\ ThreadInv(t) /\ Managed(Main) /\ wid \in Cacheable(t)
      /\ ListOf(s) = ListOfPthread(t)
  <2>1. ThreadInv(t) /\ Managed(Main) /\ Taken(t) = {wid}
    BY <1>1, InCallHas, LibInvHas DEF Taken, SetupInv
  <2> QED
    BY <1>2, <2>1 DEF ThreadInv
<1>4. EachOffer(wid)
  BY DEF OfferInv
<1>5. /\ Steady
      /\ WorkerExists(<<Main, wid>>)' <=> WorkerExists(<<Main, wid>>)
      /\ worker'[<<Main, wid>>].clid = worker[<<Main, wid>>].clid
  BY SteadyMembers DEF Moves, OnlyFor, Steady
<1>6. CASE Refused(t) /\ wid \notin MembersIn(ListOfPthread(t), {"IDLE"})
  <2>1. worker' = worker
    BY <1>6 DEF Refused, Untouched
  <2>2. worker[<<Main, wid>>].state # "IDLE"
    BY <1>3, <1>6, CacheableIn DEF MembersIn, ListOfPthread
  <2>3. EachOffer(wid)'
    BY <1>1, <1>4, <1>5, <2>1, <2>2 DEF EachOffer, YieldInv
  <2>4. ASSUME NEW n \in Wids, n # wid
        PROVE  EachOffer(n)'
    BY <1>1, <2>1, <2>4, MovesOffer
  <2> QED
    BY <2>3, <2>4 DEF OfferInv
<1>7. CASE Took(t, s, wid)
  <2>1. /\ Replaced(<<Main, wid>>, worker'[<<Main, wid>>])
        /\ worker'[<<Main, wid>>].state = "RUNNING"
        /\ worker[<<Main, wid>>].state = "IDLE"
    BY <1>3, <1>7 DEF Took, MembersIn, ListOfPthread
  <2>2. EachOffer(wid)'
    BY <1>1, <1>4, <1>5, <2>1 DEF EachOffer, YieldInv
  <2>3. ASSUME NEW n \in Wids, n # wid
        PROVE  EachOffer(n)'
    BY <1>1, <2>1, <2>3, MovesOffer, ReplacedOthers
  <2> QED
    BY <2>2, <2>3 DEF OfferInv
<1> QED
  BY <1>2, <1>3, <1>6, <1>7

LEMMA MarkYieldOffer ==
  ASSUME LibInv, OfferInv, ~ undef, main # "gone", NEW t \in Pthreads, NEW n \in Wids,
         LibMarkYield(t, n), Moves(t)
  PROVE  OfferInv'
<1>1. /\ Runs(t, n) /\ UNCHANGED vars /\ pc' = pc /\ main' = main
      /\ local' = local /\ pauses' = pauses
      /\ workers' = [workers EXCEPT ![schedulers[t].wid] = Marked(StatusOf(n))]
      /\ at' = [at EXCEPT ![n] = "yield"]
  BY DEF LibMarkYield
<1>2. /\ pc[t] = "dequeue" /\ schedulers[t].wid = n /\ WorkerExists(<<Main, n>>)
      /\ worker[<<Main, n>>].state = "RUNNING"
  BY <1>1, RunsHas
<1>3. /\ workers'[n] = Marked(StatusOf(n)) /\ at'[n] = "yield" /\ worker' = worker
      /\ \A k \in Wids : k # n => workers'[k] = workers[k] /\ at'[k] = at[k]
  BY <1>1, <1>2, LibInvHas DEF LibTypeOK, vars
<1>4. ASSUME NEW k \in Wids, k # n
      PROVE  EachOffer(k)'
  BY <1>1, <1>2, <1>3, <1>4, MovesOffer
<1>5. EachOffer(n)'
  <2>1. WorkerExists(<<Main, n>>)' /\ EachOffer(n)
    BY <1>1, <1>2 DEF vars, WorkerExists, OfferInv
  <2>2. pauses[n] = 0 \/ workers'[n] = "IDLE"
    BY <1>3, LibInvHas DEF Marked, StatusOf, LibTypeOK
  <2> QED
    BY <1>1, <1>2, <1>3, <2>1, <2>2 DEF EachOffer, YieldInv
<1> QED
  BY <1>4, <1>5 DEF OfferInv

LEMMA YieldOffer ==
  ASSUME LibInv, OfferInv, ~ undef, main # "gone", NEW t \in Pthreads, NEW n \in Wids,
         LibYield(t, n), Moves(t)
  PROVE  OfferInv'
<1>1. /\ Runs(t, n) /\ at[n] = "yield" /\ ThreadYield(t, StatusOf(n))
      /\ StatusOf(n) \in {"PAUSE", "FINISH"}
      /\ main' = main /\ workers' = workers
      /\ at' = [at EXCEPT ![n] = "call"]
      /\ pauses' = [pauses EXCEPT ![n] = IF @ > 0 THEN @ - 1 ELSE 0]
  BY DEF LibYield, Ioctl, StatusOf
<1>2. /\ Created(t) /\ pc[t] = "dequeue" /\ \E r \in Scheds : HasNode(t, r)
  BY <1>1, RunsHas
<1>3. Managed(Main)
  BY <1>2, LibInvHas DEF SetupInv
<1>4. PICK s \in Scheds : Gave(t, s, n, StatusOf(n))
  BY <1>1, <1>2, <1>3, YieldDoes, LibInvHas
<1>5. /\ Replaced(<<Main, n>>, worker'[<<Main, n>>])
      /\ worker'[<<Main, n>>].state = IF StatusOf(n) = "PAUSE" THEN "IDLE" ELSE "FINISHED"
  BY <1>4 DEF Gave
<1>6. /\ at'[n] = "call" /\ (pauses[n] = 0 => pauses'[n] = 0)
      /\ \A k \in Wids : k # n => at'[k] = at[k] /\ pauses'[k] = pauses[k]
  BY <1>1, LibInvHas DEF LibTypeOK
<1>7. ASSUME NEW k \in Wids, k # n
      PROVE  EachOffer(k)'
  BY <1>1, <1>2, <1>5, <1>6, <1>7, MovesOffer, ReplacedOthers
<1>8. EachOffer(n)'
  <2>1. /\ EachOffer(n)
        /\ WorkerExists(<<Main, n>>)' <=> WorkerExists(<<Main, n>>)
        /\ worker'[<<Main, n>>].clid = worker[<<Main, n>>].clid
    BY SteadyMembers DEF OfferInv, Moves, OnlyFor, Steady
  <2>2. StatusOf(n) = "PAUSE" => pauses[n] # 0
    BY DEF StatusOf
  <2>3. worker'[<<Main, n>>].state = "IDLE" => workers'[n] = "IDLE"
    BY <1>1, <1>5, <2>1, <2>2 DEF EachOffer, YieldInv
  <2> QED
    BY <1>1, <1>6, <2>1, <2>3 DEF EachOffer, YieldInv
<1> QED
  BY <1>7, <1>8 DEF OfferInv

LEMMA PthreadOffer ==
  ASSUME LibInv, OfferInv, Faults = {}, ~ undef, main # "gone",
         NEW t \in Pthreads, PthreadStep(t), \A l \in Lists : Complete(l) => Complete(l)'
  PROVE  OfferInv'
<1>1. Moves(t)
  BY PthreadMoves
<1>2. CASE LibEnterSchedulingMode(t)
  <2>1. pc[t] = "enter" /\ EnterSchedulingMode(t, schedulers[t].clid)
        /\ workers' = workers /\ at' = at /\ pauses' = pauses
    BY <1>2 DEF LibEnterSchedulingMode, Ioctl
  <2>2. worker' = worker
    <3>1. schedulers[t].clid \in Clids /\ SoundFaults
      BY LibInvHas, SchedulerIs DEF SoundFaults
    <3>2. Refused(t) \/ \E s \in Scheds : Added(t, schedulers[t].clid, s)
      BY <2>1, <3>1, EnterDoes, LibInvHas
    <3> QED
      BY <3>2 DEF Refused, Untouched, Added
  <2> QED
    BY <1>1, <2>1, <2>2, QuietOffer
<1>3. CASE LibDequeue(t) \/ LibTold(t) \/ LibNext(t)
  <2>1. /\ pc[t] # "execute" /\ worker' = worker
        /\ workers' = workers /\ at' = at /\ pauses' = pauses
    BY <1>3 DEF LibDequeue, LibTold, LibNext, vars
  <2> QED
    BY <1>1, <2>1, QuietOffer
<1>4. CASE LibAsk(t)
  <2>1. pc[t] = "ask" /\ DequeueCompletionListItems(t)
        /\ workers' = workers /\ at' = at /\ pauses' = pauses
    BY <1>4 DEF LibAsk, Ioctl
  <2>2. PICK s \in Scheds : RunBy(s, t)
    BY <2>1, CallsAreSchedulerCode, LibInvHas DEF Calls
  <2>3. worker' = worker
    BY <2>1, <2>2, AskDoes DEF Untouched
  <2> QED
    BY <1>1, <2>1, <2>3, QuietOffer
<1>5. CASE LibExitSchedulingMode(t)
  <2>1. pc[t] = "leave" /\ ExitSchedulingMode(t)
        /\ workers' = workers /\ at' = at /\ pauses' = pauses
    BY <1>5 DEF LibExitSchedulingMode, Ioctl
  <2>2. worker' = worker
    BY <2>1, LeaveDoes, LibInvHas DEF Calls, Refused, Untouched, Quit
  <2> QED
    BY <1>1, <2>1, <2>2, QuietOffer
<1>6. CASE \E n \in Wids : LibMark(t, n) \/ LibExecute(t, n)
  BY <1>1, <1>6, MarkOffer, ExecuteOffer
<1>7. CASE \E n \in Wids : LibMarkYield(t, n) \/ LibYield(t, n)
  BY <1>1, <1>7, MarkYieldOffer, YieldOffer
<1> QED
  BY <1>2, <1>3, <1>4, <1>5, <1>6, <1>7 DEF PthreadStep

LEMMA SameOffer ==
  ASSUME OfferInv, worker' = worker, workers' = workers, at' = at, pauses' = pauses,
         process'[Main].worker_count = process[Main].worker_count,
         main' # "gone" => main # "gone",
         \A t \in Pthreads : pc[t] = "execute" => pc'[t] = pc[t] /\ local'[t] = local[t]
  PROVE  OfferInv'
<1> SUFFICES ASSUME NEW n \in Wids PROVE EachOffer(n)'
  BY DEF OfferInv
<1>1. EachOffer(n) /\ (WorkerExists(<<Main, n>>)' <=> WorkerExists(<<Main, n>>))
  BY DEF OfferInv, WorkerExists
<1>2. Executing(n) => Executing(n)'
  BY DEF Executing
<1> QED
  BY <1>1, <1>2, OfferFrame

\* A new worker is unknown to the library, and has not begun.
LEMMA NewWorkerOffer ==
  ASSUME LibInv, OfferInv, NoSharedPause, Faults = {}, NEW c \in Clids,
         LibCreateWorkerThread(c)
  PROVE  OfferInv'
<1> PICK wid : wid = process[Main].worker_count
  OBVIOUS
<1>1. Managed(Main) /\ ListExists(<<Main, c>>)
  BY LibInvHas DEF LibCreateWorkerThread, SetupInv, RecordsInv
<1>2. /\ main = "setup" /\ CreateWorkerThread(Main, c) /\ ListKnown(c)
      /\ workers' = workers /\ pc' = pc /\ local' = local /\ at' = at
      /\ IF reply'.err = "SUCCESS"
         THEN main' = "record" /\ pauses' = [pauses EXCEPT ![reply'.id] = Pauses[c][reply'.id]]
         ELSE UNCHANGED <<main, pauses>>
  BY <1>1, NewWorkerIs DEF LibCreateWorkerThread, Ioctl
<1>3. CASE Fail(Main, "COMPLETION_LIST_IS_USED_AND_CANNOT_BE_MODIFIED")
  <2>1. reply'.err # "SUCCESS" /\ worker' = worker /\ process' = process
    BY <1>3 DEF Fail, Return, ReplyTo
  <2> QED
    BY <1>2, <2>1, SameOffer
<1>4. CASE AddWorker(Main, c)
  <2>1. /\ reply'.err = "SUCCESS" /\ reply'.id = wid
        /\ worker' = [worker EXCEPT ![<<Main, wid>>] =
             [state |-> "IDLE", clid |-> c, pid |-> NoId, sid |-> NoId,
              regs |-> WorkerEntry(<<Main, wid>>)]]
    BY <1>4 DEF AddWorker, Return, ReplyTo
  <2>2. /\ wid \in Wids /\ ~ WorkerExists(<<Main, wid>>)
        /\ \A v \in Workers : /\ WorkerExists(v)' <=> WorkerExists(v) \/ v = <<Main, wid>>
                              /\ v # <<Main, wid>> => worker'[v] = worker[v]
    BY <1>4, OneMain, AddWorkerMembers, LibInvHas
  <2>3. /\ pauses'[wid] = Pauses[c][wid]
        /\ \A k \in Wids : k # wid => pauses'[k] = pauses[k]
    BY <1>2, <2>1, <2>2, LibInvHas DEF LibTypeOK
  <2>4. worker'[<<Main, wid>>].clid = c
    BY <2>1, <2>2, OneMain, LibInvHas DEF TypeOK, Workers
  <2>5. \A k : Executing(k) => Executing(k)'
    BY <1>2 DEF Executing
  <2>6. ASSUME NEW k \in Wids, k # wid
        PROVE  EachOffer(k)'
    <3>1. /\ WorkerExists(<<Main, k>>)' <=> WorkerExists(<<Main, k>>)
          /\ worker'[<<Main, k>>] = worker[<<Main, k>>]
      BY <2>2, <2>6, OneMain DEF Workers
    <3> QED
      BY <1>2, <2>3, <2>5, <2>6, <3>1, OfferFrame DEF OfferInv
  <2>7. EachOffer(wid)'
    <3>1. EachOffer(wid) /\ at[wid] # "yield"
      BY <1>2, <2>2 DEF OfferInv, EachOffer, YieldInv
    <3>2. workers[wid] = "ABSENT"
      BY <2>2, LibInvHas DEF RecordsInv, WorkerKnown
    <3>3. c \in SharedLists => pauses'[wid] = 0
      BY <2>2, <2>3 DEF NoSharedPause
    <3> QED
      BY <1>2, <2>4, <3>1, <3>2, <3>3 DEF EachOffer, YieldInv
  <2> QED
    BY <2>6, <2>7 DEF OfferInv
<1> QED
  BY <1>2, <1>1, <1>3, <1>4 DEF CreateWorkerThread

LEMMA MainOffer ==
  ASSUME LibInv, OfferInv, Calm, NoSharedPause, MainStep
  PROVE  OfferInv'
<1>1. CASE LibEnter
  <2>1. /\ main = "start" /\ EnterUms(Main) /\ workers' = workers /\ pc' = pc
        /\ local' = local /\ at' = at /\ pauses' = pauses
    BY <1>1 DEF LibEnter, Ioctl
  <2>2. worker' = worker /\ process'[Main].worker_count = process[Main].worker_count
    BY <2>1, OneMain, LibInvHas DEF EnterUms, Fail, TypeOK, ProcessNodes
  <2> QED
    BY <2>1, <2>2, SameOffer
<1>2. CASE LibCreateCompletionList
  <2>1. /\ main = "setup" /\ CreateCompletionList(Main) /\ workers' = workers /\ pc' = pc
        /\ local' = local /\ at' = at /\ pauses' = pauses
    BY <1>2 DEF LibCreateCompletionList, Ioctl
  <2>2. worker' = worker /\ process'[Main].worker_count = process[Main].worker_count
    BY <2>1, OneMain, LibInvHas DEF CreateCompletionList, Fail, TypeOK, ProcessNodes
  <2> QED
    BY <2>1, <2>2, SameOffer
<1>3. CASE \E c \in Clids : LibCreateWorkerThread(c)
  BY <1>3, NewWorkerOffer DEF Calm
<1>4. CASE \E n \in Wids, c \in Clids : LibRecordWorker(n, c)
  <2> PICK n \in Wids, c \in Clids : LibRecordWorker(n, c)
    BY <1>4
  <2>1. /\ main = "record" /\ main' = "setup" /\ worker' = worker /\ process' = process
        /\ workers' = WithRecord(n)
        /\ pc' = pc /\ local' = local /\ at' = at /\ pauses' = pauses
    BY DEF LibRecordWorker, vars
  <2>2. /\ workers'[n] = "IDLE" \/ workers'[n] = workers[n]
        /\ \A k \in Wids : k # n => workers'[k] = workers[k]
    BY <2>1, LibInvHas DEF LibTypeOK, WithRecord
  <2>3. ASSUME NEW k \in Wids
        PROVE  /\ EachOffer(k) /\ (WorkerExists(<<Main, k>>)' <=> WorkerExists(<<Main, k>>))
               /\ Executing(k) => Executing(k)'
    BY <2>1 DEF OfferInv, WorkerExists, Executing
  <2>4. ASSUME NEW k \in Wids, k # n PROVE EachOffer(k)'
    BY <2>1, <2>2, <2>3, <2>4, OfferFrame
  <2>5. EachOffer(n)'
    <3>1. CASE workers'[n] = "IDLE"
      BY <2>1, <2>3, <3>1 DEF EachOffer, YieldInv
    <3>2. CASE workers'[n] = workers[n]
      BY <2>1, <2>3, <3>2, OfferFrame
    <3> QED
      BY <2>2, <3>1, <3>2
  <2> QED
    BY <2>4, <2>5 DEF OfferInv
<1>5. CASE \E t \in Pthreads, c \in Clids : LibCreateScheduler(t, c)
  <2> PICK t \in Pthreads, c \in Clids : LibCreateScheduler(t, c)
    BY <1>5
  <2>1. /\ main' = main /\ worker' = worker /\ process' = process
        /\ workers' = workers /\ at' = at /\ pauses' = pauses /\ local' = local
        /\ pc[t] = "none" /\ pc' = [pc EXCEPT ![t] = "enter"]
    BY DEF LibCreateScheduler, vars, Created
  <2>2. \A u \in Pthreads : pc[u] = "execute" => pc'[u] = pc[u]
    BY <2>1, LibInvHas, LibFunctions
  <2> QED
    BY <2>1, <2>2, SameOffer
<1>6. CASE LibExit
  <2>1. main' = "gone" /\ \A n \in Wids : workers'[n] = "ABSENT"
    BY <1>6 DEF LibExit, Cleanup
  <2> QED
    BY <2>1 DEF OfferInv, EachOffer
<1> QED
  BY <1>1, <1>2, <1>3, <1>4, <1>5, <1>6 DEF MainStep

LEMMA OfferInit == LibInit => OfferInv
<1> SUFFICES ASSUME LibInit, NEW n \in Wids PROVE EachOffer(n)
  BY DEF OfferInv
<1>1. workers[n] = "ABSENT" /\ at[n] = "call" /\ pauses[n] = 0
  BY DEF LibInit
<1> QED
  BY <1>1 DEF EachOffer, YieldInv

LEMMA OfferStep ==
  ASSUME LibInv, OfferInv, Calm, NoSharedPause, [LibNextStep]_all
  PROVE  OfferInv'
<1>1. \A l \in Lists : Complete(l) => Complete(l)'
  BY FlowStep, ClientIssuesRequests, CountStep, LibInvHas DEF Calm, SoundFaults
<1>2. CASE UNCHANGED all
  BY <1>2, SameOffer DEF all, lib, vars
<1>3. CASE Terminated
  BY <1>3, SameOffer DEF Terminated, all, lib, vars
<1>4. CASE ~ undef /\ MainStep
  BY <1>4, MainOffer
<1>5. ASSUME ~ undef, NEW t \in Pthreads, PthreadStep(t)
      PROVE  OfferInv'
  <2>1. main # "gone"
    BY <1>5, AfterExit
  <2> QED
    BY <1>1, <1>5, <2>1, PthreadOffer DEF Calm
<1> QED
  BY <1>2, <1>3, <1>4, <1>5 DEF LibNextStep

\* A worker that the kernel offers is one the library lets a scheduler take: what it
\* recorded of the worker in ums_execute_thread or ums_thread_yield, before it asked
\* the kernel, is never left standing against an idle worker.  It takes that workers
\* of a list with several schedulers do not pause.
THEOREM OffersAreTakeable == Calm /\ NoSharedPause => (LibSpec => []OfferedCanBeTaken)
<1> SUFFICES ASSUME Calm, NoSharedPause PROVE LibSpec => []OfferedCanBeTaken
  OBVIOUS
<1>1. LibSpec => []LibInv
  BY LibAlways
<1>2. LibInit => OfferInv
  BY OfferInit
<1>3. LibInv /\ OfferInv /\ [LibNextStep]_all => OfferInv'
  BY OfferStep
<1>4. OfferInv => OfferedCanBeTaken
  BY DEF OfferInv, EachOffer, Executing, OfferedCanBeTaken
<1> QED
  BY <1>1, <1>2, <1>3, <1>4, PTL DEF LibSpec
=============================================================================
