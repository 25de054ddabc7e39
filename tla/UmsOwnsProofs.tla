---------------------------- MODULE UmsOwnsProofs ----------------------------
(***************************************************************************)
(* A scheduler of UmsApi and the worker it names agree, and a finished     *)
(* worker is never touched again, for every set of tasks, every bound and  *)
(* every choice of failing services.  That the lists split the workers is  *)
(* needed for it: a worker is taken from the idle list, hence IDLE, hence  *)
(* named by no scheduler; a worker that yields is the one named.           *)
(*                                                                         *)
(* The counters of a completion list agree with its lists, and a list      *)
(* whose last worker finished stays complete.  Each counter moves with     *)
(* what it counts because the lists split the workers by their state, and  *)
(* because the worker that finishes is RUNNING, hence counted once.  A     *)
(* complete list gets no new worker while it is RUNNING, and it is RUNNING *)
(* only if its id was handed out, so that it is not made anew either       *)
(* (UsedExists).                                                           *)
(***************************************************************************)
EXTENDS UmsApiProofs

OwnInv == ListInv /\ SchedulerOwnsWorker

Names(s) == scheduler[s].wid # NoId
Named(s) == <<s[1], scheduler[s].wid>>

\* The conjuncts of SchedulerOwnsWorker for one scheduler.
Owns(s) ==
  /\ (scheduler[s].state = "RUNNING") <=> Names(s)
  /\ Names(s) =>
       /\ scheduler[s].wid \in Members(ListOf(s))
       /\ worker[Named(s)].state = "RUNNING"
       /\ worker[Named(s)].pid = scheduler[s].pid
       /\ worker[Named(s)].sid = scheduler[s].sid
       /\ \A r \in Scheds \ {s} :
            r[1] = s[1] => scheduler[r].wid # scheduler[s].wid

LEMMA EachOwns == SchedulerOwnsWorker <=> \A s \in Scheds : Owns(s)
  BY DEF SchedulerOwnsWorker, Owns, Names, Named

LEMMA EachOwnsNext ==
  ASSUME \A s \in Scheds : Owns(s)' PROVE SchedulerOwnsWorker'
  BY DEF SchedulerOwnsWorker, Owns, Names, Named

\* What a scheduler names is a worker of its process.
LEMMA NamedType ==
  ASSUME TypeInv, NEW s \in Scheds, Owns(s), Names(s)
  PROVE  /\ Named(s) \in Workers /\ WorkerExists(Named(s))
         /\ scheduler[s].wid \in Wids
  BY DEF Owns, Members, ListOf, Named, Workers, Scheds

\* The two components of a scheduler's id.
LEMMA SchedPair ==
  ASSUME NEW s \in Scheds
  PROVE  /\ s = <<s[1], s[2]>> /\ s[1] \in Tasks /\ s[2] \in Nat
         /\ \A n \in 0 .. s[2] - 1 : <<s[1], n>> \in Scheds
  BY BoundsAssumption DEF Scheds, Sids

\* The lookup finds one scheduler.
LEMMA RunByUnique ==
  ASSUME NEW t \in Tasks, NEW s \in Scheds, NEW r \in Scheds, RunBy(s, t), RunBy(r, t)
  PROVE  s = r
<1>1. /\ s = <<s[1], s[2]>> /\ r = <<r[1], r[2]>>
      /\ s[2] \in Nat /\ r[2] \in Nat /\ s[1] = r[1]
  BY SchedPair DEF RunBy
<1>2. ~ (s[2] < r[2])
  <2> SUFFICES ASSUME s[2] < r[2] PROVE FALSE
    OBVIOUS
  <2>1. s[2] \in 0 .. r[2] - 1
    BY <1>1
  <2>2. scheduler[<<r[1], s[2]>>].pid # t
    BY <2>1 DEF RunBy
  <2> QED
    BY <1>1, <2>2 DEF RunBy
<1>3. ~ (r[2] < s[2])
  <2> SUFFICES ASSUME r[2] < s[2] PROVE FALSE
    OBVIOUS
  <2>1. r[2] \in 0 .. s[2] - 1
    BY <1>1
  <2>2. scheduler[<<s[1], r[2]>>].pid # t
    BY <2>1 DEF RunBy
  <2> QED
    BY <1>1, <2>2 DEF RunBy
<1> QED
  BY <1>1, <1>2, <1>3

-----------------------------------------------------------------------------
\* A step that leaves a scheduler, what it names and the number of workers alone
\* leaves it its worker, if nobody else names that worker now.
LEMMA OwnsFrame ==
  ASSUME TypeInv, TypeInv', NEW s \in Scheds, Owns(s),
         scheduler'[s] = scheduler[s],
         Names(s) => /\ scheduler[s].wid < process'[s[1]].worker_count
                     /\ worker'[Named(s)] = worker[Named(s)],
         \A r \in Scheds \ {s} :
           r[1] = s[1] /\ scheduler'[r].wid # NoId =>
             scheduler'[r].wid # scheduler[s].wid
  PROVE  Owns(s)'
<1>1. Names(s)' <=> Names(s)
  BY DEF Names
<1>2. (scheduler'[s].state = "RUNNING") <=> Names(s)'
  BY <1>1 DEF Owns
<1>3. ASSUME Names(s)
      PROVE  /\ scheduler'[s].wid \in Members(ListOf(s))'
             /\ worker'[Named(s)'].state = "RUNNING"
             /\ worker'[Named(s)'].pid = scheduler'[s].pid
             /\ worker'[Named(s)'].sid = scheduler'[s].sid
             /\ \A r \in Scheds \ {s} :
                  r[1] = s[1] => scheduler'[r].wid # scheduler'[s].wid
  <2>1. Named(s)' = Named(s) /\ ListOf(s)' = ListOf(s)
    BY DEF Named, ListOf
  <2>2. scheduler[s].wid \in Members(ListOf(s))'
    BY <1>3, <2>1 DEF Owns, Members, WorkerExists, ListOf, Named
  <2> QED
    BY <1>3, <2>1, <2>2 DEF Owns, Names
<1> QED
  BY <1>1, <1>2, <1>3 DEF Owns

\* Nothing that schedulers and workers say of each other changes.
LEMMA OwnsUnchanged ==
  ASSUME TypeInv, TypeInv', SchedulerOwnsWorker,
         worker' = worker, scheduler' = scheduler,
         \A p \in Tasks : process'[p].worker_count = process[p].worker_count
  PROVE  SchedulerOwnsWorker'
<1> SUFFICES ASSUME NEW s \in Scheds PROVE Owns(s)'
  BY EachOwnsNext
<1>1. Owns(s)
  BY EachOwns
<1>2. ASSUME Names(s)
      PROVE  scheduler[s].wid < process'[s[1]].worker_count
  BY <1>1, <1>2, NamedType DEF WorkerExists, Named, Scheds
<1>3. ASSUME NEW r \in Scheds \ {s}, r[1] = s[1], scheduler[r].wid # NoId
      PROVE  scheduler[r].wid # scheduler[s].wid
  <2>1. Owns(r)
    BY EachOwns
  <2> QED
    BY <1>3, <2>1 DEF Owns, Names
<1> QED
  BY <1>1, <1>2, <1>3, OwnsFrame

\* A scheduler that names nobody afterwards: a new one, one that leaves, or one
\* whose worker has yielded.  Only that worker may change.
LEMMA OwnsReleased ==
  ASSUME TypeInv, TypeInv', SchedulerOwnsWorker, NEW s \in Scheds, NEW node,
         scheduler' = [scheduler EXCEPT ![s] = node],
         node.wid = NoId, node.state # "RUNNING",
         \A p \in Tasks : process'[p].worker_count = process[p].worker_count,
         \A v \in Workers : worker'[v] = worker[v] \/ (Names(s) /\ v = Named(s))
  PROVE  SchedulerOwnsWorker'
<1>1. /\ scheduler'[s] = node
      /\ \A r \in Scheds : r # s => scheduler'[r] = scheduler[r]
  BY DEF TypeInv, TypeOK
<1>2. Owns(s)'
  BY <1>1 DEF Owns, Names
<1>3. ASSUME NEW r \in Scheds, r # s PROVE Owns(r)'
  <2>1. Owns(r) /\ Owns(s)
    BY EachOwns
  <2>2. ASSUME Names(r)
        PROVE  /\ scheduler[r].wid < process'[r[1]].worker_count
               /\ worker'[Named(r)] = worker[Named(r)]
    <3>1. /\ Named(r) \in Workers /\ r[1] \in Tasks
          /\ scheduler[r].wid < process[r[1]].worker_count
      BY <2>1, <2>2, NamedType DEF Workers, WorkerExists, Named
    <3>2. Names(s) => Named(r) # Named(s)
      BY <1>3, <2>1, <2>2 DEF Owns, Named
    <3> QED
      BY <3>1, <3>2
  <2>3. ASSUME NEW q \in Scheds \ {r}, q[1] = r[1], scheduler'[q].wid # NoId, Names(r)
        PROVE  scheduler'[q].wid # scheduler[r].wid
    BY <1>1, <2>1, <2>3 DEF Owns
  <2>4. \A q \in Scheds \ {r} :
          q[1] = r[1] /\ scheduler'[q].wid # NoId => scheduler'[q].wid # scheduler[r].wid
    BY <2>3 DEF Names
  <2> QED
    BY <1>1, <1>3, <2>1, <2>2, <2>4, OwnsFrame
<1> QED
  BY <1>2, <1>3, EachOwnsNext

-----------------------------------------------------------------------------
(* The requests that hand workers out and take them back *)

\* A new worker is one no scheduler can name yet.
LEMMA AddWorkerOwns ==
  ASSUME OwnInv, TypeInv', NEW t \in Tasks, NEW c \in Clids, AddWorker(t, c)
  PROVE  SchedulerOwnsWorker'
<1> DEFINE wid == process[t].worker_count
           w   == <<t, wid>>
<1> SUFFICES ASSUME NEW s \in Scheds PROVE Owns(s)'
  BY EachOwnsNext
<1>1. Owns(s) /\ TypeInv
  BY EachOwns DEF OwnInv, ListInv
<1>2. /\ wid \in Nat /\ w \in Workers
      /\ \A v \in Workers : v # w => worker'[v] = worker[v]
      /\ scheduler' = scheduler
  BY <1>1, BoundsAssumption
     DEF AddWorker, TypeInv, TypeOK, ProcessNodes, Wids, Workers
<1>3. \A p \in Tasks : /\ process[p].worker_count \in Nat
                       /\ process'[p].worker_count >= process[p].worker_count
  BY <1>1, BoundsAssumption DEF AddWorker, TypeInv, TypeOK, ProcessNodes
<1> HIDE DEF wid
<1>4. ASSUME Names(s)
      PROVE  /\ scheduler[s].wid < process'[s[1]].worker_count
             /\ worker'[Named(s)] = worker[Named(s)]
  <2>1. /\ Named(s) \in Workers /\ s[1] \in Tasks /\ scheduler[s].wid \in Nat
        /\ scheduler[s].wid < process[s[1]].worker_count
    BY <1>1, <1>4, NamedType, BoundsAssumption DEF WorkerExists, Named, Scheds, Wids
  <2>2. scheduler[s].wid < process'[s[1]].worker_count
    BY <1>3, <2>1, TypeInv' DEF TypeInv, TypeOK, ProcessNodes
  <2>3. Named(s) # w
    BY <1>2, <2>1 DEF Named, wid
  <2> QED
    BY <1>2, <2>1, <2>2, <2>3
<1>5. ASSUME NEW r \in Scheds \ {s}, r[1] = s[1], scheduler[r].wid # NoId
      PROVE  scheduler[r].wid # scheduler[s].wid
  <2>1. Owns(r)
    BY EachOwns DEF OwnInv
  <2> QED
    BY <1>5, <2>1 DEF Owns, Names
<1> QED
  BY <1>1, <1>2, <1>4, <1>5, OwnsFrame

\* The worker taken from the idle list is IDLE, so nobody names it.
LEMMA IdleIsUnnamed ==
  ASSUME OwnInv, NEW s \in Scheds,
         NEW i \in DOMAIN comp_list[ListOf(s)].idle_list
  PROVE  LET wid == comp_list[ListOf(s)].idle_list[i] IN
         /\ wid \in Members(ListOf(s)) /\ wid \in Wids
         /\ <<s[1], wid>> \in Workers
         /\ worker[<<s[1], wid>>].state = "IDLE"
         /\ \A r \in Scheds : r[1] = s[1] => scheduler[r].wid # wid
<1> DEFINE l   == ListOf(s)
           wid == comp_list[l].idle_list[i]
<1>1. l \in Lists /\ l[1] = s[1]
  BY ListOfType DEF OwnInv, ListInv, ListOf
<1>2. /\ Split(l)
      /\ wid \in Wids /\ <<s[1], wid>> \in Workers
  BY <1>1, PartitionIsSplit, SwitchToWorkerTypes DEF OwnInv, ListInv
<1>3. wid \in MembersIn(l, {"IDLE"})
  BY <1>2 DEF Split, ToSet
<1>4. wid \in Members(l) /\ worker[<<s[1], wid>>].state = "IDLE"
  BY <1>1, <1>3 DEF MembersIn
<1>5. ASSUME NEW r \in Scheds, r[1] = s[1], scheduler[r].wid = wid
      PROVE  FALSE
  <2>1. Owns(r) /\ wid # NoId
    BY <1>2, EachOwns, BoundsAssumption DEF OwnInv, NoId, Wids
  <2> QED
    BY <1>4, <1>5, <2>1 DEF Owns, Names, Named
<1> QED
  BY <1>2, <1>4, <1>5

LEMMA SwitchToWorkerOwns ==
  ASSUME OwnInv, TypeInv', NEW t \in Tasks, NEW s \in Scheds, RunBy(s, t),
         NEW i \in DOMAIN comp_list[ListOf(s)].idle_list,
         SwitchToWorker(t, s, i)
  PROVE  SchedulerOwnsWorker'
<1> DEFINE wid == comp_list[ListOf(s)].idle_list[i]
           w   == <<s[1], wid>>
<1>1. /\ wid \in Members(ListOf(s)) /\ wid \in Wids /\ w \in Workers
      /\ worker[w].state = "IDLE"
      /\ \A r \in Scheds : r[1] = s[1] => scheduler[r].wid # wid
  BY IdleIsUnnamed
<1>2. /\ worker' = [worker EXCEPT ![w] = Assigned(@, scheduler[s].sid, t)]
      /\ scheduler' = [scheduler EXCEPT ![s] = Hosting(@, wid, regs[t])]
      /\ process' = process
  BY DEF SwitchToWorker
<1> HIDE DEF wid
<1>3. /\ worker'[w] = Assigned(worker[w], scheduler[s].sid, t)
      /\ \A v \in Workers : v # w => worker'[v] = worker[v]
      /\ scheduler'[s] = Hosting(scheduler[s], wid, regs[t])
      /\ \A r \in Scheds : r # s => scheduler'[r] = scheduler[r]
      /\ worker[w] \in WorkerNodes /\ scheduler[s] \in SchedNodes
  BY <1>1, <1>2 DEF OwnInv, ListInv, TypeInv, TypeOK
<1>4. /\ worker'[w].state = "RUNNING" /\ worker'[w].pid = t
      /\ worker'[w].sid = scheduler[s].sid /\ worker'[w].clid = worker[w].clid
      /\ scheduler'[s].wid = wid /\ scheduler'[s].state = "RUNNING"
      /\ scheduler'[s].pid = t /\ scheduler'[s].sid = scheduler[s].sid
      /\ scheduler'[s].comp_list = scheduler[s].comp_list
  BY <1>3 DEF Assigned, Hosting, WorkerNodes, SchedNodes, RunBy
<1>5. wid # NoId
  BY <1>1, BoundsAssumption DEF NoId, Wids
<1>6. Owns(s)'
  <2>1. ListOf(s)' = ListOf(s) /\ Named(s)' = w
    BY <1>4 DEF ListOf, Named
  <2>2. wid \in Members(ListOf(s))'
    BY <1>1, <1>2, <1>4, <2>1 DEF Members, WorkerExists, ListOf
  <2>3. ASSUME NEW r \in Scheds \ {s}, r[1] = s[1]
        PROVE  scheduler'[r].wid # wid
    BY <1>1, <1>3, <2>3
  <2> QED
    BY <1>4, <1>5, <2>1, <2>2, <2>3 DEF Owns, Names
<1>7. ASSUME NEW r \in Scheds, r # s PROVE Owns(r)'
  <2>1. Owns(r) /\ TypeInv
    BY EachOwns DEF OwnInv, ListInv
  <2>2. ASSUME Names(r)
        PROVE  /\ scheduler[r].wid < process'[r[1]].worker_count
               /\ worker'[Named(r)] = worker[Named(r)]
    <3>1. /\ Named(r) \in Workers
          /\ scheduler[r].wid < process[r[1]].worker_count
      BY <2>1, <2>2, NamedType DEF WorkerExists, Named
    <3>2. Named(r) # w
      BY <1>1 DEF Named
    <3> QED
      BY <1>2, <1>3, <3>1, <3>2
  <2>3. ASSUME NEW q \in Scheds \ {r}, q[1] = r[1], scheduler'[q].wid # NoId
        PROVE  scheduler'[q].wid # scheduler[r].wid
    <3>1. Owns(q)
      BY EachOwns DEF OwnInv
    <3>2. CASE q = s
      BY <1>1, <1>4, <2>3, <3>2
    <3>3. CASE q # s
      BY <1>3, <2>3, <3>1, <3>3 DEF Owns, Names
    <3> QED
      BY <3>2, <3>3
  <2> QED
    BY <1>3, <1>7, <2>1, <2>2, <2>3, OwnsFrame
<1> QED
  BY <1>6, <1>7, EachOwnsNext

\* A yield ends what the scheduler and its worker say of each other.
LEMMA SwitchToSchedulerOwns ==
  ASSUME OwnInv, TypeInv', NEW t \in Tasks, NEW status \in Statuses,
         NEW s \in Scheds,
         NEW i \in DOMAIN comp_list[ListOf(s)].busy_list,
         comp_list[ListOf(s)].busy_list[i] = scheduler[s].wid,
         SwitchToScheduler(t, s, i, status)
  PROVE  SchedulerOwnsWorker'
<1> DEFINE node == Waiting(scheduler[s])
<1>1. /\ scheduler[s] \in SchedNodes /\ scheduler[s].wid \in Wids
      /\ Named(s) \in Workers
  BY SwitchToSchedulerTypes DEF OwnInv, ListInv, TypeInv, TypeOK, Named
<1>2. /\ worker' = [worker EXCEPT ![Named(s)] = Released(@, status, regs[t])]
      /\ scheduler' = [scheduler EXCEPT ![s] = node]
      /\ process' = process
  BY DEF SwitchToScheduler, Named
<1>3. node.wid = NoId /\ node.state = "IDLE"
  BY <1>1 DEF Waiting, SchedNodes
<1>4. Names(s)
  BY <1>1, BoundsAssumption DEF Names, NoId, Wids
<1>5. \A v \in Workers : worker'[v] = worker[v] \/ (Names(s) /\ v = Named(s))
  BY <1>1, <1>2, <1>4 DEF OwnInv, ListInv, TypeInv, TypeOK
<1> HIDE DEF node
<1> QED
  BY <1>2, <1>3, <1>5, OwnsReleased DEF OwnInv, ListInv

LEMMA AddSchedulerOwns ==
  ASSUME OwnInv, TypeInv', NEW t \in Tasks, NEW c \in Clids, AddScheduler(t, c)
  PROVE  SchedulerOwnsWorker'
<1> DEFINE p == Tgid[t]
           s == <<p, process[p].schedulers>>
<1>1. p \in Tasks /\ TypeInv
  BY TasksAssumption DEF OwnInv, ListInv
<1>2. s \in Scheds
  BY <1>1, BoundsAssumption
     DEF AddScheduler, TypeInv, TypeOK, ProcessNodes, Scheds, Sids
<1>3. \A q \in Tasks : process'[q].worker_count = process[q].worker_count
  <2>1. \/ process' = [process EXCEPT ![p].schedulers = @ + 1]
        \/ process' = [process EXCEPT ![p].schedulers = @ + 1, ![p].scheduler_count = @ + 1]
    BY DEF AddScheduler
  <2> HIDE DEF p
  <2>2. CASE process' = [process EXCEPT ![p].schedulers = @ + 1]
    BY <1>1, <2>2 DEF TypeInv, TypeOK, ProcessNodes
  <2>3. CASE process' = [process EXCEPT ![p].schedulers = @ + 1, ![p].scheduler_count = @ + 1]
    BY <1>1, <2>3 DEF TypeInv, TypeOK, ProcessNodes
  <2> QED
    BY <2>1, <2>2, <2>3
<1>4. PICK node : /\ scheduler' = [scheduler EXCEPT ![s] = node]
                  /\ node.wid = NoId /\ node.state = "IDLE"
  <2>1. NewSched(t, c).wid = NoId /\ NewSched(t, c).state = "IDLE"
    BY DEF NewSched
  <2> DEFINE full == [NewSched(t, c) EXCEPT !.regs = SchedEntry(s), !.home = regs[t]]
  <2>2. full.wid = NoId /\ full.state = "IDLE"
    BY DEF NewSched
  <2> QED
    BY <2>1, <2>2 DEF AddScheduler
<1>5. worker' = worker
  BY DEF AddScheduler
<1> HIDE DEF s
<1> QED
  BY <1>1, <1>2, <1>3, <1>4, <1>5, OwnsReleased DEF OwnInv

LEMMA RefusalOwns ==
  ASSUME OwnInv, TypeInv', UNCHANGED <<process, worker, scheduler>>
  PROVE  SchedulerOwnsWorker'
BY OwnsUnchanged DEF OwnInv, ListInv

\* The early returns and crashes of all handlers.
LEMMA RefusalChangesNothing ==
  ASSUME NEW t \in Tasks, NEW err,
         Fail(t, err) \/ Miss(t, err) \/ RejectCaller(t) \/ Crash
  PROVE  UNCHANGED <<process, worker, scheduler>>
BY DEF Fail, Miss, RejectCaller, Crash

LEMMA MainRequestOwns ==
  ASSUME OwnInv, TypeInv', NEW t \in Tasks, MainRequest(t)
  PROVE  SchedulerOwnsWorker'
<1>1. CASE EnterUms(t) \/ ExitUms(t) \/ CreateCompletionList(t)
  <2>1. /\ worker' = worker /\ scheduler' = scheduler
        /\ \A p \in Tasks : process'[p].worker_count = process[p].worker_count
    <3>1. process \in [Tasks -> ProcessNodes]
      BY DEF OwnInv, ListInv, TypeInv, TypeOK
    <3>2. CASE EnterUms(t)
      BY <3>1, <3>2 DEF EnterUms, Fail, ProcessNodes
    <3>3. CASE ExitUms(t)
      BY <3>1, <3>3 DEF ExitUms, Fail, ProcessNodes
    <3>4. CASE CreateCompletionList(t)
      BY <3>1, <3>4 DEF CreateCompletionList, Fail, ProcessNodes
    <3> QED
      BY <1>1, <3>2, <3>3, <3>4
  <2> QED
    BY <2>1, OwnsUnchanged DEF OwnInv, ListInv
<1>2. ASSUME NEW c \in Clids, CreateWorkerThread(t, c)
      PROVE  SchedulerOwnsWorker'
  <2>1. CASE \E err \in Errors : Fail(t, err) \/ Miss(t, err)
    BY <2>1, RefusalChangesNothing, RefusalOwns
  <2>2. CASE AddWorker(t, c)
    BY <2>2, AddWorkerOwns
  <2> QED
    BY <1>2, <2>1, <2>2 DEF CreateWorkerThread, Errors
<1> QED
  BY <1>1, <1>2 DEF MainRequest

LEMMA ExitSchedulingModeOwns ==
  ASSUME OwnInv, TypeInv', NEW t \in Tasks, ExitSchedulingMode(t)
  PROVE  SchedulerOwnsWorker'
<1>1. CASE \E err \in Errors : RejectCaller(t) \/ Fail(t, err) \/ Crash
  BY <1>1, RefusalChangesNothing, RefusalOwns
<1>2. ASSUME NEW s \in Scheds, Unoccupied(scheduler[s]),
             scheduler' = [scheduler EXCEPT ![s] = Left(@)],
             UNCHANGED <<process, comp_list, worker>>
      PROVE  SchedulerOwnsWorker'
  <2> DEFINE node == Left(scheduler[s])
  <2>1. scheduler[s] \in SchedNodes /\ scheduler[s].wid = NoId
    BY <1>2 DEF OwnInv, ListInv, TypeInv, TypeOK, Unoccupied
  <2>2. node.wid = NoId /\ node.state = "FINISHED"
    BY <2>1 DEF Left, SchedNodes
  <2>3. scheduler' = [scheduler EXCEPT ![s] = node]
    BY <1>2
  <2> HIDE DEF node
  <2> QED
    BY <1>2, <2>2, <2>3, OwnsReleased DEF OwnInv, ListInv
<1> QED
  BY <1>1, <1>2 DEF ExitSchedulingMode, Errors

LEMMA SchedulerRequestOwns ==
  ASSUME OwnInv, TypeInv', NEW t \in Tasks, SchedulerRequest(t)
  PROVE  SchedulerOwnsWorker'
<1>1. ASSUME NEW c \in Clids, EnterSchedulingMode(t, c)
      PROVE  SchedulerOwnsWorker'
  <2>1. CASE \E err \in Errors : Fail(t, err) \/ Miss(t, err) \/ Crash
    BY <2>1, RefusalChangesNothing, RefusalOwns
  <2> QED
    BY <1>1, <2>1, AddSchedulerOwns DEF EnterSchedulingMode, Errors
<1>2. CASE ExitSchedulingMode(t)
  BY <1>2, ExitSchedulingModeOwns
<1>3. ASSUME NEW wid \in Wids \cup {NoId}, ExecuteThread(t, wid)
      PROVE  SchedulerOwnsWorker'
  <2>1. CASE \E err \in Errors : RejectCaller(t) \/ Fail(t, err) \/ Miss(t, err)
    BY <2>1, RefusalChangesNothing, RefusalOwns
  <2>2. CASE \E s \in Scheds : \E i \in DOMAIN comp_list[ListOf(s)].idle_list :
               RunBy(s, t) /\ SwitchToWorker(t, s, i)
    BY <2>2, SwitchToWorkerOwns
  <2> QED
    BY <1>3, <2>1, <2>2 DEF ExecuteThread, Errors
<1>4. ASSUME NEW status \in Statuses, ThreadYield(t, status)
      PROVE  SchedulerOwnsWorker'
  <2>1. CASE \E err \in Errors : RejectCaller(t) \/ Fail(t, err) \/ Miss(t, err)
    BY <2>1, RefusalChangesNothing, RefusalOwns
  <2>2. CASE \E s \in Scheds : \E i \in DOMAIN comp_list[ListOf(s)].busy_list :
               /\ comp_list[ListOf(s)].busy_list[i] = scheduler[s].wid
               /\ SwitchToScheduler(t, s, i, status)
    BY <2>2, SwitchToSchedulerOwns
  <2> QED
    BY <1>4, <2>1, <2>2 DEF ThreadYield, Errors
<1>5. CASE DequeueCompletionListItems(t)
  <2>1. CASE RejectCaller(t)
    BY <2>1, RefusalChangesNothing, RefusalOwns
  <2>2. CASE UNCHANGED <<process, worker, scheduler>>
    BY <2>2, RefusalOwns
  <2> QED
    BY <1>5, <2>1, <2>2 DEF DequeueCompletionListItems, Fail
<1> QED
  BY <1>1, <1>2, <1>3, <1>4, <1>5 DEF SchedulerRequest

LEMMA OwnInit == Init => OwnInv
<1> SUFFICES ASSUME Init PROVE SchedulerOwnsWorker
  BY ListInit DEF OwnInv
<1>1. \A s \in Scheds : scheduler[s].wid = NoId /\ scheduler[s].state = "IDLE"
  BY DEF Init, NoSched
<1> QED
  BY <1>1 DEF SchedulerOwnsWorker

LEMMA OwnStep == OwnInv /\ [Next]_vars => OwnInv'
<1> SUFFICES ASSUME OwnInv, [Next]_vars PROVE OwnInv'
  OBVIOUS
<1>1. ListInv'
  BY ListStep DEF OwnInv
<1>2. TypeInv'
  BY <1>1 DEF ListInv
<1>3. CASE UNCHANGED vars
  BY <1>1, <1>2, <1>3, RefusalOwns DEF vars, OwnInv
<1>4. CASE Next
  <2>1. \A t \in Owners : t \in Tasks
    BY TasksAssumption
  <2> QED
    BY <1>1, <1>2, <1>4, <2>1, MainRequestOwns, SchedulerRequestOwns DEF Next, OwnInv
<1> QED
  BY <1>3, <1>4

\* A scheduler is RUNNING exactly while it names a worker, and that worker is
\* RUNNING, of its list, marked with its sid and pid and named by nobody else,
\* whichever handlers any tasks call from whichever context, and whichever
\* kernel services fail.
THEOREM SchedulersOwnWorkers == Spec => []SchedulerOwnsWorker
<1>1. Init => OwnInv
  BY OwnInit
<1>2. OwnInv /\ [Next]_vars => OwnInv'
  BY OwnStep
<1>3. OwnInv => SchedulerOwnsWorker
  BY DEF OwnInv
<1> QED
  BY <1>1, <1>2, <1>3, PTL DEF Spec

-----------------------------------------------------------------------------
(* Finished workers *)

FinishedKept ==
  \A w \in Workers :
    WorkerExists(w) /\ worker[w].state = "FINISHED" => worker'[w] = worker[w]

\* A worker node is written when it is created, when it is IDLE, and when a
\* scheduler names it, hence RUNNING: never when it is FINISHED.
LEMMA RequestsKeepFinished ==
  ASSUME OwnInv, NEW t \in Tasks, MainRequest(t) \/ SchedulerRequest(t)
  PROVE  FinishedKept
<1>1. CASE worker' = worker
  BY <1>1 DEF FinishedKept
<1>2. ASSUME NEW c \in Clids, AddWorker(t, c)
      PROVE  FinishedKept
  <2> DEFINE wid == process[t].worker_count
  <2>1. wid \in Nat /\ ~ WorkerExists(<<t, wid>>)
    BY BoundsAssumption DEF OwnInv, ListInv, TypeInv, TypeOK, ProcessNodes, WorkerExists
  <2>2. \A v \in Workers : v # <<t, wid>> => worker'[v] = worker[v]
    BY <1>2 DEF AddWorker, OwnInv, ListInv, TypeInv, TypeOK
  <2> QED
    BY <2>1, <2>2 DEF FinishedKept
<1>3. ASSUME NEW s \in Scheds,
             NEW i \in DOMAIN comp_list[ListOf(s)].idle_list,
             SwitchToWorker(t, s, i)
      PROVE  FinishedKept
  <2> DEFINE w == <<s[1], comp_list[ListOf(s)].idle_list[i]>>
  <2>1. w \in Workers /\ worker[w].state = "IDLE"
    BY IdleIsUnnamed
  <2>2. \A v \in Workers : v # w => worker'[v] = worker[v]
    BY <1>3, <2>1 DEF SwitchToWorker, OwnInv, ListInv, TypeInv, TypeOK
  <2> QED
    BY <2>1, <2>2 DEF FinishedKept
<1>4. ASSUME NEW status \in Statuses, NEW s \in Scheds,
             NEW i \in DOMAIN comp_list[ListOf(s)].busy_list,
             comp_list[ListOf(s)].busy_list[i] = scheduler[s].wid,
             SwitchToScheduler(t, s, i, status)
      PROVE  FinishedKept
  <2>1. scheduler[s].wid \in Wids /\ Named(s) \in Workers
    BY <1>4, SwitchToSchedulerTypes DEF OwnInv, ListInv, Named
  <2>2. worker[Named(s)].state = "RUNNING"
    BY <2>1, EachOwns, BoundsAssumption DEF OwnInv, Owns, Names, NoId, Wids
  <2>3. \A v \in Workers : v # Named(s) => worker'[v] = worker[v]
    BY <1>4, <2>1 DEF SwitchToScheduler, Named, OwnInv, ListInv, TypeInv, TypeOK
  <2> QED
    BY <2>2, <2>3 DEF FinishedKept
<1>5. ASSUME MainRequest(t), worker' # worker
      PROVE  \E c \in Clids : AddWorker(t, c)
  BY <1>5 DEF MainRequest, EnterUms, ExitUms, CreateCompletionList,
              CreateWorkerThread, Fail, Miss, Crash
<1>6. ASSUME NEW wid, ExecuteThread(t, wid), worker' # worker
      PROVE  \E s \in Scheds : \E i \in DOMAIN comp_list[ListOf(s)].idle_list :
               SwitchToWorker(t, s, i)
  BY <1>6 DEF ExecuteThread, RejectCaller, Fail, Miss, Crash
<1>7. ASSUME NEW status \in Statuses, ThreadYield(t, status), worker' # worker
      PROVE  \E s \in Scheds : \E i \in DOMAIN comp_list[ListOf(s)].busy_list :
               /\ comp_list[ListOf(s)].busy_list[i] = scheduler[s].wid
               /\ SwitchToScheduler(t, s, i, status)
  BY <1>7 DEF ThreadYield, RejectCaller, Fail, Miss, Crash
<1>8. ASSUME NEW c \in Clids, EnterSchedulingMode(t, c)
      PROVE  worker' = worker
  BY <1>8 DEF EnterSchedulingMode, AddScheduler, Fail, Miss, Crash
<1>9. CASE ExitSchedulingMode(t) \/ DequeueCompletionListItems(t)
  BY <1>1, <1>9 DEF ExitSchedulingMode, DequeueCompletionListItems,
                    RejectCaller, Fail, Miss, Crash
<1> QED
  BY <1>1, <1>2, <1>3, <1>4, <1>5, <1>6, <1>7, <1>8, <1>9 DEF SchedulerRequest

\* A finished worker is never executed, paused or finished again, on any task:
\* its node is not written any more.
THEOREM FinishedStays == Spec => FinishedForever
<1>1. Init => OwnInv
  BY OwnInit
<1>2. OwnInv /\ [Next]_vars => OwnInv'
  BY OwnStep
<1>3. OwnInv /\ [Next]_vars => [FinishedKept]_vars
  <2> SUFFICES ASSUME OwnInv, Next PROVE FinishedKept
    OBVIOUS
  <2>1. \A t \in Owners : t \in Tasks
    BY TasksAssumption
  <2> QED
    BY <2>1, RequestsKeepFinished DEF Next
<1> QED
  BY <1>1, <1>2, <1>3, PTL DEF Spec, FinishedForever, FinishedKept
-----------------------------------------------------------------------------
(* The counters *)

\* The conjuncts of CountersMatch for one list.
CountsMatch(l) ==
  /\ comp_list[l].idle_count = Len(comp_list[l].idle_list)
  /\ comp_list[l].busy_count = Len(comp_list[l].busy_list)
  /\ comp_list[l].worker_count = Len(comp_list[l].idle_list) + Len(comp_list[l].busy_list)
  /\ comp_list[l].finished_count = Cardinality(MembersIn(l, {"FINISHED"}))

\* A scheduler is only ever attached to a list that was created.
UsedExists == \A l \in Lists : comp_list[l].state = "RUNNING" => ListExists(l)

CountInv == OwnInv /\ CountersMatch /\ UsedExists

\* What each step is shown to do to list l.
Kept(l) ==
  /\ CountsMatch(l)'
  /\ (comp_list'[l].state = "RUNNING" => ListExists(l)')
  /\ Complete(l) => Complete(l)'

LEMMA EachCounted == CountersMatch <=> \A l \in Lists : CountsMatch(l)
  BY DEF CountersMatch, CountsMatch

LEMMA EachKept ==
  ASSUME \A l \in Lists : Kept(l)
  PROVE  /\ CountersMatch' /\ UsedExists'
         /\ \A l \in Lists : Complete(l) => Complete(l)'
  BY DEF CountersMatch, CountsMatch, UsedExists, Kept

\* The length of both lists together, when a worker joins one or changes lists.
LEMMA Moved ==
  ASSUME NEW a \in Nat, NEW b \in Nat
  PROVE  /\ (a + 1) + b = (a + b) + 1
         /\ (a - 1) + (b + 1) = a + b
         /\ (a + 1) + (b - 1) = a + b
  OBVIOUS

LEMMA MembersFinite ==
  ASSUME NEW l, NEW S
  PROVE  IsFiniteSet(MembersIn(l, S))
<1>1. IsFiniteSet(Wids)
  BY BoundsAssumption, FS_Interval DEF Wids
<1>2. MembersIn(l, S) \subseteq Wids
  BY DEF MembersIn, Members
<1> QED
  BY <1>1, <1>2, FS_Subset

\* A step that leaves a list and its members alone; the list may become used.
LEMMA KeptFrame ==
  ASSUME CountInv, NEW l \in Lists,
         \/ comp_list'[l] = comp_list[l]
         \/ comp_list'[l] = [comp_list[l] EXCEPT !.state = "RUNNING"] /\ ListExists(l),
         ListExists(l) => ListExists(l)',
         \A S : MembersIn(l, S)' = MembersIn(l, S)
  PROVE  Kept(l)
<1>1. comp_list[l] \in ListNodes /\ CountsMatch(l)
  BY EachCounted DEF CountInv, OwnInv, ListInv, TypeInv, TypeOK
<1>2. /\ comp_list'[l].idle_list = comp_list[l].idle_list
      /\ comp_list'[l].busy_list = comp_list[l].busy_list
      /\ comp_list'[l].idle_count = comp_list[l].idle_count
      /\ comp_list'[l].busy_count = comp_list[l].busy_count
      /\ comp_list'[l].worker_count = comp_list[l].worker_count
      /\ comp_list'[l].finished_count = comp_list[l].finished_count
      /\ comp_list[l].state = "RUNNING" => comp_list'[l].state = "RUNNING"
      /\ comp_list'[l].state = "RUNNING" => comp_list[l].state = "RUNNING" \/ ListExists(l)
  BY <1>1 DEF ListNodes
<1>3. /\ MembersIn(l, {"FINISHED"})' = MembersIn(l, {"FINISHED"})
      /\ MembersIn(l, {"IDLE", "RUNNING"})' = MembersIn(l, {"IDLE", "RUNNING"})
  OBVIOUS
<1>4. CountsMatch(l)'
  BY <1>1, <1>2, <1>3 DEF CountsMatch
<1> QED
  BY <1>2, <1>3, <1>4 DEF CountInv, UsedExists, Complete, Kept

\* No list and no worker changes.
LEMMA KeptUnchanged ==
  ASSUME CountInv, worker' = worker, TypeInv',
         \A p \in Tasks : /\ process'[p].worker_count = process[p].worker_count
                          /\ process'[p].list_count = process[p].list_count,
         comp_list' = comp_list, NEW l \in Lists
  PROVE  Kept(l)
<1>1. l[1] \in Tasks
  BY DEF Lists
<1>2. \A S : MembersIn(l, S)' = MembersIn(l, S)
  BY <1>1, MembersFrame DEF CountInv, OwnInv, ListInv
<1>3. ListExists(l) => ListExists(l)'
  BY <1>1 DEF ListExists
<1> QED
  BY <1>2, <1>3, KeptFrame

-----------------------------------------------------------------------------
(* The requests that change lists *)

\* An id that is handed out for a new list is that of a list without members,
\* which no scheduler uses.
LEMMA CreateCompletionListKeeps ==
  ASSUME CountInv, TypeInv', NEW t \in Tasks, CreateCompletionList(t), NEW l \in Lists,
         NEW n, n = process[t].list_count
  PROVE  Kept(l)
<1> DEFINE new == <<t, n>>
<1>1. TypeInv /\ ListInv /\ UsedExists
  BY DEF CountInv, OwnInv, ListInv
<1>2. CASE Fail(t, "PROCESS_NOT_FOUND")
  BY <1>2, KeptUnchanged DEF Fail
<1>3. CASE /\ process[t].list_count < MaxLists
           /\ process' = [process EXCEPT ![t].list_count = @ + 1]
           /\ comp_list' = [comp_list EXCEPT ![<<t, process[t].list_count>>] = EmptyList]
           /\ UNCHANGED worker
  <2>1. n \in Nat /\ new \in Lists
    BY <1>1, <1>3, BoundsAssumption
       DEF TypeInv, TypeOK, ProcessNodes, Clids, Lists
  <2>2. \A p \in Tasks :
          /\ process'[p].worker_count = process[p].worker_count
          /\ process[p].list_count \in Nat
          /\ process'[p].list_count = IF p = t THEN n + 1 ELSE process[p].list_count
    BY <1>1, <1>3, BoundsAssumption DEF TypeInv, TypeOK, ProcessNodes
  <2>3. l[1] \in Tasks /\ l[2] \in Nat /\ l = <<l[1], l[2]>>
    BY BoundsAssumption DEF Lists, Clids
  <2>4. \A S : MembersIn(l, S)' = MembersIn(l, S)
    BY <1>1, <1>3, <2>2, <2>3, MembersFrame
  <2>5. CASE l = new
    <3>1. \A S : MembersIn(new, S) = {}
      <4> SUFFICES ASSUME NEW k \in Wids, WorkerExists(<<t, k>>),
                          worker[<<t, k>>].clid = n
                   PROVE  FALSE
        BY DEF MembersIn, Members
      <4>1. <<t, k>> \in Workers
        BY DEF Workers
      <4>2. ListExists(<<t, n>>)
        BY <1>1, <4>1 DEF ListInv, WorkersHaveList
      <4> QED
        BY <2>1, <4>2 DEF ListExists
    <3>2. comp_list'[l] = EmptyList
      BY <1>1, <1>3, <2>1, <2>5 DEF TypeInv, TypeOK
    <3>3. comp_list[l].state # "RUNNING"
      BY <1>1, <2>1, <2>5 DEF UsedExists, ListExists
    <3>4. Cardinality(MembersIn(l, {"FINISHED"})') = 0
      BY <2>4, <2>5, <3>1, FS_EmptySet
    <3>5. /\ EmptyList.idle_list = <<>> /\ EmptyList.busy_list = <<>>
          /\ EmptyList.idle_count = 0 /\ EmptyList.busy_count = 0
          /\ EmptyList.worker_count = 0 /\ EmptyList.finished_count = 0
          /\ EmptyList.state = "IDLE"
      BY DEF EmptyList
    <3>6. CountsMatch(l)'
      <4>1. Cardinality(MembersIn(l, {"FINISHED"}))' = 0
        BY <3>4
      <4> QED
        BY <3>2, <3>5, <4>1 DEF CountsMatch
    <3> QED
      BY <3>2, <3>3, <3>5, <3>6 DEF Kept, Complete
  <2>6. CASE l # new
    <3>1. comp_list'[l] = comp_list[l]
      BY <1>1, <1>3, <2>1, <2>6 DEF TypeInv, TypeOK
    <3>2. ListExists(l) => ListExists(l)'
      BY <2>2, <2>3 DEF ListExists
    <3> QED
      BY <2>4, <3>1, <3>2, KeptFrame
  <2> QED
    BY <2>5, <2>6
<1> QED
  BY <1>2, <1>3 DEF CreateCompletionList

\* A new worker is IDLE, and its list is not used by a scheduler yet.
LEMMA AddWorkerKeeps ==
  ASSUME CountInv, NEW t \in Tasks, NEW c \in Clids, Modifiable(comp_list[<<t, c>>]),
         AddWorker(t, c), NEW l \in Lists,
         NEW wid, wid = process[t].worker_count
  PROVE  Kept(l)
<1>1. TypeInv /\ ListInv
  BY DEF CountInv, OwnInv, ListInv
<1>2. /\ wid \in Wids
      /\ \A m \in Lists, k \in Wids : \A S :
           k \in MembersIn(m, S)' <=>
             \/ k \in MembersIn(m, S)
             \/ m = <<t, c>> /\ k = wid /\ "IDLE" \in S
  <2>1. ListInv /\ AddWorker(t, c) /\ wid = process[t].worker_count
    BY <1>1
  <2> QED
    BY <2>1, AddWorkerMembers
<1>3. \A S : MembersIn(l, S) \subseteq Wids /\ MembersIn(l, S)' \subseteq Wids
  BY DEF MembersIn, Members
<1>4. /\ <<t, c>> \in Lists
      /\ comp_list' = [comp_list EXCEPT ![<<t, c>>] = LinkIdle(@, wid)]
  BY DEF AddWorker, Lists
<1>5. ListExists(l)' <=> ListExists(l)
  <2>1. \A p \in Tasks : process'[p].list_count = process[p].list_count
    BY <1>1 DEF AddWorker, TypeInv, TypeOK, ProcessNodes
  <2> QED
    BY <2>1 DEF ListExists, Lists
<1>6. CASE l = <<t, c>>
  <2>1. comp_list[l] \in ListNodes /\ comp_list'[l] = LinkIdle(comp_list[l], wid)
    BY <1>1, <1>4, <1>6 DEF TypeInv, TypeOK
  <2>2. /\ comp_list[l].idle_list \in Seq(Wids) /\ comp_list[l].busy_list \in Seq(Wids)
        /\ comp_list'[l].idle_list = Append(comp_list[l].idle_list, wid)
        /\ comp_list'[l].busy_list = comp_list[l].busy_list
        /\ comp_list'[l].idle_count = comp_list[l].idle_count + 1
        /\ comp_list'[l].busy_count = comp_list[l].busy_count
        /\ comp_list'[l].worker_count = comp_list[l].worker_count + 1
        /\ comp_list'[l].finished_count = comp_list[l].finished_count
        /\ comp_list'[l].state = comp_list[l].state
    BY <2>1 DEF LinkIdle, ListNodes
  <2>3. /\ Len(comp_list'[l].idle_list) = Len(comp_list[l].idle_list) + 1
        /\ Len(comp_list[l].idle_list) \in Nat /\ Len(comp_list[l].busy_list) \in Nat
    BY <1>2, <2>2, AppendProperties, LenProperties
  <2>4. MembersIn(l, {"FINISHED"})' = MembersIn(l, {"FINISHED"})
    <3>1. "IDLE" \notin {"FINISHED"}
      OBVIOUS
    <3>2. \A k \in Wids : k \in MembersIn(l, {"FINISHED"})' <=> k \in MembersIn(l, {"FINISHED"})
      BY <1>2, <3>1
    <3> QED
      BY <1>3, <3>2
  <2>5. CountsMatch(l)
    BY EachCounted DEF CountInv
  <2>6. CountsMatch(l)'
    <3>1. Cardinality(MembersIn(l, {"FINISHED"}))' = Cardinality(MembersIn(l, {"FINISHED"}))
      BY <2>4
    <3>2. comp_list'[l].finished_count = Cardinality(MembersIn(l, {"FINISHED"}))'
      BY <2>2, <2>5, <3>1 DEF CountsMatch
    <3>3. /\ comp_list'[l].idle_count = Len(comp_list'[l].idle_list)
          /\ comp_list'[l].busy_count = Len(comp_list'[l].busy_list)
          /\ comp_list'[l].worker_count =
               Len(comp_list'[l].idle_list) + Len(comp_list'[l].busy_list)
      <4>1. /\ comp_list[l].idle_count = Len(comp_list[l].idle_list)
            /\ comp_list[l].busy_count = Len(comp_list[l].busy_list)
            /\ comp_list[l].worker_count =
                 Len(comp_list[l].idle_list) + Len(comp_list[l].busy_list)
        BY <2>5 DEF CountsMatch
      <4>2. /\ comp_list'[l].idle_count = comp_list[l].idle_count + 1
            /\ comp_list'[l].busy_count = comp_list[l].busy_count
            /\ comp_list'[l].worker_count = comp_list[l].worker_count + 1
            /\ Len(comp_list'[l].busy_list) = Len(comp_list[l].busy_list)
        BY <2>2
      <4>3. (Len(comp_list[l].idle_list) + 1) + Len(comp_list[l].busy_list)
              = (Len(comp_list[l].idle_list) + Len(comp_list[l].busy_list)) + 1
        BY <2>3, Moved
      <4> QED
        BY <2>3, <4>1, <4>2, <4>3, Zenon
    <3> QED
      BY <3>2, <3>3 DEF CountsMatch
  <2>7. comp_list[l].state # "RUNNING"
    BY <1>6 DEF Modifiable
  <2> QED
    BY <2>2, <2>6, <2>7 DEF Kept, Complete
<1>7. CASE l # <<t, c>>
  <2>1. \A S : MembersIn(l, S)' = MembersIn(l, S)
    <3> SUFFICES ASSUME NEW S PROVE MembersIn(l, S)' = MembersIn(l, S)
      OBVIOUS
    <3>1. \A k \in Wids : k \in MembersIn(l, S)' <=> k \in MembersIn(l, S)
      BY <1>2, <1>7
    <3> QED
      BY <1>3, <3>1
  <2>2. comp_list'[l] = comp_list[l]
    BY <1>1, <1>4, <1>7 DEF TypeInv, TypeOK
  <2> QED
    BY <1>5, <2>1, <2>2, KeptFrame
<1> QED
  BY <1>6, <1>7

\* A list becomes RUNNING only if the lookup found it.
LEMMA AddSchedulerKeeps ==
  ASSUME CountInv, TypeInv', NEW t \in Tasks, NEW c \in Clids,
         ListExists(<<Tgid[t], c>>), AddScheduler(t, c), NEW l \in Lists
  PROVE  Kept(l)
<1>1. TypeInv /\ Tgid[t] \in Tasks /\ l[1] \in Tasks
  BY TasksAssumption DEF CountInv, OwnInv, ListInv, Lists
<1>2. \A p \in Tasks : /\ process'[p].worker_count = process[p].worker_count
                       /\ process'[p].list_count = process[p].list_count
  <2> DEFINE p == Tgid[t]
             n == process[p].schedulers
             k == process[p].scheduler_count
  <2>1. \/ process' = [process EXCEPT ![p].schedulers = n + 1]
        \/ process' = [process EXCEPT ![p].schedulers = n + 1,
                                      ![p].scheduler_count = k + 1]
    BY DEF AddScheduler
  <2>2. p \in Tasks
    BY <1>1
  <2> HIDE DEF n, k, p
  <2> QED
    BY <1>1, <2>1, <2>2 DEF TypeInv, TypeOK, ProcessNodes
<1>3. \A S : MembersIn(l, S)' = MembersIn(l, S)
  BY <1>1, <1>2, MembersFrame DEF AddScheduler
<1>4. ListExists(l) => ListExists(l)'
  BY <1>1, <1>2 DEF ListExists
<1>5. \/ comp_list'[l] = comp_list[l]
      \/ comp_list'[l] = [comp_list[l] EXCEPT !.state = "RUNNING"] /\ ListExists(l)
  <2> DEFINE m == <<Tgid[t], c>>
  <2>1. m \in Lists
    BY <1>1 DEF Lists
  <2>2. \/ comp_list' = comp_list
        \/ comp_list' = [comp_list EXCEPT ![m] = [@ EXCEPT !.state = "RUNNING"]]
    BY DEF AddScheduler
  <2> HIDE DEF m
  <2>3. /\ l # m => comp_list'[l] = comp_list[l]
        /\ \/ comp_list'[m] = comp_list[m]
           \/ comp_list'[m] = [comp_list[m] EXCEPT !.state = "RUNNING"]
    BY <1>1, <2>1, <2>2 DEF TypeInv, TypeOK
  <2>4. ListExists(m)
    BY DEF m
  <2> QED
    BY <2>3, <2>4
<1> QED
  BY <1>3, <1>4, <1>5, KeptFrame

\* The other lists of a switch: the worker is no member of theirs.
LEMMA OtherListKept ==
  ASSUME CountInv, NEW l \in Lists, NEW m \in Lists, m # l,
         NEW wid \in Members(l), NEW node,
         Replaced(<<l[1], wid>>, node),
         comp_list'[m] = comp_list[m]
  PROVE  Kept(m)
<1> DEFINE w == <<l[1], wid>>
<1>1. w \in Workers /\ worker[w].clid = l[2] /\ w[1] = l[1] /\ w[2] = wid
  BY DEF Members, Workers, Lists
<1>2. ~ (m[1] = w[1] /\ w[2] \in Members(m))
  BY <1>1 DEF Members, Lists
<1>3. ASSUME NEW S PROVE MembersIn(m, S)' = MembersIn(m, S)
  BY <1>1, <1>2, MembersOfChanged DEF CountInv, OwnInv, ListInv
<1> QED
  BY <1>3, KeptFrame DEF ListExists, Replaced

Finished(l) == MembersIn(l, {"FINISHED"})

\* The finished members of the list of a switch.
LEMMA SwitchedMembers ==
  ASSUME CountInv, NEW l \in Lists, NEW wid \in Members(l), NEW node,
         Replaced(<<l[1], wid>>, node)
  PROVE  Finished(l)' = IF node.state = "FINISHED" THEN Finished(l) \cup {wid}
                                                   ELSE Finished(l) \ {wid}
<1> DEFINE w == <<l[1], wid>>
           S == {"FINISHED"}
<1>1. w \in Workers /\ w[1] = l[1] /\ w[2] = wid
  BY DEF Members, Workers, Lists
<1>2. Replaced(w, node)
  OBVIOUS
<1>3. wid \in Members(l) /\ TypeInv
  BY DEF CountInv, OwnInv, ListInv
<1>4. node.state \in S <=> node.state = "FINISHED"
  OBVIOUS
<1> HIDE DEF w, S
<1>5. /\ node.state \in S => MembersIn(l, S)' = MembersIn(l, S) \cup {wid}
      /\ node.state \notin S => MembersIn(l, S)' = MembersIn(l, S) \ {wid}
  BY <1>1, <1>2, <1>3, MembersOfChanged
<1> QED
  BY <1>4, <1>5 DEF S, Finished

\* execute_thread moves an idle worker: the list is not complete.
LEMMA SwitchToWorkerKeeps ==
  ASSUME CountInv, NEW t \in Tasks, NEW s \in Scheds, RunBy(s, t),
         NEW i \in DOMAIN comp_list[ListOf(s)].idle_list,
         SwitchToWorker(t, s, i), NEW m \in Lists
  PROVE  Kept(m)
<1>1. TypeInv /\ OwnInv /\ UsedExists
  BY DEF CountInv, OwnInv, ListInv
<1> PICK l \in Lists : l = ListOf(s) /\ l[1] = s[1]
  BY <1>1, ListOfType DEF ListOf
<1> PICK n \in ListNodes : n = comp_list[l]
  BY <1>1 DEF TypeInv, TypeOK
<1>2. /\ n.idle_list \in Seq(Wids) /\ n.busy_list \in Seq(Wids)
      /\ i \in 1 .. Len(n.idle_list)
  BY <1>1, SwitchToWorkerTypes
<1> PICK wid : wid = n.idle_list[i]
  OBVIOUS
<1>3. /\ wid \in Members(l) /\ wid \in Wids /\ <<l[1], wid>> \in Workers
      /\ worker[<<l[1], wid>>].state = "IDLE"
  BY <1>1, IdleIsUnnamed
<1> DEFINE node == Assigned(worker[<<l[1], wid>>], scheduler[s].sid, t)
<1>4. node.clid = worker[<<l[1], wid>>].clid /\ node.state = "RUNNING"
  <2>1. worker[<<l[1], wid>>] \in WorkerNodes
    BY <1>1, <1>3 DEF TypeInv, TypeOK
  <2> QED
    BY <2>1 DEF Assigned, WorkerNodes
<1>5. /\ process' = process
      /\ worker' = [worker EXCEPT ![<<l[1], wid>>] = node]
      /\ comp_list' = [comp_list EXCEPT ![l] = MoveToBusy(n, i)]
  BY DEF SwitchToWorker
<1>6. Replaced(<<l[1], wid>>, node)
  BY <1>4, <1>5 DEF Replaced
<1> HIDE DEF node
<1>7. /\ comp_list'[l] = MoveToBusy(n, i)
      /\ \A k \in Lists : k # l => comp_list'[k] = comp_list[k]
  BY <1>1, <1>5 DEF TypeInv, TypeOK
<1>8. /\ comp_list'[l].idle_list = RemoveAt(n.idle_list, i)
      /\ comp_list'[l].busy_list = Append(n.busy_list, wid)
      /\ comp_list'[l].idle_count = n.idle_count - 1
      /\ comp_list'[l].busy_count = n.busy_count + 1
      /\ comp_list'[l].worker_count = n.worker_count
      /\ comp_list'[l].finished_count = n.finished_count
      /\ comp_list'[l].state = n.state
  BY <1>7 DEF MoveToBusy, ListNodes
<1>9. /\ Len(comp_list'[l].idle_list) = Len(n.idle_list) - 1
      /\ Len(comp_list'[l].busy_list) = Len(n.busy_list) + 1
      /\ Len(n.idle_list) \in Nat /\ Len(n.busy_list) \in Nat
  <2>1. Len(n.idle_list) \in Nat /\ Len(n.busy_list) \in Nat
    BY <1>2, LenProperties
  <2>2. Len(comp_list'[l].idle_list) = Len(n.idle_list) - 1
    BY <1>2, <1>8, RemoveAtProperties
  <2>3. Len(comp_list'[l].busy_list) = Len(n.busy_list) + 1
    BY <1>2, <1>3, <1>8, AppendProperties
  <2> QED
    BY <2>1, <2>2, <2>3
<1>10. CountsMatch(l)'
  <2>1. Finished(l)' = Finished(l) \ {wid}
    <3>1. node.state # "FINISHED"
      BY <1>4
    <3> QED
      BY <1>3, <1>6, <3>1, SwitchedMembers
  <2>2. wid \notin Finished(l)
    BY <1>3 DEF Finished, MembersIn
  <2>3. MembersIn(l, {"FINISHED"})' = MembersIn(l, {"FINISHED"})
    BY <2>1, <2>2 DEF Finished
  <2>4. CountsMatch(l)
    BY EachCounted DEF CountInv
  <2>5. comp_list'[l].finished_count = Cardinality(MembersIn(l, {"FINISHED"}))'
    <3>1. Cardinality(MembersIn(l, {"FINISHED"}))' = Cardinality(MembersIn(l, {"FINISHED"}))
      BY <2>3
    <3> QED
      BY <1>8, <2>4, <3>1 DEF CountsMatch
  <2>6. /\ comp_list'[l].idle_count = Len(comp_list'[l].idle_list)
        /\ comp_list'[l].busy_count = Len(comp_list'[l].busy_list)
        /\ comp_list'[l].worker_count =
             Len(comp_list'[l].idle_list) + Len(comp_list'[l].busy_list)
    <3>1. /\ n.idle_count = Len(n.idle_list) /\ n.busy_count = Len(n.busy_list)
          /\ n.worker_count = Len(n.idle_list) + Len(n.busy_list)
      BY <2>4 DEF CountsMatch
    <3>2. /\ comp_list'[l].idle_count = n.idle_count - 1
          /\ comp_list'[l].busy_count = n.busy_count + 1
          /\ comp_list'[l].worker_count = n.worker_count
      BY <1>8
    <3>3. (Len(n.idle_list) - 1) + (Len(n.busy_list) + 1)
            = Len(n.idle_list) + Len(n.busy_list)
      BY <1>9, Moved
    <3> QED
      BY <1>9, <3>1, <3>2, <3>3, Zenon
  <2> QED
    BY <2>5, <2>6 DEF CountsMatch
<1>11. ~ Complete(l)
  BY <1>3 DEF Complete, MembersIn
<1>12. comp_list'[l].state = "RUNNING" => ListExists(l)'
  BY <1>1, <1>5, <1>8 DEF UsedExists, ListExists
<1>13. ASSUME m # l PROVE Kept(m)
  BY <1>3, <1>7, <1>13, <1>6, OtherListKept
<1> QED
  BY <1>10, <1>11, <1>12, <1>13 DEF Kept

\* thread_yield moves or counts a running worker: the list is not complete.
LEMMA SwitchToSchedulerKeeps ==
  ASSUME CountInv, NEW t \in Tasks, NEW status \in Statuses, NEW s \in Scheds,
         NEW i \in DOMAIN comp_list[ListOf(s)].busy_list,
         comp_list[ListOf(s)].busy_list[i] = scheduler[s].wid,
         SwitchToScheduler(t, s, i, status), NEW m \in Lists
  PROVE  Kept(m)
<1>1. TypeInv /\ OwnInv /\ UsedExists /\ Owns(s)
  BY EachOwns DEF CountInv, OwnInv, ListInv
<1> PICK l \in Lists : l = ListOf(s) /\ l[1] = s[1]
  BY <1>1, ListOfType DEF ListOf
<1> PICK n \in ListNodes : n = comp_list[l]
  BY <1>1 DEF TypeInv, TypeOK
<1>2. /\ n.idle_list \in Seq(Wids) /\ n.busy_list \in Seq(Wids)
      /\ i \in 1 .. Len(n.busy_list) /\ n.busy_list[i] \in Wids
  BY <1>1, SwitchToSchedulerTypes
<1> PICK wid : wid = n.busy_list[i]
  OBVIOUS
<1>3. /\ wid \in Members(l) /\ wid \in Wids /\ <<l[1], wid>> \in Workers
      /\ worker[<<l[1], wid>>].state = "RUNNING"
  <2>1. wid = scheduler[s].wid /\ wid \in Wids /\ <<l[1], wid>> \in Workers
    BY <1>2 DEF Workers, Lists
  <2>2. Names(s)
    BY <2>1, BoundsAssumption DEF Names, NoId, Wids
  <2> QED
    BY <1>1, <2>1, <2>2 DEF Owns, Named
<1> DEFINE node == Released(worker[<<l[1], wid>>], status, regs[t])
<1>4. /\ node.clid = worker[<<l[1], wid>>].clid
      /\ node.state = IF status = "PAUSE" THEN "IDLE" ELSE "FINISHED"
  <2>1. worker[<<l[1], wid>>] \in WorkerNodes
    BY <1>1, <1>3 DEF TypeInv, TypeOK
  <2> QED
    BY <2>1 DEF Released, WorkerNodes
<1>5. /\ process' = process
      /\ worker' = [worker EXCEPT ![<<l[1], wid>>] = node]
      /\ comp_list' = [comp_list EXCEPT ![l] = Yielded(n, i, status)]
  BY DEF SwitchToScheduler
<1>6. Replaced(<<l[1], wid>>, node)
  BY <1>4, <1>5 DEF Replaced
<1> HIDE DEF node
<1>7. /\ comp_list'[l] = Yielded(n, i, status)
      /\ \A k \in Lists : k # l => comp_list'[k] = comp_list[k]
  BY <1>1, <1>5 DEF TypeInv, TypeOK
<1>8. /\ comp_list'[l].worker_count = n.worker_count
      /\ comp_list'[l].state = n.state
  BY <1>7 DEF Yielded, MoveToIdle, ListNodes
<1>9. wid \notin Finished(l)
  BY <1>3 DEF Finished, MembersIn
<1>10. CountsMatch(l)
  BY EachCounted DEF CountInv
<1>11. Finished(l)' = IF node.state = "FINISHED" THEN Finished(l) \cup {wid}
                                                 ELSE Finished(l) \ {wid}
  BY <1>3, <1>6, SwitchedMembers
<1>12. CountsMatch(l)'
  <2>1. CASE status = "PAUSE"
    <3>1. /\ comp_list'[l].busy_list = RemoveAt(n.busy_list, i)
          /\ comp_list'[l].idle_list = Append(n.idle_list, wid)
          /\ comp_list'[l].idle_count = n.idle_count + 1
          /\ comp_list'[l].busy_count = n.busy_count - 1
          /\ comp_list'[l].finished_count = n.finished_count
      BY <1>7, <2>1 DEF Yielded, MoveToIdle, ListNodes
    <3>2. /\ Len(comp_list'[l].busy_list) = Len(n.busy_list) - 1
          /\ Len(comp_list'[l].idle_list) = Len(n.idle_list) + 1
          /\ Len(n.idle_list) \in Nat /\ Len(n.busy_list) \in Nat
      <4>1. Len(RemoveAt(n.busy_list, i)) = Len(n.busy_list) - 1
        BY <1>2, RemoveAtProperties
      <4>2. Len(Append(n.idle_list, wid)) = Len(n.idle_list) + 1
        BY <1>2, <1>3, AppendProperties
      <4> QED
        BY <1>2, <3>1, <4>1, <4>2, LenProperties
    <3>3. node.state # "FINISHED"
      BY <1>4, <2>1
    <3>4. Finished(l)' = Finished(l) \ {wid}
      BY <1>11, <3>3
    <3>5. MembersIn(l, {"FINISHED"})' = MembersIn(l, {"FINISHED"})
      BY <1>9, <3>4 DEF Finished
    <3>6. comp_list'[l].finished_count = Cardinality(MembersIn(l, {"FINISHED"}))'
      <4>1. Cardinality(MembersIn(l, {"FINISHED"}))' = Cardinality(MembersIn(l, {"FINISHED"}))
        BY <3>5
      <4> QED
        BY <1>10, <3>1, <4>1 DEF CountsMatch
    <3>7. /\ comp_list'[l].idle_count = Len(comp_list'[l].idle_list)
          /\ comp_list'[l].busy_count = Len(comp_list'[l].busy_list)
          /\ comp_list'[l].worker_count =
               Len(comp_list'[l].idle_list) + Len(comp_list'[l].busy_list)
      <4>1. /\ n.idle_count = Len(n.idle_list) /\ n.busy_count = Len(n.busy_list)
            /\ n.worker_count = Len(n.idle_list) + Len(n.busy_list)
        BY <1>10 DEF CountsMatch
      <4>2. /\ comp_list'[l].idle_count = n.idle_count + 1
            /\ comp_list'[l].busy_count = n.busy_count - 1
            /\ comp_list'[l].worker_count = n.worker_count
        BY <1>8, <3>1
      <4>3. (Len(n.idle_list) + 1) + (Len(n.busy_list) - 1)
              = Len(n.idle_list) + Len(n.busy_list)
        BY <3>2, Moved
      <4> QED
        BY <3>2, <4>1, <4>2, <4>3, Zenon
    <3> QED
      BY <3>6, <3>7 DEF CountsMatch
  <2>2. CASE status # "PAUSE"
    <3>1. /\ comp_list'[l].busy_list = n.busy_list
          /\ comp_list'[l].idle_list = n.idle_list
          /\ comp_list'[l].idle_count = n.idle_count
          /\ comp_list'[l].busy_count = n.busy_count
          /\ comp_list'[l].finished_count = n.finished_count + 1
      BY <1>7, <2>2 DEF Yielded, ListNodes
    <3>2. node.state = "FINISHED"
      BY <1>4, <2>2
    <3>3. MembersIn(l, {"FINISHED"})' = MembersIn(l, {"FINISHED"}) \cup {wid}
      BY <1>11, <3>2 DEF Finished
    <3>4. Cardinality(MembersIn(l, {"FINISHED"}) \cup {wid})
            = Cardinality(MembersIn(l, {"FINISHED"})) + 1
      BY <1>9, MembersFinite, FS_AddElement DEF Finished
    <3>5. Cardinality(MembersIn(l, {"FINISHED"}))' = n.finished_count + 1
      BY <1>10, <3>3, <3>4 DEF CountsMatch
    <3> QED
      BY <1>8, <1>10, <3>1, <3>5 DEF CountsMatch
  <2> QED
    BY <2>1, <2>2
<1>13. ~ Complete(l)
  BY <1>3 DEF Complete, MembersIn
<1>14. comp_list'[l].state = "RUNNING" => ListExists(l)'
  BY <1>1, <1>5, <1>8 DEF UsedExists, ListExists
<1>15. ASSUME m # l PROVE Kept(m)
  BY <1>3, <1>7, <1>15, <1>6, OtherListKept
<1> QED
  BY <1>12, <1>13, <1>14, <1>15 DEF Kept

-----------------------------------------------------------------------------
(* Every step *)

\* The early returns and crashes of all handlers.
LEMMA RefusalKeeps ==
  ASSUME CountInv, TypeInv', NEW t \in Tasks, NEW err,
         Fail(t, err) \/ Miss(t, err) \/ RejectCaller(t) \/ Crash,
         NEW l \in Lists
  PROVE  Kept(l)
<1>1. UNCHANGED <<process, comp_list, worker>>
  BY DEF Fail, Miss, RejectCaller, Crash
<1> QED
  BY <1>1, KeptUnchanged

LEMMA MainRequestKeeps ==
  ASSUME CountInv, TypeInv', NEW t \in Tasks, MainRequest(t), NEW l \in Lists
  PROVE  Kept(l)
<1>1. CASE EnterUms(t) \/ ExitUms(t)
  <2>1. /\ worker' = worker /\ comp_list' = comp_list
        /\ \A p \in Tasks : /\ process'[p].worker_count = process[p].worker_count
                            /\ process'[p].list_count = process[p].list_count
    BY <1>1 DEF EnterUms, ExitUms, Fail, CountInv, OwnInv, ListInv, TypeInv, TypeOK,
                ProcessNodes
  <2> QED
    BY <2>1, KeptUnchanged
<1>2. CASE CreateCompletionList(t)
  BY <1>2, CreateCompletionListKeeps
<1>3. ASSUME NEW c \in Clids, CreateWorkerThread(t, c)
      PROVE  Kept(l)
  <2>1. CASE \E err \in Errors : Fail(t, err) \/ Miss(t, err)
    BY <2>1, RefusalKeeps
  <2>2. CASE Modifiable(comp_list[<<t, c>>]) /\ AddWorker(t, c)
    BY <2>2, AddWorkerKeeps
  <2> QED
    BY <1>3, <2>1, <2>2 DEF CreateWorkerThread, Errors
<1> QED
  BY <1>1, <1>2, <1>3 DEF MainRequest

LEMMA SchedulerRequestKeeps ==
  ASSUME CountInv, TypeInv', NEW t \in Tasks, SchedulerRequest(t), NEW l \in Lists
  PROVE  Kept(l)
<1>1. ASSUME NEW c \in Clids, EnterSchedulingMode(t, c)
      PROVE  Kept(l)
  <2>1. CASE \E err \in Errors : Fail(t, err) \/ Miss(t, err) \/ Crash
    BY <2>1, RefusalKeeps
  <2>2. CASE ListExists(<<Tgid[t], c>>) /\ AddScheduler(t, c)
    BY <2>2, AddSchedulerKeeps
  <2> QED
    BY <1>1, <2>1, <2>2 DEF EnterSchedulingMode, Errors
<1>2. CASE ExitSchedulingMode(t) \/ DequeueCompletionListItems(t)
  <2>1. CASE RejectCaller(t)
    BY <2>1, RefusalKeeps
  <2>2. CASE UNCHANGED <<process, comp_list, worker>>
    BY <2>2, KeptUnchanged
  <2> QED
    BY <1>2, <2>1, <2>2 DEF ExitSchedulingMode, DequeueCompletionListItems, Fail, Crash
<1>3. ASSUME NEW wid \in Wids \cup {NoId}, ExecuteThread(t, wid)
      PROVE  Kept(l)
  <2>1. CASE \E err \in Errors : RejectCaller(t) \/ Fail(t, err) \/ Miss(t, err)
    BY <2>1, RefusalKeeps
  <2>2. CASE \E s \in Scheds : \E i \in DOMAIN comp_list[ListOf(s)].idle_list :
               RunBy(s, t) /\ SwitchToWorker(t, s, i)
    BY <2>2, SwitchToWorkerKeeps
  <2> QED
    BY <1>3, <2>1, <2>2 DEF ExecuteThread, Errors
<1>4. ASSUME NEW status \in Statuses, ThreadYield(t, status)
      PROVE  Kept(l)
  <2>1. CASE \E err \in Errors : RejectCaller(t) \/ Fail(t, err) \/ Miss(t, err)
    BY <2>1, RefusalKeeps
  <2>2. CASE \E s \in Scheds : \E i \in DOMAIN comp_list[ListOf(s)].busy_list :
               /\ comp_list[ListOf(s)].busy_list[i] = scheduler[s].wid
               /\ SwitchToScheduler(t, s, i, status)
    BY <2>2, SwitchToSchedulerKeeps
  <2> QED
    BY <1>4, <2>1, <2>2 DEF ThreadYield, Errors
<1> QED
  BY <1>1, <1>2, <1>3, <1>4 DEF SchedulerRequest

LEMMA CountInit == Init => CountInv
<1> SUFFICES ASSUME Init PROVE CountersMatch /\ UsedExists
  BY OwnInit DEF CountInv
<1>1. ASSUME NEW l \in Lists
      PROVE  CountsMatch(l) /\ comp_list[l].state # "RUNNING"
  <2>1. \A w \in Workers : ~ WorkerExists(w)
    BY BoundsAssumption DEF Init, NoProcess, WorkerExists, Workers, Wids
  <2>2. MembersIn(l, {"FINISHED"}) = {}
    BY <2>1 DEF MembersIn, Members, Lists, Workers
  <2>3. comp_list[l] = EmptyList
    BY DEF Init
  <2>4. Cardinality(MembersIn(l, {"FINISHED"})) = 0
    BY <2>2, FS_EmptySet
  <2> QED
    BY <2>3, <2>4 DEF CountsMatch, EmptyList
<1> QED
  BY <1>1, EachCounted DEF UsedExists

LEMMA CountStep ==
  ASSUME CountInv, [Next]_vars
  PROVE  /\ CountInv'
         /\ \A l \in Lists : Complete(l) => Complete(l)'
<1>1. OwnInv'
  BY OwnStep DEF CountInv
<1>2. TypeInv'
  BY <1>1 DEF OwnInv, ListInv
<1>3. ASSUME NEW l \in Lists PROVE Kept(l)
  <2>1. CASE UNCHANGED vars
    BY <1>2, <2>1, KeptUnchanged DEF vars
  <2>2. CASE Next
    <3>1. \A t \in Owners : t \in Tasks
      BY TasksAssumption
    <3> QED
      BY <1>2, <2>2, <3>1, MainRequestKeeps, SchedulerRequestKeeps DEF Next
  <2> QED
    BY <2>1, <2>2
<1> QED
  BY <1>1, <1>3, EachKept DEF CountInv

\* The four counters of a completion list, from which dequeue sizes the caller's
\* buffer and decides that all is FINISHED, agree with its lists and with the
\* states of its workers, whatever any task requests and whichever service fails.
THEOREM CountersCorrect == Spec => []CountersMatch
<1>1. Init => CountInv
  BY CountInit
<1>2. CountInv /\ [Next]_vars => CountInv'
  BY CountStep
<1>3. CountInv => CountersMatch
  BY DEF CountInv
<1> QED
  BY <1>1, <1>2, <1>3, PTL DEF Spec

\* A list that a scheduler uses and whose last worker finished stays so: it gets
\* no new worker, and the FINISHED that the library remembers stays true.
THEOREM CompleteStays == Spec => CompleteForever
<1>1. Init => CountInv
  BY CountInit
<1>2. CountInv /\ [Next]_vars => CountInv'
  BY CountStep
<1>3. CountInv /\ [Next]_vars => [\A l \in Lists : Complete(l) => Complete(l)']_vars
  BY CountStep
<1> QED
  BY <1>1, <1>2, <1>3, PTL DEF Spec, CompleteForever

-----------------------------------------------------------------------------
(* What dequeue answers *)

\* A list without duplicates has as many elements as it is long.
LEMMA InjectiveCardinality ==
  ASSUME NEW S, NEW seq \in Seq(S), IsInjective(seq)
  PROVE  /\ IsFiniteSet(ToSet(seq))
         /\ Cardinality(ToSet(seq)) = Len(seq)
<1>1. /\ DOMAIN seq = 1 .. Len(seq) /\ Len(seq) \in Nat
      /\ seq = [j \in 1 .. Len(seq) |-> seq[j]]
  BY LenProperties
<1>2. seq \in [1 .. Len(seq) -> ToSet(seq)]
  BY <1>1 DEF ToSet
<1>3. \A e \in ToSet(seq) : \E j \in 1 .. Len(seq) : seq[j] = e
  BY <1>1 DEF ToSet
<1>4. seq \in Bijection(1 .. Len(seq), ToSet(seq))
  <2>1. seq \in Injection(1 .. Len(seq), ToSet(seq))
    BY <1>2 DEF Injection
  <2>2. seq \in Surjection(1 .. Len(seq), ToSet(seq))
    BY <1>2, <1>3 DEF Surjection
  <2> QED
    BY <2>1, <2>2 DEF Bijection
<1>5. IsFiniteSet(1 .. Len(seq)) /\ Cardinality(1 .. Len(seq)) = Len(seq)
  <2> PICK n \in Nat : n = Len(seq)
    BY <1>1
  <2>1. IsFiniteSet(1 .. n) /\ Cardinality(1 .. n) = n
    <3>1. 1 \in Int /\ n \in Int /\ (IF 1 > n THEN 0 ELSE n - 1 + 1) = n
      OBVIOUS
    <3> QED
      BY <3>1, FS_Interval
  <2> QED
    BY <2>1
<1> QED
  BY <1>4, <1>5, FS_Bijection DEF ExistsBijection

LEMMA Sums ==
  ASSUME NEW a \in Nat, NEW b \in Nat, NEW d \in Nat, d <= b
  PROVE  /\ d = a + b <=> a = 0 /\ d = b
         /\ a <= a + b
  OBVIOUS

\* The counters tell exactly when every worker of a list has finished, and how
\* many are idle.
LEMMA CountersTell ==
  ASSUME CountInv, NEW l \in Lists
  PROVE  /\ DequeueState(comp_list[l]) = "FINISHED"
              <=> MembersIn(l, {"IDLE", "RUNNING"}) = {}
         /\ Len(comp_list[l].idle_list) = Cardinality(MembersIn(l, {"IDLE"}))
         /\ Len(comp_list[l].idle_list) <= comp_list[l].worker_count
<1> DEFINE idle == comp_list[l].idle_list
           busy == comp_list[l].busy_list
           done == MembersIn(l, {"FINISHED"})
<1>1. /\ idle \in Seq(Wids) /\ busy \in Seq(Wids)
      /\ Len(idle) \in Nat /\ Len(busy) \in Nat
  BY LenProperties DEF CountInv, OwnInv, ListInv, TypeInv, TypeOK, ListNodes
<1>2. Split(l) /\ CountsMatch(l)
  BY PartitionIsSplit, EachCounted DEF CountInv, OwnInv, ListInv
<1>3. /\ IsFiniteSet(ToSet(idle)) /\ Cardinality(ToSet(idle)) = Len(idle)
      /\ IsFiniteSet(ToSet(busy)) /\ Cardinality(ToSet(busy)) = Len(busy)
  BY <1>1, <1>2, InjectiveCardinality DEF Split
<1>4. done \subseteq ToSet(busy)
  BY <1>2 DEF Split, MembersIn
<1>5. /\ Cardinality(done) \in Nat /\ Cardinality(done) <= Len(busy)
      /\ Cardinality(done) = Len(busy) => done = ToSet(busy)
  BY <1>3, <1>4, MembersFinite, FS_Subset, FS_CardinalityType
<1>6. DequeueState(comp_list[l]) = "FINISHED"
        <=> Cardinality(done) = Len(idle) + Len(busy)
  BY <1>2 DEF DequeueState, CountsMatch
<1>7. Cardinality(done) = Len(idle) + Len(busy)
        <=> Len(idle) = 0 /\ Cardinality(done) = Len(busy)
  BY <1>1, <1>5, Sums
<1>8. Len(idle) = 0 <=> ToSet(idle) = {}
  BY <1>3, FS_EmptySet
<1>9. MembersIn(l, {"IDLE", "RUNNING"}) = {} <=> ToSet(idle) = {} /\ done = ToSet(busy)
  BY <1>2 DEF Split, MembersIn
<1>10. Cardinality(done) = Len(busy) <=> done = ToSet(busy)
  BY <1>3, <1>5
<1>11. Len(idle) = Cardinality(MembersIn(l, {"IDLE"}))
  BY <1>2, <1>3 DEF Split
<1>12. Len(idle) <= comp_list[l].worker_count
  <2>1. comp_list[l].worker_count = Len(idle) + Len(busy)
    BY <1>2 DEF CountsMatch
  <2>2. Len(idle) <= Len(idle) + Len(busy)
    BY <1>1, <1>5, Sums
  <2> QED
    BY <2>1, <2>2, Zenon
<1> HIDE DEF idle, busy, done
<1>13. DequeueState(comp_list[l]) = "FINISHED"
         <=> MembersIn(l, {"IDLE", "RUNNING"}) = {}
  BY <1>6, <1>7, <1>8, <1>9, <1>10
<1> QED
  BY <1>11, <1>12, <1>13 DEF idle

LEMMA DequeueAnswers ==
  ASSUME CountInv, NEW t \in Tasks, NEW s \in Scheds, RunBy(s, t),
         DequeueCompletionListItems(t), reply'.err = "SUCCESS"
  PROVE  /\ reply'.state = "FINISHED" <=> MembersIn(ListOf(s), {"IDLE", "RUNNING"}) = {}
         /\ ToSet(reply'.wids) = MembersIn(ListOf(s), {"IDLE"})
         /\ Len(reply'.wids) = Cardinality(MembersIn(ListOf(s), {"IDLE"}))
         /\ Len(reply'.wids) <= comp_list[ListOf(s)].worker_count
<1>1. ~ RejectCaller(t)
  BY DEF RejectCaller, Fail, Return, ReplyTo
<1>2. PICK r \in Scheds :
        /\ RunBy(r, t)
        /\ reply' = [ReplyTo(t, "SUCCESS", 0) EXCEPT
             !.state = DequeueState(comp_list[ListOf(r)]),
             !.wids = comp_list[ListOf(r)].idle_list]
  <2>1. ~ Fail(t, "BYTES_NOT_COPIED")
    BY DEF Fail, Return, ReplyTo
  <2> QED
    BY <1>1, <2>1 DEF DequeueCompletionListItems
<1>3. r = s
  BY <1>2, RunByUnique
<1>4. /\ reply'.state = DequeueState(comp_list[ListOf(s)])
      /\ reply'.wids = comp_list[ListOf(s)].idle_list
  BY <1>2, <1>3 DEF ReplyTo
<1>5. ListOf(s) \in Lists
  BY ListOfType DEF CountInv, OwnInv, ListInv
<1>6. ToSet(comp_list[ListOf(s)].idle_list) = MembersIn(ListOf(s), {"IDLE"})
  BY <1>5, PartitionIsSplit DEF CountInv, OwnInv, ListInv, Split
<1> QED
  BY <1>4, <1>5, <1>6, CountersTell

\* A successful dequeue says FINISHED exactly when every worker of the caller's
\* list has finished, and otherwise returns the idle ones, each once, and never
\* more than the caller's buffer has room for.
THEOREM DequeueIsTruthful == Spec => DequeueTellsTheTruth
<1> DEFINE Answer ==
      \A t \in Tasks, s \in Scheds :
        /\ RunBy(s, t)
        /\ DequeueCompletionListItems(t)
        /\ reply'.err = "SUCCESS"
        => LET l == ListOf(s) IN
           /\ reply'.state = "FINISHED" <=> MembersIn(l, {"IDLE", "RUNNING"}) = {}
           /\ ToSet(reply'.wids) = MembersIn(l, {"IDLE"})
           /\ Len(reply'.wids) = Cardinality(MembersIn(l, {"IDLE"}))
           /\ Len(reply'.wids) <= comp_list[l].worker_count
<1>1. Init => CountInv
  BY CountInit
<1>2. CountInv /\ [Next]_vars => CountInv'
  BY CountStep
<1>3. CountInv /\ [Next]_vars => [Answer]_vars
  BY DequeueAnswers
<1> QED
  BY <1>1, <1>2, <1>3, PTL DEF Spec, DequeueTellsTheTruth
=============================================================================
