--------------------------- MODULE UmsClientProofs ---------------------------
(***************************************************************************)
(* The kernel module used as UmsClient says implements WorkerScheduling,   *)
(* for every number of pthreads and every bound, when requests may fail on *)
(* copy_from_user: the failures after which a scheduler node stays half    *)
(* made are left out (SoundFaults).                                        *)
(*                                                                         *)
(* The invariant says who is where.  A pthread has at most one scheduler   *)
(* and executes what that scheduler's node says; a worker that is RUNNING  *)
(* is named by one; an idle worker waits in its own code.  It rests on     *)
(* what holds of the module however it is used (CountInv).                 *)
(***************************************************************************)
EXTENDS UmsClient, UmsOwnsProofs

SoundFaults == Faults \subseteq {"copy_from_user"}

\* Of a scheduler that exists: whose it is, where it came from, what it uses.
HostKnown(s) ==
  /\ scheduler[s].pid \in Pthreads
  /\ s[1] = Tgid[scheduler[s].pid]
  /\ scheduler[s].home = Own(scheduler[s].pid)
  /\ comp_list[ListOf(s)].state = "RUNNING"

\* What its pthread executes.
InContext(s) ==
  IF Names(s)
  THEN /\ regs[scheduler[s].pid] = WorkerCtx(Named(s))
       /\ scheduler[s].regs = SchedCtx(s)
  ELSE regs[scheduler[s].pid] = IF scheduler[s].state = "FINISHED"
                                THEN Own(scheduler[s].pid) ELSE SchedCtx(s)

EachHost == \A s \in Scheds : SchedExists(s) => HostKnown(s) /\ InContext(s)

OneEach ==
  \A s \in Scheds, r \in Scheds :
    SchedExists(s) /\ SchedExists(r) /\ scheduler[s].pid = scheduler[r].pid => s = r

Hosted ==
  \A w \in Workers :
    WorkerExists(w) /\ worker[w].state = "RUNNING" =>
      \E s \in Scheds : SchedExists(s) /\ Names(s) /\ Named(s) = w

UseInv == EachHost /\ OneEach /\ IdleWorkerKeepsItsContext /\ Hosted

ClientInv == CountInv /\ UseInv

LEMMA ClientInvHas ==
  ASSUME ClientInv
  PROVE  /\ TypeInv /\ ListInv /\ OwnInv /\ CountInv /\ UsedExists /\ UseInv
         /\ \A s \in Scheds : Owns(s)
  BY EachOwns DEF ClientInv, CountInv, OwnInv, ListInv

LEMMA PthreadIsTask == \A t \in Pthreads : t \in Tasks /\ Tgid[t] \in Tasks /\ t \notin Mains
  BY TasksAssumption DEF Pthreads

\* The lookup by pid finds the one scheduler of a pthread.
LEMMA LookupFinds ==
  ASSUME ClientInv, NEW t \in Pthreads, NEW s \in Scheds
  PROVE  RunBy(s, t) <=> SchedExists(s) /\ scheduler[s].pid = t
<1> SUFFICES ASSUME SchedExists(s), scheduler[s].pid = t
             PROVE  RunBy(s, t)
  BY DEF RunBy
<1>1. s[1] = Tgid[t]
  BY DEF ClientInv, UseInv, EachHost, HostKnown
<1>2. ASSUME NEW n \in 0 .. s[2] - 1, scheduler[<<s[1], n>>].pid = t
      PROVE  FALSE
  <2> DEFINE r == <<s[1], n>>
  <2>1. r \in Scheds /\ s[2] \in Nat /\ n < s[2] /\ r # s
    BY SchedPair
  <2>2. process[s[1]].schedulers \in Int
    BY ClientInvHas, SchedPair, BoundsAssumption DEF TypeInv, TypeOK, ProcessNodes
  <2>3. SchedExists(r)
    BY <2>1, <2>2 DEF SchedExists
  <2> QED
    BY <1>2, <2>1, <2>3 DEF ClientInv, UseInv, OneEach
<1> QED
  BY <1>1, <1>2 DEF RunBy

-----------------------------------------------------------------------------
(* The properties of UmsClient follow from the invariant. *)

LEMMA InvContextFollows == ClientInv => ContextFollowsScheduler
<1> SUFFICES ASSUME ClientInv, NEW t \in Pthreads, NEW s \in Scheds, RunBy(s, t)
             PROVE  IF scheduler[s].wid # NoId
                    THEN /\ regs[t] = WorkerCtx(<<s[1], scheduler[s].wid>>)
                         /\ scheduler[s].regs = SchedCtx(s)
                    ELSE regs[t] = IF scheduler[s].state = "FINISHED"
                                   THEN Own(t) ELSE SchedCtx(s)
  BY DEF ContextFollowsScheduler
<1>1. InContext(s) /\ scheduler[s].pid = t
  BY DEF ClientInv, UseInv, EachHost, RunBy
<1> QED
  BY <1>1 DEF InContext, Names, Named

LEMMA InvHosted == ClientInv => RunningWorkerIsHosted
<1> SUFFICES ASSUME ClientInv, NEW w \in Workers, WorkerExists(w),
                    worker[w].state = "RUNNING"
             PROVE  /\ regs[worker[w].pid] = WorkerCtx(w)
                    /\ \E s \in Scheds : RunBy(s, worker[w].pid) /\ scheduler[s].wid = w[2]
  BY DEF RunningWorkerIsHosted
<1>1. PICK s \in Scheds : SchedExists(s) /\ Names(s) /\ Named(s) = w
  BY DEF ClientInv, UseInv, Hosted
<1>2. worker[w].pid = scheduler[s].pid /\ scheduler[s].wid = w[2]
  BY <1>1, ClientInvHas DEF Owns, Named
<1>3. HostKnown(s) /\ InContext(s)
  BY <1>1 DEF ClientInv, UseInv, EachHost
<1>4. RunBy(s, worker[w].pid)
  BY <1>1, <1>2, <1>3, LookupFinds DEF HostKnown
<1> QED
  BY <1>1, <1>2, <1>3, <1>4 DEF InContext

-----------------------------------------------------------------------------
(* Frames *)

\* Only scheduler s, the one of pthread t from now on, and the registers of t
\* change, and lists that are used stay so.
LEMMA OneSchedulerChanges ==
  ASSUME UseInv, NEW s \in Scheds, NEW t \in Pthreads,
         \A r \in Scheds : SchedExists(r)' <=> SchedExists(r) \/ r = s,
         \A r \in Scheds : r # s => scheduler'[r] = scheduler[r],
         \A r \in Scheds : r # s /\ SchedExists(r) => scheduler[r].pid # t,
         \A u \in Tasks : u # t => regs'[u] = regs[u],
         \A r \in Scheds : comp_list[ListOf(r)].state = "RUNNING" =>
                             comp_list'[ListOf(r)].state = "RUNNING",
         scheduler'[s].pid = t, HostKnown(s)', InContext(s)'
  PROVE  EachHost' /\ OneEach'
<1>1. ASSUME NEW r \in Scheds, r # s, SchedExists(r)
      PROVE  HostKnown(r)' /\ InContext(r)'
  <2>1. HostKnown(r) /\ InContext(r) /\ scheduler'[r] = scheduler[r]
    BY <1>1 DEF UseInv, EachHost
  <2>2. regs'[scheduler[r].pid] = regs[scheduler[r].pid]
    BY <1>1, <2>1, PthreadIsTask DEF HostKnown
  <2>3. ListOf(r)' = ListOf(r) /\ Named(r)' = Named(r) /\ (Names(r)' <=> Names(r))
    BY <2>1 DEF ListOf, Named, Names
  <2>4. HostKnown(r)'
    BY <2>1, <2>3 DEF HostKnown
  <2>5. InContext(r)'
    BY <2>1, <2>2, <2>3 DEF InContext
  <2> QED
    BY <2>4, <2>5
<1>2. EachHost'
  BY <1>1 DEF EachHost
<1>3. ASSUME NEW q \in Scheds, NEW r \in Scheds, SchedExists(q)', SchedExists(r)',
             scheduler'[q].pid = scheduler'[r].pid
      PROVE  q = r
  BY <1>3 DEF UseInv, OneEach
<1> QED
  BY <1>2, <1>3 DEF OneEach

\* No scheduler and no registers change.
LEMMA HostsKept ==
  ASSUME UseInv, scheduler' = scheduler, regs' = regs,
         \A r \in Scheds : SchedExists(r)' <=> SchedExists(r),
         \A r \in Scheds : comp_list[ListOf(r)].state = "RUNNING" =>
                             comp_list'[ListOf(r)].state = "RUNNING"
  PROVE  EachHost' /\ OneEach'
<1>1. ASSUME NEW r \in Scheds, SchedExists(r)
      PROVE  HostKnown(r)' /\ InContext(r)'
  <2>1. HostKnown(r) /\ InContext(r)
    BY <1>1 DEF UseInv, EachHost
  <2>2. ListOf(r)' = ListOf(r) /\ Named(r)' = Named(r) /\ (Names(r)' <=> Names(r))
    BY DEF ListOf, Named, Names
  <2> QED
    BY <2>1, <2>2 DEF HostKnown, InContext
<1> QED
  BY <1>1 DEF UseInv, EachHost, OneEach

\* No worker changes, and no scheduler takes another worker.
LEMMA WorkersKept ==
  ASSUME UseInv, worker' = worker,
         \A w \in Workers : WorkerExists(w)' <=> WorkerExists(w),
         \A r \in Scheds : SchedExists(r) =>
           SchedExists(r)' /\ scheduler'[r].wid = scheduler[r].wid
  PROVE  IdleWorkerKeepsItsContext' /\ Hosted'
<1>1. IdleWorkerKeepsItsContext'
  BY DEF UseInv, IdleWorkerKeepsItsContext
<1>2. ASSUME NEW w \in Workers, WorkerExists(w), worker[w].state = "RUNNING"
      PROVE  \E s \in Scheds : SchedExists(s)' /\ Names(s)' /\ Named(s)' = w
  <2>1. PICK s \in Scheds : SchedExists(s) /\ Names(s) /\ Named(s) = w
    BY <1>2 DEF UseInv, Hosted
  <2>2. SchedExists(s)' /\ Names(s)' /\ Named(s)' = w
    BY <2>1 DEF Names, Named
  <2> QED
    BY <2>2
<1> QED
  BY <1>1, <1>2 DEF Hosted

\* The same for what WorkerScheduling sees of the workers, the lists and the
\* schedulers.
LEMMA WorkersSeenSame ==
  ASSUME worker' = worker,
         \A w \in Workers : WorkerExists(w)' <=> WorkerExists(w)
  PROVE  Phases' = Phases /\ Member' = Member /\ On' = On
<1>1. \A w \in Workers : Phase(w)' = Phase(w)
  BY DEF Phase, PhaseIn
<1> QED
  BY <1>1 DEF Phases, Member, On

LEMMA ListsSeenSame ==
  ASSUME \A l \in Lists :
           (comp_list'[l].state = "RUNNING") <=> (comp_list[l].state = "RUNNING")
  PROVE  Closed' = Closed
  BY DEF Closed

LEMMA SchedsSeenSame ==
  ASSUME \A r \in Scheds : SchedExists(r)' <=> SchedExists(r),
         \A r \in Scheds : /\ scheduler'[r].pid = scheduler[r].pid
                            /\ scheduler'[r].comp_list = scheduler[r].comp_list,
         \A r \in Scheds : scheduler'[r].state = "FINISHED" <=>
                             scheduler[r].state = "FINISHED"
  PROVE  Attached' = Attached
<1> DEFINE Bound == {r \in Scheds : SchedExists(r) /\ scheduler[r].state # "FINISHED"}
           Pair(r) == <<scheduler[r].pid, ListOf(r)>>
<1>1. ASSUME NEW r \in Scheds PROVE Pair(r)' = Pair(r)
  BY DEF ListOf
<1>2. Bound' = Bound
  OBVIOUS
<1>3. Attached = {Pair(r) : r \in Bound}
  BY DEF Attached
<1>4. Attached' = {Pair(r)' : r \in Bound'}
  BY DEF Attached
<1> HIDE DEF Bound, Pair
<1> QED
  BY <1>1, <1>2, <1>3, <1>4 DEF Bound

\* Existence depends on the counts of the process nodes.
LEMMA ExistsKept ==
  ASSUME \A p \in Tasks : /\ process'[p].worker_count = process[p].worker_count
                           /\ process'[p].schedulers = process[p].schedulers
  PROVE  /\ \A w \in Workers : WorkerExists(w)' <=> WorkerExists(w)
         /\ \A r \in Scheds : SchedExists(r)' <=> SchedExists(r)
  BY DEF WorkerExists, SchedExists, Workers, Scheds

-----------------------------------------------------------------------------
(* What a step is shown to do: the invariant holds after it, and it is a step *)
(* of WorkerScheduling or changes nothing of it.                              *)
Simulates == UseInv' /\ [Abstract!Next]_(Abstract!vars)

\* Refusals, errors, dequeues, new processes and new lists: nothing that a
\* pthread executes changes.
LEMMA QuietStep ==
  ASSUME ClientInv, scheduler' = scheduler, worker' = worker, regs' = regs,
         \A p \in Tasks : /\ process'[p].worker_count = process[p].worker_count
                           /\ process'[p].schedulers = process[p].schedulers,
         \A l \in Lists :
           (comp_list'[l].state = "RUNNING") <=> (comp_list[l].state = "RUNNING")
  PROVE  Simulates
<1>1. \A r \in Scheds : ListOf(r) \in Lists
  BY ListOfType, ClientInvHas
<1>2. EachHost' /\ OneEach'
  BY <1>1, ExistsKept, HostsKept, ClientInvHas
<1>3. IdleWorkerKeepsItsContext' /\ Hosted'
  BY ExistsKept, WorkersKept, ClientInvHas
<1>4. UNCHANGED Abstract!vars
  BY ExistsKept, WorkersSeenSame, ListsSeenSame, SchedsSeenSame DEF Abstract!vars
<1> QED
  BY <1>2, <1>3, <1>4 DEF Simulates, UseInv

\* A new worker: its id is that of a worker that was absent.
LEMMA AddWorkerStep ==
  ASSUME ClientInv, NEW t \in Tasks, NEW c \in Clids, Modifiable(comp_list[<<t, c>>]),
         AddWorker(t, c)
  PROVE  Simulates
<1> PICK wid : wid = process[t].worker_count
  OBVIOUS
<1> PICK w : w = <<t, wid>>
  OBVIOUS
<1> PICK l : l = <<t, c>>
  OBVIOUS
<1>1. /\ w \in Workers /\ l \in Lists /\ ~ WorkerExists(w)
      /\ \A v \in Workers : WorkerExists(v)' <=> WorkerExists(v) \/ v = w
      /\ \A v \in Workers : v # w => worker'[v] = worker[v]
  BY AddWorkerMembers, ClientInvHas DEF Workers, Lists
<1>2. /\ worker'[w].state = "IDLE" /\ worker'[w].clid = c /\ worker'[w].pid = NoId
      /\ worker'[w].regs = WorkerEntry(w)
  BY <1>1, ClientInvHas DEF AddWorker, TypeInv, TypeOK
<1>3. \A r \in Scheds : SchedExists(r)' <=> SchedExists(r)
  <2>1. \A p \in Tasks : process'[p].schedulers = process[p].schedulers
    BY ClientInvHas DEF AddWorker, TypeInv, TypeOK, ProcessNodes
  <2> QED
    BY <2>1 DEF SchedExists, Scheds
<1>4. \A m \in Lists : comp_list'[m].state = comp_list[m].state
  <2>1. comp_list'[l].state = comp_list[l].state
    BY <1>1, ClientInvHas DEF AddWorker, LinkIdle, TypeInv, TypeOK, ListNodes
  <2>2. \A m \in Lists : m # l => comp_list'[m] = comp_list[m]
    BY <1>1, ClientInvHas DEF AddWorker, TypeInv, TypeOK
  <2> QED
    BY <2>1, <2>2
<1>5. regs' = regs /\ scheduler' = scheduler
  BY DEF AddWorker
<1>6. EachHost' /\ OneEach'
  <2>1. \A r \in Scheds : ListOf(r) \in Lists
    BY ListOfType, ClientInvHas
  <2> QED
    BY <1>3, <1>4, <1>5, <2>1, HostsKept, ClientInvHas
<1>7. IdleWorkerKeepsItsContext'
  BY <1>1, <1>2, ClientInvHas DEF UseInv, IdleWorkerKeepsItsContext
<1>8. Hosted'
  <2>1. ASSUME NEW v \in Workers, WorkerExists(v)', worker'[v].state = "RUNNING"
        PROVE  \E s \in Scheds : SchedExists(s)' /\ Names(s)' /\ Named(s)' = v
    <3>1. v # w /\ WorkerExists(v) /\ worker[v].state = "RUNNING"
      BY <1>1, <1>2, <2>1
    <3>2. PICK s \in Scheds : SchedExists(s) /\ Names(s) /\ Named(s) = v
      BY <3>1, ClientInvHas DEF UseInv, Hosted
    <3>3. SchedExists(s)' /\ Names(s)' /\ Named(s)' = v
      BY <1>3, <1>5, <3>2 DEF Names, Named
    <3> QED
      BY <3>3
  <2> QED
    BY <2>1 DEF Hosted
<1>9. Abstract!Create(w, l)
  <2>1. Phases[w] = "absent"
    BY <1>1 DEF Phases, Phase
  <2>2. l \notin Closed
    BY DEF Closed, Modifiable
  <2>3. Phases' = [Phases EXCEPT ![w] = "ready"]
    <3>1. Phase(w)' = "ready"
      BY <1>1, <1>2 DEF Phase, PhaseIn
    <3>2. \A v \in Workers : v # w => Phase(v)' = Phase(v)
      BY <1>1 DEF Phase, PhaseIn
    <3> QED
      BY <1>1, <3>1, <3>2 DEF Phases
  <2>4. Member' = Member \cup {<<w, l>>}
    <3>1. <<w[1], worker'[w].clid>> = l
      BY <1>2
    <3>2. {v \in Workers : WorkerExists(v)'} = {v \in Workers : WorkerExists(v)} \cup {w}
      BY <1>1
    <3> QED
      BY <1>1, <3>1, <3>2 DEF Member
  <2>5. On' = On
    <3>1. \A v \in Workers : WorkerExists(v)' /\ worker'[v].state = "RUNNING"
                              <=> WorkerExists(v) /\ worker[v].state = "RUNNING"
      BY <1>1, <1>2
    <3>2. \A v \in Workers : WorkerExists(v) => worker'[v] = worker[v]
      BY <1>1
    <3> QED
      BY <3>1, <3>2 DEF On
  <2>6. Closed' = Closed /\ Attached' = Attached
    BY <1>3, <1>4, <1>5, ListsSeenSame, SchedsSeenSame
  <2> QED
    BY <2>1, <2>2, <2>3, <2>4, <2>5, <2>6 DEF Abstract!Create
<1> QED
  BY <1>1, <1>6, <1>7, <1>8, <1>9 DEF Simulates, UseInv, Abstract!Next

\* A pthread that had no scheduler gets one, and closes the list it attaches to.
LEMMA AddSchedulerStep ==
  ASSUME ClientInv, SoundFaults, NEW t \in Pthreads, NEW c \in Clids,
         regs[t] = Own(t), ~ \E s \in Scheds : RunBy(s, t), AddScheduler(t, c)
  PROVE  Simulates
<1> PICK p \in Tasks : p = Tgid[t]
  BY PthreadIsTask
<1> PICK s : s = <<p, process[p].schedulers>>
  OBVIOUS
<1> PICK l : l = <<p, c>>
  OBVIOUS
<1>1. t \in Tasks /\ s \in Scheds /\ l \in Lists /\ ~ SchedExists(s) /\ s[1] = p
  <2>1. process[p].schedulers \in Nat /\ process[p].schedulers < MaxScheds
    BY ClientInvHas, BoundsAssumption DEF AddScheduler, TypeInv, TypeOK, ProcessNodes
  <2> QED
    BY <2>1, PthreadIsTask, BoundsAssumption DEF Scheds, Sids, SchedExists, Lists
<1>2. /\ process' = [process EXCEPT ![p].schedulers = @ + 1, ![p].scheduler_count = @ + 1]
      /\ scheduler' = [scheduler EXCEPT ![s] =
           [NewSched(t, c) EXCEPT !.regs = SchedEntry(s), !.home = regs[t]]]
      /\ comp_list' = [comp_list EXCEPT ![l].state = "RUNNING"]
      /\ regs' = [regs EXCEPT ![t] = SchedCtx(s)]
      /\ worker' = worker
  BY DEF AddScheduler, SoundFaults
<1>3. /\ \A w \in Workers : WorkerExists(w)' <=> WorkerExists(w)
      /\ \A r \in Scheds : SchedExists(r)' <=> SchedExists(r) \/ r = s
  <2>1. \A q \in Tasks :
          /\ process'[q].worker_count = process[q].worker_count
          /\ process[q].schedulers \in Nat
          /\ process'[q].schedulers = process[q].schedulers + (IF q = p THEN 1 ELSE 0)
    BY <1>2, ClientInvHas, BoundsAssumption DEF TypeInv, TypeOK, ProcessNodes
  <2>2. ASSUME NEW r \in Scheds
        PROVE  SchedExists(r)' <=> SchedExists(r) \/ r = s
    <3>1. r[1] \in Tasks /\ r[2] \in Nat /\ r = <<r[1], r[2]>>
      BY SchedPair
    <3> QED
      BY <2>1, <3>1 DEF SchedExists
  <2> QED
    BY <2>1, <2>2 DEF WorkerExists, Workers
<1>4. /\ scheduler'[s].pid = t /\ scheduler'[s].wid = NoId /\ scheduler'[s].state = "IDLE"
      /\ scheduler'[s].comp_list = c /\ scheduler'[s].home = Own(t)
      /\ \A r \in Scheds : r # s => scheduler'[r] = scheduler[r]
      /\ regs'[t] = SchedCtx(s)
      /\ \A u \in Tasks : u # t => regs'[u] = regs[u]
  BY <1>1, <1>2, ClientInvHas DEF NewSched, TypeInv, TypeOK
<1>5. /\ comp_list'[l].state = "RUNNING"
      /\ \A m \in Lists : m # l => comp_list'[m].state = comp_list[m].state
  BY <1>1, <1>2, ClientInvHas DEF TypeInv, TypeOK, ListNodes
<1>6. \A r \in Scheds : SchedExists(r) => scheduler[r].pid # t
  BY LookupFinds
<1>7. ListOf(s)' = l
  BY <1>1, <1>4 DEF ListOf
<1>8. EachHost' /\ OneEach'
  <2>1. HostKnown(s)'
    BY <1>1, <1>4, <1>5, <1>7 DEF HostKnown
  <2>2. InContext(s)'
    BY <1>4 DEF InContext, Names
  <2>3. \A r \in Scheds : comp_list[ListOf(r)].state = "RUNNING" =>
                            comp_list'[ListOf(r)].state = "RUNNING"
    BY <1>5, ListOfType, ClientInvHas
  <2> QED
    BY <1>1, <1>3, <1>4, <1>6, <2>1, <2>2, <2>3, OneSchedulerChanges, ClientInvHas
<1>9. IdleWorkerKeepsItsContext' /\ Hosted'
  BY <1>1, <1>2, <1>3, <1>4, WorkersKept, ClientInvHas
<1>10. Abstract!Attach(t, l)
  <2>1. \A k \in Lists : <<t, k>> \notin Attached
    BY <1>6 DEF Attached
  <2>2. Attached' = Attached \cup {<<t, l>>}
    <3> DEFINE Bound == {r \in Scheds : SchedExists(r) /\ scheduler[r].state # "FINISHED"}
               Pair(r) == <<scheduler[r].pid, ListOf(r)>>
    <3>1. Bound' = Bound \cup {s}
      BY <1>1, <1>3, <1>4
    <3>2. ASSUME NEW r \in Bound PROVE Pair(r)' = Pair(r)
      BY <1>1, <1>4 DEF ListOf
    <3>3. Pair(s)' = <<t, l>>
      BY <1>4, <1>7
    <3>4. Attached = {Pair(r) : r \in Bound} /\ Attached' = {Pair(r)' : r \in Bound'}
      BY DEF Attached
    <3> HIDE DEF Bound, Pair
    <3> QED
      BY <3>1, <3>2, <3>3, <3>4
  <2>3. Closed' = Closed \cup {l}
    BY <1>1, <1>5 DEF Closed
  <2>4. Phases' = Phases /\ Member' = Member /\ On' = On
    BY <1>2, <1>3, WorkersSeenSame
  <2> QED
    BY <2>1, <2>2, <2>3, <2>4 DEF Abstract!Attach
<1> QED
  BY <1>1, <1>8, <1>9, <1>10 DEF Simulates, UseInv, Abstract!Next

\* The pthread whose code a scheduler's is has that scheduler, which names nobody.
LEMMA InSchedulerCode ==
  ASSUME ClientInv, NEW t \in Pthreads, NEW s \in Scheds, RunBy(s, t),
         \E r \in Scheds : regs[t] = SchedCtx(r)
  PROVE  /\ regs[t] = SchedCtx(s) /\ ~ Names(s) /\ scheduler[s].state # "FINISHED"
         /\ SchedExists(s) /\ scheduler[s].pid = t /\ HostKnown(s)
         /\ \A r \in Scheds : r # s /\ SchedExists(r) => scheduler[r].pid # t
         /\ \A v \in Workers : <<t, v>> \notin On
<1>1. SchedExists(s) /\ scheduler[s].pid = t
  BY DEF RunBy
<1>2. HostKnown(s) /\ InContext(s)
  BY <1>1, ClientInvHas DEF UseInv, EachHost
<1>3. regs[t] = SchedCtx(s) /\ ~ Names(s) /\ scheduler[s].state # "FINISHED"
  BY <1>1, <1>2 DEF InContext, SchedCtx, WorkerCtx, Own
<1>4. \A r \in Scheds : r # s /\ SchedExists(r) => scheduler[r].pid # t
  BY <1>1, ClientInvHas DEF UseInv, OneEach
<1>5. ASSUME NEW v \in Workers, <<t, v>> \in On
      PROVE  FALSE
  <2>1. WorkerExists(v) /\ worker[v].state = "RUNNING" /\ worker[v].pid = t
    BY <1>5 DEF On
  <2>2. PICK r \in Scheds : SchedExists(r) /\ Names(r) /\ Named(r) = v
    BY <2>1, ClientInvHas DEF UseInv, Hosted
  <2>3. scheduler[r].pid = t
    BY <2>1, <2>2, ClientInvHas DEF Owns
  <2> QED
    BY <1>3, <1>4, <2>2, <2>3
<1> QED
  BY <1>1, <1>2, <1>3, <1>4, <1>5

\* A scheduler leaves: its pthread is back in its own code, attached to nothing.
LEMMA LeftStep ==
  ASSUME ClientInv, NEW t \in Pthreads, NEW s \in Scheds, RunBy(s, t),
         \E r \in Scheds : regs[t] = SchedCtx(r),
         scheduler' = [scheduler EXCEPT ![s] = Left(@)],
         regs' = [regs EXCEPT ![t] = scheduler[s].home],
         UNCHANGED <<process, comp_list, worker>>
  PROVE  Simulates
<1>1. /\ regs[t] = SchedCtx(s) /\ ~ Names(s) /\ scheduler[s].state # "FINISHED"
      /\ SchedExists(s) /\ scheduler[s].pid = t /\ HostKnown(s)
      /\ \A r \in Scheds : r # s /\ SchedExists(r) => scheduler[r].pid # t
      /\ \A v \in Workers : <<t, v>> \notin On
      /\ t \in Tasks
  BY InSchedulerCode, PthreadIsTask
<1>2. /\ scheduler'[s].pid = t /\ scheduler'[s].wid = NoId
      /\ scheduler'[s].state = "FINISHED"
      /\ scheduler'[s].comp_list = scheduler[s].comp_list
      /\ scheduler'[s].home = Own(t)
      /\ \A r \in Scheds : r # s => scheduler'[r] = scheduler[r]
      /\ regs'[t] = Own(t)
      /\ \A u \in Tasks : u # t => regs'[u] = regs[u]
  BY <1>1, ClientInvHas DEF Left, TypeInv, TypeOK, SchedNodes, Names, HostKnown
<1>3. /\ \A w \in Workers : WorkerExists(w)' <=> WorkerExists(w)
      /\ \A r \in Scheds : SchedExists(r)' <=> SchedExists(r)
  BY ExistsKept
<1>4. \A r \in Scheds : ListOf(r)' = ListOf(r)
  BY <1>2 DEF ListOf
<1>5. EachHost' /\ OneEach'
  <2>1. HostKnown(s)'
    BY <1>1, <1>2, <1>4 DEF HostKnown
  <2>2. InContext(s)'
    BY <1>2 DEF InContext, Names
  <2> QED
    BY <1>1, <1>2, <1>3, <2>1, <2>2, OneSchedulerChanges, ClientInvHas
<1>6. IdleWorkerKeepsItsContext' /\ Hosted'
  <2>1. \A r \in Scheds : scheduler'[r].wid = scheduler[r].wid
    BY <1>1, <1>2 DEF Names
  <2> QED
    BY <1>3, <2>1, WorkersKept, ClientInvHas
<1>7. Abstract!Detach(t, ListOf(s))
  <2>1. <<t, ListOf(s)>> \in Attached
    BY <1>1 DEF Attached
  <2>2. Attached' = Attached \ {<<t, ListOf(s)>>}
    <3> DEFINE Bound == {r \in Scheds : SchedExists(r) /\ scheduler[r].state # "FINISHED"}
               Pair(r) == <<scheduler[r].pid, ListOf(r)>>
    <3>1. Bound' = Bound \ {s} /\ s \in Bound
      BY <1>1, <1>2, <1>3
    <3>2. ASSUME NEW r \in Scheds PROVE Pair(r)' = Pair(r)
      BY <1>1, <1>2, <1>4
    <3>3. Pair(s) = <<t, ListOf(s)>> /\ \A r \in Bound : r # s => Pair(r) # Pair(s)
      BY <1>1
    <3>4. Attached = {Pair(r) : r \in Bound} /\ Attached' = {Pair(r)' : r \in Bound'}
      BY DEF Attached
    <3>5. Bound \subseteq Scheds
      OBVIOUS
    <3> HIDE DEF Bound, Pair
    <3> QED
      BY <3>1, <3>2, <3>3, <3>4, <3>5
  <2>3. Closed' = Closed /\ Phases' = Phases /\ Member' = Member /\ On' = On
    BY <1>3, ListsSeenSame, WorkersSeenSame
  <2> QED
    BY <1>1, <2>1, <2>2, <2>3 DEF Abstract!Detach
<1>8. ListOf(s) \in Lists
  BY ListOfType, ClientInvHas
<1> QED
  BY <1>5, <1>6, <1>7, <1>8 DEF Simulates, UseInv, Abstract!Next

-----------------------------------------------------------------------------
(* The switches *)

\* What WorkerScheduling sees when one worker, of an unchanged list, changes.
LEMMA OneWorkerSeen ==
  ASSUME NEW w \in Workers, WorkerExists(w), process' = process,
         \A v \in Workers : v # w => worker'[v] = worker[v],
         worker'[w].clid = worker[w].clid
  PROVE  /\ Phases' = [Phases EXCEPT ![w] = PhaseIn[worker'[w].state]]
         /\ Member' = Member
         /\ worker[w].state # "RUNNING" /\ worker'[w].state = "RUNNING" =>
              On' = On \cup {<<worker'[w].pid, w>>}
         /\ worker[w].state = "RUNNING" /\ worker'[w].state # "RUNNING" =>
              On' = On \ {<<worker[w].pid, w>>}
<1>1. \A v \in Workers : WorkerExists(v)' <=> WorkerExists(v)
  BY DEF WorkerExists
<1>2. /\ Phase(w)' = PhaseIn[worker'[w].state]
      /\ \A v \in Workers : v # w => Phase(v)' = Phase(v)
  BY <1>1 DEF Phase, PhaseIn
<1>3. Phases' = [Phases EXCEPT ![w] = PhaseIn[worker'[w].state]]
  BY <1>2 DEF Phases
<1>4. Member' = Member
  BY <1>1 DEF Member
<1> DEFINE Busy == {v \in Workers : WorkerExists(v) /\ worker[v].state = "RUNNING"}
<1>5. On = {<<worker[v].pid, v>> : v \in Busy} /\ On' = {<<worker'[v].pid, v>> : v \in Busy'}
  BY DEF On
<1>6. ASSUME worker[w].state # "RUNNING", worker'[w].state = "RUNNING"
      PROVE  On' = On \cup {<<worker'[w].pid, w>>}
  <2>1. Busy' = Busy \cup {w} /\ Busy \subseteq Workers /\ w \notin Busy
    BY <1>1, <1>6
  <2> HIDE DEF Busy
  <2> QED
    BY <1>5, <2>1
<1>7. ASSUME worker[w].state = "RUNNING", worker'[w].state # "RUNNING"
      PROVE  On' = On \ {<<worker[w].pid, w>>}
  <2>1. Busy' = Busy \ {w} /\ Busy \subseteq Workers /\ w \in Busy
    BY <1>1, <1>7
  <2> HIDE DEF Busy
  <2> QED
    BY <1>5, <2>1
<1> QED
  BY <1>3, <1>4, <1>6, <1>7

\* A worker of the scheduler's list is executed: the pthread enters its code.
LEMMA SwitchToWorkerStep ==
  ASSUME ClientInv, NEW t \in Pthreads, NEW s \in Scheds, RunBy(s, t),
         \E r \in Scheds : regs[t] = SchedCtx(r),
         NEW i \in DOMAIN comp_list[ListOf(s)].idle_list, SwitchToWorker(t, s, i)
  PROVE  Simulates
<1> PICK l \in Lists : l = ListOf(s) /\ l[1] = s[1]
  BY ListOfType, ClientInvHas DEF ListOf
<1> PICK wid : wid = comp_list[l].idle_list[i]
  OBVIOUS
<1> PICK w : w = <<s[1], wid>>
  OBVIOUS
<1>1. /\ wid \in Members(l) /\ wid \in Wids /\ w \in Workers
      /\ worker[w].state = "IDLE" /\ WorkerExists(w) /\ worker[w].clid = l[2]
  BY IdleIsUnnamed, ClientInvHas DEF Members
<1>2. /\ regs[t] = SchedCtx(s) /\ ~ Names(s) /\ scheduler[s].state # "FINISHED"
      /\ SchedExists(s) /\ scheduler[s].pid = t /\ HostKnown(s)
      /\ \A r \in Scheds : r # s /\ SchedExists(r) => scheduler[r].pid # t
      /\ \A v \in Workers : <<t, v>> \notin On
      /\ t \in Tasks
  BY InSchedulerCode, PthreadIsTask
<1>3. /\ worker' = [worker EXCEPT ![w] = Assigned(@, scheduler[s].sid, t)]
      /\ scheduler' = [scheduler EXCEPT ![s] = Hosting(@, wid, regs[t])]
      /\ comp_list' = [comp_list EXCEPT ![l] = MoveToBusy(@, i)]
      /\ regs' = [regs EXCEPT ![t] = Entered(worker[w].regs)]
      /\ process' = process
  BY DEF SwitchToWorker
<1>4. /\ worker'[w].state = "RUNNING" /\ worker'[w].pid = t
      /\ worker'[w].clid = worker[w].clid
      /\ \A v \in Workers : v # w => worker'[v] = worker[v]
  BY <1>1, <1>3, ClientInvHas DEF Assigned, TypeInv, TypeOK, WorkerNodes
<1>5. /\ scheduler'[s].wid = wid /\ scheduler'[s].regs = SchedCtx(s)
      /\ scheduler'[s].state = "RUNNING"
      /\ scheduler'[s].pid = t /\ scheduler'[s].home = scheduler[s].home
      /\ scheduler'[s].comp_list = scheduler[s].comp_list
      /\ \A r \in Scheds : r # s => scheduler'[r] = scheduler[r]
  BY <1>2, <1>3, ClientInvHas DEF Hosting, TypeInv, TypeOK, SchedNodes
<1>6. \A m \in Lists : comp_list'[m].state = comp_list[m].state
  BY <1>3, ClientInvHas DEF MoveToBusy, TypeInv, TypeOK, ListNodes
<1>7. regs'[t] = WorkerCtx(w) /\ \A u \in Tasks : u # t => regs'[u] = regs[u]
  <2>1. worker[w].regs \in {WorkerEntry(w), WorkerCtx(w)}
    BY <1>1, ClientInvHas DEF UseInv, IdleWorkerKeepsItsContext
  <2>2. Entered(worker[w].regs) = WorkerCtx(w)
    BY <2>1 DEF Entered, WorkerEntry, WorkerCtx
  <2> QED
    BY <1>2, <1>3, <2>2, ClientInvHas DEF TypeInv, TypeOK
<1>8. /\ \A r \in Scheds : SchedExists(r)' <=> SchedExists(r)
      /\ \A v \in Workers : WorkerExists(v)' <=> WorkerExists(v)
      /\ \A r \in Scheds : ListOf(r) \in Lists
  <2>1. \A r \in Scheds : ListOf(r) \in Lists
    BY ListOfType, ClientInvHas
  <2> QED
    BY <1>3, <2>1, ExistsKept
<1>9. Names(s)' /\ Named(s)' = w /\ ListOf(s)' = l
  <2>1. scheduler'[s].wid = wid /\ wid # NoId
    BY <1>1, <1>5, BoundsAssumption DEF Wids, NoId
  <2>2. Names(s)' /\ Named(s)' = w
    BY <1>1, <2>1 DEF Names, Named
  <2>3. ListOf(s)' = l
    BY <1>1, <1>5 DEF ListOf
  <2> QED
    BY <2>2, <2>3
<1>10. EachHost' /\ OneEach'
  <2>1. HostKnown(s)'
    BY <1>2, <1>5, <1>6, <1>9 DEF HostKnown
  <2>2. InContext(s)'
    BY <1>5, <1>7, <1>9 DEF InContext
  <2> QED
    BY <1>2, <1>5, <1>6, <1>7, <1>8, <2>1, <2>2, OneSchedulerChanges, ClientInvHas
<1>11. IdleWorkerKeepsItsContext'
  BY <1>4, <1>8, ClientInvHas DEF UseInv, IdleWorkerKeepsItsContext
<1>12. Hosted'
  <2>1. ASSUME NEW v \in Workers, WorkerExists(v)', worker'[v].state = "RUNNING"
        PROVE  \E r \in Scheds : SchedExists(r)' /\ Names(r)' /\ Named(r)' = v
    <3>1. CASE v = w
      BY <1>2, <1>8, <1>9, <3>1
    <3>2. CASE v # w
      <4>1. PICK r \in Scheds : SchedExists(r) /\ Names(r) /\ Named(r) = v
        BY <1>4, <1>8, <2>1, <3>2, ClientInvHas DEF UseInv, Hosted
      <4>2. Names(r)' /\ Named(r)' = v
        BY <1>2, <1>5, <4>1 DEF Names, Named
      <4> QED
        BY <1>8, <4>1, <4>2
    <3> QED
      BY <3>1, <3>2
  <2> QED
    BY <2>1 DEF Hosted
<1>13. Abstract!Dispatch(t, w)
  <2>1. Phases[w] = "ready"
    BY <1>1 DEF Phases, Phase, PhaseIn
  <2>2. <<w, l>> \in Member /\ <<t, l>> \in Attached
    <3>1. l = <<w[1], worker[w].clid>>
      BY <1>1 DEF Lists
    <3> QED
      BY <1>1, <1>2, <3>1 DEF Member, Attached
  <2>3. /\ Phases' = [Phases EXCEPT ![w] = "running"]
        /\ Member' = Member
        /\ On' = On \cup {<<t, w>>}
    <3>1. PhaseIn[worker'[w].state] = "running"
      BY <1>4 DEF PhaseIn
    <3>2. worker[w].state # "RUNNING" /\ worker'[w].state = "RUNNING"
      BY <1>1, <1>4
    <3>3. /\ Phases' = [Phases EXCEPT ![w] = PhaseIn[worker'[w].state]]
          /\ Member' = Member
          /\ On' = On \cup {<<worker'[w].pid, w>>}
      BY <1>1, <1>3, <1>4, <3>2, OneWorkerSeen
    <3> QED
      BY <1>4, <3>1, <3>3
  <2>4. Closed' = Closed
    BY <1>6, ListsSeenSame
  <2>5. Attached' = Attached
    <3>1. \A r \in Scheds : /\ scheduler'[r].pid = scheduler[r].pid
                            /\ scheduler'[r].comp_list = scheduler[r].comp_list
      BY <1>2, <1>5
    <3>2. \A r \in Scheds : scheduler'[r].state = "FINISHED" <=>
                            scheduler[r].state = "FINISHED"
      BY <1>2, <1>5
    <3> QED
      BY <1>8, <3>1, <3>2, SchedsSeenSame
  <2> QED
    BY <1>2, <2>1, <2>2, <2>3, <2>4, <2>5 DEF Abstract!Dispatch
<1> QED
  BY <1>1, <1>10, <1>11, <1>12, <1>13 DEF Simulates, UseInv, Abstract!Next

\* The worker gives the pthread back to its scheduler's code.
LEMMA SwitchToSchedulerStep ==
  ASSUME ClientInv, NEW t \in Pthreads, NEW s \in Scheds, RunBy(s, t),
         NEW status \in {"PAUSE", "FINISH"},
         NEW i \in DOMAIN comp_list[ListOf(s)].busy_list,
         comp_list[ListOf(s)].busy_list[i] = scheduler[s].wid,
         SwitchToScheduler(t, s, i, status)
  PROVE  Simulates
<1> PICK l \in Lists : l = ListOf(s)
  BY ListOfType, ClientInvHas
<1> PICK w : w = Named(s)
  OBVIOUS
<1> PICK n \in ListNodes : n = comp_list[l]
  BY ClientInvHas DEF TypeInv, TypeOK
<1>1. /\ w \in Workers /\ Names(s) /\ worker[w].state = "RUNNING" /\ WorkerExists(w)
      /\ worker[w].pid = scheduler[s].pid
  <2>1. scheduler[s].wid \in Wids
    BY SwitchToSchedulerTypes, ClientInvHas
  <2>2. Names(s) /\ Owns(s)
    BY <2>1, ClientInvHas, BoundsAssumption DEF Names, Wids, NoId
  <2> QED
    BY <2>2, NamedType, ClientInvHas DEF Owns, Named
<1>2. SchedExists(s) /\ scheduler[s].pid = t /\ t \in Tasks /\ t # NoId
  BY PthreadIsTask, ClientAssumption DEF RunBy
<1>3. /\ HostKnown(s)
      /\ regs[t] = WorkerCtx(w) /\ scheduler[s].regs = SchedCtx(s)
      /\ \A r \in Scheds : r # s /\ SchedExists(r) => scheduler[r].pid # t
  BY <1>1, <1>2, ClientInvHas DEF UseInv, EachHost, InContext, OneEach
<1>4. /\ worker' = [worker EXCEPT ![w] = Released(@, status, regs[t])]
      /\ scheduler' = [scheduler EXCEPT ![s] = Waiting(@)]
      /\ comp_list' = [comp_list EXCEPT ![l] = Yielded(@, i, status)]
      /\ regs' = [regs EXCEPT ![t] = Entered(scheduler[s].regs)]
      /\ process' = process
  BY DEF SwitchToScheduler, Named
<1>5. /\ worker'[w].state = IF status = "PAUSE" THEN "IDLE" ELSE "FINISHED"
      /\ worker'[w].regs = WorkerCtx(w) /\ worker'[w].pid = t
      /\ worker'[w].clid = worker[w].clid
      /\ \A v \in Workers : v # w => worker'[v] = worker[v]
  BY <1>1, <1>2, <1>3, <1>4, ClientInvHas DEF Released, TypeInv, TypeOK, WorkerNodes
<1>6. /\ scheduler'[s].wid = NoId /\ scheduler'[s].state = "IDLE"
      /\ scheduler'[s].pid = t /\ scheduler'[s].home = scheduler[s].home
      /\ scheduler'[s].comp_list = scheduler[s].comp_list
      /\ \A r \in Scheds : r # s => scheduler'[r] = scheduler[r]
  BY <1>2, <1>4, ClientInvHas DEF Waiting, TypeInv, TypeOK, SchedNodes
<1>7. \A m \in Lists : comp_list'[m].state = comp_list[m].state
  <2>1. Yielded(n, i, status).state = n.state
    BY DEF Yielded, MoveToIdle, ListNodes
  <2> QED
    BY <1>4, <2>1, ClientInvHas DEF TypeInv, TypeOK
<1>8. regs'[t] = SchedCtx(s) /\ \A u \in Tasks : u # t => regs'[u] = regs[u]
  <2>1. Entered(scheduler[s].regs) = SchedCtx(s)
    BY <1>3 DEF Entered, SchedCtx
  <2> QED
    BY <1>2, <1>4, <2>1, ClientInvHas DEF TypeInv, TypeOK
<1>9. /\ \A r \in Scheds : SchedExists(r)' <=> SchedExists(r)
      /\ \A v \in Workers : WorkerExists(v)' <=> WorkerExists(v)
      /\ \A r \in Scheds : ListOf(r) \in Lists
  <2>1. \A r \in Scheds : ListOf(r) \in Lists
    BY ListOfType, ClientInvHas
  <2> QED
    BY <1>4, <2>1, ExistsKept
<1>10. EachHost' /\ OneEach'
  <2>1. HostKnown(s)'
    <3>1. ListOf(s)' = l
      BY <1>6 DEF ListOf
    <3> QED
      BY <1>2, <1>3, <1>6, <1>7, <3>1 DEF HostKnown
  <2>2. InContext(s)'
    BY <1>6, <1>8 DEF InContext, Names
  <2> QED
    BY <1>2, <1>3, <1>6, <1>7, <1>8, <1>9, <2>1, <2>2, OneSchedulerChanges, ClientInvHas
<1>11. IdleWorkerKeepsItsContext'
  BY <1>2, <1>5, <1>9, ClientInvHas DEF UseInv, IdleWorkerKeepsItsContext
<1>12. Hosted'
  <2>1. ASSUME NEW v \in Workers, WorkerExists(v)', worker'[v].state = "RUNNING"
        PROVE  \E r \in Scheds : SchedExists(r)' /\ Names(r)' /\ Named(r)' = v
    <3>1. v # w
      BY <1>5, <2>1
    <3>2. PICK r \in Scheds : SchedExists(r) /\ Names(r) /\ Named(r) = v
      BY <1>5, <1>9, <2>1, <3>1, ClientInvHas DEF UseInv, Hosted
    <3>3. Names(r)' /\ Named(r)' = v
      BY <1>6, <3>1, <3>2 DEF Names, Named
    <3> QED
      BY <1>9, <3>2, <3>3
  <2> QED
    BY <2>1 DEF Hosted
<1>13. \E outcome \in {"ready", "done"} : Abstract!Release(t, w, outcome)
  <2>1. Phases[w] = "running" /\ <<t, w>> \in On
    BY <1>1, <1>2 DEF Phases, Phase, PhaseIn, On
  <2>2. PICK outcome \in {"ready", "done"} : outcome = PhaseIn[worker'[w].state]
    BY <1>5 DEF PhaseIn
  <2>3. /\ Phases' = [Phases EXCEPT ![w] = outcome]
        /\ Member' = Member
        /\ On' = On \ {<<t, w>>}
    BY <1>1, <1>2, <1>4, <1>5, <2>2, OneWorkerSeen
  <2>4. Closed' = Closed
    BY <1>7, ListsSeenSame
  <2>5. Attached' = Attached
    <3>1. scheduler[s].state # "FINISHED"
      BY <1>1, ClientInvHas DEF Owns
    <3>2. \A r \in Scheds : /\ scheduler'[r].pid = scheduler[r].pid
                            /\ scheduler'[r].comp_list = scheduler[r].comp_list
      BY <1>2, <1>6
    <3>3. \A r \in Scheds : scheduler'[r].state = "FINISHED" <=>
                            scheduler[r].state = "FINISHED"
      BY <1>6, <3>1
    <3> QED
      BY <1>9, <3>2, <3>3, SchedsSeenSame
  <2>6. Abstract!Release(t, w, outcome)
    BY <2>1, <2>3, <2>4, <2>5 DEF Abstract!Release
  <2> QED
    BY <2>6
<1> QED
  BY <1>1, <1>10, <1>11, <1>12, <1>13 DEF Simulates, UseInv, Abstract!Next

-----------------------------------------------------------------------------
(* Every step *)

\* The early returns and crashes of all handlers.
LEMMA RefusalStep ==
  ASSUME ClientInv, NEW t \in Tasks, NEW err,
         Fail(t, err) \/ Miss(t, err) \/ RejectCaller(t) \/ Crash
  PROVE  Simulates
<1>1. UNCHANGED <<process, comp_list, worker, scheduler, regs>>
  BY DEF Fail, Miss, RejectCaller, Crash
<1> QED
  BY <1>1, QuietStep

\* A new completion list gets an id that no scheduler uses.
LEMMA NewListStep ==
  ASSUME ClientInv, NEW t \in Tasks, CreateCompletionList(t)
  PROVE  Simulates
<1>1. CASE Fail(t, "PROCESS_NOT_FOUND")
  BY <1>1, RefusalStep
<1>2. CASE /\ process[t].list_count < MaxLists
           /\ process' = [process EXCEPT ![t].list_count = @ + 1]
           /\ comp_list' = [comp_list EXCEPT ![<<t, process[t].list_count>>] = EmptyList]
           /\ UNCHANGED <<worker, scheduler, regs>>
  <2> PICK n : n = process[t].list_count
    OBVIOUS
  <2> PICK l : l = <<t, n>>
    OBVIOUS
  <2>1. n \in Nat /\ l \in Lists
    BY <1>2, ClientInvHas, BoundsAssumption DEF TypeInv, TypeOK, ProcessNodes, Lists, Clids
  <2>2. comp_list[l].state # "RUNNING"
    BY <2>1, ClientInvHas DEF UsedExists, ListExists
  <2>3. comp_list'[l].state = "IDLE" /\ \A m \in Lists : m # l => comp_list'[m] = comp_list[m]
    BY <1>2, <2>1, ClientInvHas DEF TypeInv, TypeOK, EmptyList
  <2>4. \A p \in Tasks : /\ process'[p].worker_count = process[p].worker_count
                         /\ process'[p].schedulers = process[p].schedulers
    BY <1>2, ClientInvHas DEF TypeInv, TypeOK, ProcessNodes
  <2> QED
    BY <1>2, <2>2, <2>3, <2>4, QuietStep
<1> QED
  BY <1>1, <1>2 DEF CreateCompletionList

LEMMA MainCodeStep ==
  ASSUME ClientInv, NEW t \in Tasks, MainCode(t)
  PROVE  Simulates
<1>1. CASE EnterUms(t) \/ ExitUms(t)
  <2>1. UNCHANGED <<comp_list, worker, scheduler, regs>>
    BY <1>1 DEF EnterUms, ExitUms, Fail
  <2>2. \A p \in Tasks : /\ process'[p].worker_count = process[p].worker_count
                         /\ process'[p].schedulers = process[p].schedulers
    <3>1. process \in [Tasks -> ProcessNodes]
      BY ClientInvHas DEF TypeInv, TypeOK
    <3>2. CASE EnterUms(t)
      BY <3>1, <3>2 DEF EnterUms, Fail, ProcessNodes
    <3>3. CASE ExitUms(t)
      BY <3>1, <3>3 DEF ExitUms, Fail, ProcessNodes
    <3> QED
      BY <1>1, <3>2, <3>3
  <2> QED
    BY <2>1, <2>2, QuietStep
<1>2. CASE CreateCompletionList(t)
  BY <1>2, NewListStep
<1>3. ASSUME NEW c \in Clids, CreateWorkerThread(t, c)
      PROVE  Simulates
  <2>1. CASE \E err \in Errors : Fail(t, err) \/ Miss(t, err)
    BY <2>1, RefusalStep
  <2>2. CASE Modifiable(comp_list[<<t, c>>]) /\ AddWorker(t, c)
    BY <2>2, AddWorkerStep
  <2> QED
    BY <1>3, <2>1, <2>2 DEF CreateWorkerThread, Errors
<1> QED
  BY <1>1, <1>2, <1>3 DEF MainCode

LEMMA PthreadCodeStep ==
  ASSUME ClientInv, SoundFaults, NEW t \in Tasks, PthreadCode(t)
  PROVE  Simulates
<1>1. /\ t \in Pthreads /\ regs[t] = Own(t)
      /\ ~ \E s \in Scheds : RunBy(s, t)
  BY DEF PthreadCode
<1> PICK c \in Clids : EnterSchedulingMode(t, c)
  BY DEF PthreadCode
<1>2. CASE \E err \in Errors : Fail(t, err) \/ Miss(t, err) \/ Crash
  BY <1>2, RefusalStep
<1>3. CASE AddScheduler(t, c)
  BY <1>1, <1>3, AddSchedulerStep
<1> QED
  BY <1>2, <1>3 DEF EnterSchedulingMode, Errors

LEMMA SchedulerCodeStep ==
  ASSUME ClientInv, NEW t \in Tasks, SchedulerCode(t)
  PROVE  Simulates
<1>1. t \in Pthreads /\ \E r \in Scheds : regs[t] = SchedCtx(r)
  BY DEF SchedulerCode
<1>2. CASE DequeueCompletionListItems(t)
  <2>1. CASE RejectCaller(t)
    BY <2>1, RefusalStep
  <2>2. CASE UNCHANGED <<process, comp_list, worker, scheduler, regs>>
    BY <2>2, QuietStep
  <2> QED
    BY <1>2, <2>1, <2>2 DEF DequeueCompletionListItems, Fail
<1>3. ASSUME NEW wid, ExecuteThread(t, wid)
      PROVE  Simulates
  <2>1. CASE \E err \in Errors : RejectCaller(t) \/ Fail(t, err) \/ Miss(t, err)
    BY <2>1, RefusalStep
  <2>2. CASE \E s \in Scheds : \E i \in DOMAIN comp_list[ListOf(s)].idle_list :
               RunBy(s, t) /\ SwitchToWorker(t, s, i)
    BY <1>1, <2>2, SwitchToWorkerStep
  <2> QED
    BY <1>3, <2>1, <2>2 DEF ExecuteThread, Errors
<1>4. CASE ExitSchedulingMode(t)
  <2>1. CASE \E err \in Errors : RejectCaller(t) \/ Fail(t, err) \/ Crash
    BY <2>1, RefusalStep
  <2>2. CASE \E s \in Scheds :
               /\ RunBy(s, t)
               /\ scheduler' = [scheduler EXCEPT ![s] = Left(@)]
               /\ regs' = [regs EXCEPT ![t] = scheduler[s].home]
               /\ UNCHANGED <<process, comp_list, worker>>
    BY <1>1, <2>2, LeftStep
  <2> QED
    BY <1>4, <2>1, <2>2 DEF ExitSchedulingMode, Errors
<1> QED
  BY <1>2, <1>3, <1>4 DEF SchedulerCode

LEMMA WorkerCodeStep ==
  ASSUME ClientInv, NEW t \in Tasks, WorkerCode(t)
  PROVE  Simulates
<1>1. t \in Pthreads
  BY DEF WorkerCode
<1> PICK status \in {"PAUSE", "FINISH"} : ThreadYield(t, status)
  BY DEF WorkerCode
<1>2. CASE \E err \in Errors : RejectCaller(t) \/ Fail(t, err) \/ Miss(t, err)
  BY <1>2, RefusalStep
<1>3. CASE \E s \in Scheds : \E i \in DOMAIN comp_list[ListOf(s)].busy_list :
             /\ RunBy(s, t)
             /\ comp_list[ListOf(s)].busy_list[i] = scheduler[s].wid
             /\ SwitchToScheduler(t, s, i, status)
  BY <1>1, <1>3, SwitchToSchedulerStep
<1> QED
  BY <1>2, <1>3 DEF ThreadYield, Errors

\* The program issues requests the module serves.
LEMMA ClientIssuesRequests == ClientNext => Next
  BY DEF ClientNext, Next, MainCode, PthreadCode, SchedulerCode, WorkerCode,
         MainRequest, SchedulerRequest, Statuses

LEMMA ClientInit ==
  ASSUME Init
  PROVE  ClientInv /\ Abstract!Init
<1>1. CountInv
  BY CountInit
<1>2. /\ \A w \in Workers : ~ WorkerExists(w)
      /\ \A s \in Scheds : ~ SchedExists(s)
      /\ \A l \in Lists : comp_list[l].state = "IDLE"
  BY BoundsAssumption DEF Init, NoProcess, WorkerExists, SchedExists, EmptyList,
                          Workers, Wids, Scheds, Sids
<1>3. UseInv
  BY <1>2 DEF UseInv, EachHost, OneEach, IdleWorkerKeepsItsContext, Hosted
<1>4. Abstract!Init
  <2>1. Phases = [w \in Workers |-> "absent"]
    BY <1>2 DEF Phases, Phase
  <2>2. Member = {} /\ Closed = {} /\ Attached = {} /\ On = {}
    BY <1>2 DEF Member, Closed, Attached, On
  <2> QED
    BY <2>1, <2>2 DEF Abstract!Init
<1> QED
  BY <1>1, <1>3, <1>4 DEF ClientInv

LEMMA ClientStep ==
  ASSUME SoundFaults, ClientInv, [ClientNext]_vars
  PROVE  ClientInv' /\ [Abstract!Next]_(Abstract!vars)
<1>1. CountInv'
  BY CountStep, ClientIssuesRequests DEF ClientInv
<1>2. Simulates
  <2>1. CASE UNCHANGED vars
    BY <2>1, QuietStep DEF vars
  <2>2. CASE ClientNext
    BY <2>2, MainCodeStep, PthreadCodeStep, SchedulerCodeStep, WorkerCodeStep DEF ClientNext
  <2> QED
    BY <2>1, <2>2
<1> QED
  BY <1>1, <1>2 DEF ClientInv, Simulates

\* A pthread executes what its scheduler's node says, as long as the program uses
\* the module in the documented order and no scheduler node is left half made.
THEOREM ContextsFollow == SoundFaults => (ClientSpec => []ContextFollowsScheduler)
<1> SUFFICES ASSUME SoundFaults PROVE ClientSpec => []ContextFollowsScheduler
  OBVIOUS
<1>1. Init => ClientInv
  BY ClientInit
<1>2. ClientInv /\ [ClientNext]_vars => ClientInv'
  BY ClientStep
<1>3. ClientInv => ContextFollowsScheduler
  BY InvContextFollows
<1> QED
  BY <1>1, <1>2, <1>3, PTL DEF ClientSpec

\* A worker that was paused resumes where it paused, on whichever pthread.
THEOREM IdleKept == SoundFaults => (ClientSpec => []IdleWorkerKeepsItsContext)
<1> SUFFICES ASSUME SoundFaults PROVE ClientSpec => []IdleWorkerKeepsItsContext
  OBVIOUS
<1>1. Init => ClientInv
  BY ClientInit
<1>2. ClientInv /\ [ClientNext]_vars => ClientInv'
  BY ClientStep
<1>3. ClientInv => IdleWorkerKeepsItsContext
  BY DEF ClientInv, UseInv
<1> QED
  BY <1>1, <1>2, <1>3, PTL DEF ClientSpec

\* A RUNNING worker is on the processor of the pthread recorded in it, run by a
\* scheduler that names it.
THEOREM RunningHosted == SoundFaults => (ClientSpec => []RunningWorkerIsHosted)
<1> SUFFICES ASSUME SoundFaults PROVE ClientSpec => []RunningWorkerIsHosted
  OBVIOUS
<1>1. Init => ClientInv
  BY ClientInit
<1>2. ClientInv /\ [ClientNext]_vars => ClientInv'
  BY ClientStep
<1>3. ClientInv => RunningWorkerIsHosted
  BY InvHosted
<1> QED
  BY <1>1, <1>2, <1>3, PTL DEF ClientSpec

\* The kernel module, used by such a program, implements the abstract scheduling
\* of workers: each request is a step of it or changes nothing it speaks of.
THEOREM ClientImplements == SoundFaults => (ClientSpec => ImplementsWorkerScheduling)
<1> SUFFICES ASSUME SoundFaults PROVE ClientSpec => ImplementsWorkerScheduling
  OBVIOUS
<1>1. Init => ClientInv /\ Abstract!Init
  BY ClientInit
<1>2. ClientInv /\ [ClientNext]_vars => ClientInv' /\ [Abstract!Next]_(Abstract!vars)
  BY ClientStep
<1> QED
  BY <1>1, <1>2, PTL DEF ClientSpec, ImplementsWorkerScheduling, Abstract!Spec
=============================================================================
