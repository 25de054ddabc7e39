--------------------------- MODULE UmsModuleProofs ---------------------------
(***************************************************************************)
(* What UmsModule promises of the files under /proc/ums and of the release *)
(* of the nodes, for every set of tasks, every bound and every choice of   *)
(* failing services.                                                       *)
(*                                                                         *)
(* A directory stays complete because the list of its scheduler is RUNNING *)
(* from before it was made, so that no worker joins it (DirsListed); its   *)
(* info file finds the right node because sids are handed out in order,    *)
(* and one is handed out twice only after a scheduler was given up         *)
(* half-made (SidCounted, SidsTold).  Nothing that is freed is reached     *)
(* because of the order of exit_dev's calls (NoDevices, NoReaders), and    *)
(* because directories made in /proc itself open nothing (Opened).  That   *)
(* every worker is freed once rests on the lists of UmsApi (CountInv).     *)
(***************************************************************************)
EXTENDS UmsModule, UmsOwnsProofs

Stages == {"absent", "registered", "failed", "loaded", "delete_proc", "misc_deregister",
           "cleanup", "unloaded"}

DirNodes == [made : {"none", "complete", "partial"},
             files : SUBSET Wids, refused : SUBSET Wids]

\* No descriptor is open while the module is being unloaded or is gone.
NoDevices == module \in {"delete_proc", "misc_deregister", "cleanup", "unloaded"} => devices = {}

\* Nothing is open below /proc/ums once delete_proc has run.
NoReaders == module \in {"misc_deregister", "cleanup", "unloaded"} =>
               reader = NoNode \/ place[reader[2][1]] # "proc_ums"

\* Only cleanup frees, and only once it has nothing exists.
FreedLast == /\ \A node \in Nodes : freed[node] > 0 => module = "unloaded"
             /\ module = "unloaded" => \A s \in Scheds : ~ SchedExists(s)

\* The list of a scheduler whose directory is complete is RUNNING, so that no
\* worker joins it any more, and was so when its workers were counted.
Listing(s) ==
  /\ comp_list[ListOf(s)].state = "RUNNING"
  /\ dirs[s].files = Members(ListOf(s))

DirsListed == \A s \in Scheds : SchedExists(s) /\ dirs[s].made = "complete" => Listing(s)

\* A scheduler's sid is the number of schedulers that were counted before it;
\* only one whose parameters could not be copied back was not counted itself.
SidCounted ==
  \A s \in Scheds : SchedExists(s) =>
    /\ scheduler[s].sid <= process[s[1]].scheduler_count
    /\ scheduler[s].home # Garbage => scheduler[s].sid < process[s[1]].scheduler_count

SidsTold ==
  \A r \in Scheds, s \in Scheds :
    SchedExists(s) /\ r[1] = s[1] /\ r[2] < s[2] /\ scheduler[r].sid = scheduler[s].sid =>
      scheduler[r].home = Garbage

Told == DirsListed /\ SidCounted /\ SidsTold

ModuleInv ==
  /\ module \in Stages
  /\ module # "unloaded" => CountInv
  /\ dirs \in [Scheds -> DirNodes]
  /\ NoDevices /\ NoReaders /\ FreedLast
  /\ module # "unloaded" => Told
  /\ UnsetIsUnlisted

-----------------------------------------------------------------------------
(* What a request leaves alone *)

\* A scheduler that exists keeps its list, its sid and where it came from; a
\* list in use stays so and has the same workers.
SchedsKept ==
  \A s \in Scheds : SchedExists(s) =>
    /\ SchedExists(s)'
    /\ scheduler'[s].comp_list = scheduler[s].comp_list
    /\ scheduler'[s].sid = scheduler[s].sid
    /\ scheduler'[s].home = scheduler[s].home

ListsKept ==
  \A l \in Lists : comp_list[l].state = "RUNNING" =>
    comp_list'[l].state = "RUNNING" /\ Members(l)' = Members(l)

\* No scheduler is made or counted.
NoneMade == /\ \A s \in Scheds : SchedExists(s)' => SchedExists(s)
            /\ \A p \in Tasks : process'[p].scheduler_count = process[p].scheduler_count

\* The lists, workers, schedulers and processes of UmsApi as far as typed.
LEMMA CountInvHas ==
  ASSUME CountInv
  PROVE  TypeInv /\ ListInv /\ OwnInv /\ UsedExists
  BY DEF CountInv, OwnInv, ListInv

LEMMA MembersSame ==
  ASSUME NEW l \in Lists,
         \A p \in Tasks : process'[p].worker_count = process[p].worker_count,
         \A w \in Workers : worker'[w].clid = worker[w].clid
  PROVE  Members(l)' = Members(l)
  BY DEF Members, WorkerExists, Lists, Workers

LEMMA NothingMade ==
  ASSUME TypeInv, Told, SchedsKept, ListsKept, NoneMade, dirs' = dirs
  PROVE  Told'
<1>1. ASSUME NEW s \in Scheds, SchedExists(s)', dirs'[s].made = "complete"
      PROVE  Listing(s)'
  <2>1. SchedExists(s) /\ Listing(s)
    BY <1>1 DEF NoneMade, Told, DirsListed
  <2>2. ListOf(s) \in Lists /\ ListOf(s)' = ListOf(s)
    BY <2>1, ListOfType DEF SchedsKept, ListOf
  <2> QED
    BY <2>1, <2>2 DEF Listing, ListsKept
<1>2. SidCounted'
  <2> SUFFICES ASSUME NEW s \in Scheds, SchedExists(s)'
               PROVE  /\ scheduler'[s].sid <= process'[s[1]].scheduler_count
                      /\ scheduler'[s].home # Garbage =>
                           scheduler'[s].sid < process'[s[1]].scheduler_count
    BY DEF SidCounted
  <2>1. SchedExists(s) /\ s[1] \in Tasks
    BY SchedPair DEF NoneMade
  <2> QED
    BY <2>1 DEF Told, SidCounted, SchedsKept, NoneMade
<1>3. SidsTold'
  <2> SUFFICES ASSUME NEW r \in Scheds, NEW s \in Scheds, SchedExists(s)', r[1] = s[1],
                      r[2] < s[2], scheduler'[r].sid = scheduler'[s].sid
               PROVE  scheduler'[r].home = Garbage
    BY DEF SidsTold
  <2>1. SchedExists(s)
    BY DEF NoneMade
  <2>2. /\ r[2] \in Nat /\ s[2] \in Nat /\ s[1] \in Tasks
        /\ process[s[1]].schedulers \in Nat
    BY SchedPair, BoundsAssumption DEF TypeInv, TypeOK, ProcessNodes
  <2>3. SchedExists(r)
    BY <2>1, <2>2 DEF SchedExists
  <2> QED
    BY <2>1, <2>3 DEF Told, SidsTold, SchedsKept
<1> QED
  BY <1>1, <1>2, <1>3 DEF Told, DirsListed

\* The nodes are as they were.
LEMMA NodesSame ==
  ASSUME TypeInv, Told, UNCHANGED <<process, comp_list, worker, scheduler, dirs>>
  PROVE  Told'
<1>1. SchedsKept /\ NoneMade
  BY DEF SchedsKept, NoneMade, SchedExists
<1>2. ListsKept
  BY MembersSame DEF ListsKept
<1> QED
  BY <1>1, <1>2, NothingMade

-----------------------------------------------------------------------------
(* The requests, one by one *)

\* What a request that makes no scheduler is shown to do.
Quiet == SchedsKept /\ ListsKept /\ NoneMade

LEMMA SameIsQuiet ==
  ASSUME UNCHANGED <<process, comp_list, worker, scheduler>>
  PROVE  Quiet
<1>1. SchedsKept /\ NoneMade
  BY DEF SchedsKept, NoneMade, SchedExists
<1>2. ListsKept
  BY MembersSame DEF ListsKept
<1> QED
  BY <1>1, <1>2 DEF Quiet

LEMMA RefusalIsQuiet ==
  ASSUME NEW t \in Tasks, NEW err,
         Fail(t, err) \/ Miss(t, err) \/ RejectCaller(t) \/ Crash
  PROVE  Quiet
<1>1. UNCHANGED <<process, comp_list, worker, scheduler>>
  BY DEF Fail, Miss, RejectCaller, Crash
<1> QED
  BY <1>1, SameIsQuiet

\* enter_ums and exit_ums change what a process is, not what it has.
LEMMA ProcessIsQuiet ==
  ASSUME TypeInv, NEW t \in Tasks, EnterUms(t) \/ ExitUms(t)
  PROVE  Quiet
<1>1. /\ UNCHANGED <<comp_list, worker, scheduler>>
      /\ \A p \in Tasks :
           /\ process'[p].worker_count = process[p].worker_count
           /\ process'[p].schedulers = process[p].schedulers
           /\ process'[p].scheduler_count = process[p].scheduler_count
  BY DEF EnterUms, ExitUms, Fail, TypeInv, TypeOK, ProcessNodes
<1>2. SchedsKept /\ NoneMade
  BY <1>1, SchedPair DEF SchedsKept, NoneMade, SchedExists
<1>3. ListsKept
  BY <1>1, MembersSame DEF ListsKept
<1> QED
  BY <1>2, <1>3 DEF Quiet

\* A new list is none that is in use.
LEMMA NewListIsQuiet ==
  ASSUME CountInv, NEW t \in Tasks, CreateCompletionList(t)
  PROVE  Quiet
<1>1. CASE Fail(t, "PROCESS_NOT_FOUND")
  BY <1>1, RefusalIsQuiet
<1>2. CASE ~ Fail(t, "PROCESS_NOT_FOUND")
  <2> PICK k : k = process[t].list_count
    OBVIOUS
  <2>1. /\ process' = [process EXCEPT ![t].list_count = @ + 1]
        /\ comp_list' = [comp_list EXCEPT ![<<t, k>>] = EmptyList]
        /\ UNCHANGED <<worker, scheduler>>
    BY <1>2 DEF CreateCompletionList
  <2>2. TypeInv /\ UsedExists
    BY CountInvHas
  <2>3. \A p \in Tasks :
          /\ process'[p].worker_count = process[p].worker_count
          /\ process'[p].schedulers = process[p].schedulers
          /\ process'[p].scheduler_count = process[p].scheduler_count
    BY <2>1, <2>2 DEF TypeInv, TypeOK, ProcessNodes
  <2>4. SchedsKept /\ NoneMade
    BY <2>1, <2>3, SchedPair DEF SchedsKept, NoneMade, SchedExists
  <2>5. ASSUME NEW l \in Lists, comp_list[l].state = "RUNNING"
        PROVE  comp_list'[l].state = "RUNNING" /\ Members(l)' = Members(l)
    <3>1. l # <<t, k>>
      <4>1. ListExists(l) /\ k \in Int
        BY <2>2, <2>5 DEF UsedExists, TypeInv, TypeOK, ProcessNodes
      <4> QED
        BY <4>1 DEF ListExists
    <3>2. comp_list'[l] = comp_list[l]
      BY <2>1, <2>2, <3>1 DEF TypeInv, TypeOK
    <3> QED
      BY <2>1, <2>3, <2>5, <3>2, MembersSame
  <2> QED
    BY <2>4, <2>5 DEF Quiet, ListsKept
<1> QED
  BY <1>1, <1>2

\* A new worker joins a list that is not in use.
LEMMA NewWorkerIsQuiet ==
  ASSUME CountInv, NEW t \in Tasks, NEW c \in Clids, Modifiable(comp_list[<<t, c>>]),
         AddWorker(t, c)
  PROVE  Quiet
<1> PICK m : m = <<t, c>>
  OBVIOUS
<1>1. TypeInv /\ ListInv /\ m \in Lists /\ comp_list[m].state # "RUNNING"
  BY CountInvHas DEF Lists, Modifiable
<1>2. /\ process' = [process EXCEPT ![t].worker_count = @ + 1]
      /\ comp_list' = [comp_list EXCEPT ![m] = LinkIdle(@, process[t].worker_count)]
      /\ scheduler' = scheduler
  BY DEF AddWorker
<1>3. \A p \in Tasks : /\ process'[p].schedulers = process[p].schedulers
                       /\ process'[p].scheduler_count = process[p].scheduler_count
  BY <1>1, <1>2 DEF TypeInv, TypeOK, ProcessNodes
<1>4. SchedsKept /\ NoneMade
  BY <1>2, <1>3, SchedPair DEF SchedsKept, NoneMade, SchedExists
<1>5. ASSUME NEW l \in Lists, comp_list[l].state = "RUNNING"
      PROVE  comp_list'[l].state = "RUNNING" /\ Members(l)' = Members(l)
  <2>1. l # m /\ l # <<t, c>>
    BY <1>1, <1>5
  <2>2. comp_list'[l] = comp_list[l]
    BY <1>1, <1>2, <2>1 DEF TypeInv, TypeOK
  <2> PICK wid : wid = process[t].worker_count
    OBVIOUS
  <2>3. /\ ~ WorkerExists(<<t, wid>>)
        /\ \A v \in Workers :
             /\ WorkerExists(v)' <=> WorkerExists(v) \/ v = <<t, wid>>
             /\ v # <<t, wid>> => worker'[v] = worker[v]
    BY <1>1, AddWorkerMembers
  <2>4. worker'[<<t, wid>>].clid = c
    <3>1. <<t, wid>> \in Workers
      BY <1>1, AddWorkerMembers DEF Workers
    <3> QED
      BY <1>1, <3>1 DEF AddWorker, TypeInv, TypeOK
  <2>5. ASSUME NEW k \in Wids
        PROVE  k \in Members(l)' <=> k \in Members(l)
    <3>1. <<l[1], k>> \in Workers /\ l = <<l[1], l[2]>>
      BY DEF Lists, Workers
    <3>2. CASE <<l[1], k>> = <<t, wid>>
      BY <2>1, <2>3, <2>4, <3>1, <3>2 DEF Members
    <3>3. CASE <<l[1], k>> # <<t, wid>>
      BY <2>3, <3>1, <3>3 DEF Members
    <3> QED
      BY <3>2, <3>3
  <2>6. Members(l)' = Members(l)
    BY <2>5 DEF Members
  <2> QED
    BY <1>5, <2>2, <2>6
<1> QED
  BY <1>4, <1>5 DEF Quiet, ListsKept

\* One worker, one list and one scheduler change, in nothing that counts here.
LEMMA OneOfEachIsQuiet ==
  ASSUME TypeInv, process' = process,
         NEW w \in Workers, NEW l \in Lists, NEW s \in Scheds, NEW node, NEW list, NEW sched,
         worker' = [worker EXCEPT ![w] = node], node.clid = worker[w].clid,
         comp_list' = [comp_list EXCEPT ![l] = list], list.state = comp_list[l].state,
         scheduler' = [scheduler EXCEPT ![s] = sched],
         sched.comp_list = scheduler[s].comp_list, sched.sid = scheduler[s].sid,
         sched.home = scheduler[s].home
  PROVE  Quiet
<1>1. SchedsKept /\ NoneMade
  BY DEF SchedsKept, NoneMade, SchedExists, TypeInv, TypeOK
<1>2. /\ \A v \in Workers : worker'[v].clid = worker[v].clid
      /\ \A m \in Lists : comp_list'[m].state = comp_list[m].state
  BY DEF TypeInv, TypeOK
<1>3. ListsKept
  BY <1>2, MembersSame DEF ListsKept
<1> QED
  BY <1>1, <1>3 DEF Quiet

LEMMA SwitchToWorkerIsQuiet ==
  ASSUME TypeInv, NEW t \in Tasks, NEW s \in Scheds,
         NEW i \in DOMAIN comp_list[ListOf(s)].idle_list, SwitchToWorker(t, s, i)
  PROVE  Quiet
<1> PICK wid : wid = comp_list[ListOf(s)].idle_list[i]
  OBVIOUS
<1> PICK w : w = <<s[1], wid>>
  OBVIOUS
<1> PICK l : l = ListOf(s)
  OBVIOUS
<1>1. w \in Workers /\ l \in Lists
  BY SwitchToWorkerTypes, ListOfType
<1>2. /\ worker[w] \in WorkerNodes /\ comp_list[l] \in ListNodes /\ scheduler[s] \in SchedNodes
  BY <1>1 DEF TypeInv, TypeOK
<1>3. /\ process' = process
      /\ worker' = [worker EXCEPT ![w] = Assigned(worker[w], scheduler[s].sid, t)]
      /\ comp_list' = [comp_list EXCEPT ![l] = MoveToBusy(comp_list[l], i)]
      /\ scheduler' = [scheduler EXCEPT ![s] = Hosting(scheduler[s], wid, regs[t])]
  BY DEF SwitchToWorker
<1>4. /\ Assigned(worker[w], scheduler[s].sid, t).clid = worker[w].clid
      /\ MoveToBusy(comp_list[l], i).state = comp_list[l].state
  BY <1>2 DEF Assigned, MoveToBusy, WorkerNodes, ListNodes
<1>5. /\ Hosting(scheduler[s], wid, regs[t]).comp_list = scheduler[s].comp_list
      /\ Hosting(scheduler[s], wid, regs[t]).sid = scheduler[s].sid
      /\ Hosting(scheduler[s], wid, regs[t]).home = scheduler[s].home
  BY <1>2 DEF Hosting, SchedNodes
<1> QED
  BY <1>1, <1>3, <1>4, <1>5, OneOfEachIsQuiet

LEMMA SwitchToSchedulerIsQuiet ==
  ASSUME TypeInv, NEW t \in Tasks, NEW s \in Scheds, NEW status \in Statuses,
         NEW i \in DOMAIN comp_list[ListOf(s)].busy_list, SwitchToScheduler(t, s, i, status)
  PROVE  Quiet
<1> PICK w : w = <<s[1], comp_list[ListOf(s)].busy_list[i]>>
  OBVIOUS
<1> PICK l : l = ListOf(s)
  OBVIOUS
<1>1. w \in Workers /\ l \in Lists
  BY SwitchToSchedulerTypes, ListOfType
<1>2. /\ worker[w] \in WorkerNodes /\ comp_list[l] \in ListNodes /\ scheduler[s] \in SchedNodes
  BY <1>1 DEF TypeInv, TypeOK
<1>3. /\ process' = process
      /\ worker' = [worker EXCEPT ![w] = Released(worker[w], status, regs[t])]
      /\ comp_list' = [comp_list EXCEPT ![l] = Yielded(comp_list[l], i, status)]
      /\ scheduler' = [scheduler EXCEPT ![s] = Waiting(scheduler[s])]
  BY DEF SwitchToScheduler
<1>4. /\ Released(worker[w], status, regs[t]).clid = worker[w].clid
      /\ Yielded(comp_list[l], i, status).state = comp_list[l].state
  BY <1>2 DEF Released, Yielded, MoveToIdle, WorkerNodes, ListNodes
<1>5. /\ Waiting(scheduler[s]).comp_list = scheduler[s].comp_list
      /\ Waiting(scheduler[s]).sid = scheduler[s].sid
      /\ Waiting(scheduler[s]).home = scheduler[s].home
  BY <1>2 DEF Waiting, SchedNodes
<1> QED
  BY <1>1, <1>3, <1>4, <1>5, OneOfEachIsQuiet

LEMMA LeavingIsQuiet ==
  ASSUME TypeInv, NEW t \in Tasks, ExitSchedulingMode(t)
  PROVE  Quiet
<1>1. CASE RejectCaller(t) \/ Crash \/ Fail(t, "CMD_IS_NOT_ISSUED_BY_SCHEDULER")
  BY <1>1, RefusalIsQuiet
<1>2. CASE \E s \in Scheds : /\ scheduler' = [scheduler EXCEPT ![s] = Left(scheduler[s])]
                             /\ UNCHANGED <<process, comp_list, worker>>
  <2> PICK s \in Scheds : /\ scheduler' = [scheduler EXCEPT ![s] = Left(scheduler[s])]
                          /\ UNCHANGED <<process, comp_list, worker>>
    BY <1>2
  <2>1. scheduler[s] \in SchedNodes
    BY DEF TypeInv, TypeOK
  <2>2. /\ Left(scheduler[s]).comp_list = scheduler[s].comp_list
        /\ Left(scheduler[s]).sid = scheduler[s].sid
        /\ Left(scheduler[s]).home = scheduler[s].home
    BY <2>1 DEF Left, SchedNodes
  <2>3. SchedsKept /\ NoneMade
    BY <2>2 DEF SchedsKept, NoneMade, SchedExists, TypeInv, TypeOK
  <2>4. ListsKept
    BY MembersSame DEF ListsKept
  <2> QED
    BY <2>3, <2>4 DEF Quiet
<1> QED
  BY <1>1, <1>2 DEF ExitSchedulingMode

\* No request but enter_scheduling_mode makes a scheduler.
LEMMA RequestIsQuiet ==
  ASSUME CountInv, NEW t \in Tasks, EnterUms(t) \/ OtherRequest(t)
  PROVE  Quiet
<1>1. TypeInv
  BY CountInvHas
<1>2. CASE EnterUms(t) \/ ExitUms(t)
  BY <1>1, <1>2, ProcessIsQuiet
<1>3. CASE CreateCompletionList(t)
  BY <1>3, NewListIsQuiet
<1>4. ASSUME NEW c \in Clids, CreateWorkerThread(t, c)
      PROVE  Quiet
  <2>1. CASE \E err \in Errors : Fail(t, err) \/ Miss(t, err)
    BY <2>1, RefusalIsQuiet
  <2>2. CASE Modifiable(comp_list[<<t, c>>]) /\ AddWorker(t, c)
    BY <2>2, NewWorkerIsQuiet
  <2> QED
    BY <1>4, <2>1, <2>2 DEF CreateWorkerThread, Errors
<1>5. CASE ExitSchedulingMode(t)
  BY <1>1, <1>5, LeavingIsQuiet
<1>6. ASSUME NEW wid \in Wids \cup {NoId}, ExecuteThread(t, wid)
      PROVE  Quiet
  <2>1. CASE \E err \in Errors : RejectCaller(t) \/ Fail(t, err) \/ Miss(t, err)
    BY <2>1, RefusalIsQuiet
  <2>2. CASE \E s \in Scheds : \E i \in DOMAIN comp_list[ListOf(s)].idle_list :
               SwitchToWorker(t, s, i)
    BY <1>1, <2>2, SwitchToWorkerIsQuiet
  <2> QED
    BY <1>6, <2>1, <2>2 DEF ExecuteThread, Errors
<1>7. ASSUME NEW status \in Statuses, ThreadYield(t, status)
      PROVE  Quiet
  <2>1. CASE \E err \in Errors : RejectCaller(t) \/ Fail(t, err) \/ Miss(t, err)
    BY <2>1, RefusalIsQuiet
  <2>2. CASE \E s \in Scheds : \E i \in DOMAIN comp_list[ListOf(s)].busy_list :
               SwitchToScheduler(t, s, i, status)
    BY <1>1, <2>2, SwitchToSchedulerIsQuiet
  <2> QED
    BY <1>7, <2>1, <2>2 DEF ThreadYield, Errors
<1>8. CASE DequeueCompletionListItems(t)
  <2>1. CASE RejectCaller(t) \/ Fail(t, "BYTES_NOT_COPIED")
    BY <2>1, RefusalIsQuiet
  <2>2. CASE UNCHANGED <<process, comp_list, worker, scheduler>>
    BY <2>2, SameIsQuiet
  <2> QED
    BY <1>8, <2>1, <2>2 DEF DequeueCompletionListItems
<1> QED
  BY <1>2, <1>3, <1>4, <1>5, <1>6, <1>7, <1>8 DEF OtherRequest

\* Both lists of a completion list together are its workers.
LEMMA ListedIsMembers ==
  ASSUME CountInv, NEW l \in Lists
  PROVE  Listed(comp_list[l]) = Members(l)
<1>1. ListPartition /\ TypeInv
  BY CountInvHas DEF ListInv
<1>2. Members(l) = MembersIn(l, {"IDLE"}) \cup MembersIn(l, {"RUNNING", "FINISHED"})
  <2>1. \A n \in Members(l) : worker[<<l[1], n>>].state \in {"IDLE", "RUNNING", "FINISHED"}
    BY <1>1 DEF Members, Lists, Workers, TypeInv, TypeOK, WorkerNodes, States
  <2> QED
    BY <2>1 DEF MembersIn
<1> QED
  BY <1>1, <1>2 DEF Listed, ListPartition

\* What becomes of a scheduler's directory: it is complete when all went well.
LEMMA DirMade ==
  ASSUME NEW err, NEW l, Listed(l) \subseteq Wids, NEW dir \in DirsMade(err, l)
  PROVE  /\ dir \in DirNodes
         /\ dir.made = "complete" => err = "SUCCESS" /\ dir.files = Listed(l)
<1>1. CASE err = "SUCCESS"
  <2>1. DirsMade(err, l) = {[made |-> "complete", files |-> Listed(l), refused |-> r] :
            r \in IF "proc" \in Faults THEN SUBSET Listed(l) ELSE {{}}}
    BY <1>1, Zenon DEF DirsMade
  <2>2. PICK r \in SUBSET Listed(l) :
          dir = [made |-> "complete", files |-> Listed(l), refused |-> r]
    BY <2>1
  <2> QED
    BY <1>1, <2>2 DEF DirNodes
<1>2. CASE err = "FAILED_TO_CREATE_PROC_ENTRY"
  <2>1. DirsMade(err, l) = {[NoDir EXCEPT !.made = "partial"]}
    BY <1>2, Zenon DEF DirsMade
  <2> QED
    BY <2>1 DEF NoDir, DirNodes
<1>3. CASE err \notin {"SUCCESS", "FAILED_TO_CREATE_PROC_ENTRY"}
  <2>1. DirsMade(err, l) = {NoDir}
    BY <1>3, Zenon DEF DirsMade
  <2> QED
    BY <2>1 DEF NoDir, DirNodes
<1> QED
  BY <1>1, <1>2, <1>3

\* What AddScheduler does, field by field: the new node s, counted only if its
\* parameters were copied back, and then on a list in use.
AddedOn(s, l, t, err) ==
  /\ \A r \in Scheds : SchedExists(r)' <=> SchedExists(r) \/ r = s
  /\ \A r \in Scheds : r # s => scheduler'[r] = scheduler[r]
  /\ \A p \in Tasks : process'[p].worker_count = process[p].worker_count
  /\ \A p \in Tasks : process'[p].scheduler_count >= process[p].scheduler_count
  /\ worker' = worker
  /\ \A m \in Lists : comp_list[m].state = "RUNNING" => comp_list'[m].state = "RUNNING"
  /\ scheduler'[s].comp_list = l[2]
  /\ scheduler'[s].sid = process[s[1]].scheduler_count
  /\ err # "BYTES_NOT_COPIED" => comp_list'[l].state = "RUNNING"
  /\ scheduler'[s].home # Garbage =>
       process'[s[1]].scheduler_count = process[s[1]].scheduler_count + 1

LEMMA AddSchedulerAdds ==
  ASSUME TypeInv, NEW t \in Tasks, NEW c \in Clids, AddScheduler(t, c),
         NEW s, s = <<Tgid[t], process[Tgid[t]].schedulers>>
  PROVE  /\ s \in Scheds /\ ~ SchedExists(s) /\ <<s[1], c>> \in Lists
         /\ AddedOn(s, <<s[1], c>>, t, reply'.err)
         /\ process' # process
<1> PICK p : p = Tgid[t]
  OBVIOUS
<1> PICK k : k = process[p].schedulers
  OBVIOUS
<1> PICK n : n = process[p].scheduler_count
  OBVIOUS
<1> PICK l : l = <<p, c>>
  OBVIOUS
<1>1. /\ p \in Tasks /\ l \in Lists /\ k \in Nat /\ n \in Nat /\ k < MaxScheds
      /\ s = <<p, k>> /\ s \in Scheds /\ process[p] \in ProcessNodes
  BY TasksAssumption, BoundsAssumption
  DEF AddScheduler, TypeInv, TypeOK, ProcessNodes, Lists, Scheds, Sids
<1>2. ASSUME process'[p].schedulers = k + 1,
             \A q \in Tasks : q # p => process'[q] = process[q]
      PROVE  \A r \in Scheds : SchedExists(r)' <=> SchedExists(r) \/ r = s
  <2> TAKE r \in Scheds
  <2>1. r = <<r[1], r[2]>> /\ r[1] \in Tasks /\ r[2] \in Nat
    BY SchedPair
  <2>2. CASE r[1] = p
    BY <1>1, <1>2, <2>1, <2>2 DEF SchedExists
  <2>3. CASE r[1] # p
    BY <1>1, <1>2, <2>1, <2>3 DEF SchedExists
  <2> QED
    BY <2>2, <2>3
<1>3. CASE /\ process' = [process EXCEPT ![p].schedulers = k + 1]
           /\ scheduler' = [scheduler EXCEPT ![s] = NewSched(t, c)]
           /\ Return(t, "BYTES_NOT_COPIED", 0)
           /\ UNCHANGED <<comp_list, worker>>
  <2>1. /\ process'[p] = [process[p] EXCEPT !.schedulers = k + 1]
        /\ \A q \in Tasks : q # p => process'[q] = process[q]
        /\ scheduler'[s] = NewSched(t, c)
        /\ \A r \in Scheds : r # s => scheduler'[r] = scheduler[r]
    BY <1>1, <1>3 DEF TypeInv, TypeOK
  <2>2. /\ process'[p].schedulers = k + 1
        /\ process'[p].worker_count = process[p].worker_count
        /\ process'[p].scheduler_count = n
    BY <1>1, <2>1 DEF ProcessNodes
  <2>3. /\ scheduler'[s].comp_list = c /\ scheduler'[s].sid = n
        /\ scheduler'[s].home = Garbage
    BY <2>1 DEF NewSched
  <2>4. reply'.err = "BYTES_NOT_COPIED"
    BY <1>3 DEF Return, ReplyTo
  <2>5. \A q \in Tasks : process'[q].scheduler_count >= process[q].scheduler_count
    BY <1>1, <2>1, <2>2, BoundsAssumption DEF TypeInv, TypeOK, ProcessNodes
  <2>6. AddedOn(s, l, t, reply'.err)
    BY <1>1, <1>2, <1>3, <2>1, <2>2, <2>3, <2>4, <2>5 DEF AddedOn
  <2> QED
    BY <1>1, <2>2, <2>6 DEF SchedExists
<1>4. CASE /\ process' = [process EXCEPT ![p].schedulers = k + 1, ![p].scheduler_count = n + 1]
           /\ scheduler' = [scheduler EXCEPT ![s] =
                [NewSched(t, c) EXCEPT !.regs = SchedEntry(s), !.home = regs[t]]]
           /\ comp_list' = [comp_list EXCEPT ![l].state = "RUNNING"]
           /\ worker' = worker
  <2>1. /\ process'[p] = [process[p] EXCEPT !.schedulers = k + 1, !.scheduler_count = n + 1]
        /\ \A q \in Tasks : q # p => process'[q] = process[q]
        /\ scheduler'[s] = [NewSched(t, c) EXCEPT !.regs = SchedEntry(s), !.home = regs[t]]
        /\ \A r \in Scheds : r # s => scheduler'[r] = scheduler[r]
    BY <1>1, <1>4 DEF TypeInv, TypeOK
  <2>2. /\ process'[p].schedulers = k + 1
        /\ process'[p].worker_count = process[p].worker_count
        /\ process'[p].scheduler_count = n + 1
    BY <1>1, <2>1 DEF ProcessNodes
  <2>3. scheduler'[s].comp_list = c /\ scheduler'[s].sid = n
    BY <2>1 DEF NewSched
  <2>4. /\ comp_list'[l].state = "RUNNING"
        /\ \A m \in Lists : comp_list[m].state = "RUNNING" => comp_list'[m].state = "RUNNING"
        /\ worker' = worker
    BY <1>1, <1>4 DEF TypeInv, TypeOK, ListNodes
  <2>5. ASSUME NEW q \in Tasks
        PROVE  process'[q].scheduler_count >= process[q].scheduler_count
    <3>1. process[q].scheduler_count \in Nat
      BY BoundsAssumption DEF TypeInv, TypeOK, ProcessNodes
    <3>2. CASE q = p
      BY <1>1, <2>2, <3>1, <3>2
    <3>3. CASE q # p
      BY <2>1, <3>1, <3>3
    <3> QED
      BY <3>2, <3>3
  <2>6. AddedOn(s, l, t, reply'.err)
    <3>1. /\ \A r \in Scheds : SchedExists(r)' <=> SchedExists(r) \/ r = s
          /\ \A q \in Tasks : process'[q].worker_count = process[q].worker_count
      BY <1>2, <2>1, <2>2
    <3>2. /\ s[1] = p /\ l[2] = c
          /\ process'[s[1]].scheduler_count = process[s[1]].scheduler_count + 1
          /\ scheduler'[s].sid = process[s[1]].scheduler_count
      BY <1>1, <2>2, <2>3
    <3> QED
      BY <2>1, <2>3, <2>4, <2>5, <3>1, <3>2 DEF AddedOn
  <2> QED
    BY <1>1, <2>2, <2>6 DEF SchedExists
<1> QED
  BY <1>3, <1>4 DEF AddScheduler

\* enter_scheduling_mode with its directory: the new list is in use by the time
\* the directory is complete, the sid is new among those that were counted.
LEMMA EnterKeepsTold ==
  ASSUME CountInv, Told, dirs \in [Scheds -> DirNodes], NEW t \in Tasks, NEW c \in Clids,
         EnterSchedulingModeDir(t, c)
  PROVE  Told' /\ dirs' \in [Scheds -> DirNodes]
<1>1. TypeInv /\ UsedExists
  BY CountInvHas
<1>2. CASE \E err \in Errors : Fail(t, err) \/ Miss(t, err) \/ Crash
  <2>1. UNCHANGED <<process, comp_list, worker, scheduler>>
    BY <1>2 DEF Fail, Miss, Crash
  <2>2. dirs' = dirs
    BY <2>1 DEF EnterSchedulingModeDir
  <2> QED
    BY <1>1, <2>1, <2>2, NodesSame
<1>3. CASE AddScheduler(t, c)
  <2> PICK s : s = <<Tgid[t], process[Tgid[t]].schedulers>>
    OBVIOUS
  <2> PICK l : l = <<s[1], c>>
    OBVIOUS
  <2>1. /\ s \in Scheds /\ ~ SchedExists(s) /\ l \in Lists
        /\ AddedOn(s, l, t, reply'.err) /\ process' # process
    BY <1>1, <1>3, AddSchedulerAdds
  <2>2. Listed(comp_list[l]) = Members(l) /\ Members(l) \subseteq Wids
    BY <2>1, ListedIsMembers DEF Members
  <2>3. PICK dir \in DirsMade(reply'.err, comp_list[l]) : dirs' = [dirs EXCEPT ![s] = dir]
    BY <2>1 DEF EnterSchedulingModeDir
  <2>4. /\ dir \in DirNodes
        /\ dir.made = "complete" => reply'.err = "SUCCESS" /\ dir.files = Members(l)
    BY <2>2, DirMade
  <2>5. /\ \A m \in Lists : Members(m)' = Members(m)
        /\ \A m \in Lists : comp_list[m].state = "RUNNING" => comp_list'[m].state = "RUNNING"
    BY <2>1, MembersSame DEF AddedOn
  <2>6. ASSUME NEW r \in Scheds, SchedExists(r)', dirs'[r].made = "complete"
        PROVE  Listing(r)'
    <3>1. CASE r = s
      <4>1. dirs'[r] = dir /\ ListOf(r)' = l
        BY <2>1, <2>3, <3>1 DEF AddedOn, ListOf
      <4> QED
        BY <2>1, <2>4, <2>5, <2>6, <4>1 DEF Listing, AddedOn
    <3>2. CASE r # s
      <4>1. /\ SchedExists(r) /\ dirs'[r] = dirs[r] /\ scheduler'[r] = scheduler[r]
        BY <2>1, <2>3, <2>6, <3>2 DEF AddedOn
      <4>2. Listing(r) /\ ListOf(r) \in Lists /\ ListOf(r)' = ListOf(r)
        BY <1>1, <2>6, <4>1, ListOfType DEF Told, DirsListed, ListOf
      <4> QED
        BY <2>5, <4>1, <4>2 DEF Listing
    <3> QED
      BY <3>1, <3>2
  <2>7. \A p \in Tasks : process[p].scheduler_count \in Nat /\ process'[p].scheduler_count >= process[p].scheduler_count
    BY <1>1, <2>1, BoundsAssumption DEF AddedOn, TypeInv, TypeOK, ProcessNodes
  <2>8. ASSUME NEW r \in Scheds, SchedExists(r)'
        PROVE  /\ scheduler'[r].sid <= process'[r[1]].scheduler_count
               /\ scheduler'[r].home # Garbage => scheduler'[r].sid < process'[r[1]].scheduler_count
    <3>1. CASE r = s
      BY <2>1, <2>7, <3>1, SchedPair DEF AddedOn
    <3>2. CASE r # s
      <4>1. /\ SchedExists(r) /\ scheduler'[r] = scheduler[r]
            /\ scheduler[r].sid \in Int /\ r[1] \in Tasks
            /\ process'[r[1]].scheduler_count \in Int
        <5>1. TypeInv'
          BY <1>1, <1>3, AddSchedulerType
        <5> QED
          BY <1>1, <2>1, <2>8, <3>2, <5>1, SchedPair, BoundsAssumption
          DEF AddedOn, TypeInv, TypeOK, SchedNodes, Sids, ProcessNodes
      <4> QED
        BY <2>7, <4>1 DEF Told, SidCounted
    <3> QED
      BY <3>1, <3>2
  <2>9. ASSUME NEW q \in Scheds, NEW r \in Scheds, SchedExists(r)', q[1] = r[1],
               q[2] < r[2], scheduler'[q].sid = scheduler'[r].sid
        PROVE  scheduler'[q].home = Garbage
    <3>1. /\ r = <<r[1], r[2]>> /\ q = <<q[1], q[2]>> /\ q[2] \in Nat /\ r[2] \in Nat
          /\ process[r[1]].schedulers \in Nat /\ q # r
      BY <1>1, <2>9, SchedPair, BoundsAssumption DEF TypeInv, TypeOK, ProcessNodes
    <3>2. q # s
      BY <1>1, <2>1, <2>9, <3>1 DEF AddedOn, SchedExists
    <3>3. scheduler'[q] = scheduler[q]
      BY <2>1, <3>2 DEF AddedOn
    <3>4. CASE r = s
      <4>1. SchedExists(q)
        BY <2>9, <3>1, <3>4 DEF SchedExists
      <4>2. scheduler[q].sid = process[q[1]].scheduler_count
        BY <2>1, <2>9, <3>3, <3>4 DEF AddedOn
      <4> QED
        BY <2>7, <3>3, <4>1, <4>2, SchedPair DEF Told, SidCounted
    <3>5. CASE r # s
      <4>1. SchedExists(r) /\ scheduler'[r] = scheduler[r]
        BY <2>1, <2>9, <3>5 DEF AddedOn
      <4> QED
        BY <2>9, <3>3, <4>1 DEF Told, SidsTold
    <3> QED
      BY <3>4, <3>5
  <2>10. Told'
    BY <2>6, <2>8, <2>9 DEF Told, DirsListed, SidCounted, SidsTold
  <2> QED
    BY <2>3, <2>4, <2>10
<1> QED
  BY <1>2, <1>3 DEF EnterSchedulingModeDir, EnterSchedulingMode, Errors

-----------------------------------------------------------------------------
(* The steps of the module *)

\* The order of exit_dev's calls.
LEMMA Exits ==
  /\ Place("loaded") = 1 /\ After("loaded") = "delete_proc"
  /\ Place("delete_proc") = 2 /\ After("delete_proc") = "misc_deregister"
  /\ Place("misc_deregister") = 3 /\ After("misc_deregister") = "cleanup"
  /\ Place("cleanup") = 4 /\ After("cleanup") = "unloaded"
  /\ Place("unloaded") = 5
<1>1. \A i \in 1 .. 5 : /\ ExitOrder[i] = "loaded" <=> i = 1
                        /\ ExitOrder[i] = "delete_proc" <=> i = 2
                        /\ ExitOrder[i] = "misc_deregister" <=> i = 3
                        /\ ExitOrder[i] = "cleanup" <=> i = 4
                        /\ ExitOrder[i] = "unloaded" <=> i = 5
  BY DEF ExitOrder
<1>2. /\ Place("loaded") = 1 /\ Place("delete_proc") = 2 /\ Place("misc_deregister") = 3
      /\ Place("cleanup") = 4 /\ Place("unloaded") = 5
  BY <1>1 DEF Place
<1> QED
  BY <1>1, <1>2 DEF After

LEMMA ModuleStart == ModuleInit => ModuleInv
<1> SUFFICES ASSUME ModuleInit PROVE ModuleInv
  OBVIOUS
<1>1. CountInv
  BY CountInit DEF ModuleInit
<1>2. \A s \in Scheds : ~ SchedExists(s)
  BY BoundsAssumption DEF ModuleInit, Init, NoProcess, SchedExists, Scheds, Sids
<1>3. dirs \in [Scheds -> DirNodes]
  BY DEF ModuleInit, NoDir, DirNodes
<1>4. Told
  <2>1. DirsListed /\ SidCounted
    BY <1>2 DEF DirsListed, SidCounted
  <2>2. SidsTold
    BY <1>2 DEF SidsTold
  <2> QED
    BY <2>1, <2>2 DEF Told
<1>5. FreedLast
  BY DEF FreedLast, ModuleInit
<1>6. module \in Stages /\ NoDevices /\ NoReaders /\ UnsetIsUnlisted
  BY DEF ModuleInit, Stages, NoDevices, NoReaders, UnsetIsUnlisted
<1> QED
  BY <1>1, <1>3, <1>4, <1>5, <1>6 DEF ModuleInv

\* A step that touches no node, frees nothing and does not pass the end.
LEMMA NodesUntouched ==
  ASSUME ModuleInv, UNCHANGED <<vars, dirs, freed>>, wild' # "kfree",
         module' \in Stages, module = "unloaded" \/ module' # "unloaded",
         module # "unloaded" \/ module' = "unloaded", NoDevices', NoReaders'
  PROVE  ModuleInv'
<1>1. UNCHANGED <<process, comp_list, worker, scheduler, dirs>>
  BY DEF vars
<1>2. module' # "unloaded" => CountInv' /\ Told'
  <2> SUFFICES ASSUME module' # "unloaded" PROVE CountInv' /\ Told'
    OBVIOUS
  <2>1. CountInv /\ Told
    BY DEF ModuleInv
  <2>2. CountInv'
    BY <2>1, CountStep
  <2>3. Told'
    BY <1>1, <2>1, CountInvHas, NodesSame
  <2> QED
    BY <2>2, <2>3
<1>3. FreedLast'
  <2>1. \A s \in Scheds : SchedExists(s)' <=> SchedExists(s)
    BY <1>1 DEF SchedExists
  <2> QED
    BY <2>1 DEF ModuleInv, FreedLast
<1>4. UnsetIsUnlisted'
  BY DEF UnsetIsUnlisted
<1> QED
  BY <1>2, <1>3, <1>4 DEF ModuleInv

LEMMA WildKeeps ==
  ASSUME ModuleInv, Wild("code")
  PROVE  ModuleInv'
<1>1. /\ UNCHANGED <<vars, dirs, freed>> /\ module' = module /\ wild' # "kfree"
      /\ UNCHANGED <<devices, reader, place>>
  BY DEF Wild
<1>2. module' \in Stages /\ NoDevices' /\ NoReaders'
  BY <1>1 DEF ModuleInv, NoDevices, NoReaders
<1> QED
  BY <1>1, <1>2, NodesUntouched

\* init_dev.
LEMMA LoadingKeeps ==
  ASSUME ModuleInv, wild = "none", RegisterDevice \/ InitProc
  PROVE  ModuleInv'
<1>1. /\ UNCHANGED <<vars, dirs, freed>> /\ wild' # "kfree"
      /\ module \in {"absent", "registered"}
      /\ module' \in {"registered", "loaded", "failed"}
  BY DEF RegisterDevice, InitProc
<1>2. NoDevices' /\ NoReaders' /\ module' \in Stages
  BY <1>1 DEF NoDevices, NoReaders, Stages
<1> QED
  BY <1>1, <1>2, NodesUntouched

\* Descriptors and files are opened and closed.
LEMMA HandlesKeep ==
  ASSUME ModuleInv, wild = "none", NEW t \in Tasks, OpenDevice(t) \/ CloseDevice(t)
  PROVE  ModuleInv'
<1>1. CASE Wild("code")
  BY <1>1, WildKeeps
<1>2. CASE Live /\ OpenDevice(t) /\ ~ Wild("code")
  <2>1. /\ UNCHANGED <<vars, dirs, freed, module>> /\ wild' # "kfree"
        /\ module \in {"registered", "loaded"}
    BY <1>2 DEF OpenDevice, Live
  <2>2. NoDevices' /\ NoReaders' /\ module' \in Stages
    BY <2>1 DEF NoDevices, NoReaders, Stages
  <2> QED
    BY <2>1, <2>2, NodesUntouched
<1>3. CASE CloseDevice(t)
  <2>1. /\ UNCHANGED <<vars, dirs, freed, module, reader, place>> /\ wild' # "kfree"
        /\ devices' = devices \ {t}
    BY <1>3 DEF CloseDevice
  <2>2. NoDevices' /\ NoReaders' /\ module' \in Stages
    BY <2>1 DEF ModuleInv, NoDevices, NoReaders
  <2> QED
    BY <2>1, <2>2, NodesUntouched
<1> QED
  BY <1>1, <1>2, <1>3 DEF OpenDevice

LEMMA FilesKeep ==
  ASSUME ModuleInv, wild = "none", (\E s \in Scheds : OpenFile(s)) \/ CloseFile
  PROVE  ModuleInv'
<1>1. CASE Wild("code")
  BY <1>1, WildKeeps
<1>2. ASSUME NEW s \in Scheds, OpenFile(s), ~ Wild("code")
      PROVE  ModuleInv'
  <2>1. /\ UNCHANGED <<vars, dirs, freed, module, devices, place>> /\ wild' # "kfree"
        /\ Visible(s) /\ CodeThere
        /\ \/ reader' = Node("scheduler", InfoNode(s))
           \/ \E wid \in dirs[s].files \ dirs[s].refused :
                reader' = Node("worker", <<s[1], wid>>)
    BY <1>2 DEF OpenFile
  <2>2. reader'[2][1] = s[1]
    BY <2>1 DEF Node, InfoNode
  <2>3. module \in {"misc_deregister", "cleanup", "unloaded"} => place[s[1]] # "proc_ums"
    BY <2>1, Exits DEF Visible
  <2>4. NoReaders'
    BY <2>1, <2>2, <2>3 DEF NoReaders
  <2>5. NoDevices' /\ module' \in Stages
    BY <2>1 DEF ModuleInv, NoDevices
  <2> QED
    BY <2>1, <2>4, <2>5, NodesUntouched
<1>3. CASE CloseFile
  <2>1. /\ UNCHANGED <<vars, dirs, freed, module, devices, place>> /\ wild' # "kfree"
        /\ reader' = NoNode
    BY <1>3 DEF CloseFile
  <2>2. NoDevices' /\ NoReaders' /\ module' \in Stages
    BY <2>1 DEF ModuleInv, NoDevices, NoReaders
  <2> QED
    BY <2>1, <2>2, NodesUntouched
<1> QED
  BY <1>1, <1>2, <1>3

\* exit_dev but for its last call.
LEMMA ExitKeeps ==
  ASSUME ModuleInv, wild = "none", BeginExit \/ DeleteProc \/ Deregister
  PROVE  ModuleInv'
<1>1. CASE BeginExit
  <2>1. /\ UNCHANGED <<vars, dirs, freed>> /\ wild' # "kfree"
        /\ module = "loaded" /\ module' = "delete_proc" /\ devices' = {}
    BY <1>1, Exits DEF BeginExit, Unused
  <2>2. NoDevices' /\ NoReaders' /\ module' \in Stages
    BY <2>1 DEF NoDevices, NoReaders, Stages
  <2> QED
    BY <2>1, <2>2, NodesUntouched
<1>2. CASE DeleteProc
  <2>1. /\ UNCHANGED <<vars, dirs, freed>> /\ wild' # "kfree"
        /\ module = "delete_proc" /\ module' = "misc_deregister"
        /\ devices' = devices /\ place' = place
        /\ reader' = NoNode \/ (reader' = reader /\ place[reader[2][1]] # "proc_ums")
    BY <1>2, Exits DEF DeleteProc
  <2>2. NoDevices' /\ NoReaders' /\ module' \in Stages
    BY <2>1 DEF ModuleInv, NoDevices, NoReaders, Stages
  <2> QED
    BY <2>1, <2>2, NodesUntouched
<1>3. CASE Deregister
  <2>1. /\ UNCHANGED <<vars, dirs, freed>> /\ wild' # "kfree"
        /\ module = "misc_deregister" /\ module' = "cleanup"
        /\ UNCHANGED <<devices, place, reader>>
    BY <1>3, Exits DEF Deregister
  <2>2. NoDevices' /\ NoReaders' /\ module' \in Stages
    BY <2>1 DEF ModuleInv, NoDevices, NoReaders, Stages
  <2> QED
    BY <2>1, <2>2, NodesUntouched
<1> QED
  BY <1>1, <1>2, <1>3

\* A request through a descriptor, while the module is there.
LEMMA RequestKeeps ==
  ASSUME ModuleInv, ~ undef, wild = "none", NEW t \in Tasks, Request(t)
  PROVE  ModuleInv'
<1>1. CASE Wild("code")
  BY <1>1, WildKeeps
<1>2. CASE ~ Wild("code")
  <2>1. /\ module' = module /\ module \in {"registered", "loaded"}
        /\ UNCHANGED <<devices, reader, freed, wild>>
        /\ \/ t \in Owners /\ EnterUmsDir(t)
           \/ \E c \in Clids : EnterSchedulingModeDir(t, c)
           \/ OtherRequest(t)
    BY <1>2 DEF Request, Live
  <2>2. CountInv /\ Told /\ dirs \in [Scheds -> DirNodes] /\ TypeInv
    BY <2>1, CountInvHas DEF ModuleInv
  <2>3. Next
    BY <2>1 DEF Next, MainRequest, SchedulerRequest, EnterUmsDir, EnterSchedulingModeDir,
                OtherRequest
  <2>4. CountInv'
    BY <2>2, <2>3, CountStep
  <2>5. Told' /\ dirs' \in [Scheds -> DirNodes]
    <3>1. ASSUME NEW c \in Clids, EnterSchedulingModeDir(t, c)
          PROVE  Told' /\ dirs' \in [Scheds -> DirNodes]
      BY <2>2, <3>1, EnterKeepsTold
    <3>2. CASE EnterUmsDir(t) \/ OtherRequest(t)
      <4>1. (EnterUms(t) \/ OtherRequest(t)) /\ dirs' = dirs
        BY <3>2 DEF EnterUmsDir, OtherRequest
      <4>2. SchedsKept /\ ListsKept /\ NoneMade
        BY <2>2, <4>1, RequestIsQuiet DEF Quiet
      <4> QED
        BY <2>2, <4>1, <4>2, NothingMade
    <3> QED
      BY <2>1, <3>1, <3>2
  <2>6. /\ module' \in Stages /\ NoDevices' /\ NoReaders' /\ UnsetIsUnlisted'
        /\ FreedLast'
    <3>1. module' \in Stages /\ NoDevices' /\ NoReaders' /\ UnsetIsUnlisted'
      BY <2>1 DEF Stages, NoDevices, NoReaders, UnsetIsUnlisted
    <3>2. FreedLast'
      BY <2>1 DEF ModuleInv, FreedLast
    <3> QED
      BY <3>1, <3>2
  <2> QED
    BY <2>4, <2>5, <2>6 DEF ModuleInv
<1> QED
  BY <1>1, <1>2

\* cleanup, which leaves nothing, or frees a pointer that was never set: that of a
\* worker is in no directory, hence its list was not in use when one was made.
LEMMA CleanupKeeps ==
  ASSUME ModuleInv, wild = "none", Cleanup
  PROVE  ModuleInv'
<1>1. module = "cleanup" /\ devices = {}
  BY DEF Cleanup, ModuleInv, NoDevices
<1>2. CASE /\ module' = After("cleanup")
           /\ process' = [p \in Tasks |-> NoProcess]
           /\ UNCHANGED <<devices, dirs, place, reader, wild>>
  <2>1. module' = "unloaded"
    BY <1>2, Exits
  <2>2. \A s \in Scheds : ~ SchedExists(s)'
    BY <1>2, BoundsAssumption DEF NoProcess, SchedExists, Scheds, Sids
  <2>3. FreedLast'
    BY <2>1, <2>2 DEF FreedLast
  <2>4. NoDevices' /\ NoReaders' /\ UnsetIsUnlisted'
    BY <1>1, <1>2, <2>1 DEF ModuleInv, NoDevices, NoReaders, UnsetIsUnlisted
  <2>5. module' \in Stages /\ dirs' \in [Scheds -> DirNodes]
    BY <1>2, <2>1 DEF ModuleInv, Stages
  <2> QED
    BY <2>1, <2>3, <2>4, <2>5 DEF ModuleInv
<1>3. ASSUME NEW node \in Nodes, Unset(node), Wild("kfree")
      PROVE  ModuleInv'
  <2>1. /\ UNCHANGED <<process, worker, scheduler, comp_list>>
        /\ UNCHANGED <<vars, module, devices, dirs, place, reader, freed>>
    BY <1>3 DEF Wild, vars
  <2>2. CountInv /\ Told /\ TypeInv
    BY <1>1, CountInvHas DEF ModuleInv
  <2>3. CountInv' /\ Told'
    BY <2>1, <2>2, CountStep, NodesSame
  <2>4. UnsetIsUnlisted
    BY DEF ModuleInv
  <2>5. \/ \E s \in Scheds : SchedExists(s) /\ scheduler[s].home = Garbage
        \/ \E w \in Workers :
             /\ WorkerExists(w)
             /\ \A s \in Scheds : SchedExists(s) /\ dirs[s].made = "complete" =>
                                 ListOf(s) # <<w[1], worker[w].clid>>
    <3>1. CASE \E s \in Scheds : node = Node("scheduler", s)
      BY <1>3, <3>1 DEF Unset, Node
    <3>2. ASSUME NEW w \in Workers, node = Node("worker", w)
          PROVE  /\ WorkerExists(w)
                 /\ \A s \in Scheds : SchedExists(s) /\ dirs[s].made = "complete" =>
                                     ListOf(s) # <<w[1], worker[w].clid>>
      <4>1. /\ WorkerExists(w)
            /\ \A s \in Scheds : s[1] = w[1] => w[2] \notin dirs[s].files
        BY <1>3, <3>2 DEF Unset, Node
      <4>2. w[2] \in Wids /\ w = <<w[1], w[2]>>
        BY DEF Workers
      <4>3. ASSUME NEW s \in Scheds, SchedExists(s), dirs[s].made = "complete",
                   ListOf(s) = <<w[1], worker[w].clid>>
            PROVE  FALSE
        <5>1. dirs[s].files = Members(ListOf(s))
          BY <2>2, <4>3 DEF Told, DirsListed, Listing
        <5>2. s[1] = w[1] /\ w[2] \in Members(ListOf(s))
          BY <4>1, <4>2, <4>3 DEF ListOf, Members
        <5> QED
          BY <4>1, <5>1, <5>2
      <4> QED
        BY <4>1, <4>3
    <3> QED
      BY <3>1, <3>2 DEF Nodes
  <2>6. UnsetIsUnlisted'
    BY <2>1, <2>5 DEF UnsetIsUnlisted, SchedExists, WorkerExists, ListOf
  <2>7. NoDevices' /\ NoReaders' /\ FreedLast' /\ module' \in Stages /\ dirs' \in [Scheds -> DirNodes]
    BY <2>1 DEF ModuleInv, NoDevices, NoReaders, FreedLast, SchedExists
  <2> QED
    BY <2>3, <2>6, <2>7 DEF ModuleInv
<1> QED
  BY <1>2, <1>3 DEF Cleanup

LEMMA ModuleStep ==
  ASSUME ModuleInv, [ModuleNext]_all
  PROVE  ModuleInv'
<1>1. CASE UNCHANGED all
  <2>1. /\ UNCHANGED <<vars, dirs, freed, module, devices, reader, place, wild>>
        /\ UNCHANGED <<process, worker, scheduler>>
    BY <1>1 DEF all, outer, vars
  <2>2. NoDevices' /\ NoReaders' /\ module' \in Stages
    BY <2>1 DEF ModuleInv, NoDevices, NoReaders
  <2>3. CASE wild = "kfree"
    <3>1. UnsetIsUnlisted'
      BY <2>1 DEF ModuleInv, UnsetIsUnlisted, SchedExists, WorkerExists, ListOf
    <3>2. module # "unloaded" => CountInv' /\ Told'
      BY <2>1, CountStep, CountInvHas, NodesSame DEF ModuleInv, vars
    <3>3. FreedLast' /\ dirs' \in [Scheds -> DirNodes]
      BY <2>1 DEF ModuleInv, FreedLast, SchedExists
    <3> QED
      BY <2>1, <2>2, <3>1, <3>2, <3>3 DEF ModuleInv
  <2>4. CASE wild # "kfree"
    BY <2>1, <2>2, <2>4, NodesUntouched
  <2> QED
    BY <2>3, <2>4
<1>2. CASE ModuleNext
  BY <1>2, LoadingKeeps, HandlesKeep, RequestKeeps, FilesKeep, ExitKeeps, CleanupKeeps
  DEF ModuleNext
<1> QED
  BY <1>1, <1>2

-----------------------------------------------------------------------------
(* The files under /proc/ums and what was freed *)

\* Every worker of a scheduler's list, the busy ones included, has a file in its
\* directory or was refused one; the list takes no more workers.
THEOREM DirectoryStaysComplete == ModuleSpec => []DirectoryComplete
<1>1. ModuleInv => DirectoryComplete
  BY DEF ModuleInv, FreedLast, Told, DirsListed, Listing, DirectoryComplete
<1> QED
  BY <1>1, ModuleStart, ModuleStep, PTL DEF ModuleSpec

\* The info file of a scheduler, which looks its node up by the sid, finds it, or
\* one before it that was given up half-made.
THEOREM InfoFindsItsOwn == ModuleSpec => []InfoIsOwn
<1>1. ASSUME ModuleInv
      PROVE  InfoIsOwn
  <2> SUFFICES ASSUME NEW s \in Scheds, SchedExists(s)
               PROVE  InfoNode(s) = s \/ scheduler[InfoNode(s)].home = Garbage
    BY DEF InfoIsOwn
  <2>1. Told
    BY <1>1 DEF ModuleInv, FreedLast
  <2> PICK same : same = {n \in Sids : SchedExists(<<s[1], n>>)
                            /\ scheduler[<<s[1], n>>].sid = scheduler[s].sid}
    OBVIOUS
  <2>2. s[2] \in Sids /\ s = <<s[1], s[2]>> /\ s[1] \in Tasks
    BY DEF Scheds
  <2>3. Sids \subseteq Nat
    BY BoundsAssumption DEF Sids
  <2>4. same \subseteq Nat /\ s[2] \in same
    BY <2>2, <2>3
  <2>5. \E n \in same : \A m \in same : n <= m
    BY <2>4, LeastNat
  <2>6. Min(same) \in same /\ \A m \in same : Min(same) <= m
    BY <2>5 DEF Min
  <2>7. InfoNode(s) = <<s[1], Min(same)>> /\ InfoNode(s) \in Scheds
    BY <2>2, <2>6 DEF InfoNode, Scheds
  <2>8. CASE Min(same) = s[2]
    BY <2>2, <2>7, <2>8
  <2>9. CASE Min(same) < s[2]
    <3>1. InfoNode(s)[1] = s[1] /\ InfoNode(s)[2] < s[2]
          /\ scheduler[InfoNode(s)].sid = scheduler[s].sid
      BY <2>6, <2>7, <2>9
    <3> QED
      BY <2>1, <2>7, <3>1 DEF Told, SidsTold
  <2>10. Min(same) = s[2] \/ Min(same) < s[2]
    <3>1. Min(same) \in Nat /\ s[2] \in Nat /\ Min(same) <= s[2]
      BY <2>4, <2>6
    <3> QED
      BY <3>1
  <2> QED
    BY <2>8, <2>9, <2>10
<1> QED
  BY <1>1, ModuleStart, ModuleStep, PTL DEF ModuleSpec

\* What is open below /proc leads to a process that has entered, and whose
\* directories say which process it is; a process is placed when it enters.
Places == {"proc_ums", "proc_pid", "proc"}

DirsManaged == \A s \in Scheds : dirs[s].made = "complete" => Managed(s[1])

ReaderManaged == reader # NoNode => Managed(reader[2][1])

ReaderPlaced == reader # NoNode =>
                  reader[2][1] \in Tasks /\ place[reader[2][1]] # "proc"

Opened == /\ place \in [Tasks -> Places]
          /\ module # "unloaded" => DirsManaged /\ ReaderManaged
          /\ ReaderPlaced

LEMMA OpenedFrame ==
  ASSUME Opened, UNCHANGED <<process, dirs, place>>, reader' = reader \/ reader' = NoNode,
         module' # "unloaded" => module # "unloaded"
  PROVE  Opened'
  BY DEF Opened, DirsManaged, ReaderManaged, ReaderPlaced, Managed

\* A process that has entered is known until the module's nodes are freed.
LEMMA StaysManaged ==
  ASSUME TypeInv, NEW t \in Tasks, NEW p \in Tasks, Managed(p),
         \/ EnterUms(t)
         \/ \E c \in Clids : EnterSchedulingMode(t, c)
         \/ OtherRequest(t)
  PROVE  Managed(p)'
<1>1. process \in [Tasks -> ProcessNodes] /\ Tgid[t] \in Tasks
  BY TasksAssumption DEF TypeInv, TypeOK
<1>2. CASE EnterUms(t)
  BY <1>1, <1>2 DEF EnterUms, Fail, Managed, ProcessNodes
<1>3. CASE ExitUms(t)
  BY <1>1, <1>3 DEF ExitUms, Fail, Managed, ProcessNodes
<1>4. CASE \E c \in Clids : EnterSchedulingMode(t, c)
  <2> DEFINE q == Tgid[t]
             linked == [process EXCEPT ![q].schedulers = @ + 1]
             counted == [process EXCEPT ![q].schedulers = @ + 1, ![q].scheduler_count = @ + 1]
  <2>1. process' = process \/ process' = linked \/ process' = counted
    BY <1>4 DEF EnterSchedulingMode, AddScheduler, Fail, Miss, Crash
  <2>2. linked[p].state = process[p].state /\ counted[p].state = process[p].state
    BY <1>1 DEF ProcessNodes
  <2> QED
    BY <2>1, <2>2 DEF Managed
<1>5. CASE CreateCompletionList(t)
  BY <1>1, <1>5 DEF CreateCompletionList, Fail, Managed, ProcessNodes
<1>6. CASE \E c \in Clids : CreateWorkerThread(t, c)
  BY <1>1, <1>6 DEF CreateWorkerThread, AddWorker, Fail, Miss, Crash, Managed, ProcessNodes
<1>7. CASE \/ ExitSchedulingMode(t)
           \/ \E wid \in Wids \cup {NoId} : ExecuteThread(t, wid)
           \/ \E status \in Statuses : ThreadYield(t, status)
           \/ DequeueCompletionListItems(t)
  <2>1. process' = process
    BY <1>7 DEF ExitSchedulingMode, ExecuteThread, SwitchToWorker, ThreadYield,
      SwitchToScheduler, DequeueCompletionListItems, RejectCaller, Fail, Miss, Crash
  <2> QED
    BY <2>1 DEF Managed
<1> QED
  BY <1>2, <1>3, <1>4, <1>5, <1>6, <1>7 DEF OtherRequest

LEMMA OpenedRequest ==
  ASSUME ModuleInv, Opened, NEW t \in Tasks, Request(t)
  PROVE  Opened'
<1>1. CASE Wild("code")
  BY <1>1, OpenedFrame DEF Wild, vars
<1>2. CASE ~ Wild("code")
  <2>1. /\ module' = module /\ reader' = reader /\ module # "unloaded" /\ module' # "unloaded"
        /\ \/ EnterUmsDir(t)
           \/ \E c \in Clids : EnterSchedulingModeDir(t, c)
           \/ OtherRequest(t)
    BY <1>2 DEF Request, Live
  <2>2. TypeInv /\ DirsManaged /\ ReaderManaged /\ dirs \in [Scheds -> DirNodes]
    BY <2>1, CountInvHas DEF ModuleInv, Opened
  <2>3. \A p \in Tasks : Managed(p) => Managed(p)'
    BY <2>1, <2>2, StaysManaged DEF EnterUmsDir, EnterSchedulingModeDir
  <2>4. ReaderManaged'
    BY <2>1, <2>2, <2>3 DEF Opened, ReaderManaged, ReaderPlaced
  <2>5. DirsManaged'
    <3>1. CASE dirs' = dirs
      BY <2>2, <2>3, <3>1, SchedPair DEF DirsManaged
    <3>2. ASSUME NEW c \in Clids, EnterSchedulingModeDir(t, c), dirs' # dirs
          PROVE  DirsManaged'
      <4>1. /\ EnterSchedulingMode(t, c) /\ process' # process
            /\ \E dir : dirs' = [dirs EXCEPT ![<<Tgid[t], process[Tgid[t]].schedulers>>] = dir]
        BY <3>2 DEF EnterSchedulingModeDir
      <4>2. Managed(Tgid[t]) /\ Tgid[t] \in Tasks
        BY <4>1, TasksAssumption DEF EnterSchedulingMode, Fail
      <4>3. ASSUME NEW s \in Scheds, dirs'[s].made = "complete"
            PROVE  Managed(s[1])
        <5>1. CASE s = <<Tgid[t], process[Tgid[t]].schedulers>>
          BY <4>2, <5>1
        <5>2. CASE s # <<Tgid[t], process[Tgid[t]].schedulers>>
          BY <2>2, <4>1, <4>3, <5>2 DEF DirsManaged
        <5> QED
          BY <5>1, <5>2
      <4> QED
        BY <2>3, <4>3, SchedPair DEF DirsManaged
    <3> QED
      BY <2>1, <3>1, <3>2 DEF EnterUmsDir, OtherRequest
  <2>6. place' \in [Tasks -> Places] /\ ReaderPlaced'
    <3>1. CASE place' = place
      BY <2>1, <3>1 DEF Opened, ReaderPlaced
    <3>2. CASE EnterUmsDir(t) /\ process' # process
      <4>1. ~ Managed(t)
        BY <3>2 DEF EnterUmsDir, EnterUms, Fail
      <4>2. place' = [place EXCEPT ![t] = PlaceOf(process'[t].proc_entry)]
        BY <3>2 DEF EnterUmsDir
      <4>3. PlaceOf(process'[t].proc_entry) \in Places
        BY DEF PlaceOf, Places
      <4>4. reader # NoNode => reader[2][1] # t
        BY <2>2, <4>1 DEF ReaderManaged
      <4> QED
        BY <2>1, <4>2, <4>3, <4>4 DEF Opened, ReaderPlaced
    <3> QED
      BY <2>1, <3>1, <3>2 DEF EnterUmsDir, EnterSchedulingModeDir, OtherRequest
  <2> QED
    BY <2>1, <2>4, <2>5, <2>6 DEF Opened
<1> QED
  BY <1>1, <1>2

LEMMA OpenedFile ==
  ASSUME ModuleInv, Opened, NEW s \in Scheds, OpenFile(s)
  PROVE  Opened'
<1>1. CASE Wild("code")
  BY <1>1, OpenedFrame DEF Wild, vars
<1>2. CASE ~ Wild("code")
  <2>1. /\ UNCHANGED <<process, dirs, module, place>>
        /\ module # "unloaded" /\ PidInPath(s) /\ dirs[s].made = "complete"
        /\ \/ reader' = Node("scheduler", InfoNode(s))
           \/ \E wid \in dirs[s].files \ dirs[s].refused :
                reader' = Node("worker", <<s[1], wid>>)
    BY <1>2 DEF OpenFile, CodeThere, Visible, vars
  <2>2. reader'[2][1] = s[1] /\ s[1] \in Tasks
    BY <2>1, SchedPair DEF Node, InfoNode
  <2>3. Managed(s[1])
    BY <2>1 DEF Opened, DirsManaged
  <2>4. ReaderManaged' /\ ReaderPlaced'
    BY <2>1, <2>2, <2>3 DEF ReaderManaged, ReaderPlaced, PidInPath, Managed
  <2> QED
    BY <2>1, <2>4 DEF Opened, DirsManaged, Managed
<1> QED
  BY <1>1, <1>2

LEMMA OpenedStart == ModuleInit => Opened
  BY DEF ModuleInit, Opened, Places, DirsManaged, ReaderManaged, ReaderPlaced, NoDir, NoNode

LEMMA OpenedStep ==
  ASSUME ModuleInv, Opened, [ModuleNext]_all
  PROVE  Opened'
<1>1. CASE UNCHANGED all
  BY <1>1, OpenedFrame DEF all, outer, vars
<1>2. CASE RegisterDevice \/ InitProc \/ CloseFile \/ BeginExit \/ DeleteProc \/ Deregister
  <2>1. /\ UNCHANGED <<process, dirs, place>> /\ (reader' = reader \/ reader' = NoNode)
        /\ module' # "unloaded" => module # "unloaded"
    BY <1>2 DEF RegisterDevice, InitProc, BeginExit, DeleteProc, Deregister, CloseFile, vars
  <2> QED
    BY <2>1, OpenedFrame
<1>3. CASE \E t \in Tasks : OpenDevice(t) \/ CloseDevice(t)
  BY <1>3, OpenedFrame DEF OpenDevice, CloseDevice, Wild, vars
<1>4. CASE Cleanup
  BY <1>4, OpenedFrame, Exits DEF Cleanup, Wild, vars, Opened, ReaderPlaced
<1> QED
  BY <1>1, <1>2, <1>3, <1>4, OpenedRequest, OpenedFile DEF ModuleNext

\* What cleanup has freed can be reached by no request, and through /proc only by
\* what a process has there that entered before /proc/ums was made: of directories
\* that had to be made in /proc itself no file was ever open.
THEOREM FreedIsOutOfReach == ModuleSpec => []FreedIsUnreachable
<1>1. ASSUME ModuleInv, Opened
      PROVE  FreedIsUnreachable
  <2> SUFFICES ASSUME NEW node \in Nodes, freed[node] > 0
               PROVE  /\ devices = {}
                      /\ reader = node => place[node[2][1]] = "proc_pid"
                      /\ \A s \in Scheds :
                           s[1] = node[2][1] /\ Visible(s) => place[s[1]] # "proc_ums"
    BY DEF FreedIsUnreachable
  <2>1. module = "unloaded"
    BY <1>1 DEF ModuleInv, FreedLast
  <2>2. devices = {} /\ (reader = NoNode \/ place[reader[2][1]] # "proc_ums")
    BY <1>1, <2>1 DEF ModuleInv, NoDevices, NoReaders
  <2>3. reader = node => reader # NoNode
    BY DEF Nodes, Node, NoNode
  <2>4. reader = node => place[node[2][1]] = "proc_pid"
    BY <1>1, <2>2, <2>3 DEF Opened, ReaderPlaced, Places
  <2>5. \A s \in Scheds : Visible(s) => place[s[1]] # "proc_ums"
    BY <2>1, Exits DEF Visible
  <2> QED
    BY <2>2, <2>4, <2>5
<1> QED
  BY <1>1, ModuleStart, ModuleStep, OpenedStart, OpenedStep, PTL DEF ModuleSpec

\* The pointer nobody set that cleanup may free belongs to a worker whose list
\* never had a complete directory, or to a scheduler given up half-made.
THEOREM UnsetIsOfUnlisted == ModuleSpec => []UnsetIsUnlisted
<1>1. ModuleInv => UnsetIsUnlisted
  BY DEF ModuleInv
<1> QED
  BY <1>1, ModuleStart, ModuleStep, PTL DEF ModuleSpec

-----------------------------------------------------------------------------
(* Every worker is freed once *)

\* An element of two sequences in a row is one of the first or of the second.
LEMMA ConcatAt ==
  ASSUME NEW X, NEW a \in Seq(X), NEW b \in Seq(X), NEW k \in DOMAIN (a \o b)
  PROVE  /\ k \in Nat /\ Len(a) \in Nat /\ (k <= Len(a) \/ k > Len(a))
         /\ k <= Len(a) => k \in DOMAIN a /\ (a \o b)[k] = a[k]
         /\ k > Len(a) => k - Len(a) \in DOMAIN b /\ (a \o b)[k] = b[k - Len(a)]
<1>1. Len(a) \in Nat /\ Len(b) \in Nat
  OBVIOUS
<1>2. k \in 1 .. Len(a) + Len(b)
  OBVIOUS
<1>3. DOMAIN a = 1 .. Len(a) /\ DOMAIN b = 1 .. Len(b)
  OBVIOUS
<1>4. CASE k <= Len(a)
  <2>1. k \in DOMAIN a
    BY <1>1, <1>2, <1>3, <1>4
  <2>2. (a \o b)[k] = a[k]
    BY <1>2, <1>4
  <2> QED
    BY <1>1, <1>2, <1>4, <2>1, <2>2
<1>5. CASE k > Len(a)
  <2>1. k - Len(a) \in DOMAIN b
    BY <1>1, <1>2, <1>3, <1>5
  <2>2. (a \o b)[k] = b[k - Len(a)]
    BY <1>2, <1>5
  <2> QED
    BY <1>1, <1>2, <1>5, <2>1, <2>2
<1> QED
  BY <1>1, <1>2, <1>4, <1>5

LEMMA ConcatSet ==
  ASSUME NEW X, NEW a \in Seq(X), NEW b \in Seq(X)
  PROVE  ToSet(a \o b) = ToSet(a) \cup ToSet(b)
<1>1. \A k \in DOMAIN a : k \in DOMAIN (a \o b) /\ (a \o b)[k] = a[k]
  OBVIOUS
<1>2. ASSUME NEW k \in DOMAIN b
      PROVE  k + Len(a) \in DOMAIN (a \o b) /\ (a \o b)[k + Len(a)] = b[k]
  OBVIOUS
<1>3. \A k \in DOMAIN (a \o b) : (a \o b)[k] \in ToSet(a) \cup ToSet(b)
  <2> TAKE k \in DOMAIN (a \o b)
  <2>1. CASE k <= Len(a)
    BY <2>1, ConcatAt DEF ToSet
  <2>2. CASE k > Len(a)
    BY <2>2, ConcatAt DEF ToSet
  <2> QED
    BY <2>1, <2>2, ConcatAt
<1>4. \A e \in ToSet(b) : e \in ToSet(a \o b)
  <2> SUFFICES ASSUME NEW k \in DOMAIN b PROVE b[k] \in ToSet(a \o b)
    BY DEF ToSet
  <2> QED
    BY <1>2 DEF ToSet
<1>5. \A e \in ToSet(a) : e \in ToSet(a \o b)
  BY <1>1 DEF ToSet
<1>6. \A e \in ToSet(a \o b) : e \in ToSet(a) \cup ToSet(b)
  <2> SUFFICES ASSUME NEW k \in DOMAIN (a \o b)
               PROVE  (a \o b)[k] \in ToSet(a) \cup ToSet(b)
    BY DEF ToSet
  <2> QED
    BY <1>3
<1> QED
  BY <1>4, <1>5, <1>6

LEMMA ConcatOnce ==
  ASSUME NEW X, NEW a \in Seq(X), NEW b \in Seq(X), IsInjective(a), IsInjective(b),
         ToSet(a) \cap ToSet(b) = {}
  PROVE  IsInjective(a \o b)
<1> SUFFICES ASSUME NEW i \in DOMAIN (a \o b), NEW j \in DOMAIN (a \o b),
                    (a \o b)[i] = (a \o b)[j]
             PROVE  i = j
  BY DEF IsInjective
<1> PICK n : n = Len(a)
  OBVIOUS
<1>1. /\ i \in Nat /\ n \in Nat /\ (i <= n \/ i > n)
      /\ i <= n => i \in DOMAIN a /\ (a \o b)[i] = a[i]
      /\ i > n => i - n \in DOMAIN b /\ (a \o b)[i] = b[i - n]
  BY ConcatAt
<1>2. /\ j \in Nat /\ (j <= n \/ j > n)
      /\ j <= n => j \in DOMAIN a /\ (a \o b)[j] = a[j]
      /\ j > n => j - n \in DOMAIN b /\ (a \o b)[j] = b[j - n]
  BY ConcatAt
<1>3. CASE i <= n /\ j <= n
  BY <1>1, <1>2, <1>3 DEF IsInjective
<1>4. CASE i > n /\ j > n
  <2>1. i - n = j - n
    BY <1>1, <1>2, <1>4 DEF IsInjective
  <2> QED
    BY <1>1, <1>2, <2>1
<1>5. CASE i <= n /\ j > n
  <2>1. a[i] \in ToSet(a) /\ b[j - n] \in ToSet(b)
    BY <1>1, <1>2, <1>5 DEF ToSet
  <2> QED
    BY <1>1, <1>2, <1>5, <2>1
<1>6. CASE i > n /\ j <= n
  <2>1. a[j] \in ToSet(a) /\ b[i - n] \in ToSet(b)
    BY <1>1, <1>2, <1>6 DEF ToSet
  <2> QED
    BY <1>1, <1>2, <1>6, <2>1
<1> QED
  BY <1>1, <1>2, <1>3, <1>4, <1>5, <1>6

\* The counters let cleanup free both lists in full: all workers of the list.
LEMMA FreedByListIs ==
  ASSUME CountInv, NEW l \in Lists
  PROVE  /\ FreedByList(l) = comp_list[l].idle_list \o comp_list[l].busy_list
         /\ ToSet(FreedByList(l)) = Members(l)
<1> PICK idle : idle = comp_list[l].idle_list
  OBVIOUS
<1> PICK busy : busy = comp_list[l].busy_list
  OBVIOUS
<1>1. /\ idle \in Seq(Wids) /\ busy \in Seq(Wids)
      /\ comp_list[l].idle_count = Len(idle) /\ comp_list[l].busy_count = Len(busy)
  BY CountInvHas DEF CountInv, CountersMatch, TypeInv, TypeOK, ListNodes
<1>2. FreedByList(l) = idle \o busy
  <2>1. (IF Len(idle) > 0 THEN idle ELSE <<>>) = idle
    BY <1>1
  <2>2. (IF Len(busy) > 0 THEN busy ELSE <<>>) = busy
    BY <1>1
  <2> QED
    BY <1>1, <2>1, <2>2 DEF FreedByList
<1>3. ToSet(idle \o busy) = ToSet(idle) \cup ToSet(busy)
  BY <1>1, ConcatSet
<1>4. ToSet(idle) \cup ToSet(busy) = Members(l)
  BY ListedIsMembers DEF Listed
<1> QED
  BY <1>2, <1>3, <1>4

\* No worker is in both, or in one of them twice.
LEMMA FreedByListOnce ==
  ASSUME CountInv, NEW l \in Lists, NEW n
  PROVE  Occurrences(n, FreedByList(l)) = IF n \in Members(l) THEN 1 ELSE 0
<1> PICK idle : idle = comp_list[l].idle_list
  OBVIOUS
<1> PICK busy : busy = comp_list[l].busy_list
  OBVIOUS
<1> PICK both : both = idle \o busy
  OBVIOUS
<1>1. both = FreedByList(l) /\ ToSet(both) = Members(l)
  BY FreedByListIs
<1>2. /\ idle \in Seq(Wids) /\ busy \in Seq(Wids) /\ both \in Seq(Wids)
  BY CountInvHas DEF TypeInv, TypeOK, ListNodes
<1>3. /\ IsInjective(idle) /\ IsInjective(busy)
      /\ ToSet(idle) \cap ToSet(busy) = {}
  <2>1. ListPartition
    BY CountInvHas DEF ListInv
  <2> QED
    BY <2>1 DEF ListPartition, MembersIn
<1>4. ASSUME NEW i \in DOMAIN both, NEW j \in DOMAIN both, both[i] = both[j]
      PROVE  i = j
  <2>1. IsInjective(idle \o busy)
    BY <1>2, <1>3, ConcatOnce
  <2> QED
    BY <1>4, <2>1 DEF IsInjective
<1>5. CASE n \in Members(l)
  <2>1. PICK i \in DOMAIN both : both[i] = n
    BY <1>1, <1>5 DEF ToSet
  <2>2. {j \in DOMAIN both : both[j] = n} = {i}
    <3>1. ASSUME NEW j \in DOMAIN both, both[j] = n
          PROVE  j = i
      BY <1>4, <2>1, <3>1
    <3> QED
      BY <2>1, <3>1
  <2>3. Cardinality({i}) = 1
    BY FS_Singleton
  <2> QED
    BY <1>1, <1>5, <2>2, <2>3 DEF Occurrences
<1>6. CASE n \notin Members(l)
  <2>1. {j \in DOMAIN both : both[j] = n} = {}
    BY <1>1, <1>6 DEF ToSet
  <2> QED
    BY <1>1, <1>6, <2>1, FS_EmptySet DEF Occurrences
<1> QED
  BY <1>5, <1>6

\* The sum that FreesOf takes over the lists of a process.
FreedIn(n, S) == MapThenSumSet(LAMBDA l : Occurrences(n, FreedByList(l)), S)

LEMMA FreesAreSum ==
  ASSUME NEW S, NEW n, IsFiniteSet(S),
         NEW g, g = [l \in S |-> Occurrences(n, FreedByList(l))]
  PROVE  FreedIn(n, S) = SumOf(g, S)[S]
<1> DEFINE Is(it) == it = [s \in SUBSET S |->
              IF s = {} THEN 0 ELSE Occurrences(n, FreedByList(Chosen(s))) + it[Others(s)]]
<1>1. FreedIn(n, S) = (CHOOSE it : Is(it))[S]
  BY DEF FreedIn, MapThenSumSet, MapThenFoldSet, Chosen, Others
<1>2. \A s \in SUBSET S : s # {} => g[Chosen(s)] = Occurrences(n, FreedByList(Chosen(s)))
  BY ChosenIn
<1>3. ASSUME NEW it
      PROVE  Is(it) <=> IsSum(g, SUBSET S, it)
  <2>1. [s \in SUBSET S |->
           IF s = {} THEN 0 ELSE Occurrences(n, FreedByList(Chosen(s))) + it[Others(s)]]
          = [s \in SUBSET S |-> IF s = {} THEN 0 ELSE g[Chosen(s)] + it[Others(s)]]
    BY <1>2
  <2> QED
    BY <2>1 DEF IsSum
<1>4. (CHOOSE it : Is(it)) = (CHOOSE it : IsSum(g, SUBSET S, it))
  <2> HIDE DEF Is
  <2> QED
    BY <1>3
<1> QED
  BY <1>1, <1>4 DEF SumOf

LEMMA ListsFinite ==
  ASSUME NEW p \in Tasks
  PROVE  IsFiniteSet({l \in Lists : l[1] = p})
<1>1. IsFiniteSet({p}) /\ IsFiniteSet(Clids)
  <2>1. MaxLists - 1 \in Int
    BY BoundsAssumption
  <2>2. IsFiniteSet({p})
    BY FS_Singleton
  <2>3. IsFiniteSet(0 .. MaxLists - 1)
    BY <2>1, FS_Interval
  <2> QED
    BY <2>2, <2>3 DEF Clids
<1>2. IsFiniteSet({p} \X Clids)
  BY <1>1, FS_Product
<1>3. {l \in Lists : l[1] = p} \in SUBSET ({p} \X Clids)
  BY DEF Lists
<1> QED
  BY <1>2, <1>3, FS_Subset

\* A worker that exists is freed with its own list and with no other, and is not
\* left in the list of its process.
LEMMA FreesOfWorker ==
  ASSUME CountInv, NEW w \in Workers
  PROVE  FreesOf(Node("worker", w)) = IF WorkerExists(w) THEN 1 ELSE 0
<1> PICK p : p = w[1]
  OBVIOUS
<1> PICK n : n = w[2]
  OBVIOUS
<1> PICK S : S = {l \in Lists : l[1] = p}
  OBVIOUS
<1> PICK g : g = [l \in S |-> Occurrences(n, FreedByList(l))]
  OBVIOUS
<1> PICK zero : zero = [l \in S |-> 0]
  OBVIOUS
<1>1. p \in Tasks /\ n \in Wids /\ w = <<p, n>> /\ worker[w].clid \in Clids
  BY CountInvHas DEF Workers, TypeInv, TypeOK, WorkerNodes
<1>2. IsFiniteSet(S) /\ S \subseteq Lists
  BY <1>1, ListsFinite
<1>3. FreesOf(Node("worker", w)) = (IF n \in StillLinked(p) THEN 1 ELSE 0) + SumOf(g, S)[S]
  <2>1. FreesOf(Node("worker", w)) =
          (IF w[2] \in StillLinked(w[1]) THEN 1 ELSE 0)
            + FreedIn(w[2], {l \in Lists : l[1] = w[1]})
    BY DEF FreesOf, Node, FreedIn
  <2> QED
    BY <1>2, <2>1, FreesAreSum
<1>4. \A l \in S : g[l] = IF n \in Members(l) THEN 1 ELSE 0
  BY <1>2, FreedByListOnce
<1>5. \A l \in S : n \in Members(l) <=> WorkerExists(w) /\ l[2] = worker[w].clid
  BY <1>1 DEF Members
<1>6. SumOf(zero, S)[S] = 0
  BY <1>2, SumOfZeros
<1>7. CASE WorkerExists(w)
  <2> PICK c : c = worker[w].clid
    OBVIOUS
  <2> PICK m : m = <<p, c>>
    OBVIOUS
  <2>1. m \in S /\ n \in Members(m)
    BY <1>1, <1>5, <1>7 DEF Lists
  <2>2. g[m] = 1 /\ \A l \in S : l # m => g[l] = 0
    <3>1. \A l \in S : l = <<p, l[2]>>
      BY DEF Lists
    <3> QED
      BY <1>4, <1>5, <2>1, <3>1
  <2>3. g \in [S -> Int] /\ zero \in [S -> Int]
    BY <1>4
  <2>4. SumOf(g, S)[S] = SumOf(zero, S)[S] + (g[m] - zero[m])
    BY <1>2, <2>1, <2>2, <2>3, SumChange
  <2>5. SumOf(g, S)[S] = 1
    BY <1>6, <2>1, <2>2, <2>4
  <2>6. n \notin StillLinked(p)
    <3>1. m \in Lists /\ m[1] = p /\ n \in ToSet(FreedByList(m))
      BY <1>2, <2>1, FreedByListIs
    <3> QED
      BY <3>1 DEF StillLinked
  <2> QED
    BY <1>3, <1>7, <2>5, <2>6
<1>8. CASE ~ WorkerExists(w)
  <2>1. \A l \in S : g[l] = 0
    BY <1>4, <1>5, <1>8
  <2>2. SumOf(g, S)[S] = 0
    BY <1>2, <2>1, SumOfZeros
  <2>3. n \notin StillLinked(p)
    BY <1>1, <1>8 DEF StillLinked
  <2> QED
    BY <1>3, <1>8, <2>2, <2>3
<1> QED
  BY <1>7, <1>8

\* The unloaded module has freed each worker that existed once and no other,
\* although each hung in two lists and both were walked.
THEOREM WorkersAreFreedOnce == ModuleSpec => FreedOnce
<1>1. ASSUME ModuleInv, [ModuleNext]_all
      PROVE  [module # "unloaded" /\ module' = "unloaded" =>
                \A w \in Workers :
                  freed'[Node("worker", w)] = IF WorkerExists(w) THEN 1 ELSE 0]_all
  <2> SUFFICES ASSUME module # "unloaded", module' = "unloaded", NEW w \in Workers
               PROVE  freed'[Node("worker", w)] = IF WorkerExists(w) THEN 1 ELSE 0
    OBVIOUS
  <2>1. CountInv
    BY <1>1 DEF ModuleInv
  <2>2. freed' = [node \in Nodes |-> FreesOf(node)]
    <3>1. module' # module
      OBVIOUS
    <3>2. ModuleNext
      BY <1>1, <3>1 DEF all, outer
    <3>3. ~ RegisterDevice /\ ~ InitProc /\ ~ BeginExit /\ ~ DeleteProc /\ ~ Deregister
      BY Exits DEF RegisterDevice, InitProc, BeginExit, DeleteProc, Deregister
    <3>4. \A t \in Tasks : ~ OpenDevice(t) /\ ~ CloseDevice(t) /\ ~ Request(t)
      BY <3>1 DEF OpenDevice, CloseDevice, Request, Wild
    <3>5. ~ CloseFile /\ \A s \in Scheds : ~ OpenFile(s)
      BY <3>1 DEF CloseFile, OpenFile, Wild
    <3>6. Cleanup
      BY <3>2, <3>3, <3>4, <3>5 DEF ModuleNext
    <3> QED
      BY <3>1, <3>6 DEF Cleanup, Wild
  <2>3. Node("worker", w) \in Nodes
    BY DEF Nodes
  <2> QED
    BY <2>1, <2>2, <2>3, FreesOfWorker
<1> QED
  BY <1>1, ModuleStart, ModuleStep, PTL DEF ModuleSpec, FreedOnce
=============================================================================
