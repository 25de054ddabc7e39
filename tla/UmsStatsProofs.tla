--------------------------- MODULE UmsStatsProofs ---------------------------
(***************************************************************************)
(* What the statistics say, for every set of tasks, every bound, every     *)
(* width of the counters and every way the clock goes and is set.          *)
(*                                                                         *)
(* A step of UmsStats starts a worker, stops one, lets time pass or leaves *)
(* the statistics alone (Moves), which is all that UmsApi has to say here; *)
(* it rests on the lists and on the workers that schedulers name (OwnInv). *)
(* The rest is arithmetic: a worker's total and the time since it was last *)
(* executed are together the time it ran (RunTimed); a scheduler's total   *)
(* is at most MaxSwitch for each switch (SwitchTimed).                     *)
(***************************************************************************)
EXTENDS UmsStats, UmsOwnsProofs

CountRange == 2 ^ CountBits
TimeRange  == 2 ^ TimeBits

SchedStats  == [switch_count : Nat, avg_switch_time : Nat, last : Nat, total : Nat]
WorkerStats == [switch_count : Nat, total_exec_time : 0 .. TimeRange - 1,
                time_of_the_last_switch : Times]

StatsType ==
  /\ clock \in Times
  /\ sched_stats \in [Scheds -> SchedStats]
  /\ worker_stats \in [Workers -> WorkerStats]
  /\ ran \in [Workers -> 0 .. TimeRange - 1]
  /\ switched \in [Scheds -> 0 .. CountRange]
  /\ oops \in BOOLEAN

\* What thread_yield will add to the total of a RUNNING worker is what is missing.
RunTimed(w) ==
  \/ <<"worker", w>> \in disturbed
  \/ LET n == worker_stats[w] IN
     ran[w] = IF w \in Running
              THEN (n.total_exec_time + (clock - n.time_of_the_last_switch)) % TimeRange
              ELSE n.total_exec_time

SwitchTimed(s) ==
  \/ <<"scheduler", s>> \in disturbed
  \/ LET n == sched_stats[s] IN
     /\ n.last <= MaxSwitch /\ n.avg_switch_time <= MaxSwitch
     /\ n.total <= MaxSwitch * switched[s]

StatsInv ==
  /\ OwnInv /\ StatsType
  /\ \A w \in Workers : RunTimed(w)
  /\ \A s \in Scheds : SwitchTimed(s)
  /\ OopsOnlyAtWrap
  /\ SwitchesBalance

-----------------------------------------------------------------------------
(* Counters that wrap *)

LEMMA ModIs ==
  ASSUME NEW m \in Nat, m > 0, NEW x \in Int
  PROVE  x % m \in 0 .. m - 1 /\ x = (m * (x \div m)) + (x % m) /\ x \div m \in Int
OBVIOUS

LEMMA ModUnique ==
  ASSUME NEW m \in Nat, m > 0, NEW q \in Int, NEW r \in 0 .. m-1, NEW x \in Int, x = m * q + r
  PROVE  x % m = r
OBVIOUS

LEMMA ModShift ==
  ASSUME NEW m \in Nat, m > 0, NEW x \in Int, NEW q \in Int
  PROVE  (x + m * q) % m = x % m
<1>1. PICK r \in 0 .. m - 1, p \in Int : x = m * p + r
  BY ModIs
<1>2. x % m = r
  BY <1>1, ModUnique
<1>3. x + m * q = m * (p + q) + r
  BY <1>1
<1>4. PICK y \in Int : y = x + m * q
  OBVIOUS
<1>5. PICK k \in Int : k = p + q
  OBVIOUS
<1>6. y = m * k + r
  BY <1>3, <1>4, <1>5
<1>7. y % m = r
  BY <1>6, ModUnique
<1> QED
  BY <1>2, <1>4, <1>7

LEMMA ModAdd ==
  ASSUME NEW m \in Nat, m > 0, NEW a \in Int, NEW d \in Int
  PROVE  ((a % m) + d) % m = (a + d) % m
<1>1. PICK r \in 0 .. m - 1, q \in Int : a = m * q + r
  BY ModIs
<1>2. a % m = r
  BY <1>1, ModUnique
<1>3. a + d = (r + d) + m * q
  BY <1>1
<1>4. PICK y \in Int : y = r + d
  BY <1>1
<1>5. (y + m * q) % m = y % m
  BY ModShift
<1> QED
  BY <1>2, <1>3, <1>4, <1>5

\* By how much a counter grows when it counts on and wraps.
StepFrom(i, m) == ((i + 1) % m) - i

\* Two sums that grow by a step of a counter that wraps stay as they were to each
\* other.
LEMMA ModCount ==
  ASSUME NEW m \in Nat, m > 0, NEW a \in Int, NEW b \in Int, a % m = b % m, NEW j \in Int, NEW k \in Int
  PROVE  (a + StepFrom(j, m)) % m = (b + StepFrom(k, m)) % m
<1>1. ASSUME NEW c \in Int, NEW i \in Int
      PROVE  (c + StepFrom(i, m)) % m = ((c % m) + 1) % m
  <2>1. PICK e \in Int : e = i + 1
    OBVIOUS
  <2>2. PICK d \in Int : d = c + 1
    OBVIOUS
  <2>3. PICK r \in 0 .. m - 1, q \in Int : e = m * q + r /\ e % m = r
    BY ModIs
  <2>4. e % m = r
    BY <2>3
  <2>5. PICK p \in Int : p = 0 - q
    OBVIOUS
  <2>6. c + (r - i) = d + m * p
    BY <2>1, <2>2, <2>3, <2>5
  <2>7. (d + m * p) % m = d % m
    BY ModShift
  <2>8. ((c % m) + 1) % m = (c + 1) % m
    <3>1. 1 \in Int
      OBVIOUS
    <3> QED
      BY <3>1, ModAdd
  <2> QED
    BY <2>1, <2>2, <2>4, <2>6, <2>7, <2>8 DEF StepFrom
<1>2. (a + StepFrom(j, m)) % m = ((a % m) + 1) % m
  BY <1>1
<1>3. (b + StepFrom(k, m)) % m = ((b % m) + 1) % m
  BY <1>1
<1> QED
  BY <1>2, <1>3

\* What has not wrapped, what just wraps, and what a remainder and a quotient are
\* at most.
LEMMA ModSmall ==
  ASSUME NEW m \in Nat, m > 0, NEW r \in 0 .. m - 1
  PROVE  r % m = r
OBVIOUS

LEMMA ModSelf ==
  ASSUME NEW m \in Nat, m > 0
  PROVE  m % m = 0
OBVIOUS

LEMMA ModAtMost ==
  ASSUME NEW m \in Nat, m > 0, NEW x \in Nat
  PROVE  x % m <= x /\ x % m \in Nat
OBVIOUS

LEMMA DivAtMost ==
  ASSUME NEW n \in Nat, n > 0, NEW x \in Nat
  PROVE  /\ x \div n \in Nat
         /\ \A k \in Nat : x <= k * n => x \div n <= k
OBVIOUS

LEMMA Ranges ==
  /\ CountRange \in Nat /\ CountRange > 0 /\ TimeRange \in Nat /\ TimeRange > 0
  /\ Times \subseteq Nat /\ MaxSwitch \in Nat
BY StatsAssumption DEF CountRange, TimeRange, Times

-----------------------------------------------------------------------------
(* What a step does, as far as the statistics can tell *)

Steady == Running' = Running /\ UNCHANGED stats

Starts ==
  \E s \in Scheds, w \in Workers \ Running :
    Running' = Running \cup {w} /\ CountSwitch(s, w)

Stops ==
  \E w \in Running :
    /\ Running' = Running \ {w}
    /\ worker_stats' = [worker_stats EXCEPT ![w] = Executed(@)]
    /\ UNCHANGED <<clock, sets, sched_stats, oops, ran, switched, disturbed>>

Passes ==
  /\ Running' = Running
  /\ Elapse(1, Running) \/ Set(Running, {})
  /\ UNCHANGED <<sched_stats, worker_stats, oops, switched>>

Moves == Steady \/ Starts \/ Stops \/ Passes

LEMMA RunningSame ==
  ASSUME \A p \in Tasks : process'[p].worker_count = process[p].worker_count,
         \A w \in Workers : worker'[w].state = worker[w].state
  PROVE  Running' = Running
<1>1. \A w \in Workers : WorkerExists(w)' <=> WorkerExists(w)
  BY DEF WorkerExists, Workers
<1> QED
  BY <1>1 DEF Running

\* A request that leaves the workers alone leaves their number alone.
LEMMA NoWorkerMoves ==
  ASSUME TypeInv, NEW t \in Tasks,
         \/ EnterUms(t) \/ ExitUms(t) \/ CreateCompletionList(t)
         \/ \E c \in Clids : EnterSchedulingMode(t, c)
  PROVE  Running' = Running
<1>1. worker' = worker
  BY DEF EnterUms, ExitUms, CreateCompletionList, EnterSchedulingMode, AddScheduler,
         Fail, Miss, Crash
<1>2. \A p \in Tasks : process'[p].worker_count = process[p].worker_count
  <2>1. CASE EnterUms(t) \/ ExitUms(t) \/ CreateCompletionList(t)
    BY <2>1 DEF EnterUms, ExitUms, CreateCompletionList, Fail, TypeInv, TypeOK, ProcessNodes
  <2>2. ASSUME NEW c \in Clids, EnterSchedulingMode(t, c)
        PROVE  \A p \in Tasks : process'[p].worker_count = process[p].worker_count
    <3>1. CASE AddScheduler(t, c)
      <4> PICK q : q = Tgid[t]
        OBVIOUS
      <4>1. q \in Tasks /\ process \in [Tasks -> ProcessNodes]
        BY TasksAssumption DEF TypeInv, TypeOK
      <4>2. \/ process' = [process EXCEPT ![q].schedulers = @ + 1]
            \/ process' = [process EXCEPT ![q].schedulers = @ + 1,
                                          ![q].scheduler_count = @ + 1]
        BY <3>1 DEF AddScheduler
      <4> QED
        BY <4>1, <4>2 DEF ProcessNodes
    <3>2. CASE process' = process
      BY <3>2
    <3> QED
      BY <2>2, <3>1, <3>2 DEF EnterSchedulingMode, Fail, Miss, Crash
  <2> QED
    BY <2>1, <2>2
<1> QED
  BY <1>1, <1>2, RunningSame

LEMMA MainCodeMoves ==
  ASSUME OwnInv, NEW t \in Tasks, MainCode(t) \/ PthreadCode(t), UNCHANGED stats
  PROVE  Moves
<1>1. TypeInv /\ ListInv
  BY DEF OwnInv, ListInv
<1>2. CASE \/ EnterUms(t) \/ ExitUms(t) \/ CreateCompletionList(t)
           \/ \E c \in Clids : EnterSchedulingMode(t, c)
  BY <1>1, <1>2, NoWorkerMoves DEF Moves, Steady
<1>3. ASSUME NEW c \in Clids, CreateWorkerThread(t, c)
      PROVE  Running' = Running
  <2>1. CASE UNCHANGED <<process, worker>>
    BY <2>1, RunningSame
  <2>2. CASE AddWorker(t, c)
    <3> PICK wid : wid = process[t].worker_count
      OBVIOUS
    <3> PICK w : w = <<t, wid>>
      OBVIOUS
    <3>1. /\ wid \in Wids /\ ~ WorkerExists(w)
          /\ \A v \in Workers : /\ WorkerExists(v)' <=> WorkerExists(v) \/ v = w
                                /\ v # w => worker'[v] = worker[v]
      BY <1>1, <2>2, AddWorkerMembers
    <3>2. w \in Workers /\ worker'[w].state = "IDLE"
      BY <1>1, <2>2, <3>1 DEF AddWorker, Workers, TypeInv, TypeOK
    <3> QED
      BY <3>1, <3>2 DEF Running
  <2> QED
    BY <1>3, <2>1, <2>2 DEF CreateWorkerThread, Fail, Miss, Crash
<1> QED
  BY <1>2, <1>3 DEF MainCode, PthreadCode, Moves, Steady

\* A scheduler's code starts a worker that was IDLE, or leaves all as it is.
LEMMA SchedulerCodeMoves ==
  ASSUME OwnInv, NEW t \in Tasks, CountedScheduler(t)
  PROVE  Moves
<1>1. TypeInv /\ ListPartition
  BY DEF OwnInv, ListInv
<1>2. CASE worker' = worker /\ process' = process
  <2>1. Running' = Running
    BY <1>2, RunningSame
  <2> QED
    BY <1>2, <2>1 DEF CountedScheduler, Moves, Steady
<1>3. CASE \E wid \in Wids \cup {NoId} : \E r \in Scheds :
             \E i \in DOMAIN comp_list[ListOf(r)].idle_list :
               /\ RunBy(r, t) /\ comp_list[ListOf(r)].idle_list[i] = wid
               /\ worker[<<r[1], wid>>].state = "IDLE"
               /\ SwitchToWorker(t, r, i)
  <2> PICK r \in Scheds : \E i \in DOMAIN comp_list[ListOf(r)].idle_list :
             /\ RunBy(r, t)
             /\ worker[<<r[1], comp_list[ListOf(r)].idle_list[i]>>].state = "IDLE"
             /\ SwitchToWorker(t, r, i)
    BY <1>3
  <2> PICK i \in DOMAIN comp_list[ListOf(r)].idle_list :
             /\ RunBy(r, t)
             /\ worker[<<r[1], comp_list[ListOf(r)].idle_list[i]>>].state = "IDLE"
             /\ SwitchToWorker(t, r, i)
    OBVIOUS
  <2> PICK wid : wid = comp_list[ListOf(r)].idle_list[i]
    OBVIOUS
  <2> PICK w : w = <<r[1], wid>>
    OBVIOUS
  <2>1. /\ wid \in Wids /\ w \in Workers /\ ListOf(r) \in Lists
        /\ worker[w] \in WorkerNodes /\ scheduler[r] \in SchedNodes
    BY <1>1, SwitchToWorkerTypes, ListOfType DEF TypeInv, TypeOK
  <2>2. /\ worker' = [worker EXCEPT ![w] = Assigned(worker[w], scheduler[r].sid, t)]
        /\ scheduler' = [scheduler EXCEPT ![r] = Hosting(scheduler[r], wid, regs[t])]
        /\ process' = process
    BY DEF SwitchToWorker
  <2>3. WorkerExists(w)
    <3>1. wid \in ToSet(comp_list[ListOf(r)].idle_list)
      BY DEF ToSet
    <3>2. wid \in MembersIn(ListOf(r), {"IDLE"})
      BY <1>1, <2>1, <3>1 DEF ListPartition
    <3> QED
      BY <3>2 DEF MembersIn, Members, ListOf
  <2>4. worker[w].state = "IDLE" /\ worker'[w].state = "RUNNING"
    BY <1>1, <2>1, <2>2 DEF Assigned, WorkerNodes, TypeInv, TypeOK
  <2>5. scheduler'[r].wid = wid
    BY <1>1, <2>1, <2>2 DEF Hosting, SchedNodes, TypeInv, TypeOK
  <2>6. Running' = Running \cup {w} /\ w \in Workers \ Running
    <3>1. \A v \in Workers : v # w => worker'[v] = worker[v]
      BY <1>1, <2>2 DEF TypeInv, TypeOK
    <3>2. \A v \in Workers : WorkerExists(v)' <=> WorkerExists(v)
      BY <2>2 DEF WorkerExists
    <3> QED
      BY <2>1, <2>3, <2>4, <3>1, <3>2 DEF Running
  <2>7. worker' # worker
    BY <2>4
  <2>8. PICK s \in Scheds : RunBy(s, t) /\ CountSwitch(s, <<s[1], scheduler'[s].wid>>)
    BY <2>7 DEF CountedScheduler
  <2>9. s = r
    BY <2>8, RunByUnique
  <2>10. CountSwitch(r, w)
    BY <2>5, <2>8, <2>9
  <2> QED
    BY <2>6, <2>10 DEF Moves, Starts
<1>4. \/ worker' = worker /\ process' = process
      \/ \E wid \in Wids \cup {NoId} : \E r \in Scheds :
             \E i \in DOMAIN comp_list[ListOf(r)].idle_list :
               /\ RunBy(r, t) /\ comp_list[ListOf(r)].idle_list[i] = wid
               /\ worker[<<r[1], wid>>].state = "IDLE"
               /\ SwitchToWorker(t, r, i)
  <2>1. CASE DequeueCompletionListItems(t) \/ ExitSchedulingMode(t)
    BY <2>1 DEF DequeueCompletionListItems, ExitSchedulingMode, RejectCaller, Fail, Miss, Crash
  <2>2. ASSUME NEW wid \in Wids \cup {NoId}, ExecuteThread(t, wid)
        PROVE  \/ worker' = worker /\ process' = process
               \/ \E r \in Scheds :
                    \E i \in DOMAIN comp_list[ListOf(r)].idle_list :
                      /\ RunBy(r, t) /\ comp_list[ListOf(r)].idle_list[i] = wid
                      /\ worker[<<r[1], wid>>].state = "IDLE"
                      /\ SwitchToWorker(t, r, i)
    BY <2>2 DEF ExecuteThread, RejectCaller, Fail, Miss, Crash
  <2> QED
    BY <2>1, <2>2 DEF CountedScheduler, SchedulerCode
<1> QED
  BY <1>2, <1>3, <1>4

\* A worker's code stops the worker that its scheduler names, which was RUNNING.
LEMMA WorkerCodeMoves ==
  ASSUME OwnInv, NEW t \in Tasks, CountedWorker(t)
  PROVE  Moves
<1>1. TypeInv /\ ListPartition
  BY DEF OwnInv, ListInv
<1>2. CASE worker' = worker /\ process' = process
  <2>1. Running' = Running
    BY <1>2, RunningSame
  <2> QED
    BY <1>2, <2>1 DEF CountedWorker, Moves, Steady
<1>3. ASSUME NEW status \in {"PAUSE", "FINISH"}, NEW r \in Scheds,
             NEW i \in DOMAIN comp_list[ListOf(r)].busy_list, RunBy(r, t),
             comp_list[ListOf(r)].busy_list[i] = scheduler[r].wid,
             SwitchToScheduler(t, r, i, status)
      PROVE  Moves
  <2> PICK wid : wid = scheduler[r].wid
    OBVIOUS
  <2> PICK w : w = <<r[1], wid>>
    OBVIOUS
  <2>1. /\ wid \in Wids /\ w \in Workers /\ wid # NoId /\ worker[w] \in WorkerNodes
    <3>1. /\ comp_list[ListOf(r)].busy_list[i] \in Wids
          /\ <<r[1], comp_list[ListOf(r)].busy_list[i]>> \in Workers
      BY <1>1, SwitchToSchedulerTypes
    <3>2. wid \in Wids /\ w \in Workers
      BY <1>3, <3>1
    <3>3. wid # NoId
      BY <3>2, BoundsAssumption DEF Wids, NoId
    <3> QED
      BY <1>1, <3>2, <3>3 DEF TypeInv, TypeOK
  <2>2. /\ worker' = [worker EXCEPT ![w] = Released(worker[w], status, regs[t])]
        /\ process' = process
    BY <1>3 DEF SwitchToScheduler
  <2>3. WorkerExists(w) /\ worker[w].state = "RUNNING"
    BY <2>1 DEF OwnInv, SchedulerOwnsWorker, Members, ListOf
  <2>4. worker'[w].state # "RUNNING"
    BY <1>1, <1>3, <2>1, <2>2 DEF Released, WorkerNodes, TypeInv, TypeOK
  <2>5. Running' = Running \ {w} /\ w \in Running
    <3>1. \A v \in Workers : v # w => worker'[v] = worker[v]
      BY <1>1, <2>2 DEF TypeInv, TypeOK
    <3>2. \A v \in Workers : WorkerExists(v)' <=> WorkerExists(v)
      BY <2>2 DEF WorkerExists
    <3> QED
      BY <2>1, <2>3, <2>4, <3>1, <3>2 DEF Running
  <2>6. worker' # worker
    BY <2>3, <2>4
  <2>7. PICK s \in Scheds :
          /\ RunBy(s, t)
          /\ worker_stats' = [worker_stats EXCEPT
                 ![<<s[1], scheduler[s].wid>>] = Executed(@)]
          /\ UNCHANGED <<clock, sets, sched_stats, oops, ran, switched, disturbed>>
    BY <2>6 DEF CountedWorker
  <2>8. s = r
    BY <1>3, <2>7, RunByUnique
  <2> QED
    BY <2>5, <2>7, <2>8 DEF Moves, Stops
<1>4. \/ worker' = worker /\ process' = process
      \/ \E status \in {"PAUSE", "FINISH"} : \E r \in Scheds :
           \E i \in DOMAIN comp_list[ListOf(r)].busy_list :
             /\ RunBy(r, t)
             /\ comp_list[ListOf(r)].busy_list[i] = scheduler[r].wid
             /\ SwitchToScheduler(t, r, i, status)
  <2>1. ASSUME NEW status \in {"PAUSE", "FINISH"}, ThreadYield(t, status)
        PROVE  \/ worker' = worker /\ process' = process
               \/ \E r \in Scheds : \E i \in DOMAIN comp_list[ListOf(r)].busy_list :
                    /\ RunBy(r, t)
                    /\ comp_list[ListOf(r)].busy_list[i] = scheduler[r].wid
                    /\ SwitchToScheduler(t, r, i, status)
    BY <2>1 DEF ThreadYield, RejectCaller, Fail, Miss, Crash
  <2> QED
    BY <2>1 DEF CountedWorker, WorkerCode
<1> QED
  BY <1>2, <1>3, <1>4

\* Every step of UmsStats is one of these four, and a request of UmsApi or none.
LEMMA StatsMoves ==
  ASSUME OwnInv, StatsNext
  PROVE  Moves /\ OwnInv' /\ ~ oops
<1>1. ASSUME NEW t \in Tasks, (MainCode(t) \/ PthreadCode(t)) /\ UNCHANGED stats
      PROVE  Moves /\ Next
  <2>1. Next
    BY <1>1 DEF StatsNext, Next, MainCode, PthreadCode, MainRequest, SchedulerRequest
  <2> QED
    BY <1>1, <2>1, MainCodeMoves
<1>2. ASSUME NEW t \in Tasks, CountedScheduler(t)
      PROVE  Moves /\ Next
  <2>1. Next
    BY <1>2 DEF StatsNext, Next, CountedScheduler, SchedulerCode, SchedulerRequest
  <2> QED
    BY <1>2, <2>1, SchedulerCodeMoves
<1>3. ASSUME NEW t \in Tasks, CountedWorker(t)
      PROVE  Moves /\ Next
  <2>1. Next
    BY <1>3 DEF StatsNext, Next, CountedWorker, WorkerCode, SchedulerRequest, Statuses
  <2> QED
    BY <1>3, <2>1, WorkerCodeMoves
<1>4. CASE Tick \/ SetClock
  <2>1. UNCHANGED vars /\ UNCHANGED <<process, worker>>
    BY <1>4 DEF Tick, SetClock, vars
  <2>2. Running' = Running
    BY <2>1, RunningSame
  <2>3. Moves
    BY <1>4, <2>2 DEF Moves, Passes, Tick, SetClock
  <2> QED
    BY <2>1, <2>3, OwnStep DEF StatsNext
<1> QED
  BY <1>1, <1>2, <1>3, <1>4, OwnStep DEF StatsNext

-----------------------------------------------------------------------------
(* Times *)

\* Time that passes is run by the workers in busy, and moves the clock.
LEMMA Elapsed ==
  ASSUME StatsType, NEW d \in Nat, NEW busy, Elapse(d, busy)
  PROVE  /\ clock' = clock + d /\ clock' \in Times
         /\ ran' \in [Workers -> 0 .. TimeRange - 1]
         /\ \A w \in Workers : ran'[w] = IF w \in busy THEN (ran[w] + d) % TimeRange
                                                       ELSE ran[w]
         /\ disturbed' = disturbed
<1>1. \A w \in Workers : ran[w] \in Nat
  BY Ranges DEF StatsType
<1>2. \A w \in Workers : (ran[w] + d) % TimeRange \in 0 .. TimeRange - 1
  BY <1>1, Ranges, ModIs
<1> QED
  BY <1>2 DEF Elapse, StatsType, TimeRange

\* A clock that is set spoils the time of who is running or switching.
LEMMA WasSet ==
  ASSUME NEW busy, NEW switching, Set(busy, switching)
  PROVE  /\ clock' \in Times /\ ran' = ran
         /\ disturbed \subseteq disturbed'
         /\ \A w \in busy : <<"worker", w>> \in disturbed'
         /\ \A s \in switching : <<"scheduler", s>> \in disturbed'
BY DEF Set, The

\* The total and the time since the last switch go on together.
LEMMA RunningOn ==
  ASSUME StatsType, NEW w \in Workers, RunTimed(w), w \in Running, NEW d \in Nat,
         clock' = clock + d, ran'[w] = (ran[w] + d) % TimeRange,
         worker_stats'[w] = worker_stats[w], disturbed' = disturbed, w \in Running'
  PROVE  RunTimed(w)'
<1> PICK n \in WorkerStats : n = worker_stats[w]
  BY DEF StatsType
<1> PICK m : m = TimeRange
  OBVIOUS
<1> PICK c : c = clock
  OBVIOUS
<1>1. /\ n.total_exec_time \in Int /\ n.time_of_the_last_switch \in Int
      /\ c \in Int /\ m \in Nat /\ m > 0
  <2>1. n.time_of_the_last_switch \in Times /\ n.total_exec_time \in 0 .. TimeRange - 1
    BY DEF WorkerStats
  <2> QED
    BY <2>1, Ranges DEF StatsType
<1>0. \A y \in Int : ((y % m) + d) % m = (y + d) % m
  <2>1. m \in Nat /\ m > 0 /\ d \in Int
    BY <1>1
  <2> QED
    BY <2>1, ModAdd
<1> PICK x \in Int : x = n.total_exec_time + (c - n.time_of_the_last_switch)
  BY <1>1
<1>2. x + d = n.total_exec_time + ((c + d) - n.time_of_the_last_switch)
  BY <1>1
<1>3. ((x % m) + d) % m = (x + d) % m
  BY <1>0
<1>4. CASE <<"worker", w>> \notin disturbed
  <2>1. ran[w] = x % m
    BY <1>4 DEF RunTimed
  <2>2. ran'[w] = (x + d) % m
    BY <1>3, <2>1
  <2> QED
    BY <1>2, <2>2 DEF RunTimed
<1> QED
  BY <1>4 DEF RunTimed

\* What is not running stays as it is.
LEMMA RestingOn ==
  ASSUME NEW w \in Workers, RunTimed(w), w \notin Running, w \notin Running',
         ran'[w] = ran[w], worker_stats'[w] = worker_stats[w],
         disturbed \subseteq disturbed'
  PROVE  RunTimed(w)'
BY DEF RunTimed

\* The statistics of a worker that is started, and of one that is stopped.
LEMMA StartedStats ==
  ASSUME StatsType, NEW w \in Workers, worker_stats' = [worker_stats EXCEPT ![w] = SwitchedTo(@)]
  PROVE  /\ worker_stats' \in [Workers -> WorkerStats]
         /\ worker_stats'[w].total_exec_time = worker_stats[w].total_exec_time
         /\ worker_stats'[w].time_of_the_last_switch = clock
         /\ worker_stats'[w].switch_count = (worker_stats[w].switch_count + 1) % CountRange
         /\ \A v \in Workers : v # w => worker_stats'[v] = worker_stats[v]
<1> PICK n \in WorkerStats : n = worker_stats[w]
  BY DEF StatsType
<1> PICK k : k = (n.switch_count + 1) % CountRange
  OBVIOUS
<1>1. k \in Nat
  <2>1. n.switch_count + 1 \in Int
    BY DEF WorkerStats
  <2> QED
    BY <2>1, Ranges, ModIs
<1>2. SwitchedTo(n) = [n EXCEPT !.switch_count = k, !.time_of_the_last_switch = clock]
  BY DEF SwitchedTo, Counted, CountRange
<1>3. /\ SwitchedTo(n) \in WorkerStats
      /\ SwitchedTo(n).total_exec_time = n.total_exec_time
      /\ SwitchedTo(n).time_of_the_last_switch = clock
      /\ SwitchedTo(n).switch_count = k
  BY <1>1, <1>2 DEF WorkerStats, StatsType
<1> QED
  BY <1>3 DEF StatsType

LEMMA StoppedStats ==
  ASSUME StatsType, NEW w \in Workers, worker_stats' = [worker_stats EXCEPT ![w] = Executed(@)]
  PROVE  /\ worker_stats' \in [Workers -> WorkerStats]
         /\ worker_stats'[w].total_exec_time =
              (worker_stats[w].total_exec_time
                 + (clock - worker_stats[w].time_of_the_last_switch)) % TimeRange
         /\ \A v \in Workers : worker_stats'[v].switch_count = worker_stats[v].switch_count
         /\ \A v \in Workers : v # w => worker_stats'[v] = worker_stats[v]
<1> PICK n \in WorkerStats : n = worker_stats[w]
  BY DEF StatsType
<1> PICK a : a = n.total_exec_time
  OBVIOUS
<1> PICK d : d = clock - n.time_of_the_last_switch
  OBVIOUS
<1>1. a \in Int /\ d \in Int /\ TimeRange \in Nat /\ TimeRange > 0
  BY Ranges DEF StatsType, WorkerStats
<1>2. (a + (d % TimeRange)) % TimeRange = (a + d) % TimeRange
  <2>1. ((d % TimeRange) + a) % TimeRange = (d + a) % TimeRange
    BY <1>1, ModAdd
  <2>2. d % TimeRange \in Int
    BY <1>1, ModIs
  <2>3. a + (d % TimeRange) = (d % TimeRange) + a /\ a + d = d + a
    BY <1>1, <2>2
  <2> QED
    BY <2>1, <2>3
<1>3. (a + d) % TimeRange \in 0 .. TimeRange - 1
  <2>1. a + d \in Int
    BY <1>1
  <2> QED
    BY <1>1, <2>1, ModIs
<1>4. Executed(n) = [n EXCEPT !.total_exec_time = (a + d) % TimeRange]
  BY <1>2 DEF Executed, ExecTime, TimeRange
<1>5. /\ Executed(n) \in WorkerStats
      /\ Executed(n).total_exec_time = (a + d) % TimeRange
      /\ Executed(n).switch_count = n.switch_count
  BY <1>3, <1>4 DEF WorkerStats
<1> QED
  BY <1>5 DEF StatsType

-----------------------------------------------------------------------------
(* The statistics of a switch *)

\* Until it wraps, the divisor is the number of switches, this one included.
LEMMA DivisorIs ==
  ASSUME StatsType, OopsOnlyAtWrap, ~ oops, NEW s \in Scheds
  PROVE  /\ switched[s] \in Nat /\ switched[s] < CountRange
         /\ sched_stats[s].switch_count = switched[s]
         /\ Divisor(switched[s]) = IF switched[s] + 1 = CountRange THEN 0 ELSE switched[s] + 1
<1> PICK k : k = switched[s]
  OBVIOUS
<1> PICK m : m = CountRange
  OBVIOUS
<1>1. k \in 0 .. m /\ m \in Nat /\ m > 0
  BY Ranges DEF StatsType
<1>2. k # m
  BY DEF OopsOnlyAtWrap, CountRange
<1>3. k \in Nat /\ k < m /\ k \in 0 .. m - 1
  BY <1>1, <1>2
<1>4. k % m = k
  BY <1>1, <1>3, ModSmall
<1>5. sched_stats[s].switch_count = k
  BY <1>4 DEF OopsOnlyAtWrap, CountRange
<1>6. Divisor(k) = (k + 1) % m
  BY DEF Divisor, Counted, CountRange
<1>7. CASE k + 1 = m
  BY <1>1, <1>3, <1>5, <1>6, <1>7, ModSelf
<1>8. CASE k + 1 # m
  <2>1. k + 1 \in 0 .. m - 1
    BY <1>1, <1>3, <1>8
  <2>2. (k + 1) % m = k + 1
    BY <1>1, <2>1, ModSmall
  <2> QED
    BY <1>3, <1>5, <1>6, <1>8, <2>2
<1> QED
  BY <1>7, <1>8

\* The node of the scheduler after a switch that took so long.
AfterSwitch(n, k, took) ==
  LET total == (n.total + took) % TimeRange
      div   == Divisor(k)
  IN  [switch_count    |-> Counted(n.switch_count),
       avg_switch_time |-> IF div = 0 THEN n.avg_switch_time ELSE total \div div,
       last            |-> took,
       total           |-> total]

LEMMA SwitchedStats ==
  ASSUME StatsType, OopsOnlyAtWrap, ~ oops, NEW s \in Scheds, NEW w \in Workers,
         CountSwitch(s, w)
  PROVE  /\ clock' \in Times
         /\ (clock' - clock) % TimeRange \in Nat
         /\ sched_stats'[s] =
              AfterSwitch(sched_stats[s], switched[s], (clock' - clock) % TimeRange)
         /\ sched_stats' \in [Scheds -> SchedStats]
         /\ \A r \in Scheds : r # s => sched_stats'[r] = sched_stats[r]
         /\ switched' = [switched EXCEPT ![s] = switched[s] + 1]
         /\ switched' \in [Scheds -> 0 .. CountRange]
         /\ oops' = (Divisor(switched[s]) = 0)
<1> PICK n \in SchedStats : n = sched_stats[s]
  BY DEF StatsType
<1> PICK k : k = switched[s]
  OBVIOUS
<1> PICK took : took = (clock' - clock) % TimeRange
  OBVIOUS
<1> PICK div : div = Divisor(k)
  OBVIOUS
<1> PICK total : total = (n.total + took) % TimeRange
  OBVIOUS
<1>1. clock' \in Times
  <2>1. ASSUME NEW d \in 0 .. MaxSwitch, Elapse(d, Running \cup {w})
        PROVE  clock' \in Times
    BY <2>1 DEF Elapse
  <2> QED
    BY <2>1, WasSet DEF CountSwitch
<1>2. took \in Nat
  <2>1. clock' - clock \in Int
    BY <1>1, Ranges DEF StatsType
  <2> QED
    BY <2>1, Ranges, ModIs
<1>3. total \in Nat
  <2>1. n.total + took \in Int
    BY <1>2 DEF SchedStats
  <2> QED
    BY <2>1, Ranges, ModIs
<1>4. /\ k \in Nat /\ k < CountRange /\ n.switch_count = k
      /\ div = IF k + 1 = CountRange THEN 0 ELSE k + 1
  BY DivisorIs
<1>5. Counted(k) = div
  BY DEF Divisor
<1>6. AfterSwitch(n, k, took) =
        [switch_count    |-> div,
         avg_switch_time |-> IF div = 0 THEN n.avg_switch_time ELSE total \div div,
         last            |-> took,
         total           |-> total]
  BY <1>4, <1>5 DEF AfterSwitch
<1>7. div \in Nat
  BY <1>4, Ranges
<1>8. (IF div = 0 THEN n.avg_switch_time ELSE total \div div) \in Nat
  BY <1>3, <1>7, DivAtMost DEF SchedStats
<1>9. AfterSwitch(n, k, took) \in SchedStats
  BY <1>2, <1>3, <1>6, <1>7, <1>8 DEF SchedStats
<1>10. /\ sched_stats' = [sched_stats EXCEPT ![s] = AfterSwitch(n, k, took)]
       /\ oops' = (div = 0)
       /\ switched' = [switched EXCEPT ![s] = k + 1]
  <2>1. SwitchTime(w, clock') = took
    BY DEF SwitchTime, ExecTime, TimeRange
  <2> QED
    BY <1>4, <2>1 DEF CountSwitch, AfterSwitch, TimeRange
<1>11. switched' \in [Scheds -> 0 .. CountRange]
  <2>1. k + 1 \in 0 .. CountRange
    BY <1>4, Ranges
  <2> QED
    BY <1>10, <2>1 DEF StatsType
<1>12. /\ sched_stats'[s] = AfterSwitch(n, k, took)
       /\ \A r \in Scheds : r # s => sched_stats'[r] = sched_stats[r]
       /\ sched_stats' \in [Scheds -> SchedStats]
  BY <1>9, <1>10 DEF StatsType
<1> QED
  BY <1>1, <1>2, <1>10, <1>11, <1>12

\* The average of switches is that of switches, each within MaxSwitch.
LEMMA SwitchIsTimed ==
  ASSUME StatsType, OopsOnlyAtWrap, ~ oops, NEW s \in Scheds, NEW w \in Workers,
         CountSwitch(s, w), SwitchTimed(s)
  PROVE  SwitchTimed(s)'
<1>1. CASE Set(Running \cup {w}, {s})
  <2>1. <<"scheduler", s>> \in disturbed'
    BY <1>1, WasSet
  <2> QED
    BY <2>1 DEF SwitchTimed
<1>2. ASSUME NEW d \in 0 .. MaxSwitch, Elapse(d, Running \cup {w}),
             <<"scheduler", s>> \notin disturbed
      PROVE  SwitchTimed(s)'
  <2> PICK n \in SchedStats : n = sched_stats[s]
    BY DEF StatsType
  <2> PICK k : k = switched[s]
    OBVIOUS
  <2> PICK M : M = MaxSwitch
    OBVIOUS
  <2> PICK took : took = d % TimeRange
    OBVIOUS
  <2> PICK div : div = Divisor(k)
    OBVIOUS
  <2> PICK total : total = (n.total + took) % TimeRange
    OBVIOUS
  <2>1. d \in Nat /\ d <= M /\ M \in Nat
    BY <1>2, Ranges
  <2>2. clock' - clock = d
    BY <1>2, <2>1, Ranges, Elapsed DEF StatsType
  <2>3. took <= M /\ took \in Nat
    <3>1. took <= d /\ took \in Nat
      BY <2>1, Ranges, ModAtMost
    <3> QED
      BY <2>1, <3>1
  <2>4. n.avg_switch_time <= M /\ n.total <= M * k /\ n.total \in Nat /\ n.avg_switch_time \in Nat
    BY <1>2 DEF SwitchTimed, SchedStats
  <2>5. k \in Nat /\ div = (IF k + 1 = CountRange THEN 0 ELSE k + 1)
    BY DivisorIs
  <2>6. total <= M * (k + 1) /\ total \in Nat
    <3> PICK p : p = M * k
      OBVIOUS
    <3> PICK x : x = n.total + took
      OBVIOUS
    <3>1. x \in Nat /\ p \in Nat /\ x <= p + M
      BY <2>1, <2>3, <2>4, <2>5
    <3>2. x % TimeRange <= x /\ x % TimeRange \in Nat
      BY <3>1, Ranges, ModAtMost
    <3>3. M * (k + 1) = p + M
      BY <2>1, <2>5
    <3>4. total <= x /\ total \in Nat
      BY <3>2
    <3>5. total <= p + M
      BY <2>1, <3>1, <3>4
    <3> QED
      BY <3>3, <3>4, <3>5
  <2>7. (IF div = 0 THEN n.avg_switch_time ELSE total \div div) <= M
    <3>1. CASE div = 0
      BY <2>4, <3>1
    <3>2. CASE div # 0
      <4>1. div = k + 1 /\ div \in Nat /\ div > 0 /\ total <= M * div
        BY <2>5, <2>6, <3>2
      <4>2. total \div div <= M
        BY <2>1, <2>6, <4>1, DivAtMost
      <4> QED
        BY <3>2, <4>2
    <3> QED
      BY <3>1, <3>2
  <2>8. sched_stats'[s] = AfterSwitch(n, k, took)
    BY <2>2, SwitchedStats
  <2>9. /\ sched_stats'[s].last = took /\ sched_stats'[s].total = total
        /\ sched_stats'[s].avg_switch_time =
             IF div = 0 THEN n.avg_switch_time ELSE total \div div
    BY <2>8 DEF AfterSwitch
  <2>10. switched'[s] = k + 1
    BY SwitchedStats DEF StatsType
  <2> QED
    BY <2>3, <2>6, <2>7, <2>9, <2>10 DEF SwitchTimed
<1>3. CASE <<"scheduler", s>> \in disturbed
  <2>1. <<"scheduler", s>> \in disturbed'
    BY <1>3, WasSet DEF CountSwitch, Elapse
  <2> QED
    BY <2>1 DEF SwitchTimed
<1> QED
  BY <1>1, <1>2, <1>3 DEF CountSwitch

\* The count wraps with the handler's divide error, after which no request follows.
LEMMA WrapIsOops ==
  ASSUME StatsType, OopsOnlyAtWrap, ~ oops, NEW s \in Scheds, NEW w \in Workers,
         CountSwitch(s, w)
  PROVE  OopsOnlyAtWrap'
<1> PICK k : k = switched[s]
  OBVIOUS
<1>1. /\ k \in Nat /\ k < CountRange /\ sched_stats[s].switch_count = k
      /\ Divisor(k) = IF k + 1 = CountRange THEN 0 ELSE k + 1
  BY DivisorIs
<1>2. /\ switched'[s] = k + 1 /\ \A r \in Scheds : r # s => switched'[r] = switched[r]
      /\ \A r \in Scheds : r # s => sched_stats'[r] = sched_stats[r]
      /\ oops' = (Divisor(k) = 0)
  BY SwitchedStats DEF StatsType
<1>3. sched_stats'[s].switch_count = (k + 1) % CountRange
  <2> PICK took : took = (clock' - clock) % TimeRange
    OBVIOUS
  <2>0. sched_stats'[s] = AfterSwitch(sched_stats[s], switched[s], took)
    BY SwitchedStats
  <2>1. sched_stats'[s].switch_count = Counted(sched_stats[s].switch_count)
    BY <2>0 DEF AfterSwitch
  <2>2. sched_stats[s].switch_count = k
    BY <1>1
  <2> QED
    BY <2>1, <2>2, Zenon DEF Counted, CountRange
<1>4. \A r \in Scheds : sched_stats'[r].switch_count = switched'[r] % CountRange
  BY <1>2, <1>3 DEF OopsOnlyAtWrap, CountRange
<1>5. oops' <=> k + 1 = CountRange
  <2>1. Divisor(k) = 0 <=> k + 1 = CountRange
    BY <1>1
  <2> QED
    BY <1>2, <2>1, Zenon
<1>6. \A r \in Scheds : r # s => switched'[r] # CountRange
  BY <1>2 DEF OopsOnlyAtWrap, CountRange
<1>7. oops' <=> \E r \in Scheds : switched'[r] = CountRange
  BY <1>2, <1>5, <1>6
<1> QED
  BY <1>4, <1>7 DEF OopsOnlyAtWrap, CountRange

-----------------------------------------------------------------------------
(* The two sums of switches *)

Total(f, S) == MapThenSumSet(LAMBDA x : f[x].switch_count, S)

LEMMA BalanceIs ==
  SwitchesBalance <=>
    Total(sched_stats, Scheds) % CountRange = Total(worker_stats, Workers) % CountRange
BY DEF SwitchesBalance, Total, CountRange

LEMMA BalanceIsNext ==
  SwitchesBalance' <=>
    Total(sched_stats', Scheds) % CountRange = Total(worker_stats', Workers) % CountRange
BY DEF SwitchesBalance, Total, CountRange, MapThenSumSet, MapThenFoldSet

LEMMA TotalIs ==
  ASSUME NEW S, IsFiniteSet(S), NEW f, NEW g, g = [x \in S |-> f[x].switch_count]
  PROVE  Total(f, S) = SumOf(g, S)[S]
<1> DEFINE Is(it) == it = [s \in SUBSET S |->
                       IF s = {} THEN 0 ELSE f[Chosen(s)].switch_count + it[Others(s)]]
<1>1. Total(f, S) = (CHOOSE it : Is(it))[S]
  BY DEF Total, MapThenSumSet, MapThenFoldSet, Chosen, Others
<1>2. \A s \in SUBSET S : s # {} => g[Chosen(s)] = f[Chosen(s)].switch_count
  BY ChosenIn
<1>3. ASSUME NEW it
      PROVE  Is(it) <=> IsSum(g, SUBSET S, it)
  <2>1. [s \in SUBSET S |->
           IF s = {} THEN 0 ELSE f[Chosen(s)].switch_count + it[Others(s)]]
          = [s \in SUBSET S |-> IF s = {} THEN 0 ELSE g[Chosen(s)] + it[Others(s)]]
    BY <1>2
  <2> QED
    BY <2>1 DEF IsSum
<1>4. (CHOOSE it : Is(it)) = (CHOOSE it : IsSum(g, SUBSET S, it))
  <2> HIDE DEF Is
  <2> QED
    BY <1>3
<1> QED
  BY <1>1, <1>4 DEF SumOf

LEMMA TotalGrows ==
  ASSUME NEW S, IsFiniteSet(S), NEW f, NEW h, NEW z \in S,
         \A x \in S : f[x].switch_count \in Nat /\ h[x].switch_count \in Nat,
         \A x \in S : x # z => h[x].switch_count = f[x].switch_count
  PROVE  /\ Total(f, S) \in Int
         /\ Total(h, S) = Total(f, S) + (h[z].switch_count - f[z].switch_count)
<1> PICK F : F = [x \in S |-> f[x].switch_count]
  OBVIOUS
<1> PICK H : H = [x \in S |-> h[x].switch_count]
  OBVIOUS
<1>1. F \in [S -> Int] /\ H \in [S -> Int] /\ \A x \in S : x # z => H[x] = F[x]
  OBVIOUS
<1>2. SumOf(F, S)[S] \in Int /\ SumOf(H, S)[S] = SumOf(F, S)[S] + (H[z] - F[z])
  BY <1>1, SumChange
<1>3. Total(f, S) = SumOf(F, S)[S] /\ Total(h, S) = SumOf(H, S)[S]
  BY TotalIs
<1> QED
  BY <1>2, <1>3

LEMMA TotalSame ==
  ASSUME NEW S, IsFiniteSet(S), NEW f, NEW h,
         \A x \in S : h[x].switch_count = f[x].switch_count
  PROVE  Total(h, S) = Total(f, S)
<1> PICK F : F = [x \in S |-> f[x].switch_count]
  OBVIOUS
<1>1. F = [x \in S |-> h[x].switch_count]
  OBVIOUS
<1>2. Total(f, S) = SumOf(F, S)[S] /\ Total(h, S) = SumOf(F, S)[S]
  BY <1>1, TotalIs
<1> QED
  BY <1>2

LEMMA NodesFinite == IsFiniteSet(Scheds) /\ IsFiniteSet(Workers)
<1>1. IsFiniteSet(Sids)
  <2>1. MaxScheds - 1 \in Int
    BY BoundsAssumption
  <2> QED
    BY <2>1, FS_Interval DEF Sids
<1>2. IsFiniteSet(Wids)
  <2>1. MaxWorkers - 1 \in Int
    BY BoundsAssumption
  <2> QED
    BY <2>1, FS_Interval DEF Wids
<1>3. IsFiniteSet(Tasks)
  BY StatsAssumption
<1> QED
  BY <1>1, <1>2, <1>3, FS_Product DEF Scheds, Workers

LEMMA SchedsGrow ==
  ASSUME NEW f, NEW h, NEW s \in Scheds,
         \A x \in Scheds : f[x].switch_count \in Nat /\ h[x].switch_count \in Nat,
         \A x \in Scheds : x # s => h[x].switch_count = f[x].switch_count
  PROVE  /\ Total(f, Scheds) \in Int
         /\ Total(h, Scheds) = Total(f, Scheds) + (h[s].switch_count - f[s].switch_count)
<1>1. IsFiniteSet(Scheds)
  BY NodesFinite
<1> QED
  BY <1>1, TotalGrows

LEMMA WorkersGrow ==
  ASSUME NEW f, NEW h, NEW w \in Workers,
         \A x \in Workers : f[x].switch_count \in Nat /\ h[x].switch_count \in Nat,
         \A x \in Workers : x # w => h[x].switch_count = f[x].switch_count
  PROVE  /\ Total(f, Workers) \in Int
         /\ Total(h, Workers) = Total(f, Workers) + (h[w].switch_count - f[w].switch_count)
<1>1. IsFiniteSet(Workers)
  BY NodesFinite
<1> QED
  BY <1>1, TotalGrows

\* A switch is counted once on either side.
LEMMA SwitchKeepsBalance ==
  ASSUME StatsType, OopsOnlyAtWrap, SwitchesBalance, ~ oops,
         NEW s \in Scheds, NEW w \in Workers, CountSwitch(s, w)
  PROVE  SwitchesBalance'
<1> PICK m : m = CountRange
  OBVIOUS
<1> PICK j \in Nat : j = sched_stats[s].switch_count
  BY DEF StatsType, SchedStats
<1> PICK k \in Nat : k = worker_stats[w].switch_count
  BY DEF StatsType, WorkerStats
<1> PICK a : a = Total(sched_stats, Scheds)
  OBVIOUS
<1> PICK b : b = Total(worker_stats, Workers)
  OBVIOUS
<1>1. m \in Nat /\ m > 0
  BY Ranges
<1>2. /\ sched_stats' \in [Scheds -> SchedStats]
      /\ \A r \in Scheds : r # s => sched_stats'[r] = sched_stats[r]
      /\ sched_stats'[s].switch_count = (j + 1) % m
  <2> PICK took : took = (clock' - clock) % TimeRange
    OBVIOUS
  <2>1. sched_stats'[s] = AfterSwitch(sched_stats[s], switched[s], took)
    BY SwitchedStats
  <2>2. sched_stats'[s].switch_count = Counted(sched_stats[s].switch_count)
    BY <2>1 DEF AfterSwitch
  <2> QED
    BY <2>2, SwitchedStats DEF Counted, CountRange
<1>3. /\ worker_stats' \in [Workers -> WorkerStats]
      /\ \A v \in Workers : v # w => worker_stats'[v] = worker_stats[v]
      /\ worker_stats'[w].switch_count = (k + 1) % m
  BY StartedStats DEF CountSwitch
<1>4. a \in Int /\ Total(sched_stats', Scheds) = a + StepFrom(j, m)
  <2>1. \A r \in Scheds : /\ sched_stats[r].switch_count \in Nat
                          /\ sched_stats'[r].switch_count \in Nat
                          /\ r # s => sched_stats'[r].switch_count = sched_stats[r].switch_count
    BY <1>2 DEF StatsType, SchedStats
  <2>2. /\ Total(sched_stats, Scheds) \in Int
        /\ Total(sched_stats', Scheds) =
             Total(sched_stats, Scheds)
               + (sched_stats'[s].switch_count - sched_stats[s].switch_count)
    <3> PICK f : f = sched_stats
      OBVIOUS
    <3> PICK h : h = sched_stats'
      OBVIOUS
    <3>1. \A r \in Scheds : f[r].switch_count \in Nat /\ h[r].switch_count \in Nat
      BY <2>1
    <3>2. \A r \in Scheds : r # s => h[r].switch_count = f[r].switch_count
      BY <2>1
    <3>3. /\ Total(f, Scheds) \in Int
          /\ Total(h, Scheds) = Total(f, Scheds) + (h[s].switch_count - f[s].switch_count)
      BY <3>1, <3>2, SchedsGrow
    <3> QED
      BY <3>3
  <2> QED
    BY <1>2, <2>2 DEF StepFrom
<1>5. b \in Int /\ Total(worker_stats', Workers) = b + StepFrom(k, m)
  <2>1. \A v \in Workers : /\ worker_stats[v].switch_count \in Nat
                           /\ worker_stats'[v].switch_count \in Nat
                           /\ v # w => worker_stats'[v].switch_count = worker_stats[v].switch_count
    BY <1>3 DEF StatsType, WorkerStats
  <2>2. /\ Total(worker_stats, Workers) \in Int
        /\ Total(worker_stats', Workers) =
             Total(worker_stats, Workers)
               + (worker_stats'[w].switch_count - worker_stats[w].switch_count)
    <3> PICK f : f = worker_stats
      OBVIOUS
    <3> PICK h : h = worker_stats'
      OBVIOUS
    <3>1. \A v \in Workers : f[v].switch_count \in Nat /\ h[v].switch_count \in Nat
      BY <2>1
    <3>2. \A v \in Workers : v # w => h[v].switch_count = f[v].switch_count
      BY <2>1
    <3>3. /\ Total(f, Workers) \in Int
          /\ Total(h, Workers) = Total(f, Workers) + (h[w].switch_count - f[w].switch_count)
      BY <3>1, <3>2, WorkersGrow
    <3> QED
      BY <3>3
  <2> QED
    BY <1>3, <2>2 DEF StepFrom
<1>6. a % m = b % m
  BY BalanceIs
<1>7. j \in Int /\ k \in Int
  OBVIOUS
<1>8. (a + StepFrom(j, m)) % m = (b + StepFrom(k, m)) % m
  <2>1. a \in Int /\ b \in Int
    BY <1>4, <1>5
  <2> QED
    BY <1>1, <1>6, <1>7, <2>1, ModCount
<1>9. Total(sched_stats', Scheds) % CountRange = Total(worker_stats', Workers) % CountRange
  <2> PICK next : next = a + StepFrom(j, m)
    OBVIOUS
  <2> PICK then : then = b + StepFrom(k, m)
    OBVIOUS
  <2>1. next % m = then % m
    BY <1>8
  <2>2. Total(sched_stats', Scheds) = next /\ Total(worker_stats', Workers) = then
    BY <1>4, <1>5
  <2> QED
    BY <2>1, <2>2
<1> QED
  BY <1>9, BalanceIsNext

LEMMA CountsSameBalance ==
  ASSUME SwitchesBalance,
         \A s \in Scheds : sched_stats'[s].switch_count = sched_stats[s].switch_count,
         \A w \in Workers : worker_stats'[w].switch_count = worker_stats[w].switch_count
  PROVE  SwitchesBalance'
<1>1. /\ Total(sched_stats', Scheds) = Total(sched_stats, Scheds)
      /\ Total(worker_stats', Workers) = Total(worker_stats, Workers)
  BY NodesFinite, TotalSame
<1> QED
  BY <1>1, BalanceIs, BalanceIsNext

-----------------------------------------------------------------------------
(* The invariant *)

LEMMA StatsStart == StatsInit => StatsInv
<1> SUFFICES ASSUME StatsInit PROVE StatsInv
  OBVIOUS
<1>1. OwnInv
  BY OwnInit DEF StatsInit
<1>2. StatsType
  <2>1. 0 \in Times /\ 0 \in 0 .. TimeRange - 1 /\ 0 \in 0 .. CountRange
    BY Ranges, StatsAssumption DEF Times
  <2> QED
    BY <2>1 DEF StatsInit, StatsType, SchedStats, WorkerStats
<1>3. \A w \in Workers : RunTimed(w)
  <2>1. Running = {}
    BY BoundsAssumption
    DEF StatsInit, Init, NoProcess, Running, WorkerExists, Workers, Wids
  <2> QED
    BY <2>1 DEF StatsInit, RunTimed
<1>4. \A s \in Scheds : SwitchTimed(s)
  BY Ranges DEF StatsInit, SwitchTimed
<1>5. OopsOnlyAtWrap
  <2>1. 0 % CountRange = 0
    <3>1. 0 \in 0 .. CountRange - 1
      BY Ranges
    <3> QED
      BY <3>1, Ranges, ModSmall
  <2>2. ~ oops /\ \A s \in Scheds : switched[s] # CountRange
    BY Ranges DEF StatsInit
  <2>3. \A s \in Scheds : sched_stats[s].switch_count = switched[s] % CountRange
    BY <2>1 DEF StatsInit
  <2> QED
    BY <2>2, <2>3 DEF OopsOnlyAtWrap, CountRange
<1>6. SwitchesBalance
  <2> PICK F : F = [s \in Scheds |-> sched_stats[s].switch_count]
    OBVIOUS
  <2> PICK H : H = [w \in Workers |-> worker_stats[w].switch_count]
    OBVIOUS
  <2>1. (\A s \in Scheds : F[s] = 0) /\ (\A w \in Workers : H[w] = 0)
    BY DEF StatsInit
  <2>2. SumOf(F, Scheds)[Scheds] = 0 /\ SumOf(H, Workers)[Workers] = 0
    BY <2>1, NodesFinite, SumOfZeros
  <2>3. Total(sched_stats, Scheds) = 0 /\ Total(worker_stats, Workers) = 0
    BY <2>2, NodesFinite, TotalIs
  <2> QED
    BY <2>3, BalanceIs
<1> QED
  BY <1>1, <1>2, <1>3, <1>4, <1>5, <1>6 DEF StatsInv

\* The statistics' part of the invariant.
StatsPart ==
  /\ StatsType
  /\ \A w \in Workers : RunTimed(w)
  /\ \A s \in Scheds : SwitchTimed(s)
  /\ OopsOnlyAtWrap
  /\ SwitchesBalance

LEMMA SteadyKeeps ==
  ASSUME StatsPart, Steady
  PROVE  StatsPart'
<1>1. UNCHANGED <<clock, sets, sched_stats, worker_stats, oops, ran, switched, disturbed>>
      /\ Running' = Running
  BY DEF Steady, stats
<1>2. StatsType' /\ OopsOnlyAtWrap'
  BY <1>1 DEF StatsPart, StatsType, OopsOnlyAtWrap
<1>3. \A w \in Workers : RunTimed(w)'
  BY <1>1 DEF StatsPart, RunTimed
<1>4. \A s \in Scheds : SwitchTimed(s)'
  BY <1>1 DEF StatsPart, SwitchTimed
<1>5. SwitchesBalance'
  BY <1>1, CountsSameBalance DEF StatsPart
<1> QED
  BY <1>2, <1>3, <1>4, <1>5 DEF StatsPart

LEMMA StartsKeeps ==
  ASSUME StatsPart, ~ oops, Starts
  PROVE  StatsPart'
<1> PICK s \in Scheds, w \in Workers \ Running :
      Running' = Running \cup {w} /\ CountSwitch(s, w)
  BY DEF Starts
<1> PICK busy : busy = Running \cup {w}
  OBVIOUS
<1>1. StatsType /\ OopsOnlyAtWrap /\ SwitchesBalance
  BY DEF StatsPart
<1>2. /\ worker_stats' \in [Workers -> WorkerStats]
      /\ worker_stats'[w].total_exec_time = worker_stats[w].total_exec_time
      /\ worker_stats'[w].time_of_the_last_switch = clock
      /\ \A v \in Workers : v # w => worker_stats'[v] = worker_stats[v]
  BY <1>1, StartedStats DEF CountSwitch
<1>3. Set(busy, {s}) \/ \E d \in 0 .. MaxSwitch : Elapse(d, busy)
  BY DEF CountSwitch
<1>4. \A d \in 0 .. MaxSwitch : d \in Nat
  OBVIOUS
<1>5. StatsType'
  <2>1. clock' \in Times /\ ran' \in [Workers -> 0 .. TimeRange - 1]
    BY <1>1, <1>3, <1>4, Elapsed, WasSet DEF StatsType
  <2>2. oops' \in BOOLEAN /\ sched_stats' \in [Scheds -> SchedStats]
        /\ switched' \in [Scheds -> 0 .. CountRange]
    BY <1>1, SwitchedStats
  <2> QED
    BY <1>2, <2>1, <2>2 DEF StatsType
<1>6. ASSUME NEW v \in Workers
      PROVE  RunTimed(v)'
  <2>1. RunTimed(v)
    BY DEF StatsPart
  <2>2. CASE Set(busy, {s})
    <3>1. CASE v \in busy
      BY <2>2, <3>1, WasSet DEF RunTimed
    <3>2. CASE v \notin busy
      <4>1. /\ ran'[v] = ran[v] /\ disturbed \subseteq disturbed'
            /\ worker_stats'[v] = worker_stats[v]
        BY <1>2, <2>2, <3>2, WasSet
      <4> QED
        BY <2>1, <3>2, <4>1, RestingOn
    <3> QED
      BY <3>1, <3>2
  <2>3. ASSUME NEW d \in Nat, Elapse(d, busy)
        PROVE  RunTimed(v)'
    <3>1. /\ clock' = clock + d /\ disturbed' = disturbed
          /\ ran'[v] = IF v \in busy THEN (ran[v] + d) % TimeRange ELSE ran[v]
      BY <1>1, <2>3, Elapsed
    <3>2. CASE v = w
      <4> PICK n \in WorkerStats : n = worker_stats[w]
        BY <1>1 DEF StatsType
      <4>1. ran'[w] = (ran[w] + d) % TimeRange
        BY <3>1, <3>2
      <4>2. CASE <<"worker", w>> \notin disturbed
        <5>1. ran[w] = n.total_exec_time
          BY <2>1, <3>2, <4>2 DEF RunTimed
        <5>2. clock' - clock = d
          BY <1>1, <3>1, Ranges DEF StatsType
        <5>3. ran'[w] = (worker_stats'[w].total_exec_time
                  + (clock' - worker_stats'[w].time_of_the_last_switch)) % TimeRange
          BY <1>2, <4>1, <5>1, <5>2
        <5> QED
          BY <3>2, <5>3 DEF RunTimed
      <4>3. CASE <<"worker", w>> \in disturbed
        BY <3>1, <3>2, <4>3 DEF RunTimed
      <4> QED
        BY <4>2, <4>3
    <3>3. CASE v # w /\ v \in Running
      <4>1. /\ ran'[v] = (ran[v] + d) % TimeRange /\ worker_stats'[v] = worker_stats[v]
            /\ v \in Running'
        BY <1>2, <3>1, <3>3
      <4> QED
        BY <1>1, <2>1, <3>1, <3>3, <4>1, RunningOn
    <3>4. CASE v # w /\ v \notin Running
      <4>1. /\ ran'[v] = ran[v] /\ worker_stats'[v] = worker_stats[v] /\ v \notin Running'
        BY <1>2, <3>1, <3>4
      <4> QED
        BY <2>1, <3>1, <3>4, <4>1, RestingOn
    <3> QED
      BY <3>2, <3>3, <3>4
  <2> QED
    BY <1>3, <1>4, <2>2, <2>3
<1>7. ASSUME NEW r \in Scheds
      PROVE  SwitchTimed(r)'
  <2>1. SwitchTimed(r)
    BY DEF StatsPart
  <2>2. CASE r = s
    BY <1>1, <2>1, <2>2, SwitchIsTimed
  <2>3. CASE r # s
    <3>1. sched_stats'[r] = sched_stats[r] /\ switched'[r] = switched[r]
      BY <1>1, <2>3, SwitchedStats DEF StatsType
    <3>2. disturbed \subseteq disturbed'
      BY <1>3, WasSet DEF Elapse
    <3> QED
      BY <2>1, <3>1, <3>2 DEF SwitchTimed
  <2> QED
    BY <2>2, <2>3
<1>8. OopsOnlyAtWrap' /\ SwitchesBalance'
  BY <1>1, WrapIsOops, SwitchKeepsBalance
<1> QED
  BY <1>5, <1>6, <1>7, <1>8 DEF StatsPart

LEMMA StopsKeeps ==
  ASSUME StatsPart, Stops
  PROVE  StatsPart'
<1> PICK w \in Running :
      /\ Running' = Running \ {w}
      /\ worker_stats' = [worker_stats EXCEPT ![w] = Executed(@)]
      /\ UNCHANGED <<clock, sets, sched_stats, oops, ran, switched, disturbed>>
  BY DEF Stops
<1>1. w \in Workers /\ StatsType
  BY DEF Running, StatsPart
<1>2. /\ worker_stats' \in [Workers -> WorkerStats]
      /\ worker_stats'[w].total_exec_time =
           (worker_stats[w].total_exec_time
              + (clock - worker_stats[w].time_of_the_last_switch)) % TimeRange
      /\ \A v \in Workers : worker_stats'[v].switch_count = worker_stats[v].switch_count
      /\ \A v \in Workers : v # w => worker_stats'[v] = worker_stats[v]
  BY <1>1, StoppedStats
<1>3. StatsType' /\ OopsOnlyAtWrap'
  BY <1>2 DEF StatsPart, StatsType, OopsOnlyAtWrap
<1>4. ASSUME NEW v \in Workers
      PROVE  RunTimed(v)'
  <2>1. RunTimed(v)
    BY DEF StatsPart
  <2>2. CASE v = w
    BY <1>2, <2>1, <2>2 DEF RunTimed
  <2>3. CASE v # w
    BY <1>2, <2>1, <2>3 DEF RunTimed
  <2> QED
    BY <2>2, <2>3
<1>5. \A s \in Scheds : SwitchTimed(s)'
  BY DEF StatsPart, SwitchTimed
<1>6. SwitchesBalance'
  BY <1>2, CountsSameBalance DEF StatsPart
<1> QED
  BY <1>3, <1>4, <1>5, <1>6 DEF StatsPart

LEMMA PassesKeeps ==
  ASSUME StatsPart, Passes
  PROVE  StatsPart'
<1>1. /\ Running' = Running /\ Running \subseteq Workers
      /\ UNCHANGED <<sched_stats, worker_stats, oops, switched>> /\ StatsType
  BY DEF Passes, StatsPart, Running
<1>2. /\ clock' \in Times /\ ran' \in [Workers -> 0 .. TimeRange - 1]
      /\ disturbed \subseteq disturbed'
  <2>1. CASE Elapse(1, Running)
    BY <1>1, <2>1, Elapsed
  <2>2. CASE Set(Running, {})
    BY <1>1, <2>2, WasSet DEF StatsType
  <2> QED
    BY <2>1, <2>2 DEF Passes
<1>3. StatsType' /\ OopsOnlyAtWrap'
  BY <1>1, <1>2 DEF StatsPart, StatsType, OopsOnlyAtWrap
<1>4. ASSUME NEW v \in Workers
      PROVE  RunTimed(v)'
  <2>1. RunTimed(v)
    BY DEF StatsPart
  <2>2. CASE Elapse(1, Running)
    <3>1. /\ clock' = clock + 1 /\ disturbed' = disturbed
          /\ ran'[v] = IF v \in Running THEN (ran[v] + 1) % TimeRange ELSE ran[v]
      BY <1>1, <2>2, Elapsed
    <3>2. CASE v \in Running
      BY <1>1, <2>1, <3>1, <3>2, RunningOn
    <3>3. CASE v \notin Running
      BY <1>1, <2>1, <3>1, <3>3, RestingOn
    <3> QED
      BY <3>2, <3>3
  <2>3. CASE Set(Running, {})
    <3>1. CASE v \in Running
      BY <2>3, <3>1, WasSet DEF RunTimed
    <3>2. CASE v \notin Running
      BY <1>1, <2>1, <2>3, <3>2, WasSet, RestingOn
    <3> QED
      BY <3>1, <3>2
  <2> QED
    BY <2>2, <2>3 DEF Passes
<1>5. \A s \in Scheds : SwitchTimed(s)'
  BY <1>1, <1>2 DEF StatsPart, SwitchTimed
<1>6. SwitchesBalance'
  BY <1>1, CountsSameBalance DEF StatsPart
<1> QED
  BY <1>3, <1>4, <1>5, <1>6 DEF StatsPart

LEMMA StatsStep ==
  ASSUME StatsInv, [StatsNext]_all
  PROVE  StatsInv'
<1>1. StatsPart /\ OwnInv
  BY DEF StatsInv, StatsPart
<1>2. CASE StatsNext
  <2>1. Moves /\ OwnInv' /\ ~ oops
    BY <1>1, <1>2, StatsMoves
  <2>2. StatsPart'
    BY <1>1, <2>1, SteadyKeeps, StartsKeeps, StopsKeeps, PassesKeeps DEF Moves
  <2> QED
    BY <2>1, <2>2 DEF StatsInv, StatsPart
<1>3. CASE UNCHANGED all
  <2>1. UNCHANGED vars /\ UNCHANGED stats /\ UNCHANGED <<process, worker>>
    BY <1>3 DEF all, vars
  <2>2. Steady
    BY <2>1, RunningSame DEF Steady
  <2>3. OwnInv' /\ StatsPart'
    BY <1>1, <2>1, <2>2, OwnStep, SteadyKeeps
  <2> QED
    BY <2>3 DEF StatsInv, StatsPart
<1> QED
  BY <1>2, <1>3

\* A worker that is not running has a total_exec_time of exactly the time it ran,
\* whichever schedulers executed it, unless the clock was set meanwhile.
THEOREM TotalIsTimeRun == StatsSpec => []ExecTimeIsTimeRun
<1>1. StatsInv => ExecTimeIsTimeRun
  BY DEF StatsInv, RunTimed, ExecTimeIsTimeRun
<1> QED
  BY <1>1, StatsStart, StatsStep, PTL DEF StatsSpec

\* The switches that schedulers count are those that workers count, modulo the
\* width of the counters.
THEOREM SwitchesAgree == StatsSpec => []SwitchesBalance
<1>1. StatsInv => SwitchesBalance
  BY DEF StatsInv
<1> QED
  BY <1>1, StatsStart, StatsStep, PTL DEF StatsSpec

\* A handler divides by zero exactly when its scheduler's count wraps; until then
\* the count is the number of switches.
THEOREM DividesByZeroAtWrap == StatsSpec => []OopsOnlyAtWrap
<1>1. StatsInv => OopsOnlyAtWrap
  BY DEF StatsInv
<1> QED
  BY <1>1, StatsStart, StatsStep, PTL DEF StatsSpec

\* The last and the average time of a scheduler's switches are at most that of
\* the longest, unless the clock was set within one.
THEOREM AverageIsBounded == StatsSpec => []AverageIsOfSwitches
<1>1. StatsInv => AverageIsOfSwitches
  BY DEF StatsInv, SwitchTimed, AverageIsOfSwitches
<1> QED
  BY <1>1, StatsStart, StatsStep, PTL DEF StatsSpec
=============================================================================
