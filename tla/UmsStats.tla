------------------------------ MODULE UmsStats ------------------------------
(***************************************************************************)
(* The statistics that execute_thread and thread_yield keep next to a      *)
(* switch (src/src/module/ums_api.c) and that /proc/ums shows: how often a *)
(* scheduler and a worker were switched, how long the switches took, how   *)
(* long the worker ran.  The module is used as UmsClient says, while the   *)
(* wall clock, which all times are read from, goes on and may be set.      *)
(*                                                                         *)
(* switch_count is CountBits wide (32 in the code) and times are           *)
(* differences of TimeBits (64).  ran, switched and disturbed are no       *)
(* state of the code: they are what the statistics should say.             *)
(***************************************************************************)
EXTENDS UmsClient

CONSTANTS
  CountBits,    \* width of switch_count
  TimeBits,     \* width of a time
  MaxTime,      \* bound: the latest time the clock shows
  MaxSwitch,    \* how long a switch may take
  MaxSets       \* bound: how often the clock is set

\* That a power of 2 is a positive natural is written down for the proofs, which
\* have no axioms of powers; the sums of SwitchesBalance are over finitely many.
ASSUME StatsAssumption ==
  /\ CountBits \in Nat /\ TimeBits \in Nat /\ MaxTime \in Nat
  /\ MaxSwitch \in Nat /\ MaxSets \in Nat
  /\ MaxTime < 2 ^ TimeBits
  /\ {2 ^ CountBits, 2 ^ TimeBits} \subseteq Nat \ {0}
  /\ IsFiniteSet(Tasks)

VARIABLES
  clock,        \* ktime_get_real_ts64
  sets,         \* how often it has been set
  sched_stats,  \* the statistics of each scheduler
  worker_stats, \* the statistics of each worker
  oops,         \* TRUE once a handler divided by zero
  ran,          \* how long each worker has been RUNNING, as wide as a time
  switched,     \* how often each scheduler has switched to a worker
  disturbed     \* the workers that were RUNNING, and the schedulers that were
                \* in a switch, when the clock was set

stats == <<clock, sets, sched_stats, worker_stats, oops, ran, switched, disturbed>>
all   == <<vars, stats>>

Times   == 0 .. MaxTime
Running == {w \in Workers : WorkerExists(w) /\ worker[w].state = "RUNNING"}

StatsInit ==
  /\ Init
  /\ clock = 0 /\ sets = 0
  /\ sched_stats = [s \in Scheds |-> [switch_count |-> 0, avg_switch_time |-> 0,
                                      last |-> 0, total |-> 0]]
  /\ worker_stats = [w \in Workers |-> [switch_count |-> 0, total_exec_time |-> 0,
                                        time_of_the_last_switch |-> 0]]
  /\ oops = FALSE
  /\ ran = [w \in Workers |-> 0]
  /\ switched = [s \in Scheds |-> 0]
  /\ disturbed = {}

-----------------------------------------------------------------------------
\* switch_count++
Counted(n) == (n + 1) % 2 ^ CountBits

\* get_exec_time, between two readings of the clock.
ExecTime(prev, cur) == (cur - prev) % 2 ^ TimeBits

\* Mutant of Divisor: the count before it was incremented.
DivisorBefore(n) == n

\* What the total time is divided by, n switches having been counted before.
Divisor(n) == Counted(n)

\* Mutant of SwitchTime: the handler's first reading of the clock forgotten, and
\* that of the worker's last switch taken.
SwitchTimeOfWorker(w, cur) == ExecTime(worker_stats[w].time_of_the_last_switch, cur)

\* How long the switch to w took, when it ends at cur.
SwitchTime(w, cur) == ExecTime(clock, cur)

\* Mutant of SwitchedTo: the worker counted once.
SwitchedToOnce(n) ==
  [n EXCEPT !.switch_count = 1, !.time_of_the_last_switch = clock]

\* What execute_thread does to a worker's statistics.
SwitchedTo(n) ==
  [n EXCEPT !.switch_count = Counted(@), !.time_of_the_last_switch = clock]

\* Mutant of Executed: only the last time it was hosted.
ExecutedLast(n) ==
  [n EXCEPT !.total_exec_time = ExecTime(n.time_of_the_last_switch, clock)]

\* What thread_yield adds to a worker's statistics.
Executed(n) ==
  [n EXCEPT !.total_exec_time =
     (@ + ExecTime(n.time_of_the_last_switch, clock)) % 2 ^ TimeBits]

The(kind, nodes) == {<<kind, node>> : node \in nodes}

\* d units of time pass, in which the workers in busy run.
Elapse(d, busy) ==
  /\ clock + d \in Times
  /\ clock' = clock + d
  /\ ran' = [w \in Workers |-> IF w \in busy THEN (ran[w] + d) % 2 ^ TimeBits
                                              ELSE ran[w]]
  /\ UNCHANGED <<sets, disturbed>>

\* settimeofday, or the network time protocol, on any processor, while the
\* workers in busy run and the schedulers in switching switch.
Set(busy, switching) ==
  /\ sets < MaxSets
  /\ \E now \in Times \ {clock} : clock' = now
  /\ sets' = sets + 1
  /\ disturbed' = disturbed \cup The("worker", busy) \cup The("scheduler", switching)
  /\ UNCHANGED ran

\* execute_thread: the clock is read on the way in for s and for w, and on the
\* way out for s, when s has saved its registers and taken those of w; then the
\* average, by a count that may have become 0.
CountSwitch(s, w) ==
  LET n     == sched_stats[s]
      took  == SwitchTime(w, clock')
      total == (n.total + took) % 2 ^ TimeBits
      div   == Divisor(n.switch_count)
      busy  == Running \cup {w}
  IN
  /\ Set(busy, {s}) \/ \E d \in 0 .. MaxSwitch : Elapse(d, busy)
  /\ worker_stats' = [worker_stats EXCEPT ![w] = SwitchedTo(@)]
  /\ sched_stats' = [sched_stats EXCEPT ![s] =
       [switch_count    |-> Counted(n.switch_count),
        avg_switch_time |-> IF div = 0 THEN n.avg_switch_time ELSE total \div div,
        last            |-> took,
        total           |-> total]]
  /\ oops' = (div = 0)
  /\ switched' = [switched EXCEPT ![s] = @ + 1]

CountedScheduler(t) ==
  /\ SchedulerCode(t)
  /\ IF worker' = worker
     THEN UNCHANGED stats
     ELSE \E s \in Scheds : RunBy(s, t) /\ CountSwitch(s, <<s[1], scheduler'[s].wid>>)

\* thread_yield
CountedWorker(t) ==
  /\ WorkerCode(t)
  /\ IF worker' = worker
     THEN UNCHANGED stats
     ELSE \E s \in Scheds :
            /\ RunBy(s, t)
            /\ worker_stats' = [worker_stats EXCEPT
                 ![<<s[1], scheduler[s].wid>>] = Executed(@)]
            /\ UNCHANGED <<clock, sets, sched_stats, oops, ran, switched, disturbed>>

Tick ==
  /\ Elapse(1, Running)
  /\ UNCHANGED <<vars, sched_stats, worker_stats, oops, switched>>

SetClock ==
  /\ Set(Running, {})
  /\ UNCHANGED <<vars, sched_stats, worker_stats, oops, switched>>

\* A refused request changes no statistics, and is left out.  A divide error in a
\* handler leaves the spinlock taken: no request follows.
StatsNext ==
  /\ ~ undef /\ ~ oops
  /\ \/ /\ \E t \in Tasks :
             \/ (MainCode(t) \/ PthreadCode(t)) /\ UNCHANGED stats
             \/ CountedScheduler(t)
             \/ CountedWorker(t)
        /\ reply'.err = "SUCCESS"
     \/ Tick
     \/ SetClock

StatsSpec == StatsInit /\ [][StatsNext]_all

-----------------------------------------------------------------------------
(* Properties *)

\* A worker that is not running has a total_exec_time of exactly the time it has
\* been RUNNING, on whichever schedulers and in however many pieces, unless the
\* clock was set meanwhile.
ExecTimeIsTimeRun ==
  \A w \in Workers \ Running :
    <<"worker", w>> \in disturbed \/ worker_stats[w].total_exec_time = ran[w]

\* The switches counted by schedulers are the switches counted by workers, as
\* far as their width can tell.
SwitchesBalance ==
  MapThenSumSet(LAMBDA s : sched_stats[s].switch_count, Scheds) % 2 ^ CountBits =
    MapThenSumSet(LAMBDA w : worker_stats[w].switch_count, Workers) % 2 ^ CountBits

\* A handler divides by zero only when the counter of its scheduler wraps, so
\* that a scheduler's count, as long as one is shown, is the true one.
OopsOnlyAtWrap ==
  /\ oops <=> \E s \in Scheds : switched[s] = 2 ^ CountBits
  /\ \A s \in Scheds : sched_stats[s].switch_count = switched[s] % 2 ^ CountBits

\* A switch is timed within its handler: neither what happens between switches
\* nor a clock that was set there gets into the average.
AverageIsOfSwitches ==
  \A s \in Scheds :
    \/ <<"scheduler", s>> \in disturbed
    \/ /\ sched_stats[s].last <= MaxSwitch
       /\ sched_stats[s].avg_switch_time <= MaxSwitch
=============================================================================
