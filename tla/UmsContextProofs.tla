-------------------------- MODULE UmsContextProofs --------------------------
(***************************************************************************)
(* No register snapshot of UmsApi is ever duplicated, for every set of     *)
(* tasks, every bound and every choice of failing services.                *)
(*                                                                         *)
(* A task, a scheduler that waits for its worker and an idle worker each   *)
(* hold the context of some code.  A switch passes contexts round between  *)
(* three holders (Rotation); what else changes a holder gives it code that *)
(* nobody holds (Fresh).  The last is where the invariant needs more: the  *)
(* code of a new node is new because held code exists (HeldExists), and    *)
(* exit_scheduling_mode resumes the pthread's own code, which by then only *)
(* its scheduler could hold (OwnWhere, HomeIsOwn, HostIsAway).             *)
(***************************************************************************)
EXTENDS UmsOwnsProofs

\* Node x of the given kind holds the context of code c.
Holds(kind, x, c) ==
  \/ kind = "task" /\ x \in Tasks /\ c = CodeOf(regs[x])
  \/ kind = "scheduler" /\ x \in Scheds /\ Names(x) /\ c = CodeOf(scheduler[x].regs)
  \/ /\ kind = "worker" /\ x \in Workers /\ WorkerExists(x)
     /\ worker[x].state = "IDLE" /\ c = CodeOf(worker[x].regs)

OwnCode(t)   == <<"own", t>>
SchedCode(s) == <<"scheduler", s>>
WorkCode(w)  == <<"worker", w>>

Distinct ==
  \A k, x, l, y, c : Holds(k, x, c) /\ Holds(l, y, c) => k = l /\ x = y

\* Code that is held is that of a node that exists.
HeldExists ==
  /\ \A k, x : \A s \in Scheds : Holds(k, x, SchedCode(s)) => SchedExists(s)
  /\ \A k, x : \A w \in Workers : Holds(k, x, WorkCode(w)) => WorkerExists(w)

\* The code of a pthread is held by the pthread, or by its scheduler.
OwnWhere ==
  \A k, x : \A t \in Tasks : Holds(k, x, OwnCode(t)) =>
    (k = "task" /\ x = t) \/ (k = "scheduler" /\ RunBy(x, t))

\* A scheduler that a lookup finds was entered from the pthread's own code, if
\* its registers were saved at all ...
HomeIsOwn ==
  \A s \in Scheds, t \in Tasks : RunBy(s, t) => scheduler[s].home \in {Own(t), Garbage}

\* ... because a pthread without a scheduler is in its own code.
OwnBefore ==
  \A t \in Tasks :
    (\A s \in Scheds : s[1] = Tgid[t] /\ SchedExists(s) => scheduler[s].pid # t)
      => regs[t] = Own(t)

\* While its scheduler names a worker, a pthread is not in its own code.
HostIsAway ==
  \A s \in Scheds, t \in Tasks :
    RunBy(s, t) /\ Names(s) => CodeOf(regs[t]) # OwnCode(t)

Provenance == HeldExists /\ OwnWhere /\ HomeIsOwn /\ OwnBefore /\ HostIsAway

CtxInv == OwnInv /\ Distinct /\ Provenance

-----------------------------------------------------------------------------
\* The invariant speaks of what ContextsNotDuplicated speaks of.
LEMMA HoldersHold ==
  ASSUME NEW h \in Holders
  PROVE  Holds(h[1], h[2], CodeOf(ContextOf(h)))
<1>1. CASE \E t \in Tasks : h = <<"task", t>>
  BY <1>1 DEF Holds, ContextOf
<1>2. CASE \E s \in Scheds : scheduler[s].wid # NoId /\ h = <<"scheduler", s>>
  BY <1>2 DEF Holds, ContextOf, Names
<1>3. CASE \E w \in Workers : /\ WorkerExists(w) /\ worker[w].state = "IDLE"
                              /\ h = <<"worker", w>>
  BY <1>3 DEF Holds, ContextOf
<1> QED
  BY <1>1, <1>2, <1>3 DEF Holders

LEMMA DistinctIsEnough ==
  ASSUME Distinct
  PROVE  ContextsNotDuplicated
<1> SUFFICES ASSUME NEW h \in Holders, NEW k \in Holders,
                    CodeOf(ContextOf(h)) = CodeOf(ContextOf(k))
             PROVE  h = k
  BY DEF ContextsNotDuplicated
<1>1. h[1] = k[1] /\ h[2] = k[2]
  BY HoldersHold DEF Distinct
<1>2. h = <<h[1], h[2]>> /\ k = <<k[1], k[2]>>
  BY DEF Holders
<1> QED
  BY <1>1, <1>2

\* Loading a context does not change whose code it is.
LEMMA EnteredCode == \A ctx : CodeOf(Entered(ctx)) = CodeOf(ctx)
  BY DEF CodeOf, Entered

\* Contexts are passed round: p takes what q held, r takes what p held, and q
\* holds nothing any more, or is the one p or r that took something.
Rotates(pk, px, qk, qx, rk, rx) ==
  \A k, x, c : Holds(k, x, c)' =>
    \/ k = pk /\ x = px /\ Holds(qk, qx, c)
    \/ k = rk /\ x = rx /\ Holds(pk, px, c)
    \/ /\ Holds(k, x, c)
       /\ ~ (k = pk /\ x = px) /\ ~ (k = qk /\ x = qx) /\ ~ (k = rk /\ x = rx)

LEMMA Rotation ==
  ASSUME Distinct,
         NEW pk, NEW px, NEW qk, NEW qx, NEW rk, NEW rx, pk # qk,
         Rotates(pk, px, qk, qx, rk, rx)
  PROVE  Distinct'
<1> SUFFICES ASSUME NEW k, NEW x, NEW l, NEW y, NEW c,
                    Holds(k, x, c)', Holds(l, y, c)'
             PROVE  k = l /\ x = y
  BY DEF Distinct
<1>1. CASE k = pk /\ x = px /\ Holds(qk, qx, c)
  BY <1>1 DEF Distinct, Rotates
<1>2. CASE k = rk /\ x = rx /\ Holds(pk, px, c)
  BY <1>2 DEF Distinct, Rotates
<1>3. CASE /\ Holds(k, x, c)
           /\ ~ (k = pk /\ x = px) /\ ~ (k = qk /\ x = qx) /\ ~ (k = rk /\ x = rx)
  BY <1>3 DEF Distinct, Rotates
<1> QED
  BY <1>1, <1>2, <1>3 DEF Rotates

\* One holder takes code that at most itself has held.
LEMMA Fresh ==
  ASSUME Distinct, NEW pk, NEW px, NEW f,
         \A k, x : Holds(k, x, f) => k = pk /\ x = px,
         \A k, x, c : Holds(k, x, c)' =>
           \/ k = pk /\ x = px /\ c = f
           \/ Holds(k, x, c) /\ ~ (k = pk /\ x = px)
  PROVE  Distinct'
  BY DEF Distinct

-----------------------------------------------------------------------------
(* Lookups by pid *)

\* A step that adds no scheduler and changes no pid changes no lookup.
LEMMA RunByKept ==
  ASSUME \A p \in Tasks : process'[p].schedulers = process[p].schedulers,
         \A s \in Scheds : scheduler'[s].pid = scheduler[s].pid
  PROVE  /\ \A s \in Scheds : SchedExists(s)' <=> SchedExists(s)
         /\ \A s \in Scheds, t \in Tasks : RunBy(s, t)' <=> RunBy(s, t)
<1>1. ASSUME NEW s \in Scheds PROVE SchedExists(s)' <=> SchedExists(s)
  BY SchedPair DEF SchedExists
<1>2. ASSUME NEW s \in Scheds, NEW t \in Tasks PROVE RunBy(s, t)' <=> RunBy(s, t)
  BY <1>1, SchedPair DEF RunBy
<1> QED
  BY <1>1, <1>2

\* What Provenance needs of such a step.
LEMMA ProvenanceKept ==
  ASSUME Provenance,
         \A p \in Tasks : process'[p].schedulers = process[p].schedulers,
         \A w \in Workers : WorkerExists(w) => WorkerExists(w)',
         \A s \in Scheds : /\ scheduler'[s].pid = scheduler[s].pid
                           /\ scheduler'[s].home = scheduler[s].home,
         \A k, x, c : Holds(k, x, c)' =>
           \/ \E l, y : Holds(l, y, c)
           \/ \E t \in Tasks : c = OwnCode(t)
           \/ \E w \in Workers : c = WorkCode(w) /\ WorkerExists(w)',
         OwnWhere', HostIsAway',
         \A t \in Tasks : regs'[t] # regs[t] =>
           \E s \in Scheds : RunBy(s, t)
  PROVE  Provenance'
<1>1. /\ \A s \in Scheds : SchedExists(s)' <=> SchedExists(s)
      /\ \A s \in Scheds, t \in Tasks : RunBy(s, t)' <=> RunBy(s, t)
  BY RunByKept
<1>2. HeldExists'
  <2>1. ASSUME NEW k, NEW x, NEW s \in Scheds, Holds(k, x, SchedCode(s))'
        PROVE  SchedExists(s)'
    <3>1. \E l, y : Holds(l, y, SchedCode(s))
      BY <2>1 DEF SchedCode, OwnCode, WorkCode
    <3> QED
      BY <1>1, <3>1 DEF Provenance, HeldExists
  <2>2. ASSUME NEW k, NEW x, NEW w \in Workers, Holds(k, x, WorkCode(w))'
        PROVE  WorkerExists(w)'
    <3>1. CASE \E l, y : Holds(l, y, WorkCode(w))
      BY <3>1 DEF Provenance, HeldExists
    <3>2. CASE \E v \in Workers : WorkCode(w) = WorkCode(v) /\ WorkerExists(v)'
      BY <3>2 DEF WorkCode
    <3> QED
      BY <2>2, <3>1, <3>2 DEF OwnCode, WorkCode
  <2> QED
    BY <2>1, <2>2 DEF HeldExists
<1>3. HomeIsOwn'
  BY <1>1 DEF Provenance, HomeIsOwn
<1>4. OwnBefore'
  <2> SUFFICES ASSUME NEW t \in Tasks,
                      \A s \in Scheds : s[1] = Tgid[t] /\ SchedExists(s)' =>
                                          scheduler'[s].pid # t
               PROVE  regs'[t] = Own(t)
    BY DEF OwnBefore
  <2>1. \A s \in Scheds : s[1] = Tgid[t] /\ SchedExists(s) => scheduler[s].pid # t
    BY <1>1
  <2>2. regs[t] = Own(t)
    BY <2>1 DEF Provenance, OwnBefore
  <2>3. regs'[t] = regs[t]
    BY <2>1 DEF RunBy
  <2> QED
    BY <2>2, <2>3
<1> QED
  BY <1>2, <1>3, <1>4 DEF Provenance

-----------------------------------------------------------------------------
(* The requests *)

\* Nothing that holds a context changes.
LEMMA CtxFrame ==
  ASSUME CtxInv, regs' = regs, worker' = worker, scheduler' = scheduler,
         \A p \in Tasks : /\ process'[p].worker_count = process[p].worker_count
                          /\ process'[p].schedulers = process[p].schedulers
  PROVE  Distinct' /\ Provenance'
<1>1. \A w \in Workers : WorkerExists(w)' <=> WorkerExists(w)
  BY DEF WorkerExists, Workers
<1>2. \A k, x, c : Holds(k, x, c)' <=> Holds(k, x, c)
  BY <1>1 DEF Holds, Names
<1>3. \A s \in Scheds, t \in Tasks : RunBy(s, t)' <=> RunBy(s, t)
  BY RunByKept
<1>4. OwnWhere' /\ HostIsAway'
  <2>1. OwnWhere'
    <3>1. ASSUME NEW k, NEW x, NEW t \in Tasks, Holds(k, x, OwnCode(t))'
          PROVE  (k = "task" /\ x = t) \/ (k = "scheduler" /\ RunBy(x, t)')
      <4>1. Holds(k, x, OwnCode(t)) /\ (k = "scheduler" => x \in Scheds)
        BY <1>2, <3>1 DEF Holds
      <4> QED
        BY <1>3, <4>1 DEF CtxInv, Provenance, OwnWhere
    <3> QED
      BY <3>1 DEF OwnWhere
  <2>2. HostIsAway'
    BY <1>3 DEF CtxInv, Provenance, HostIsAway, Names
  <2> QED
    BY <2>1, <2>2
<1>5. Distinct'
  BY <1>2 DEF CtxInv, Distinct
<1>6. Provenance'
  BY <1>1, <1>2, <1>4, ProvenanceKept DEF CtxInv
<1> QED
  BY <1>5, <1>6

\* A new worker's code is its own: nobody holds code of a worker that is not
\* there yet.
LEMMA AddWorkerCtx ==
  ASSUME CtxInv, NEW t \in Tasks, NEW c \in Clids, AddWorker(t, c),
         NEW wid, wid = process[t].worker_count
  PROVE  Distinct' /\ Provenance'
<1> DEFINE w == <<t, wid>>
<1>1. TypeInv /\ Provenance /\ Distinct
  BY DEF CtxInv, OwnInv, ListInv
<1>2. /\ w \in Workers /\ ~ WorkerExists(w)
      /\ worker'[w].regs = WorkerEntry(w)
      /\ \A v \in Workers : v # w => worker'[v] = worker[v]
      /\ scheduler' = scheduler /\ regs' = regs
  BY <1>1, BoundsAssumption
     DEF AddWorker, TypeInv, TypeOK, ProcessNodes, Wids, Workers, WorkerExists
<1>3. \A p \in Tasks : /\ process'[p].schedulers = process[p].schedulers
                       /\ process[p].worker_count \in Nat
                       /\ process'[p].worker_count =
                            IF p = t THEN process[p].worker_count + 1
                            ELSE process[p].worker_count
  BY <1>1, BoundsAssumption DEF AddWorker, TypeInv, TypeOK, ProcessNodes
<1>4. \A v \in Workers : v # w => (WorkerExists(v)' <=> WorkerExists(v))
  <2> SUFFICES ASSUME NEW v \in Workers, v # w
               PROVE  WorkerExists(v)' <=> WorkerExists(v)
    OBVIOUS
  <2>1. v = <<v[1], v[2]>> /\ v[1] \in Tasks /\ v[2] \in Nat
    BY BoundsAssumption DEF Workers, Wids
  <2> QED
    BY <1>3, <2>1 DEF WorkerExists
<1>5. WorkerExists(w)'
  BY <1>3 DEF WorkerExists
<1>6. \A k, x, code : Holds(k, x, code)' =>
        \/ k = "worker" /\ x = w /\ code = WorkCode(w)
        \/ Holds(k, x, code) /\ ~ (k = "worker" /\ x = w)
  BY <1>2, <1>4 DEF Holds, Names, CodeOf, WorkerEntry, WorkCode
<1>7. \A k, x : ~ Holds(k, x, WorkCode(w))
  BY <1>1, <1>2 DEF Provenance, HeldExists
<1>8. Distinct'
  BY <1>1, <1>6, <1>7, Fresh
<1>9. \A s \in Scheds, u \in Tasks : RunBy(s, u)' <=> RunBy(s, u)
  BY <1>2, <1>3, RunByKept
<1>10. OwnWhere'
  <2>1. ASSUME NEW k, NEW x, NEW u \in Tasks, Holds(k, x, OwnCode(u))'
        PROVE  (k = "task" /\ x = u) \/ (k = "scheduler" /\ RunBy(x, u)')
    <3>1. Holds(k, x, OwnCode(u)) /\ (k = "scheduler" => x \in Scheds)
      BY <1>6, <2>1 DEF Holds, OwnCode, WorkCode
    <3> QED
      BY <1>1, <1>9, <3>1 DEF Provenance, OwnWhere
  <2> QED
    BY <2>1 DEF OwnWhere
<1>11. HostIsAway'
  <2>1. ASSUME NEW s \in Scheds, NEW u \in Tasks, RunBy(s, u)', Names(s)'
        PROVE  CodeOf(regs'[u]) # OwnCode(u)
    <3>1. RunBy(s, u) /\ Names(s) /\ regs'[u] = regs[u]
      BY <1>2, <1>9, <2>1 DEF Names
    <3> QED
      BY <1>1, <3>1 DEF Provenance, HostIsAway
  <2> QED
    BY <2>1 DEF HostIsAway
<1>12. Provenance'
  BY <1>1, <1>2, <1>3, <1>4, <1>5, <1>6, <1>10, <1>11, ProvenanceKept
<1> QED
  BY <1>8, <1>12

\* execute_thread: the task takes the worker's context, the scheduler the
\* task's, and what the scheduler held is forgotten.
LEMMA SwitchToWorkerCtx ==
  ASSUME CtxInv, NEW t \in Tasks, NEW s \in Scheds, RunBy(s, t),
         NEW i \in DOMAIN comp_list[ListOf(s)].idle_list,
         NEW wid, wid = comp_list[ListOf(s)].idle_list[i],
         SwitchToWorker(t, s, i)
  PROVE  Distinct' /\ Provenance'
<1> DEFINE w == <<s[1], wid>>
<1>1. TypeInv /\ Provenance /\ Distinct /\ OwnInv
  BY DEF CtxInv, OwnInv, ListInv
<1>2. /\ wid \in Members(ListOf(s)) /\ wid \in Wids /\ w \in Workers
      /\ worker[w].state = "IDLE"
  BY <1>1, IdleIsUnnamed
<1>3. /\ worker' = [worker EXCEPT ![w] = Assigned(@, scheduler[s].sid, t)]
      /\ scheduler' = [scheduler EXCEPT ![s] = Hosting(@, wid, regs[t])]
      /\ regs' = [regs EXCEPT ![t] = Entered(worker[w].regs)]
      /\ process' = process
  BY DEF SwitchToWorker
<1>4. WorkerExists(w) /\ wid # NoId
  BY <1>2, BoundsAssumption DEF Members, ListOf, NoId, Wids
<1>5. /\ worker'[w].state = "RUNNING"
      /\ \A v \in Workers : v # w => worker'[v] = worker[v]
      /\ scheduler'[s].regs = regs[t] /\ scheduler'[s].wid = wid
      /\ scheduler'[s].pid = scheduler[s].pid /\ scheduler'[s].home = scheduler[s].home
      /\ \A r \in Scheds : r # s => scheduler'[r] = scheduler[r]
      /\ CodeOf(regs'[t]) = CodeOf(worker[w].regs)
      /\ \A u \in Tasks : u # t => regs'[u] = regs[u]
  <2>1. /\ worker[w] \in WorkerNodes /\ scheduler[s] \in SchedNodes
        /\ worker \in [Workers -> WorkerNodes] /\ scheduler \in [Scheds -> SchedNodes]
        /\ regs \in [Tasks -> Contexts]
    BY <1>1, <1>2 DEF TypeInv, TypeOK
  <2> QED
    BY <1>2, <1>3, <2>1, EnteredCode DEF Assigned, Hosting, WorkerNodes, SchedNodes
<1>6. \A v \in Workers : WorkerExists(v)' <=> WorkerExists(v)
  BY <1>3 DEF WorkerExists
<1>7. \A k, x, c : Holds(k, x, c)' =>
        \/ k = "task" /\ x = t /\ Holds("worker", w, c)
        \/ k = "scheduler" /\ x = s /\ Holds("task", t, c)
        \/ /\ Holds(k, x, c)
           /\ ~ (k = "task" /\ x = t) /\ ~ (k = "worker" /\ x = w)
           /\ ~ (k = "scheduler" /\ x = s)
  BY <1>2, <1>4, <1>5, <1>6 DEF Holds, Names
<1>8. Distinct'
  <2>1. Rotates("task", t, "worker", w, "scheduler", s)
    BY <1>7 DEF Rotates
  <2>2. "task" # "worker"
    OBVIOUS
  <2> QED
    BY <1>1, <2>1, <2>2, Rotation
<1>9. \A r \in Scheds, u \in Tasks : RunBy(r, u)' <=> RunBy(r, u)
  BY <1>3, <1>5, RunByKept
<1>10. OwnWhere'
  <2>1. ASSUME NEW k, NEW x, NEW u \in Tasks, Holds(k, x, OwnCode(u))'
        PROVE  (k = "task" /\ x = u) \/ (k = "scheduler" /\ RunBy(x, u)')
    <3>1. ~ Holds("worker", w, OwnCode(u))
      BY <1>1 DEF Provenance, OwnWhere
    <3>2. CASE k = "scheduler" /\ x = s /\ Holds("task", t, OwnCode(u))
      BY <1>1, <1>9, <3>2 DEF Provenance, OwnWhere
    <3>3. CASE Holds(k, x, OwnCode(u))
      <4>1. k = "scheduler" => x \in Scheds
        BY <3>3 DEF Holds
      <4> QED
        BY <1>1, <1>9, <3>3, <4>1 DEF Provenance, OwnWhere
    <3> QED
      BY <1>7, <2>1, <3>1, <3>2, <3>3
  <2> QED
    BY <2>1 DEF OwnWhere
<1>11. HostIsAway'
  <2>1. ASSUME NEW r \in Scheds, NEW u \in Tasks, RunBy(r, u)', Names(r)'
        PROVE  CodeOf(regs'[u]) # OwnCode(u)
    <3>1. RunBy(r, u)
      BY <1>9, <2>1
    <3>2. CASE u = t
      <4>1. Holds("worker", w, CodeOf(regs'[u]))
        BY <1>2, <1>4, <1>5, <3>2 DEF Holds
      <4> QED
        BY <1>1, <4>1 DEF Provenance, OwnWhere
    <3>3. CASE u # t
      <4>1. r # s
        BY <3>1, <3>3 DEF RunBy
      <4> QED
        BY <1>1, <1>5, <2>1, <3>1, <3>3, <4>1 DEF Provenance, HostIsAway, Names
    <3> QED
      BY <3>2, <3>3
  <2> QED
    BY <2>1 DEF HostIsAway
<1>12. Provenance'
  BY <1>1, <1>3, <1>5, <1>6, <1>7, <1>10, <1>11, ProvenanceKept
<1> QED
  BY <1>8, <1>12

\* thread_yield: the task takes the scheduler's context back, a paused worker
\* the task's.
LEMMA SwitchToSchedulerCtx ==
  ASSUME CtxInv, NEW t \in Tasks, NEW s \in Scheds, RunBy(s, t),
         NEW status \in Statuses,
         NEW i \in DOMAIN comp_list[ListOf(s)].busy_list,
         NEW wid, wid = scheduler[s].wid,
         comp_list[ListOf(s)].busy_list[i] = scheduler[s].wid,
         SwitchToScheduler(t, s, i, status)
  PROVE  Distinct' /\ Provenance'
<1> DEFINE w == <<s[1], wid>>
<1>1. TypeInv /\ Provenance /\ Distinct /\ OwnInv
  BY DEF CtxInv, OwnInv, ListInv
<1>2. wid \in Wids /\ wid # NoId /\ w \in Workers /\ Names(s)
  <2>1. scheduler[s].wid \in Wids /\ Named(s) \in Workers
    BY <1>1, SwitchToSchedulerTypes DEF Named
  <2> QED
    BY <2>1, BoundsAssumption DEF Named, Names, NoId, Wids
<1>3. /\ worker' = [worker EXCEPT ![w] = Released(@, status, regs[t])]
      /\ scheduler' = [scheduler EXCEPT ![s] = Waiting(@)]
      /\ regs' = [regs EXCEPT ![t] = Entered(scheduler[s].regs)]
      /\ process' = process
  BY DEF SwitchToScheduler
<1>4. /\ worker'[w].regs = regs[t]
      /\ \A v \in Workers : v # w => worker'[v] = worker[v]
      /\ scheduler'[s].wid = NoId
      /\ scheduler'[s].pid = scheduler[s].pid /\ scheduler'[s].home = scheduler[s].home
      /\ \A r \in Scheds : r # s => scheduler'[r] = scheduler[r]
      /\ CodeOf(regs'[t]) = CodeOf(scheduler[s].regs)
      /\ \A u \in Tasks : u # t => regs'[u] = regs[u]
  <2>1. /\ worker[w] \in WorkerNodes /\ scheduler[s] \in SchedNodes
        /\ worker \in [Workers -> WorkerNodes] /\ scheduler \in [Scheds -> SchedNodes]
        /\ regs \in [Tasks -> Contexts]
    BY <1>1, <1>2 DEF TypeInv, TypeOK
  <2> QED
    BY <1>2, <1>3, <2>1, EnteredCode DEF Released, Waiting, WorkerNodes, SchedNodes
<1>5. \A v \in Workers : WorkerExists(v)' <=> WorkerExists(v)
  BY <1>3 DEF WorkerExists
<1>6. \A k, x, c : Holds(k, x, c)' =>
        \/ k = "task" /\ x = t /\ Holds("scheduler", s, c)
        \/ k = "worker" /\ x = w /\ Holds("task", t, c)
        \/ /\ Holds(k, x, c)
           /\ ~ (k = "task" /\ x = t) /\ ~ (k = "scheduler" /\ x = s)
           /\ ~ (k = "worker" /\ x = w)
  BY <1>2, <1>4, <1>5 DEF Holds, Names
<1>7. Distinct'
  <2>1. Rotates("task", t, "scheduler", s, "worker", w)
    BY <1>6 DEF Rotates
  <2>2. "task" # "scheduler"
    OBVIOUS
  <2> QED
    BY <1>1, <2>1, <2>2, Rotation
<1>8. \A r \in Scheds, u \in Tasks : RunBy(r, u)' <=> RunBy(r, u)
  BY <1>3, <1>4, RunByKept
<1>9. OwnWhere'
  <2>1. ASSUME NEW k, NEW x, NEW u \in Tasks, Holds(k, x, OwnCode(u))'
        PROVE  (k = "task" /\ x = u) \/ (k = "scheduler" /\ RunBy(x, u)')
    <3>1. CASE k = "task" /\ x = t /\ Holds("scheduler", s, OwnCode(u))
      <4>1. RunBy(s, u)
        BY <1>1, <3>1 DEF Provenance, OwnWhere
      <4> QED
        BY <3>1, <4>1 DEF RunBy
    <3>2. ~ Holds("task", t, OwnCode(u))
      <4>1. Holds("task", t, OwnCode(u)) => u = t /\ CodeOf(regs[t]) = OwnCode(t)
        BY <1>1 DEF Provenance, OwnWhere, Holds
      <4> QED
        BY <1>1, <1>2, <4>1 DEF Provenance, HostIsAway
    <3>3. CASE Holds(k, x, OwnCode(u))
      <4>1. k = "scheduler" => x \in Scheds
        BY <3>3 DEF Holds
      <4> QED
        BY <1>1, <1>8, <3>3, <4>1 DEF Provenance, OwnWhere
    <3> QED
      BY <1>6, <2>1, <3>1, <3>2, <3>3
  <2> QED
    BY <2>1 DEF OwnWhere
<1>10. HostIsAway'
  <2>1. ASSUME NEW r \in Scheds, NEW u \in Tasks, RunBy(r, u)', Names(r)'
        PROVE  CodeOf(regs'[u]) # OwnCode(u)
    <3>1. RunBy(r, u) /\ r # s
      BY <1>4, <1>8, <2>1 DEF Names
    <3>2. u # t
      BY <3>1, RunByUnique
    <3> QED
      BY <1>1, <1>4, <2>1, <3>1, <3>2 DEF Provenance, HostIsAway, Names
  <2> QED
    BY <2>1 DEF HostIsAway
<1>11. Provenance'
  BY <1>1, <1>3, <1>4, <1>5, <1>6, <1>9, <1>10, ProvenanceKept
<1> QED
  BY <1>7, <1>11

\* exit_scheduling_mode: the task resumes its own code, which only it or the
\* scheduler it runs could hold, and the scheduler names no worker.
LEMMA LeaveCtx ==
  ASSUME CtxInv, NEW t \in Tasks, NEW s \in Scheds, RunBy(s, t),
         Unoccupied(scheduler[s]), scheduler[s].home # Garbage,
         scheduler' = [scheduler EXCEPT ![s] = Left(@)],
         regs' = [regs EXCEPT ![t] = scheduler[s].home],
         UNCHANGED <<process, comp_list, worker>>
  PROVE  Distinct' /\ Provenance'
<1>1. TypeInv /\ Provenance /\ Distinct
  BY DEF CtxInv, OwnInv, ListInv
<1>2. scheduler[s].home = Own(t)
  BY <1>1 DEF Provenance, HomeIsOwn
<1>3. /\ scheduler'[s].wid = NoId
      /\ scheduler'[s].pid = scheduler[s].pid /\ scheduler'[s].home = scheduler[s].home
      /\ \A r \in Scheds : r # s => scheduler'[r] = scheduler[r]
      /\ CodeOf(regs'[t]) = OwnCode(t)
      /\ \A u \in Tasks : u # t => regs'[u] = regs[u]
  <2>1. /\ scheduler[s] \in SchedNodes /\ scheduler \in [Scheds -> SchedNodes]
        /\ regs \in [Tasks -> Contexts]
    BY <1>1 DEF TypeInv, TypeOK
  <2> QED
    BY <1>2, <2>1 DEF Left, Unoccupied, SchedNodes, CodeOf, Own, OwnCode
<1>4. \A v \in Workers : WorkerExists(v)' <=> WorkerExists(v)
  BY DEF WorkerExists
<1>5. ~ Names(s) /\ ~ Names(s)'
  BY <1>3 DEF Names, Unoccupied
<1>6. \A k, x, c : Holds(k, x, c)' =>
        \/ k = "task" /\ x = t /\ c = OwnCode(t)
        \/ Holds(k, x, c) /\ ~ (k = "task" /\ x = t)
  BY <1>3, <1>4, <1>5 DEF Holds, Names
<1>7. \A k, x : Holds(k, x, OwnCode(t)) => k = "task" /\ x = t
  <2> SUFFICES ASSUME NEW k, NEW x, Holds(k, x, OwnCode(t))
               PROVE  k = "task" /\ x = t
    OBVIOUS
  <2>1. CASE k = "scheduler" /\ RunBy(x, t)
    <3>1. x \in Scheds /\ Names(x)
      BY <2>1 DEF Holds
    <3> QED
      BY <1>5, <2>1, <3>1, RunByUnique
  <2> QED
    BY <1>1, <2>1 DEF Provenance, OwnWhere
<1>8. Distinct'
  BY <1>1, <1>6, <1>7, Fresh
<1>9. \A r \in Scheds, u \in Tasks : RunBy(r, u)' <=> RunBy(r, u)
  BY <1>3, RunByKept
<1>10. OwnWhere'
  <2>1. ASSUME NEW k, NEW x, NEW u \in Tasks, Holds(k, x, OwnCode(u))'
        PROVE  (k = "task" /\ x = u) \/ (k = "scheduler" /\ RunBy(x, u)')
    <3>1. CASE k = "task" /\ x = t /\ OwnCode(u) = OwnCode(t)
      BY <3>1 DEF OwnCode
    <3>2. CASE Holds(k, x, OwnCode(u))
      <4>1. k = "scheduler" => x \in Scheds
        BY <3>2 DEF Holds
      <4> QED
        BY <1>1, <1>9, <3>2, <4>1 DEF Provenance, OwnWhere
    <3> QED
      BY <1>6, <2>1, <3>1, <3>2
  <2> QED
    BY <2>1 DEF OwnWhere
<1>11. HostIsAway'
  <2>1. ASSUME NEW r \in Scheds, NEW u \in Tasks, RunBy(r, u)', Names(r)'
        PROVE  CodeOf(regs'[u]) # OwnCode(u)
    <3>1. RunBy(r, u) /\ r # s
      BY <1>5, <1>9, <2>1
    <3>2. u # t
      BY <3>1, RunByUnique
    <3> QED
      BY <1>1, <1>3, <2>1, <3>1, <3>2 DEF Provenance, HostIsAway, Names
  <2> QED
    BY <2>1 DEF HostIsAway
<1>12. Provenance'
  BY <1>1, <1>3, <1>4, <1>6, <1>10, <1>11, ProvenanceKept
<1> QED
  BY <1>8, <1>12

\* enter_scheduling_mode: the new scheduler's code is held by nobody yet, and
\* it is found by a lookup only if the pthread had no scheduler before.
LEMMA AddSchedulerCtx ==
  ASSUME CtxInv, NEW t \in Tasks, NEW c \in Clids, AddScheduler(t, c),
         NEW p, p = Tgid[t], NEW n, n = process[p].schedulers
  PROVE  Distinct' /\ Provenance'
<1> DEFINE s == <<p, n>>
<1>1. /\ TypeInv /\ Provenance /\ Distinct
      /\ HeldExists /\ OwnWhere /\ HomeIsOwn /\ OwnBefore /\ HostIsAway
  BY DEF CtxInv, OwnInv, ListInv, Provenance
<1>2. p \in Tasks /\ n \in Nat /\ s \in Scheds /\ ~ SchedExists(s)
  BY <1>1, TasksAssumption, BoundsAssumption
     DEF AddScheduler, TypeInv, TypeOK, ProcessNodes, Scheds, Sids, SchedExists
<1>3. \A q \in Tasks : /\ process[q].schedulers \in Nat
                       /\ process'[q].worker_count = process[q].worker_count
                       /\ process'[q].schedulers =
                            IF q = p THEN n + 1 ELSE process[q].schedulers
  BY <1>1, BoundsAssumption DEF AddScheduler, TypeInv, TypeOK, ProcessNodes
<1>4. /\ scheduler'[s].pid = t /\ scheduler'[s].wid = NoId
      /\ scheduler'[s].home \in {regs[t], Garbage}
      /\ \A r \in Scheds : r # s => scheduler'[r] = scheduler[r]
  <2>1. scheduler \in [Scheds -> SchedNodes]
    BY <1>1 DEF TypeInv, TypeOK
  <2> DEFINE full == [NewSched(t, c) EXCEPT !.regs = SchedEntry(s), !.home = regs[t]]
  <2>2. \/ scheduler' = [scheduler EXCEPT ![s] = NewSched(t, c)]
        \/ scheduler' = [scheduler EXCEPT ![s] = full]
    BY DEF AddScheduler
  <2>3. /\ NewSched(t, c).pid = t /\ NewSched(t, c).wid = NoId
        /\ NewSched(t, c).home = Garbage
        /\ full.pid = t /\ full.wid = NoId /\ full.home = regs[t]
    BY DEF NewSched
  <2> HIDE DEF full
  <2> QED
    BY <1>2, <2>1, <2>2, <2>3
<1>5. /\ worker' = worker
      /\ \/ regs' = regs
         \/ CodeOf(regs'[t]) = SchedCode(s) /\ \A u \in Tasks : u # t => regs'[u] = regs[u]
  <2>1. regs \in [Tasks -> Contexts]
    BY <1>1 DEF TypeInv, TypeOK
  <2> QED
    BY <2>1 DEF AddScheduler, SchedCtx, CodeOf, SchedCode
<1>6. \A v \in Workers : WorkerExists(v)' <=> WorkerExists(v)
  BY <1>3 DEF WorkerExists, Workers
<1>7. \A r \in Scheds : SchedExists(r)' <=> SchedExists(r) \/ r = s
  <2> SUFFICES ASSUME NEW r \in Scheds
               PROVE  SchedExists(r)' <=> SchedExists(r) \/ r = s
    OBVIOUS
  <2>1. r = <<r[1], r[2]>> /\ r[1] \in Tasks /\ r[2] \in Nat
    BY SchedPair
  <2> QED
    BY <1>2, <1>3, <2>1 DEF SchedExists
\* The lookups: the new scheduler comes last in the list.
<1>8. ASSUME NEW r \in Scheds, NEW u \in Tasks, r # s
      PROVE  RunBy(r, u)' <=> RunBy(r, u)
  <2>1. /\ r = <<r[1], r[2]>> /\ r[1] \in Tasks /\ r[2] \in Nat
        /\ \A m \in 0 .. r[2] - 1 : <<r[1], m>> \in Scheds
    BY SchedPair
  <2>2. ASSUME SchedExists(r), NEW m \in 0 .. r[2] - 1
        PROVE  scheduler'[<<r[1], m>>] = scheduler[<<r[1], m>>]
    <3>1. r[1] = p => m # n
      BY <1>2, <2>1, <2>2 DEF SchedExists
    <3> QED
      BY <1>4, <2>1, <2>2, <3>1
  <2> QED
    BY <1>4, <1>7, <1>8, <2>2 DEF RunBy
<1>9. ASSUME NEW u \in Tasks, RunBy(s, u)'
      PROVE  u = t /\ regs[t] = Own(t)
  <2>1. u = t
    BY <1>4, <1>9 DEF RunBy
  <2>2. ASSUME NEW r \in Scheds, r[1] = Tgid[t], SchedExists(r)
        PROVE  scheduler[r].pid # t
    <3>1. /\ r = <<p, r[2]>> /\ r[2] \in Nat
          /\ r # s /\ r[2] \in 0 .. n - 1
      BY <1>2, <2>2, SchedPair DEF SchedExists
    <3>2. scheduler'[<<p, r[2]>>].pid # t
      BY <1>9, <2>1, <3>1 DEF RunBy
    <3> QED
      BY <1>4, <2>2, <3>1, <3>2
  <2>3. regs[t] = Own(t)
    BY <1>1, <2>2 DEF OwnBefore
  <2> QED
    BY <2>1, <2>3
<1>10. \A k, x, code : Holds(k, x, code)' =>
         \/ k = "task" /\ x = t /\ code = SchedCode(s) /\ regs' # regs
         \/ Holds(k, x, code) /\ (regs' # regs => ~ (k = "task" /\ x = t))
  BY <1>4, <1>5, <1>6 DEF Holds, Names
<1>11. Distinct'
  <2>1. CASE regs' = regs
    BY <1>1, <1>10, <2>1 DEF Distinct
  <2>2. CASE regs' # regs
    <3>1. \A k, x : ~ Holds(k, x, SchedCode(s))
      BY <1>1, <1>2 DEF HeldExists
    <3>2. \A k, x, code : Holds(k, x, code)' =>
            \/ k = "task" /\ x = t /\ code = SchedCode(s)
            \/ Holds(k, x, code) /\ ~ (k = "task" /\ x = t)
      BY <1>10, <2>2
    <3> QED
      BY <1>1, <3>1, <3>2, Fresh
  <2> QED
    BY <2>1, <2>2
<1>12. HeldExists'
  <2>1. ASSUME NEW k, NEW x, NEW r \in Scheds, Holds(k, x, SchedCode(r))'
        PROVE  SchedExists(r)'
    <3>1. SchedCode(r) = SchedCode(s) => r = s
      BY DEF SchedCode
    <3> QED
      BY <1>1, <1>7, <1>10, <2>1, <3>1 DEF HeldExists
  <2>2. ASSUME NEW k, NEW x, NEW v \in Workers, Holds(k, x, WorkCode(v))'
        PROVE  WorkerExists(v)'
    <3>1. WorkCode(v) # SchedCode(s)
      BY DEF SchedCode, WorkCode
    <3> QED
      BY <1>1, <1>6, <1>10, <2>2, <3>1 DEF HeldExists
  <2> QED
    BY <2>1, <2>2 DEF HeldExists
<1>13. OwnWhere'
  <2>1. ASSUME NEW k, NEW x, NEW u \in Tasks, Holds(k, x, OwnCode(u))'
        PROVE  (k = "task" /\ x = u) \/ (k = "scheduler" /\ RunBy(x, u)')
    <3>1. Holds(k, x, OwnCode(u)) /\ (k = "scheduler" => x \in Scheds)
      BY <1>10, <2>1 DEF Holds, OwnCode, SchedCode
    <3>2. k = "scheduler" => x # s
      BY <1>4, <2>1 DEF Holds, Names
    <3> QED
      BY <1>1, <1>8, <3>1, <3>2 DEF OwnWhere
  <2> QED
    BY <2>1 DEF OwnWhere
<1>14. HomeIsOwn'
  <2>1. ASSUME NEW r \in Scheds, NEW u \in Tasks, RunBy(r, u)'
        PROVE  scheduler'[r].home \in {Own(u), Garbage}
    <3>1. CASE r = s
      BY <1>4, <1>9, <2>1, <3>1
    <3>2. CASE r # s
      BY <1>1, <1>4, <1>8, <2>1, <3>2 DEF HomeIsOwn
    <3> QED
      BY <3>1, <3>2
  <2> QED
    BY <2>1 DEF HomeIsOwn
<1>15. OwnBefore'
  <2>1. ASSUME NEW u \in Tasks,
               \A r \in Scheds : r[1] = Tgid[u] /\ SchedExists(r)' => scheduler'[r].pid # u
        PROVE  regs'[u] = Own(u)
    <3>1. u # t
      BY <1>2, <1>4, <1>7, <2>1
    <3>2. \A r \in Scheds : r[1] = Tgid[u] /\ SchedExists(r) => scheduler[r].pid # u
      BY <1>2, <1>4, <1>7, <2>1
    <3> QED
      BY <1>1, <1>5, <3>1, <3>2 DEF OwnBefore
  <2> QED
    BY <2>1 DEF OwnBefore
<1>16. HostIsAway'
  <2>1. ASSUME NEW r \in Scheds, NEW u \in Tasks, RunBy(r, u)', Names(r)'
        PROVE  CodeOf(regs'[u]) # OwnCode(u)
    <3>1. r # s
      BY <1>4, <2>1 DEF Names
    <3>2. RunBy(r, u) /\ Names(r)
      BY <1>4, <1>8, <2>1, <3>1 DEF Names
    <3>3. SchedCode(s) # OwnCode(u)
      BY DEF SchedCode, OwnCode
    <3> QED
      BY <1>1, <1>5, <3>2, <3>3 DEF HostIsAway
  <2> QED
    BY <2>1 DEF HostIsAway
<1> QED
  BY <1>11, <1>12, <1>13, <1>14, <1>15, <1>16 DEF Provenance

-----------------------------------------------------------------------------
(* Every step *)

LEMMA RefusalCtx ==
  ASSUME CtxInv, UNCHANGED <<process, worker, scheduler, regs>>
  PROVE  Distinct' /\ Provenance'
  BY CtxFrame

\* The early returns and crashes of all handlers.
LEMMA RefusalLoadsNothing ==
  ASSUME NEW t \in Tasks, NEW err,
         Fail(t, err) \/ Miss(t, err) \/ RejectCaller(t) \/ Crash
  PROVE  UNCHANGED <<process, worker, scheduler, regs>>
BY DEF Fail, Miss, RejectCaller, Crash

LEMMA MainRequestCtx ==
  ASSUME CtxInv, NEW t \in Tasks, MainRequest(t)
  PROVE  Distinct' /\ Provenance'
<1>1. CASE EnterUms(t) \/ ExitUms(t) \/ CreateCompletionList(t)
  <2>1. /\ regs' = regs /\ worker' = worker /\ scheduler' = scheduler
        /\ \A p \in Tasks : /\ process'[p].worker_count = process[p].worker_count
                            /\ process'[p].schedulers = process[p].schedulers
    BY <1>1 DEF EnterUms, ExitUms, CreateCompletionList, Fail,
                CtxInv, OwnInv, ListInv, TypeInv, TypeOK, ProcessNodes
  <2> QED
    BY <2>1, CtxFrame
<1>2. ASSUME NEW c \in Clids, CreateWorkerThread(t, c)
      PROVE  Distinct' /\ Provenance'
  <2>1. CASE \E err \in Errors : Fail(t, err) \/ Miss(t, err)
    BY <2>1, RefusalLoadsNothing, RefusalCtx
  <2>2. CASE AddWorker(t, c)
    BY <2>2, AddWorkerCtx
  <2> QED
    BY <1>2, <2>1, <2>2 DEF CreateWorkerThread, Errors
<1> QED
  BY <1>1, <1>2 DEF MainRequest

LEMMA SchedulerRequestCtx ==
  ASSUME CtxInv, NEW t \in Tasks, SchedulerRequest(t)
  PROVE  Distinct' /\ Provenance'
<1>1. ASSUME NEW c \in Clids, EnterSchedulingMode(t, c)
      PROVE  Distinct' /\ Provenance'
  <2>1. CASE \E err \in Errors : Fail(t, err) \/ Miss(t, err) \/ Crash
    BY <2>1, RefusalLoadsNothing, RefusalCtx
  <2>2. CASE AddScheduler(t, c)
    BY <2>2, AddSchedulerCtx
  <2> QED
    BY <1>1, <2>1, <2>2 DEF EnterSchedulingMode, Errors
<1>2. CASE ExitSchedulingMode(t)
  <2>1. CASE \E err \in Errors : RejectCaller(t) \/ Fail(t, err) \/ Crash
    BY <2>1, RefusalLoadsNothing, RefusalCtx
  <2>2. CASE \E s \in Scheds :
               /\ RunBy(s, t) /\ Unoccupied(scheduler[s]) /\ scheduler[s].home # Garbage
               /\ scheduler' = [scheduler EXCEPT ![s] = Left(@)]
               /\ regs' = [regs EXCEPT ![t] = scheduler[s].home]
               /\ UNCHANGED <<process, comp_list, worker>>
    BY <2>2, LeaveCtx
  <2> QED
    BY <1>2, <2>1, <2>2 DEF ExitSchedulingMode, Errors
<1>3. ASSUME NEW wid \in Wids \cup {NoId}, ExecuteThread(t, wid)
      PROVE  Distinct' /\ Provenance'
  <2>1. CASE \E err \in Errors : RejectCaller(t) \/ Fail(t, err) \/ Miss(t, err)
    BY <2>1, RefusalLoadsNothing, RefusalCtx
  <2>2. CASE \E s \in Scheds : \E i \in DOMAIN comp_list[ListOf(s)].idle_list :
               RunBy(s, t) /\ SwitchToWorker(t, s, i)
    BY <2>2, SwitchToWorkerCtx
  <2> QED
    BY <1>3, <2>1, <2>2 DEF ExecuteThread, Errors
<1>4. ASSUME NEW status \in Statuses, ThreadYield(t, status)
      PROVE  Distinct' /\ Provenance'
  <2>1. CASE \E err \in Errors : RejectCaller(t) \/ Fail(t, err) \/ Miss(t, err)
    BY <2>1, RefusalLoadsNothing, RefusalCtx
  <2>2. CASE \E s \in Scheds : \E i \in DOMAIN comp_list[ListOf(s)].busy_list :
               /\ RunBy(s, t)
               /\ comp_list[ListOf(s)].busy_list[i] = scheduler[s].wid
               /\ SwitchToScheduler(t, s, i, status)
    BY <2>2, SwitchToSchedulerCtx
  <2> QED
    BY <1>4, <2>1, <2>2 DEF ThreadYield, Errors
<1>5. CASE DequeueCompletionListItems(t)
  <2>1. CASE RejectCaller(t)
    BY <2>1, RefusalLoadsNothing, RefusalCtx
  <2>2. CASE UNCHANGED <<process, worker, scheduler, regs>>
    BY <2>2, RefusalCtx
  <2> QED
    BY <1>5, <2>1, <2>2 DEF DequeueCompletionListItems, Fail
<1> QED
  BY <1>1, <1>2, <1>3, <1>4, <1>5 DEF SchedulerRequest

LEMMA CtxInit == Init => CtxInv
<1> SUFFICES ASSUME Init PROVE Distinct /\ Provenance
  BY OwnInit DEF CtxInv
<1>1. /\ \A s \in Scheds : ~ Names(s) /\ ~ SchedExists(s)
      /\ \A w \in Workers : ~ WorkerExists(w)
      /\ \A t \in Tasks : regs[t] = Own(t) /\ CodeOf(regs[t]) = OwnCode(t)
  BY BoundsAssumption DEF Init, NoSched, NoProcess, Names, SchedExists, WorkerExists,
     Scheds, Sids, Workers, Wids, Own, OwnCode, CodeOf
<1>2. \A k, x, c : Holds(k, x, c) => k = "task" /\ x \in Tasks /\ c = OwnCode(x)
  BY <1>1 DEF Holds
<1>3. Distinct /\ HeldExists /\ OwnWhere
  BY <1>2 DEF Distinct, HeldExists, OwnWhere, OwnCode, SchedCode, WorkCode
<1>4. HomeIsOwn /\ OwnBefore /\ HostIsAway
  BY <1>1 DEF HomeIsOwn, OwnBefore, HostIsAway, RunBy
<1> QED
  BY <1>3, <1>4 DEF Provenance

LEMMA CtxStep == CtxInv /\ [Next]_vars => CtxInv'
<1> SUFFICES ASSUME CtxInv, [Next]_vars PROVE CtxInv'
  OBVIOUS
<1>1. OwnInv'
  BY OwnStep DEF CtxInv
<1>2. CASE UNCHANGED vars
  BY <1>1, <1>2, RefusalCtx DEF vars, CtxInv
<1>3. CASE Next
  <2>1. \A t \in Owners : t \in Tasks
    BY TasksAssumption
  <2> QED
    BY <1>1, <1>3, <2>1, MainRequestCtx, SchedulerRequestCtx DEF Next, CtxInv
<1> QED
  BY <1>2, <1>3

\* A register snapshot that one task executes is not also waiting to be resumed
\* by a scheduler or a worker, nor two of those hold the same: no code runs on
\* one stack twice at a time, whichever handlers any tasks call from whichever
\* context, and whichever kernel services fail.
THEOREM ContextsOnce == Spec => []ContextsNotDuplicated
<1>1. Init => CtxInv
  BY CtxInit
<1>2. CtxInv /\ [Next]_vars => CtxInv'
  BY CtxStep
<1>3. CtxInv => ContextsNotDuplicated
  BY DistinctIsEnough DEF CtxInv
<1> QED
  BY <1>1, <1>2, <1>3, PTL DEF Spec
=============================================================================
