---------------------------- MODULE UmsApiProofs ----------------------------
(***************************************************************************)
(* Theorems about UmsApi, for every set of tasks, every bound and every    *)
(* choice of failing services: the types, how the idle and busy lists      *)
(* split the workers of a completion list, and that an idle list is a      *)
(* queue: each request leaves it alone, appends to it, takes one node out  *)
(* of it, or starts it anew, and none of these lets a worker overtake one  *)
(* that was waiting.                                                       *)
(***************************************************************************)
EXTENDS UmsApi, SequenceTheorems, FiniteSetTheorems, WellFoundedInduction, TLAPS

-----------------------------------------------------------------------------
(* The two list operations of the handlers *)

\* list_move_tail, first half: what is left of a list when the node at i goes.
LEMMA RemoveAtProperties ==
  ASSUME NEW S, NEW seq \in Seq(S), NEW i \in 1 .. Len(seq)
  PROVE  /\ RemoveAt(seq, i) \in Seq(S)
         /\ Len(RemoveAt(seq, i)) = Len(seq) - 1
         /\ \A j \in 1 .. Len(seq) - 1 :
              RemoveAt(seq, i)[j] = IF j < i THEN seq[j] ELSE seq[j + 1]
<1> DEFINE front == SubSeq(seq, 1, i - 1)
           back  == SubSeq(seq, i + 1, Len(seq))
<1>1. /\ front \in Seq(S)
      /\ Len(front) = i - 1
      /\ \A j \in 1 .. i - 1 : front[j] = seq[j]
  BY SubSeqProperties
<1>2. /\ back \in Seq(S)
      /\ Len(back) = Len(seq) - i
      /\ \A j \in 1 .. Len(seq) - i : back[j] = seq[i + j]
  BY SubSeqProperties
<1>3. RemoveAt(seq, i) = front \o back
  BY DEF RemoveAt
<1>4. /\ front \o back \in Seq(S)
      /\ Len(front \o back) = Len(front) + Len(back)
      /\ \A j \in 1 .. Len(front) + Len(back) :
           (front \o back)[j] = IF j <= Len(front) THEN front[j]
                                ELSE back[j - Len(front)]
  BY <1>1, <1>2, ConcatProperties
<1> HIDE DEF front, back
<1>5. RemoveAt(seq, i) \in Seq(S) /\ Len(RemoveAt(seq, i)) = Len(seq) - 1
  BY <1>1, <1>2, <1>3, <1>4
<1>6. \A j \in 1 .. Len(seq) - 1 :
        RemoveAt(seq, i)[j] = IF j < i THEN seq[j] ELSE seq[j + 1]
  <2> TAKE j \in 1 .. Len(seq) - 1
  <2>1. CASE j < i
    BY <1>1, <1>2, <1>3, <1>4, <2>1
  <2>2. CASE ~ j < i
    <3>1. RemoveAt(seq, i)[j] = back[j - (i - 1)]
      BY <1>1, <1>2, <1>3, <1>4, <2>2
    <3>2. j - (i - 1) \in 1 .. Len(seq) - i /\ i + (j - (i - 1)) = j + 1
      BY <2>2
    <3> QED
      BY <1>2, <2>2, <3>1, <3>2
  <2> QED
    BY <2>1, <2>2
<1> QED
  BY <1>5, <1>6

\* Taking one node out of a list without duplicates takes out its element.
LEMMA RemoveAtSet ==
  ASSUME NEW S, NEW seq \in Seq(S), NEW i \in 1 .. Len(seq), IsInjective(seq)
  PROVE  /\ IsInjective(RemoveAt(seq, i))
         /\ ToSet(RemoveAt(seq, i)) = ToSet(seq) \ {seq[i]}
<1> DEFINE rest == RemoveAt(seq, i)
<1>1. /\ rest \in Seq(S)
      /\ Len(rest) = Len(seq) - 1
      /\ \A j \in 1 .. Len(seq) - 1 :
           rest[j] = IF j < i THEN seq[j] ELSE seq[j + 1]
  BY RemoveAtProperties
<1>2. /\ DOMAIN rest = 1 .. Len(seq) - 1
      /\ DOMAIN seq = 1 .. Len(seq)
      /\ Len(seq) \in Nat
  BY <1>1, LenProperties
<1> HIDE DEF rest
<1>3. \A a, b \in 1 .. Len(seq) : seq[a] = seq[b] => a = b
  BY <1>2 DEF IsInjective
<1>4. IsInjective(rest)
  BY <1>1, <1>2, <1>3 DEF IsInjective
<1>5. ASSUME NEW j \in 1 .. Len(seq) - 1
      PROVE  rest[j] \in ToSet(seq) \ {seq[i]}
  <2>1. PICK k \in 1 .. Len(seq) : k # i /\ rest[j] = seq[k]
    <3>1. j \in 1 .. Len(seq) /\ j + 1 \in 1 .. Len(seq)
      BY <1>2
    <3>2. CASE j < i
      BY <1>1, <3>1, <3>2
    <3>3. CASE ~ (j < i)
      BY <1>1, <3>1, <3>3
    <3> QED
      BY <3>2, <3>3
  <2>2. seq[k] # seq[i]
    BY <1>3, <2>1
  <2> QED
    BY <1>2, <2>1, <2>2 DEF ToSet
<1>6. ASSUME NEW k \in 1 .. Len(seq), k # i
      PROVE  \E j \in 1 .. Len(seq) - 1 : rest[j] = seq[k]
  <2>1. CASE k < i
    <3>1. k \in 1 .. Len(seq) - 1 /\ rest[k] = seq[k]
      BY <1>1, <1>2, <2>1
    <3> QED BY <3>1
  <2>2. CASE k > i
    <3>1. k - 1 \in 1 .. Len(seq) - 1 /\ rest[k - 1] = seq[k]
      BY <1>1, <1>2, <2>2
    <3> QED BY <3>1
  <2> QED
    BY <1>6, <1>2, <2>1, <2>2
<1>7. ToSet(rest) = ToSet(seq) \ {seq[i]}
  <2>1. ToSet(rest) \subseteq ToSet(seq) \ {seq[i]}
    BY <1>2, <1>5 DEF ToSet
  <2>2. ToSet(seq) \ {seq[i]} \subseteq ToSet(rest)
    <3> SUFFICES ASSUME NEW k \in 1 .. Len(seq), seq[k] # seq[i]
                 PROVE  seq[k] \in ToSet(rest)
      BY <1>2 DEF ToSet
    <3>1. k # i
      OBVIOUS
    <3> QED
      BY <1>2, <1>6, <3>1 DEF ToSet
  <2> QED
    BY <2>1, <2>2
<1> QED
  BY <1>4, <1>7 DEF rest

\* list_add_tail of a node that is not linked yet.
LEMMA AppendSet ==
  ASSUME NEW S, NEW seq \in Seq(S), NEW e \in S
  PROVE  /\ ToSet(Append(seq, e)) = ToSet(seq) \cup {e}
         /\ IsInjective(seq) /\ e \notin ToSet(seq)
              => IsInjective(Append(seq, e))
<1> DEFINE longer == Append(seq, e)
<1>1. /\ longer \in Seq(S)
      /\ Len(longer) = Len(seq) + 1
      /\ \A j \in 1 .. Len(seq) : longer[j] = seq[j]
      /\ longer[Len(seq) + 1] = e
  BY AppendProperties
<1>2. /\ DOMAIN longer = 1 .. Len(seq) + 1
      /\ DOMAIN seq = 1 .. Len(seq)
      /\ Len(seq) \in Nat
  BY <1>1, LenProperties
<1> HIDE DEF longer
<1>3. \A j \in 1 .. Len(seq) + 1 : j \in 1 .. Len(seq) \/ j = Len(seq) + 1
  BY <1>2
<1>4. ToSet(longer) = ToSet(seq) \cup {e}
  <2>1. ToSet(longer) \subseteq ToSet(seq) \cup {e}
    BY <1>1, <1>2, <1>3 DEF ToSet
  <2>2. ToSet(seq) \cup {e} \subseteq ToSet(longer)
    BY <1>1, <1>2 DEF ToSet
  <2> QED
    BY <2>1, <2>2
<1>5. IsInjective(seq) /\ e \notin ToSet(seq) => IsInjective(longer)
  BY <1>1, <1>2, <1>3 DEF ToSet, IsInjective
<1> QED
  BY <1>4, <1>5 DEF longer

-----------------------------------------------------------------------------
(* Type correctness *)

\* A scheduler is linked before it is counted (enter_scheduling_mode), so that
\* the counter, the next sid, stays a possible sid.
CountedAreLinked ==
  \A t \in Tasks : process[t].scheduler_count <= process[t].schedulers

TypeInv == TypeOK /\ CountedAreLinked

LEMMA TypeInit == Init => TypeInv
<1> SUFFICES ASSUME Init PROVE TypeInv
  OBVIOUS
<1> USE BoundsAssumption
<1>1. 0 \in Clids /\ 0 \in Sids
  BY DEF Clids, Sids
<1>2. Garbage \in Contexts /\ \A t \in Tasks : Own(t) \in Contexts
  BY DEF Contexts
<1>3. \A t \in Tasks : process[t] = NoProcess
  BY DEF Init
<1>4. NoProcess \in ProcessNodes
  BY DEF NoProcess, ProcessNodes
<1>5. EmptyList \in ListNodes
  BY EmptySeq DEF EmptyList, ListNodes, States
<1>6. NoWorker \in WorkerNodes
  BY <1>1, <1>2 DEF NoWorker, WorkerNodes, States, NoId
<1>7. NoSched \in SchedNodes
  BY <1>1, <1>2 DEF NoSched, SchedNodes, States, NoId
<1>8. reply \in Replies
  BY EmptySeq DEF Init, Replies, Errors
<1>9. TypeOK
  BY <1>2, <1>4, <1>5, <1>6, <1>7, <1>8 DEF Init, TypeOK
<1>10. CountedAreLinked
  BY <1>3 DEF CountedAreLinked, NoProcess
<1> QED
  BY <1>9, <1>10 DEF TypeInv

\* What every handler does to the reply.
LEMMA ReturnType ==
  ASSUME TypeInv, NEW t \in Tasks, NEW err \in Errors, NEW id \in Nat,
         Return(t, err, id)
  PROVE  reply' \in Replies /\ undef' \in BOOLEAN
BY EmptySeq DEF Return, ReplyTo, Replies, TypeInv, TypeOK

LEMMA FailType ==
  ASSUME TypeInv, NEW t \in Tasks, NEW err \in Errors, Fail(t, err)
  PROVE  TypeInv'
<1>1. reply' \in Replies /\ undef' \in BOOLEAN
  BY ReturnType DEF Fail
<1> QED
  BY <1>1 DEF Fail, TypeInv, TypeOK, CountedAreLinked

LEMMA CrashType == ASSUME TypeInv, Crash PROVE TypeInv'
BY DEF Crash, TypeInv, TypeOK, CountedAreLinked

LEMMA MissType ==
  ASSUME TypeInv, NEW t \in Tasks, NEW err \in Errors, Miss(t, err)
  PROVE  TypeInv'
BY FailType, CrashType DEF Miss

LEMMA RejectCallerType ==
  ASSUME TypeInv, NEW t \in Tasks, RejectCaller(t)
  PROVE  TypeInv'
<1>1. "PROCESS_NOT_FOUND" \in Errors /\ "SCHEDULER_NOT_FOUND" \in Errors
  BY DEF Errors
<1> QED
  BY <1>1, FailType, MissType DEF RejectCaller

\* Every snapshot that is loaded is of a context.
LEMMA EnteredType ==
  ASSUME NEW ctx \in Contexts
  PROVE  Entered(ctx) \in Contexts
<1>1. CASE \E t \in Tasks : ctx = Own(t)
  BY <1>1 DEF Entered, Contexts, Own
<1>2. CASE \E s \in Scheds : ctx = SchedEntry(s) \/ ctx = SchedCtx(s)
  BY <1>2 DEF Entered, Contexts, SchedEntry, SchedCtx
<1>3. CASE \E w \in Workers : ctx = WorkerEntry(w) \/ ctx = WorkerCtx(w)
  BY <1>3 DEF Entered, Contexts, WorkerEntry, WorkerCtx
<1>4. CASE ctx = Garbage
  BY <1>4 DEF Entered, Contexts, Garbage
<1> QED
  BY <1>1, <1>2, <1>3, <1>4 DEF Contexts

LEMMA ListNodeCounts ==
  ASSUME NEW n \in ListNodes
  PROVE  /\ n.idle_count + 1 \in Int /\ n.idle_count - 1 \in Int
         /\ n.busy_count + 1 \in Int /\ n.busy_count - 1 \in Int
         /\ n.worker_count + 1 \in Nat /\ n.finished_count + 1 \in Nat
BY DEF ListNodes

\* A list node whose lists and counters are replaced is a list node.
LEMMA ListNodeUpdate ==
  ASSUME NEW n \in ListNodes, NEW idle \in Seq(Wids), NEW busy \in Seq(Wids),
         NEW i \in Int, NEW b \in Int, NEW k \in Nat
  PROVE  /\ [n EXCEPT !.idle_list = idle, !.idle_count = i,
                      !.worker_count = k] \in ListNodes
         /\ [n EXCEPT !.idle_list = idle, !.idle_count = i,
                      !.busy_list = busy, !.busy_count = b] \in ListNodes
         /\ [n EXCEPT !.busy_list = busy, !.busy_count = b,
                      !.idle_list = idle, !.idle_count = i] \in ListNodes
         /\ [n EXCEPT !.finished_count = k] \in ListNodes
BY DEF ListNodes

LEMMA LinkIdleType ==
  ASSUME NEW n \in ListNodes, NEW wid \in Wids
  PROVE  LinkIdle(n, wid) \in ListNodes
<1>1. n.idle_list \in Seq(Wids) /\ n.busy_list \in Seq(Wids)
  BY DEF ListNodes
<1>2. Append(n.idle_list, wid) \in Seq(Wids)
  BY <1>1, AppendProperties
<1> QED
  BY <1>1, <1>2, ListNodeCounts, ListNodeUpdate DEF LinkIdle

LEMMA MoveToBusyType ==
  ASSUME NEW n \in ListNodes, NEW i \in DOMAIN n.idle_list
  PROVE  MoveToBusy(n, i) \in ListNodes
<1>1. /\ n.idle_list \in Seq(Wids) /\ n.busy_list \in Seq(Wids)
      /\ i \in 1 .. Len(n.idle_list) /\ n.idle_list[i] \in Wids
  BY DEF ListNodes
<1>2. /\ RemoveAt(n.idle_list, i) \in Seq(Wids)
      /\ Append(n.busy_list, n.idle_list[i]) \in Seq(Wids)
  BY <1>1, RemoveAtProperties, AppendProperties
<1> QED
  BY <1>2, ListNodeCounts, ListNodeUpdate DEF MoveToBusy

LEMMA MoveToIdleType ==
  ASSUME NEW n \in ListNodes, NEW i \in DOMAIN n.busy_list
  PROVE  MoveToIdle(n, i) \in ListNodes
<1>1. /\ n.idle_list \in Seq(Wids) /\ n.busy_list \in Seq(Wids)
      /\ i \in 1 .. Len(n.busy_list) /\ n.busy_list[i] \in Wids
  BY DEF ListNodes
<1>2. /\ RemoveAt(n.busy_list, i) \in Seq(Wids)
      /\ Append(n.idle_list, n.busy_list[i]) \in Seq(Wids)
  BY <1>1, RemoveAtProperties, AppendProperties
<1> QED
  BY <1>2, ListNodeCounts, ListNodeUpdate DEF MoveToIdle

LEMMA YieldedType ==
  ASSUME NEW n \in ListNodes, NEW i \in DOMAIN n.busy_list, NEW status
  PROVE  Yielded(n, i, status) \in ListNodes
<1>1. n.idle_list \in Seq(Wids) /\ n.busy_list \in Seq(Wids)
      /\ n.idle_count \in Int /\ n.busy_count \in Int
  BY DEF ListNodes
<1>2. [n EXCEPT !.finished_count = @ + 1] \in ListNodes
  BY <1>1, ListNodeCounts, ListNodeUpdate
<1> QED
  BY <1>2, MoveToIdleType DEF Yielded

LEMMA EnterUmsType ==
  ASSUME TypeInv, NEW t \in Tasks, EnterUms(t)
  PROVE  TypeInv'
<1> USE DEF TypeInv
<1>1. CASE Fail(t, "PROCESS_ALREADY_EXISTS")
  BY <1>1, FailType DEF Errors
<1>2. ASSUME NEW entry \in {"complete", "partial"}, NEW err \in Errors,
             process' = [process EXCEPT ![t].state = "RUNNING",
                                        ![t].proc_entry = entry],
             Return(t, err, 0),
             UNCHANGED <<comp_list, worker, scheduler, regs>>
      PROVE  TypeInv'
  <2>1. process' \in [Tasks -> ProcessNodes] /\ CountedAreLinked'
    <3>1. process[t] \in ProcessNodes
      BY DEF TypeOK
    <3>2. [process[t] EXCEPT !.state = "RUNNING", !.proc_entry = entry] \in ProcessNodes
      BY <1>2, <3>1 DEF ProcessNodes, States
    <3>3. process' \in [Tasks -> ProcessNodes]
      BY <1>2, <3>2 DEF TypeOK
    <3>4. \A p \in Tasks : /\ process'[p].schedulers = process[p].schedulers
                           /\ process'[p].scheduler_count = process[p].scheduler_count
      BY <1>2, <3>1 DEF TypeOK, ProcessNodes
    <3> QED
      BY <3>3, <3>4 DEF CountedAreLinked
  <2>2. reply' \in Replies /\ undef' \in BOOLEAN
    BY <1>2, ReturnType
  <2> QED
    BY <1>2, <2>1, <2>2 DEF TypeOK
<1> QED
  BY <1>1, <1>2 DEF EnterUms, Errors

LEMMA ExitUmsType ==
  ASSUME TypeInv, NEW t \in Tasks, ExitUms(t)
  PROVE  TypeInv'
<1> USE DEF TypeInv
<1>1. CASE Fail(t, "CMD_IS_NOT_ISSUED_BY_MAIN_THREAD")
  BY <1>1, FailType DEF Errors
<1>2. CASE /\ process' = [process EXCEPT ![t].state = "FINISHED"]
           /\ Return(t, "SUCCESS", 0)
           /\ UNCHANGED <<comp_list, worker, scheduler, regs>>
  <2>1. process' \in [Tasks -> ProcessNodes] /\ CountedAreLinked'
    BY <1>2 DEF TypeOK, ProcessNodes, States, CountedAreLinked
  <2>2. reply' \in Replies /\ undef' \in BOOLEAN
    BY <1>2, ReturnType DEF Errors
  <2> QED
    BY <1>2, <2>1, <2>2 DEF TypeOK
<1> QED
  BY <1>1, <1>2 DEF ExitUms

LEMMA CreateCompletionListType ==
  ASSUME TypeInv, NEW t \in Tasks, CreateCompletionList(t)
  PROVE  TypeInv'
<1> USE DEF TypeInv
<1>1. CASE Fail(t, "PROCESS_NOT_FOUND")
  BY <1>1, FailType DEF Errors
<1>2. CASE /\ process[t].list_count < MaxLists
           /\ process' = [process EXCEPT ![t].list_count = @ + 1]
           /\ comp_list' = [comp_list EXCEPT
                              ![<<t, process[t].list_count>>] = EmptyList]
           /\ Return(t, "SUCCESS", process[t].list_count)
           /\ UNCHANGED <<worker, scheduler, regs>>
  <2>1. process[t].list_count \in Nat
    BY BoundsAssumption DEF TypeOK, ProcessNodes
  <2>2. process' \in [Tasks -> ProcessNodes] /\ CountedAreLinked'
    <3> PICK n : n = process[t].list_count + 1
      OBVIOUS
    <3>1. process[t] \in ProcessNodes /\ n \in 0 .. MaxLists
      BY <1>2, <2>1, BoundsAssumption DEF TypeOK
    <3>2. process' = [process EXCEPT ![t].list_count = n]
      BY <1>2
    <3>3. process' \in [Tasks -> ProcessNodes]
      BY <3>1, <3>2 DEF TypeOK, ProcessNodes
    <3>4. \A p \in Tasks : /\ process'[p].schedulers = process[p].schedulers
                           /\ process'[p].scheduler_count = process[p].scheduler_count
      BY <3>1, <3>2 DEF TypeOK, ProcessNodes
    <3> QED
      BY <3>3, <3>4 DEF CountedAreLinked
  <2>3. EmptyList \in ListNodes
    BY EmptySeq DEF EmptyList, ListNodes, States
  <2>4. comp_list' \in [Lists -> ListNodes]
    BY <1>2, <2>3 DEF TypeOK
  <2>5. reply' \in Replies /\ undef' \in BOOLEAN
    BY <1>2, <2>1, ReturnType DEF Errors
  <2> QED
    BY <1>2, <2>2, <2>4, <2>5 DEF TypeOK
<1> QED
  BY <1>1, <1>2 DEF CreateCompletionList

LEMMA AddWorkerType ==
  ASSUME TypeInv, NEW t \in Tasks, NEW c \in Clids, AddWorker(t, c)
  PROVE  TypeInv'
<1> USE DEF TypeInv
<1> DEFINE wid == process[t].worker_count
           w == <<t, wid>>
           l == <<t, c>>
<1>1. /\ wid \in Nat /\ wid \in Wids /\ wid + 1 \in 0 .. MaxWorkers
      /\ w \in Workers /\ l \in Lists
  BY BoundsAssumption DEF AddWorker, TypeOK, ProcessNodes, Wids, Workers, Lists
<1>2. process' \in [Tasks -> ProcessNodes] /\ CountedAreLinked'
  <2>1. process' = [process EXCEPT ![t].worker_count = wid + 1]
    BY DEF AddWorker, TypeOK, ProcessNodes
  <2> HIDE DEF wid
  <2>2. [process[t] EXCEPT !.worker_count = wid + 1] \in ProcessNodes
    BY <1>1 DEF TypeOK, ProcessNodes
  <2>3. process' \in [Tasks -> ProcessNodes]
    BY <2>1, <2>2 DEF TypeOK
  <2>4. CountedAreLinked'
    BY <2>1 DEF TypeOK, ProcessNodes, CountedAreLinked
  <2> QED
    BY <2>3, <2>4
<1>3. worker' \in [Workers -> WorkerNodes]
  <2>1. WorkerEntry(w) \in Contexts
    BY <1>1 DEF Contexts
  <2>2. [state |-> "IDLE", clid |-> c, pid |-> NoId, sid |-> NoId,
         regs |-> WorkerEntry(w)] \in WorkerNodes
    BY <2>1 DEF WorkerNodes, States
  <2> QED
    BY <1>1, <2>2 DEF AddWorker, TypeOK
<1>4. comp_list' \in [Lists -> ListNodes]
  <2>1. LinkIdle(comp_list[l], wid) \in ListNodes
    BY <1>1, LinkIdleType DEF TypeOK
  <2> QED
    BY <1>1, <2>1 DEF AddWorker, TypeOK
<1>5. reply' \in Replies /\ undef' \in BOOLEAN
  BY <1>1, ReturnType DEF AddWorker, Errors
<1> QED
  BY <1>2, <1>3, <1>4, <1>5 DEF AddWorker, TypeOK

LEMMA CreateWorkerThreadType ==
  ASSUME TypeInv, NEW t \in Tasks, NEW c \in Clids, CreateWorkerThread(t, c)
  PROVE  TypeInv'
<1>1. CASE \E err \in Errors : Fail(t, err) \/ Miss(t, err)
  BY <1>1, FailType, MissType
<1> QED
  BY <1>1, AddWorkerType DEF CreateWorkerThread, Errors

LEMMA AddSchedulerType ==
  ASSUME TypeInv, NEW t \in Tasks, NEW c \in Clids, AddScheduler(t, c)
  PROVE  TypeInv'
<1> USE DEF TypeInv
<1> DEFINE p == Tgid[t]
           s == <<p, process[p].schedulers>>
           node == NewSched(t, c)
<1>1. p \in Tasks /\ <<p, c>> \in Lists
  BY TasksAssumption DEF Lists
<1>2. /\ process[p].scheduler_count \in Sids
      /\ process[p].schedulers \in Sids
      /\ process[p].scheduler_count <= process[p].schedulers
      /\ process[p].schedulers + 1 \in 0 .. MaxScheds
      /\ process[p].scheduler_count + 1 \in 0 .. MaxScheds
  BY <1>1, BoundsAssumption
     DEF AddScheduler, TypeOK, ProcessNodes, CountedAreLinked, Sids
<1>3. s \in Scheds
  BY <1>1, <1>2 DEF Scheds
<1>4. node \in SchedNodes
  BY <1>2 DEF NewSched, SchedNodes, States, Contexts
<1>5. process' \in [Tasks -> ProcessNodes] /\ CountedAreLinked'
  <2> DEFINE n == process[p].schedulers
             k == process[p].scheduler_count
  <2>1. \/ process' = [process EXCEPT ![p].schedulers = n + 1]
        \/ process' = [process EXCEPT ![p].schedulers = n + 1,
                                      ![p].scheduler_count = k + 1]
    BY DEF AddScheduler
  <2>2. /\ n + 1 \in 0 .. MaxScheds /\ k + 1 \in 0 .. MaxScheds
        /\ k <= n + 1 /\ k + 1 <= n + 1
    BY <1>2 DEF Sids
  <2> HIDE DEF n, k
  <2>3. process' \in [Tasks -> ProcessNodes]
    <3>1. process[p] \in ProcessNodes
      BY <1>1 DEF TypeOK
    <3>2. /\ [process[p] EXCEPT !.schedulers = n + 1] \in ProcessNodes
          /\ [process[p] EXCEPT !.schedulers = n + 1,
                                 !.scheduler_count = k + 1] \in ProcessNodes
      BY <2>2, <3>1 DEF ProcessNodes
    <3> QED
      BY <1>1, <2>1, <3>2 DEF TypeOK
  <2>4. \A u \in Tasks : process'[u].scheduler_count <= process'[u].schedulers
    <3>1. \A u \in Tasks \ {p} : process'[u] = process[u]
      BY <1>1, <2>1 DEF TypeOK
    <3>2. /\ process'[p].schedulers = n + 1
          /\ process'[p].scheduler_count \in {process[p].scheduler_count, k + 1}
      BY <1>1, <2>1 DEF TypeOK, ProcessNodes
    <3>3. process'[p].scheduler_count \in {k, k + 1}
      BY <3>2 DEF k
    <3>4. process'[p].scheduler_count <= process'[p].schedulers
      BY <2>2, <3>2, <3>3
    <3> QED
      BY <3>1, <3>4 DEF CountedAreLinked
  <2> QED
    BY <2>3, <2>4 DEF CountedAreLinked
<1>6. scheduler' \in [Scheds -> SchedNodes]
  <2>1. SchedEntry(s) \in Contexts /\ regs[t] \in Contexts
    BY <1>3 DEF Contexts, TypeOK
  <2>2. [node EXCEPT !.regs = SchedEntry(s), !.home = regs[t]] \in SchedNodes
    BY <1>4, <2>1 DEF SchedNodes
  <2> QED
    BY <1>3, <1>4, <2>2 DEF AddScheduler, TypeOK
<1>7. comp_list' \in [Lists -> ListNodes]
  <2>1. comp_list[<<p, c>>] \in ListNodes
    BY <1>1 DEF TypeOK
  <2>2. [comp_list[<<p, c>>] EXCEPT !.state = "RUNNING"] \in ListNodes
    BY <2>1 DEF ListNodes, States
  <2> QED
    BY <1>1, <2>2 DEF AddScheduler, TypeOK
<1>8. regs' \in [Tasks -> Contexts]
  BY <1>3 DEF AddScheduler, TypeOK, Contexts
<1>9. reply' \in Replies /\ undef' \in BOOLEAN
  <2>1. process[p].scheduler_count \in Nat
    BY <1>2, BoundsAssumption DEF Sids
  <2> QED
    BY <2>1, ReturnType DEF AddScheduler, Errors
<1> QED
  BY <1>5, <1>6, <1>7, <1>8, <1>9 DEF AddScheduler, TypeOK

LEMMA EnterSchedulingModeType ==
  ASSUME TypeInv, NEW t \in Tasks, NEW c \in Clids, EnterSchedulingMode(t, c)
  PROVE  TypeInv'
<1>1. CASE \E err \in Errors : Fail(t, err) \/ Miss(t, err)
  BY <1>1, FailType, MissType
<1> QED
  BY <1>1, AddSchedulerType, CrashType DEF EnterSchedulingMode, Errors

LEMMA ExitSchedulingModeType ==
  ASSUME TypeInv, NEW t \in Tasks, ExitSchedulingMode(t)
  PROVE  TypeInv'
<1> USE DEF TypeInv
<1>1. CASE RejectCaller(t)
  BY <1>1, RejectCallerType
<1>2. CASE Fail(t, "CMD_IS_NOT_ISSUED_BY_SCHEDULER")
  BY <1>2, FailType DEF Errors
<1>3. CASE Crash
  BY <1>3, CrashType
<1>4. ASSUME NEW s \in Scheds,
             scheduler' = [scheduler EXCEPT ![s] = Left(@)],
             regs' = [regs EXCEPT ![t] = scheduler[s].home],
             Return(t, "SUCCESS", 0),
             UNCHANGED <<process, comp_list, worker>>
      PROVE  TypeInv'
  <2>1. reply' \in Replies /\ undef' \in BOOLEAN
    BY <1>4, ReturnType DEF Errors
  <2>2. scheduler[s] \in SchedNodes /\ scheduler[s].home \in Contexts
    BY DEF TypeOK, SchedNodes
  <2>3. Left(scheduler[s]) \in SchedNodes
    BY <2>2 DEF SchedNodes, States, Left
  <2> QED
    BY <1>4, <2>1, <2>2, <2>3 DEF TypeOK, CountedAreLinked
<1> QED
  BY <1>1, <1>2, <1>3, <1>4 DEF ExitSchedulingMode

\* The list a scheduler is attached to.
LEMMA ListOfType ==
  ASSUME TypeInv, NEW s \in Scheds
  PROVE  /\ ListOf(s) \in Lists
         /\ s[1] \in Tasks
         /\ comp_list[ListOf(s)] \in ListNodes
BY DEF TypeInv, TypeOK, ListOf, Lists, Scheds, SchedNodes

\* What the switch in execute_thread works on.
LEMMA SwitchToWorkerTypes ==
  ASSUME TypeInv, NEW s \in Scheds,
         NEW i \in DOMAIN comp_list[ListOf(s)].idle_list
  PROVE  LET n == comp_list[ListOf(s)] IN
         /\ n \in ListNodes
         /\ n.idle_list \in Seq(Wids) /\ n.busy_list \in Seq(Wids)
         /\ i \in 1 .. Len(n.idle_list)
         /\ n.idle_list[i] \in Wids
         /\ <<s[1], n.idle_list[i]>> \in Workers
BY ListOfType DEF ListNodes, Workers

LEMMA SwitchToWorkerType ==
  ASSUME TypeInv, NEW t \in Tasks, NEW s \in Scheds,
         NEW i \in DOMAIN comp_list[ListOf(s)].idle_list,
         SwitchToWorker(t, s, i)
  PROVE  TypeInv'
<1> USE DEF TypeInv
<1> DEFINE l == ListOf(s)
           n == comp_list[l]
           wid == n.idle_list[i]
           w == <<s[1], wid>>
<1>1. l \in Lists /\ n \in ListNodes
  BY ListOfType
<1>2. /\ n.idle_list \in Seq(Wids) /\ n.busy_list \in Seq(Wids)
      /\ i \in 1 .. Len(n.idle_list)
      /\ wid \in Wids /\ w \in Workers
  BY SwitchToWorkerTypes
<1>3. reply' \in Replies /\ undef' \in BOOLEAN
  BY ReturnType DEF SwitchToWorker, Errors
<1>4. worker' \in [Workers -> WorkerNodes]
  <2>1. worker[w] \in WorkerNodes /\ scheduler[s].sid \in Sids
    BY <1>2 DEF TypeOK, SchedNodes
  <2>2. Assigned(worker[w], scheduler[s].sid, t) \in WorkerNodes
    BY <2>1 DEF WorkerNodes, States, Assigned
  <2> QED
    BY <1>2, <2>2 DEF SwitchToWorker, TypeOK
<1>5. scheduler' \in [Scheds -> SchedNodes]
  <2>1. scheduler[s] \in SchedNodes /\ regs[t] \in Contexts
    BY DEF TypeOK
  <2>2. Hosting(scheduler[s], wid, regs[t]) \in SchedNodes
    BY <2>1, <1>2 DEF SchedNodes, States, Hosting
  <2> QED
    BY <2>2 DEF SwitchToWorker, TypeOK
<1>6. comp_list' \in [Lists -> ListNodes]
  <2>1. MoveToBusy(n, i) \in ListNodes
    BY <1>1, <1>2, MoveToBusyType
  <2> QED
    BY <1>1, <2>1 DEF SwitchToWorker, TypeOK
<1>7. regs' \in [Tasks -> Contexts]
  BY <1>2, EnteredType DEF SwitchToWorker, TypeOK, WorkerNodes
<1> QED
  BY <1>3, <1>4, <1>5, <1>6, <1>7 DEF SwitchToWorker, TypeOK, CountedAreLinked

LEMMA ExecuteThreadType ==
  ASSUME TypeInv, NEW t \in Tasks, NEW wid \in Wids \cup {NoId},
         ExecuteThread(t, wid)
  PROVE  TypeInv'
<1>1. CASE RejectCaller(t)
  BY <1>1, RejectCallerType
<1>2. CASE \E err \in Errors : Fail(t, err) \/ Miss(t, err)
  BY <1>2, FailType, MissType
<1>3. CASE \E s \in Scheds : \E i \in DOMAIN comp_list[ListOf(s)].idle_list :
             SwitchToWorker(t, s, i)
  BY <1>3, SwitchToWorkerType
<1> QED
  BY <1>1, <1>2, <1>3 DEF ExecuteThread, Errors

\* What the switch in thread_yield works on.
LEMMA SwitchToSchedulerTypes ==
  ASSUME TypeInv, NEW s \in Scheds,
         NEW i \in DOMAIN comp_list[ListOf(s)].busy_list
  PROVE  LET n == comp_list[ListOf(s)] IN
         /\ n \in ListNodes
         /\ n.idle_list \in Seq(Wids) /\ n.busy_list \in Seq(Wids)
         /\ i \in 1 .. Len(n.busy_list)
         /\ n.busy_list[i] \in Wids
         /\ <<s[1], n.busy_list[i]>> \in Workers
BY ListOfType DEF ListNodes, Workers

LEMMA SwitchToSchedulerType ==
  ASSUME TypeInv, NEW t \in Tasks, NEW status \in Statuses, NEW s \in Scheds,
         NEW i \in DOMAIN comp_list[ListOf(s)].busy_list,
         SwitchToScheduler(t, s, i, status)
  PROVE  TypeInv'
<1> USE DEF TypeInv
<1> DEFINE l == ListOf(s)
           n == comp_list[l]
           wid == n.busy_list[i]
           w == <<s[1], wid>>
<1>1. l \in Lists /\ n \in ListNodes
  BY ListOfType
<1>2. /\ n.idle_list \in Seq(Wids) /\ n.busy_list \in Seq(Wids)
      /\ i \in 1 .. Len(n.busy_list)
      /\ wid \in Wids /\ w \in Workers
  BY SwitchToSchedulerTypes
<1>3. reply' \in Replies /\ undef' \in BOOLEAN
  BY ReturnType DEF SwitchToScheduler, Errors
<1>4. worker' \in [Workers -> WorkerNodes]
  <2>1. worker[w] \in WorkerNodes /\ regs[t] \in Contexts
    BY <1>2 DEF TypeOK
  <2>2. Released(worker[w], status, regs[t]) \in WorkerNodes
    BY <2>1 DEF WorkerNodes, States, Released
  <2> QED
    BY <1>2, <2>2 DEF SwitchToScheduler, TypeOK
<1>5. scheduler' \in [Scheds -> SchedNodes]
  <2>1. scheduler[s] \in SchedNodes
    BY DEF TypeOK
  <2>2. Waiting(scheduler[s]) \in SchedNodes
    BY <2>1 DEF SchedNodes, States, Waiting
  <2> QED
    BY <2>2 DEF SwitchToScheduler, TypeOK
<1>6. comp_list' \in [Lists -> ListNodes]
  <2>1. Yielded(n, i, status) \in ListNodes
    BY <1>1, <1>2, YieldedType
  <2> QED
    BY <1>1, <2>1 DEF SwitchToScheduler, TypeOK
<1>7. regs' \in [Tasks -> Contexts]
  BY EnteredType DEF SwitchToScheduler, TypeOK, SchedNodes
<1> QED
  BY <1>3, <1>4, <1>5, <1>6, <1>7 DEF SwitchToScheduler, TypeOK, CountedAreLinked

LEMMA ThreadYieldType ==
  ASSUME TypeInv, NEW t \in Tasks, NEW status \in Statuses,
         ThreadYield(t, status)
  PROVE  TypeInv'
<1>1. CASE RejectCaller(t)
  BY <1>1, RejectCallerType
<1>2. CASE \E err \in Errors : Fail(t, err) \/ Miss(t, err)
  BY <1>2, FailType, MissType
<1>3. CASE \E s \in Scheds : \E i \in DOMAIN comp_list[ListOf(s)].busy_list :
             SwitchToScheduler(t, s, i, status)
  BY <1>3, SwitchToSchedulerType
<1> QED
  BY <1>1, <1>2, <1>3 DEF ThreadYield, Errors

LEMMA DequeueType ==
  ASSUME TypeInv, NEW t \in Tasks, DequeueCompletionListItems(t)
  PROVE  TypeInv'
<1> USE DEF TypeInv
<1>1. CASE RejectCaller(t)
  BY <1>1, RejectCallerType
<1>2. CASE Fail(t, "BYTES_NOT_COPIED")
  BY <1>2, FailType DEF Errors
<1>3. ASSUME NEW s \in Scheds, NEW answer \in States,
             reply' = [ReplyTo(t, "SUCCESS", 0) EXCEPT
                         !.state = answer,
                         !.wids = comp_list[ListOf(s)].idle_list],
             undef' = undef,
             UNCHANGED <<process, comp_list, worker, scheduler, regs>>
      PROVE  TypeInv'
  <2>1. comp_list[ListOf(s)].idle_list \in Seq(Wids)
    BY ListOfType DEF ListNodes
  <2>2. reply' \in Replies
    BY <1>3, <2>1 DEF ReplyTo, Replies, Errors
  <2> QED
    BY <1>3, <2>2 DEF TypeOK, CountedAreLinked
<1> QED
  BY <1>1, <1>2, <1>3 DEF DequeueCompletionListItems, DequeueState, States

LEMMA TypeStep ==
  ASSUME TypeInv, [Next]_vars
  PROVE  TypeInv'
<1>1. CASE UNCHANGED vars
  BY <1>1 DEF vars, TypeInv, TypeOK, CountedAreLinked
<1>2. ASSUME NEW t \in Owners, MainRequest(t)
      PROVE  TypeInv'
  <2>1. t \in Tasks
    BY TasksAssumption
  <2> QED
    BY <1>2, <2>1, EnterUmsType, ExitUmsType, CreateCompletionListType,
       CreateWorkerThreadType DEF MainRequest
<1>3. ASSUME NEW t \in Tasks, SchedulerRequest(t)
      PROVE  TypeInv'
  BY <1>3, EnterSchedulingModeType, ExitSchedulingModeType, ExecuteThreadType,
     ThreadYieldType, DequeueType DEF SchedulerRequest
<1> QED
  BY <1>1, <1>2, <1>3 DEF Next

\* Type correctness: whatever requests arrive in whatever order, no field of
\* any node leaves its range; in particular the scheduler counter, which is
\* incremented after the node is linked, never runs ahead of the list.
THEOREM TypeCorrect == Spec => [](TypeOK /\ CountedAreLinked)
<1>1. Init => TypeInv
  BY TypeInit
<1>2. TypeInv /\ [Next]_vars => TypeInv'
  BY TypeStep
<1> QED
  BY <1>1, <1>2, PTL DEF Spec, TypeInv

-----------------------------------------------------------------------------
(* How the idle and busy lists split the workers of a completion list *)

\* A worker belongs to a completion list that exists: an id that is handed out
\* for a new list has no workers yet.
WorkersHaveList ==
  \A w \in Workers : WorkerExists(w) => ListExists(<<w[1], worker[w].clid>>)

\* The four conjuncts of ListPartition for one list.
Split(l) ==
  /\ IsInjective(comp_list[l].idle_list)
  /\ IsInjective(comp_list[l].busy_list)
  /\ ToSet(comp_list[l].idle_list) = MembersIn(l, {"IDLE"})
  /\ ToSet(comp_list[l].busy_list) = MembersIn(l, {"RUNNING", "FINISHED"})

ListInv == TypeInv /\ ListPartition /\ WorkersHaveList

LEMMA PartitionIsSplit == ListPartition <=> \A l \in Lists : Split(l)
BY DEF ListPartition, Split

LEMMA EmptyIsSplit ==
  IsInjective(<<>>) /\ ToSet(<<>>) = {}
BY DEF IsInjective, ToSet

-----------------------------------------------------------------------------
(* The members of a list after a step *)

\* A list and its members depend only on its two sequences, the workers, and
\* how many there are.
LEMMA MembersFrame ==
  ASSUME NEW l \in Lists, NEW S, TypeInv, TypeInv', worker' = worker,
         process'[l[1]].worker_count = process[l[1]].worker_count
  PROVE  MembersIn(l, S)' = MembersIn(l, S)
BY DEF MembersIn, Members, WorkerExists

LEMMA SplitFrame ==
  ASSUME NEW l \in Lists, ListInv, TypeInv', worker' = worker,
         process'[l[1]].worker_count = process[l[1]].worker_count,
         comp_list'[l].idle_list = comp_list[l].idle_list,
         comp_list'[l].busy_list = comp_list[l].busy_list
  PROVE  Split(l)'
<1>1. Split(l)
  BY PartitionIsSplit DEF ListInv
<1>2. /\ MembersIn(l, {"IDLE"})' = MembersIn(l, {"IDLE"})
      /\ MembersIn(l, {"RUNNING", "FINISHED"})'
           = MembersIn(l, {"RUNNING", "FINISHED"})
  BY MembersFrame DEF ListInv
<1> QED
  BY <1>1, <1>2 DEF Split

\* A step that leaves workers and lists alone.
LEMMA ListFrame ==
  ASSUME ListInv, TypeInv', worker' = worker,
         \A p \in Tasks : /\ process'[p].worker_count = process[p].worker_count
                          /\ process'[p].list_count >= process[p].list_count,
         \A l \in Lists : /\ comp_list'[l].idle_list = comp_list[l].idle_list
                          /\ comp_list'[l].busy_list = comp_list[l].busy_list
  PROVE  ListInv'
<1>1. ASSUME NEW l \in Lists PROVE Split(l)'
  <2>1. l[1] \in Tasks
    BY DEF Lists
  <2> QED
    BY <2>1, SplitFrame
<1>2. ListPartition'
  BY <1>1 DEF ListPartition, Split
<1>3. WorkersHaveList'
  <2> SUFFICES ASSUME NEW w \in Workers, WorkerExists(w)'
               PROVE  ListExists(<<w[1], worker[w].clid>>)'
    BY DEF WorkersHaveList
  <2>1. w[1] \in Tasks /\ worker[w].clid \in Int
    BY BoundsAssumption DEF Workers, ListInv, TypeInv, TypeOK, WorkerNodes, Clids
  <2>2. WorkerExists(w)
    BY <2>1 DEF WorkerExists
  <2>3. worker[w].clid < process[w[1]].list_count
    BY <2>2 DEF ListInv, WorkersHaveList, ListExists
  <2>4. process[w[1]].list_count \in Int /\ process'[w[1]].list_count \in Int
    BY <2>1, BoundsAssumption DEF ListInv, TypeInv, TypeOK, ProcessNodes
  <2>5. worker[w].clid < process'[w[1]].list_count
    BY <2>1, <2>3, <2>4
  <2> QED
    BY <2>5 DEF ListExists
<1> QED
  BY <1>2, <1>3 DEF ListInv

\* Worker node w is replaced by node, of the same list, and nothing is created.
Replaced(w, node) ==
  /\ process' = process
  /\ worker' = [worker EXCEPT ![w] = node]
  /\ node.clid = worker[w].clid

\* One worker node is replaced by one of the same list: its place among the
\* members follows its state, and no other worker is affected.
LEMMA MembersOfChanged ==
  ASSUME NEW l \in Lists, NEW S, TypeInv, NEW w \in Workers, NEW node,
         Replaced(w, node)
  PROVE  /\ ~ (l[1] = w[1] /\ w[2] \in Members(l))
              => MembersIn(l, S)' = MembersIn(l, S)
         /\ (l[1] = w[1] /\ w[2] \in Members(l)) /\ node.state \in S
              => MembersIn(l, S)' = MembersIn(l, S) \cup {w[2]}
         /\ (l[1] = w[1] /\ w[2] \in Members(l)) /\ node.state \notin S
              => MembersIn(l, S)' = MembersIn(l, S) \ {w[2]}
<1>1. w = <<w[1], w[2]>> /\ w[2] \in Wids
  BY DEF Workers
<1>2. l[1] \in Tasks
  BY DEF Lists
<1>3. ASSUME NEW n \in Wids
      PROVE  /\ <<l[1], n>> \in Workers
             /\ <<l[1], n>> = w <=> l[1] = w[1] /\ n = w[2]
             /\ <<l[1], n>> # w => worker'[<<l[1], n>>] = worker[<<l[1], n>>]
             /\ <<l[1], n>> = w => worker'[<<l[1], n>>] = node
             /\ WorkerExists(<<l[1], n>>)' <=> WorkerExists(<<l[1], n>>)
  BY <1>1, <1>2 DEF Replaced, Workers, WorkerExists, TypeInv, TypeOK
<1>4. ASSUME NEW n \in Wids
      PROVE  n \in Members(l)' <=> n \in Members(l)
  BY <1>1, <1>3 DEF Members, Replaced
<1>5. ASSUME NEW n \in Wids, ~ (l[1] = w[1] /\ n = w[2])
      PROVE  n \in MembersIn(l, S)' <=> n \in MembersIn(l, S)
  BY <1>3, <1>4, <1>5 DEF MembersIn
<1>6. ASSUME l[1] = w[1]
      PROVE  w[2] \in MembersIn(l, S)' <=> w[2] \in Members(l) /\ node.state \in S
  BY <1>1, <1>3, <1>4, <1>6 DEF MembersIn
<1>7. MembersIn(l, S) \subseteq Members(l) /\ MembersIn(l, S) \subseteq Wids
      /\ MembersIn(l, S)' \subseteq Wids
  BY DEF MembersIn, Members
<1> QED
  BY <1>1, <1>5, <1>6, <1>7

-----------------------------------------------------------------------------
(* The requests that change lists *)

LEMMA CreateCompletionListSplits ==
  ASSUME ListInv, TypeInv', NEW t \in Tasks, CreateCompletionList(t)
  PROVE  ListInv'
<1>1. CASE Fail(t, "PROCESS_NOT_FOUND")
  <2>1. /\ worker' = worker /\ comp_list' = comp_list /\ process' = process
    BY <1>1 DEF Fail
  <2>2. \A p \in Tasks : process[p].list_count \in Int
    BY BoundsAssumption DEF ListInv, TypeInv, TypeOK, ProcessNodes
  <2> QED
    BY <2>1, <2>2, ListFrame
<1>2. CASE /\ process[t].list_count < MaxLists
           /\ process' = [process EXCEPT ![t].list_count = @ + 1]
           /\ comp_list' = [comp_list EXCEPT
                              ![<<t, process[t].list_count>>] = EmptyList]
           /\ UNCHANGED worker
  <2>k. process[t].list_count \in Clids
    BY <1>2, BoundsAssumption DEF ListInv, TypeInv, TypeOK, ProcessNodes, Clids
  <2> PICK k \in Clids : k = process[t].list_count
    BY <2>k
  <2> DEFINE new == <<t, k>>
  <2>1. k \in Int /\ new \in Lists
    BY BoundsAssumption DEF Clids, Lists
  <2>2. \A p \in Tasks :
          /\ process'[p].worker_count = process[p].worker_count
          /\ process[p].list_count \in Int
          /\ process'[p].list_count >= process[p].list_count
    BY <1>2, BoundsAssumption DEF ListInv, TypeInv, TypeOK, ProcessNodes
  <2>3. Members(new) = {}
    <3> SUFFICES ASSUME NEW n \in Wids, WorkerExists(<<t, n>>),
                        worker[<<t, n>>].clid = k
                 PROVE  FALSE
      BY DEF Members
    <3>1. <<t, n>> \in Workers
      BY DEF Workers
    <3>2. ListExists(<<t, k>>)
      BY <3>1 DEF ListInv, WorkersHaveList
    <3> QED
      BY <2>1, <3>2 DEF ListExists
  <2>4. ASSUME NEW S PROVE MembersIn(new, S)' = {}
    <3>1. process'[new[1]].worker_count = process[new[1]].worker_count
      BY <2>2
    <3>2. MembersIn(new, S)' = MembersIn(new, S)
      BY <1>2, <2>1, <3>1, MembersFrame DEF ListInv
    <3> QED
      BY <2>3, <3>2 DEF MembersIn
  <2>5. Split(new)'
    <3>1. comp_list'[new] = EmptyList
      BY <1>2, <2>1 DEF ListInv, TypeInv, TypeOK
    <3>2. comp_list'[new].idle_list = <<>> /\ comp_list'[new].busy_list = <<>>
      BY <3>1 DEF EmptyList
    <3>3. /\ MembersIn(new, {"IDLE"})' = {}
          /\ MembersIn(new, {"RUNNING", "FINISHED"})' = {}
      BY <2>4
    <3> HIDE DEF new
    <3> QED
      BY <3>2, <3>3, EmptyIsSplit DEF Split
  <2>6. ASSUME NEW l \in Lists, l # new PROVE Split(l)'
    <3>1. l[1] \in Tasks /\ comp_list'[l] = comp_list[l]
      BY <1>2, <2>1, <2>6 DEF Lists, ListInv, TypeInv, TypeOK
    <3> QED
      BY <1>2, <2>2, <3>1, SplitFrame
  <2>7. ListPartition'
    <3>1. \A l \in Lists : Split(l)'
      <4> HIDE DEF new
      <4> QED
        BY <2>5, <2>6
    <3> QED
      BY <3>1 DEF ListPartition, Split
  <2>8. WorkersHaveList'
    <3> SUFFICES ASSUME NEW w \in Workers, WorkerExists(w)'
                 PROVE  ListExists(<<w[1], worker[w].clid>>)'
      BY DEF WorkersHaveList
    <3>1. w[1] \in Tasks /\ worker[w].clid \in Int /\ worker' = worker
      BY <1>2, BoundsAssumption
         DEF Workers, ListInv, TypeInv, TypeOK, WorkerNodes, Clids
    <3>2. WorkerExists(w)
      BY <2>2, <3>1 DEF WorkerExists
    <3>3. worker[w].clid < process[w[1]].list_count
      BY <3>2 DEF ListInv, WorkersHaveList, ListExists
    <3>4. process'[w[1]].list_count \in Int
      BY <3>1, BoundsAssumption DEF TypeInv, TypeOK, ProcessNodes
    <3>5. worker[w].clid < process'[w[1]].list_count
      BY <2>2, <3>1, <3>3, <3>4
    <3> QED
      BY <3>1, <3>5 DEF ListExists
  <2> QED
    BY <2>7, <2>8 DEF ListInv
<1> QED
  BY <1>1, <1>2 DEF CreateCompletionList

\* A new worker of list l is a member of l, IDLE, and of no other list.
LEMMA AddWorkerMembers ==
  ASSUME ListInv, NEW t \in Tasks, NEW c \in Clids, AddWorker(t, c),
         NEW wid, wid = process[t].worker_count
  PROVE  /\ wid \in Wids
         /\ ~ WorkerExists(<<t, wid>>)
         /\ \A v \in Workers :
              /\ WorkerExists(v)' <=> WorkerExists(v) \/ v = <<t, wid>>
              /\ v # <<t, wid>> => worker'[v] = worker[v]
         /\ \A m \in Lists, k \in Wids : \A S :
              k \in MembersIn(m, S)' <=>
                \/ k \in MembersIn(m, S)
                \/ m = <<t, c>> /\ k = wid /\ "IDLE" \in S
<1> DEFINE w == <<t, wid>>
           l == <<t, c>>
           node == [state |-> "IDLE", clid |-> c, pid |-> NoId, sid |-> NoId,
                    regs |-> WorkerEntry(w)]
<1>1. wid \in Nat /\ wid \in Wids /\ w \in Workers /\ l \in Lists
  BY BoundsAssumption
     DEF AddWorker, ListInv, TypeInv, TypeOK, ProcessNodes, Wids, Workers, Lists
<1>3. /\ worker' = [worker EXCEPT ![w] = node]
      /\ process' = [process EXCEPT ![t].worker_count = wid + 1]
  BY DEF AddWorker
<1>4. /\ worker'[w] = node
      /\ \A v \in Workers : v # w => worker'[v] = worker[v]
  BY <1>1, <1>3 DEF ListInv, TypeInv, TypeOK
<1>6. \A p \in Tasks :
        process'[p].worker_count = IF p = t THEN wid + 1
                                   ELSE process[p].worker_count
  BY <1>3 DEF ListInv, TypeInv, TypeOK, ProcessNodes
<1>7. ASSUME NEW v \in Workers
      PROVE  WorkerExists(v)' <=> WorkerExists(v) \/ v = w
  <2>1. /\ v[1] \in Tasks /\ v[2] \in Int /\ v = <<v[1], v[2]>>
    BY BoundsAssumption DEF Workers, Wids
  <2>2. v[1] = t => (v[2] < wid + 1 <=> v[2] < wid \/ v = w)
    BY <1>1, <2>1
  <2>3. v[1] # t => v # w
    BY <2>1
  <2> QED
    BY <1>6, <2>1, <2>2, <2>3 DEF WorkerExists
<1>8. ~ WorkerExists(w)
  BY <1>1 DEF WorkerExists
<1>9. ASSUME NEW m \in Lists, NEW k \in Wids, NEW S
      PROVE  k \in MembersIn(m, S)' <=>
               \/ k \in MembersIn(m, S)
               \/ m = l /\ k = wid /\ "IDLE" \in S
  <2>1. m = <<m[1], m[2]>> /\ m[1] \in Tasks
    BY DEF Lists
  <2>2. <<m[1], k>> \in Workers
    BY <2>1 DEF Workers
  <2>3. CASE <<m[1], k>> = w
    <3>1. m[1] = t /\ k = wid
      BY <2>3
    <3>2. k \notin MembersIn(m, S)
      BY <1>8, <2>3 DEF MembersIn, Members
    <3>3. k \in MembersIn(m, S)' <=> node.clid = m[2] /\ node.state \in S
      BY <1>4, <1>7, <2>2, <2>3 DEF MembersIn, Members
    <3> QED
      BY <2>1, <3>1, <3>2, <3>3
  <2>4. CASE <<m[1], k>> # w
    <3>1. ~ (m = l /\ k = wid)
      BY <2>4
    <3>2. k \in MembersIn(m, S)' <=> k \in MembersIn(m, S)
      BY <1>4, <1>7, <2>2, <2>4 DEF MembersIn, Members
    <3> QED
      BY <3>1, <3>2
  <2> QED
    BY <2>3, <2>4
<1> QED
  BY <1>1, <1>4, <1>7, <1>8, <1>9

LEMMA AddWorkerSplits ==
  ASSUME ListInv, TypeInv', NEW t \in Tasks, NEW c \in Clids,
         ListExists(<<t, c>>), AddWorker(t, c)
  PROVE  ListInv'
<1> DEFINE wid == process[t].worker_count
           w == <<t, wid>>
           l == <<t, c>>
           n == comp_list[l]
           node == [state |-> "IDLE", clid |-> c, pid |-> NoId, sid |-> NoId,
                    regs |-> WorkerEntry(w)]
<1>1. wid \in Nat /\ wid \in Wids /\ w \in Workers /\ l \in Lists
  BY BoundsAssumption
     DEF AddWorker, ListInv, TypeInv, TypeOK, ProcessNodes, Wids, Workers, Lists
<1>2. /\ n \in ListNodes
      /\ n.idle_list \in Seq(Wids)
  BY <1>1 DEF ListInv, TypeInv, TypeOK, ListNodes
<1>3. /\ worker' = [worker EXCEPT ![w] = node]
      /\ comp_list' = [comp_list EXCEPT ![l] = LinkIdle(@, wid)]
      /\ process' = [process EXCEPT ![t].worker_count = wid + 1]
  BY DEF AddWorker
<1>4. /\ comp_list'[l] = LinkIdle(n, wid)
      /\ \A m \in Lists : m # l => comp_list'[m] = comp_list[m]
      /\ worker'[w] = node
      /\ \A v \in Workers : v # w => worker'[v] = worker[v]
  BY <1>1, <1>3 DEF ListInv, TypeInv, TypeOK
<1>5. /\ comp_list'[l].idle_list = Append(n.idle_list, wid)
      /\ comp_list'[l].busy_list = n.busy_list
  BY <1>2, <1>4 DEF LinkIdle, ListNodes
<1>6. \A p \in Tasks :
        /\ process'[p].worker_count = IF p = t THEN wid + 1
                                      ELSE process[p].worker_count
        /\ process'[p].list_count = process[p].list_count
  BY <1>3 DEF ListInv, TypeInv, TypeOK, ProcessNodes
<1> HIDE DEF wid
<1>7. ASSUME NEW v \in Workers
      PROVE  WorkerExists(v)' <=> WorkerExists(v) \/ v = w
  BY AddWorkerMembers DEF wid
<1>8. ~ WorkerExists(w)
  BY AddWorkerMembers DEF wid
<1>9. ASSUME NEW m \in Lists, NEW k \in Wids, NEW S
      PROVE  k \in MembersIn(m, S)' <=>
               \/ k \in MembersIn(m, S)
               \/ m = l /\ k = wid /\ "IDLE" \in S
  BY AddWorkerMembers DEF wid
<1>10. \A m \in Lists : \A S :
         MembersIn(m, S) \subseteq Wids /\ MembersIn(m, S)' \subseteq Wids
  BY DEF MembersIn, Members
<1>11. Split(l)'
  <2>1. Split(l)
    BY <1>1, PartitionIsSplit DEF ListInv
  <2>2. MembersIn(l, {"IDLE"})' = MembersIn(l, {"IDLE"}) \cup {wid}
    BY <1>1, <1>9, <1>10
  <2>3. MembersIn(l, {"RUNNING", "FINISHED"})' = MembersIn(l, {"RUNNING", "FINISHED"})
    <3> DEFINE S == {"RUNNING", "FINISHED"}
    <3>1. "IDLE" \notin S
      OBVIOUS
    <3> HIDE DEF S
    <3>2. \A k \in Wids : k \in MembersIn(l, S)' <=> k \in MembersIn(l, S)
      BY <1>1, <1>9, <3>1
    <3>3. MembersIn(l, S)' = MembersIn(l, S)
      BY <1>1, <1>10, <3>2
    <3> QED
      BY <3>3 DEF S
  <2>4. wid \notin ToSet(n.idle_list)
    BY <2>1, <1>8 DEF Split, MembersIn, Members
  <2>5. /\ IsInjective(Append(n.idle_list, wid))
        /\ ToSet(Append(n.idle_list, wid)) = ToSet(n.idle_list) \cup {wid}
    BY <1>1, <1>2, <2>1, <2>4, AppendSet DEF Split
  <2> QED
    BY <1>5, <2>1, <2>2, <2>3, <2>5 DEF Split
<1>12. ASSUME NEW m \in Lists, m # l PROVE Split(m)'
  <2>1. Split(m) /\ comp_list'[m] = comp_list[m]
    BY <1>4, <1>12, PartitionIsSplit DEF ListInv
  <2>2. ASSUME NEW S PROVE MembersIn(m, S)' = MembersIn(m, S)
    <3>1. \A k \in Wids : k \in MembersIn(m, S)' <=> k \in MembersIn(m, S)
      BY <1>9, <1>12
    <3> QED
      BY <1>10, <3>1
  <2>3. /\ MembersIn(m, {"IDLE"})' = MembersIn(m, {"IDLE"})
        /\ MembersIn(m, {"RUNNING", "FINISHED"})' = MembersIn(m, {"RUNNING", "FINISHED"})
    BY <2>2
  <2> QED
    BY <2>1, <2>3 DEF Split
<1>13. ListPartition'
  BY <1>11, <1>12 DEF ListPartition, Split
<1>14. WorkersHaveList'
  <2> SUFFICES ASSUME NEW v \in Workers, WorkerExists(v)'
               PROVE  ListExists(<<v[1], worker[v].clid>>)'
    BY DEF WorkersHaveList
  <2>1. v[1] \in Tasks
    BY DEF Workers
  <2>2. CASE v = w
    BY <1>4, <1>6, <2>2 DEF ListExists
  <2>3. CASE v # w
    BY <1>4, <1>6, <1>7, <2>1, <2>3 DEF ListInv, WorkersHaveList, ListExists
  <2> QED
    BY <2>2, <2>3
<1> QED
  BY <1>13, <1>14 DEF ListInv

\* The sequences of list l, and no others, follow the new state of worker wid.
Follows(l, wid, state) ==
  /\ \A m \in Lists : m # l => comp_list'[m] = comp_list[m]
  /\ IsInjective(comp_list'[l].idle_list)
  /\ IsInjective(comp_list'[l].busy_list)
  /\ ToSet(comp_list'[l].idle_list) =
       IF state = "IDLE" THEN ToSet(comp_list[l].idle_list) \cup {wid}
                         ELSE ToSet(comp_list[l].idle_list) \ {wid}
  /\ ToSet(comp_list'[l].busy_list) =
       IF state = "IDLE" THEN ToSet(comp_list[l].busy_list) \ {wid}
                         ELSE ToSet(comp_list[l].busy_list) \cup {wid}

\* A worker node is replaced by one of the same list, and that list's sequences
\* follow its new state: the lists still split the workers.
LEMMA ChangedSplits ==
  ASSUME ListInv, TypeInv', NEW l \in Lists, NEW wid \in Members(l), NEW node,
         Replaced(<<l[1], wid>>, node), Follows(l, wid, node.state)
  PROVE  ListInv'
<1> DEFINE w == <<l[1], wid>>
<1>1. wid \in Wids /\ w \in Workers /\ worker[w].clid = l[2]
  BY DEF Members, Workers, Lists
<1>2. worker'[w] = node /\ \A v \in Workers : v # w => worker'[v] = worker[v]
  BY <1>1 DEF Replaced, ListInv, TypeInv, TypeOK
<1>3. node.state \in States
  BY <1>1, <1>2 DEF TypeInv, TypeOK, WorkerNodes
<1>4. Split(l)'
  <2>1. Split(l)
    BY PartitionIsSplit DEF ListInv
  <2>5. ASSUME NEW S
        PROVE  MembersIn(l, S)' = IF node.state \in S
                                  THEN MembersIn(l, S) \cup {wid}
                                  ELSE MembersIn(l, S) \ {wid}
    <3>1. w[1] = l[1] /\ w[2] = wid
      OBVIOUS
    <3>2. Replaced(w, node)
      OBVIOUS
    <3>3. wid \in Members(l) /\ TypeInv
      BY DEF ListInv
    <3> HIDE DEF w
    <3> QED
      BY <1>1, <3>1, <3>2, <3>3, MembersOfChanged
  <2>2. MembersIn(l, {"IDLE"})' = ToSet(comp_list'[l].idle_list)
    BY <2>1, <2>5 DEF Split, Follows
  <2>3. MembersIn(l, {"RUNNING", "FINISHED"})' = ToSet(comp_list'[l].busy_list)
    <3>1. node.state \in {"RUNNING", "FINISHED"} <=> node.state # "IDLE"
      BY <1>3 DEF States
    <3> QED
      BY <2>1, <2>5, <3>1 DEF Split, Follows
  <2> QED
    BY <2>2, <2>3 DEF Split, Follows
<1>5. ASSUME NEW m \in Lists, m # l PROVE Split(m)'
  <2>1. Split(m) /\ comp_list'[m] = comp_list[m]
    BY <1>5, PartitionIsSplit DEF ListInv, Follows
  <2>2. ~ (m[1] = w[1] /\ w[2] \in Members(m))
    BY <1>1, <1>5 DEF Members, Lists
  <2>3. ASSUME NEW S PROVE MembersIn(m, S)' = MembersIn(m, S)
    BY <1>1, <2>2, MembersOfChanged DEF ListInv
  <2>4. /\ MembersIn(m, {"IDLE"})' = MembersIn(m, {"IDLE"})
        /\ MembersIn(m, {"RUNNING", "FINISHED"})' = MembersIn(m, {"RUNNING", "FINISHED"})
    BY <2>3
  <2> QED
    BY <2>1, <2>4 DEF Split
<1>6. ListPartition'
  BY <1>4, <1>5 DEF ListPartition, Split
<1>7. WorkersHaveList'
  <2> SUFFICES ASSUME NEW v \in Workers, WorkerExists(v)'
               PROVE  ListExists(<<v[1], worker[v].clid>>)'
    BY DEF WorkersHaveList
  <2>1. worker'[v].clid = worker[v].clid /\ WorkerExists(v)
    BY <1>1, <1>2 DEF Replaced, WorkerExists
  <2> QED
    BY <2>1 DEF Replaced, ListInv, WorkersHaveList, ListExists
<1> QED
  BY <1>6, <1>7 DEF ListInv

LEMMA SwitchToWorkerSplits ==
  ASSUME ListInv, TypeInv', NEW t \in Tasks, NEW s \in Scheds,
         NEW i \in DOMAIN comp_list[ListOf(s)].idle_list,
         SwitchToWorker(t, s, i)
  PROVE  ListInv'
<1> PICK l \in Lists : l = ListOf(s) /\ l[1] = s[1]
  BY ListOfType DEF ListInv, ListOf
<1> PICK n \in ListNodes : n = comp_list[l]
  BY DEF ListInv, TypeInv, TypeOK
<1>1. /\ n.idle_list \in Seq(Wids) /\ n.busy_list \in Seq(Wids)
      /\ i \in 1 .. Len(n.idle_list) /\ n.idle_list[i] \in Wids
  BY SwitchToWorkerTypes DEF ListInv
<1> PICK wid \in Wids : wid = n.idle_list[i]
  BY <1>1
<1>2. Split(l)
  BY PartitionIsSplit DEF ListInv
<1>3. wid \in ToSet(n.idle_list)
  BY DEF ToSet
<1>4. /\ wid \in Members(l)
      /\ worker[<<l[1], wid>>].state = "IDLE"
      /\ wid \notin ToSet(n.busy_list)
  BY <1>2, <1>3 DEF Split, MembersIn
<1>5. <<l[1], wid>> \in Workers
  BY DEF Lists, Workers
<1> DEFINE node == Assigned(worker[<<l[1], wid>>], scheduler[s].sid, t)
<1>6. /\ node.clid = worker[<<l[1], wid>>].clid
      /\ node.state = "RUNNING"
  <2>1. worker[<<l[1], wid>>] \in WorkerNodes
    BY <1>5 DEF ListInv, TypeInv, TypeOK
  <2> QED
    BY <2>1 DEF Assigned, WorkerNodes
<1>7. /\ process' = process
      /\ worker' = [worker EXCEPT ![<<l[1], wid>>] = node]
      /\ comp_list' = [comp_list EXCEPT ![l] = MoveToBusy(n, i)]
  BY DEF SwitchToWorker
<1>8. /\ comp_list'[l] = MoveToBusy(n, i)
      /\ \A m \in Lists : m # l => comp_list'[m] = comp_list[m]
  BY <1>7 DEF ListInv, TypeInv, TypeOK
<1>9. /\ comp_list'[l].idle_list = RemoveAt(n.idle_list, i)
      /\ comp_list'[l].busy_list = Append(n.busy_list, wid)
  BY <1>8 DEF MoveToBusy, ListNodes
<1>10. /\ IsInjective(comp_list'[l].idle_list)
       /\ ToSet(comp_list'[l].idle_list) = ToSet(n.idle_list) \ {wid}
  BY <1>1, <1>2, <1>9, RemoveAtSet DEF Split
<1>11. /\ IsInjective(comp_list'[l].busy_list)
       /\ ToSet(comp_list'[l].busy_list) = ToSet(n.busy_list) \cup {wid}
  BY <1>1, <1>2, <1>4, <1>9, AppendSet DEF Split
<1> HIDE DEF node
<1>12. Follows(l, wid, node.state)
  BY <1>6, <1>8, <1>10, <1>11 DEF Follows
<1>13. Replaced(<<l[1], wid>>, node)
  BY <1>6, <1>7 DEF Replaced
<1> QED
  BY <1>4, <1>12, <1>13, ChangedSplits

LEMMA SwitchToSchedulerSplits ==
  ASSUME ListInv, TypeInv', NEW t \in Tasks, NEW status \in Statuses,
         NEW s \in Scheds,
         NEW i \in DOMAIN comp_list[ListOf(s)].busy_list,
         SwitchToScheduler(t, s, i, status)
  PROVE  ListInv'
<1> PICK l \in Lists : l = ListOf(s) /\ l[1] = s[1]
  BY ListOfType DEF ListInv, ListOf
<1> PICK n \in ListNodes : n = comp_list[l]
  BY DEF ListInv, TypeInv, TypeOK
<1>1. /\ n.idle_list \in Seq(Wids) /\ n.busy_list \in Seq(Wids)
      /\ i \in 1 .. Len(n.busy_list) /\ n.busy_list[i] \in Wids
  BY SwitchToSchedulerTypes DEF ListInv
<1> PICK wid \in Wids : wid = n.busy_list[i]
  BY <1>1
<1>2. Split(l)
  BY PartitionIsSplit DEF ListInv
<1>3. wid \in ToSet(n.busy_list)
  BY DEF ToSet
<1>4. /\ wid \in Members(l)
      /\ worker[<<l[1], wid>>].state \in {"RUNNING", "FINISHED"}
      /\ wid \notin ToSet(n.idle_list)
  BY <1>2, <1>3 DEF Split, MembersIn
<1>5. <<l[1], wid>> \in Workers
  BY DEF Lists, Workers
<1> DEFINE node == Released(worker[<<l[1], wid>>], status, regs[t])
<1>6. /\ node.clid = worker[<<l[1], wid>>].clid
      /\ node.state = IF status = "PAUSE" THEN "IDLE" ELSE "FINISHED"
  <2>1. worker[<<l[1], wid>>] \in WorkerNodes
    BY <1>5 DEF ListInv, TypeInv, TypeOK
  <2> QED
    BY <2>1 DEF Released, WorkerNodes
<1>7. /\ process' = process
      /\ worker' = [worker EXCEPT ![<<l[1], wid>>] = node]
      /\ comp_list' = [comp_list EXCEPT ![l] = Yielded(n, i, status)]
  BY DEF SwitchToScheduler
<1>8. /\ comp_list'[l] = Yielded(n, i, status)
      /\ \A m \in Lists : m # l => comp_list'[m] = comp_list[m]
  BY <1>7 DEF ListInv, TypeInv, TypeOK
<1> HIDE DEF node
<1>9. Replaced(<<l[1], wid>>, node)
  BY <1>6, <1>7 DEF Replaced
<1>10. CASE status = "PAUSE"
  <2>1. /\ comp_list'[l].busy_list = RemoveAt(n.busy_list, i)
        /\ comp_list'[l].idle_list = Append(n.idle_list, wid)
    BY <1>8, <1>10 DEF Yielded, MoveToIdle, ListNodes
  <2>2. /\ IsInjective(comp_list'[l].busy_list)
        /\ ToSet(comp_list'[l].busy_list) = ToSet(n.busy_list) \ {wid}
    BY <1>1, <1>2, <2>1, RemoveAtSet DEF Split
  <2>3. /\ IsInjective(comp_list'[l].idle_list)
        /\ ToSet(comp_list'[l].idle_list) = ToSet(n.idle_list) \cup {wid}
    BY <1>1, <1>2, <1>4, <2>1, AppendSet DEF Split
  <2>4. Follows(l, wid, node.state)
    BY <1>6, <1>8, <1>10, <2>2, <2>3 DEF Follows
  <2> QED
    BY <1>4, <1>9, <2>4, ChangedSplits
<1>11. CASE status # "PAUSE"
  <2>1. /\ comp_list'[l].busy_list = n.busy_list
        /\ comp_list'[l].idle_list = n.idle_list
    BY <1>8, <1>11 DEF Yielded, ListNodes
  <2>2. /\ ToSet(n.busy_list) = ToSet(n.busy_list) \cup {wid}
        /\ ToSet(n.idle_list) = ToSet(n.idle_list) \ {wid}
    BY <1>3, <1>4
  <2>3. IsInjective(n.busy_list) /\ IsInjective(n.idle_list)
    BY <1>2 DEF Split
  <2>4. node.state # "IDLE"
    BY <1>6, <1>11
  <2>5. Follows(l, wid, node.state)
    BY <1>8, <2>1, <2>2, <2>3, <2>4 DEF Follows
  <2> QED
    BY <1>4, <1>9, <2>5, ChangedSplits
<1> QED
  BY <1>10, <1>11

-----------------------------------------------------------------------------
(* Every request *)

\* An early return, or a crash, leaves every node alone.
LEMMA IdleSplits ==
  ASSUME ListInv, TypeInv', UNCHANGED <<process, comp_list, worker>>
  PROVE  ListInv'
<1>1. \A p \in Tasks : process[p].list_count \in Int
  BY BoundsAssumption DEF ListInv, TypeInv, TypeOK, ProcessNodes
<1> QED
  BY <1>1, ListFrame

LEMMA RefusalSplits ==
  ASSUME ListInv, TypeInv', NEW t \in Tasks, NEW err,
         Fail(t, err) \/ Miss(t, err) \/ RejectCaller(t) \/ Crash
  PROVE  ListInv'
<1>1. UNCHANGED <<process, comp_list, worker>>
  BY DEF Fail, Miss, RejectCaller, Crash
<1> QED
  BY <1>1, IdleSplits

LEMMA MainRequestSplits ==
  ASSUME ListInv, TypeInv', NEW t \in Tasks, MainRequest(t)
  PROVE  ListInv'
<1>1. CASE EnterUms(t) \/ ExitUms(t)
  <2>1. /\ worker' = worker /\ comp_list' = comp_list
        /\ \A p \in Tasks : /\ process'[p].worker_count = process[p].worker_count
                            /\ process'[p].list_count = process[p].list_count
    <3>1. CASE EnterUms(t)
      BY <3>1 DEF EnterUms, Fail, ListInv, TypeInv, TypeOK, ProcessNodes
    <3>2. CASE ExitUms(t)
      BY <3>2 DEF ExitUms, Fail, ListInv, TypeInv, TypeOK, ProcessNodes
    <3> QED
      BY <1>1, <3>1, <3>2
  <2>2. \A p \in Tasks : process[p].list_count \in Int
    BY BoundsAssumption DEF ListInv, TypeInv, TypeOK, ProcessNodes
  <2> QED
    BY <2>1, <2>2, ListFrame
<1>2. CASE CreateCompletionList(t)
  BY <1>2, CreateCompletionListSplits
<1>3. ASSUME NEW c \in Clids, CreateWorkerThread(t, c)
      PROVE  ListInv'
  <2>1. CASE \E err \in Errors : Fail(t, err) \/ Miss(t, err)
    BY <2>1, RefusalSplits
  <2>2. CASE ListExists(<<t, c>>) /\ AddWorker(t, c)
    BY <2>2, AddWorkerSplits
  <2> QED
    BY <1>3, <2>1, <2>2 DEF CreateWorkerThread, Errors
<1> QED
  BY <1>1, <1>2, <1>3 DEF MainRequest

LEMMA AddSchedulerSplits ==
  ASSUME ListInv, TypeInv', NEW t \in Tasks, NEW c \in Clids,
         AddScheduler(t, c)
  PROVE  ListInv'
<1>1. Tgid[t] \in Tasks
  BY TasksAssumption
<1>2. \A p \in Tasks : /\ process'[p].worker_count = process[p].worker_count
                      /\ process'[p].list_count = process[p].list_count
                      /\ process[p].list_count \in Int
  BY <1>1, BoundsAssumption DEF AddScheduler, ListInv, TypeInv, TypeOK, ProcessNodes
<1>3. \A l \in Lists : /\ comp_list'[l].idle_list = comp_list[l].idle_list
                      /\ comp_list'[l].busy_list = comp_list[l].busy_list
  <2> DEFINE l == <<Tgid[t], c>>
  <2>1. l \in Lists /\ comp_list[l] \in ListNodes
    BY <1>1 DEF Lists, ListInv, TypeInv, TypeOK
  <2>2. \/ comp_list' = comp_list
        \/ comp_list' = [comp_list EXCEPT ![l] = [@ EXCEPT !.state = "RUNNING"]]
    BY DEF AddScheduler
  <2> HIDE DEF l
  <2>3. \A m \in Lists : /\ m # l => comp_list'[m] = comp_list[m]
                        /\ \/ comp_list'[l] = comp_list[l]
                           \/ comp_list'[l] = [comp_list[l] EXCEPT !.state = "RUNNING"]
    BY <2>1, <2>2 DEF ListInv, TypeInv, TypeOK
  <2> QED
    BY <2>1, <2>3 DEF ListNodes
<1> QED
  BY <1>2, <1>3, ListFrame DEF AddScheduler

LEMMA SchedulerRequestSplits ==
  ASSUME ListInv, TypeInv', NEW t \in Tasks, SchedulerRequest(t)
  PROVE  ListInv'
<1>1. ASSUME NEW c \in Clids, EnterSchedulingMode(t, c)
      PROVE  ListInv'
  <2>1. CASE \E err \in Errors : Fail(t, err) \/ Miss(t, err)
    BY <2>1, RefusalSplits
  <2> QED
    BY <1>1, <2>1, RefusalSplits, AddSchedulerSplits
       DEF EnterSchedulingMode, Errors
<1>2. CASE ExitSchedulingMode(t) \/ DequeueCompletionListItems(t)
  <2>1. CASE RejectCaller(t)
    BY <2>1, RefusalSplits
  <2>2. CASE UNCHANGED <<process, comp_list, worker>>
    BY <2>2, IdleSplits
  <2> QED
    BY <1>2, <2>1, <2>2 DEF ExitSchedulingMode, DequeueCompletionListItems, Fail, Crash
<1>3. ASSUME NEW wid \in Wids \cup {NoId}, ExecuteThread(t, wid)
      PROVE  ListInv'
  <2>1. CASE \E err \in Errors : RejectCaller(t) \/ Fail(t, err) \/ Miss(t, err)
    BY <2>1, RefusalSplits
  <2>2. CASE \E s \in Scheds : \E i \in DOMAIN comp_list[ListOf(s)].idle_list :
               SwitchToWorker(t, s, i)
    BY <2>2, SwitchToWorkerSplits
  <2> QED
    BY <1>3, <2>1, <2>2 DEF ExecuteThread, Errors
<1>4. ASSUME NEW status \in Statuses, ThreadYield(t, status)
      PROVE  ListInv'
  <2>1. CASE \E err \in Errors : RejectCaller(t) \/ Fail(t, err) \/ Miss(t, err)
    BY <2>1, RefusalSplits
  <2>2. CASE \E s \in Scheds : \E i \in DOMAIN comp_list[ListOf(s)].busy_list :
               SwitchToScheduler(t, s, i, status)
    BY <2>2, SwitchToSchedulerSplits
  <2> QED
    BY <1>4, <2>1, <2>2 DEF ThreadYield, Errors
<1> QED
  BY <1>1, <1>2, <1>3, <1>4 DEF SchedulerRequest

LEMMA ListInit == Init => ListInv
<1> SUFFICES ASSUME Init PROVE ListInv
  OBVIOUS
<1>1. TypeInv
  BY TypeInit
<1>2. ASSUME NEW w \in Workers PROVE ~ WorkerExists(w)
  <2>1. w[1] \in Tasks /\ w[2] \in Nat
    BY BoundsAssumption DEF Workers, Wids
  <2> QED
    BY <2>1 DEF Init, NoProcess, WorkerExists
<1>3. ASSUME NEW l \in Lists PROVE Split(l)
  <2>1. \A n \in Wids : ~ WorkerExists(<<l[1], n>>)
    BY <1>2 DEF Lists, Workers
  <2>2. \A S : MembersIn(l, S) = {}
    BY <2>1 DEF MembersIn, Members
  <2>3. comp_list[l].idle_list = <<>> /\ comp_list[l].busy_list = <<>>
    BY DEF Init, EmptyList
  <2> QED
    BY <2>2, <2>3, EmptyIsSplit DEF Split
<1> QED
  BY <1>1, <1>2, <1>3, PartitionIsSplit DEF ListInv, WorkersHaveList

LEMMA ListStep == ListInv /\ [Next]_vars => ListInv'
<1> SUFFICES ASSUME ListInv, [Next]_vars PROVE ListInv'
  OBVIOUS
<1>1. TypeInv'
  BY TypeStep DEF ListInv
<1>2. CASE UNCHANGED vars
  BY <1>1, <1>2, IdleSplits DEF vars
<1>3. CASE Next
  <2>1. \A t \in Owners : t \in Tasks
    BY TasksAssumption
  <2> QED
    BY <1>1, <1>3, <2>1, MainRequestSplits, SchedulerRequestSplits DEF Next
<1> QED
  BY <1>2, <1>3

\* The idle and the busy list of every completion list split its workers by
\* their state, each linked exactly once, whatever any task creates, executes,
\* pauses and finishes and whichever service fails on the way.
THEOREM ListsSplitWorkers == Spec => []ListPartition
<1>1. Init => ListInv
  BY ListInit
<1>2. ListInv /\ [Next]_vars => ListInv'
  BY ListStep
<1>3. ListInv => ListPartition
  BY DEF ListInv
<1> QED
  BY <1>1, <1>2, <1>3, PTL DEF Spec
-----------------------------------------------------------------------------
(* What the list operations do to the order *)

LEMMA OrderOfSame ==
  ASSUME NEW S, NEW seq \in Seq(S), NEW a \in ToSet(seq), NEW b \in ToSet(seq),
         a # b, ~ Before(seq, b, a)
  PROVE  Before(seq, a, b)
<1>1. DOMAIN seq = 1 .. Len(seq) /\ Len(seq) \in Nat
  BY LenProperties
<1>2. PICK i \in 1 .. Len(seq), j \in 1 .. Len(seq) : seq[i] = a /\ seq[j] = b
  BY <1>1 DEF ToSet
<1>3. ~ (j < i)
  BY <1>1, <1>2 DEF Before
<1>4. i # j
  BY <1>2
<1>5. i < j
  BY <1>3, <1>4
<1> QED
  BY <1>1, <1>2, <1>5 DEF Before

LEMMA OrderOfAppend ==
  ASSUME NEW S, NEW seq \in Seq(S), NEW e \in S,
         NEW a \in ToSet(seq), NEW b \in ToSet(Append(seq, e)),
         a # b, ~ Before(seq, b, a)
  PROVE  Before(Append(seq, e), a, b)
<1> DEFINE longer == Append(seq, e)
<1>1. /\ longer \in Seq(S)
      /\ Len(longer) = Len(seq) + 1
      /\ \A j \in 1 .. Len(seq) : longer[j] = seq[j]
      /\ longer[Len(seq) + 1] = e
  BY AppendProperties
<1>2. /\ DOMAIN longer = 1 .. Len(seq) + 1 /\ DOMAIN seq = 1 .. Len(seq)
      /\ Len(seq) \in Nat
  BY <1>1, LenProperties
<1>3. ToSet(longer) = ToSet(seq) \cup {e}
  BY AppendSet
<1> HIDE DEF longer
<1>4. CASE b \in ToSet(seq)
  <2>1. Before(seq, a, b)
    BY <1>4, OrderOfSame
  <2>2. PICK i \in 1 .. Len(seq), j \in 1 .. Len(seq) :
          i < j /\ seq[i] = a /\ seq[j] = b
    BY <1>2, <2>1 DEF Before
  <2>3. /\ i \in DOMAIN longer /\ j \in DOMAIN longer
        /\ longer[i] = a /\ longer[j] = b
    BY <1>1, <1>2, <2>2
  <2> QED
    BY <2>2, <2>3 DEF Before, longer
<1>5. CASE b = e
  <2>1. PICK i \in 1 .. Len(seq) : seq[i] = a
    BY <1>2 DEF ToSet
  <2>2. /\ i \in DOMAIN longer /\ Len(seq) + 1 \in DOMAIN longer
        /\ i < Len(seq) + 1 /\ longer[i] = a /\ longer[Len(seq) + 1] = b
    BY <1>1, <1>2, <1>5, <2>1
  <2> QED
    BY <2>2 DEF Before, longer
<1> QED
  BY <1>3, <1>4, <1>5 DEF longer

LEMMA OrderOfRemoval ==
  ASSUME NEW S, NEW seq \in Seq(S), NEW r \in 1 .. Len(seq),
         NEW a \in ToSet(RemoveAt(seq, r)), NEW b \in ToSet(RemoveAt(seq, r)),
         a # b, ~ Before(seq, b, a)
  PROVE  Before(RemoveAt(seq, r), a, b)
<1> DEFINE rest == RemoveAt(seq, r)
<1> PICK n \in Nat : n = Len(seq)
  BY LenProperties
<1>1. /\ rest \in Seq(S)
      /\ Len(rest) = n - 1
      /\ \A j \in 1 .. n - 1 : rest[j] = IF j < r THEN seq[j] ELSE seq[j + 1]
  BY RemoveAtProperties
<1>2. DOMAIN rest = 1 .. n - 1 /\ DOMAIN seq = 1 .. n /\ r \in 1 .. n
  BY <1>1, LenProperties
<1> HIDE DEF rest
<1>3. PICK x \in 1 .. n - 1, y \in 1 .. n - 1 : rest[x] = a /\ rest[y] = b
  BY <1>2 DEF ToSet, rest
<1> DEFINE i == IF x < r THEN x ELSE x + 1
           j == IF y < r THEN y ELSE y + 1
<1>4. /\ i \in 1 .. n /\ j \in 1 .. n
      /\ seq[i] = a /\ seq[j] = b
      /\ y < x => j < i
  BY <1>1, <1>2, <1>3
<1>5. ~ (j < i)
  <2> HIDE DEF i, j
  <2> QED
    BY <1>2, <1>4 DEF Before
<1>6. ~ (y < x)
  <2> HIDE DEF i, j
  <2> QED
    BY <1>4, <1>5
<1>7. x # y
  BY <1>3
<1>8. x < y
  BY <1>6, <1>7
<1> QED
  BY <1>2, <1>3, <1>8 DEF Before, rest

-----------------------------------------------------------------------------
(* The requests *)

OrderKept(l) ==
  \A a \in ToSet(comp_list[l].idle_list), b \in ToSet(comp_list'[l].idle_list) :
    a # b /\ a \in ToSet(comp_list'[l].idle_list)
      /\ ~ Before(comp_list[l].idle_list, b, a)
      => Before(comp_list'[l].idle_list, a, b)

\* What a request may do to an idle list.
LEMMA QueueSteps ==
  ASSUME TypeInv, NEW l \in Lists,
         \/ comp_list'[l].idle_list = comp_list[l].idle_list
         \/ comp_list'[l].idle_list = <<>>
         \/ \E wid \in Wids :
              comp_list'[l].idle_list = Append(comp_list[l].idle_list, wid)
         \/ \E i \in 1 .. Len(comp_list[l].idle_list) :
              comp_list'[l].idle_list = RemoveAt(comp_list[l].idle_list, i)
  PROVE  OrderKept(l)
<1>1. comp_list[l].idle_list \in Seq(Wids)
  BY DEF TypeInv, TypeOK, ListNodes
<1>2. CASE comp_list'[l].idle_list = comp_list[l].idle_list
  BY <1>1, <1>2, OrderOfSame DEF OrderKept
<1>3. CASE comp_list'[l].idle_list = <<>>
  <2>1. ToSet(comp_list'[l].idle_list) = {}
    BY <1>3 DEF ToSet
  <2> QED
    BY <2>1 DEF OrderKept
<1>4. ASSUME NEW wid \in Wids,
             comp_list'[l].idle_list = Append(comp_list[l].idle_list, wid)
      PROVE  OrderKept(l)
  BY <1>1, <1>4, OrderOfAppend DEF OrderKept
<1>5. ASSUME NEW i \in 1 .. Len(comp_list[l].idle_list),
             comp_list'[l].idle_list = RemoveAt(comp_list[l].idle_list, i)
      PROVE  OrderKept(l)
  BY <1>1, <1>5, OrderOfRemoval DEF OrderKept
<1> QED
  BY <1>2, <1>3, <1>4, <1>5

\* No list changes.
LEMMA OrderUnchanged ==
  ASSUME TypeInv, comp_list' = comp_list, NEW l \in Lists
  PROVE  OrderKept(l)
  BY QueueSteps

LEMMA RefusalOrder ==
  ASSUME TypeInv, NEW t \in Tasks, NEW err,
         Fail(t, err) \/ Miss(t, err) \/ RejectCaller(t) \/ Crash,
         NEW l \in Lists
  PROVE  OrderKept(l)
<1>1. comp_list' = comp_list
  BY DEF Fail, Miss, RejectCaller, Crash
<1> QED
  BY <1>1, OrderUnchanged

\* The node of one list is replaced.
LEMMA OneListOrder ==
  ASSUME TypeInv, NEW m \in Lists, NEW node,
         comp_list' = [comp_list EXCEPT ![m] = node],
         \/ node.idle_list = comp_list[m].idle_list
         \/ node.idle_list = <<>>
         \/ \E wid \in Wids : node.idle_list = Append(comp_list[m].idle_list, wid)
         \/ \E i \in 1 .. Len(comp_list[m].idle_list) :
              node.idle_list = RemoveAt(comp_list[m].idle_list, i),
         NEW l \in Lists
  PROVE  OrderKept(l)
<1>1. comp_list'[l] = IF l = m THEN node ELSE comp_list[l]
  BY DEF TypeInv, TypeOK
<1>2. CASE l = m
  BY <1>1, <1>2, QueueSteps
<1>3. CASE l # m
  BY <1>1, <1>3, QueueSteps
<1> QED
  BY <1>2, <1>3

LEMMA MainRequestOrder ==
  ASSUME TypeInv, NEW t \in Tasks, MainRequest(t), NEW l \in Lists
  PROVE  OrderKept(l)
<1>1. CASE EnterUms(t) \/ ExitUms(t)
  BY <1>1, OrderUnchanged DEF EnterUms, ExitUms, Fail
<1>2. CASE CreateCompletionList(t)
  <2> DEFINE m == <<t, process[t].list_count>>
  <2>1. CASE Fail(t, "PROCESS_NOT_FOUND")
    BY <2>1, RefusalOrder
  <2>2. CASE /\ process[t].list_count < MaxLists
             /\ comp_list' = [comp_list EXCEPT ![m] = EmptyList]
    <3>1. m \in Lists
      BY <2>2, BoundsAssumption DEF TypeInv, TypeOK, ProcessNodes, Lists, Clids
    <3>2. EmptyList.idle_list = <<>>
      BY DEF EmptyList
    <3> HIDE DEF m
    <3> QED
      BY <2>2, <3>1, <3>2, OneListOrder
  <2> QED
    BY <1>2, <2>1, <2>2 DEF CreateCompletionList
<1>3. ASSUME NEW c \in Clids, CreateWorkerThread(t, c)
      PROVE  OrderKept(l)
  <2>1. CASE \E err \in Errors : Fail(t, err) \/ Miss(t, err)
    BY <2>1, RefusalOrder
  <2>2. CASE AddWorker(t, c)
    <3> DEFINE m   == <<t, c>>
               wid == process[t].worker_count
    <3>1. m \in Lists /\ wid \in Wids
      BY <2>2, BoundsAssumption
         DEF AddWorker, TypeInv, TypeOK, ProcessNodes, Wids, Lists
    <3>2. comp_list' = [comp_list EXCEPT ![m] = LinkIdle(comp_list[m], wid)]
      BY <2>2 DEF AddWorker
    <3>3. LinkIdle(comp_list[m], wid).idle_list = Append(comp_list[m].idle_list, wid)
      BY <3>1 DEF LinkIdle, TypeInv, TypeOK, ListNodes
    <3> HIDE DEF m, wid
    <3> QED
      BY <3>1, <3>2, <3>3, OneListOrder
  <2> QED
    BY <1>3, <2>1, <2>2 DEF CreateWorkerThread, Errors
<1> QED
  BY <1>1, <1>2, <1>3 DEF MainRequest

LEMMA SchedulerRequestOrder ==
  ASSUME TypeInv, NEW t \in Tasks, SchedulerRequest(t), NEW l \in Lists
  PROVE  OrderKept(l)
<1>1. ASSUME NEW c \in Clids, EnterSchedulingMode(t, c)
      PROVE  OrderKept(l)
  <2>1. CASE \E err \in Errors : Fail(t, err) \/ Miss(t, err) \/ Crash
    BY <2>1, RefusalOrder
  <2>2. CASE AddScheduler(t, c)
    <3> DEFINE m == <<Tgid[t], c>>
    <3>1. m \in Lists /\ comp_list[m] \in ListNodes
      BY TasksAssumption DEF TypeInv, TypeOK, Lists
    <3>2. \/ comp_list' = comp_list
          \/ comp_list' = [comp_list EXCEPT ![m] = [comp_list[m] EXCEPT !.state = "RUNNING"]]
      BY <2>2 DEF AddScheduler
    <3>3. [comp_list[m] EXCEPT !.state = "RUNNING"].idle_list = comp_list[m].idle_list
      BY <3>1 DEF ListNodes
    <3> HIDE DEF m
    <3> QED
      BY <3>1, <3>2, <3>3, OrderUnchanged, OneListOrder
  <2> QED
    BY <1>1, <2>1, <2>2 DEF EnterSchedulingMode, Errors
<1>2. CASE ExitSchedulingMode(t) \/ DequeueCompletionListItems(t)
  <2>1. CASE RejectCaller(t)
    BY <2>1, RefusalOrder
  <2>2. CASE comp_list' = comp_list
    BY <2>2, OrderUnchanged
  <2> QED
    BY <1>2, <2>1, <2>2 DEF ExitSchedulingMode, DequeueCompletionListItems, Fail, Crash
<1>3. ASSUME NEW wid \in Wids \cup {NoId}, ExecuteThread(t, wid)
      PROVE  OrderKept(l)
  <2>1. CASE \E err \in Errors : RejectCaller(t) \/ Fail(t, err) \/ Miss(t, err)
    BY <2>1, RefusalOrder
  <2>2. ASSUME NEW s \in Scheds,
               NEW i \in DOMAIN comp_list[ListOf(s)].idle_list,
               SwitchToWorker(t, s, i)
        PROVE  OrderKept(l)
    <3>1. /\ ListOf(s) \in Lists /\ comp_list[ListOf(s)] \in ListNodes
          /\ i \in 1 .. Len(comp_list[ListOf(s)].idle_list)
      BY ListOfType, SwitchToWorkerTypes
    <3>2. comp_list' = [comp_list EXCEPT ![ListOf(s)] = MoveToBusy(comp_list[ListOf(s)], i)]
      BY <2>2 DEF SwitchToWorker
    <3>3. MoveToBusy(comp_list[ListOf(s)], i).idle_list
            = RemoveAt(comp_list[ListOf(s)].idle_list, i)
      BY <3>1 DEF MoveToBusy, ListNodes
    <3> QED
      BY <3>1, <3>2, <3>3, OneListOrder
  <2> QED
    BY <1>3, <2>1, <2>2 DEF ExecuteThread, Errors
<1>4. ASSUME NEW status \in Statuses, ThreadYield(t, status)
      PROVE  OrderKept(l)
  <2>1. CASE \E err \in Errors : RejectCaller(t) \/ Fail(t, err) \/ Miss(t, err)
    BY <2>1, RefusalOrder
  <2>2. ASSUME NEW s \in Scheds,
               NEW i \in DOMAIN comp_list[ListOf(s)].busy_list,
               SwitchToScheduler(t, s, i, status)
        PROVE  OrderKept(l)
    <3> DEFINE n   == comp_list[ListOf(s)]
               wid == n.busy_list[i]
    <3>1. ListOf(s) \in Lists /\ n \in ListNodes /\ wid \in Wids
      BY ListOfType, SwitchToSchedulerTypes
    <3>2. comp_list' = [comp_list EXCEPT ![ListOf(s)] = Yielded(n, i, status)]
      BY <2>2 DEF SwitchToScheduler
    <3>3. \/ Yielded(n, i, status).idle_list = n.idle_list
          \/ Yielded(n, i, status).idle_list = Append(n.idle_list, wid)
      BY <3>1 DEF Yielded, MoveToIdle, ListNodes
    <3> HIDE DEF n, wid
    <3>4. \/ Yielded(n, i, status).idle_list = n.idle_list
          \/ \E w \in Wids : Yielded(n, i, status).idle_list = Append(n.idle_list, w)
      BY <3>1, <3>3
    <3> QED
      BY <3>1, <3>2, <3>4, OneListOrder DEF n
  <2> QED
    BY <1>4, <2>1, <2>2 DEF ThreadYield, Errors
<1> QED
  BY <1>1, <1>2, <1>3, <1>4 DEF SchedulerRequest

\* Workers are offered in the order in which they became idle: no request of any
\* task lets one overtake another that was waiting in the same list.
THEOREM IdleIsAQueue == Spec => IdleOrderKept
<1>1. Init => TypeInv
  BY TypeInit
<1>2. TypeInv /\ [Next]_vars => TypeInv'
  BY TypeStep
<1>3. TypeInv /\ [Next]_vars => [\A l \in Lists : OrderKept(l)]_vars
  <2> SUFFICES ASSUME TypeInv, Next, NEW l \in Lists PROVE OrderKept(l)
    OBVIOUS
  <2>1. \A t \in Owners : t \in Tasks
    BY TasksAssumption
  <2> QED
    BY <2>1, MainRequestOrder, SchedulerRequestOrder DEF Next
<1> QED
  BY <1>1, <1>2, <1>3, PTL DEF Spec, IdleOrderKept, OrderKept

-----------------------------------------------------------------------------
(* Sums over a set, as MapThenSumSet folds it *)

\* A set of naturals has a least element.  This takes the place of induction: the
\* theorems of induction have an operator as a parameter, this one has not.
LEMMA LeastNat ==
  ASSUME NEW S, S \subseteq Nat, S # {}
  PROVE  \E x \in S : \A y \in S : x <= y
<1> PICK less : less = {pair \in Nat \X Nat : pair[1] < pair[2]}
  OBVIOUS
<1>1. OpToRel(<, Nat) = less
  BY DEF OpToRel
<1>2. IsWellFoundedOn(less, Nat)
  BY <1>1, NatLessThanWellFounded
<1>3. \E x \in S : \A y \in S : ~ (<<y, x>> \in less)
  BY <1>2, WFMin
<1>4. \A x, y \in Nat : y < x => <<y, x>> \in less
  OBVIOUS
<1>5. PICK x \in S : \A y \in S : ~ (<<y, x>> \in less)
  BY <1>3
<1>6. x \in Nat /\ \A y \in S : y \in Nat
  OBVIOUS
<1>7. \A y \in S : ~ (y < x)
  BY <1>4, <1>5, <1>6
<1> QED
  BY <1>6, <1>7

\* The element that a fold of the community modules takes first.
Chosen(s) == CHOOSE x \in s : TRUE
Others(s) == s \ {Chosen(s)}

\* A function that gives the sum of g over the sets in D.
IsSum(g, D, it) ==
  it = [s \in D |-> IF s = {} THEN 0 ELSE g[Chosen(s)] + it[Others(s)]]

SumOf(g, S) == CHOOSE it : IsSum(g, SUBSET S, it)

\* A fold takes the elements of a set one after the other.
LEMMA ChosenIn ==
  ASSUME NEW S, IsFiniteSet(S), NEW s \in SUBSET S
  PROVE  /\ IsFiniteSet(s) /\ Cardinality(s) \in Nat
         /\ s # {} => /\ Chosen(s) \in s
                      /\ Others(s) \in SUBSET S
                      /\ Cardinality(Others(s)) = Cardinality(s) - 1
                      /\ Cardinality(s) > 0
<1>1. IsFiniteSet(s) /\ Cardinality(s) \in Nat
  BY FS_Subset, FS_CardinalityType
<1>2. ASSUME s # {}
      PROVE  Chosen(s) \in s /\ Others(s) \in SUBSET S
  BY <1>2 DEF Chosen, Others
<1>3. s # {} => Cardinality(Others(s)) = Cardinality(s) - 1
  BY <1>1, <1>2, FS_RemoveElement DEF Others
<1>4. s # {} => Cardinality(s) # 0
  BY <1>1, FS_EmptySet
<1> QED
  BY <1>1, <1>2, <1>3, <1>4

\* The sums of the subsets of at most k elements exist, for every k: what has no
\* sum has no least number of elements.
Small(S, k) == {s \in SUBSET S : Cardinality(s) <= k}

LEMMA SmallSums ==
  ASSUME NEW g, NEW S, IsFiniteSet(S), NEW k \in Nat
  PROVE  \E it : IsSum(g, Small(S, k), it)
<1> DEFINE Bad == {n \in Nat : ~ \E it : IsSum(g, Small(S, n), it)}
<1>1. CASE Bad = {}
  BY <1>1
<1>2. CASE Bad # {}
  <2>1. Bad \subseteq Nat
    OBVIOUS
  <2> HIDE DEF Bad
  <2>2. PICK n \in Bad : \A m \in Bad : n <= m
    BY <1>2, <2>1, LeastNat
  <2>3. n \in Nat
    BY <2>1
  <2> PICK it : IF n = 0 THEN TRUE ELSE IsSum(g, Small(S, n - 1), it)
    <3>1. n # 0 => n - 1 \in Nat /\ n - 1 \notin Bad
      BY <2>2, <2>3
    <3> QED
      BY <3>1 DEF Bad
  <2> PICK next : next = [s \in Small(S, n) |->
                            IF s = {} THEN 0 ELSE g[Chosen(s)] + it[Others(s)]]
    OBVIOUS
  <2>4. ASSUME NEW s \in Small(S, n), s # {}
        PROVE  it[Others(s)] = next[Others(s)]
    <3>1. s \in SUBSET S /\ Cardinality(s) <= n
      BY DEF Small
    <3>2. /\ Others(s) \in SUBSET S /\ Cardinality(Others(s)) = Cardinality(s) - 1
          /\ Cardinality(s) > 0 /\ Cardinality(s) \in Nat
      BY <2>4, <3>1, ChosenIn
    <3>3. n # 0 /\ Others(s) \in Small(S, n - 1) /\ Others(s) \in Small(S, n)
      BY <2>3, <3>1, <3>2 DEF Small
    <3> QED
      BY <3>3 DEF IsSum
  <2>5. IsSum(g, Small(S, n), next)
    BY <2>4 DEF IsSum
  <2> QED
    BY <2>2, <2>5 DEF Bad
<1> QED
  BY <1>1, <1>2

\* Hence the sum of a finite set is what its definition says.
LEMMA SumIs ==
  ASSUME NEW g, NEW S, IsFiniteSet(S)
  PROVE  IsSum(g, SUBSET S, SumOf(g, S))
<1>1. Cardinality(S) \in Nat
  BY FS_CardinalityType
<1>2. \A s \in SUBSET S : Cardinality(s) <= Cardinality(S)
  BY FS_Subset
<1>3. Small(S, Cardinality(S)) = SUBSET S
  BY <1>2 DEF Small
<1>4. PICK it : IsSum(g, Small(S, Cardinality(S)), it)
  BY <1>1, SmallSums
<1>5. IsSum(g, SUBSET S, it)
  BY <1>3, <1>4 DEF IsSum
<1> QED
  BY <1>5 DEF SumOf

\* Induction along the elements a fold takes: what holds of no element and of a
\* set once it holds of the set without the one chosen first holds of every set.
LEMMA FoldInduction ==
  ASSUME NEW S, IsFiniteSet(S), NEW P, {} \in P,
         \A s \in SUBSET S : s # {} /\ Others(s) \in P => s \in P
  PROVE  S \in P
<1> DEFINE Bad == {n \in Nat : \E s \in SUBSET S : Cardinality(s) = n /\ s \notin P}
<1>1. Cardinality(S) \in Nat /\ S \in SUBSET S
  BY FS_CardinalityType
<1>2. CASE Bad = {}
  BY <1>1, <1>2
<1>3. CASE Bad # {}
  <2>1. PICK n \in Bad : \A m \in Bad : n <= m
    <3>1. Bad \subseteq Nat
      OBVIOUS
    <3> HIDE DEF Bad
    <3> QED
      BY <1>3, <3>1, LeastNat
  <2>2. PICK s \in SUBSET S : Cardinality(s) = n /\ s \notin P
    BY <2>1, Zenon
  <2>3. /\ Others(s) \in SUBSET S /\ Cardinality(Others(s)) = n - 1
        /\ Cardinality(Others(s)) \in Nat
    <3>1. s # {}
      BY <2>2
    <3>2. /\ Others(s) \in SUBSET S
          /\ Cardinality(Others(s)) = Cardinality(s) - 1
      BY <3>1, ChosenIn
    <3>3. Cardinality(Others(s)) \in Nat
      BY <3>2, ChosenIn
    <3> HIDE DEF Bad
    <3> QED
      BY <2>2, <3>2, <3>3
  <2>4. Cardinality(Others(s)) \notin Bad
    BY <2>1, <2>3
  <2> QED
    BY <2>2, <2>3, <2>4
<1> QED
  BY <1>2, <1>3

\* The sum over a set changes as the summand of one element does.
LEMMA SumChange ==
  ASSUME NEW S, IsFiniteSet(S), NEW g \in [S -> Int], NEW h \in [S -> Int],
         NEW x \in S, \A y \in S : y # x => h[y] = g[y]
  PROVE  /\ SumOf(g, S)[S] \in Int
         /\ SumOf(h, S)[S] = SumOf(g, S)[S] + (h[x] - g[x])
<1> PICK G : G = SumOf(g, S)
  OBVIOUS
<1> PICK H : H = SumOf(h, S)
  OBVIOUS
<1>1. IsSum(g, SUBSET S, G) /\ IsSum(h, SUBSET S, H)
  BY SumIs
<1> DEFINE P == {s \in SUBSET S : /\ G[s] \in Int
                                  /\ H[s] = G[s] + (IF x \in s THEN h[x] - g[x] ELSE 0)}
<1>2. {} \in P
  BY <1>1 DEF IsSum
<1>3. ASSUME NEW s \in SUBSET S, s # {}, Others(s) \in P
      PROVE  s \in P
  <2>1. Chosen(s) \in S /\ Chosen(s) \in s
    BY <1>3, ChosenIn
  <2>2. G[s] = g[Chosen(s)] + G[Others(s)] /\ H[s] = h[Chosen(s)] + H[Others(s)]
    BY <1>1, <1>3 DEF IsSum
  <2>3. x \in Others(s) <=> x \in s /\ x # Chosen(s)
    BY DEF Others
  <2>4. /\ g[Chosen(s)] \in Int /\ h[Chosen(s)] \in Int /\ g[x] \in Int /\ h[x] \in Int
        /\ Chosen(s) # x => h[Chosen(s)] = g[Chosen(s)]
    BY <2>1
  <2>5. G[Others(s)] \in Int /\ H[Others(s)] = G[Others(s)] + (IF x \in Others(s) THEN h[x] - g[x] ELSE 0)
    BY <1>3
  <2> QED
    BY <2>1, <2>2, <2>3, <2>4, <2>5
<1>4. S \in P
  <2> HIDE DEF P
  <2> QED
    BY <1>2, <1>3, FoldInduction
<1> QED
  BY <1>4

\* A sum of zeros.
LEMMA SumOfZeros ==
  ASSUME NEW S, IsFiniteSet(S), NEW g, \A x \in S : g[x] = 0
  PROVE  SumOf(g, S)[S] = 0
<1> PICK G : G = SumOf(g, S)
  OBVIOUS
<1>1. IsSum(g, SUBSET S, G)
  BY SumIs
<1> DEFINE P == {s \in SUBSET S : G[s] = 0}
<1>2. {} \in P
  BY <1>1 DEF IsSum
<1>3. ASSUME NEW s \in SUBSET S, s # {}, Others(s) \in P
      PROVE  s \in P
  <2>1. Chosen(s) \in S
    BY <1>3, ChosenIn
  <2> QED
    BY <1>1, <1>3, <2>1 DEF IsSum
<1>4. S \in P
  <2> HIDE DEF P
  <2> QED
    BY <1>2, <1>3, FoldInduction
<1> QED
  BY <1>4
=============================================================================
