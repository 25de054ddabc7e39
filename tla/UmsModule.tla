------------------------------ MODULE UmsModule ------------------------------
(***************************************************************************)
(* The life of the kernel module around its requests: init_dev and         *)
(* exit_dev (src/src/module/ums_dev.c), the files under /proc/ums and the  *)
(* release of every node (ums_api.c).  Requests are those of UmsApi, by    *)
(* tasks that have /dev/ums open; /proc files are opened and read at any   *)
(* time, without the spinlock; the module is unloaded when no descriptor   *)
(* of its device is open, which is what the owner field of fops_ums asks   *)
(* of the kernel.                                                          *)
(*                                                                         *)
(* A scheduler's directory holds a file for each worker that was in its    *)
(* list when the directory was made.  The proc_entry of a worker is set    *)
(* when a directory gets a file for it; kmalloc leaves it undefined.       *)
(***************************************************************************)
EXTENDS UmsApi

VARIABLES
  module,       \* where init_dev or exit_dev is
  devices,      \* the tasks that have /dev/ums open
  dirs,         \* the directory of each scheduler
  place,        \* where the directories of each process's schedulers are made
  reader,       \* the node whose /proc file is open, or NoNode
  freed,        \* how often cleanup has freed each node
  wild          \* what else was used that is not there: "kfree", "code"

outer == <<module, devices, dirs, place, reader, freed, wild>>
all   == <<vars, outer>>

Node(kind, id) == <<kind, id>>
Nodes == {Node("worker", w) : w \in Workers}
           \cup {Node("scheduler", s) : s \in Scheds}

NoNode == Node("none", <<>>)

\* A directory: the workers whose proc_entry was set for it, and those of them
\* that proc_create has refused a file.
NoDir == [made |-> "none", files |-> {}, refused |-> {}]

ModuleInit ==
  /\ Init
  /\ module = "absent"
  /\ devices = {}
  /\ dirs = [s \in Scheds |-> NoDir]
  /\ place = [p \in Tasks |-> "proc_ums"]
  /\ reader = NoNode
  /\ freed = [n \in Nodes |-> 0]
  /\ wild = "none"

\* Mutant of ExitOrder.
CleanupFirst == <<"loaded", "cleanup", "delete_proc", "misc_deregister", "unloaded">>

\* exit_dev's calls, in their order; module names the next one.
ExitOrder == <<"loaded", "delete_proc", "misc_deregister", "cleanup", "unloaded">>

Place(call) == CHOOSE i \in 1 .. 5 : ExitOrder[i] = call
After(call) == ExitOrder[1 + Place(call)]

\* The device can be opened; the module's code is there.
Live      == module \in {"registered", "loaded"}
CodeThere == module \notin {"absent", "failed", "unloaded"}

-----------------------------------------------------------------------------
(* Loading *)

\* init_dev: misc_register makes the device, which can be opened from now on.
\* When it fails nothing has been done, and init_dev may be tried again.
RegisterDevice ==
  /\ module = "absent"
  /\ module' = "registered"
  /\ UNCHANGED <<vars, devices, dirs, place, reader, freed, wild>>

\* init_dev: /proc/ums.  When it fails the device stays registered, for a
\* module that is not there.
InitProc ==
  /\ module = "registered"
  /\ \/ module' = "loaded"
     \/ "proc" \in Faults /\ module' = "failed"
  /\ UNCHANGED <<vars, devices, dirs, place, reader, freed, wild>>

-----------------------------------------------------------------------------
(* Tasks *)

\* Code that is not there is called.
Wild(what) == /\ wild' = what
              /\ UNCHANGED <<vars, module, devices, dirs, place, reader, freed>>

OpenDevice(t) ==
  /\ t \notin devices
  /\ \/ /\ Live
        /\ devices' = devices \cup {t}
        /\ UNCHANGED <<vars, module, dirs, place, reader, freed, wild>>
     \/ /\ module = "failed"
        /\ Wild("code")

\* By the task, or when it ends.
CloseDevice(t) ==
  /\ t \in devices
  /\ devices' = devices \ {t}
  /\ UNCHANGED <<vars, module, dirs, place, reader, freed, wild>>

\* Mutant of Listed: the busy workers forgotten.
ListedIdle(l) == ToSet(l.idle_list)

\* create_scheduler_proc_entry walks both lists of the completion list.
Listed(l) == ToSet(l.idle_list) \cup ToSet(l.busy_list)

\* The directories that enter_scheduling_mode may have made when it returns err.
\* It does not hear of a worker's file that was refused.
DirsMade(err, l) ==
  CASE err = "SUCCESS" ->
         {[made |-> "complete", files |-> Listed(l), refused |-> r] :
            r \in IF "proc" \in Faults THEN SUBSET Listed(l) ELSE {{}}}
    [] err = "FAILED_TO_CREATE_PROC_ENTRY" -> {[NoDir EXCEPT !.made = "partial"]}
    [] OTHER -> {NoDir}

\* Where the schedulers of a process that enters now get their directories: in
\* /proc/ums/<pid>/schedulers; in /proc/<pid>/schedulers while proc_ums is not
\* set; in /proc itself when mkdir of "schedulers" failed, the parent being NULL.
PlaceOf(entry) ==
  CASE entry = "partial"                            -> "proc"
    [] entry # "partial" /\ module = "registered"   -> "proc_pid"
    [] OTHER                                        -> "proc_ums"

EnterUmsDir(t) ==
  /\ EnterUms(t)
  /\ place' = IF process' = process THEN place
              ELSE [place EXCEPT ![t] = PlaceOf(process'[t].proc_entry)]
  /\ UNCHANGED dirs

EnterSchedulingModeDir(t, c) ==
  LET p == Tgid[t]
      s == <<p, process[p].schedulers>>
  IN
  /\ EnterSchedulingMode(t, c)
  /\ IF process' # process
     THEN \E dir \in DirsMade(reply'.err, comp_list[<<p, c>>]) :
            dirs' = [dirs EXCEPT ![s] = dir]
     ELSE UNCHANGED dirs
  /\ UNCHANGED place

OtherRequest(t) ==
  /\ \/ /\ t \in Owners
        /\ \/ ExitUms(t)
           \/ CreateCompletionList(t)
           \/ \E c \in Clids : CreateWorkerThread(t, c)
     \/ ExitSchedulingMode(t)
     \/ \E wid \in Wids \cup {NoId} : ExecuteThread(t, wid)
     \/ \E status \in Statuses : ThreadYield(t, status)
     \/ DequeueCompletionListItems(t)
  /\ UNCHANGED <<dirs, place>>

\* ioctl_ums, through an open descriptor.
Request(t) ==
  /\ t \in devices
  /\ \/ /\ Live
        /\ \/ t \in Owners /\ EnterUmsDir(t)
           \/ \E c \in Clids : EnterSchedulingModeDir(t, c)
           \/ OtherRequest(t)
        /\ UNCHANGED <<module, devices, reader, freed, wild>>
     \/ /\ module = "failed"
        /\ Wild("code")

-----------------------------------------------------------------------------
(* Readers of /proc *)

\* The directories that can be seen: under /proc/ums until delete_proc has run,
\* elsewhere for ever, when no process of that number hides them.
Visible(s) ==
  /\ dirs[s].made = "complete"
  /\ \/ module \in ToSet(ExitOrder) /\ Place(module) <= Place("delete_proc")
     \/ place[s[1]] # "proc_ums"

\* scheduler_proc_open and worker_proc_open read the pid off the directories
\* above: in /proc itself there is none, and they return an error.
PidInPath(s) == place[s[1]] # "proc"

\* check_if_scheduler_exists, on the sid that names the directory of s.
InfoNode(s) ==
  <<s[1], Min({n \in Sids : SchedExists(<<s[1], n>>)
                  /\ scheduler[<<s[1], n>>].sid = scheduler[s].sid})>>

\* scheduler_proc_open and worker_proc_open keep the node for the reads; once
\* the module is gone there is no code to open a file with.
OpenFile(s) ==
  /\ reader = NoNode
  /\ Visible(s)
  /\ \/ /\ CodeThere /\ PidInPath(s)
        /\ \/ reader' = Node("scheduler", InfoNode(s))
           \/ \E wid \in dirs[s].files \ dirs[s].refused :
                reader' = Node("worker", <<s[1], wid>>)
        /\ UNCHANGED <<vars, module, devices, dirs, place, freed, wild>>
     \/ /\ ~ CodeThere
        /\ Wild("code")

CloseFile ==
  /\ reader # NoNode
  /\ reader' = NoNode
  /\ UNCHANGED <<vars, module, devices, dirs, place, freed, wild>>

-----------------------------------------------------------------------------
(* Unloading *)

Unused == devices = {}

\* rmmod: refused while a descriptor is open.
BeginExit ==
  /\ module = "loaded"
  /\ Unused
  /\ module' = After("loaded")
  /\ UNCHANGED <<vars, devices, dirs, place, reader, freed, wild>>

\* proc_remove takes away everything below /proc/ums; it waits for reads in
\* progress and closes what is open.
DeleteProc ==
  /\ module = "delete_proc"
  /\ reader' = IF reader # NoNode /\ place[reader[2][1]] # "proc_ums"
               THEN reader ELSE NoNode
  /\ module' = After("delete_proc")
  /\ UNCHANGED <<vars, devices, dirs, place, freed, wild>>

Deregister ==
  /\ module = "misc_deregister"
  /\ module' = After("misc_deregister")
  /\ UNCHANGED <<vars, devices, dirs, place, reader, freed, wild>>

\* Mutant of StillLinked: workers freed through their list are not taken off
\* the process's list.
StillLinkedAll(p) == {n \in Wids : WorkerExists(<<p, n>>)}

\* delete_workers_from_completion_list, on both lists of l, if not empty.
FreedByList(l) ==
  (IF comp_list[l].idle_count > 0 THEN comp_list[l].idle_list ELSE <<>>)
    \o (IF comp_list[l].busy_count > 0 THEN comp_list[l].busy_list ELSE <<>>)

\* What is left in the process's list of workers after its completion lists.
StillLinked(p) ==
  {n \in Wids : WorkerExists(<<p, n>>)
                /\ \A l \in Lists : l[1] = p => n \notin ToSet(FreedByList(l))}

Occurrences(n, seq) == Cardinality({i \in DOMAIN seq : seq[i] = n})

\* delete_process_safe, for every process.
FreesOf(node) ==
  LET id == node[2] IN
  IF node[1] = "scheduler"
  THEN IF SchedExists(id) THEN 1 ELSE 0
  ELSE (IF id[2] \in StillLinked(id[1]) THEN 1 ELSE 0)
         + MapThenSumSet(LAMBDA l : Occurrences(id[2], FreedByList(l)),
                         {l \in Lists : l[1] = id[1]})

\* The proc_entry of a node was never set.
Unset(node) ==
  LET id == node[2] IN
  IF node[1] = "scheduler" THEN SchedExists(id) /\ scheduler[id].home = Garbage
  ELSE /\ WorkerExists(id)
       /\ \A s \in Scheds : s[1] = id[1] => id[2] \notin dirs[s].files

\* cleanup, kfree(temp->proc_entry) of every node included: an undefined
\* pointer may happen to be NULL.
Cleanup ==
  /\ module = "cleanup"
  /\ \/ /\ freed' = [node \in Nodes |-> FreesOf(node)]
        /\ module' = After("cleanup")
        /\ process' = [p \in Tasks |-> NoProcess]
        /\ comp_list' = [l \in Lists |-> EmptyList]
        /\ worker' = [w \in Workers |-> NoWorker]
        /\ scheduler' = [s \in Scheds |-> NoSched]
        /\ UNCHANGED <<regs, reply, undef, devices, dirs, place, reader, wild>>
     \/ /\ \E node \in Nodes : Unset(node)
        /\ Wild("kfree")

-----------------------------------------------------------------------------
ModuleNext ==
  /\ ~ undef /\ wild = "none"
  /\ \/ RegisterDevice
     \/ InitProc
     \/ \E t \in Tasks : OpenDevice(t) \/ CloseDevice(t) \/ Request(t)
     \/ \E s \in Scheds : OpenFile(s)
     \/ CloseFile
     \/ BeginExit
     \/ DeleteProc
     \/ Deregister
     \/ Cleanup

ModuleSpec == ModuleInit /\ [][ModuleNext]_all

-----------------------------------------------------------------------------
(* Properties *)

\* The directory of a scheduler has a file, or was refused one, for every worker
\* of its list, the busy ones included, and no worker joins the list behind its
\* back.
DirectoryComplete ==
  \A s \in Scheds :
    SchedExists(s) /\ dirs[s].made = "complete" =>
      dirs[s].files = Members(ListOf(s))

\* The info file in a scheduler's directory, which finds its node by the sid,
\* shows that scheduler, unless an earlier one was given up half-made, when its
\* parameters could not be copied back.
InfoIsOwn ==
  \A s \in Scheds :
    SchedExists(s) /\ dirs[s].made = "complete" =>
      InfoNode(s) = s \/ scheduler[InfoNode(s)].home = Garbage

\* cleanup frees every worker node exactly once, although each hangs in two
\* lists, those of the process and of its completion list, and both are freed.
FreedOnce ==
  [][module # "unloaded" /\ module' = "unloaded" =>
       \A w \in Workers :
         freed'[Node("worker", w)] = IF WorkerExists(w) THEN 1 ELSE 0]_all

\* Nothing that cleanup has freed can be reached any more: not by a request, and
\* through /proc only where delete_proc does not reach.  An open file leads to a
\* freed node only when its process entered before /proc/ums was there, never
\* when its directories had to be made in /proc itself; the directories that are
\* still seen are of these two kinds.
FreedIsUnreachable ==
  \A node \in Nodes :
    freed[node] > 0 =>
      /\ devices = {}
      /\ reader = node => place[node[2][1]] = "proc_pid"
      /\ \A s \in Scheds :
           s[1] = node[2][1] /\ Visible(s) => place[s[1]] # "proc_ums"

\* A pointer that cleanup frees without anybody having set it is that of a worker
\* whose list never had a directory, or of a scheduler given up half-made.
UnsetIsUnlisted ==
  wild = "kfree" =>
    \/ \E s \in Scheds : SchedExists(s) /\ scheduler[s].home = Garbage
    \/ \E w \in Workers :
         /\ WorkerExists(w)
         /\ \A s \in Scheds : SchedExists(s) /\ dirs[s].made = "complete" =>
                             ListOf(s) # <<w[1], worker[w].clid>>
=============================================================================
