-------------------------- MODULE WorkerScheduling --------------------------
(***************************************************************************)
(* What user-mode scheduling promises to a program, with no lists, nodes,  *)
(* register snapshots or errors: workers belong to a completion list whose *)
(* population is closed by the first scheduler that attaches to it; a host *)
(* (a pthread turned scheduler) runs at most one worker at a time, only of *)
(* the list it is attached to; a worker runs on at most one host, and once *)
(* done it never runs again.                                               *)
(***************************************************************************)
CONSTANTS Workers, Lists, Hosts

VARIABLES
  phase,      \* of each worker
  member,     \* pairs <<worker, list>>
  closed,     \* the lists that take no more workers
  attached,   \* pairs <<host, list>>
  on          \* pairs <<host, worker>>: who is running whom

vars == <<phase, member, closed, attached, on>>

Init == /\ phase = [w \in Workers |-> "absent"]
        /\ member = {}
        /\ closed = {}
        /\ attached = {}
        /\ on = {}

Create(w, l) ==
  /\ phase[w] = "absent"
  /\ l \notin closed
  /\ phase' = [phase EXCEPT ![w] = "ready"]
  /\ member' = member \cup {<<w, l>>}
  /\ UNCHANGED <<closed, attached, on>>

Attach(h, l) ==
  /\ \A k \in Lists : <<h, k>> \notin attached
  /\ attached' = attached \cup {<<h, l>>}
  /\ closed' = closed \cup {l}
  /\ UNCHANGED <<phase, member, on>>

Dispatch(h, w) ==
  /\ phase[w] = "ready"
  /\ \A v \in Workers : <<h, v>> \notin on
  /\ \E l \in Lists : <<w, l>> \in member /\ <<h, l>> \in attached
  /\ phase' = [phase EXCEPT ![w] = "running"]
  /\ on' = on \cup {<<h, w>>}
  /\ UNCHANGED <<member, closed, attached>>

\* The worker gives its host back, paused or done.
Release(h, w, outcome) ==
  /\ <<h, w>> \in on
  /\ phase[w] = "running"
  /\ phase' = [phase EXCEPT ![w] = outcome]
  /\ on' = on \ {<<h, w>>}
  /\ UNCHANGED <<member, closed, attached>>

Detach(h, l) ==
  /\ <<h, l>> \in attached
  /\ \A v \in Workers : <<h, v>> \notin on
  /\ attached' = attached \ {<<h, l>>}
  /\ UNCHANGED <<phase, member, closed, on>>

Next ==
  \/ \E w \in Workers, l \in Lists : Create(w, l)
  \/ \E h \in Hosts, l \in Lists : Attach(h, l) \/ Detach(h, l)
  \/ \E h \in Hosts, w \in Workers :
       Dispatch(h, w) \/ Release(h, w, "ready") \/ Release(h, w, "done")

Spec == Init /\ [][Next]_vars
=============================================================================
