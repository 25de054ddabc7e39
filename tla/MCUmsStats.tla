----------------------------- MODULE MCUmsStats -----------------------------
(* A small instance of UmsStats for TLC: main thread main, two pthreads. *)
EXTENDS UmsStats, TLC

CONSTANTS main, left, right

MainThread   == {main}
ThreeThreads == {main, left, right}
TgidThree    == [t \in ThreeThreads |-> main]

\* The pthreads are interchangeable.
Interchangeable == Permutations({left, right})
=============================================================================
