---------------------------- MODULE MCUmsClient -----------------------------
(* A small instance of UmsClient for TLC: main thread main, two pthreads.  *)
EXTENDS UmsClient

CONSTANTS main, left, right

MainThread   == {main}
ThreeThreads == {main, left, right}
TgidThree    == [t \in ThreeThreads |-> main]
=============================================================================
