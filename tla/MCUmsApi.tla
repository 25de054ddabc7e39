------------------------------ MODULE MCUmsApi ------------------------------
(* Small instances of UmsApi for TLC: a process whose main thread is main. *)
EXTENDS UmsApi

CONSTANTS main, left

OneThread  == {main}
TwoThreads == {main, left}

TgidOne == [t \in OneThread |-> main]
TgidTwo == [t \in TwoThreads |-> main]
=============================================================================
