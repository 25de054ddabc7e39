----------------------------- MODULE MCUmsModule -----------------------------
(* A small instance of UmsModule for TLC: one process of one thread. *)
EXTENDS UmsModule

CONSTANT main

OneThread == {main}
TgidOne   == [t \in OneThread |-> main]
=============================================================================
