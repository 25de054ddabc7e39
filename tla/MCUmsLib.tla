------------------------------ MODULE MCUmsLib ------------------------------
(* Small instances of UmsLib for TLC: a main thread and one or two pthreads. *)
EXTENDS UmsLib

CONSTANTS mainThread, left, right

MainOnly     == {mainThread}
TwoThreads   == {mainThread, left}
ThreeThreads == {mainThread, left, right}

TgidTwo   == [t \in TwoThreads |-> mainThread]
TgidThree == [t \in ThreeThreads |-> mainThread]

\* The workers of the examples: function1 pauses once, function2 never.
NoPause   == [c \in Clids |-> [n \in Wids |-> 0]]
FirstOnce == [c \in Clids |-> [n \in Wids |-> IF n = 0 THEN 1 ELSE 0]]

\* List 0 of workers that pause, for one scheduler; list 1 of workers that do
\* not, for any number of them.
FirstList == [NoPause EXCEPT ![0] = FirstOnce[0]]
OnlyOne   == {1}
OnlyZero  == {0}
=============================================================================
