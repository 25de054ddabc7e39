--------------------------- MODULE MCUmsResources ---------------------------
(* Small instances of UmsResources for TLC: a main thread and two pthreads. *)
EXTENDS UmsResources

CONSTANTS main, left, right

OneThread    == {main}
ThreeThreads == {main, left, right}

\* Around the minimum: a word below, the minimum, a word above.
StackSizes == {MinSize - 1, MinSize, MinSize + 1}
=============================================================================
