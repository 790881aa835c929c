------------------------------ MODULE MCObjectCache ------------------------------
(*********************************************************************************)
(* Model checking ObjectCache with two processes that share their entries and one that *)
(* compiles with other options.                                                     *)
(*********************************************************************************)
EXTENDS ObjectCache

CONSTANTS p1, p2, p3, k1, k2

MCProcs == {p1, p2, p3}
MCCodeKey == [p \in MCProcs |-> IF p = p3 THEN k2 ELSE k1]

\* A crash brings back no more than the commit before the last, so that older ones, which
\* were checked when they were the last, do not tell states apart.
Surviving ==
    <<SubSeq(log, IF Len(log) = 1 THEN 1 ELSE Len(log) - 1, Len(log)), work, call, clock, calls, faults>>
==================================================================================
