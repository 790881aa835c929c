------------------------- MODULE WaitListRefinement -------------------------
(***************************************************************************)
(* The wait lists implement the abstract futex.                            *)
(***************************************************************************)
EXTENDS WaitList

\* The futex of the abstract specification: a thread's call takes effect in
\* its critical section on the list, and the rest of it is bookkeeping.
futexState(t) ==
  IF pc[t] \in Waiting
  THEN IF Contains(events[list[t]], t) THEN "blocked" ELSE "woken"
  ELSE CASE pc[t] = "opened" -> "asked"
         [] pc[t] \in {"closing", "deleting"} -> "answered"
         [] pc[t] = "idle" -> "idle"

futexQueue(a) == IF map[a] = NoList THEN <<>> ELSE events[map[a]]

futexQueues == [a \in Addrs |-> futexQueue(a)]
futexStates == [t \in Threads |-> futexState(t)]
futexReqs == [t \in Threads |-> IF futexState(t) = "answered" THEN NoCall ELSE call[t]]

F == INSTANCE Futex WITH queue <- futexQueues, req <- futexReqs, state <- futexStates

\* wait and notify are atomic: every interleaving of critical sections,
\* timeouts and wake-ups has the effect of one atomic futex operation per
\* call, with that operation's result.
ImplementsFutex == F!Spec
=============================================================================
