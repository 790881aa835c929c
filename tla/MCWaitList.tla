----------------------------- MODULE MCWaitList -----------------------------
(***************************************************************************)
(* WaitList for TLC: thread, value and object identities are               *)
(* interchangeable.                                                        *)
(***************************************************************************)
EXTENDS WaitListRefinement, TLC

Symmetry == Permutations(Threads) \cup Permutations(Values) \cup Permutations(Lists)
=============================================================================
