------------------------------ MODULE IndexMap ------------------------------
(***************************************************************************)
(* The sparse identifier allocator of Include/WAVM/Inline/IndexMap.h.  It  *)
(* hands out the ids of every object of a compartment (tables, memories,   *)
(* globals, instances, contexts...), WASI file descriptors and thread ids. *)
(* All its users call it with a lock of their own held, so a call is never *)
(* interleaved with another one; the probing loop of add is nevertheless   *)
(* modelled one iteration at a time, because whether it stops is one of    *)
(* the questions asked here.                                               *)
(***************************************************************************)
EXTENDS Integers, FiniteSets

CONSTANTS
  MinIndex,   \* inMinIndex
  MaxIndex,   \* inMaxIndex
  Modulus,    \* 2^w for the unsigned type Index of width w
  FailIndex   \* failIndex, what add returns when it could not allocate

VARIABLES
  map,        \* the allocated indices: the keys of the hash map
  lastIndex,  \* the index most recently probed
  pc,         \* "idle", or "probing" inside the loop of add
  result,     \* what the last call of add returned
  start       \* lastIndex when the current (or last) call of add began

vars == <<map, lastIndex, pc, result, start>>

Indices == MinIndex .. MaxIndex

TypeOK ==
  /\ map \subseteq 0 .. Modulus - 1
  /\ lastIndex \in 0 .. Modulus - 1
  /\ pc \in {"idle", "probing"}
  /\ result \in 0 .. Modulus - 1
  /\ start \in 0 .. Modulus - 1
-----------------------------------------------------------------------------
Init ==
  /\ map = {}
  /\ lastIndex = (MinIndex - 1) % Modulus
  /\ pc = "idle"
  /\ result = FailIndex
  /\ start = (MinIndex - 1) % Modulus

\* ++lastIndex; if(lastIndex > maxIndex) { lastIndex = minIndex; }
Advance(i) ==
  LET next == (i + 1) % Modulus
  IN  IF next > MaxIndex THEN MinIndex ELSE next

\* The test add makes before it starts to probe.
ReportsFull ==
  Cardinality(map) > (MaxIndex - MinIndex + 1) % Modulus

\* A caller enters add.
add ==
  /\ pc = "idle"
  /\ IF ReportsFull
     THEN result' = FailIndex /\ UNCHANGED <<pc, start>>
     ELSE pc' = "probing" /\ start' = lastIndex /\ UNCHANGED result
  /\ UNCHANGED <<map, lastIndex>>

\* One iteration of the loop of add, with what follows the loop when it ends.
Probe ==
  LET index == Advance(lastIndex)
  IN  /\ pc = "probing"
      /\ lastIndex' = index
      /\ IF index \in map
         THEN UNCHANGED <<map, pc, result>>
         ELSE map' = map \cup {index} /\ pc' = "idle" /\ result' = index
      /\ UNCHANGED start

insertOrFail(index) ==
  /\ pc = "idle"
  /\ index \notin map
  /\ map' = map \cup {index}
  /\ UNCHANGED <<lastIndex, pc, result, start>>

removeOrFail(index) ==
  /\ pc = "idle"
  /\ index \in map
  /\ map' = map \ {index}
  /\ UNCHANGED <<lastIndex, pc, result, start>>

Next ==
  \/ add
  \/ Probe
  \/ \E index \in Indices : insertOrFail(index) \/ removeOrFail(index)

Spec == Init /\ [][Next]_vars

\* A thread inside add keeps running.
FairSpec == Spec /\ WF_vars(Probe)
-----------------------------------------------------------------------------
\* The assertions of add (IndexMap.h:37-38): every index in use lies in the
\* range the map was constructed with.  It is not so for every range: when
\* maxIndex is the largest value of Index and minIndex is not 0, the increment
\* wraps to 0 before it is compared with maxIndex, and 0 is handed out.  See
\* IdRange in ObjectGCProofs for the ranges for which it is proved.
AllocatedInRange == map \subseteq Indices

\* How far index lies after the index the call of add started from, going
\* upwards and wrapping from MaxIndex to MinIndex.
Distance(index) ==
  LET origin == IF start \in Indices THEN start ELSE MinIndex - 1
  IN  (index - origin - 1) % (MaxIndex - MinIndex + 1)

\* The comment on add (IndexMap.h:17-20), when it returns an index: nobody
\* holds it, and it is the first such index after the one allocated last,
\* cyclically; so an id that was just released is the last one to be handed
\* out again.  Proved for the same ranges.
AllocatesNextFree ==
  [][pc = "probing" /\ pc' = "idle" =>
       /\ result' \notin map
       /\ map' = map \cup {result'}
       /\ \A free \in Indices \ map : Distance(result') <= Distance(free)]_vars

\* Every call of add returns: "if all possible indices are allocated, return
\* failure" (IndexMap.h:25, and the comment at IndexMap.h:20-21).
AddReturns == pc = "probing" ~> pc = "idle"
=============================================================================
