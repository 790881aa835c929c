--------------------------- MODULE ThreadsProofs ---------------------------
(***************************************************************************)
(* Proofs about Threads, for any number of threads and both interfaces.    *)
(***************************************************************************)
EXTENDS Threads, Integers, FiniteSetTheorems, TLAPS

Labels ==
    {"absent", "allocated", "entry", "run", "exit", "ended", "spawn", "assign", "return",
     "joinAll", "exited"} \cup Holding

Outcomes == {"none", "returned", "threw"}

TypeInv ==
    /\ threads \subseteq Created
    /\ numRefs \in [Created -> Int]
    /\ pc \in [Actors -> Labels]
    /\ target \in [Actors -> Actors]
    /\ outcome \in [Created -> Outcomes] /\ reported \in [Created -> Outcomes]
    /\ got \in [Created -> Outcomes]

\* A call is about a thread that was created, and the creator of a thread is the
\* only one to start it.
TargetInv ==
    /\ \A c \in threads : pc[c] # "absent"
    /\ \A a \in Actors : pc[a] \in Holding \cup {"spawn", "assign", "return"} =>
           target[a] \in Created /\ pc[target[a]] # "absent"
    /\ \A a \in Actors : pc[a] = "spawn" => pc[target[a]] = "allocated"
    /\ \A a, b \in Actors :
           pc[a] = "spawn" /\ pc[b] = "spawn" /\ target[a] = target[b] => a = b
    /\ pc[0] \notin {"absent", "allocated", "entry", "exit", "ended"}
    /\ \A a \in Actors : pc[a] \in {"joinAll", "joinOne", "unrefOne", "exited"} => a = 0

BaseInv == TypeInv /\ TargetInv

\* The object holds how its thread ended, and is only read after that.
ResultInv ==
    /\ reported = outcome
    /\ \A a \in Actors : pc[a] = "result" => pc[target[a]] = "ended"
    /\ JoinReturnsOutcome

\* A thread that was created and has not ended is in the map or is being joined.
Claimed(c) ==
    c \in threads \/ \E a \in Actors : pc[a] \in {"join", "joinOne"} /\ target[a] = c

\* Once the process is destroyed nothing can happen any more: the threads left wait
\* for each other.
ExitInv ==
    /\ api = "Emscripten" =>
           \A c \in Created : pc[c] \notin {"absent", "ended"} => Claimed(c)
    /\ pc[0] \in {"joinAll", "joinOne", "unrefOne", "exited"} => api = "Emscripten"
    /\ pc[0] = "exited" =>
           /\ threads = {}
           /\ \A c \in Created : \/ pc[c] \in {"absent", "ended"}
                                 \/ pc[c] = "join" /\ pc[target[c]] = "join"

-----------------------------------------------------------------------------
USE DEF At, Goto, Stop, objects, results, addRef, removeRef, removeThreadById, NoTarget

LEMMA Ids == /\ Created \subseteq Actors /\ Actors = Created \cup {0} /\ 0 \notin Created
             /\ IsFiniteSet(Created) /\ IsFiniteSet(Actors)
  <1>1. Created \subseteq Actors /\ Actors = Created \cup {0} /\ 0 \notin Created
    BY ThreadsAssumption DEF Created, Actors
  <1>2. IsFiniteSet(1 .. NumThreads) /\ IsFiniteSet(0 .. NumThreads)
    BY ThreadsAssumption, FS_Interval
  <1> QED
    BY <1>1, <1>2 DEF Created, Actors

\* The disjuncts of Next.
LEMMA NextIsOneOf ==
    ASSUME [Next]_vars
    PROVE  \/ UNCHANGED vars
           \/ \E a \in Actors :
                  \/ createThread(a) \/ stackAllocationFails(a) \/ spawnThread(a)
                  \/ setPlatformThread(a) \/ returnThreadId(a) \/ waitForThread(a)
                  \/ takeResult(a) \/ detachPlatformThread(a) \/ checkDetached(a)
                  \/ releaseThread(a)
                  \/ \E c \in Created : joinThread(a, c) \/ detachThread(a, c)
           \/ \E c \in Created :
                  threadEntry(c) \/ threadReturns(c) \/ threadThrows(c) \/ threadEnds(c)
           \/ joinAllThreads \/ joinNextThread \/ processDestroyed
  BY Zenon DEF Next, Step

-----------------------------------------------------------------------------
(* Types and targets                                                       *)

LEMMA BaseInit == Init => BaseInv
  BY Ids DEF Init, BaseInv, TypeInv, TargetInv, Labels, Outcomes, Holding

LEMMA BaseStep ==
    ASSUME BaseInv, [Next]_vars
    PROVE  BaseInv'
  <1> USE Ids DEF BaseInv, TypeInv, TargetInv, Labels, Outcomes, Holding
  <1>1. CASE UNCHANGED vars
    BY <1>1 DEF vars
  <1>2. ASSUME NEW a \in Actors, createThread(a)
        PROVE  BaseInv'
    <2>1. PICK c \in Created :
            /\ pc[a] = "run" /\ pc[c] = "absent"
            /\ threads' = threads \cup {c}
            /\ numRefs' = [numRefs EXCEPT ![c] = @ + 1]
            /\ pc' = [pc EXCEPT ![a] = "spawn", ![c] = "allocated"]
            /\ target' = [target EXCEPT ![a] = c]
            /\ UNCHANGED results
      BY <1>2 DEF createThread
    <2>2. TypeInv'
      BY <2>1
    <2>3. TargetInv'
      BY <2>1
    <2> QED
      BY <2>2, <2>3
  <1>3. ASSUME NEW a \in Actors, stackAllocationFails(a) \/ returnThreadId(a)
        PROVE  BaseInv'
    BY <1>3 DEF stackAllocationFails, returnThreadId
  <1>4. ASSUME NEW a \in Actors, spawnThread(a)
        PROVE  BaseInv'
    <2>1. target[a] \in Created /\ pc[target[a]] = "allocated"
      BY <1>4 DEF spawnThread
    <2>2. TypeInv'
      BY <1>4, <2>1 DEF spawnThread
    <2>3. TargetInv'
      BY <1>4, <2>1 DEF spawnThread
    <2> QED
      BY <2>2, <2>3
  <1>5. ASSUME NEW a \in Actors, setPlatformThread(a) \/ takeResult(a)
        PROVE  BaseInv'
    BY <1>5 DEF setPlatformThread, takeResult
  <1>6. ASSUME NEW a \in Actors, waitForThread(a)
        PROVE  BaseInv'
    BY <1>6 DEF waitForThread
  <1>7. ASSUME NEW a \in Actors, detachPlatformThread(a) \/ checkDetached(a)
        PROVE  BaseInv'
    BY <1>7 DEF detachPlatformThread, checkDetached
  <1>8. ASSUME NEW a \in Actors, releaseThread(a)
        PROVE  BaseInv'
    BY <1>8 DEF releaseThread
  <1>9. ASSUME NEW a \in Actors, NEW c \in Created, joinThread(a, c) \/ detachThread(a, c)
        PROVE  BaseInv'
    BY <1>9 DEF joinThread, detachThread
  <1>10. ASSUME NEW c \in Created, threadEntry(c) \/ threadReturns(c) \/ threadThrows(c)
         PROVE  BaseInv'
    BY <1>10 DEF threadEntry, threadReturns, threadThrows
  <1>11. ASSUME NEW c \in Created, threadEnds(c)
         PROVE  BaseInv'
    BY <1>11 DEF threadEnds
  <1>12. CASE joinAllThreads \/ processDestroyed
    BY <1>12 DEF joinAllThreads, processDestroyed
  <1>13. CASE joinNextThread
    BY <1>13 DEF joinNextThread
  <1> QED
    BY NextIsOneOf, <1>1, <1>2, <1>3, <1>4, <1>5, <1>6, <1>7, <1>8, <1>9, <1>10, <1>11,
       <1>12, <1>13, Zenon

-----------------------------------------------------------------------------
(* Reference counts                                                        *)

Calls(a, c) == pc[a] \in Holding /\ target[a] = c

\* How the number of calls about c changes when only the call of a does.
LEMMA CountStep ==
    ASSUME NEW c \in Created, NEW a \in Actors,
           \A b \in Actors \ {a} : Calls(b, c)' <=> Calls(b, c)
    PROVE  /\ Cardinality(Callers(c)) \in Nat /\ Cardinality(Callers(c)') \in Nat
           /\ Cardinality(Callers(c)') + (IF Calls(a, c) THEN 1 ELSE 0)
                = Cardinality(Callers(c)) + (IF Calls(a, c)' THEN 1 ELSE 0)
  <1> DEFINE S == Callers(c)
             T == Callers(c)'
  <1>1. S \subseteq Actors /\ T \subseteq Actors
    BY DEF Callers
  <1>2. IsFiniteSet(S) /\ IsFiniteSet(T)
    BY <1>1, Ids, FS_Subset
  <1>3. S \ {a} = T \ {a}
    BY DEF Callers, Calls
  <1>4. (a \in S <=> Calls(a, c)) /\ (a \in T <=> Calls(a, c)')
    BY DEF Callers, Calls
  <1> HIDE DEF S, T
  <1>5. Cardinality(S) \in Nat /\ Cardinality(T) \in Nat
    BY <1>2, FS_CardinalityType
  <1>6. /\ Cardinality(S \ {a}) = IF a \in S THEN Cardinality(S) - 1 ELSE Cardinality(S)
        /\ Cardinality(T \ {a}) = IF a \in T THEN Cardinality(T) - 1 ELSE Cardinality(T)
    BY <1>2, FS_RemoveElement, Zenon
  <1>7. Cardinality(T) + (IF a \in S THEN 1 ELSE 0) = Cardinality(S) + (IF a \in T THEN 1 ELSE 0)
    BY <1>3, <1>5, <1>6
  <1> QED
    BY <1>4, <1>5, <1>7 DEF S, T

LEMMA RefCountInit == Init => RefCount
  <1> SUFFICES ASSUME Init, NEW c \in Created
               PROVE  numRefs[c] = (IF c \in threads THEN 1 ELSE 0) + (IF Started(c) THEN 1 ELSE 0)
                                   + Cardinality(Callers(c))
    BY DEF RefCount
  <1>1. Callers(c) = {}
    BY Ids DEF Init, Callers, Holding
  <1>2. Cardinality(Callers(c)) = 0
    BY <1>1, FS_EmptySet
  <1> QED
    BY <1>2, Ids DEF Init, Started

LEMMA RefCountStep ==
    ASSUME BaseInv, RefCount, [Next]_vars
    PROVE  RefCount'
  <1> USE Ids DEF BaseInv, TypeInv, TargetInv, Labels
  <1> SUFFICES ASSUME NEW d \in Created
               PROVE  numRefs'[d] = (IF d \in threads' THEN 1 ELSE 0)
                                    + (IF Started(d)' THEN 1 ELSE 0) + Cardinality(Callers(d)')
    BY DEF RefCount
  <1> DEFINE Goal == numRefs'[d] = (IF d \in threads' THEN 1 ELSE 0)
                                   + (IF Started(d)' THEN 1 ELSE 0) + Cardinality(Callers(d)')
  <1>0. numRefs[d] = (IF d \in threads THEN 1 ELSE 0) + (IF Started(d) THEN 1 ELSE 0)
                     + Cardinality(Callers(d))
    BY DEF RefCount
  <1>1. CASE UNCHANGED <<threads, numRefs, pc, target>>
    BY <1>0, <1>1 DEF Started, Callers
  <1>2. ASSUME NEW a \in Actors, createThread(a)
        PROVE  Goal
    <2>1. PICK c \in Created :
            /\ pc[a] = "run" /\ pc[c] = "absent"
            /\ threads' = threads \cup {c}
            /\ numRefs' = [numRefs EXCEPT ![c] = @ + 1]
            /\ pc' = [pc EXCEPT ![a] = "spawn", ![c] = "allocated"]
            /\ target' = [target EXCEPT ![a] = c]
      BY <1>2 DEF createThread
    <2>2. \A b \in Actors : Calls(b, d)' <=> Calls(b, d)
      BY <2>1 DEF Calls, Holding
    <2> QED
      BY <1>0, <2>1, <2>2, CountStep DEF Started
  <1>3. ASSUME NEW a \in Actors, stackAllocationFails(a) \/ setPlatformThread(a)
        PROVE  Goal
    <2>1. \A b \in Actors : Calls(b, d)' <=> Calls(b, d)
      BY <1>3 DEF Calls, Holding, stackAllocationFails, setPlatformThread
    <2> QED
      BY <1>0, <1>3, <2>1, CountStep DEF Started, stackAllocationFails, setPlatformThread
  <1>4. ASSUME NEW a \in Actors, spawnThread(a)
        PROVE  Goal
    <2>1. \A b \in Actors : Calls(b, d)' <=> Calls(b, d)
      BY <1>4 DEF Calls, Holding, spawnThread
    <2> QED
      BY <1>0, <1>4, <2>1, CountStep DEF Started, spawnThread
  <1>5. ASSUME NEW a \in Actors, returnThreadId(a)
        PROVE  Goal
    <2>1. \A b \in Actors : Calls(b, d)' <=> Calls(b, d)
      BY <1>5 DEF Calls, Holding, returnThreadId
    <2> QED
      BY <1>0, <1>5, <2>1, CountStep DEF Started, returnThreadId
  <1>6. ASSUME NEW a \in Actors,
               waitForThread(a) \/ takeResult(a) \/ detachPlatformThread(a) \/ checkDetached(a)
        PROVE  Goal
    <2>1. \A b \in Actors : Calls(b, d)' <=> Calls(b, d)
      BY <1>6 DEF Calls, Holding, waitForThread, takeResult, detachPlatformThread, checkDetached
    <2> QED
      BY <1>0, <1>6, <2>1, CountStep
         DEF Started, Holding, waitForThread, takeResult, detachPlatformThread, checkDetached
  <1>7. ASSUME NEW a \in Actors, releaseThread(a)
        PROVE  Goal
    <2>1. /\ \A b \in Actors \ {a} : Calls(b, d)' <=> Calls(b, d)
          /\ Calls(a, d) <=> target[a] = d
          /\ ~ Calls(a, d)'
      BY <1>7 DEF Calls, Holding, releaseThread
    <2>2. /\ Cardinality(Callers(d)) \in Nat /\ Cardinality(Callers(d)') \in Nat
          /\ Cardinality(Callers(d)') + (IF target[a] = d THEN 1 ELSE 0) = Cardinality(Callers(d))
      BY <2>1, CountStep
    <2> QED
      BY <1>0, <1>7, <2>2 DEF Started, Holding, releaseThread
  <1>8. ASSUME NEW a \in Actors, NEW c \in Created, NEW label \in {"join", "detach", "joinOne"},
               pc[a] \in {"run", "joinAll"}, removeThreadById(a, c, label)
        PROVE  Goal
    <2>1. /\ \A b \in Actors \ {a} : Calls(b, d)' <=> Calls(b, d)
          /\ ~ Calls(a, d)
          /\ Calls(a, d)' <=> c = d
      BY <1>8 DEF Calls, Holding
    <2>2. /\ Cardinality(Callers(d)) \in Nat /\ Cardinality(Callers(d)') \in Nat
          /\ Cardinality(Callers(d)') = Cardinality(Callers(d)) + (IF c = d THEN 1 ELSE 0)
      BY <2>1, CountStep
    <2> QED
      BY <1>0, <1>8, <2>2 DEF Started
  <1>9. ASSUME NEW c \in Created, threadEntry(c) \/ threadReturns(c) \/ threadThrows(c)
        PROVE  Goal
    <2>1. \A b \in Actors : Calls(b, d)' <=> Calls(b, d)
      BY <1>9 DEF Calls, Holding, threadEntry, threadReturns, threadThrows
    <2> QED
      BY <1>0, <1>9, <2>1, CountStep DEF Started, threadEntry, threadReturns, threadThrows
  <1>10. ASSUME NEW c \in Created, threadEnds(c)
         PROVE  Goal
    <2>1. \A b \in Actors : Calls(b, d)' <=> Calls(b, d)
      BY <1>10 DEF Calls, Holding, threadEnds
    <2> QED
      BY <1>0, <1>10, <2>1, CountStep DEF Started, threadEnds
  <1>11. CASE joinAllThreads \/ processDestroyed
    <2>1. \A b \in Actors : Calls(b, d)' <=> Calls(b, d)
      BY <1>11 DEF Calls, Holding, joinAllThreads, processDestroyed
    <2>2. Callers(d)' = Callers(d)
      BY <2>1 DEF Callers, Calls
    <2>3. /\ threads' = threads /\ numRefs' = numRefs
          /\ Started(d)' <=> Started(d)
      BY <1>11 DEF Started, joinAllThreads, processDestroyed
    <2> QED
      BY <1>0, <2>2, <2>3
  <1>12. ASSUME NEW a \in Actors, NEW c \in Created, joinThread(a, c) \/ detachThread(a, c)
         PROVE  Goal
    BY <1>8, <1>12, Zenon DEF joinThread, detachThread
  <1>13. CASE joinNextThread
    BY <1>8, <1>13, Zenon DEF joinNextThread
  <1>14. UNCHANGED vars => UNCHANGED <<threads, numRefs, pc, target>>
    BY DEF vars
  <1> QED
    BY NextIsOneOf, <1>1, <1>2, <1>3, <1>4, <1>5, <1>6, <1>7, <1>9, <1>10, <1>11, <1>12,
       <1>13, <1>14, Zenon

-----------------------------------------------------------------------------
(* What a joiner gets                                                      *)

LEMMA ResultInit == Init => ResultInv
  BY Ids DEF Init, ResultInv, JoinReturnsOutcome

LEMMA ResultStep ==
    ASSUME BaseInv, ResultInv, [Next]_vars
    PROVE  ResultInv'
  <1> USE Ids DEF BaseInv, TypeInv, TargetInv, ResultInv, JoinReturnsOutcome, Holding
  <1>1. CASE UNCHANGED vars
    BY <1>1 DEF vars
  <1>2. ASSUME NEW a \in Actors, createThread(a)
        PROVE  ResultInv'
    BY <1>2 DEF createThread
  <1>3. ASSUME NEW a \in Actors, stackAllocationFails(a) \/ setPlatformThread(a)
        PROVE  ResultInv'
    BY <1>3 DEF stackAllocationFails, setPlatformThread
  <1>4. ASSUME NEW a \in Actors, spawnThread(a)
        PROVE  ResultInv'
    BY <1>4 DEF spawnThread
  <1>5. ASSUME NEW a \in Actors, returnThreadId(a) \/ releaseThread(a)
        PROVE  ResultInv'
    BY <1>5 DEF returnThreadId, releaseThread
  <1>6. ASSUME NEW a \in Actors, waitForThread(a)
        PROVE  ResultInv'
    BY <1>6 DEF waitForThread
  <1>7. ASSUME NEW a \in Actors, takeResult(a)
        PROVE  ResultInv'
    BY <1>7 DEF takeResult
  <1>8. ASSUME NEW a \in Actors, detachPlatformThread(a) \/ checkDetached(a)
        PROVE  ResultInv'
    BY <1>8 DEF detachPlatformThread, checkDetached
  <1>9. ASSUME NEW a \in Actors, NEW c \in Created, joinThread(a, c) \/ detachThread(a, c)
        PROVE  ResultInv'
    BY <1>9 DEF joinThread, detachThread
  <1>10. ASSUME NEW c \in Created, threadEntry(c) \/ threadEnds(c)
         PROVE  ResultInv'
    BY <1>10 DEF threadEntry, threadEnds
  <1>11. ASSUME NEW c \in Created, threadReturns(c) \/ threadThrows(c)
         PROVE  ResultInv'
    BY <1>11 DEF threadReturns, threadThrows
  <1>12. CASE joinAllThreads \/ joinNextThread \/ processDestroyed
    BY <1>12 DEF joinAllThreads, joinNextThread, processDestroyed
  <1> QED
    BY NextIsOneOf, <1>1, <1>2, <1>3, <1>4, <1>5, <1>6, <1>7, <1>8, <1>9, <1>10, <1>11, <1>12,
       Zenon

-----------------------------------------------------------------------------
(* The end of the process                                                  *)

\* When the map is empty and the main thread joins nobody, the threads that have not
\* ended are as many as those that join them, which are among them: every one of them
\* joins another one.
LEMMA LeftoversJoinEachOther ==
    ASSUME BaseInv, threads = {}, pc[0] = "joinAll",
           \A c \in Created : pc[c] \notin {"absent", "ended"} => Claimed(c)
    PROVE  \A c \in Created : \/ pc[c] \in {"absent", "ended"}
                              \/ pc[c] = "join" /\ pc[target[c]] = "join"
  <1> DEFINE Left == {c \in Created : pc[c] \notin {"absent", "ended"}}
             Joins(a, c) == pc[a] = "join" /\ target[a] = c
             joiner == [c \in Left |-> CHOOSE a \in Left : Joins(a, c)]
  <1>1. IsFiniteSet(Left)
    BY Ids, FS_Subset
  <1>2. ASSUME NEW c \in Left
        PROVE  \E a \in Left : Joins(a, c)
    <2>1. PICK a \in Actors : pc[a] \in {"join", "joinOne"} /\ target[a] = c
      BY <1>2 DEF Claimed
    <2>2. a # 0 /\ pc[a] = "join"
      BY <2>1 DEF BaseInv, TargetInv
    <2> QED
      BY <2>1, <2>2, Ids
  <1>3. \A c \in Left : joiner[c] \in Left /\ Joins(joiner[c], c)
    BY <1>2
  <1>4. joiner \in [Left -> Left]
    BY <1>3, Zenon
  <1>5. joiner \in Injection(Left, Left)
    BY <1>3, <1>4 DEF Injection, IsInjective
  <1>6. joiner \in Surjection(Left, Left)
    BY <1>1, <1>5, FS_Injection
  <1>7. ASSUME NEW a \in Left
        PROVE  \E c \in Left : Joins(a, c)
    <2> HIDE DEF joiner, Left, Joins
    <2>1. \E c \in Left : joiner[c] = a
      BY <1>6 DEF Surjection
    <2> QED
      BY <1>3, <2>1
  <1>8. \A a \in Left : pc[a] = "join"
    BY <1>7
  <1> QED
    BY <1>7, <1>8

LEMMA ExitInit == Init => ExitInv
  BY Ids DEF Init, ExitInv

LEMMA ExitStep ==
    ASSUME BaseInv, ExitInv, [Next]_vars
    PROVE  ExitInv'
  <1> USE Ids DEF BaseInv, TypeInv, TargetInv, ExitInv, Claimed, Holding
  <1>1. CASE UNCHANGED vars
    BY <1>1 DEF vars
  <1>2. ASSUME NEW a \in Actors, createThread(a)
        PROVE  ExitInv'
    BY <1>2 DEF createThread
  <1>3. ASSUME NEW a \in Actors, stackAllocationFails(a) \/ setPlatformThread(a)
        PROVE  ExitInv'
    BY <1>3 DEF stackAllocationFails, setPlatformThread
  <1>4. ASSUME NEW a \in Actors, spawnThread(a)
        PROVE  ExitInv'
    BY <1>4 DEF spawnThread
  <1>5. ASSUME NEW a \in Actors, returnThreadId(a) \/ releaseThread(a)
        PROVE  ExitInv'
    BY <1>5 DEF returnThreadId, releaseThread
  <1>6. ASSUME NEW a \in Actors, waitForThread(a)
        PROVE  ExitInv'
    BY <1>6 DEF waitForThread
  <1>7. ASSUME NEW a \in Actors, takeResult(a)
        PROVE  ExitInv'
    BY <1>7 DEF takeResult
  <1>8. ASSUME NEW a \in Actors, detachPlatformThread(a) \/ checkDetached(a)
        PROVE  ExitInv'
    BY <1>8 DEF detachPlatformThread, checkDetached
  <1>9. ASSUME NEW a \in Actors, NEW c \in Created, joinThread(a, c) \/ detachThread(a, c)
        PROVE  ExitInv'
    BY <1>9 DEF joinThread, detachThread
  <1>10. ASSUME NEW c \in Created, threadEntry(c) \/ threadEnds(c)
         PROVE  ExitInv'
    BY <1>10 DEF threadEntry, threadEnds
  <1>11. ASSUME NEW c \in Created, threadReturns(c) \/ threadThrows(c)
         PROVE  ExitInv'
    BY <1>11 DEF threadReturns, threadThrows
  <1>12. CASE joinAllThreads \/ joinNextThread
    BY <1>12 DEF joinAllThreads, joinNextThread
  <1>13. CASE processDestroyed
    <2>1. \A c \in Created : \/ pc[c] \in {"absent", "ended"}
                             \/ pc[c] = "join" /\ pc[target[c]] = "join"
      BY <1>13, LeftoversJoinEachOther DEF processDestroyed
    <2> QED
      BY <1>13, <2>1 DEF processDestroyed
  <1> QED
    BY NextIsOneOf, <1>1, <1>2, <1>3, <1>4, <1>5, <1>6, <1>7, <1>8, <1>9, <1>10, <1>11, <1>12,
       <1>13, Zenon

-----------------------------------------------------------------------------
(* The theorems                                                            *)

\* However threads are created, joined and detached, the count of a Thread object is
\* the number of those who hold it: the map, the thread itself and the calls that join
\* or detach it.
THEOREM RefCountAlways == Spec => []RefCount
  <1>1. Init => BaseInv /\ RefCount
    BY BaseInit, RefCountInit
  <1>2. BaseInv /\ RefCount /\ [Next]_vars => (BaseInv /\ RefCount)'
    BY BaseStep, RefCountStep
  <1> QED
    BY <1>1, <1>2, PTL DEF Spec

\* What joinThread returns is how the thread it joined has ended.
THEOREM JoinReturnsOutcomeAlways == Spec => []JoinReturnsOutcome
  <1>1. Init => BaseInv /\ ResultInv
    BY BaseInit, ResultInit
  <1>2. BaseInv /\ ResultInv /\ [Next]_vars => (BaseInv /\ ResultInv)'
    BY BaseStep, ResultStep
  <1>3. ResultInv => JoinReturnsOutcome
    BY DEF ResultInv
  <1> QED
    BY <1>1, <1>2, <1>3, PTL DEF Spec

\* When the process has joined all threads and is destroyed, no thread runs or will
\* ever run again, however many threads were created and joined each other.
THEOREM ExitWaitsForThreadsAlways == Spec => []ExitWaitsForThreads
  <1>1. Init => BaseInv /\ ExitInv
    BY BaseInit, ExitInit
  <1>2. BaseInv /\ ExitInv /\ [Next]_vars => (BaseInv /\ ExitInv)'
    BY BaseStep, ExitStep
  <1>3. ExitInv => ExitWaitsForThreads
    BY DEF ExitInv, ExitWaitsForThreads
  <1> QED
    BY <1>1, <1>2, <1>3, PTL DEF Spec
=============================================================================
