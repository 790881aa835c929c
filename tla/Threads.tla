------------------------------ MODULE Threads ------------------------------
(***************************************************************************)
(* The threads that WebAssembly code creates, joins and detaches           *)
(* (Lib/ThreadTest/ThreadTest.cpp and Lib/Emscripten/EmscriptenThreads.cpp)*)
(* and the reference-counted Thread objects behind them.                   *)
(*                                                                         *)
(* Thread 0 is the main thread.  The k-th thread to be created gets ID k:  *)
(* IDs come from an IndexMap, which does not reuse an ID before it has     *)
(* gone round all of them.  A call with an ID that is not in the map       *)
(* throws (or returns ESRCH) and changes nothing; it is left out.          *)
(***************************************************************************)
EXTENDS Naturals, FiniteSets

CONSTANTS NumThreads,   \* bound on the threads created
          APIs          \* the interfaces modelled: "ThreadTest", "Emscripten"

ASSUME ThreadsAssumption ==
    NumThreads \in Nat /\ APIs \subseteq {"ThreadTest", "Emscripten"}

Created == 1..NumThreads
Actors == 0..NumThreads

VARIABLES
    api,        \* the interface in use
    threads,    \* the IDs in the map
    numRefs,    \* per Thread object; the object is deleted when it drops to 0
    platform,   \* the objects whose platformThread is set
    pc,         \* per thread: where it is
    target,     \* per thread: the Thread object its current call is about
    outcome,    \* per thread: how its entry function ended
    reported,   \* per object: what its threwException and result say
    got,        \* per object: what joinThread returned
    status      \* "ok", or why the process has stopped

objects == <<threads, numRefs, platform>>
results == <<outcome, reported, got>>
vars == <<api, objects, pc, target, results, status>>

NoTarget == 0

Init ==
    /\ api \in APIs
    /\ threads = {}
    /\ numRefs = [c \in Created |-> 0]
    /\ platform = {}
    /\ pc = [a \in Actors |-> IF a = 0 THEN "run" ELSE "absent"]
    /\ target = [a \in Actors |-> NoTarget]
    /\ outcome = [c \in Created |-> "none"]
    /\ reported = [c \in Created |-> "none"]
    /\ got = [c \in Created |-> "none"]
    /\ status = "ok"

-----------------------------------------------------------------------------
At(a, label) == status = "ok" /\ pc[a] = label

Goto(a, label) == pc' = [pc EXCEPT ![a] = label]

Stop(why) ==
    /\ status' = why
    /\ UNCHANGED <<api, objects, pc, target, results>>

Deleted(c) == numRefs[c] = 0

addRef(c) == numRefs' = [numRefs EXCEPT ![c] = @ + 1]
removeRef(c) == numRefs' = [numRefs EXCEPT ![c] = @ - 1]

-----------------------------------------------------------------------------
(* Creating a thread: createThread, pthread_create.                        *)

\* The Thread object enters the map before its platform thread exists.
createThread(a) ==
    /\ At(a, "run")
    /\ \E c \in Created :
          /\ pc[c] = "absent"
          /\ \A d \in 1..(c - 1) : pc[d] # "absent"
          /\ threads' = threads \cup {c}
          /\ addRef(c)
          /\ pc' = [pc EXCEPT ![a] = "spawn", ![c] = "allocated"]
          /\ target' = [target EXCEPT ![a] = c]
    /\ UNCHANGED <<api, platform, results, status>>

\* Emscripten allocates the thread's stack in between, and that can throw.
stackAllocationFails(a) ==
    /\ At(a, "spawn") /\ api = "Emscripten"
    /\ Goto(a, "run")
    /\ target' = [target EXCEPT ![a] = NoTarget]
    /\ UNCHANGED <<api, objects, results, status>>

\* Mistake: the new thread gets no reference.
spawnThreadNoRef(a) ==
    /\ At(a, "spawn")
    /\ pc' = [pc EXCEPT ![a] = "assign", ![target[a]] = "entry"]
    /\ UNCHANGED <<api, objects, target, results, status>>

spawnThread(a) ==
    /\ At(a, "spawn")
    /\ addRef(target[a])
    /\ pc' = [pc EXCEPT ![a] = "assign", ![target[a]] = "entry"]
    /\ UNCHANGED <<api, threads, platform, target, results, status>>

setPlatformThread(a) ==
    /\ At(a, "assign")
    /\ platform' = platform \cup {target[a]}
    /\ Goto(a, "return")
    /\ UNCHANGED <<api, threads, numRefs, target, results, status>>

\* The ID is read from the object, to which the creator has no reference.
returnThreadId(a) ==
    /\ At(a, "return")
    /\ IF Deleted(target[a])
       THEN Stop("creator_reads_deleted")
       ELSE /\ Goto(a, "run")
            /\ target' = [target EXCEPT ![a] = NoTarget]
            /\ UNCHANGED <<api, objects, results, status>>

-----------------------------------------------------------------------------
(* The life of a thread: threadEntry.                                      *)

\* The reference passed to the thread becomes that of currentThread.
threadEntry(c) ==
    /\ At(c, "entry")
    /\ Goto(c, "run")
    /\ UNCHANGED <<api, objects, target, results, status>>

threadReturns(c) ==
    /\ At(c, "run")
    /\ outcome' = [outcome EXCEPT ![c] = "returned"]
    /\ reported' = [reported EXCEPT ![c] = "returned"]
    /\ Goto(c, "exit")
    /\ UNCHANGED <<api, objects, target, got, status>>

\* "If the thread has already been detached, the exception is fatal."
ExceptionIsFatal(c) == api = "Emscripten" \/ numRefs[c] = 1

threadThrows(c) ==
    /\ At(c, "run")
    /\ IF ExceptionIsFatal(c)
       THEN Stop("fatal_exception")
       ELSE /\ outcome' = [outcome EXCEPT ![c] = "threw"]
            /\ reported' = [reported EXCEPT ![c] = "threw"]
            /\ Goto(c, "exit")
            /\ UNCHANGED <<api, objects, target, got, status>>

threadEnds(c) ==
    /\ At(c, "exit")
    /\ removeRef(c)
    /\ Goto(c, "ended")
    /\ UNCHANGED <<api, threads, platform, target, results, status>>

-----------------------------------------------------------------------------
(* Joining and detaching.                                                  *)

removeThreadById(a, c, label) ==
    /\ c \in threads
    /\ threads' = threads \ {c}
    /\ target' = [target EXCEPT ![a] = c]
    /\ Goto(a, label)
    /\ UNCHANGED <<api, numRefs, platform, results, status>>

joinThread(a, c) == At(a, "run") /\ removeThreadById(a, c, "join")

detachThread(a, c) ==
    At(a, "run") /\ api = "ThreadTest" /\ removeThreadById(a, c, "detach")

\* ~Process: joinAllThreads takes the threads out of the map one by one.
joinAllThreads ==
    /\ At(0, "run") /\ api = "Emscripten"
    /\ Goto(0, "joinAll")
    /\ UNCHANGED <<api, objects, target, results, status>>

\* Mistake: the thread is taken out of the map and not joined.
joinNextThreadDropped ==
    /\ At(0, "joinAll")
    /\ \E c \in threads : removeThreadById(0, c, "unrefOne")

joinNextThread ==
    /\ At(0, "joinAll")
    /\ \E c \in threads : /\ \A d \in threads : c <= d
                          /\ removeThreadById(0, c, "joinOne")

processDestroyed ==
    /\ At(0, "joinAll") /\ threads = {}
    /\ Goto(0, "exited")
    /\ UNCHANGED <<api, objects, target, results, status>>

\* pthread_join reports a thread that joins itself, or its own joiner, as a
\* deadlock, which the platform layer takes for a fatal error.
JoinDeadlocks(a, c) == c = a \/ (pc[c] = "join" /\ target[c] = a)

\* Mistake: the caller does not wait for the thread to end.
waitForThreadNot(a) ==
    /\ At(a, "join")
    /\ platform' = platform \ {target[a]}
    /\ Goto(a, "result")
    /\ UNCHANGED <<api, threads, numRefs, target, results, status>>

\* Platform::joinThread: pthread_join returns once the thread has ended.
waitForThread(a) ==
    LET c == target[a] IN
    /\ At(a, "join") \/ At(a, "joinOne")
    /\ \/ c \notin platform /\ Stop("null_platform_thread")
       \/ c \in platform /\ JoinDeadlocks(a, c) /\ Stop("join_deadlock")
       \/ /\ c \in platform /\ pc[c] = "ended"
          /\ platform' = platform \ {c}
          /\ Goto(a, IF pc[a] = "join" THEN "result" ELSE "unrefOne")
          /\ UNCHANGED <<api, threads, numRefs, target, results, status>>

takeResult(a) ==
    /\ At(a, "result")
    /\ got' = [got EXCEPT ![target[a]] = reported[target[a]]]
    /\ Goto(a, "unref")
    /\ UNCHANGED <<api, objects, target, outcome, reported, status>>

detachPlatformThread(a) ==
    /\ At(a, "detach")
    /\ IF target[a] \notin platform
       THEN Stop("null_platform_thread")
       ELSE /\ platform' = platform \ {target[a]}
            /\ Goto(a, "check")
            /\ UNCHANGED <<api, threads, numRefs, target, results, status>>

\* "If the thread threw an exception, turn it into a fatal error."
checkDetached(a) ==
    /\ At(a, "check")
    /\ IF reported[target[a]] = "threw"
       THEN Stop("fatal_exception")
       ELSE /\ Goto(a, "unref")
            /\ UNCHANGED <<api, objects, target, results, status>>

\* Mistake: the caller keeps its reference.
releaseThreadNot(a) ==
    /\ \/ At(a, "unref") /\ Goto(a, "run")
       \/ At(a, "unrefOne") /\ Goto(a, "joinAll")
    /\ target' = [target EXCEPT ![a] = NoTarget]
    /\ UNCHANGED <<api, objects, results, status>>

\* The caller's IntrusiveSharedPtr is destroyed after resultMutex is unlocked.
releaseThread(a) ==
    /\ \/ At(a, "unref") /\ Goto(a, "run")
       \/ At(a, "unrefOne") /\ Goto(a, "joinAll")
    /\ removeRef(target[a])
    /\ target' = [target EXCEPT ![a] = NoTarget]
    /\ UNCHANGED <<api, threads, platform, results, status>>

-----------------------------------------------------------------------------
\* The steps a thread takes by itself once it is in a call or has ended.
Step(a) ==
    \/ spawnThread(a) \/ setPlatformThread(a) \/ returnThreadId(a)
    \/ waitForThread(a) \/ takeResult(a)
    \/ detachPlatformThread(a) \/ checkDetached(a)
    \/ releaseThread(a)

Next ==
    \/ \E a \in Actors : \/ createThread(a)
                         \/ stackAllocationFails(a)
                         \/ \E c \in Created : joinThread(a, c) \/ detachThread(a, c)
                         \/ Step(a)
    \/ \E c \in Created : threadEntry(c) \/ threadReturns(c) \/ threadThrows(c) \/ threadEnds(c)
    \/ joinAllThreads \/ joinNextThread \/ processDestroyed

Spec == Init /\ [][Next]_vars

\* The operating system schedules every thread; what a WebAssembly function
\* does, and whether it ever returns, is not assumed.
Fairness ==
    /\ \A a \in Actors : WF_vars(Step(a))
    /\ \A c \in Created : WF_vars(threadEnds(c))

FairSpec == Spec /\ Fairness

-----------------------------------------------------------------------------
Holding == {"join", "result", "unref", "detach", "check", "joinOne", "unrefOne"}

Started(c) == pc[c] \notin {"absent", "allocated", "ended"}

Callers(c) == {a \in Actors : pc[a] \in Holding /\ target[a] = c}

(* A Thread object's numRefs counts the map's entry, the thread itself     *)
(* until it has ended, and the call that joins or detaches it.  So a       *)
(* running thread's context and entry function stay rooted, a call never   *)
(* uses a deleted object, and the object is deleted when the last of them  *)
(* lets go.                                                                *)
RefCount ==
    \A c \in Created :
        numRefs[c] = (IF c \in threads THEN 1 ELSE 0) + (IF Started(c) THEN 1 ELSE 0)
                     + Cardinality(Callers(c))

(* What joinThread returns is how the thread ended: the result is written, *)
(* or the exception stored, before the platform thread ends, and is not    *)
(* lost or replaced until it has been read.                                *)
JoinReturnsOutcome ==
    \A c \in Created : got[c] # "none" => got[c] = outcome[c] /\ pc[c] = "ended"

(* ~Process: "wait for all threads to exit before destroying the Instance".*)
(* When the process is destroyed no thread runs WebAssembly code or will   *)
(* do so again: what has not ended is blocked in a cycle of threads that   *)
(* join themselves or each other, and so are no longer in the map.         *)
ExitWaitsForThreads ==
    pc[0] = "exited" => \A c \in Created : pc[c] \in {"absent", "ended", "join"}

(* A thread that has ended and has been joined or detached is deleted: the *)
(* reference its joiner, detacher or the exiting process holds is given up.*)
EndedIsDeleted ==
    \A c \in Created :
        (pc[c] = "ended" /\ c \notin threads) ~> (Deleted(c) \/ status # "ok")
=============================================================================
