----------------------------- MODULE MemoryGrow -----------------------------
(***************************************************************************)
(* WebAssembly memories (Lib/Runtime/Memory.cpp) and the page quota they   *)
(* share (ResourceQuota in Lib/Runtime/RuntimePrivate.h): creation,        *)
(* growth, cloning and destruction by threads that run concurrently.       *)
(*                                                                         *)
(* growMemory takes pages from the quota before it locks resizingMutex, so *)
(* the two are separate steps; under that mutex it loads the size, commits *)
(* pages and stores the new size, then stores it once more where generated *)
(* code reads it.                                                          *)
(***************************************************************************)
EXTENDS Integers, FiniteSets

CONSTANTS
  Threads, Memories, None,
  TypeMin, TypeMax,   \* type.size of every memory, in WebAssembly pages
  MaxMemoryPages,     \* IR::maxMemory32Pages
  Word,               \* Uptr is 0 .. Word - 1
  Deltas,             \* the amounts passed to growMemory
  QuotaMaxes          \* the limits passed to setResourceQuotaMaxMemoryPages

ASSUME MemoryAssumption ==
  /\ IsFiniteSet(Threads) /\ IsFiniteSet(Memories)
  /\ None \notin Threads \cup Memories
  /\ TypeMin \in Nat /\ TypeMax \in Nat /\ MaxMemoryPages \in Nat
  /\ Word \in Nat /\ MaxMemoryPages < Word
  /\ Deltas \subseteq 0 .. Word - 1
  /\ TypeMin \in 0 .. Word - 1
  /\ QuotaMaxes \subseteq 0 .. Word - 1

VARIABLES
  exists,      \* the memories that are allocated
  inMap,       \* those in the compartment's memories, with an id
  listed,      \* those in the global memories, which fault handling consults
  numPages,    \* numPages of each memory
  rtPages,     \* the copy in CompartmentRuntimeData, read by generated code
  committed,   \* the pages of each memory that can be accessed
  resizing,    \* the owner of each resizingMutex
  current,     \* the quota: pages in use
  max,         \* the quota: its limit
  pc, mem, delta, old,   \* where each thread is in growMemory, and its locals
  source,      \* the memory a thread is cloning
  granted      \* history: the sum of what the successful calls of growMemory
               \* were asked for, for each memory

quota == <<current, max>>
memories == <<exists, inMap, listed, numPages, rtPages, committed, resizing>>
threads == <<pc, mem, delta, old, source>>
vars == <<memories, quota, threads, granted>>

Uptr == 0 .. Word - 1

\* Threads that are creating a memory rather than growing an existing one.
Creating(t) == mem[t] # None /\ mem[t] \notin inMap

Init ==
  /\ exists = {} /\ inMap = {} /\ listed = {}
  /\ numPages = [m \in Memories |-> 0]
  /\ rtPages = [m \in Memories |-> 0]
  /\ committed = [m \in Memories |-> {}]
  /\ resizing = [m \in Memories |-> None]
  /\ current = 0
  /\ max = Word - 1
  /\ pc = [t \in Threads |-> "idle"]
  /\ mem = [t \in Threads |-> None]
  /\ source = [t \in Threads |-> None]
  /\ delta = [t \in Threads |-> 0]
  /\ old = [t \in Threads |-> 0]
  /\ granted = [m \in Memories |-> 0]

-----------------------------------------------------------------------------
(* The quota: each operation is one critical section of its mutex.         *)

CanAllocate(n) == (current + n) % Word >= current /\ (current + n) % Word <= max

allocate(n) ==
  /\ CanAllocate(n)
  /\ current' = (current + n) % Word
  /\ UNCHANGED max

free(n) ==
  /\ current' = (current - n) % Word
  /\ UNCHANGED max

setMax(n) ==
  /\ max' = n
  /\ UNCHANGED <<current, memories, threads, granted>>

-----------------------------------------------------------------------------
\* The call returns to its caller.
Return(t) ==
  /\ pc' = [pc EXCEPT ![t] = "idle"]
  /\ mem' = [mem EXCEPT ![t] = None]
  /\ source' = [source EXCEPT ![t] = None]
  /\ delta' = [delta EXCEPT ![t] = 0]
  /\ old' = [old EXCEPT ![t] = 0]

Goto(t, label) ==
  /\ pc' = [pc EXCEPT ![t] = label]
  /\ UNCHANGED <<mem, source, delta, old>>

\* growMemory returns to the caller or to createMemoryImpl, which deletes the
\* memory it was creating.
Fail(t) == IF Creating(t) THEN Goto(t, "delete") ELSE Return(t)

-----------------------------------------------------------------------------
(* growMemory                                                              *)

\* growMemory(memory, 0) only reads the size.
growMemory(t, m, n) ==
  /\ pc[t] = "idle"
  /\ m \in inMap
  /\ n # 0
  /\ pc' = [pc EXCEPT ![t] = "quota"]
  /\ mem' = [mem EXCEPT ![t] = m]
  /\ delta' = [delta EXCEPT ![t] = n]
  /\ UNCHANGED <<memories, quota, old, source, granted>>

checkQuota(t) ==
  /\ pc[t] = "quota"
  /\ \/ allocate(delta[t]) /\ Goto(t, "lock")
     \/ ~ CanAllocate(delta[t]) /\ Fail(t) /\ UNCHANGED quota
  /\ UNCHANGED <<memories, granted>>

\* Mistake: the mutex is not taken.
CanLockUnlocked(m) == TRUE

CanLock(m) == resizing[m] = None

lockResizing(t) ==
  /\ pc[t] = "lock"
  /\ CanLock(mem[t])
  /\ resizing' = [resizing EXCEPT ![mem[t]] = t]
  /\ old' = [old EXCEPT ![t] = numPages[mem[t]]]
  /\ pc' = [pc EXCEPT ![t] = "commit"]
  /\ UNCHANGED <<exists, inMap, listed, numPages, rtPages, committed, quota,
                 mem, delta, source, granted>>

Exceeds(oldPages, n) ==
  \/ n > TypeMax \/ oldPages > TypeMax - n
  \/ n > MaxMemoryPages \/ oldPages > MaxMemoryPages - n

\* Mistake: the pages are not given back when the memory cannot grow.
keepQuota(n) == UNCHANGED quota

giveBack(n) == free(n)

\* Mistake: one page too many is committed.
CommitRangeOver(oldPages, n) == oldPages .. oldPages + n

CommitRange(oldPages, n) == oldPages .. oldPages + n - 1

\* The size is checked and the pages are committed, which may fail.
commitPages(t, commitFails) ==
  LET m == mem[t]
      n == delta[t]
  IN  /\ pc[t] = "commit"
      /\ \/ /\ Exceeds(old[t], n) \/ commitFails
            /\ giveBack(n)
            /\ resizing' = [resizing EXCEPT ![m] = None]
            /\ Fail(t)
            /\ UNCHANGED committed
         \/ /\ ~ (Exceeds(old[t], n) \/ commitFails)
            /\ committed' = [committed EXCEPT ![m] = @ \cup CommitRange(old[t], n)]
            /\ Goto(t, "store")
            /\ UNCHANGED <<resizing, quota>>
      /\ UNCHANGED <<exists, inMap, listed, numPages, rtPages, granted>>

\* The new size is stored.
storeSize(t) ==
  LET m == mem[t]
  IN  /\ pc[t] = "store"
      /\ numPages' = [numPages EXCEPT ![m] = old[t] + delta[t]]
      /\ granted' = [granted EXCEPT ![m] = @ + delta[t]]
      /\ Goto(t, "publish")
      /\ UNCHANGED <<exists, inMap, listed, rtPages, committed, resizing, quota>>

publishSize(m, n) ==
  rtPages' = IF m \in inMap THEN [rtPages EXCEPT ![m] = n] ELSE rtPages

publish(t) ==
  LET m == mem[t]
  IN  /\ pc[t] = "publish"
      /\ publishSize(m, old[t] + delta[t])
      /\ resizing' = [resizing EXCEPT ![m] = None]
      /\ IF Creating(t) THEN Goto(t, "list") ELSE Return(t)
      /\ UNCHANGED <<exists, inMap, listed, numPages, committed, quota, granted>>

-----------------------------------------------------------------------------
(* createMemory and cloneMemory                                            *)

\* createMemoryImpl reserves the address space, which may fail, and grows the
\* new memory, whose mutex nobody else can hold, to its first size.
Start(t, m, n, s) ==
  /\ exists' = exists \cup {m}
  /\ \E label \in {"delete", IF n = 0 THEN "list" ELSE "quota"} :
       pc' = [pc EXCEPT ![t] = label]
  /\ mem' = [mem EXCEPT ![t] = m]
  /\ delta' = [delta EXCEPT ![t] = n]
  /\ source' = [source EXCEPT ![t] = s]
  /\ UNCHANGED <<inMap, listed, numPages, rtPages, committed, quota, old,
                 granted>>

createMemory(t, m) ==
  /\ pc[t] = "idle"
  /\ m \notin exists
  /\ Start(t, m, TypeMin, None)
  /\ UNCHANGED resizing

\* The clone keeps the mutex of the original until its contents are copied.
cloneMemory(t, s, m) ==
  /\ pc[t] = "idle"
  /\ s \in inMap /\ m \notin exists
  /\ CanLock(s)
  /\ resizing' = [resizing EXCEPT ![s] = t]
  /\ Start(t, m, numPages[s], s)

\* Mistake: the original stays locked.
UnlockNothing(t) == UNCHANGED resizing

UnlockSource(t) ==
  resizing' = [m \in Memories |-> IF m = source[t] THEN None ELSE resizing[m]]

enlist(m) == listed' = listed \cup {m}

\* The memory joins the global list; a clone copies the contents and unlocks
\* the original.
listMemory(t) ==
  /\ pc[t] = "list"
  /\ enlist(mem[t])
  /\ UnlockSource(t)
  /\ Goto(t, "insert")
  /\ UNCHANGED <<exists, inMap, numPages, rtPages, committed, quota, granted>>

\* Under the compartment's mutex the memory gets its id.
insertMemory(t) ==
  /\ pc[t] = "insert"
  /\ inMap' = inMap \cup {mem[t]}
  /\ rtPages' = [rtPages EXCEPT ![mem[t]] = numPages[mem[t]]]
  /\ Return(t)
  /\ UNCHANGED <<exists, listed, numPages, committed, resizing, quota, granted>>

\* ~Memory frees the address space and the quota.
Destroy(m) ==
  /\ exists' = exists \ {m}
  /\ inMap' = inMap \ {m}
  /\ listed' = listed \ {m}
  /\ numPages' = [numPages EXCEPT ![m] = 0]
  /\ granted' = [granted EXCEPT ![m] = 0]
  /\ rtPages' = [rtPages EXCEPT ![m] = 0]
  /\ committed' = [committed EXCEPT ![m] = {}]
  /\ free(numPages[m])

\* createMemoryImpl could not reserve or grow the memory.
deleteMemory(t) ==
  /\ pc[t] = "delete"
  /\ Destroy(mem[t])
  /\ UnlockSource(t)
  /\ Return(t)

\* The garbage collector destroys a memory that no thread can reach.
collectMemory(m) ==
  /\ m \in inMap
  /\ \A t \in Threads : m \notin {mem[t], source[t]}
  /\ Destroy(m)
  /\ UNCHANGED <<resizing, threads>>

unmapMemoryPages(m, p) ==
  /\ m \in inMap
  /\ p < MaxMemoryPages
  /\ committed' = [committed EXCEPT ![m] = @ \ {p}]
  /\ UNCHANGED <<exists, inMap, listed, numPages, rtPages, resizing, quota,
                 threads, granted>>

-----------------------------------------------------------------------------
\* The steps a call takes on its own.
Step(t) ==
  \/ checkQuota(t) \/ lockResizing(t) \/ storeSize(t) \/ publish(t)
  \/ \E commitFails \in BOOLEAN : commitPages(t, commitFails)
  \/ listMemory(t) \/ insertMemory(t) \/ deleteMemory(t)

Next ==
  \/ \E t \in Threads :
       \/ Step(t)
       \/ \E m \in Memories :
            \/ createMemory(t, m)
            \/ \E s \in Memories : cloneMemory(t, s, m)
            \/ \E n \in Deltas : growMemory(t, m, n)
  \/ \E m \in Memories :
       \/ collectMemory(m)
       \/ \E p \in Uptr : unmapMemoryPages(m, p)
  \/ \E n \in QuotaMaxes : setMax(n)

Spec == Init /\ [][Next]_vars

\* The operating system keeps running every thread that is not waiting.
FairSpec == Spec /\ \A t \in Threads : WF_vars(Step(t))

-----------------------------------------------------------------------------
(* Properties                                                              *)

\* Threads that have taken pages from the quota and not yet added them to a
\* memory.
Reserving == {t \in Threads : pc[t] \in {"lock", "commit", "store"}}

\* The pages of the memories, and those the threads have taken for them.
InUse == {x \in exists \X Uptr : x[2] < numPages[x[1]]}
Reserved == {x \in Reserving \X Uptr : x[2] < delta[x[1]]}

\* The quota is exact: at every moment the pages in use are those of the
\* memories and those a growMemory in progress has set aside, whatever fails.
QuotaExact == current = Cardinality(InUse) + Cardinality(Reserved)

\* No page is handed out twice: the successful calls of growMemory on a memory
\* add up to its size, so the ranges they report do not overlap.
GrantedOnce == \A m \in Memories : granted[m] = numPages[m]

\* No page beyond the size of a memory can be accessed, except those that one
\* call of growMemory is about to add: generated code relies on such an access
\* faulting instead of checking bounds.
BeyondSizeFaults ==
  \A m \in Memories : \A p \in committed[m] :
    \/ p < numPages[m]
    \/ \E t \in Threads : pc[t] = "store" /\ mem[t] = m /\ p < old[t] + delta[t]

\* Threads that create, clone and grow memories do not all wait for each other.
NotAllStuck == (\A t \in Threads : pc[t] # "idle") ~> (\E t \in Threads : pc[t] = "idle")
=============================================================================
