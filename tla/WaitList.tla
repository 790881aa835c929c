------------------------------ MODULE WaitList ------------------------------
(***************************************************************************)
(* memory.atomic.wait and memory.atomic.notify (Lib/Runtime/Atomics.cpp)   *)
(* over the events of Lib/Platform (EventPOSIX.cpp, EventWindows.cpp).     *)
(*                                                                         *)
(* A step is one critical section, or one access to shared state made      *)
(* outside any lock.  Work done under addressToWaitListMapMutex or under a *)
(* list's mutex is one step; the decrement of numReferences in             *)
(* closeWaitList is not under a lock and is a step of its own, as is the   *)
(* call of Event::wait, which begins after the list's mutex was released.  *)
(* A store between the load and the push of waitOnAddress commutes with    *)
(* the push, so the two are one step.                                      *)
(*                                                                         *)
(* A failed WAVM_ASSERT or WAVM_ERROR_UNLESS and an access to a deleted    *)
(* list end the run: they set fault and no step is taken afterwards.       *)
(***************************************************************************)
EXTENDS Integers, Sequences, FiniteSets

CONSTANTS
  Threads,     \* the threads that call the intrinsics
  Addrs,       \* the addresses they wait on
  Values,      \* the values of the cells
  Lists,       \* identities of WaitList objects
  NoList,      \* a null WaitList pointer, or no entry in the map
  Unmapped,    \* the content of a cell whose page was decommitted
  EventKind,   \* "auto_reset" (EventWindows.cpp) or "condition" (EventPOSIX.cpp)
  MaxWake,     \* bound: the largest count passed to notify; as large as any
               \* queue, it stands for UINT32_MAX too
  MaxLeaks,    \* bound: the number of waits that trap
  MaxQueue     \* bound: the length of a list's wakeEvents

ASSUME WaitListAssumption ==
  /\ IsFiniteSet(Threads)
  /\ NoList \notin Lists
  /\ Unmapped \notin Values
  /\ EventKind \in {"auto_reset", "condition"}
  /\ MaxWake \in Nat /\ MaxLeaks \in Nat /\ MaxQueue \in Nat

VARIABLES
  mem,        \* the content of each cell
  map,        \* addressToWaitListMap
  live,       \* the WaitList objects that are allocated
  refs,       \* numReferences of each list
  leaked,     \* history: references of each list that no call will give back
  events,     \* wakeEvents of each list; a thread has one event, so its name
              \* stands for the event
  signaled,   \* whether each thread's event is signaled
  pc,         \* where each thread is
  list,       \* the local waitList of each thread
  call,       \* the arguments of each thread's call
  ret,        \* the result each thread's call is about to return
  fault       \* the failed assertion that ended the run, or "none"

memory == <<mem, map, live, refs, leaked, events, signaled>>
threads == <<pc, list, call, ret>>
vars == <<memory, threads, fault>>

NoCall == [op |-> "none"]
NoResult == -1
Waits == [op : {"wait"}, addr : Addrs, arg : Values, timed : BOOLEAN]
Notifies == [op : {"notify"}, addr : Addrs, arg : 1 .. MaxWake]
Calls == Waits \cup Notifies

PCs == {"idle", "opened", "queued", "sleeping", "timedOut", "closing", "deleting"}

\* A thread in one of these states has a reference to its list.
Holding == {"opened", "queued", "sleeping", "timedOut", "closing"}
Waiting == {"queued", "sleeping", "timedOut"}

TypeOK ==
  /\ mem \in [Addrs -> Values \cup {Unmapped}]
  /\ map \in [Addrs -> Lists \cup {NoList}]
  /\ live \subseteq Lists
  /\ refs \in [Lists -> Nat]
  /\ leaked \in [Lists -> Nat]
  /\ events \in [Lists -> Seq(Threads)]
  /\ signaled \in [Threads -> BOOLEAN]
  /\ pc \in [Threads -> PCs]
  /\ list \in [Threads -> Lists \cup {NoList}]
  /\ call \in [Threads -> Calls \cup {NoCall}]
  /\ ret \in [Threads -> Nat \cup {NoResult}]
  /\ fault \in {"none", "use_after_free", "list_not_empty", "event_not_signaled"}

Init ==
  /\ mem \in [Addrs -> Values]
  /\ map = [a \in Addrs |-> NoList]
  /\ live = {}
  /\ refs = [l \in Lists |-> 0]
  /\ leaked = [l \in Lists |-> 0]
  /\ events = [l \in Lists |-> <<>>]
  /\ signaled = [t \in Threads |-> FALSE]
  /\ pc = [t \in Threads |-> "idle"]
  /\ list = [t \in Threads |-> NoList]
  /\ call = [t \in Threads |-> NoCall]
  /\ ret = [t \in Threads |-> NoResult]
  /\ fault = "none"

\* The thread's event is in wakeEvents.
Contains(queue, t) == \E i \in 1 .. Len(queue) : queue[i] = t

\* The thread is about to take the step named by the label.
At(t, label) == fault = "none" /\ pc[t] = label

-----------------------------------------------------------------------------
(* The program and its embedder                                            *)

\* Another atomic access of the program changes the cell.
atomicStore(a, v) ==
  /\ fault = "none"
  /\ mem[a] # Unmapped
  /\ mem' = [mem EXCEPT ![a] = v]
  /\ UNCHANGED <<map, live, refs, leaked, events, signaled, threads, fault>>

\* The embedder decommits the page of a cell.
unmapMemoryPages(a) ==
  /\ fault = "none"
  /\ mem' = [mem EXCEPT ![a] = Unmapped]
  /\ UNCHANGED <<map, live, refs, leaked, events, signaled, threads, fault>>

-----------------------------------------------------------------------------
(* Reference counted lists                                                 *)

\* Objects that operator new can return: not allocated, and (so that an access
\* to a deleted list is recognised) not the target of a stale pointer.
FreshLists == Lists \ (live \cup {list[t] : t \in Threads})

\* Mistake: the list is shared without counting the new user.
shareUncounted(t, a) ==
  /\ list' = [list EXCEPT ![t] = map[a]]
  /\ UNCHANGED <<map, live, refs, leaked, events>>

shareWaitList(t, a) ==
  /\ list' = [list EXCEPT ![t] = map[a]]
  /\ refs' = [refs EXCEPT ![map[a]] = @ + 1]
  /\ UNCHANGED <<map, live, leaked, events>>

newWaitList(t, a) ==
  \E l \in FreshLists :
    /\ list' = [list EXCEPT ![t] = l]
    /\ live' = live \cup {l}
    /\ refs' = [refs EXCEPT ![l] = 1]
    /\ leaked' = [leaked EXCEPT ![l] = 0]
    /\ events' = [events EXCEPT ![l] = <<>>]
    /\ map' = [map EXCEPT ![a] = l]

\* Both intrinsics begin with openWaitList, under the map's mutex.
openWaitList(t, c) ==
  /\ At(t, "idle")
  /\ call' = [call EXCEPT ![t] = c]
  /\ pc' = [pc EXCEPT ![t] = "opened"]
  /\ \/ map[c.addr] # NoList /\ shareWaitList(t, c.addr)
     \/ map[c.addr] = NoList /\ newWaitList(t, c.addr)
  /\ UNCHANGED <<mem, signaled, ret, fault>>

\* The call is over; its locals are gone.
Return(t) ==
  /\ pc' = [pc EXCEPT ![t] = "idle"]
  /\ list' = [list EXCEPT ![t] = NoList]
  /\ call' = [call EXCEPT ![t] = NoCall]
  /\ ret' = [ret EXCEPT ![t] = NoResult]

\* closeWaitList, first half: the decrement, outside any lock.
closeWaitList(t) ==
  /\ At(t, "closing")
  /\ refs' = [refs EXCEPT ![list[t]] = @ - 1]
  /\ IF refs[list[t]] = 1
     THEN pc' = [pc EXCEPT ![t] = "deleting"] /\ UNCHANGED <<list, call, ret>>
     ELSE Return(t)
  /\ UNCHANGED <<mem, map, live, leaked, events, signaled, fault>>

\* Mistake: the count is not read again under the map's mutex.
UnusedUnchecked(l) == TRUE

Unused(l) == refs[l] = 0

forget(a) == map' = [map EXCEPT ![a] = NoList]

\* closeWaitList, second half: the count is read again under the map's mutex,
\* through a pointer that another thread may have deleted in the meantime.
deleteWaitList(t) ==
  LET l == list[t]
  IN  /\ At(t, "deleting")
      /\ \/ /\ l \notin live
            /\ fault' = "use_after_free"
            /\ UNCHANGED <<memory, threads>>
         \/ /\ l \in live /\ ~ Unused(l)
            /\ Return(t)
            /\ UNCHANGED <<memory, fault>>
         \/ /\ l \in live /\ Unused(l) /\ events[l] # <<>>
            /\ fault' = "list_not_empty"
            /\ UNCHANGED <<memory, threads>>
         \/ /\ l \in live /\ Unused(l) /\ events[l] = <<>>
            /\ live' = live \ {l}
            /\ forget(call[t].addr)
            /\ Return(t)
            /\ UNCHANGED <<mem, refs, leaked, events, signaled, fault>>

-----------------------------------------------------------------------------
(* memory.atomic.wait                                                      *)

Leaks == Cardinality({l \in Lists : leaked[l] > 0})

atomic_wait(t, c) ==
  /\ c \in Waits
  /\ mem[c.addr] = Unmapped => Leaks < MaxLeaks
  /\ map[c.addr] # NoList => Len(events[map[c.addr]]) < MaxQueue
  /\ openWaitList(t, c)

\* The load faults: the exception releases the list's mutex but not the
\* reference to the list.
loadFaults(t) ==
  /\ At(t, "opened") /\ call[t].op = "wait"
  /\ mem[call[t].addr] = Unmapped
  /\ leaked' = [leaked EXCEPT ![list[t]] = @ + 1]
  /\ Return(t)
  /\ UNCHANGED <<mem, map, live, refs, events, signaled, fault>>

loadDiffers(t) ==
  /\ At(t, "opened") /\ call[t].op = "wait"
  /\ mem[call[t].addr] \notin {Unmapped, call[t].arg}
  /\ ret' = [ret EXCEPT ![t] = 1]
  /\ pc' = [pc EXCEPT ![t] = "closing"]
  /\ UNCHANGED <<memory, list, call, fault>>

pushWakeEvent(t) ==
  /\ At(t, "opened") /\ call[t].op = "wait"
  /\ mem[call[t].addr] = call[t].arg
  /\ events' = [events EXCEPT ![list[t]] = Append(@, t)]
  /\ pc' = [pc EXCEPT ![t] = "queued"]
  /\ UNCHANGED <<mem, map, live, refs, leaked, signaled, list, call, ret, fault>>

\* The thread enters Event::wait.
beginWait(t) ==
  /\ At(t, "queued")
  /\ pc' = [pc EXCEPT ![t] = "sleeping"]
  /\ UNCHANGED <<memory, list, call, ret, fault>>

\* pthread_cond_wait may return although nobody signaled, and Event::wait has
\* no predicate to tell the difference.
Ends(t) == signaled[t] \/ EventKind = "condition"

\* Event::wait returns true; an auto-reset event is reset.
wake(t) ==
  /\ At(t, "sleeping")
  /\ Ends(t)
  /\ signaled' = [signaled EXCEPT ![t] = FALSE]
  /\ ret' = [ret EXCEPT ![t] = 0]
  /\ pc' = [pc EXCEPT ![t] = "closing"]
  /\ UNCHANGED <<mem, map, live, refs, leaked, events, list, call, fault>>

\* A negative timeout is an infinite one.
HasTimeout(t) == call[t].timed

\* Event::wait returns false.
timeOut(t) ==
  /\ At(t, "sleeping")
  /\ HasTimeout(t)
  /\ ~ signaled[t]
  /\ pc' = [pc EXCEPT ![t] = "timedOut"]
  /\ UNCHANGED <<memory, list, call, ret, fault>>

\* wakeEvents without the event at position k.
RemoveAt(queue, k) ==
  [i \in 1 .. Len(queue) - 1 |-> IF i < k THEN queue[i] ELSE queue[i + 1]]

\* std::find returns the first occurrence.
eraseWakeEvent(t) ==
  \E i \in 1 .. Len(events[list[t]]) :
    /\ events[list[t]][i] = t
    /\ \A j \in 1 .. i - 1 : events[list[t]][j] # t
    /\ events' = [events EXCEPT ![list[t]] = RemoveAt(@, i)]

\* Mistake: a late signal is left for the thread's next wait.
resetNothing(t) == UNCHANGED signaled

resetWakeEvent(t) == signaled' = [signaled EXCEPT ![t] = FALSE]

\* After a timeout the thread looks for its event in the list.  If it is gone,
\* the event must be signaled, and an immediate wait resets it.
afterTimeout(t) ==
  /\ At(t, "timedOut")
  /\ \/ /\ Contains(events[list[t]], t)
        /\ eraseWakeEvent(t)
        /\ ret' = [ret EXCEPT ![t] = 2]
        /\ pc' = [pc EXCEPT ![t] = "closing"]
        /\ UNCHANGED <<signaled, fault>>
     \/ /\ ~ Contains(events[list[t]], t) /\ signaled[t]
        /\ resetWakeEvent(t)
        /\ ret' = [ret EXCEPT ![t] = 0]
        /\ pc' = [pc EXCEPT ![t] = "closing"]
        /\ UNCHANGED <<events, fault>>
     \/ /\ ~ Contains(events[list[t]], t) /\ ~ signaled[t]
        /\ fault' = "event_not_signaled"
        /\ UNCHANGED <<events, signaled, ret, pc>>
  /\ UNCHANGED <<mem, map, live, refs, leaked, list, call>>

-----------------------------------------------------------------------------
(* memory.atomic.notify                                                    *)

\* wakeAddress returns at once when asked to wake nobody; otherwise it opens
\* the list.
atomic_notify(t, c) ==
  /\ c \in Notifies
  /\ openWaitList(t, c)

\* Event::signal: an auto-reset event stays signaled until a wait consumes it;
\* a condition variable only wakes a thread that is already waiting.
Latches(u) == EventKind = "auto_reset" \/ pc[u] = "sleeping"

\* Mistake: every waiter is woken whatever the caller asked for.
NumToWakeAll(n, queue) == Len(queue)

NumToWake(n, queue) == IF n > Len(queue) THEN Len(queue) ELSE n

wakeAddress(t) ==
  LET queue == events[list[t]]
      n == NumToWake(call[t].arg, queue)
      woken == {queue[i] : i \in 1 .. n}
  IN  /\ At(t, "opened") /\ call[t].op = "notify"
      /\ signaled' = [u \in Threads |-> signaled[u] \/ (u \in woken /\ Latches(u))]
      /\ events' = [events EXCEPT ![list[t]] = SubSeq(@, n + 1, Len(@))]
      /\ ret' = [ret EXCEPT ![t] = n]
      /\ pc' = [pc EXCEPT ![t] = "closing"]
      /\ UNCHANGED <<mem, map, live, refs, leaked, list, call, fault>>

-----------------------------------------------------------------------------
\* The steps a call takes on its own once it has begun.
Step(t) ==
  \/ loadFaults(t) \/ loadDiffers(t) \/ pushWakeEvent(t)
  \/ beginWait(t) \/ wake(t) \/ timeOut(t) \/ afterTimeout(t)
  \/ wakeAddress(t)
  \/ closeWaitList(t) \/ deleteWaitList(t)

Next ==
  \/ \E a \in Addrs : unmapMemoryPages(a) \/ \E v \in Values : atomicStore(a, v)
  \/ \E t \in Threads :
       \/ \E c \in Waits : atomic_wait(t, c)
       \/ \E c \in Notifies : atomic_notify(t, c)
       \/ Step(t)

Spec == Init /\ [][Next]_vars

-----------------------------------------------------------------------------
(* Properties                                                              *)

Holders(l) == {t \in Threads : list[t] = l /\ pc[t] \in Holding}

\* numReferences counts exactly the calls that are between openWaitList and
\* the decrement in closeWaitList, and those that left by an exception.
RefCount ==
  \A l \in live : refs[l] = Cardinality(Holders(l)) + leaked[l]

\* A call that has opened a list and not yet closed it can use it: the list is
\* allocated, and it is the one every other call finds for the address.
OpenListIsLive ==
  \A t \in Threads :
    pc[t] \in Holding => list[t] \in live /\ map[call[t].addr] = list[t]

\* The map and the allocated lists agree: no entry dangles, no two addresses
\* share a list, and no allocated list is unreachable from the map.
MapConsistent ==
  /\ \A a \in Addrs : map[a] # NoList => map[a] \in live
  /\ \A a, b \in Addrs : map[a] # NoList /\ map[a] = map[b] => a = b
  /\ \A l \in live : \E a \in Addrs : map[a] = l

\* A waiter's event is signaled exactly when a notify has taken it off the
\* list, and a thread that is not waiting has no event on any list and none
\* left signaled for its next wait.
SignaledIffTakenOff ==
  \A t \in Threads :
    /\ signaled[t] <=> pc[t] \in Waiting /\ ~ Contains(events[list[t]], t)
    /\ \A l \in live : Contains(events[l], t) => pc[t] \in Waiting /\ list[t] = l

\* The comment at Atomics.cpp:153-155, on which the fatal check that follows it
\* relies: when a wait has timed out and its event is no longer on the list,
\* another thread has taken it off, and "the event will now be signaled".
EventIsSignaled ==
  \A t \in Threads :
    pc[t] = "timedOut" /\ ~ Contains(events[list[t]], t) => signaled[t]
=============================================================================
