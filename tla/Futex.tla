------------------------------- MODULE Futex -------------------------------
(***************************************************************************)
(* What memory.atomic.wait and memory.atomic.notify promise: a queue of    *)
(* blocked threads per address.  A wait compares the cell with the value   *)
(* the caller expects and joins the queue in one step; a notify takes the  *)
(* oldest waiters off the queue and tells its caller how many they were;   *)
(* a waiter that has been taken off the queue returns 0, and one that gave *)
(* up leaves the queue and returns 2.                                      *)
(***************************************************************************)
EXTENDS Integers, Sequences

CONSTANTS Threads, Addrs, Values, MaxWake, Unmapped

VARIABLES
  mem,     \* the value of each cell, or Unmapped when its page was decommitted
  queue,   \* the blocked threads of each address, oldest first
  req,     \* the operation each thread has asked for
  state,   \* "idle", "asked", "blocked", "woken" or "answered"
  ret      \* the result of an answered operation

futex == <<mem, queue, req, state, ret>>

NoReq == [op |-> "none"]
NoResult == -1
Waits == [op : {"wait"}, addr : Addrs, arg : Values, timed : BOOLEAN]
Notifies == [op : {"notify"}, addr : Addrs, arg : 1 .. MaxWake]

\* Results of a wait; a notify returns the number of threads it woke.
Woken == 0
NotEqual == 1
TimedOut == 2

Init ==
  /\ mem \in [Addrs -> Values]
  /\ queue = [a \in Addrs |-> <<>>]
  /\ req = [t \in Threads |-> NoReq]
  /\ state = [t \in Threads |-> "idle"]
  /\ ret = [t \in Threads |-> NoResult]

Store(a, v) ==
  /\ mem[a] # Unmapped
  /\ mem' = [mem EXCEPT ![a] = v]
  /\ UNCHANGED <<queue, req, state, ret>>

Unmap(a) ==
  /\ mem' = [mem EXCEPT ![a] = Unmapped]
  /\ UNCHANGED <<queue, req, state, ret>>

Ask(t, r) ==
  /\ state[t] = "idle"
  /\ req' = [req EXCEPT ![t] = r]
  /\ state' = [state EXCEPT ![t] = "asked"]
  /\ UNCHANGED <<mem, queue, ret>>

Answer(t, r) ==
  /\ req' = [req EXCEPT ![t] = NoReq]
  /\ ret' = [ret EXCEPT ![t] = r]

\* The cell holds the value the caller expects: the thread joins the queue.
Block(t) ==
  LET a == req[t].addr
  IN  /\ state[t] = "asked"
      /\ req[t].op = "wait"
      /\ mem[a] = req[t].arg
      /\ queue' = [queue EXCEPT ![a] = Append(@, t)]
      /\ state' = [state EXCEPT ![t] = "blocked"]
      /\ UNCHANGED <<mem, req, ret>>

\* The cell holds another value.
Refuse(t) ==
  /\ state[t] = "asked"
  /\ req[t].op = "wait"
  /\ mem[req[t].addr] \notin {req[t].arg, Unmapped}
  /\ Answer(t, NotEqual)
  /\ state' = [state EXCEPT ![t] = "answered"]
  /\ UNCHANGED <<mem, queue>>

\* The cell cannot be read: the operation ends without a result.
Trap(t) ==
  /\ state[t] = "asked"
  /\ req[t].op = "wait"
  /\ mem[req[t].addr] = Unmapped
  /\ Answer(t, NoResult)
  /\ state' = [state EXCEPT ![t] = "idle"]
  /\ UNCHANGED <<mem, queue>>

Notify(t) ==
  LET a == req[t].addr
      n == IF req[t].arg < Len(queue[a]) THEN req[t].arg ELSE Len(queue[a])
  IN  /\ state[t] = "asked"
      /\ req[t].op = "notify"
      /\ queue' = [queue EXCEPT ![a] = SubSeq(@, n + 1, Len(@))]
      /\ state' = [u \in Threads |->
                     IF u = t THEN "answered"
                     ELSE IF \E i \in 1 .. n : queue[a][i] = u THEN "woken"
                     ELSE state[u]]
      /\ Answer(t, n)
      /\ UNCHANGED mem

Resume(t) ==
  /\ state[t] = "woken"
  /\ state' = [state EXCEPT ![t] = "answered"]
  /\ Answer(t, Woken)
  /\ UNCHANGED <<mem, queue>>

Without(q, k) == [i \in 1 .. Len(q) - 1 |-> IF i < k THEN q[i] ELSE q[i + 1]]

GiveUp(t) ==
  LET a == req[t].addr
  IN  /\ state[t] = "blocked"
      /\ req[t].timed
      /\ \E k \in 1 .. Len(queue[a]) :
           queue[a][k] = t /\ queue' = [queue EXCEPT ![a] = Without(@, k)]
      /\ state' = [state EXCEPT ![t] = "answered"]
      /\ Answer(t, TimedOut)
      /\ UNCHANGED mem

Return(t) ==
  /\ state[t] = "answered"
  /\ state' = [state EXCEPT ![t] = "idle"]
  /\ ret' = [ret EXCEPT ![t] = NoResult]
  /\ UNCHANGED <<mem, queue, req>>

Next ==
  \/ \E a \in Addrs : Unmap(a) \/ \E v \in Values : Store(a, v)
  \/ \E t \in Threads :
       \/ \E r \in Waits \cup Notifies : Ask(t, r)
       \/ Block(t) \/ Refuse(t) \/ Notify(t) \/ Trap(t) \/ Return(t)
       \/ Resume(t) \/ GiveUp(t)

Spec == Init /\ [][Next]_futex
=============================================================================
