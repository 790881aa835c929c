--------------------------- MODULE WaitListProofs ---------------------------
(***************************************************************************)
(* For any number of threads, addresses and values.                        *)
(*                                                                         *)
(* For both kinds of event: a call that has opened a wait list and not yet *)
(* closed it finds the list allocated and in the map, although             *)
(* closeWaitList decrements the count outside the lock.                    *)
(*                                                                         *)
(* With auto-reset events: a waiter is signaled exactly when a notify took *)
(* its event off the list, and the wait lists implement the futex.         *)
(*                                                                         *)
(* The steps of the queues and of the refinement come first; they assume   *)
(* the invariant Inv of the lists' lifetimes, which the third part proves. *)
(***************************************************************************)
EXTENDS WaitListRefinement, TLAPS

\* The reference count protects the lists only together with facts about the
\* map, and about a thread that has decremented the count to zero and has not
\* yet looked at it again: if its list is still allocated, it is the one that
\* the map holds for its address.
LifeInv ==
  /\ \A t \in Threads : pc[t] # "idle" => call[t] \in Calls
  /\ OpenListIsLive
  /\ MapConsistent
  /\ RefCount
  /\ \A t \in Threads :
       pc[t] = "deleting" /\ list[t] \in live => map[call[t].addr] = list[t]

\* The types of what LifeInv speaks about.
LifeTypes ==
  /\ map \in [Addrs -> Lists \cup {NoList}]
  /\ live \subseteq Lists
  /\ refs \in [Lists -> Nat]
  /\ leaked \in [Lists -> Nat]
  /\ pc \in [Threads -> PCs]
  /\ list \in [Threads -> Lists \cup {NoList}]
  /\ call \in [Threads -> Calls \cup {NoCall}]

Inv == LifeTypes /\ LifeInv

\* Every call names an address.
LEMMA CallAddr == \A c \in Calls : c.addr \in Addrs
  BY Zenon DEF Calls, Waits, Notifies

-----------------------------------------------------------------------------
(* Queues                                                                  *)

Distinct(q) == \A i, j \in 1 .. Len(q) : q[i] = q[j] => i = j

\* A thread joins the end of a queue.
LEMMA AppendKeeps ==
  ASSUME NEW q \in Seq(Threads), NEW t \in Threads, Distinct(q), ~ Contains(q, t)
  PROVE  /\ Append(q, t) \in Seq(Threads) /\ Distinct(Append(q, t))
         /\ \A u : Contains(Append(q, t), u) <=> Contains(q, u) \/ u = t
<1>1. /\ Append(q, t) \in Seq(Threads) /\ Len(Append(q, t)) = Len(q) + 1 /\ Len(q) \in Nat
      /\ \A i \in 1 .. Len(q) : Append(q, t)[i] = q[i]
      /\ Append(q, t)[Len(q) + 1] = t
  OBVIOUS
<1>2. Distinct(Append(q, t))
  BY <1>1 DEF Distinct, Contains
<1>3. \A u : Contains(Append(q, t), u) <=> Contains(q, u) \/ u = t
  BY <1>1 DEF Contains
<1>4. QED
  BY <1>1, <1>2, <1>3, Zenon

\* The sequence r is q without its element k, or without its first n elements.
Without(q, r, k) ==
  /\ Len(q) \in Nat /\ k \in 1 .. Len(q) /\ Len(r) = Len(q) - 1
  /\ \A i \in 1 .. Len(q) - 1 : r[i] = IF i < k THEN q[i] ELSE q[i + 1]

After(q, r, n) ==
  /\ Len(q) \in Nat /\ n \in 0 .. Len(q) /\ Len(r) = Len(q) - n
  /\ \A i \in 1 .. Len(q) - n : r[i] = q[i + n]

LEMMA WithoutOne ==
  ASSUME NEW q, NEW r, NEW k, Without(q, r, k), Distinct(q)
  PROVE  /\ Distinct(r)
         /\ \A u : Contains(r, u) <=> Contains(q, u) /\ u # q[k]
<1>0. PICK m \in Nat : /\ m = Len(q) /\ k \in 1 .. m /\ Len(r) = m - 1
                       /\ \A i \in 1 .. m - 1 : r[i] = IF i < k THEN q[i] ELSE q[i + 1]
  BY Zenon DEF Without
<1>1. Distinct(r)
  BY <1>0 DEF Distinct
<1>2. ASSUME NEW u, Contains(r, u) PROVE Contains(q, u) /\ u # q[k]
  BY <1>0, <1>2 DEF Contains, Distinct
<1>3. ASSUME NEW u, NEW i \in 1 .. m, q[i] = u, u # q[k] PROVE Contains(r, u)
  <2>1. CASE i < k
    BY <1>0, <1>3, <2>1 DEF Contains
  <2>2. CASE i > k
    <3>1. i - 1 \in 1 .. m - 1 /\ r[i - 1] = u
      BY <1>0, <1>3, <2>2
    <3>2. QED
      BY <1>0, <3>1, Zenon DEF Contains
  <2>3. i < k \/ i > k
    BY <1>0, <1>3
  <2>4. QED
    BY <2>1, <2>2, <2>3, Zenon
<1>4. QED
  BY <1>0, <1>1, <1>2, <1>3, Zenon DEF Contains

LEMMA WithoutFirst ==
  ASSUME NEW q, NEW r, NEW n, After(q, r, n), Distinct(q)
  PROVE  /\ Distinct(r)
         /\ \A u : Contains(r, u) <=> Contains(q, u) /\ \A i \in 1 .. n : q[i] # u
<1>0. PICK m \in Nat : /\ m = Len(q) /\ n \in 0 .. m /\ Len(r) = m - n
                       /\ \A i \in 1 .. m - n : r[i] = q[i + n]
  BY Zenon DEF After
<1>1. Distinct(r)
  BY <1>0 DEF Distinct
<1>2. ASSUME NEW u, Contains(r, u) PROVE Contains(q, u) /\ \A i \in 1 .. n : q[i] # u
  BY <1>0, <1>2 DEF Contains, Distinct
<1>3. ASSUME NEW u, NEW i \in 1 .. m, q[i] = u, \A j \in 1 .. n : q[j] # u PROVE Contains(r, u)
  <2>1. i - n \in 1 .. m - n /\ r[i - n] = u
    BY <1>0, <1>3
  <2>2. QED
    BY <1>0, <2>1, Zenon DEF Contains
<1>4. QED
  BY <1>0, <1>1, <1>2, <1>3, Zenon DEF Contains

\* A thread leaves a queue; the others stay.
LEMMA RemoveKeeps ==
  ASSUME NEW q \in Seq(Threads), NEW k \in 1 .. Len(q), Distinct(q)
  PROVE  /\ RemoveAt(q, k) \in Seq(Threads) /\ Distinct(RemoveAt(q, k))
         /\ \A u : Contains(RemoveAt(q, k), u) <=> Contains(q, u) /\ u # q[k]
<1>1. RemoveAt(q, k) \in Seq(Threads) /\ Without(q, RemoveAt(q, k), k)
  BY DEF RemoveAt, Without
<1>2. QED
  BY <1>1, WithoutOne, Zenon

LEMMA DropKeeps ==
  ASSUME NEW q \in Seq(Threads), NEW n \in 0 .. Len(q), Distinct(q)
  PROVE  /\ SubSeq(q, n + 1, Len(q)) \in Seq(Threads)
         /\ Distinct(SubSeq(q, n + 1, Len(q)))
         /\ \A u : Contains(SubSeq(q, n + 1, Len(q)), u)
                     <=> Contains(q, u) /\ \A i \in 1 .. n : q[i] # u
<1>1. /\ SubSeq(q, n + 1, Len(q)) \in Seq(Threads)
      /\ After(q, SubSeq(q, n + 1, Len(q)), n)
  BY DEF After
<1>2. QED
  BY <1>1, WithoutFirst, Zenon

-----------------------------------------------------------------------------
(* Signals.  With auto-reset events a notify never loses a waiter.         *)

\* What SignaledIffTakenOff says of one thread, and what its call was.
ThreadInv(t) ==
  /\ signaled[t] <=> pc[t] \in Waiting /\ ~ Contains(events[list[t]], t)
  /\ \A l \in live : Contains(events[l], t) => pc[t] \in Waiting /\ list[t] = l
  /\ pc[t] \in Waiting => call[t].op = "wait"
  /\ pc[t] = "timedOut" => call[t].timed

QueueTypes == events \in [Lists -> Seq(Threads)] /\ signaled \in [Threads -> BOOLEAN]

QueueInv ==
  /\ QueueTypes
  /\ \A l \in live : Distinct(events[l])
  /\ \A t \in Threads : ThreadInv(t)

\* Only the call of t makes a step.
Only(t) ==
  \A u \in Threads \ {t} : pc'[u] = pc[u] /\ list'[u] = list[u] /\ call'[u] = call[u]

\* The other threads keep their place when they stay on the lists they are on.
LEMMA OthersKeep ==
  ASSUME QueueInv, NEW t \in Threads, Only(t),
         \A u \in Threads \ {t} : signaled'[u] = signaled[u],
         \A u \in Threads \ {t} : \A l \in live' :
            Contains(events'[l], u) => l \in live /\ Contains(events[l], u),
         \A u \in Threads \ {t} :
            pc[u] \in Waiting => (Contains(events'[list[u]], u) <=> Contains(events[list[u]], u))
  PROVE  \A u \in Threads \ {t} : ThreadInv(u)'
<1>1. SUFFICES ASSUME NEW u \in Threads \ {t} PROVE ThreadInv(u)'
  BY Zenon
<1>2. ThreadInv(u)
  BY Zenon DEF QueueInv
<1>3. pc'[u] = pc[u] /\ list'[u] = list[u] /\ call'[u] = call[u]
  BY Zenon DEF Only
<1>4. QED
  BY <1>2, <1>3, Zenon DEF ThreadInv

\* A call that waits neither before nor after its step leaves the queues alone.
LEMMA QuietKeeps ==
  ASSUME QueueInv, NEW t \in Threads, Only(t), pc[t] \notin Waiting, pc'[t] \notin Waiting,
         events' = events, signaled' = signaled, live' \subseteq live
  PROVE  QueueInv'
<1>1. \A u \in Threads \ {t} : ThreadInv(u)'
  BY OthersKeep, Zenon
<1>2. ThreadInv(t)
  BY Zenon DEF QueueInv
<1>3. ThreadInv(t)'
  BY <1>2, Zenon DEF ThreadInv, Waiting
<1>4. QED
  BY <1>1, <1>3, Zenon DEF QueueInv, QueueTypes

\* A new list is empty, and nobody waits on it yet.
LEMMA NewListKeeps ==
  ASSUME Inv, QueueInv, NEW t \in Threads, NEW a, Only(t), pc[t] = "idle", pc'[t] = "opened",
         newWaitList(t, a), signaled' = signaled
  PROVE  QueueInv'
<1>1. PICK n \in FreshLists : live' = live \cup {n} /\ events' = [events EXCEPT ![n] = <<>>]
  BY Zenon DEF newWaitList
<1>2. n \in Lists /\ n \notin live /\ \A u \in Threads : list[u] # n
  BY <1>1, Zenon DEF FreshLists
<1>3. /\ events' \in [Lists -> Seq(Threads)]
      /\ events'[n] = <<>> /\ \A l \in Lists \ {n} : events'[l] = events[l]
  BY <1>1, <1>2 DEF QueueInv, QueueTypes
<1>4. Distinct(<<>>) /\ \A u : ~ Contains(<<>>, u)
  BY DEF Distinct, Contains
<1>5. live \subseteq Lists /\ \A u \in Threads : pc[u] \in Waiting => list[u] \in live
  BY Zenon DEF Inv, LifeTypes, LifeInv, OpenListIsLive, Holding, Waiting
<1>6. \A u \in Threads : \A l \in live' : Contains(events'[l], u) => l \in live /\ Contains(events[l], u)
  BY <1>1, <1>2, <1>3, <1>4, <1>5, Zenon
<1>7. \A u \in Threads \ {t} : ThreadInv(u)'
  BY <1>2, <1>3, <1>5, <1>6, OthersKeep, Zenon
<1>8. ThreadInv(t)
  BY Zenon DEF QueueInv
<1>9. ThreadInv(t)'
  BY <1>6, <1>8, Zenon DEF ThreadInv, Waiting
<1>10. \A l \in live' : Distinct(events'[l])
  BY <1>1, <1>3, <1>4, <1>5, Zenon DEF QueueInv
<1>11. QED
  BY <1>3, <1>7, <1>9, <1>10, Zenon DEF QueueInv, QueueTypes

\* The list of a waiting thread is allocated, and its queue is in order.
LEMMA WaiterList ==
  ASSUME Inv, QueueInv, NEW t \in Threads, pc[t] \in Holding
  PROVE  /\ list[t] \in live /\ list[t] \in Lists /\ live \subseteq Lists
         /\ events[list[t]] \in Seq(Threads) /\ Distinct(events[list[t]])
  BY Zenon DEF Inv, LifeTypes, LifeInv, OpenListIsLive, QueueInv, QueueTypes

\* Only one queue changes: what the lists contain afterwards.
LEMMA OneQueue ==
  ASSUME Inv, QueueInv, NEW l \in live, NEW q \in Seq(Threads), Distinct(q),
         events' = [events EXCEPT ![l] = q], live' = live
  PROVE  /\ events' \in [Lists -> Seq(Threads)]
         /\ events'[l] = q /\ \A k \in Lists \ {l} : events'[k] = events[k]
         /\ \A k \in live' : Distinct(events'[k])
<1>1. live \subseteq Lists
  BY Zenon DEF Inv, LifeTypes
<1>2. events' \in [Lists -> Seq(Threads)] /\ events'[l] = q /\ \A k \in Lists \ {l} : events'[k] = events[k]
  BY <1>1, Zenon DEF QueueInv, QueueTypes
<1>3. QED
  BY <1>1, <1>2, Zenon DEF QueueInv

LEMMA PushKeeps ==
  ASSUME Inv, QueueInv, NEW t \in Threads, pushWakeEvent(t)
  PROVE  QueueInv'
<1>1. /\ pc[t] = "opened" /\ call[t].op = "wait" /\ pc' = [pc EXCEPT ![t] = "queued"]
      /\ UNCHANGED <<live, signaled, list, call>>
      /\ events' = [events EXCEPT ![list[t]] = Append(@, t)]
  BY Zenon DEF pushWakeEvent, At
<1>2. pc'[t] = "queued" /\ Only(t)
  BY <1>1, Zenon DEF Inv, LifeTypes, Only
<1>3. PICK m \in live : m = list[t] /\ m \in Lists /\ events[m] \in Seq(Threads) /\ Distinct(events[m])
  BY <1>1, WaiterList, Zenon DEF Holding
<1>4. ThreadInv(t) /\ pc[t] \notin Waiting
  BY <1>1, Zenon DEF QueueInv, Waiting
<1>5. ~ Contains(events[m], t) /\ ~ signaled[t] /\ \A l \in live : ~ Contains(events[l], t)
  BY <1>4, Zenon DEF ThreadInv
<1>6. PICK q \in Seq(Threads) : /\ Distinct(q) /\ events' = [events EXCEPT ![m] = q]
                                /\ \A u : Contains(q, u) <=> Contains(events[m], u) \/ u = t
  <2>1. PICK p \in Seq(Threads) : p = events[m] /\ Distinct(p) /\ ~ Contains(p, t)
    BY <1>3, <1>5, Zenon
  <2>2. /\ Append(p, t) \in Seq(Threads) /\ Distinct(Append(p, t))
        /\ \A u : Contains(Append(p, t), u) <=> Contains(p, u) \/ u = t
    BY <2>1, AppendKeeps, Zenon
  <2>3. events' = [events EXCEPT ![m] = Append(p, t)]
    BY <1>1, <1>3, <2>1, Zenon
  <2>4. QED
    BY <2>1, <2>2, <2>3, Zenon
<1>7. /\ events' \in [Lists -> Seq(Threads)]
      /\ events'[m] = q /\ \A k \in Lists \ {m} : events'[k] = events[k]
      /\ \A k \in live' : Distinct(events'[k])
  BY <1>1, <1>6, OneQueue, Zenon
<1>8. live \subseteq Lists /\ \A u \in Threads : pc[u] \in Waiting => list[u] \in live
  BY Zenon DEF Inv, LifeTypes, LifeInv, OpenListIsLive, Holding, Waiting
<1>9. \A u \in Threads \ {t} : \A l \in live : Contains(events'[l], u) <=> Contains(events[l], u)
  BY <1>6, <1>7, <1>8, Zenon
<1>10. \A u \in Threads \ {t} : ThreadInv(u)'
  BY <1>1, <1>2, <1>8, <1>9, OthersKeep, Zenon
<1>11. ThreadInv(t)'
  <2>1. Contains(events'[m], t) /\ \A l \in live \ {m} : ~ Contains(events'[l], t)
    BY <1>5, <1>6, <1>7, <1>8, Zenon
  <2>2. QED
    BY <1>1, <1>2, <1>3, <1>5, <2>1, Zenon DEF ThreadInv, Waiting
<1>12. QED
  BY <1>1, <1>7, <1>10, <1>11, Zenon DEF QueueInv, QueueTypes

LEMMA WaitKeeps ==
  ASSUME QueueInv, NEW t \in Threads, Only(t), pc[t] \in Waiting, pc'[t] \in Waiting,
         list'[t] = list[t], call'[t] = call[t], pc'[t] = "timedOut" => call[t].timed,
         events' = events, signaled' = signaled, live' = live
  PROVE  QueueInv'
<1>1. \A u \in Threads \ {t} : ThreadInv(u)'
  BY OthersKeep, Zenon
<1>2. ThreadInv(t)
  BY Zenon DEF QueueInv
<1>3. ThreadInv(t)'
  BY <1>2, Zenon DEF ThreadInv
<1>4. QED
  BY <1>1, <1>3, Zenon DEF QueueInv, QueueTypes

\* A thread whose event was signaled resets it and stops waiting.
LEMMA ResumeKeeps ==
  ASSUME QueueInv, NEW t \in Threads, Only(t), signaled[t], pc'[t] = "closing",
         signaled' = [signaled EXCEPT ![t] = FALSE], events' = events, live' = live
  PROVE  QueueInv'
<1>1. /\ signaled' \in [Threads -> BOOLEAN] /\ signaled'[t] = FALSE
      /\ \A u \in Threads \ {t} : signaled'[u] = signaled[u]
  BY Zenon DEF QueueInv, QueueTypes
<1>2. \A u \in Threads \ {t} : ThreadInv(u)'
  BY <1>1, OthersKeep, Zenon
<1>3. ThreadInv(t)
  BY Zenon DEF QueueInv
<1>4. \A l \in live : ~ Contains(events[l], t)
  BY <1>3, Zenon DEF ThreadInv
<1>5. ThreadInv(t)'
  BY <1>1, <1>4, Zenon DEF ThreadInv, Waiting
<1>6. QED
  BY <1>1, <1>2, <1>5, Zenon DEF QueueInv, QueueTypes

\* A thread that gives up takes its event off the list.
LEMMA EraseKeeps ==
  ASSUME Inv, QueueInv, NEW t \in Threads, Only(t), pc[t] = "timedOut", pc'[t] = "closing",
         Contains(events[list[t]], t), eraseWakeEvent(t), signaled' = signaled, live' = live
  PROVE  QueueInv'
<1>1. PICK m \in live : m = list[t] /\ m \in Lists /\ events[m] \in Seq(Threads) /\ Distinct(events[m])
  BY WaiterList, Zenon DEF Holding
<1>2. PICK k \in 1 .. Len(events[m]) :
         events[m][k] = t /\ events' = [events EXCEPT ![m] = RemoveAt(events[m], k)]
  BY <1>1, Zenon DEF eraseWakeEvent
<1>3. PICK q \in Seq(Threads) : /\ Distinct(q) /\ events' = [events EXCEPT ![m] = q]
                                /\ \A u : Contains(q, u) <=> Contains(events[m], u) /\ u # t
  <2>1. PICK p \in Seq(Threads) : p = events[m] /\ Distinct(p)
    BY <1>1, Zenon
  <2>2. /\ RemoveAt(p, k) \in Seq(Threads) /\ Distinct(RemoveAt(p, k))
        /\ \A u : Contains(RemoveAt(p, k), u) <=> Contains(p, u) /\ u # p[k]
    BY <1>2, <2>1, RemoveKeeps, Zenon
  <2>3. QED
    BY <1>2, <2>1, <2>2, Zenon
<1>4. /\ events' \in [Lists -> Seq(Threads)]
      /\ events'[m] = q /\ \A l \in Lists \ {m} : events'[l] = events[l]
      /\ \A l \in live' : Distinct(events'[l])
  BY <1>3, OneQueue, Zenon
<1>5. live \subseteq Lists /\ \A u \in Threads : pc[u] \in Waiting => list[u] \in live
  BY Zenon DEF Inv, LifeTypes, LifeInv, OpenListIsLive, Holding, Waiting
<1>6. \A u \in Threads \ {t} : \A l \in live : Contains(events'[l], u) <=> Contains(events[l], u)
  BY <1>3, <1>4, <1>5, Zenon
<1>7. \A u \in Threads \ {t} : ThreadInv(u)'
  BY <1>5, <1>6, OthersKeep, Zenon
<1>8. ThreadInv(t)
  BY Zenon DEF QueueInv
<1>9. ~ signaled[t] /\ \A l \in live : ~ Contains(events'[l], t)
  BY <1>1, <1>3, <1>4, <1>5, <1>8, Zenon DEF ThreadInv
<1>10. ThreadInv(t)'
  BY <1>9, Zenon DEF ThreadInv, Waiting
<1>11. QED
  BY <1>4, <1>7, <1>10, Zenon DEF QueueInv, QueueTypes

\* A notify takes the first waiters off the list and signals exactly these.
LEMMA NotifyKeeps ==
  ASSUME EventKind = "auto_reset", Inv, QueueInv, NEW t \in Threads, wakeAddress(t)
  PROVE  QueueInv'
<1>1. /\ pc[t] = "opened" /\ pc' = [pc EXCEPT ![t] = "closing"]
      /\ UNCHANGED <<live, list, call>>
  BY Zenon DEF wakeAddress, At
<1>2. pc'[t] = "closing" /\ Only(t)
  BY <1>1, Zenon DEF Inv, LifeTypes, Only
<1>3. PICK m \in live : m = list[t] /\ m \in Lists /\ events[m] \in Seq(Threads) /\ Distinct(events[m])
  BY <1>1, WaiterList, Zenon DEF Holding
<1>4. PICK p \in Seq(Threads) : p = events[m] /\ Distinct(p)
  BY <1>3, Zenon
<1>5. call[t] \in Notifies
  BY <1>1, Zenon DEF Inv, LifeInv, wakeAddress, Calls, Waits, Notifies
<1>6. PICK n \in 0 .. Len(p) : n = NumToWake(call[t].arg, p)
  BY <1>5 DEF NumToWake, Notifies
<1>7. /\ events' = [events EXCEPT ![m] = SubSeq(p, n + 1, Len(p))]
      /\ \A u \in Threads : signaled'[u] <=> signaled[u] \/ \E i \in 1 .. n : p[i] = u
      /\ signaled' \in [Threads -> BOOLEAN]
  BY <1>3, <1>4, <1>6, Zenon DEF wakeAddress, Latches
<1>8. PICK q \in Seq(Threads) :
        /\ Distinct(q) /\ events' = [events EXCEPT ![m] = q]
        /\ \A u : Contains(q, u) <=> Contains(p, u) /\ \A i \in 1 .. n : p[i] # u
  <2>1. /\ SubSeq(p, n + 1, Len(p)) \in Seq(Threads) /\ Distinct(SubSeq(p, n + 1, Len(p)))
        /\ \A u : Contains(SubSeq(p, n + 1, Len(p)), u)
                    <=> Contains(p, u) /\ \A i \in 1 .. n : p[i] # u
    BY <1>4, DropKeeps, Zenon
  <2>2. QED
    BY <1>7, <2>1, Zenon
<1>9. /\ events' \in [Lists -> Seq(Threads)]
      /\ events'[m] = q /\ \A l \in Lists \ {m} : events'[l] = events[l]
      /\ \A l \in live' : Distinct(events'[l])
  BY <1>1, <1>8, OneQueue, Zenon
<1>10. live \subseteq Lists /\ \A u \in Threads : pc[u] \in Waiting => list[u] \in live
  BY Zenon DEF Inv, LifeTypes, LifeInv, OpenListIsLive, Holding, Waiting
<1>11. \A u \in Threads : (\E i \in 1 .. n : p[i] = u) => Contains(events[m], u)
  BY <1>4 DEF Contains
<1>12. ASSUME NEW u \in Threads PROVE ThreadInv(u)'
  <2>1. ThreadInv(u) /\ ThreadInv(t)
    BY Zenon DEF QueueInv
  <2>2. CASE pc[u] \notin Waiting
    <3>1. ~ signaled[u] /\ \A l \in live : ~ Contains(events[l], u)
      BY <2>1, <2>2, Zenon DEF ThreadInv
    <3>2. ~ signaled'[u] /\ \A l \in live' : ~ Contains(events'[l], u)
      BY <1>1, <1>4, <1>7, <1>8, <1>9, <1>10, <1>11, <3>1, Zenon
    <3>3. pc'[u] \notin Waiting
      BY <1>2, <2>2, Zenon DEF Only, Waiting
    <3>4. QED
      BY <3>2, <3>3, Zenon DEF ThreadInv, Waiting
  <2>3. CASE pc[u] \in Waiting
    <3>1. pc'[u] = pc[u] /\ list'[u] = list[u] /\ call'[u] = call[u]
      BY <1>1, <1>2, <2>3, Zenon DEF Only, Waiting
    <3>2. CASE list[u] = m
      <4>1. signaled[u] <=> ~ Contains(p, u)
        BY <1>4, <2>1, <2>3, <3>2, Zenon DEF ThreadInv
      <4>2. signaled'[u] <=> ~ Contains(q, u)
        <5>1. signaled'[u] <=> ~ Contains(p, u) \/ \E i \in 1 .. n : p[i] = u
          BY <1>7, <4>1, Zenon
        <5>2. QED
          BY <1>8, <5>1, Zenon
      <4>3. \A l \in live' : Contains(events'[l], u) => l = m
        BY <1>1, <1>9, <1>10, <2>1, <3>2, Zenon DEF ThreadInv
      <4>4. QED
        BY <1>9, <2>1, <2>3, <3>1, <3>2, <4>2, <4>3, Zenon DEF ThreadInv
    <3>3. CASE list[u] # m
      <4>1. ~ Contains(events[m], u)
        BY <2>1, <3>3, Zenon DEF ThreadInv
      <4>2. signaled'[u] <=> signaled[u]
        BY <1>7, <1>11, <4>1, Zenon
      <4>3. \A l \in live' : Contains(events'[l], u) => Contains(events[l], u)
        BY <1>1, <1>4, <1>8, <1>9, <1>10, <4>1
      <4>4. events'[list[u]] = events[list[u]]
        BY <1>9, <1>10, <2>3, <3>3, Zenon
      <4>5. QED
        BY <1>1, <2>1, <3>1, <4>2, <4>3, <4>4 DEF ThreadInv
    <3>4. QED
      BY <3>2, <3>3, Zenon
  <2>4. QED
    BY <2>2, <2>3, Zenon
<1>13. QED
  BY <1>7, <1>9, <1>12, Zenon DEF QueueInv, QueueTypes

\* The step of one call: which state of it changes, and what the call does to
\* the queues.
LEMMA QueueStep ==
  ASSUME EventKind = "auto_reset", Inv, QueueInv, [Next]_vars
  PROVE  QueueInv'
<1>still. ASSUME UNCHANGED <<live, events, signaled, pc, list, call>>
          PROVE  QueueInv'
  BY <1>still DEF QueueInv, QueueTypes, ThreadInv
<1>embedder. ASSUME NEW a \in Addrs, unmapMemoryPages(a) \/ \E v \in Values : atomicStore(a, v)
             PROVE  QueueInv'
  BY <1>still, <1>embedder, Zenon DEF unmapMemoryPages, atomicStore, threads
<1>open. ASSUME NEW t \in Threads, NEW c, openWaitList(t, c)
         PROVE  QueueInv'
  <2>1. pc[t] = "idle" /\ pc'[t] = "opened" /\ signaled' = signaled
    BY <1>open, Zenon DEF openWaitList, At, Inv, LifeTypes
  <2>2. CASE shareWaitList(t, c.addr)
    <3>1. Only(t) /\ UNCHANGED <<live, events>>
      BY <1>open, <2>2, Zenon DEF openWaitList, shareWaitList, Only, Inv, LifeTypes
    <3>2. QED
      BY <2>1, <3>1, QuietKeeps, Zenon DEF Waiting
  <2>3. CASE newWaitList(t, c.addr)
    <3>1. Only(t)
      BY <1>open, <2>3 DEF openWaitList, newWaitList, Only, Inv, LifeTypes
    <3>2. QED
      BY <2>1, <2>3, <3>1, NewListKeeps, Zenon
  <2>4. QED
    BY <1>open, <2>2, <2>3, Zenon DEF openWaitList
<1>quiet. ASSUME NEW t \in Threads, loadFaults(t) \/ loadDiffers(t) \/ closeWaitList(t)
          PROVE  QueueInv'
  <2>1. Only(t)
    BY <1>quiet DEF loadFaults, loadDiffers, closeWaitList, Return, Only, Inv, LifeTypes
  <2>2. /\ pc[t] \notin Waiting /\ pc'[t] \notin Waiting
        /\ UNCHANGED <<live, events, signaled>>
    BY <1>quiet DEF loadFaults, loadDiffers, closeWaitList, Return, At, Waiting, memory, Inv, LifeTypes
  <2>3. QED
    BY <2>1, <2>2, QuietKeeps, Zenon
<1>delete. ASSUME NEW t \in Threads, deleteWaitList(t)
           PROVE  QueueInv'
  <2>1. CASE Return(t)
    <3>1. Only(t) /\ pc'[t] = "idle"
      BY <2>1, Zenon DEF Return, Only, Inv, LifeTypes
    <3>2. pc[t] = "deleting" /\ live' \subseteq live /\ UNCHANGED <<events, signaled>>
      BY <1>delete, Zenon DEF deleteWaitList, At, memory
    <3>3. QED
      BY <3>1, <3>2, QuietKeeps, Zenon DEF Waiting
  <2>2. CASE UNCHANGED <<memory, threads>>
    BY <1>still, <2>2, Zenon DEF memory, threads
  <2>3. QED
    BY <1>delete, <2>1, <2>2, Zenon DEF deleteWaitList
<1>wait. ASSUME NEW t \in Threads, beginWait(t) \/ timeOut(t)
         PROVE  QueueInv'
  <2>1. /\ Only(t) /\ list'[t] = list[t] /\ call'[t] = call[t]
        /\ UNCHANGED <<live, events, signaled>>
    BY <1>wait, Zenon DEF beginWait, timeOut, Only, memory, Inv, LifeTypes
  <2>2. /\ pc[t] \in Waiting /\ pc'[t] \in Waiting
        /\ pc'[t] = "timedOut" => call[t].timed
    BY <1>wait, Zenon DEF beginWait, timeOut, At, HasTimeout, Waiting, Inv, LifeTypes
  <2>3. QED
    BY <2>1, <2>2, WaitKeeps, Zenon
<1>wake. ASSUME NEW t \in Threads, wake(t)
         PROVE  QueueInv'
  <2>1. Only(t) /\ pc'[t] = "closing"
    BY <1>wake, Zenon DEF wake, Only, Inv, LifeTypes
  <2>2. QED
    BY <1>wake, <2>1, ResumeKeeps, Zenon DEF wake, Ends
<1>late. ASSUME NEW t \in Threads, afterTimeout(t)
         PROVE  QueueInv'
  <2>1. UNCHANGED <<live, list, call>> /\ pc[t] = "timedOut"
    BY <1>late, Zenon DEF afterTimeout, At
  <2>2. ASSUME pc' = [pc EXCEPT ![t] = "closing"] PROVE Only(t) /\ pc'[t] = "closing"
    BY <2>1, <2>2, Zenon DEF Only, Inv, LifeTypes
  <2>3. CASE Contains(events[list[t]], t)
    BY <1>late, <2>1, <2>2, <2>3, EraseKeeps, Zenon DEF afterTimeout
  <2>4. CASE ~ Contains(events[list[t]], t) /\ signaled[t]
    BY <1>late, <2>1, <2>2, <2>4, ResumeKeeps, Zenon DEF afterTimeout, resetWakeEvent
  <2>5. CASE ~ Contains(events[list[t]], t) /\ ~ signaled[t]
    BY <1>late, <1>still, <2>1, <2>5, Zenon DEF afterTimeout
  <2>6. QED
    BY <2>3, <2>4, <2>5, Zenon
<1>stutter. CASE UNCHANGED vars
  BY <1>still, <1>stutter, Zenon DEF vars, memory, threads
<1>step. CASE Next
  BY <1>step, <1>embedder, <1>open, <1>quiet, <1>delete, <1>wait, <1>wake, <1>late,
     PushKeeps, NotifyKeeps
     DEF Next, Step, atomic_wait, atomic_notify
<1>end. QED
  BY <1>stutter, <1>step, Zenon

LEMMA QueueInit == Init => QueueInv
<1> SUFFICES ASSUME Init PROVE QueueInv
  BY Zenon
<1>2. QueueTypes
  BY DEF Init, QueueTypes
<1>3. \A t \in Threads : ThreadInv(t)
  BY Zenon DEF Init, ThreadInv, Waiting
<1>4. QED
  BY <1>2, <1>3, Zenon DEF Init, QueueInv

-----------------------------------------------------------------------------
(* The wait lists implement the futex.                                     *)

\* What the futex sees of a thread follows from its place in its call.
LEMMA StateByPC ==
  ASSUME NEW t \in Threads
  PROVE  /\ futexStates[t] = futexState(t)
         /\ futexReqs[t] = IF futexState(t) = "answered" THEN NoCall ELSE call[t]
         /\ pc[t] = "idle" => futexState(t) = "idle"
         /\ pc[t] = "opened" => futexState(t) = "asked"
         /\ pc[t] \in {"closing", "deleting"} => futexState(t) = "answered"
         /\ pc[t] \in Waiting /\ Contains(events[list[t]], t) => futexState(t) = "blocked"
         /\ pc[t] \in Waiting /\ ~ Contains(events[list[t]], t) => futexState(t) = "woken"
<1>1. /\ futexStates[t] = futexState(t)
      /\ futexReqs[t] = IF futexState(t) = "answered" THEN NoCall ELSE call[t]
  BY Zenon DEF futexStates, futexReqs
<1>2. QED
  BY <1>1, Zenon DEF futexState, Waiting

\* The same, one step later.
LEMMA StateByPCNext ==
  ASSUME NEW t \in Threads
  PROVE  /\ pc'[t] = "idle" => futexState(t)' = "idle"
         /\ pc'[t] = "opened" => futexState(t)' = "asked"
         /\ pc'[t] \in {"closing", "deleting"} => futexState(t)' = "answered"
         /\ pc'[t] \in Waiting /\ Contains(events'[list'[t]], t) => futexState(t)' = "blocked"
         /\ pc'[t] \in Waiting /\ ~ Contains(events'[list'[t]], t) => futexState(t)' = "woken"
  BY Zenon DEF futexState, Waiting

\* The other threads' waits are on the queues they were on.
StillQueued(t) ==
  \A u \in Threads \ {t} :
    pc[u] \in Waiting => (Contains(events'[list[u]], u) <=> Contains(events[list[u]], u))

\* A thread that makes no step looks the same while it stays on its queue.
LEMMA SameState ==
  ASSUME Inv, NEW u \in Threads, pc'[u] = pc[u], list'[u] = list[u],
         pc[u] \in Waiting => (Contains(events'[list[u]], u) <=> Contains(events[list[u]], u))
  PROVE  futexState(u)' = futexState(u)
<1>1. CASE pc[u] \in Waiting
  <2>1. CASE Contains(events[list[u]], u)
    BY <1>1, <2>1, StateByPC, StateByPCNext
  <2>2. CASE ~ Contains(events[list[u]], u)
    BY <1>1, <2>2, StateByPC, StateByPCNext
  <2>3. QED
    BY <2>1, <2>2, Zenon
<1>2. CASE pc[u] \in {"idle", "opened", "closing", "deleting"}
  BY <1>2, StateByPC, StateByPCNext, Zenon
<1>3. QED
  BY <1>1, <1>2, Zenon DEF Inv, LifeTypes, PCs, Waiting

\* A step of t changes what the futex sees of t alone.
LEMMA ViewOfOne ==
  ASSUME Inv, NEW t \in Threads, NEW s, NEW r, Only(t), StillQueued(t), futexState(t)' = s,
         r = (IF s = "answered" THEN NoCall ELSE call'[t])
  PROVE  /\ futexStates' = [futexStates EXCEPT ![t] = s]
         /\ futexReqs' = [futexReqs EXCEPT ![t] = r]
<1>1. ASSUME NEW u \in Threads \ {t}
      PROVE  futexState(u)' = futexState(u) /\ call'[u] = call[u]
  <2>1. pc'[u] = pc[u] /\ list'[u] = list[u] /\ call'[u] = call[u]
    BY Zenon DEF Only
  <2>2. pc[u] \in Waiting => (Contains(events'[list[u]], u) <=> Contains(events[list[u]], u))
    BY Zenon DEF StillQueued
  <2>3. QED
    BY <2>1, <2>2, SameState, Zenon
<1>2. futexStates' = [futexStates EXCEPT ![t] = s]
  BY <1>1, Zenon DEF futexStates
<1>3. futexReqs' = [futexReqs EXCEPT ![t] = r]
  BY <1>1, Zenon DEF futexReqs
<1>4. QED
  BY <1>2, <1>3, Zenon

\* A step that leaves map, lists and calls alone is invisible.
LEMMA SameView ==
  ASSUME UNCHANGED <<map, events, pc, list, call>>
  PROVE  UNCHANGED <<futexQueues, futexStates, futexReqs>>
<1>1. \A t \in Threads : futexState(t)' = futexState(t)
  BY DEF futexState
<1>2. \A a \in Addrs : futexQueue(a)' = futexQueue(a)
  BY Zenon DEF futexQueue
<1>3. QED
  BY <1>1, <1>2, Zenon DEF futexQueues, futexStates, futexReqs

\* A list that is changed by a call that holds it is the queue of the call's
\* address and of no other.
LEMMA QueueOfCall ==
  ASSUME Inv, QueueInv, NEW t \in Threads, pc[t] \in Holding
  PROVE  /\ call[t].addr \in Addrs /\ futexQueues[call[t].addr] = events[list[t]]
         /\ \A q : /\ events' = [events EXCEPT ![list[t]] = q]
                   /\ map' = map
                   => futexQueues' = [futexQueues EXCEPT ![call[t].addr] = q]
<1>1. PICK a \in Addrs : a = call[t].addr
  BY CallAddr, Zenon DEF Inv, LifeInv, Holding
<1>2. PICK m \in Lists : m = list[t] /\ map[a] = m /\ m # NoList
  BY <1>1, WaitListAssumption, Zenon DEF Inv, LifeTypes, LifeInv, OpenListIsLive
<1>3. \A b \in Addrs \ {a} : map[b] # m
  BY <1>2 DEF Inv, LifeInv, MapConsistent
<1>4. futexQueues[a] = events[m]
  BY <1>2, Zenon DEF futexQueues, futexQueue
<1>5. ASSUME NEW q, events' = [events EXCEPT ![m] = q], map' = map
      PROVE  futexQueues' = [futexQueues EXCEPT ![a] = q]
  <2>1. events'[m] = q /\ \A l \in Lists \ {m} : events'[l] = events[l]
    BY <1>5, Zenon DEF QueueInv, QueueTypes
  <2>2. futexQueue(a)' = q
    BY <1>2, <1>5, <2>1, Zenon DEF futexQueue
  <2>3. \A b \in Addrs \ {a} : futexQueue(b)' = futexQueue(b)
    BY <1>3, <1>5, <2>1, Zenon DEF futexQueue, Inv, LifeTypes
  <2>4. QED
    BY <2>2, <2>3, Zenon DEF futexQueues
<1>6. QED
  BY <1>1, <1>2, <1>4, <1>5, Zenon

\* A call asks: the new list, if there is one, is as empty as no list.
LEMMA OpenIsAsk ==
  ASSUME Inv, QueueInv, NEW t \in Threads, NEW c \in Calls, openWaitList(t, c)
  PROVE  F!Ask(t, c)
<1>1. /\ pc[t] = "idle" /\ pc'[t] = "opened" /\ call'[t] = c /\ UNCHANGED <<mem, ret>>
  BY Zenon DEF openWaitList, At, Inv, LifeTypes
<1>2. Only(t)
  BY DEF openWaitList, shareWaitList, newWaitList, Only, Inv, LifeTypes
<1>3. StillQueued(t) /\ \A a \in Addrs : futexQueue(a)' = futexQueue(a)
  <2>1. CASE shareWaitList(t, c.addr)
    BY <2>1, Zenon DEF shareWaitList, StillQueued, futexQueue
  <2>2. CASE map[c.addr] = NoList /\ newWaitList(t, c.addr)
    <3>1. PICK n \in FreshLists : /\ events' = [events EXCEPT ![n] = <<>>]
                                  /\ map' = [map EXCEPT ![c.addr] = n]
      BY <2>2, Zenon DEF newWaitList
    <3>2. n \in Lists /\ n \notin live /\ (\A u \in Threads : list[u] # n) /\ n # NoList
      BY WaitListAssumption, Zenon DEF FreshLists
    <3>3. events'[n] = <<>> /\ \A l \in (Lists \cup {NoList}) \ {n} : events'[l] = events[l]
      BY <3>1, <3>2 DEF QueueInv, QueueTypes
    <3>4. StillQueued(t)
      BY <3>2, <3>3, Zenon DEF StillQueued, Inv, LifeTypes
    <3>5. futexQueue(c.addr)' = futexQueue(c.addr)
      BY <2>2, <3>1, <3>2, <3>3, CallAddr, Zenon DEF futexQueue, Inv, LifeTypes
    <3>6. \A a \in Addrs \ {c.addr} : map'[a] = map[a] /\ map[a] # n /\ map[a] \in Lists \cup {NoList}
      BY <3>1, <3>2 DEF Inv, LifeTypes, LifeInv, MapConsistent
    <3>7. \A a \in Addrs \ {c.addr} : futexQueue(a)' = futexQueue(a)
      BY <3>3, <3>6, Zenon DEF futexQueue
    <3>8. QED
      BY <3>4, <3>5, <3>7, Zenon
  <2>3. QED
    BY <2>1, <2>2, Zenon DEF openWaitList
<1>4. futexQueues' = futexQueues
  BY <1>3, Zenon DEF futexQueues
<1>5. /\ futexStates' = [futexStates EXCEPT ![t] = "asked"]
      /\ futexReqs' = [futexReqs EXCEPT ![t] = c]
  BY <1>1, <1>2, <1>3, StateByPCNext, ViewOfOne
<1>6. futexStates[t] = "idle"
  BY <1>1, StateByPC, Zenon
<1>7. QED
  BY <1>1, <1>4, <1>5, <1>6, Zenon DEF F!Ask

\* A step of t that keeps the lists: the futex sees the new state of t.
LEMMA QuietView ==
  ASSUME Inv, NEW t \in Threads, Only(t), UNCHANGED <<map, events>>, NEW s, futexState(t)' = s,
         NEW r, r = (IF s = "answered" THEN NoCall ELSE call'[t])
  PROVE  /\ futexStates' = [futexStates EXCEPT ![t] = s]
         /\ futexReqs' = [futexReqs EXCEPT ![t] = r]
         /\ futexQueues' = futexQueues
<1>1. StillQueued(t)
  BY Zenon DEF StillQueued
<1>2. futexQueues' = futexQueues
  BY Zenon DEF futexQueues, futexQueue
<1>3. QED
  BY <1>1, <1>2, ViewOfOne

\* The load faults, or finds another value.
LEMMA FaultIsTrap ==
  ASSUME Inv, NEW t \in Threads, loadFaults(t)
  PROVE  F!Trap(t)
<1>1. /\ pc[t] = "opened" /\ call[t].op = "wait" /\ mem[call[t].addr] = Unmapped
      /\ ret' = [ret EXCEPT ![t] = NoResult] /\ UNCHANGED <<mem, map, events>>
      /\ pc'[t] = "idle" /\ call'[t] = NoCall /\ Only(t)
  BY Zenon DEF loadFaults, At, Return, Only, Inv, LifeTypes
<1>2. /\ futexStates' = [futexStates EXCEPT ![t] = "idle"]
      /\ futexReqs' = [futexReqs EXCEPT ![t] = NoCall]
      /\ futexQueues' = futexQueues
  BY <1>1, StateByPCNext, QuietView, Zenon
<1>3. futexStates[t] = "asked" /\ futexReqs[t] = call[t]
  BY <1>1, StateByPC, Zenon
<1>4. QED
  BY <1>1, <1>2, <1>3, Zenon DEF F!Trap, F!Answer, F!NoReq, NoCall, F!NoResult, NoResult

LEMMA DiffersIsRefuse ==
  ASSUME Inv, NEW t \in Threads, loadDiffers(t)
  PROVE  F!Refuse(t)
<1>1. /\ pc[t] = "opened" /\ call[t].op = "wait" /\ mem[call[t].addr] \notin {Unmapped, call[t].arg}
      /\ ret' = [ret EXCEPT ![t] = 1] /\ UNCHANGED <<mem, map, events>>
      /\ pc'[t] = "closing" /\ Only(t)
  BY Zenon DEF loadDiffers, At, Only, memory, Inv, LifeTypes
<1>2. /\ futexStates' = [futexStates EXCEPT ![t] = "answered"]
      /\ futexReqs' = [futexReqs EXCEPT ![t] = NoCall]
      /\ futexQueues' = futexQueues
  BY <1>1, StateByPCNext, QuietView, Zenon
<1>3. futexStates[t] = "asked" /\ futexReqs[t] = call[t]
  BY <1>1, StateByPC, Zenon
<1>4. QED
  BY <1>1, <1>2, <1>3, Zenon DEF F!Refuse, F!Answer, F!NoReq, NoCall, F!NotEqual

\* The load finds the value: the thread joins the queue of its address.
LEMMA PushIsBlock ==
  ASSUME Inv, QueueInv, NEW t \in Threads, pushWakeEvent(t)
  PROVE  F!Block(t)
<1>1. /\ pc[t] = "opened" /\ call[t].op = "wait" /\ mem[call[t].addr] = call[t].arg
      /\ UNCHANGED <<mem, map, list, call, ret>>
      /\ pc'[t] = "queued" /\ Only(t)
  BY Zenon DEF pushWakeEvent, At, Only, Inv, LifeTypes
<1>2. PICK m \in Lists, p \in Seq(Threads) : m = list[t] /\ p = events[m] /\ m \in live /\ Distinct(p)
  BY <1>1, WaiterList, Zenon DEF Holding
<1>3. events' = [events EXCEPT ![m] = Append(p, t)]
  BY <1>2, Zenon DEF pushWakeEvent
<1>4. events'[m] = Append(p, t) /\ \A l \in Lists \ {m} : events'[l] = events[l]
  BY <1>3, Zenon DEF QueueInv, QueueTypes
<1>5. ~ Contains(p, t)
  BY <1>1, <1>2, Zenon DEF QueueInv, ThreadInv, Waiting
<1>6. \A u : Contains(Append(p, t), u) <=> Contains(p, u) \/ u = t
  BY <1>2, <1>5, AppendKeeps, Zenon
<1>7. \A u \in Threads : pc[u] \in Waiting => list[u] \in Lists
  BY Zenon DEF Inv, LifeTypes, LifeInv, OpenListIsLive, Holding, Waiting
<1>8. StillQueued(t)
  BY <1>2, <1>4, <1>6, <1>7, Zenon DEF StillQueued
<1>9. futexState(t)' = "blocked"
  BY <1>1, <1>2, <1>4, <1>6, StateByPCNext, Zenon DEF Waiting
<1>10. /\ futexStates' = [futexStates EXCEPT ![t] = "blocked"]
       /\ futexReqs' = [futexReqs EXCEPT ![t] = call[t]]
  BY <1>1, <1>8, <1>9, ViewOfOne
<1>11. /\ futexQueues[call[t].addr] = p
       /\ futexQueues' = [futexQueues EXCEPT ![call[t].addr] = Append(p, t)]
  BY <1>1, <1>2, <1>3, QueueOfCall, Zenon DEF Holding
<1>12. futexStates[t] = "asked" /\ futexReqs[t] = call[t]
  BY <1>1, StateByPC, Zenon
<1>13. futexReqs' = futexReqs
  BY <1>10, <1>12, Zenon DEF futexReqs
<1>14. QED
  BY <1>1, <1>10, <1>11, <1>12, <1>13, Zenon DEF F!Block

\* A thread sleeps, or its timeout expires: the futex sees nothing of it.
LEMMA WaitIsInvisible ==
  ASSUME Inv, NEW t \in Threads, beginWait(t) \/ timeOut(t)
  PROVE  UNCHANGED F!futex
<1>1. /\ pc[t] \in Waiting /\ pc'[t] \in Waiting /\ Only(t)
      /\ UNCHANGED <<mem, map, events, list, call, ret>>
  BY Zenon DEF beginWait, timeOut, At, Only, Waiting, memory, Inv, LifeTypes
<1>2. futexState(t)' = futexState(t) /\ futexState(t) # "answered"
  <2>1. CASE Contains(events[list[t]], t)
    BY <1>1, <2>1, StateByPC, StateByPCNext, Zenon
  <2>2. CASE ~ Contains(events[list[t]], t)
    BY <1>1, <2>2, StateByPC, StateByPCNext, Zenon
  <2>3. QED
    BY <2>1, <2>2, Zenon
<1>3. /\ futexStates' = [futexStates EXCEPT ![t] = futexState(t)]
      /\ futexReqs' = [futexReqs EXCEPT ![t] = call[t]]
      /\ futexQueues' = futexQueues
  BY <1>1, <1>2, QuietView, Zenon
<1>4. futexStates' = futexStates /\ futexReqs' = futexReqs
  BY <1>2, <1>3, Zenon DEF futexStates, futexReqs
<1>5. QED
  BY <1>1, <1>3, <1>4, Zenon DEF F!futex

\* Event::wait returns true, at once or when it is called again after a
\* timeout: the thread had been taken off the queue.
LEMMA WakeIsResume ==
  ASSUME Inv, QueueInv, NEW t \in Threads, signaled[t], pc' = [pc EXCEPT ![t] = "closing"],
         ret' = [ret EXCEPT ![t] = 0], UNCHANGED <<mem, map, events, list, call>>
  PROVE  F!Resume(t)
<1>1. pc'[t] = "closing" /\ Only(t)
  BY Zenon DEF Only, Inv, LifeTypes
<1>2. /\ futexStates' = [futexStates EXCEPT ![t] = "answered"]
      /\ futexReqs' = [futexReqs EXCEPT ![t] = NoCall]
      /\ futexQueues' = futexQueues
  BY <1>1, StateByPCNext, QuietView, Zenon
<1>3. pc[t] \in Waiting /\ ~ Contains(events[list[t]], t)
  BY Zenon DEF QueueInv, ThreadInv
<1>4. futexStates[t] = "woken"
  BY <1>3, StateByPC, Zenon
<1>5. QED
  BY <1>2, <1>4, Zenon DEF F!Resume, F!Answer, F!NoReq, NoCall, F!Woken

\* A thread whose timeout expired takes itself off the queue.
LEMMA EraseIsGiveUp ==
  ASSUME Inv, QueueInv, NEW t \in Threads, pc[t] = "timedOut", Contains(events[list[t]], t),
         eraseWakeEvent(t), ret' = [ret EXCEPT ![t] = 2], pc' = [pc EXCEPT ![t] = "closing"],
         UNCHANGED <<mem, map, list, call>>
  PROVE  F!GiveUp(t)
<1>1. pc'[t] = "closing" /\ Only(t) /\ pc[t] \in Waiting /\ pc[t] \in Holding
  BY Zenon DEF Only, Waiting, Holding, Inv, LifeTypes
<1>2. PICK m \in Lists, p \in Seq(Threads) : m = list[t] /\ p = events[m] /\ m \in live /\ Distinct(p)
  BY <1>1, WaiterList, Zenon
<1>3. PICK k \in 1 .. Len(p) : p[k] = t /\ events' = [events EXCEPT ![m] = RemoveAt(p, k)]
  BY <1>2, Zenon DEF eraseWakeEvent
<1>4. events'[m] = RemoveAt(p, k) /\ \A l \in Lists \ {m} : events'[l] = events[l]
  BY <1>3, Zenon DEF QueueInv, QueueTypes
<1>5. \A u : Contains(RemoveAt(p, k), u) <=> Contains(p, u) /\ u # t
  BY <1>2, <1>3, RemoveKeeps, Zenon
<1>6. \A u \in Threads : pc[u] \in Waiting => list[u] \in Lists
  BY Zenon DEF Inv, LifeTypes, LifeInv, OpenListIsLive, Holding, Waiting
<1>7. StillQueued(t)
  BY <1>2, <1>4, <1>5, <1>6, Zenon DEF StillQueued
<1>8. /\ futexStates' = [futexStates EXCEPT ![t] = "answered"]
      /\ futexReqs' = [futexReqs EXCEPT ![t] = NoCall]
  BY <1>1, <1>7, StateByPCNext, ViewOfOne
<1>9. /\ futexQueues[call[t].addr] = p
      /\ futexQueues' = [futexQueues EXCEPT ![call[t].addr] = RemoveAt(p, k)]
  BY <1>1, <1>2, <1>3, QueueOfCall, Zenon
<1>10. futexQueues' = [futexQueues EXCEPT ![call[t].addr] = F!Without(p, k)]
  BY <1>9, Zenon DEF RemoveAt, F!Without
<1>11. futexStates[t] = "blocked" /\ futexReqs[t] = call[t]
  BY <1>1, StateByPC, Zenon
<1>12. call[t].timed
  BY Zenon DEF QueueInv, ThreadInv
<1>13. \E i \in 1 .. Len(futexQueues[call[t].addr]) :
         /\ futexQueues[call[t].addr][i] = t
         /\ futexQueues' = [futexQueues EXCEPT ![call[t].addr] = F!Without(@, i)]
  BY <1>3, <1>9, <1>10, Zenon
<1>14. QED
  BY <1>8, <1>11, <1>12, <1>13, Zenon DEF F!GiveUp, F!Answer, F!NoReq, NoCall, F!TimedOut

\* A notify takes the oldest waiters off the queue and wakes exactly these.
LEMMA WakeIsNotify ==
  ASSUME Inv, QueueInv, NEW t \in Threads, wakeAddress(t)
  PROVE  F!Notify(t)
<1>1. /\ pc[t] = "opened" /\ call[t].op = "notify" /\ UNCHANGED <<mem, map, list, call>>
      /\ pc'[t] = "closing" /\ Only(t)
  BY Zenon DEF wakeAddress, At, Only, Inv, LifeTypes
<1>2. PICK m \in Lists, p \in Seq(Threads) : m = list[t] /\ p = events[m] /\ m \in live /\ Distinct(p)
  BY <1>1, WaiterList, Zenon DEF Holding
<1>3. call[t] \in Notifies
  BY <1>1, Zenon DEF Inv, LifeInv, Calls, Waits, Notifies
<1>4. PICK n \in 0 .. Len(p) : /\ n = NumToWake(call[t].arg, p)
                               /\ n = IF call[t].arg < Len(p) THEN call[t].arg ELSE Len(p)
  BY <1>2, <1>3 DEF NumToWake, Notifies
<1>5. /\ events' = [events EXCEPT ![m] = SubSeq(p, n + 1, Len(p))]
      /\ ret' = [ret EXCEPT ![t] = n]
  BY <1>2, <1>4, Zenon DEF wakeAddress
<1>6. events'[m] = SubSeq(p, n + 1, Len(p)) /\ \A l \in Lists \ {m} : events'[l] = events[l]
  BY <1>5, Zenon DEF QueueInv, QueueTypes
<1>7. \A u : Contains(SubSeq(p, n + 1, Len(p)), u) <=> Contains(p, u) /\ \A i \in 1 .. n : p[i] # u
  BY <1>2, DropKeeps, Zenon
<1>8. \A u : (\E i \in 1 .. n : p[i] = u) => Contains(p, u)
  BY DEF Contains
<1>9. \A u \in Threads : pc[u] \in Waiting => list[u] \in Lists
  BY Zenon DEF Inv, LifeTypes, LifeInv, OpenListIsLive, Holding, Waiting
<1>10. ASSUME NEW u \in Threads \ {t}
       PROVE  futexState(u)' = IF \E i \in 1 .. n : p[i] = u THEN "woken" ELSE futexState(u)
  <2>1. pc'[u] = pc[u] /\ list'[u] = list[u]
    BY <1>1, Zenon DEF Only
  <2>2. CASE \E i \in 1 .. n : p[i] = u
    <3>1. pc[u] \in Waiting /\ list[u] = m
      BY <1>2, <1>8, <2>2 DEF QueueInv, ThreadInv
    <3>2. ~ Contains(SubSeq(p, n + 1, Len(p)), u)
      BY <1>7, <2>2, Zenon
    <3>3. QED
      BY <1>6, <2>1, <2>2, <3>1, <3>2, StateByPCNext, Zenon
  <2>3. CASE ~ \E i \in 1 .. n : p[i] = u
    <3>1. pc[u] \in Waiting => (Contains(events'[list[u]], u) <=> Contains(events[list[u]], u))
      <4>1. CASE list[u] = m
        BY <1>2, <1>6, <1>7, <2>3, <4>1, Zenon
      <4>2. CASE list[u] # m
        BY <1>6, <1>9, <4>2, Zenon
      <4>3. QED
        BY <4>1, <4>2, Zenon
    <3>2. futexState(u)' = futexState(u)
      BY <2>1, <3>1, SameState, Zenon
    <3>3. QED
      BY <2>3, <3>2, Zenon
  <2>4. QED
    BY <2>2, <2>3, Zenon
<1>11. futexState(t)' = "answered"
  BY <1>1, StateByPCNext, Zenon
<1>12. futexStates' = [u \in Threads |->
                         IF u = t THEN "answered"
                         ELSE IF \E i \in 1 .. n : p[i] = u THEN "woken"
                         ELSE futexStates[u]]
  BY <1>10, <1>11, Zenon DEF futexStates
<1>13. \A u \in Threads \ {t} : /\ call'[u] = call[u]
                                /\ futexState(u)' = "answered" <=> futexState(u) = "answered"
  <2>1. ASSUME NEW u \in Threads \ {t}, \E i \in 1 .. n : p[i] = u
        PROVE  futexState(u) # "answered"
    BY <1>2, <1>8, <2>1, StateByPC DEF QueueInv, ThreadInv
  <2>2. QED
    BY <1>1, <1>10, <2>1, Zenon
<1>14. futexReqs' = [futexReqs EXCEPT ![t] = NoCall]
  BY <1>11, <1>13, Zenon DEF futexReqs
<1>15. /\ futexQueues[call[t].addr] = p
       /\ futexQueues' = [futexQueues EXCEPT ![call[t].addr] = SubSeq(p, n + 1, Len(p))]
  BY <1>1, <1>2, <1>5, QueueOfCall, Zenon DEF Holding
<1>16. futexStates[t] = "asked" /\ futexReqs[t] = call[t]
  BY <1>1, StateByPC, Zenon
<1>17. QED
  BY <1>1, <1>4, <1>5, <1>12, <1>14, <1>15, <1>16, Zenon DEF F!Notify, F!Answer, F!NoReq, NoCall

\* A call returns after it has closed its list, whoever deletes the list.
LEMMA ReturnIsReturn ==
  ASSUME Inv, NEW t \in Threads, pc[t] \in {"closing", "deleting"}, Return(t), UNCHANGED <<mem, events>>,
         \A a \in Addrs : futexQueue(a)' = futexQueue(a)
  PROVE  F!Return(t)
<1>1. pc'[t] = "idle" /\ call'[t] = NoCall /\ Only(t) /\ ret' = [ret EXCEPT ![t] = NoResult]
  BY Zenon DEF Return, Only, Inv, LifeTypes
<1>2. StillQueued(t)
  BY Zenon DEF StillQueued
<1>3. /\ futexStates' = [futexStates EXCEPT ![t] = "idle"]
      /\ futexReqs' = [futexReqs EXCEPT ![t] = NoCall]
  BY <1>1, <1>2, StateByPCNext, ViewOfOne
<1>4. futexStates[t] = "answered" /\ futexReqs[t] = NoCall
  BY StateByPC, Zenon
<1>5. futexReqs' = futexReqs
  BY <1>3, <1>4, Zenon DEF futexReqs
<1>6. futexQueues' = futexQueues
  BY Zenon DEF futexQueues
<1>7. QED
  BY <1>1, <1>3, <1>4, <1>5, <1>6, Zenon DEF F!Return, F!NoResult, NoResult

LEMMA CloseIsReturn ==
  ASSUME Inv, NEW t \in Threads, closeWaitList(t)
  PROVE  F!Return(t) \/ UNCHANGED F!futex
<1>1. pc[t] = "closing" /\ UNCHANGED <<mem, map, events>>
  BY Zenon DEF closeWaitList, At
<1>2. CASE Return(t)
  <2>1. \A a \in Addrs : futexQueue(a)' = futexQueue(a)
    BY <1>1, Zenon DEF futexQueue
  <2>2. QED
    BY <1>1, <1>2, <2>1, ReturnIsReturn, Zenon
<1>3. CASE pc' = [pc EXCEPT ![t] = "deleting"] /\ UNCHANGED <<list, call, ret>>
  <2>1. pc'[t] = "deleting" /\ Only(t)
    BY <1>3, Zenon DEF Only, Inv, LifeTypes
  <2>2. /\ futexStates' = [futexStates EXCEPT ![t] = "answered"]
        /\ futexReqs' = [futexReqs EXCEPT ![t] = NoCall]
        /\ futexQueues' = futexQueues
    BY <1>1, <2>1, StateByPCNext, QuietView, Zenon
  <2>3. futexStates[t] = "answered" /\ futexReqs[t] = NoCall
    BY <1>1, StateByPC, Zenon
  <2>4. futexStates' = futexStates /\ futexReqs' = futexReqs
    BY <2>2, <2>3, Zenon DEF futexStates, futexReqs
  <2>5. QED
    BY <1>1, <1>3, <2>2, <2>4, Zenon DEF F!futex
<1>4. QED
  BY <1>2, <1>3, Zenon DEF closeWaitList

\* The deleted list was empty: the queue of its address is empty before and
\* after.
LEMMA DeleteIsReturn ==
  ASSUME Inv, NEW t \in Threads, deleteWaitList(t)
  PROVE  F!Return(t) \/ UNCHANGED F!futex
<1>1. pc[t] = "deleting"
  BY Zenon DEF deleteWaitList, At
<1>2. CASE UNCHANGED <<memory, threads>>
  BY <1>2, SameView, Zenon DEF memory, threads, F!futex
<1>3. CASE Return(t) /\ UNCHANGED memory
  <2>1. \A a \in Addrs : futexQueue(a)' = futexQueue(a)
    BY <1>3, Zenon DEF futexQueue, memory
  <2>2. QED
    BY <1>1, <1>3, <2>1, ReturnIsReturn, Zenon DEF memory
<1>4. CASE /\ list[t] \in live /\ events[list[t]] = <<>> /\ forget(call[t].addr)
           /\ Return(t) /\ UNCHANGED <<mem, events>>
  <2>1. PICK a \in Addrs : a = call[t].addr
    BY <1>1, CallAddr, Zenon DEF Inv, LifeInv
  <2>2. map[a] = list[t] /\ map' = [map EXCEPT ![a] = NoList]
    BY <1>1, <1>4, <2>1, Zenon DEF forget, Inv, LifeInv
  <2>3. futexQueue(a)' = futexQueue(a)
    BY <1>4, <2>2, Zenon DEF futexQueue, Inv, LifeTypes
  <2>4. \A b \in Addrs \ {a} : futexQueue(b)' = futexQueue(b)
    BY <1>4, <2>2, Zenon DEF futexQueue, Inv, LifeTypes
  <2>5. QED
    BY <1>1, <1>4, <2>3, <2>4, ReturnIsReturn
<1>5. QED
  BY <1>2, <1>3, <1>4, Zenon DEF deleteWaitList

\* After a timeout.
LEMMA LateIsFutexStep ==
  ASSUME Inv, QueueInv, NEW t \in Threads, afterTimeout(t)
  PROVE  F!GiveUp(t) \/ F!Resume(t) \/ UNCHANGED F!futex
<1>1. UNCHANGED <<mem, map, list, call>> /\ pc[t] = "timedOut"
  BY Zenon DEF afterTimeout, At
<1>2. CASE Contains(events[list[t]], t)
  BY <1>1, <1>2, EraseIsGiveUp, Zenon DEF afterTimeout
<1>3. CASE ~ Contains(events[list[t]], t) /\ signaled[t]
  <2>1. /\ ret' = [ret EXCEPT ![t] = 0] /\ pc' = [pc EXCEPT ![t] = "closing"]
        /\ UNCHANGED events
    BY <1>3, Zenon DEF afterTimeout
  <2>2. QED
    BY <1>1, <1>3, <2>1, WakeIsResume, Zenon
<1>4. CASE ~ Contains(events[list[t]], t) /\ ~ signaled[t]
  <2>1. UNCHANGED <<ret, pc, events>>
    BY <1>4, Zenon DEF afterTimeout
  <2>2. QED
    BY <1>1, <2>1, SameView, Zenon DEF F!futex
<1>5. QED
  BY <1>2, <1>3, <1>4, Zenon

\* Every step of the wait lists is a step of the futex, or none.
LEMMA EveryStepIsFutex ==
  ASSUME EventKind = "auto_reset", Inv, QueueInv, [Next]_vars
  PROVE  [F!Next]_(F!futex)
<1>stutter. CASE UNCHANGED vars
  BY <1>stutter, SameView, Zenon DEF vars, memory, threads, F!futex
<1>unmap. ASSUME NEW a \in Addrs, unmapMemoryPages(a) PROVE F!Unmap(a)
  BY <1>unmap, SameView, Zenon DEF unmapMemoryPages, threads, F!Unmap
<1>store. ASSUME NEW a \in Addrs, NEW v \in Values, atomicStore(a, v) PROVE F!Store(a, v)
  BY <1>store, SameView, Zenon DEF atomicStore, threads, F!Store
<1>ask. ASSUME NEW t \in Threads, NEW c \in Calls, openWaitList(t, c)
        PROVE  \E r \in F!Waits \cup F!Notifies : F!Ask(t, r)
  <2>1. Calls = F!Waits \cup F!Notifies
    BY Zenon DEF Calls, Waits, Notifies, F!Waits, F!Notifies
  <2>2. F!Ask(t, c)
    BY <1>ask, OpenIsAsk, Zenon
  <2>3. QED
    BY <2>1, <2>2, Zenon
<1>wake. ASSUME NEW t \in Threads, wake(t) PROVE F!Resume(t)
  BY <1>wake, WakeIsResume, Zenon DEF wake, Ends
<1>step. ASSUME NEW t \in Threads, Step(t)
         PROVE  \/ F!Trap(t) \/ F!Refuse(t) \/ F!Block(t) \/ F!Resume(t) \/ F!GiveUp(t)
                \/ F!Notify(t) \/ F!Return(t) \/ UNCHANGED F!futex
  BY <1>step, <1>wake, FaultIsTrap, DiffersIsRefuse, PushIsBlock, WaitIsInvisible, LateIsFutexStep,
     WakeIsNotify, CloseIsReturn, DeleteIsReturn, Zenon DEF Step
<1>next. CASE Next
  <2>1. CASE \E a \in Addrs : unmapMemoryPages(a) \/ \E v \in Values : atomicStore(a, v)
    BY <1>unmap, <1>store, <2>1, Zenon DEF F!Next
  <2>2. CASE \E t \in Threads, c \in Calls : openWaitList(t, c)
    BY <1>ask, <2>2, Zenon DEF F!Next
  <2>3. CASE \E t \in Threads : Step(t)
    BY <1>step, <2>3, Zenon DEF F!Next
  <2>4. QED
    BY <1>next, <2>1, <2>2, <2>3 DEF Next, atomic_wait, atomic_notify, Calls
<1>end. QED
  BY <1>stutter, <1>next, Zenon

LEMMA InitIsFutex == Init => F!Init
<1> SUFFICES ASSUME Init PROVE F!Init
  BY Zenon
<1>1. \A t \in Threads : futexState(t) = "idle"
  BY Zenon DEF Init, futexState, Waiting
<1>2. \A a \in Addrs : futexQueue(a) = <<>>
  BY Zenon DEF Init, futexQueue
<1>3. futexStates = [t \in Threads |-> "idle"] /\ futexQueues = [a \in Addrs |-> <<>>]
  BY <1>1, <1>2, Zenon DEF futexStates, futexQueues
<1>4. futexReqs = [t \in Threads |-> NoCall]
  BY <1>1, Zenon DEF Init, futexReqs
<1>5. QED
  BY <1>3, <1>4, Zenon DEF Init, F!Init, F!NoReq, NoCall, F!NoResult, NoResult

-----------------------------------------------------------------------------
(* Lifetimes.  The reference counts keep every list a call uses allocated. *)

INSTANCE FiniteSetTheorems

\* The holders of a list are finitely many.
LEMMA HoldersFinite ==
  ASSUME NEW l
  PROVE  IsFiniteSet(Holders(l)) /\ Cardinality(Holders(l)) \in Nat
<1>1. Holders(l) \in SUBSET Threads
  BY DEF Holders
<1>2. QED
  BY <1>1, WaitListAssumption, FS_Subset, FS_CardinalityType

\* The same, one step later.
LEMMA HoldersFiniteNext ==
  ASSUME NEW l
  PROVE  IsFiniteSet(Holders(l)') /\ Cardinality(Holders(l)') \in Nat
<1>1. Holders(l)' \in SUBSET Threads
  BY DEF Holders
<1>2. QED
  BY <1>1, WaitListAssumption, FS_Subset, FS_CardinalityType

\* Between openWaitList and closeWaitList a call moves from one step to the
\* next without touching the map, the lists' lifetimes or their counts.
LEMMA InsideCall ==
  ASSUME Inv, NEW t \in Threads,
         pc[t] \in Holding, pc' = [pc EXCEPT ![t] = pc'[t]], pc'[t] \in Holding,
         UNCHANGED <<map, live, refs, leaked, list, call>>
  PROVE  Inv'
<1>1. LifeTypes'
  BY DEF Inv, LifeTypes, Holding, PCs
<1>2. \A u \in Threads : /\ pc'[u] \in Holding <=> pc[u] \in Holding
                         /\ pc'[u] = "deleting" => pc[u] = "deleting"
                         /\ pc'[u] # "idle" => pc[u] # "idle"
  BY DEF Inv, LifeTypes, Holding
<1>3. \A l \in Lists : Holders(l)' = Holders(l)
  BY <1>2 DEF Holders
<1>4. LifeInv'
  BY <1>2, <1>3 DEF Inv, LifeInv, LifeTypes, OpenListIsLive, MapConsistent, RefCount
<1>5. QED
  BY <1>1, <1>4 DEF Inv

\* Opening the list that the map holds adds one holder and one reference.
LEMMA OpenShared ==
  ASSUME Inv, NEW t \in Threads, NEW c \in Calls, pc[t] = "idle",
         map[c.addr] # NoList, shareWaitList(t, c.addr),
         call' = [call EXCEPT ![t] = c], pc' = [pc EXCEPT ![t] = "opened"]
  PROVE  Inv'
<1> USE DEF Inv, LifeTypes
<1>1. PICK m \in live : m = map[c.addr] /\ m \in Lists /\ c.addr \in Addrs
  BY CallAddr DEF LifeInv, MapConsistent
<1>2. LifeTypes'
  BY <1>1 DEF shareWaitList, PCs
<1>3. \A u \in Threads \ {t} : pc'[u] = pc[u] /\ list'[u] = list[u] /\ call'[u] = call[u]
  BY Zenon DEF shareWaitList
<1>4. pc'[t] = "opened" /\ list'[t] = m /\ call'[t] = c
  BY <1>1 DEF shareWaitList
<1>5. Holders(m)' = Holders(m) \cup {t} /\ t \notin Holders(m)
  BY <1>3, <1>4 DEF Holders, Holding
<1>6. \A l \in Lists \ {m} : Holders(l)' = Holders(l)
  BY <1>3, <1>4 DEF Holders, Holding
<1>7. Cardinality(Holders(m)') = Cardinality(Holders(m)) + 1
  BY <1>5, HoldersFinite, FS_AddElement, Zenon
<1>8. RefCount'
  BY <1>1, <1>6, <1>7, HoldersFinite DEF RefCount, LifeInv, shareWaitList
<1>9. map' = map /\ live' = live
  BY DEF shareWaitList
<1>10. OpenListIsLive'
  BY <1>1, <1>3, <1>4, <1>9 DEF LifeInv, OpenListIsLive
<1>11. MapConsistent'
  BY <1>9 DEF LifeInv, MapConsistent
<1>12. \A u \in Threads :
         /\ pc'[u] # "idle" => call'[u] \in Calls
         /\ pc'[u] = "deleting" /\ list'[u] \in live' => map'[call'[u].addr] = list'[u]
  BY <1>3, <1>4, <1>9 DEF LifeInv
<1>13. QED
  BY <1>2, <1>8, <1>10, <1>11, <1>12 DEF LifeInv

\* A new list has one holder, the caller, and one reference.  No pointer left
\* over from an earlier call leads to it.
LEMMA OpenNew ==
  ASSUME Inv, NEW t \in Threads, NEW c \in Calls, pc[t] = "idle",
         map[c.addr] = NoList, newWaitList(t, c.addr),
         call' = [call EXCEPT ![t] = c], pc' = [pc EXCEPT ![t] = "opened"]
  PROVE  Inv'
<1> USE DEF Inv, LifeTypes
<1>1. c.addr \in Addrs
  BY Zenon DEF Calls, Waits, Notifies
<1>2. PICK n \in FreshLists :
        /\ list' = [list EXCEPT ![t] = n]
        /\ live' = live \cup {n}
        /\ refs' = [refs EXCEPT ![n] = 1]
        /\ leaked' = [leaked EXCEPT ![n] = 0]
        /\ map' = [map EXCEPT ![c.addr] = n]
  BY Zenon DEF newWaitList
<1>3. n \in Lists /\ n \notin live /\ n # NoList /\ \A u \in Threads : list[u] # n
  BY WaitListAssumption DEF FreshLists
<1>4. LifeTypes'
  BY <1>1, <1>2, <1>3 DEF PCs
<1>5. \A u \in Threads \ {t} : pc'[u] = pc[u] /\ list'[u] = list[u] /\ call'[u] = call[u]
  BY <1>2
<1>6. pc'[t] = "opened" /\ list'[t] = n /\ call'[t] = c
  BY <1>2
<1>7. Holders(n)' = {t}
  BY <1>3, <1>5, <1>6 DEF Holders, Holding
<1>8. \A l \in live : Holders(l)' = Holders(l)
  BY <1>3, <1>5, <1>6 DEF Holders, Holding
<1>9. Cardinality(Holders(n)') = 1
  BY <1>7, FS_Singleton
<1>10. RefCount'
  BY <1>2, <1>3, <1>8, <1>9 DEF RefCount, LifeInv
<1>11. MapConsistent'
  <2>1. \A a \in Addrs : map'[a] = IF a = c.addr THEN n ELSE map[a]
    BY <1>1, <1>2
  <2>2. \A a \in Addrs : map[a] # n
    BY <1>3 DEF MapConsistent, LifeInv
  <2>3. \A l \in live : \E a \in Addrs : a # c.addr /\ map[a] = l
    BY WaitListAssumption DEF MapConsistent, LifeInv
  <2>4. QED
    BY <1>1, <1>2, <1>3, <2>1, <2>2, <2>3 DEF MapConsistent, LifeInv
<1>12. \A u \in Threads \ {t} : /\ pc[u] \in Holding => list[u] \in live
                                /\ pc[u] # "idle" => call[u].addr \in Addrs
  BY CallAddr DEF OpenListIsLive, LifeInv
<1>13. \A u \in Threads \ {t} :
         pc[u] # "idle" /\ list[u] \in live /\ map[call[u].addr] = list[u]
           => map'[call[u].addr] = list[u]
  <2> SUFFICES ASSUME NEW u \in Threads \ {t}, pc[u] # "idle", list[u] \in live,
                      map[call[u].addr] = list[u]
               PROVE  map'[call[u].addr] = list[u]
    BY Zenon
  <2>1. call[u].addr # c.addr
    BY WaitListAssumption
  <2>2. QED
    BY <1>2, <1>12, <2>1
<1>14. OpenListIsLive'
  BY <1>1, <1>2, <1>5, <1>6, <1>12, <1>13 DEF OpenListIsLive, LifeInv, Holding
<1>15. \A u \in Threads :
         /\ pc'[u] # "idle" => call'[u] \in Calls
         /\ pc'[u] = "deleting" /\ list'[u] \in live' => map'[call'[u].addr] = list'[u]
  BY <1>2, <1>3, <1>5, <1>6, <1>12, <1>13 DEF LifeInv
<1>16. QED
  BY <1>4, <1>10, <1>11, <1>14, <1>15 DEF LifeInv

\* A call that ends, by returning or by an exception, stops being a holder.
LEMMA HolderLeaves ==
  ASSUME Inv, NEW t \in Threads, pc[t] \in Holding,
         pc' = [pc EXCEPT ![t] = pc'[t]], pc'[t] \notin Holding,
         list'[t] \in {list[t], NoList},
         \A u \in Threads \ {t} : list'[u] = list[u]
  PROVE  /\ list[t] \in live
         /\ Cardinality(Holders(list[t])) \in Nat \ {0}
         /\ \A l \in live :
              Cardinality(Holders(l)') = IF l = list[t] THEN Cardinality(Holders(l)) - 1
                                         ELSE Cardinality(Holders(l))
<1> USE DEF Inv, LifeTypes
<1>1. PICK h \in live : h = list[t]
  BY Zenon DEF LifeInv, OpenListIsLive
<1>2. t \in Holders(h)
  BY <1>1 DEF Holders
<1>3. Holders(h)' = Holders(h) \ {t}
  BY <1>1 DEF Holders
<1>4. \A l \in live \ {h} : Holders(l)' = Holders(l)
  BY <1>1, WaitListAssumption DEF Holders
<1>5. Cardinality(Holders(h)') = Cardinality(Holders(h)) - 1
  BY <1>2, <1>3, HoldersFinite, FS_RemoveElement, Zenon
<1>6. Cardinality(Holders(h)) # 0
  BY <1>2, HoldersFinite, FS_EmptySet
<1>7. QED
  BY <1>1, <1>4, <1>5, <1>6, HoldersFinite

\* The decrement of closeWaitList, outside any lock.
LEMMA CloseKeepsInv ==
  ASSUME Inv, NEW t \in Threads, closeWaitList(t)
  PROVE  Inv'
<1> USE DEF Inv, LifeTypes
<1>1. PICK h \in live : h = list[t] /\ map[call[t].addr] = h /\ call[t] \in Calls
  BY DEF closeWaitList, At, LifeInv, OpenListIsLive, Holding
<1>2. /\ pc[t] \in Holding /\ pc' = [pc EXCEPT ![t] = pc'[t]] /\ pc'[t] \in {"idle", "deleting"}
      /\ list'[t] \in {list[t], NoList} /\ call'[t] \in {call[t], NoCall}
      /\ pc'[t] = "deleting" => list'[t] = list[t] /\ call'[t] = call[t]
      /\ \A u \in Threads \ {t} : pc'[u] = pc[u] /\ list'[u] = list[u] /\ call'[u] = call[u]
      /\ list' \in [Threads -> Lists \cup {NoList}]
      /\ call' \in [Threads -> Calls \cup {NoCall}]
  BY DEF closeWaitList, At, Return, Holding
<1>3. /\ refs' = [refs EXCEPT ![h] = @ - 1]
      /\ UNCHANGED <<map, live, leaked>>
  BY <1>1, Zenon DEF closeWaitList
<1>4. \A l \in live :
        Cardinality(Holders(l)') = IF l = h THEN Cardinality(Holders(l)) - 1
                                   ELSE Cardinality(Holders(l))
  BY <1>1, <1>2, HolderLeaves DEF Holding
<1>5. Cardinality(Holders(h)) \in Nat \ {0} /\ refs[h] = Cardinality(Holders(h)) + leaked[h]
  BY <1>1, <1>2, HolderLeaves DEF Holding, LifeInv, RefCount
<1>6. LifeTypes'
  BY <1>2, <1>3, <1>5 DEF PCs
<1>7. RefCount'
  BY <1>3, <1>4, <1>5, HoldersFinite DEF RefCount, LifeInv
<1>8. OpenListIsLive' /\ MapConsistent'
  BY <1>2, <1>3 DEF OpenListIsLive, MapConsistent, LifeInv, Holding
<1>9. \A u \in Threads :
        /\ pc'[u] # "idle" => call'[u] \in Calls
        /\ pc'[u] = "deleting" /\ list'[u] \in live' => map'[call'[u].addr] = list'[u]
  BY <1>1, <1>2, <1>3 DEF LifeInv
<1>10. QED
  BY <1>6, <1>7, <1>8, <1>9 DEF LifeInv

\* The exception of a faulting load leaves a reference without a holder.
LEMMA FaultKeepsInv ==
  ASSUME Inv, NEW t \in Threads, loadFaults(t)
  PROVE  Inv'
<1> USE DEF Inv, LifeTypes
<1>1. PICK h \in live : h = list[t]
  BY DEF loadFaults, At, LifeInv, OpenListIsLive, Holding
<1>2. /\ pc[t] \in Holding /\ pc' = [pc EXCEPT ![t] = pc'[t]] /\ pc'[t] = "idle"
      /\ list'[t] \in {list[t], NoList}
      /\ \A u \in Threads \ {t} : pc'[u] = pc[u] /\ list'[u] = list[u] /\ call'[u] = call[u]
      /\ list' \in [Threads -> Lists \cup {NoList}]
      /\ call' \in [Threads -> Calls \cup {NoCall}]
  BY DEF loadFaults, At, Return, Holding
<1>3. /\ leaked' = [leaked EXCEPT ![h] = @ + 1]
      /\ UNCHANGED <<map, live, refs>>
  BY <1>1 DEF loadFaults
<1>4. \A l \in live :
        Cardinality(Holders(l)') = IF l = h THEN Cardinality(Holders(l)) - 1
                                   ELSE Cardinality(Holders(l))
  BY <1>1, <1>2, HolderLeaves DEF Holding
<1>5. LifeTypes'
  BY <1>2, <1>3 DEF PCs
<1>6. RefCount'
  BY <1>3, <1>4, HoldersFinite DEF RefCount, LifeInv
<1>7. OpenListIsLive' /\ MapConsistent'
  BY <1>2, <1>3 DEF OpenListIsLive, MapConsistent, LifeInv, Holding
<1>8. QED
  BY <1>2, <1>3, <1>5, <1>6, <1>7 DEF LifeInv

\* The second half of closeWaitList.  A list whose count is zero under the
\* map's mutex has no holder, so nobody misses it.
LEMMA DeleteKeepsInv ==
  ASSUME Inv, NEW t \in Threads, deleteWaitList(t)
  PROVE  Inv'
<1> USE DEF Inv, LifeTypes
<1>1. CASE UNCHANGED <<memory, threads>>
  <2>1. UNCHANGED <<map, live, refs, leaked, pc, list, call>>
    BY <1>1 DEF memory, threads
  <2>2. \A l : Holders(l)' = Holders(l)
    BY <2>1 DEF Holders
  <2>3. QED
    BY <2>1, <2>2 DEF LifeInv, OpenListIsLive, MapConsistent, RefCount
<1>2. ASSUME Return(t), UNCHANGED <<refs, leaked>>, pc[t] = "deleting",
             live' \subseteq live,
             \A u \in Threads \ {t} : pc[u] \in Holding => list[u] \in live',
             \A u \in Threads \ {t} : pc[u] # "idle" /\ list[u] \in live' =>
                                        map'[call[u].addr] = map[call[u].addr],
             map' \in [Addrs -> Lists \cup {NoList}], MapConsistent'
      PROVE  Inv'
  <2>1. /\ \A u \in Threads \ {t} : pc'[u] = pc[u] /\ list'[u] = list[u] /\ call'[u] = call[u]
        /\ pc'[t] = "idle"
    BY <1>2 DEF Return
  <2>2. LifeTypes'
    BY <1>2 DEF Return, PCs
  <2>3. \A l \in live : Holders(l)' = Holders(l)
    BY <1>2, <2>1 DEF Holders, Holding
  <2>4. RefCount'
    BY <1>2, <2>3 DEF RefCount, LifeInv
  <2>5. OpenListIsLive'
    BY <1>2, <2>1 DEF OpenListIsLive, LifeInv, Holding
  <2>6. QED
    BY <1>2, <2>1, <2>2, <2>4, <2>5 DEF LifeInv
<1>3. CASE Return(t) /\ UNCHANGED <<memory, fault>>
  <2>1. UNCHANGED <<map, live, refs, leaked>>
    BY <1>3 DEF memory
  <2>2. QED
    BY <1>2, <1>3, <2>1
       DEF deleteWaitList, At, LifeInv, OpenListIsLive, MapConsistent
<1>4. CASE /\ list[t] \in live /\ refs[list[t]] = 0
           /\ live' = live \ {list[t]}
           /\ map' = [map EXCEPT ![call[t].addr] = NoList]
           /\ Return(t) /\ UNCHANGED <<refs, leaked>>
  <2>1. PICK d \in live : d = list[t]
    BY <1>4
  <2>2. /\ pc[t] = "deleting" /\ call[t] \in Calls /\ call[t].addr \in Addrs
        /\ map[call[t].addr] = d
    BY <2>1, CallAddr DEF deleteWaitList, At, LifeInv
  <2>3. Holders(d) = {}
    <3>1. Cardinality(Holders(d)) + leaked[d] = 0 /\ leaked[d] \in Nat
      BY <1>4, <2>1 DEF LifeInv, RefCount
    <3>2. QED
      BY <3>1, HoldersFinite, FS_EmptySet
  <2>4. \A u \in Threads : pc[u] \in Holding => list[u] \in live \ {d}
    BY <2>3 DEF Holders, LifeInv, OpenListIsLive
  <2>5. \A u \in Threads : pc[u] # "idle" /\ list[u] \in live \ {d} =>
          call[u].addr \in Addrs /\ map[call[u].addr] = list[u]
    BY CallAddr DEF LifeInv, OpenListIsLive, Holding, PCs
  <2>6. \A u \in Threads : pc[u] # "idle" /\ list[u] \in live \ {d} =>
          map'[call[u].addr] = map[call[u].addr]
    BY <1>4, <2>2, <2>5
  <2>7. MapConsistent'
    <3>1. \A a \in Addrs : map'[a] = IF a = call[t].addr THEN NoList ELSE map[a]
      BY <1>4, <2>2
    <3>2. \A a \in Addrs : map[a] = d => a = call[t].addr
      BY <2>2, WaitListAssumption DEF LifeInv, MapConsistent
    <3>3. QED
      BY <1>4, <2>1, <2>2, <3>1, <3>2 DEF LifeInv, MapConsistent
  <2>8. map' \in [Addrs -> Lists \cup {NoList}]
    BY <1>4, Zenon
  <2>9. QED
    BY <1>2, <1>4, <2>1, <2>2, <2>4, <2>6, <2>7, <2>8
<1>5. QED
  BY <1>1, <1>3, <1>4 DEF deleteWaitList, Unused, forget

\* Every step keeps the invariant.
LEMMA StepKeepsInv ==
  ASSUME Inv, [Next]_vars
  PROVE  Inv'
<1> USE DEF Inv, LifeTypes
<1>quiet. ASSUME UNCHANGED <<map, live, refs, leaked, pc, list, call>>
          PROVE  Inv'
  <2>1. \A l : Holders(l)' = Holders(l)
    BY <1>quiet DEF Holders
  <2>2. QED
    BY <1>quiet, <2>1 DEF LifeInv, OpenListIsLive, MapConsistent, RefCount
<1>stutter. CASE UNCHANGED vars
  BY <1>quiet, <1>stutter DEF vars, memory, threads
<1>store. ASSUME NEW a \in Addrs, NEW v \in Values, atomicStore(a, v)
          PROVE  Inv'
  BY <1>quiet, <1>store DEF atomicStore, threads
<1>unmap. ASSUME NEW a \in Addrs, unmapMemoryPages(a)
          PROVE  Inv'
  BY <1>quiet, <1>unmap DEF unmapMemoryPages, threads
<1>open. ASSUME NEW t \in Threads, NEW c \in Calls, openWaitList(t, c)
         PROVE  Inv'
  BY <1>open, OpenShared, OpenNew, Zenon DEF openWaitList, At
<1>inside. ASSUME NEW t \in Threads,
                  \/ loadDiffers(t) \/ pushWakeEvent(t) \/ beginWait(t)
                  \/ wake(t) \/ timeOut(t) \/ wakeAddress(t)
           PROVE  Inv'
  <2>1. /\ pc[t] \in Holding /\ pc' = [pc EXCEPT ![t] = pc'[t]] /\ pc'[t] \in Holding
        /\ UNCHANGED <<map, live, refs, leaked, list, call>>
    BY <1>inside
       DEF loadDiffers, pushWakeEvent, beginWait, wake, timeOut,
           wakeAddress, At, Holding, memory
  <2>2. QED
    BY <2>1, InsideCall
<1>late. ASSUME NEW t \in Threads, afterTimeout(t)
         PROVE  Inv'
  <2>1. CASE UNCHANGED pc
    BY <1>quiet, <1>late, <2>1 DEF afterTimeout
  <2>2. CASE pc' = [pc EXCEPT ![t] = "closing"]
    BY <1>late, <2>2, InsideCall, Zenon DEF afterTimeout, At, Holding
  <2>3. QED
    BY <1>late, <2>1, <2>2 DEF afterTimeout
<1>end. QED
  BY <1>stutter, <1>store, <1>unmap, <1>open, <1>inside, <1>late,
     CloseKeepsInv, FaultKeepsInv, DeleteKeepsInv
     DEF Next, Step, atomic_wait, atomic_notify, Calls

\* The invariant holds in every reachable state.
LEMMA InvAlways == Spec => []Inv
<1>starts. Init => Inv
  BY DEF Init, Inv, LifeTypes, LifeInv, PCs, OpenListIsLive, MapConsistent,
         RefCount, Holding
<1>keeps. Inv /\ [Next]_vars => Inv'
  BY StepKeepsInv, Zenon
<1>end. QED
  BY <1>starts, <1>keeps, PTL DEF Spec

\* For every number of threads, addresses and lists and for both kinds of
\* event, a call between openWaitList and the decrement in closeWaitList uses
\* an allocated list, the one the map holds for its address.
THEOREM OpenListIsLiveAlways == Spec => []OpenListIsLive
<1>shows. Inv => OpenListIsLive
  BY DEF Inv, LifeInv
<1>end. QED
  BY <1>shows, InvAlways, PTL

\* numReferences is exact: it counts the calls that hold the list, and the
\* references that an exception leaked.
THEOREM RefCountAlways == Spec => []RefCount
<1>shows. Inv => RefCount
  BY DEF Inv, LifeInv
<1>end. QED
  BY <1>shows, InvAlways, PTL

\* Lists and map agree: every entry of the map is an allocated list, every
\* allocated list is in the map, under one address.
THEOREM MapConsistentAlways == Spec => []MapConsistent
<1>shows. Inv => MapConsistent
  BY Zenon DEF Inv, LifeInv
<1>end. QED
  BY <1>shows, InvAlways, PTL

-----------------------------------------------------------------------------
(* With auto-reset events                                                  *)

\* With auto-reset events the queues stay in order.
LEMMA QueueInvAlways == EventKind = "auto_reset" /\ Spec => [](Inv /\ QueueInv)
<1> SUFFICES ASSUME EventKind = "auto_reset" PROVE Spec => [](Inv /\ QueueInv)
  BY Zenon
<1>1. Inv /\ QueueInv /\ [Next]_vars => QueueInv'
  BY QueueStep
<1>2. QED
  BY <1>1, QueueInit, InvAlways, PTL DEF Spec

\* With the events of EventWindows.cpp, and for every number of threads and
\* addresses, a waiter's event is signaled exactly when a notify took it off
\* its list: no notify is lost, none is left for the thread's next wait, and
\* the assertion after a timeout never fails.
THEOREM SignaledIffTakenOffAlways == EventKind = "auto_reset" /\ Spec => []SignaledIffTakenOff
<1>1. QueueInv => SignaledIffTakenOff
  BY DEF QueueInv, ThreadInv, SignaledIffTakenOff
<1>2. QED
  BY <1>1, QueueInvAlways, PTL

\* With auto-reset events and for every number of threads, addresses and
\* values, memory.atomic.wait and memory.atomic.notify are atomic: every
\* interleaving of openWaitList, the critical sections, timeouts, wake-ups and
\* closeWaitList is a behaviour of the futex, with the futex's results.
THEOREM ImplementsFutexAlways == EventKind = "auto_reset" /\ Spec => ImplementsFutex
<1> SUFFICES ASSUME EventKind = "auto_reset" PROVE Spec => ImplementsFutex
  OBVIOUS
<1>1. Inv /\ QueueInv /\ [Next]_vars => [F!Next]_(F!futex)
  BY EveryStepIsFutex
<1>2. QED
  BY <1>1, InitIsFutex, QueueInvAlways, PTL DEF Spec, ImplementsFutex, F!Spec
=============================================================================
