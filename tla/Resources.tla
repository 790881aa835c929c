----------------------------- MODULE Resources -----------------------------
(***************************************************************************)
(* Memories and tables: proofs about MemoryGrow, the two side by side, and *)
(* what holds of them together, for any number of threads, memories and    *)
(* tables, any limits and any width of Uptr.                               *)
(*                                                                         *)
(* A quota is a sum over all memories (or tables) and all threads, which   *)
(* is stated as the cardinality of a set of pairs, so that a step that     *)
(* changes what one of them has changes the sum by as much.                *)
(***************************************************************************)
EXTENDS MemoryGrow, TLAPS

Labels == {"idle", "quota", "lock", "commit", "store", "publish", "list", "insert", "delete"}

TypeInv ==
  /\ exists \subseteq Memories /\ inMap \subseteq exists
  /\ numPages \in [Memories -> Nat] /\ granted \in [Memories -> Nat]
  /\ committed \in [Memories -> SUBSET Int]
  /\ resizing \in [Memories -> Threads \cup {None}]
  /\ pc \in [Threads -> Labels]
  /\ mem \in [Threads -> Memories \cup {None}]
  /\ source \in [Threads -> Memories \cup {None}]
  /\ delta \in [Threads -> Nat]
  /\ old \in [Threads -> Nat]

\* A thread in a call has a memory that exists.  Nobody else knows the memory that it
\* is creating, and only a memory being created is listed, inserted or deleted.
OwnInv ==
  \A t \in Threads :
    /\ pc[t] = "idle" => mem[t] = None /\ source[t] = None
    /\ pc[t] # "idle" => mem[t] \in exists
    /\ source[t] # None => source[t] \in inMap
    /\ pc[t] \in {"list", "insert", "delete"} => Creating(t)
    /\ Creating(t) => \A u \in Threads \ {t} : mem[u] # mem[t]
    /\ source[t] # None => Creating(t)

\* A memory that a thread grows is locked by it from the moment its size is read, and a
\* memory that a thread clones until the clone is listed.
LockInv ==
  \A t \in Threads :
    /\ pc[t] \in {"commit", "store", "publish"} => resizing[mem[t]] = t
    /\ pc[t] \in {"commit", "store"} => old[t] = numPages[mem[t]]
    /\ pc[t] \notin {"idle", "insert"} /\ source[t] # None => resizing[source[t]] = t

MemInv == TypeInv /\ OwnInv /\ LockInv /\ GrantedOnce /\ BeyondSizeFaults
-----------------------------------------------------------------------------
LEMMA NextIsOneOf ==
  ASSUME [Next]_vars
  PROVE  \/ UNCHANGED vars
         \/ \E t \in Threads :
              \/ checkQuota(t) \/ lockResizing(t) \/ storeSize(t) \/ publish(t)
              \/ \E commitFails \in BOOLEAN : commitPages(t, commitFails)
              \/ listMemory(t) \/ insertMemory(t) \/ deleteMemory(t)
              \/ \E m \in Memories :
                   \/ createMemory(t, m)
                   \/ \E s \in Memories : cloneMemory(t, s, m)
                   \/ \E n \in Deltas : growMemory(t, m, n)
         \/ \E m \in Memories : collectMemory(m) \/ \E p \in Uptr : unmapMemoryPages(m, p)
         \/ \E n \in QuotaMaxes : setMax(n)
  BY Zenon DEF Next, Step

LEMMA MemInit == Init => MemInv
  <1> SUFFICES ASSUME Init
               PROVE  MemInv
    OBVIOUS
  <1>1. TypeInv
    BY DEF Init, TypeInv, Labels
  <1>2. OwnInv /\ LockInv
    BY DEF Init, OwnInv, LockInv, Creating
  <1>3. GrantedOnce /\ BeyondSizeFaults
    BY DEF Init, GrantedOnce, BeyondSizeFaults
  <1> QED
    BY <1>1, <1>2, <1>3 DEF MemInv

LEMMA TypeStep ==
  ASSUME MemInv, [Next]_vars
  PROVE  TypeInv'
  <1> USE MemoryAssumption DEF MemInv, TypeInv, Labels, Uptr, memories, quota, threads
  <1>0. \A t \in Threads : pc[t] # "idle" => mem[t] \in Memories \cap exists
    BY DEF OwnInv
  <1>1. ASSUME UNCHANGED vars
        PROVE  TypeInv'
    BY <1>1 DEF vars
  <1>2. ASSUME NEW t \in Threads, checkQuota(t)
        PROVE  TypeInv'
    BY <1>2 DEF checkQuota, allocate, Goto, Return, Fail
  <1>3. ASSUME NEW t \in Threads, lockResizing(t)
        PROVE  TypeInv'
    BY <1>0, <1>3 DEF lockResizing, CanLock
  <1>4. ASSUME NEW t \in Threads, storeSize(t)
        PROVE  TypeInv'
    BY <1>0, <1>4 DEF storeSize, Goto
  <1>5. ASSUME NEW t \in Threads, publish(t)
        PROVE  TypeInv'
    BY <1>0, <1>5 DEF publish, publishSize, Goto, Return
  <1>6. ASSUME NEW t \in Threads, NEW commitFails \in BOOLEAN, commitPages(t, commitFails)
        PROVE  TypeInv'
    BY <1>6 DEF commitPages, giveBack, free, CommitRange, Goto, Return, Fail
  <1>7. ASSUME NEW t \in Threads, listMemory(t)
        PROVE  TypeInv'
    BY <1>7 DEF listMemory, UnlockSource, enlist, Goto
  <1>8. ASSUME NEW t \in Threads, insertMemory(t)
        PROVE  TypeInv'
    BY <1>0, <1>8 DEF insertMemory, Return
  <1>9. ASSUME NEW t \in Threads, deleteMemory(t)
        PROVE  TypeInv'
    BY <1>9, Zenon DEF deleteMemory, UnlockSource, Destroy, Return
  <1>10. ASSUME NEW t \in Threads, NEW m \in Memories, createMemory(t, m)
         PROVE  TypeInv'
    BY <1>10 DEF createMemory, Start
  <1>11. ASSUME NEW t \in Threads, NEW s \in Memories, NEW m \in Memories, cloneMemory(t, s, m)
         PROVE  TypeInv'
    BY <1>11 DEF cloneMemory, Start, CanLock
  <1>12. ASSUME NEW t \in Threads, NEW m \in Memories, NEW n \in Deltas, growMemory(t, m, n)
         PROVE  TypeInv'
    BY <1>12 DEF growMemory
  <1>13. ASSUME NEW m \in Memories, collectMemory(m)
         PROVE  TypeInv'
    BY <1>13 DEF collectMemory, Destroy
  <1>14. ASSUME NEW m \in Memories, NEW p \in Uptr, unmapMemoryPages(m, p)
         PROVE  TypeInv'
    BY <1>14 DEF unmapMemoryPages
  <1>15. ASSUME NEW n \in QuotaMaxes, setMax(n)
         PROVE  TypeInv'
    BY <1>15 DEF setMax
  <1> HIDE MemoryAssumption DEF MemInv, TypeInv, Labels, Uptr, memories, quota, threads
  <1> QED
    BY <1>1, <1>2, <1>3, <1>4, <1>5, <1>6, <1>7, <1>8, <1>9, <1>10,
       <1>11, <1>12, <1>13, <1>14, <1>15, NextIsOneOf, Zenon

LEMMA OwnStep ==
  ASSUME MemInv, [Next]_vars, TypeInv'
  PROVE  OwnInv'
  <1> USE MemoryAssumption DEF MemInv, TypeInv, Labels, OwnInv, Creating, memories, quota, threads
  <1>1. ASSUME UNCHANGED vars
        PROVE  OwnInv'
    BY <1>1 DEF vars
  <1>2. ASSUME NEW t \in Threads, checkQuota(t)
        PROVE  OwnInv'
    BY <1>2 DEF checkQuota, allocate, Goto, Return, Fail
  <1>3. ASSUME NEW t \in Threads, lockResizing(t)
        PROVE  OwnInv'
    BY <1>3 DEF lockResizing, CanLock
  <1>4. ASSUME NEW t \in Threads, storeSize(t)
        PROVE  OwnInv'
    BY <1>4 DEF storeSize, Goto
  <1>5. ASSUME NEW t \in Threads, publish(t)
        PROVE  OwnInv'
    BY <1>5 DEF publish, publishSize, Goto, Return
  <1>6. ASSUME NEW t \in Threads, NEW commitFails \in BOOLEAN, commitPages(t, commitFails)
        PROVE  OwnInv'
    BY <1>6 DEF commitPages, giveBack, free, CommitRange, Goto, Return, Fail
  <1>7. ASSUME NEW t \in Threads, listMemory(t)
        PROVE  OwnInv'
    BY <1>7 DEF listMemory, UnlockSource, enlist, Goto
  <1>8. ASSUME NEW t \in Threads, insertMemory(t)
        PROVE  OwnInv'
    BY <1>8 DEF insertMemory, Return
  <1>9. ASSUME NEW t \in Threads, deleteMemory(t)
        PROVE  OwnInv'
    BY <1>9 DEF deleteMemory, UnlockSource, Destroy, Return
  <1>10. ASSUME NEW t \in Threads, NEW m \in Memories, createMemory(t, m)
         PROVE  OwnInv'
    BY <1>10 DEF createMemory, Start
  <1>11. ASSUME NEW t \in Threads, NEW s \in Memories, NEW m \in Memories, cloneMemory(t, s, m)
         PROVE  OwnInv'
    BY <1>11 DEF cloneMemory, Start, CanLock
  <1>12. ASSUME NEW t \in Threads, NEW m \in Memories, NEW n \in Deltas, growMemory(t, m, n)
         PROVE  OwnInv'
    BY <1>12 DEF growMemory
  <1>13. ASSUME NEW m \in Memories, collectMemory(m)
         PROVE  OwnInv'
    BY <1>13 DEF collectMemory, Destroy
  <1>14. ASSUME NEW m \in Memories, NEW p \in Uptr, unmapMemoryPages(m, p)
         PROVE  OwnInv'
    BY <1>14 DEF unmapMemoryPages
  <1>15. ASSUME NEW n \in QuotaMaxes, setMax(n)
         PROVE  OwnInv'
    BY <1>15 DEF setMax
  <1> HIDE MemoryAssumption DEF MemInv, TypeInv, Labels, OwnInv, Creating, memories, quota, threads
  <1> QED
    BY <1>1, <1>2, <1>3, <1>4, <1>5, <1>6, <1>7, <1>8, <1>9, <1>10,
       <1>11, <1>12, <1>13, <1>14, <1>15, NextIsOneOf, Zenon

LEMMA LockStep ==
  ASSUME MemInv, [Next]_vars, TypeInv'
  PROVE  LockInv'
  <1> USE MemoryAssumption DEF MemInv, TypeInv, Labels, OwnInv, Creating, LockInv, memories, quota, threads
  <1>1. ASSUME UNCHANGED vars
        PROVE  LockInv'
    BY <1>1 DEF vars
  <1>2. ASSUME NEW t \in Threads, checkQuota(t)
        PROVE  LockInv'
    BY <1>2 DEF checkQuota, allocate, Goto, Return, Fail
  <1>3. ASSUME NEW t \in Threads, lockResizing(t)
        PROVE  LockInv'
    BY <1>3 DEF lockResizing, CanLock
  <1>4. ASSUME NEW t \in Threads, storeSize(t)
        PROVE  LockInv'
    BY <1>4 DEF storeSize, Goto
  <1>5. ASSUME NEW t \in Threads, publish(t)
        PROVE  LockInv'
    BY <1>5 DEF publish, publishSize, Goto, Return
  <1>6. ASSUME NEW t \in Threads, NEW commitFails \in BOOLEAN, commitPages(t, commitFails)
        PROVE  LockInv'
    BY <1>6 DEF commitPages, giveBack, free, CommitRange, Goto, Return, Fail
  <1>7. ASSUME NEW t \in Threads, listMemory(t)
        PROVE  LockInv'
    BY <1>7 DEF listMemory, UnlockSource, enlist, Goto
  <1>8. ASSUME NEW t \in Threads, insertMemory(t)
        PROVE  LockInv'
    BY <1>8 DEF insertMemory, Return
  <1>9. ASSUME NEW t \in Threads, deleteMemory(t)
        PROVE  LockInv'
    BY <1>9 DEF deleteMemory, UnlockSource, Destroy, Return
  <1>10. ASSUME NEW t \in Threads, NEW m \in Memories, createMemory(t, m)
         PROVE  LockInv'
    BY <1>10 DEF createMemory, Start
  <1>11. ASSUME NEW t \in Threads, NEW s \in Memories, NEW m \in Memories, cloneMemory(t, s, m)
         PROVE  LockInv'
    BY <1>11 DEF cloneMemory, Start, CanLock
  <1>12. ASSUME NEW t \in Threads, NEW m \in Memories, NEW n \in Deltas, growMemory(t, m, n)
         PROVE  LockInv'
    BY <1>12 DEF growMemory
  <1>13. ASSUME NEW m \in Memories, collectMemory(m)
         PROVE  LockInv'
    BY <1>13 DEF collectMemory, Destroy
  <1>14. ASSUME NEW m \in Memories, NEW p \in Uptr, unmapMemoryPages(m, p)
         PROVE  LockInv'
    BY <1>14 DEF unmapMemoryPages
  <1>15. ASSUME NEW n \in QuotaMaxes, setMax(n)
         PROVE  LockInv'
    BY <1>15 DEF setMax
  <1> HIDE MemoryAssumption DEF MemInv, TypeInv, Labels, OwnInv, Creating, LockInv, memories, quota, threads
  <1> QED
    BY <1>1, <1>2, <1>3, <1>4, <1>5, <1>6, <1>7, <1>8, <1>9, <1>10,
       <1>11, <1>12, <1>13, <1>14, <1>15, NextIsOneOf, Zenon

LEMMA SizeStep ==
  ASSUME MemInv, [Next]_vars, TypeInv'
  PROVE  GrantedOnce' /\ BeyondSizeFaults'
  <1> USE MemoryAssumption DEF MemInv, TypeInv, Labels, OwnInv, LockInv, GrantedOnce, BeyondSizeFaults, memories, quota, threads
  <1>1. ASSUME UNCHANGED vars
        PROVE  GrantedOnce' /\ BeyondSizeFaults'
    BY <1>1 DEF vars
  <1>2. ASSUME NEW t \in Threads, checkQuota(t)
        PROVE  GrantedOnce' /\ BeyondSizeFaults'
    BY <1>2 DEF checkQuota, allocate, Goto, Return, Fail
  <1>3. ASSUME NEW t \in Threads, lockResizing(t)
        PROVE  GrantedOnce' /\ BeyondSizeFaults'
    BY <1>3 DEF lockResizing, CanLock
  <1>4. ASSUME NEW t \in Threads, storeSize(t)
        PROVE  GrantedOnce' /\ BeyondSizeFaults'
    BY <1>4 DEF storeSize, Goto
  <1>5. ASSUME NEW t \in Threads, publish(t)
        PROVE  GrantedOnce' /\ BeyondSizeFaults'
    BY <1>5 DEF publish, publishSize, Goto, Return
  <1>6. ASSUME NEW t \in Threads, NEW commitFails \in BOOLEAN, commitPages(t, commitFails)
        PROVE  GrantedOnce' /\ BeyondSizeFaults'
    BY <1>6 DEF commitPages, giveBack, free, CommitRange, Goto, Return, Fail
  <1>7. ASSUME NEW t \in Threads, listMemory(t)
        PROVE  GrantedOnce' /\ BeyondSizeFaults'
    BY <1>7 DEF listMemory, UnlockSource, enlist, Goto
  <1>8. ASSUME NEW t \in Threads, insertMemory(t)
        PROVE  GrantedOnce' /\ BeyondSizeFaults'
    BY <1>8 DEF insertMemory, Return
  <1>9. ASSUME NEW t \in Threads, deleteMemory(t)
        PROVE  GrantedOnce' /\ BeyondSizeFaults'
    BY <1>9 DEF deleteMemory, UnlockSource, Destroy, Return
  <1>10. ASSUME NEW t \in Threads, NEW m \in Memories, createMemory(t, m)
         PROVE  GrantedOnce' /\ BeyondSizeFaults'
    BY <1>10 DEF createMemory, Start
  <1>11. ASSUME NEW t \in Threads, NEW s \in Memories, NEW m \in Memories, cloneMemory(t, s, m)
         PROVE  GrantedOnce' /\ BeyondSizeFaults'
    BY <1>11 DEF cloneMemory, Start, CanLock
  <1>12. ASSUME NEW t \in Threads, NEW m \in Memories, NEW n \in Deltas, growMemory(t, m, n)
         PROVE  GrantedOnce' /\ BeyondSizeFaults'
    BY <1>12 DEF growMemory
  <1>13. ASSUME NEW m \in Memories, collectMemory(m)
         PROVE  GrantedOnce' /\ BeyondSizeFaults'
    BY <1>13 DEF collectMemory, Destroy
  <1>14. ASSUME NEW m \in Memories, NEW p \in Uptr, unmapMemoryPages(m, p)
         PROVE  GrantedOnce' /\ BeyondSizeFaults'
    BY <1>14 DEF unmapMemoryPages
  <1>15. ASSUME NEW n \in QuotaMaxes, setMax(n)
         PROVE  GrantedOnce' /\ BeyondSizeFaults'
    BY <1>15 DEF setMax
  <1> HIDE MemoryAssumption DEF MemInv, TypeInv, Labels, OwnInv, LockInv, GrantedOnce, BeyondSizeFaults, memories, quota, threads
  <1> QED
    BY <1>1, <1>2, <1>3, <1>4, <1>5, <1>6, <1>7, <1>8, <1>9, <1>10,
       <1>11, <1>12, <1>13, <1>14, <1>15, NextIsOneOf, Zenon

LEMMA MemInvAlways == Spec => []MemInv
  <1>1. MemInv /\ [Next]_vars => MemInv'
    <2> SUFFICES ASSUME MemInv, [Next]_vars
                 PROVE  MemInv'
      OBVIOUS
    <2>1. TypeInv'
      BY TypeStep
    <2> QED
      BY <2>1, OwnStep, LockStep, SizeStep DEF MemInv
  <1> QED
    BY <1>1, MemInit, PTL DEF Spec

\* growMemory hands out no page twice: whatever threads grow a memory concurrently, the
\* pages that their successful calls were asked for add up to its size.
THEOREM GrantedOnceAlways == Spec => []GrantedOnce
  <1>1. MemInv => GrantedOnce
    BY DEF MemInv
  <1> QED
    BY <1>1, MemInvAlways, PTL

\* An access beyond the size of a memory faults, as generated code expects of it, except
\* to the pages that one growMemory has committed and whose size it is about to store.
THEOREM BeyondSizeFaultsAlways == Spec => []BeyondSizeFaults
  <1>1. MemInv => BeyondSizeFaults
    BY DEF MemInv
  <1> QED
    BY <1>1, MemInvAlways, PTL

-----------------------------------------------------------------------------
INSTANCE FiniteSetTheorems

(* Counting                                                                *)

\* As many pairs as the values of f add up to.
Below(f, X, N) == {x \in X \X (0 .. N - 1) : x[2] < f[x[1]]}

Count(f, X, N) == Cardinality(Below(f, X, N))

LEMMA BelowFinite ==
  ASSUME NEW X, IsFiniteSet(X), NEW N \in Nat, NEW f
  PROVE  IsFiniteSet(Below(f, X, N)) /\ Count(f, X, N) \in Nat
  <1>1. IsFiniteSet(0 .. N - 1)
    BY FS_Interval
  <1>2. IsFiniteSet(X \X (0 .. N - 1))
    BY <1>1, FS_Product
  <1>3. Below(f, X, N) \subseteq X \X (0 .. N - 1)
    BY DEF Below
  <1>4. QED
    BY <1>2, <1>3, FS_Subset, FS_CardinalityType DEF Count

\* The pairs of all but x.
Others(f, X, N, x) == {y \in Below(f, X, N) : y[1] # x}

LEMMA OthersFinite ==
  ASSUME NEW X, IsFiniteSet(X), NEW N \in Nat, NEW f, NEW x
  PROVE  IsFiniteSet(Others(f, X, N, x)) /\ Cardinality(Others(f, X, N, x)) \in Nat
  <1>1. Others(f, X, N, x) \in SUBSET Below(f, X, N)
    BY DEF Others
  <1>2. QED
    BY <1>1, BelowFinite, FS_Subset, FS_CardinalityType

LEMMA CountOne ==
  ASSUME NEW X, IsFiniteSet(X), NEW N \in Nat, NEW f \in [X -> 0 .. N], NEW x \in X
  PROVE  Count(f, X, N) = Cardinality(Others(f, X, N, x)) + f[x]
  <1>0. PICK n \in 0 .. N : n = f[x]
    OBVIOUS
  <1> DEFINE Rest == Others(f, X, N, x)
             Mine == {x} \X (0 .. n - 1)
  <1>1. IsFiniteSet({x}) /\ Cardinality({x}) = 1
    BY FS_Singleton, Zenon
  <1>2. IsFiniteSet(0 .. n - 1) /\ Cardinality(0 .. n - 1) = n
    <2>1. 0 \in Int /\ n - 1 \in Int /\ (IF 0 > n - 1 THEN 0 ELSE n - 1 - 0 + 1) = n
      OBVIOUS
    <2>2. QED
      BY <2>1, FS_Interval, Zenon
  <1>3. IsFiniteSet(Mine) /\ Cardinality(Mine) = Cardinality({x}) * Cardinality(0 .. n - 1)
    BY <1>1, <1>2, FS_Product, Zenon
  <1>4. IsFiniteSet(Rest) /\ Cardinality(Rest) \in Nat
    BY OthersFinite
  <1>5. Below(f, X, N) = Rest \cup Mine
    BY <1>0 DEF Below, Others
  <1>6. Rest \cap Mine = {}
    BY DEF Others
  <1>7. Cardinality(Rest \cup Mine) = Cardinality(Rest) + Cardinality(Mine) - Cardinality(Rest \cap Mine)
    BY <1>3, <1>4, FS_Union, Zenon
  <1>8. Cardinality(Rest \cap Mine) = 0
    BY <1>6, FS_EmptySet, Zenon
  <1>9. Cardinality(Mine) = n
    BY <1>1, <1>2, <1>3
  <1>10. QED
    BY <1>0, <1>4, <1>5, <1>7, <1>8, <1>9 DEF Count

\* One value changes.
LEMMA CountChange ==
  ASSUME NEW X, IsFiniteSet(X), NEW N \in Nat, NEW f \in [X -> 0 .. N], NEW g \in [X -> 0 .. N],
         NEW x \in X, \A y \in X \ {x} : g[y] = f[y]
  PROVE  Count(g, X, N) = Count(f, X, N) - f[x] + g[x]
  <1>1. Others(g, X, N, x) = Others(f, X, N, x)
    BY DEF Others, Below
  <1>2. Cardinality(Others(f, X, N, x)) \in Nat
    BY OthersFinite, Zenon
  <1>3. Count(f, X, N) = Cardinality(Others(f, X, N, x)) + f[x]
    BY CountOne
  <1>4. Count(g, X, N) = Cardinality(Others(g, X, N, x)) + g[x]
    BY CountOne
  <1>5. QED
    BY <1>1, <1>2, <1>3, <1>4

LEMMA CountBounds ==
  ASSUME NEW X, IsFiniteSet(X), NEW N \in Nat, NEW f \in [X -> 0 .. N]
  PROVE  Count(f, X, N) \in Nat /\ \A x \in X : f[x] <= Count(f, X, N)
  <1>1. ASSUME NEW g \in [X -> 0 .. N]
        PROVE  Count(g, X, N) \in Nat
    BY BelowFinite, FS_CardinalityType DEF Count
  <1>2. ASSUME NEW x \in X
        PROVE  f[x] <= Count(f, X, N)
    <2> DEFINE g == [f EXCEPT ![x] = 0]
    <2>1. g \in [X -> 0 .. N] /\ g[x] = 0 /\ \A y \in X \ {x} : g[y] = f[y]
      OBVIOUS
    <2> HIDE DEF g
    <2>2. Count(g, X, N) = Count(f, X, N) - f[x] + g[x]
      BY <2>1, CountChange
    <2>3. Count(g, X, N) \in Nat /\ Count(f, X, N) \in Nat /\ f[x] \in Nat
      BY <1>1, <2>1
    <2>4. QED
      BY <2>1, <2>2, <2>3
  <1>3. QED
    BY <1>1, <1>2

LEMMA CountNone ==
  ASSUME NEW X, NEW N \in Nat, NEW f, \A x \in X : f[x] = 0
  PROVE  Count(f, X, N) = 0
  <1>1. Below(f, X, N) = {}
    BY DEF Below
  <1> QED
    BY <1>1, FS_EmptySet DEF Count

\* Sums and differences of sizes as CurrentAndMax computes them, modulo Word.
LEMMA Wraps ==
  ASSUME NEW W \in Nat \ {0}, NEW c \in 0 .. W - 1, NEW n \in 0 .. W - 1
  PROVE  /\ (c + n) % W >= c => (c + n) % W = c + n /\ c + n \in 0 .. W - 1
         /\ n <= c => (c - n) % W = c - n /\ c - n \in 0 .. W - 1
  <1>1. CASE c + n < W
    <2>1. (c + n) % W = c + n
      BY <1>1
    <2>2. n <= c => (c - n) % W = c - n
      OBVIOUS
    <2>3. QED
      BY <1>1, <2>1, <2>2
  <1>2. CASE c + n >= W
    <2>1. (c + n) % W = c + n - W
      BY <1>2
    <2>2. n <= c => (c - n) % W = c - n
      OBVIOUS
    <2>3. QED
      BY <1>2, <2>1, <2>2
  <1>3. QED
    BY <1>1, <1>2

-----------------------------------------------------------------------------
(* Quotas                                                                  *)

\* c is the sum of what the members of X have and of what those of Y have taken for them.
Exact(c, f, X, g, Y, N) ==
  /\ f \in [X -> 0 .. N] /\ g \in [Y -> 0 .. N]
  /\ c \in 0 .. N - 1
  /\ c = Count(f, X, N) + Count(g, Y, N)

OnlyAt(x, f, g) == \A y \in DOMAIN f \ {x} : g[y] = f[y]

\* What a step may do: y takes something, as allocate lets it; y gives it back; y adds it
\* to x; x is destroyed; or nothing that matters.
Moves(c, d, f, F, g, G, N) ==
  \/ F = f /\ G = g /\ d = c
  \/ \E y \in DOMAIN g : /\ F = f /\ OnlyAt(y, g, G) /\ g[y] = 0 /\ G[y] < N
                         /\ (c + G[y]) % N >= c /\ d = (c + G[y]) % N
  \/ \E y \in DOMAIN g : F = f /\ OnlyAt(y, g, G) /\ G[y] = 0 /\ d = (c - g[y]) % N
  \/ \E x \in DOMAIN f, y \in DOMAIN g :
       OnlyAt(x, f, F) /\ OnlyAt(y, g, G) /\ F[x] = f[x] + g[y] /\ G[y] = 0 /\ d = c
  \/ \E x \in DOMAIN f : G = g /\ OnlyAt(x, f, F) /\ F[x] = 0 /\ d = (c - f[x]) % N

LEMMA ExactBounds ==
  ASSUME NEW X, NEW Y, IsFiniteSet(X), IsFiniteSet(Y), NEW N \in Nat,
         NEW f, NEW g, NEW c, Exact(c, f, X, g, Y, N)
  PROVE  /\ Count(f, X, N) \in Nat /\ Count(g, Y, N) \in Nat
         /\ \A x \in X : f[x] <= c
         /\ \A y \in Y : g[y] <= c
         /\ \A x \in X, y \in Y : f[x] + g[y] <= c
  <1>1. Count(f, X, N) \in Nat /\ \A x \in X : f[x] <= Count(f, X, N)
    BY CountBounds DEF Exact
  <1>2. Count(g, Y, N) \in Nat /\ \A y \in Y : g[y] <= Count(g, Y, N)
    BY CountBounds DEF Exact
  <1>3. (\A x \in X : f[x] \in 0 .. N) /\ (\A y \in Y : g[y] \in 0 .. N)
    BY DEF Exact
  <1> QED
    BY <1>1, <1>2, <1>3 DEF Exact

LEMMA StaysExact ==
  ASSUME NEW X, NEW Y, IsFiniteSet(X), IsFiniteSet(Y), NEW N \in Nat \ {0},
         NEW f, NEW g, NEW c, Exact(c, f, X, g, Y, N),
         NEW F \in [X -> Nat], NEW G \in [Y -> Nat], NEW d, Moves(c, d, f, F, g, G, N)
  PROVE  Exact(d, F, X, G, Y, N)
  <1>1. /\ f \in [X -> 0 .. N] /\ g \in [Y -> 0 .. N] /\ c \in 0 .. N - 1
        /\ c = Count(f, X, N) + Count(g, Y, N) /\ DOMAIN f = X /\ DOMAIN g = Y
    BY DEF Exact
  <1>2. /\ Count(f, X, N) \in Nat /\ Count(g, Y, N) \in Nat
        /\ \A x \in X : f[x] <= c
        /\ \A y \in Y : g[y] <= c
        /\ \A x \in X, y \in Y : f[x] + g[y] <= c
    BY ExactBounds
  <1>3. ASSUME NEW x \in X, OnlyAt(x, f, F), F[x] <= N
        PROVE  F \in [X -> 0 .. N] /\ Count(F, X, N) = Count(f, X, N) - f[x] + F[x]
    <2>1. F \in [X -> 0 .. N] /\ \A y \in X \ {x} : F[y] = f[y]
      BY <1>1, <1>3 DEF OnlyAt
    <2> QED
      BY <1>1, <2>1, CountChange
  <1>4. ASSUME NEW y \in Y, OnlyAt(y, g, G), G[y] <= N
        PROVE  G \in [Y -> 0 .. N] /\ Count(G, Y, N) = Count(g, Y, N) - g[y] + G[y]
    <2>1. G \in [Y -> 0 .. N] /\ \A x \in Y \ {y} : G[x] = g[x]
      BY <1>1, <1>4 DEF OnlyAt
    <2> QED
      BY <1>1, <2>1, CountChange
  <1>5. ASSUME NEW y \in Y, F = f, OnlyAt(y, g, G), g[y] = 0, G[y] < N,
               (c + G[y]) % N >= c, d = (c + G[y]) % N
        PROVE  Exact(d, F, X, G, Y, N)
    <2>1. PICK n \in 0 .. N - 1 : n = G[y]
      BY <1>5
    <2>2. d = c + n /\ c + n \in 0 .. N - 1
      BY <1>1, <1>5, <2>1, Wraps
    <2>3. G \in [Y -> 0 .. N] /\ Count(G, Y, N) = Count(g, Y, N) - 0 + n
      BY <1>4, <1>5, <2>1
    <2> QED
      BY <1>1, <1>2, <1>5, <2>2, <2>3 DEF Exact
  <1>6. ASSUME NEW n \in Nat, n <= c, d = (c - n) % N
        PROVE  d = c - n /\ d \in 0 .. N - 1
    <2>1. n \in 0 .. N - 1
      BY <1>1, <1>6
    <2> QED
      BY <1>1, <1>6, <2>1, Wraps
  <1>7. ASSUME NEW y \in Y, F = f, OnlyAt(y, g, G), G[y] = 0, d = (c - g[y]) % N
        PROVE  Exact(d, F, X, G, Y, N)
    <2>1. PICK n \in Nat : n = g[y] /\ n <= c
      BY <1>1, <1>2
    <2>2. d = c - n /\ d \in 0 .. N - 1
      BY <1>6, <1>7, <2>1
    <2>3. G \in [Y -> 0 .. N] /\ Count(G, Y, N) = Count(g, Y, N) - n + 0
      BY <1>4, <1>7, <2>1
    <2> QED
      BY <1>1, <1>2, <1>7, <2>2, <2>3 DEF Exact
  <1>8. ASSUME NEW x \in X, NEW y \in Y, OnlyAt(x, f, F), OnlyAt(y, g, G),
               F[x] = f[x] + g[y], G[y] = 0, d = c
        PROVE  Exact(d, F, X, G, Y, N)
    <2>1. PICK m \in Nat, n \in Nat : m = f[x] /\ n = g[y] /\ m + n <= c
      BY <1>1, <1>2
    <2>2. F \in [X -> 0 .. N] /\ Count(F, X, N) = Count(f, X, N) - m + (m + n)
      BY <1>1, <1>3, <1>8, <2>1
    <2>3. G \in [Y -> 0 .. N] /\ Count(G, Y, N) = Count(g, Y, N) - n + 0
      BY <1>4, <1>8, <2>1
    <2> QED
      BY <1>1, <1>2, <1>8, <2>2, <2>3 DEF Exact
  <1>9. ASSUME NEW x \in X, G = g, OnlyAt(x, f, F), F[x] = 0, d = (c - f[x]) % N
        PROVE  Exact(d, F, X, G, Y, N)
    <2>1. PICK n \in Nat : n = f[x] /\ n <= c
      BY <1>1, <1>2
    <2>2. d = c - n /\ d \in 0 .. N - 1
      BY <1>6, <1>9, <2>1
    <2>3. F \in [X -> 0 .. N] /\ Count(F, X, N) = Count(f, X, N) - n + 0
      BY <1>3, <1>9, <2>1
    <2> QED
      BY <1>1, <1>2, <1>9, <2>2, <2>3 DEF Exact
  <1> QED
    BY <1>1, <1>5, <1>7, <1>8, <1>9, Zenon DEF Moves

LEMMA NothingIsExact ==
  ASSUME NEW X, NEW Y, NEW N \in Nat \ {0}, NEW f, NEW g,
         f = [x \in X |-> 0], g = [y \in Y |-> 0]
  PROVE  Exact(0, f, X, g, Y, N)
  <1>1. Count(f, X, N) = 0 /\ Count(g, Y, N) = 0
    BY CountNone
  <1> QED
    BY <1>1 DEF Exact

-----------------------------------------------------------------------------
(* The quota of memory pages                                               *)

TakenPages == [t \in Threads |-> IF t \in Reserving THEN delta[t] ELSE 0]

\* The quota is exact, growMemory is called with a Uptr, and a memory that is not
\* allocated has no pages.
PagesInv ==
  /\ Exact(current, numPages, Memories, TakenPages, Threads, Word)
  /\ \A t \in Threads : pc[t] = "quota" => delta[t] < Word
  /\ \A m \in Memories \ exists : numPages[m] = 0

LEMMA PagesInit == Init => PagesInv
  <1> SUFFICES ASSUME Init
               PROVE  PagesInv
    OBVIOUS
  <1>1. Word \in Nat \ {0}
    BY MemoryAssumption
  <1>2. numPages = [m \in Memories |-> 0] /\ TakenPages = [t \in Threads |-> 0]
    BY DEF Init, TakenPages, Reserving
  <1>3. Exact(0, numPages, Memories, TakenPages, Threads, Word)
    BY <1>1, <1>2, NothingIsExact
  <1> QED
    BY <1>3 DEF Init, PagesInv

\* Every step makes one of the moves.
PagesMove == Moves(current, current', numPages, numPages', TakenPages, TakenPages', Word)

LEMMA PagesMoves ==
  ASSUME MemInv, PagesInv, [Next]_vars
  PROVE  PagesMove
  <1> USE DEF MemInv, TypeInv, Labels, memories, quota, threads, TakenPages, Reserving, PagesMove
  <1>0. /\ \A t \in Threads : pc[t] # "idle" => mem[t] \in Memories \cap exists
        /\ \A t \in Threads : pc[t] = "quota" => delta[t] < Word
    BY DEF OwnInv, PagesInv
  <1>1. ASSUME UNCHANGED <<current, numPages, TakenPages>>
        PROVE  PagesMove
    BY <1>1, Zenon DEF Moves
  <1>2. CASE UNCHANGED vars
    BY <1>1, <1>2 DEF vars
  <1>3. ASSUME NEW t \in Threads, checkQuota(t)
        PROVE  PagesMove
    <2>1. ASSUME allocate(delta[t]), Goto(t, "lock")
          PROVE  PagesMove
      <3>1. /\ numPages' = numPages
            /\ t \in DOMAIN TakenPages /\ TakenPages[t] = 0 /\ TakenPages'[t] = delta[t]
            /\ OnlyAt(t, TakenPages, TakenPages')
        BY <1>3, <2>1 DEF checkQuota, Goto, OnlyAt
      <3>2. /\ delta[t] < Word /\ (current + delta[t]) % Word >= current
            /\ current' = (current + delta[t]) % Word
        BY <1>0, <1>3, <2>1 DEF checkQuota, allocate, CanAllocate
      <3> QED
        BY <3>1, <3>2, Zenon DEF Moves
    <2>2. ASSUME Fail(t), UNCHANGED quota
          PROVE  PagesMove
      BY <1>1, <1>3, <2>2 DEF checkQuota, Goto, Return, Fail
    <2> QED
      BY <1>3, <2>1, <2>2 DEF checkQuota
  <1>4. ASSUME NEW t \in Threads, lockResizing(t)
        PROVE  PagesMove
    BY <1>1, <1>4 DEF lockResizing
  <1>5. ASSUME NEW t \in Threads, storeSize(t)
        PROVE  PagesMove
    <2>1. /\ t \in DOMAIN TakenPages /\ TakenPages[t] = delta[t] /\ TakenPages'[t] = 0
          /\ OnlyAt(t, TakenPages, TakenPages')
      BY <1>5 DEF storeSize, Goto, OnlyAt
    <2>2. /\ mem[t] \in DOMAIN numPages /\ numPages'[mem[t]] = numPages[mem[t]] + delta[t]
          /\ OnlyAt(mem[t], numPages, numPages')
      BY <1>0, <1>5 DEF storeSize, LockInv, OnlyAt
    <2> QED
      BY <1>5, <2>1, <2>2, Zenon DEF Moves, storeSize
  <1>6. ASSUME NEW t \in Threads, publish(t)
        PROVE  PagesMove
    BY <1>1, <1>6 DEF publish, Goto, Return
  <1>7. ASSUME NEW t \in Threads, NEW commitFails \in BOOLEAN, commitPages(t, commitFails)
        PROVE  PagesMove
    <2>1. ASSUME free(delta[t]), Fail(t)
          PROVE  PagesMove
      <3>1. /\ numPages' = numPages
            /\ t \in DOMAIN TakenPages /\ TakenPages[t] = delta[t] /\ TakenPages'[t] = 0
            /\ OnlyAt(t, TakenPages, TakenPages')
        BY <1>7, <2>1 DEF commitPages, Fail, Goto, Return, OnlyAt
      <3> QED
        BY <2>1, <3>1, Zenon DEF Moves, free
    <2>2. ASSUME Goto(t, "store"), UNCHANGED quota
          PROVE  PagesMove
      BY <1>1, <1>7, <2>2 DEF commitPages, Goto
    <2> QED
      BY <1>7, <2>1, <2>2 DEF commitPages, giveBack
  <1>8. ASSUME NEW t \in Threads, listMemory(t) \/ insertMemory(t)
        PROVE  PagesMove
    BY <1>1, <1>8 DEF listMemory, insertMemory, Goto, Return
  <1>9. ASSUME NEW m \in Memories, Destroy(m), UNCHANGED TakenPages
        PROVE  PagesMove
    <2>1. m \in DOMAIN numPages /\ numPages'[m] = 0 /\ OnlyAt(m, numPages, numPages')
      BY <1>9 DEF Destroy, OnlyAt
    <2> QED
      BY <1>9, <2>1, Zenon DEF Moves, Destroy, free
  <1>10. ASSUME NEW t \in Threads, deleteMemory(t)
         PROVE  PagesMove
    BY <1>0, <1>9, <1>10 DEF deleteMemory, Return
  <1>11. ASSUME NEW t \in Threads, NEW m \in Memories, NEW n, NEW s, pc[t] = "idle", Start(t, m, n, s)
         PROVE  PagesMove
    BY <1>1, <1>11 DEF Start
  <1>12. ASSUME NEW t \in Threads, NEW m \in Memories, NEW n \in Deltas, growMemory(t, m, n)
         PROVE  PagesMove
    BY <1>1, <1>12 DEF growMemory
  <1>13. ASSUME NEW m \in Memories, collectMemory(m)
         PROVE  PagesMove
    BY <1>9, <1>13 DEF collectMemory
  <1>14. ASSUME NEW m \in Memories, NEW p \in Uptr, unmapMemoryPages(m, p)
         PROVE  PagesMove
    BY <1>1, <1>14 DEF unmapMemoryPages
  <1>15. ASSUME NEW n \in QuotaMaxes, setMax(n)
         PROVE  PagesMove
    BY <1>1, <1>15 DEF setMax
  <1> HIDE DEF MemInv, TypeInv, Labels, memories, quota, threads, TakenPages, Reserving, PagesMove
  <1> QED
    BY <1>2, <1>3, <1>4, <1>5, <1>6, <1>7, <1>8, <1>10, <1>11, <1>12, <1>13, <1>14, <1>15,
       NextIsOneOf, Zenon DEF createMemory, cloneMemory

\* What growMemory is asked for fits in a Uptr, a clone's first size included.
LEMMA AskedStep ==
  ASSUME MemInv, PagesInv, [Next]_vars
  PROVE  /\ \A t \in Threads : pc'[t] = "quota" => delta'[t] < Word
         /\ \A m \in Memories \ exists' : numPages'[m] = 0
  <1> DEFINE Asked == /\ \A t \in Threads : pc'[t] = "quota" => delta'[t] < Word
                      /\ \A m \in Memories \ exists' : numPages'[m] = 0
  <1> SUFFICES Asked
    OBVIOUS
  <1> USE DEF MemInv, TypeInv, Labels, memories, quota, threads
  <1>0. /\ \A t \in Threads : pc[t] # "idle" => mem[t] \in Memories \cap exists
        /\ \A t \in Threads : pc[t] = "quota" => delta[t] < Word
        /\ \A m \in Memories \ exists : numPages[m] = 0
    BY DEF OwnInv, PagesInv
  <1>1. /\ TypeMin < Word /\ \A n \in Deltas : n < Word
        /\ \A m \in Memories : numPages[m] < Word
    <2>1. IsFiniteSet(Memories) /\ IsFiniteSet(Threads) /\ Word \in Nat
      BY MemoryAssumption
    <2>2. current \in 0 .. Word - 1 /\ \A m \in Memories : numPages[m] <= current
      BY <2>1, ExactBounds DEF PagesInv, Exact
    <2> QED
      BY <2>1, <2>2, MemoryAssumption
  <1>2. CASE UNCHANGED vars
    BY <1>0, <1>2 DEF vars
  <1>3. ASSUME NEW t \in Threads, checkQuota(t)
        PROVE  Asked
    BY <1>0, <1>3 DEF checkQuota, Goto, Return, Fail
  <1>4. ASSUME NEW t \in Threads, lockResizing(t)
        PROVE  Asked
    BY <1>0, <1>4 DEF lockResizing
  <1>5. ASSUME NEW t \in Threads, storeSize(t)
        PROVE  Asked
    BY <1>0, <1>5 DEF storeSize, Goto
  <1>6. ASSUME NEW t \in Threads, publish(t)
        PROVE  Asked
    BY <1>0, <1>6 DEF publish, Goto, Return
  <1>7. ASSUME NEW t \in Threads, NEW commitFails \in BOOLEAN, commitPages(t, commitFails)
        PROVE  Asked
    BY <1>0, <1>7 DEF commitPages, Goto, Return, Fail
  <1>8. ASSUME NEW t \in Threads, listMemory(t) \/ insertMemory(t)
        PROVE  Asked
    BY <1>0, <1>8 DEF listMemory, insertMemory, Goto, Return
  <1>9. ASSUME NEW t \in Threads, deleteMemory(t)
        PROVE  Asked
    BY <1>0, <1>9 DEF deleteMemory, Destroy, Return
  <1>10. ASSUME NEW t \in Threads, NEW m \in Memories, NEW n, n < Word, NEW s, Start(t, m, n, s)
         PROVE  Asked
    BY <1>0, <1>10 DEF Start
  <1>11. ASSUME NEW t \in Threads, NEW m \in Memories, createMemory(t, m)
         PROVE  Asked
    BY <1>1, <1>10, <1>11, Zenon DEF createMemory
  <1>12. ASSUME NEW t \in Threads, NEW s \in Memories, NEW m \in Memories, cloneMemory(t, s, m)
         PROVE  Asked
    BY <1>1, <1>10, <1>12, Zenon DEF cloneMemory
  <1>13. ASSUME NEW t \in Threads, NEW m \in Memories, NEW n \in Deltas, growMemory(t, m, n)
         PROVE  Asked
    BY <1>0, <1>1, <1>13 DEF growMemory
  <1>14. ASSUME NEW m \in Memories, collectMemory(m)
         PROVE  Asked
    BY <1>0, <1>14 DEF collectMemory, Destroy
  <1>15. ASSUME NEW m \in Memories, NEW p \in Uptr, unmapMemoryPages(m, p)
         PROVE  Asked
    BY <1>0, <1>15 DEF unmapMemoryPages
  <1>16. ASSUME NEW n \in QuotaMaxes, setMax(n)
         PROVE  Asked
    BY <1>0, <1>16 DEF setMax
  <1> HIDE DEF MemInv, TypeInv, Labels, memories, quota, threads, Asked
  <1> QED
    BY <1>2, <1>3, <1>4, <1>5, <1>6, <1>7, <1>8, <1>9, <1>11, <1>12, <1>13, <1>14, <1>15, <1>16,
       NextIsOneOf, Zenon

\* The quota of memory pages is exact whatever the threads do and whatever fails:
\* growMemory and ~Memory take and give back what the memories have, and no sum wraps.
THEOREM PageQuotaExactAlways == Spec => []QuotaExact
  <1>1. MemInv /\ MemInv' /\ PagesInv /\ [Next]_vars => PagesInv'
    <2> SUFFICES ASSUME MemInv, MemInv', PagesInv, [Next]_vars
                 PROVE  PagesInv'
      OBVIOUS
    <2>1. Word \in Nat \ {0} /\ IsFiniteSet(Memories) /\ IsFiniteSet(Threads)
      BY MemoryAssumption
    <2>2. numPages' \in [Memories -> Nat] /\ TakenPages' \in [Threads -> Nat]
      BY DEF MemInv, TypeInv, TakenPages
    <2>3. Exact(current, numPages, Memories, TakenPages, Threads, Word)
      BY DEF PagesInv
    <2>4. Moves(current, current', numPages, numPages', TakenPages, TakenPages', Word)
      BY PagesMoves DEF PagesMove
    <2>5. Exact(current', numPages', Memories, TakenPages', Threads, Word)
      BY <2>1, <2>2, <2>3, <2>4, StaysExact
    <2> QED
      BY <2>5, AskedStep DEF PagesInv
  <1>2. MemInv /\ PagesInv => QuotaExact
    <2> SUFFICES ASSUME MemInv, PagesInv
                 PROVE  QuotaExact
      OBVIOUS
    <2>1. InUse = Below(numPages, Memories, Word)
      BY DEF PagesInv, MemInv, TypeInv, InUse, Below, Uptr
    <2>2. Reserved = Below(TakenPages, Threads, Word)
      BY DEF Reserved, Reserving, TakenPages, Below, Uptr
    <2> QED
      BY <2>1, <2>2 DEF PagesInv, Exact, QuotaExact, Count
  <1> QED
    BY <1>1, <1>2, PagesInit, MemInvAlways, PTL DEF Spec

-----------------------------------------------------------------------------
(* Memories and tables side by side.  A memory and a table have no state   *)
(* or mutex in common, and no call works on both, so what a behaviour does *)
(* to the memories and what it does to the tables are behaviours of        *)
(* MemoryGrow and of TableGrow: it is enough to explore each of them with  *)
(* the other at rest.                                                      *)

CONSTANTS Tables, TableMin, TableMax, MaxTableElems, PageElems, TableWord,
          TableDeltas, TableQuotaMaxes, object

VARIABLES kind, tables, calls, elemQuota, elemSegment

T == INSTANCE TableGrowProofs WITH
       TypeMin <- TableMin, TypeMax <- TableMax, Word <- TableWord,
       Deltas <- TableDeltas, QuotaMaxes <- TableQuotaMaxes,
       Objects <- {object}, Segment <- <<object, "uninitialized">>

ASSUME TableAssumption == T!TableAssumption

tableVars == <<tables, calls, elemQuota, elemSegment>>
resources == <<kind, vars, tableVars>>

ResourcesInit == kind \in {"memory", "table"} /\ Init /\ T!Init

ResourcesNext ==
  \/ kind = "memory" /\ Next /\ UNCHANGED <<kind, tableVars>>
  \/ kind = "table" /\ T!Next /\ UNCHANGED <<kind, vars>>

ResourcesSpec ==
  /\ ResourcesInit /\ [][ResourcesNext]_resources
  /\ \A t \in Threads :
       /\ WF_resources(kind = "memory" /\ Step(t) /\ UNCHANGED <<kind, tableVars>>)
       /\ WF_resources(kind = "table" /\ T!Step(t) /\ UNCHANGED <<kind, vars>>)

-----------------------------------------------------------------------------
\* Both quotas are exact, whatever fails.
QuotasExact == QuotaExact /\ T!QuotaExact

\* An access beyond the size of a memory faults, and one beyond the size of a table
\* faults or finds the out-of-bounds sentinel, except where a growth in progress is
\* about to add what is accessed.
AccessBeyondSize == BeyondSizeFaults /\ T!BeyondSizeThrows

\* A bulk operation on tables whose bounds were in range does not throw half way.
BulkNeverThrows == T!BulkNeverThrows

\* Growths that overlap in time do not overlap in what they add: no page of a memory
\* is handed out twice, and the initial value of a new element never overwrites an
\* element that the program could already access.
GrowthsDisjoint == [][GrantedOnce' /\ T!KeepsElements]_resources

\* Threads that create, clone and grow memories, or tables, do not all wait for each
\* other.
SomeReturns == NotAllStuck /\ T!NotAllStuck

-----------------------------------------------------------------------------
(* The quota of table elements                                             *)

\* What TableGrow means by finite and by cardinality is what the theorems below mean.
LEMMA SameFinite == \A S : T!IsFiniteSet(S) <=> IsFiniteSet(S)
  BY DEF T!IsFiniteSet, IsFiniteSet

LEMMA SameCardinality == \A S : T!Cardinality(S) = Cardinality(S)
  BY DEF T!Cardinality, Cardinality

TableSizes == [b \in Tables |-> tables[b].numElements]
TakenElems == [t \in Threads |-> T!Take(calls[t])]

ElemsInv ==
  /\ Exact(elemQuota.current, TableSizes, Tables, TakenElems, Threads, TableWord)
  /\ elemQuota \in [current : T!Uptr, max : T!Uptr]
  /\ \A t \in Threads : T!Bounded(calls[t])

LEMMA ElemsInit ==
  ASSUME T!TableAssumption, T!Init
  PROVE  ElemsInv
  <1>1. TableWord \in Nat \ {0}
    BY DEF T!TableAssumption, T!Uptr
  <1>2. elemQuota \in [current : T!Uptr, max : T!Uptr] /\ elemQuota.current = 0
    BY <1>1 DEF T!Init, T!Uptr
  <1>3. \A t \in Threads : T!Bounded(calls[t]) /\ T!Take(calls[t]) = 0
    BY T!IdleTake DEF T!Init
  <1>4. \A b \in Tables : tables[b].numElements = 0
    BY T!IdleTake DEF T!Init
  <1>5. Exact(0, TableSizes, Tables, TakenElems, Threads, TableWord)
    BY <1>1, <1>3, <1>4, NothingIsExact DEF TableSizes, TakenElems
  <1> QED
    BY <1>2, <1>3, <1>5 DEF ElemsInv

ElemsMove ==
  Moves(elemQuota.current, elemQuota'.current, TableSizes, TableSizes', TakenElems, TakenElems', TableWord)

LEMMA ElemsMoves ==
  ASSUME T!TableAssumption, T!TableInv, ElemsInv, [T!Next]_T!vars
  PROVE  /\ ElemsMove
         /\ elemQuota' \in [current : Int, max : T!Uptr]
         /\ \A t \in Threads : T!Bounded(calls'[t])
  <1> DEFINE Moved == /\ ElemsMove
                      /\ elemQuota' \in [current : Int, max : T!Uptr]
                      /\ \A t \in Threads : T!Bounded(calls'[t])
  <1>1. TableWord \in Nat \ {0} /\ IsFiniteSet(Tables) /\ IsFiniteSet(Threads)
    BY SameFinite DEF T!TableAssumption, T!Uptr
  <1>2. /\ elemQuota \in [current : T!Uptr, max : T!Uptr]
        /\ elemQuota.current \in 0 .. TableWord - 1
    BY DEF ElemsInv, T!Uptr
  <1>3. T!Small
    <2>1. \A b \in Tables : TableSizes[b] <= elemQuota.current
      BY <1>1, ExactBounds DEF ElemsInv
    <2>2. \A b \in Tables : tables[b].numElements \in 0 .. TableWord /\ TableSizes[b] = tables[b].numElements
      BY DEF ElemsInv, Exact, TableSizes
    <2> QED
      BY <1>1, <1>2, <2>1, <2>2 DEF T!Small, ElemsInv
  <1>4. /\ T!SameSizes => TableSizes' = TableSizes
        /\ T!SameTakes => TakenElems' = TakenElems /\ \A t \in Threads : T!Bounded(calls'[t])
    BY DEF T!SameSizes, T!SameSize, T!SameTakes, TableSizes, TakenElems
  <1>5. ASSUME NEW t \in Threads, NEW m, NEW n, T!Takes(t, m, n)
        PROVE  /\ t \in DOMAIN TakenElems /\ TakenElems[t] = m /\ TakenElems'[t] = n
               /\ OnlyAt(t, TakenElems, TakenElems')
               /\ \A u \in Threads : T!Bounded(calls'[u])
    BY <1>5 DEF T!Takes, TakenElems, OnlyAt
  <1>6. ASSUME NEW b \in Tables, NEW m, NEW n, T!Resizes(b, m, n)
        PROVE  /\ b \in DOMAIN TableSizes /\ TableSizes[b] = m /\ TableSizes'[b] = n
               /\ OnlyAt(b, TableSizes, TableSizes')
    BY <1>6 DEF T!Resizes, T!SameSize, TableSizes, OnlyAt
  <1>7. ASSUME NEW n \in Int, T!allocate(n) \/ T!free(n)
        PROVE  elemQuota' \in [current : Int, max : T!Uptr]
    BY <1>1, <1>2, <1>7 DEF T!allocate, T!free
  <1>8. CASE T!Quiet
    <2>1. ElemsMove
      BY <1>4, <1>8, ZenonT(60) DEF ElemsMove, Moves, T!Quiet
    <2> QED
      BY <1>4, <1>8, <2>1 DEF T!Quiet, T!Uptr
  <1>9. ASSUME NEW t \in Threads, T!Reserves(t)
        PROVE  Moved
    <2>1. PICK n \in T!Uptr : T!SameSizes /\ T!Takes(t, 0, n) /\ T!allocate(n)
      BY <1>9 DEF T!Reserves
    <2>2. /\ n < TableWord /\ (elemQuota.current + n) % TableWord >= elemQuota.current
          /\ elemQuota'.current = (elemQuota.current + n) % TableWord
      BY <1>1, <1>2, <2>1 DEF T!allocate, T!CanAllocate, T!Uptr
    <2>3. ElemsMove
      BY <1>4, <1>5, <2>1, <2>2, ZenonT(60) DEF ElemsMove, Moves
    <2> QED
      BY <1>5, <1>7, <2>1, <2>3 DEF T!Uptr
  <1>10. ASSUME NEW n \in Nat, T!free(n)
         PROVE  elemQuota'.current = (elemQuota.current - n) % TableWord
    BY <1>2, <1>10 DEF T!free
  <1>11. ASSUME NEW t \in Threads, T!GivesBack(t)
         PROVE  Moved
    <2>1. PICK n \in Nat : T!SameSizes /\ T!Takes(t, n, 0) /\ T!free(n)
      BY <1>11 DEF T!GivesBack
    <2>2. ElemsMove
      BY <1>4, <1>5, <1>10, <2>1, ZenonT(60) DEF ElemsMove, Moves
    <2> QED
      BY <1>5, <1>7, <2>1, <2>2
  <1>12. ASSUME NEW t \in Threads, NEW b \in Tables, T!Adds(t, b)
         PROVE  Moved
    <2>1. PICK n \in Nat, size \in Nat :
            T!Resizes(b, size, size + n) /\ T!Takes(t, n, 0) /\ UNCHANGED elemQuota
      BY <1>12 DEF T!Adds
    <2>2. /\ b \in DOMAIN TableSizes /\ TableSizes'[b] = TableSizes[b] + TakenElems[t]
          /\ OnlyAt(b, TableSizes, TableSizes')
      BY <1>5, <1>6, <2>1
    <2>3. ElemsMove
      BY <1>5, <2>1, <2>2, ZenonT(60) DEF ElemsMove, Moves
    <2> QED
      BY <1>2, <1>5, <2>1, <2>3 DEF T!Uptr
  <1>13. ASSUME NEW b \in Tables, T!Destroys(b)
         PROVE  Moved
    <2>1. PICK n \in Nat : T!Resizes(b, n, 0) /\ T!SameTakes /\ T!free(n)
      BY <1>13 DEF T!Destroys
    <2>2. ElemsMove
      BY <1>4, <1>6, <1>10, <2>1, ZenonT(60) DEF ElemsMove, Moves
    <2> QED
      BY <1>4, <1>7, <2>1, <2>2
  <1>14. \/ T!Quiet
         \/ \E t \in Threads : T!Reserves(t) \/ T!GivesBack(t) \/ \E b \in Tables : T!Adds(t, b)
         \/ \E b \in Tables : T!Destroys(b)
    BY <1>3, T!QuotaSteps
  <1> QED
    BY <1>8, <1>9, <1>11, <1>12, <1>13, <1>14, Zenon

\* The quota of table elements is exact whatever the threads do and whatever fails:
\* growTableImpl and ~Table take and give back what the tables have, and no sum wraps.
THEOREM ElemQuotaExactAlways == T!TableAssumption /\ T!Spec => []T!QuotaExact
  <1> SUFFICES ASSUME T!TableAssumption
               PROVE  T!Spec => []T!QuotaExact
    OBVIOUS
  <1>1. T!Init => ElemsInv
    BY ElemsInit
  <1>2. T!TableInv /\ T!TableInv' /\ ElemsInv /\ [T!Next]_T!vars => ElemsInv'
    <2> SUFFICES ASSUME T!TableInv, T!TableInv', ElemsInv, [T!Next]_T!vars
                 PROVE  ElemsInv'
      OBVIOUS
    <2>1. TableWord \in Nat \ {0} /\ IsFiniteSet(Tables) /\ IsFiniteSet(Threads)
      BY SameFinite DEF T!TableAssumption, T!Uptr
    <2>2. TableSizes' \in [Tables -> Nat] /\ TakenElems' \in [Threads -> Nat]
      BY DEF T!TableInv, T!TypeInv, T!TableType, T!CallType, T!Take, TableSizes, TakenElems
    <2>3. Exact(elemQuota.current, TableSizes, Tables, TakenElems, Threads, TableWord)
      BY DEF ElemsInv
    <2>4. /\ Moves(elemQuota.current, elemQuota'.current, TableSizes, TableSizes',
                   TakenElems, TakenElems', TableWord)
          /\ elemQuota' \in [current : Int, max : T!Uptr]
          /\ \A t \in Threads : T!Bounded(calls'[t])
      BY ElemsMoves DEF ElemsMove
    <2>5. Exact(elemQuota'.current, TableSizes', Tables, TakenElems', Threads, TableWord)
      BY <2>1, <2>2, <2>3, <2>4, StaysExact
    <2>6. elemQuota'.current \in T!Uptr
      BY <2>5 DEF Exact, T!Uptr
    <2> QED
      BY <2>4, <2>5, <2>6 DEF ElemsInv
  <1>3. T!TableInv /\ ElemsInv => T!QuotaExact
    <2> SUFFICES ASSUME T!TableInv, ElemsInv
                 PROVE  T!QuotaExact
      OBVIOUS
    <2>1. T!InUse = Below(TableSizes, Tables, TableWord)
      BY DEF TableSizes, T!InUse, Below, T!Uptr
    <2>2. T!Reserved = Below(TakenElems, Threads, TableWord)
      BY DEF T!Reserved, T!Reserving, TakenElems, T!Take, T!Taking, Below, T!Uptr
    <2> QED
      BY <2>1, <2>2, SameCardinality DEF ElemsInv, Exact, T!QuotaExact, Count
  <1>4. T!Spec => []T!TableInv
    BY T!TableInvAlways
  <1> QED
    BY <1>1, <1>2, <1>3, <1>4, PTL DEF T!Spec

-----------------------------------------------------------------------------
(* What holds of memories and tables together                              *)

\* What a behaviour does to the memories is a behaviour of MemoryGrow, and what it does to
\* the tables one of TableGrow.
LEMMA SideBySide == ResourcesSpec => Spec /\ T!Spec
  <1>1. ResourcesInit => Init /\ T!Init
    BY DEF ResourcesInit
  <1>2. [ResourcesNext]_resources => [Next]_vars /\ [T!Next]_T!vars
    BY DEF ResourcesNext, resources, tableVars, T!vars
  <1> QED
    BY <1>1, <1>2, PTL DEF ResourcesSpec, Spec, T!Spec

\* Both quotas are exact: the pages and elements that are counted are those of the memories
\* and tables and those that a growth in progress has set aside.
THEOREM QuotasExactAlways == ResourcesSpec => []QuotasExact
  <1>1. QuotaExact /\ T!QuotaExact => QuotasExact
    BY DEF QuotasExact
  <1>2. T!Spec => []T!QuotaExact
    BY TableAssumption, ElemQuotaExactAlways
  <1> QED
    BY <1>1, <1>2, SideBySide, PageQuotaExactAlways, PTL

\* No access beyond the size of a memory or table succeeds, except to what a growth in
\* progress is about to add.
THEOREM AccessBeyondSizeAlways == ResourcesSpec => []AccessBeyondSize
  <1>1. BeyondSizeFaults /\ T!BeyondSizeThrows => AccessBeyondSize
    BY DEF AccessBeyondSize
  <1>2. T!Spec => []T!BeyondSizeThrows
    BY TableAssumption, T!BeyondSizeThrowsAlways
  <1> QED
    BY <1>1, <1>2, SideBySide, BeyondSizeFaultsAlways, PTL

\* A table.copy, table.fill or table.init whose bounds were in range does not throw half
\* way, whatever the other threads do to the tables.
THEOREM BulkNeverThrowsAlways == ResourcesSpec => []BulkNeverThrows
  <1>1. T!BulkNeverThrows => BulkNeverThrows
    BY DEF BulkNeverThrows
  <1>2. T!Spec => []T!BulkNeverThrows
    BY TableAssumption, T!BulkNeverThrowsAlways
  <1> QED
    BY <1>1, <1>2, SideBySide, PTL

\* Growths that overlap in time do not overlap in what they add: growMemory hands out no
\* page twice, and growTableImpl initializes no element that was already accessible.
THEOREM GrowthsDisjointAlways == ResourcesSpec => GrowthsDisjoint
  <1>1. T!TableInv => T!KeepsElements
    BY TableAssumption, T!KeepsElementsHolds
  <1>2. T!Spec => []T!TableInv
    BY TableAssumption, T!TableInvAlways
  <1> QED
    BY <1>1, <1>2, SideBySide, GrantedOnceAlways, PTL DEF GrowthsDisjoint
=============================================================================
