--------------------------- MODULE TableInvariant ---------------------------
(***************************************************************************)
(* The inductive invariant of TableGrow, for any number of threads and     *)
(* tables, any limits, page size and width of Uptr, and that growTableImpl *)
(* keeps it.  TableGrowProofs has the other operations and the theorems.   *)
(***************************************************************************)
EXTENDS TableGrow, TLAPS

Growing == {"quota", "lock", "commit", "initialize", "store", "copy", "insert", "delete"}
Bulk == {"fill", "segment", "read", "write"}
Steps == Growing \cup Bulk \cup {"idle"}

TableType ==
  [stage : {"none", "listed", "inMap"}, numElements : Nat, resizing : Threads \cup {None},
   elements : [Indices -> Elements \cup Inaccessible]]

CallType ==
  [step : Steps, table : Tables \cup {None}, source : Tables \cup {None}, delta : Nat,
   old : Nat, index : Nat, offset : Nat, from : Nat, value : Elements \cup {None}]

TypeInv == tables \in [Tables -> TableType] /\ calls \in [Threads -> CallType]

\* A call has a table that exists.  Only a table being created is copied to, inserted or
\* deleted, and only a table being created is a clone.
Owns(t) ==
  LET c == calls[t]
  IN  /\ c.step = "idle" => c.table = None /\ c.source = None
      /\ c.step # "idle" => c.table # None /\ tables[c.table].stage # "none"
      /\ c.source # None => InMap(c.source)
      /\ c.step \in Bulk => InMap(c.table)
      /\ c.step \in {"copy", "insert", "delete"} => ~ InMap(c.table)
      /\ c.step \in Growing /\ c.source # None => ~ InMap(c.table)
      /\ c.step = "copy" => c.source # None
      /\ c.step = "initialize" => c.source = None
      /\ c.step \in {"quota", "lock", "commit", "initialize"} /\ c.source = None =>
           c.value \in Elements

\* A table that a thread grows is locked by it from the moment its size is read, and a
\* table that a thread clones until its elements are copied.
Locks(t) ==
  LET c == calls[t]
  IN  /\ c.step \in {"commit", "initialize", "store"} =>
           tables[c.table].resizing = t /\ c.old = tables[c.table].numElements
      /\ c.step \in Growing \ {"insert"} /\ c.source # None => tables[c.source].resizing = t

\* How far a thread is with the elements that it adds, copies or writes.
Progress(t) ==
  LET c == calls[t]
  IN  /\ c.step \in {"initialize", "store"} => c.old + c.delta <= NumReserved
      /\ c.step = "initialize" => c.old <= c.index /\ c.index < c.old + c.delta
      /\ c.step \in {"quota", "lock", "commit"} => c.delta > 0
      /\ c.step \in Growing \ {"insert", "delete"} /\ c.source # None =>
           c.delta = tables[c.source].numElements
      /\ c.step \in {"quota", "lock", "commit", "initialize", "store"} /\ ~ InMap(c.table) =>
           tables[c.table].numElements = 0
      /\ c.step = "copy" => c.index <= c.delta /\ tables[c.table].numElements = c.delta
      /\ c.step \in Bulk =>
           c.index < c.delta /\ c.offset + c.delta <= tables[c.table].numElements
      /\ c.step \in {"read", "write"} =>
           c.source # None /\ c.from + c.delta <= tables[c.source].numElements
      /\ c.step \in {"fill", "segment"} => c.source = None
      /\ c.step \in {"fill", "write"} => c.value \in Elements
      /\ c.step = "segment" => c.from + c.delta <= Len(Segment)

\* Every element that the size covers is accessible.
Filled(b) == \A i \in Indices : i < tables[b].numElements => Accessible(b, i)

\* What a thread that adds or copies elements has written.
Wrote(t) ==
  LET c == calls[t]
  IN  /\ c.step = "insert" => Filled(c.table)
      /\ c.step = "initialize" =>
           \A i \in Indices : c.old <= i /\ i < c.index => Accessible(c.table, i)
      /\ c.step = "store" /\ c.source = None =>
           \A i \in Indices : c.old <= i /\ i < c.old + c.delta => Accessible(c.table, i)
      /\ c.step = "copy" => \A i \in Indices : i < c.index => Accessible(c.table, i)

ThreadInv(t) == Owns(t) /\ Locks(t) /\ Progress(t) /\ Wrote(t)

\* Nobody else knows the table that a thread is creating.
Unshared ==
  \A t, u \in Threads :
    t # u /\ calls[t].table # None /\ ~ InMap(calls[t].table) => calls[u].table # calls[t].table

\* Beyond the size, only what a growth in progress has written is accessible.
Adding(t, b, i) ==
  /\ calls[t].table = b
  /\ \/ calls[t].step = "initialize" /\ i < calls[t].index
     \/ calls[t].step = "store" /\ i < calls[t].old + calls[t].delta

OfTable(b) ==
  /\ tables[b].numElements <= NumReserved
  /\ tables[b].stage = "none" => tables[b].numElements = 0
  /\ InMap(b) => Filled(b)
  /\ \A i \in Indices :
       Accessible(b, i) => i < tables[b].numElements \/ \E t \in Threads : Adding(t, b, i)

TableInv ==
  /\ TypeInv
  /\ \A t \in Threads : ThreadInv(t)
  /\ Unshared
  /\ \A b \in Tables : OfTable(b)

-----------------------------------------------------------------------------
LEMMA NumReservedBounds ==
  ASSUME TableAssumption
  PROVE  /\ NumReserved \in Nat /\ NumReserved <= TypeMax /\ NumReserved <= MaxTableElems + 1
         /\ \A n \in Nat : n <= TypeMax /\ n <= MaxTableElems => n <= NumReserved
         /\ \A i : i \in Indices <=> i \in Nat /\ i < NumReserved
  <1>1. \A a, b \in Nat : Min({a, b}) \in {a, b} /\ Min({a, b}) <= a /\ Min({a, b}) <= b
    <2> SUFFICES ASSUME NEW a \in Nat, NEW b \in Nat
                 PROVE  Min({a, b}) \in {a, b} /\ Min({a, b}) <= a /\ Min({a, b}) <= b
      OBVIOUS
    <2>1. \E x \in {a, b} : \A y \in {a, b} : x <= y
      OBVIOUS
    <2> QED
      BY <2>1 DEF Min
  <1>2. TypeMax \in Nat /\ MaxTableElems + 1 \in Nat /\ MaxTableElems \in Nat
    BY DEF TableAssumption
  <1>3. NumReserved \in {TypeMax, MaxTableElems + 1} /\ NumReserved <= TypeMax
          /\ NumReserved <= MaxTableElems + 1
    BY <1>1, <1>2 DEF NumReserved
  <1> QED
    BY <1>2, <1>3 DEF Indices

\* Committed(n) covers the first n elements.
LEMMA CommittedCovers ==
  ASSUME TableAssumption, NEW n \in Nat, NEW i \in Indices, i < n
  PROVE  i \in Committed(n)
  <1>1. i \in Nat /\ PageElems \in Nat \ {0}
    BY NumReservedBounds DEF TableAssumption
  <1>2. \A p \in Nat \ {0}, a \in Nat : p * (a \div p) <= a /\ a < p * (a \div p) + p
    OBVIOUS
  <1> DEFINE p == PageElems
             q == i \div p
             r == (n + p - 1) \div p
  <1>3. q \in Nat /\ r \in Nat
    BY <1>1
  <1>4. p * q <= i /\ n + p - 1 < p * r + p
    BY <1>1, <1>2
  <1>5. p * q < p * r
    BY <1>1, <1>3, <1>4
  <1>6. \A x, y \in Nat : p * x < p * y => x < y
    BY <1>1
  <1> QED
    BY <1>3, <1>5, <1>6 DEF Committed

-----------------------------------------------------------------------------
LEMMA NextIsOneOf ==
  ASSUME [Next]_vars
  PROVE  \/ UNCHANGED vars
         \/ \E t \in Threads :
              \/ checkQuota(t) \/ lockResizing(t) \/ initElement(t) \/ storeSize(t)
              \/ \E commitFails \in BOOLEAN : commitPages(t, commitFails)
              \/ copyElement(t) \/ insertTable(t) \/ deleteTable(t)
              \/ readElement(t) \/ writeElement(t)
              \/ \E b \in Tables :
                   \/ \E v \in Elements :
                        \/ createTable(t, b, v)
                        \/ \E n \in Deltas : growTable(t, b, n, v)
                        \/ \E i \in Indices : setTableElement(t, b, i, v)
                        \/ \E offset, n \in Uptr : table_fill(t, b, offset, n, v)
                   \/ \E s \in Tables :
                        \/ cloneTable(t, s, b)
                        \/ \E offset, from, n \in Uptr : table_copy(t, b, offset, s, from, n)
                   \/ \E offset, from, n \in Uptr : table_init(t, b, offset, from, n)
         \/ \E b \in Tables : collectTable(b)
         \/ \E n \in QuotaMaxes : setMax(n)
         \/ elem_drop
  BY Zenon DEF Next, Step, Begin

LEMMA TableInit == TableAssumption /\ Init => TableInv
  <1> SUFFICES ASSUME TableAssumption, Init
               PROVE  TableInv
    OBVIOUS
  <1>1. TypeInv
    BY NumReservedBounds
       DEF Init, TypeInv, Table, Idle, TableType, CallType, Steps, Inaccessible
  <1>2. ASSUME NEW t \in Threads
        PROVE  ThreadInv(t)
    BY DEF Init, Idle, ThreadInv, Owns, Locks, Progress, Wrote, Growing, Bulk
  <1>3. Unshared
    BY DEF Init, Idle, Unshared
  <1>4. ASSUME NEW b \in Tables
        PROVE  OfTable(b)
    BY NumReservedBounds
       DEF Init, Table, Idle, OfTable, Filled, Accessible, Inaccessible, InMap
  <1> QED
    BY <1>1, <1>2, <1>3, <1>4 DEF TableInv

LEMMA IdleType == Idle \in CallType /\ Idle.step = "idle" /\ Idle.table = None /\ Idle.source = None
  BY DEF Idle, CallType, Steps

-----------------------------------------------------------------------------
(* What a step of one thread leaves as it was.                             *)

SameElements(b) == \A i \in Indices : Accessible(b, i)' <=> Accessible(b, i)

Becomes(b, stage, size, owner) ==
  /\ tables'[b].stage = stage /\ tables'[b].numElements = size /\ tables'[b].resizing = owner

Same(b) ==
  Becomes(b, tables[b].stage, tables[b].numElements, tables[b].resizing) /\ SameElements(b)

\* Table b still is what thread u relies on: it may have grown, unless u locked it or is
\* creating it.
Undisturbed(u, b) ==
  /\ tables'[b].stage = tables[b].stage
  /\ tables'[b].numElements >= tables[b].numElements
  /\ tables[b].resizing = u => tables'[b].resizing = u
  /\ tables[b].resizing = u \/ ~ InMap(b) =>
       /\ tables'[b].numElements = tables[b].numElements
       /\ \A i \in Indices : Accessible(b, i) => Accessible(b, i)'

LEMMA ThreadFrame ==
  ASSUME TableInv, NEW u \in Threads, calls'[u] = calls[u], tables' \in [Tables -> TableType],
         \A b \in Tables : b \in {calls[u].table, calls[u].source} => Undisturbed(u, b)
  PROVE  ThreadInv(u)'
  <1>0. PICK c \in CallType : c = calls[u] /\ c = calls'[u]
    BY DEF TableInv, TypeInv
  <1>1. ThreadInv(u)
    BY DEF TableInv
  <1>2. c.table \in Tables \cup {None} /\ c.source \in Tables \cup {None}
    BY DEF CallType
  <1>3. Owns(u)'
    <2>1. c.step # "idle" => tables'[c.table].stage = tables[c.table].stage
      BY <1>0, <1>1, <1>2 DEF ThreadInv, Owns, Undisturbed
    <2>2. c.source # None => tables'[c.source].stage = tables[c.source].stage
      BY <1>0, <1>2 DEF Undisturbed
    <2> QED
      BY <1>0, <1>1, <2>1, <2>2 DEF ThreadInv, Owns, InMap, Growing, Bulk
  <1>4. Locks(u)'
    <2>1. c.step \in {"commit", "initialize", "store"} =>
            tables'[c.table].resizing = u /\ c.old = tables'[c.table].numElements
      BY <1>0, <1>1, <1>2 DEF ThreadInv, Owns, Locks, Undisturbed
    <2>2. c.step \in Growing \ {"insert"} /\ c.source # None => tables'[c.source].resizing = u
      BY <1>0, <1>1, <1>2 DEF ThreadInv, Locks, Undisturbed
    <2> QED
      BY <1>0, <2>1, <2>2 DEF Locks
  <1>5. Progress(u)'
    <2>1. /\ c.offset \in Nat /\ c.from \in Nat /\ c.delta \in Nat
          /\ \A b \in Tables : tables[b].numElements \in Nat /\ tables'[b].numElements \in Nat
      BY DEF TableInv, TypeInv, TableType, CallType
    <2>2. CASE c.step \in Bulk
      <3>1. PICK b \in Tables : b = c.table
        BY <1>0, <1>1, <1>2, <2>2 DEF ThreadInv, Owns, Bulk
      <3>2. c.index < c.delta /\ c.offset + c.delta <= tables[b].numElements
        BY <1>0, <1>1, <2>2, <3>1 DEF ThreadInv, Progress
      <3>3. tables'[b].numElements >= tables[b].numElements
        BY <1>0, <3>1 DEF Undisturbed
      <3>4. c.offset + c.delta <= tables'[b].numElements
        BY <2>1, <3>2, <3>3
      <3>5. ASSUME c.step \in {"read", "write"}
            PROVE  c.source # None /\ c.from + c.delta <= tables'[c.source].numElements
        <4>1. c.source # None /\ c.from + c.delta <= tables[c.source].numElements
          BY <1>0, <1>1, <3>5 DEF ThreadInv, Progress
        <4>2. tables'[c.source].numElements >= tables[c.source].numElements
          BY <1>0, <1>2, <4>1 DEF Undisturbed
        <4> QED
          BY <1>2, <2>1, <4>1, <4>2
      <3>6. /\ c.step \in {"fill", "segment"} => c.source = None
            /\ c.step \in {"fill", "write"} => c.value \in Elements
            /\ c.step = "segment" => c.from + c.delta <= Len(Segment)
        BY <1>0, <1>1 DEF ThreadInv, Progress
      <3> QED
        BY <1>0, <2>2, <3>1, <3>2, <3>4, <3>5, <3>6 DEF Progress, Bulk, Growing
    <2>3. CASE c.step \notin Bulk
      <3>1. c.step \in Growing \ {"insert", "delete"} /\ c.source # None =>
              c.delta = tables'[c.source].numElements
        BY <1>0, <1>1, <1>2 DEF ThreadInv, Locks, Progress, Undisturbed
      <3>2. c.step \in {"quota", "lock", "commit", "initialize", "store"} /\ ~ InMap(c.table)' =>
              tables'[c.table].numElements = 0
        BY <1>0, <1>1, <1>2 DEF ThreadInv, Owns, Progress, Undisturbed, InMap
      <3>3. c.step = "copy" => c.index <= c.delta /\ tables'[c.table].numElements = c.delta
        BY <1>0, <1>1, <1>2 DEF ThreadInv, Owns, Progress, Undisturbed
      <3>4. /\ c.step \in {"initialize", "store"} => c.old + c.delta <= NumReserved
            /\ c.step = "initialize" => c.old <= c.index /\ c.index < c.old + c.delta
            /\ c.step \in {"quota", "lock", "commit"} => c.delta > 0
        BY <1>0, <1>1 DEF ThreadInv, Progress
      <3> QED
        BY <1>0, <2>3, <3>1, <3>2, <3>3, <3>4 DEF Progress, Bulk
    <2> QED
      BY <2>2, <2>3
  <1>6. Wrote(u)'
    <2>1. ASSUME c.step \in {"insert", "copy"}
          PROVE  ~ InMap(c.table) /\ c.table \in Tables
      BY <1>0, <1>1, <1>2, <2>1 DEF ThreadInv, Owns
    <2>2. ASSUME c.step \in {"initialize", "store"}
          PROVE  tables[c.table].resizing = u /\ c.table \in Tables
      BY <1>0, <1>1, <1>2, <2>2 DEF ThreadInv, Owns, Locks
    <2>3. ASSUME c.step \in {"insert", "copy", "initialize", "store"}
          PROVE  /\ tables'[c.table].numElements = tables[c.table].numElements
                 /\ \A i \in Indices : Accessible(c.table, i) => Accessible(c.table, i)'
      BY <1>0, <2>1, <2>2, <2>3 DEF Undisturbed
    <2> QED
      BY <1>0, <1>1, <2>3 DEF ThreadInv, Wrote, Filled
  <1> QED
    BY <1>3, <1>4, <1>5, <1>6 DEF ThreadInv

\* Only the call of t changes, to d.
Calls(t, d) == d \in CallType /\ calls' = [calls EXCEPT ![t] = d]

LEMMA TableFrame ==
  ASSUME TableInv, NEW t \in Threads, NEW d, Calls(t, d), NEW b \in Tables, Same(b),
         calls[t].step \notin {"initialize", "store"} \/ calls[t].table # b
  PROVE  OfTable(b)'
  <1>1. \A u \in Threads, i \in Indices : Adding(u, b, i) => Adding(u, b, i)'
    BY DEF TableInv, TypeInv, Calls, Adding
  <1> QED
    BY <1>1 DEF TableInv, Same, SameElements, Becomes, OfTable, Filled, InMap

LEMMA SameUndisturbed ==
  ASSUME TypeInv, NEW u \in Threads, NEW b \in Tables, Same(b)
  PROVE  Undisturbed(u, b)
  <1>1. tables[b].numElements \in Nat
    BY DEF TypeInv, TableType
  <1> QED
    BY <1>1 DEF Same, SameElements, Becomes, Undisturbed

\* A step of t that no table shows.
LEMMA QuietStep ==
  ASSUME TableInv, NEW t \in Threads, NEW d, Calls(t, d), tables' \in [Tables -> TableType],
         \A b \in Tables : Same(b),
         calls[t].step \notin {"initialize", "store"},
         d.table \in {None, calls[t].table} \/ InMap(d.table),
         ThreadInv(t)'
  PROVE  TableInv'
  <1>1. TypeInv'
    BY DEF TableInv, TypeInv, Calls
  <1>2. ASSUME NEW u \in Threads, u # t
        PROVE  ThreadInv(u)'
    <2>1. calls'[u] = calls[u]
      BY <1>2 DEF TableInv, TypeInv, Calls
    <2>2. \A b \in Tables : Undisturbed(u, b)
      BY SameUndisturbed DEF TableInv
    <2> QED
      BY <2>1, <2>2, ThreadFrame
  <1>3. Unshared'
    <2>1. \A u \in Threads : calls'[u] = IF u = t THEN d ELSE calls[u]
      BY DEF TableInv, TypeInv, Calls
    <2>2. \A u \in Threads : calls[u].table \in Tables \cup {None}
      BY DEF TableInv, TypeInv, CallType
    <2>3. \A b \in Tables : tables'[b].stage = tables[b].stage
      BY DEF Same, Becomes
    <2>4. d.table \in Tables \cup {None} /\ Unshared
      BY DEF TableInv, Calls, CallType
    <2> QED
      BY <2>1, <2>2, <2>3, <2>4 DEF Unshared, InMap
  <1>4. \A b \in Tables : OfTable(b)'
    BY TableFrame
  <1> QED
    BY <1>1, <1>2, <1>3, <1>4 DEF TableInv

-----------------------------------------------------------------------------
(* What the edits of a record change.                                      *)

\* d is c with another step, old size, index and value.
Moves(c, d, step, old, index, value) ==
  /\ d \in CallType /\ d.step = step /\ d.old = old /\ d.index = index /\ d.value = value
  /\ d.table = c.table /\ d.source = c.source /\ d.delta = c.delta /\ d.offset = c.offset
  /\ d.from = c.from

LEMMA CallEdits ==
  ASSUME NEW c \in CallType, NEW step \in Steps
  PROVE  /\ Moves(c, [c EXCEPT !.step = step], step, c.old, c.index, c.value)
         /\ \A n \in Nat :
              /\ Moves(c, [c EXCEPT !.step = step, !.old = n], step, n, c.index, c.value)
              /\ Moves(c, [c EXCEPT !.step = step, !.index = n], step, c.old, n, c.value)
              /\ Moves(c, [c EXCEPT !.index = n, !.step = step], step, c.old, n, c.value)
              /\ Moves(c, [c EXCEPT !.index = n], c.step, c.old, n, c.value)
         /\ \A v \in Elements :
              Moves(c, [c EXCEPT !.step = step, !.value = v], step, c.old, c.index, v)
  <1>1. Moves(c, [c EXCEPT !.step = step], step, c.old, c.index, c.value)
    BY DEF CallType, Moves
  <1>2. ASSUME NEW n \in Nat
        PROVE  Moves(c, [c EXCEPT !.step = step, !.old = n], step, n, c.index, c.value)
    BY Zenon DEF CallType, Moves
  <1>3. ASSUME NEW n \in Nat
        PROVE  Moves(c, [c EXCEPT !.step = step, !.index = n], step, c.old, n, c.value)
    BY Zenon DEF CallType, Moves
  <1>4. ASSUME NEW n \in Nat
        PROVE  Moves(c, [c EXCEPT !.index = n, !.step = step], step, c.old, n, c.value)
    BY Zenon DEF CallType, Moves
  <1>5. ASSUME NEW n \in Nat
        PROVE  Moves(c, [c EXCEPT !.index = n], c.step, c.old, n, c.value)
    BY DEF CallType, Moves
  <1>6. ASSUME NEW v \in Elements
        PROVE  Moves(c, [c EXCEPT !.step = step, !.value = v], step, c.old, c.index, v)
    BY Zenon DEF CallType, Moves
  <1> QED
    BY <1>1, <1>2, <1>3, <1>4, <1>5, <1>6, Zenon

LEMMA Gotos ==
  ASSUME TypeInv, NEW t \in Threads, NEW step \in Steps, Goto(t, step)
  PROVE  \E d : Calls(t, d) /\ Moves(calls[t], d, step, calls[t].old, calls[t].index, calls[t].value)
  <1> DEFINE d == [calls[t] EXCEPT !.step = step]
  <1>1. calls[t] \in CallType
    BY DEF TypeInv
  <1>2. Moves(calls[t], d, step, calls[t].old, calls[t].index, calls[t].value)
    BY <1>1, CallEdits, Zenon
  <1>3. d \in CallType
    BY <1>2, Zenon DEF Moves
  <1>4. calls' = [calls EXCEPT ![t] = d]
    BY Zenon DEF Goto
  <1> QED
    BY <1>2, <1>3, <1>4, Zenon DEF Calls

LEMMA Becoming ==
  ASSUME NEW t \in Threads, NEW d \in CallType, Become(t, d)
  PROVE  Calls(t, d)
  BY Zenon DEF Become, Calls

LEMMA ThreadIs ==
  ASSUME TypeInv, NEW t \in Threads, NEW d, Calls(t, d)
  PROVE  calls'[t] = d
  BY DEF TypeInv, Calls

LEMMA TablesSame ==
  ASSUME TypeInv, UNCHANGED tables
  PROVE  tables' \in [Tables -> TableType] /\ \A b \in Tables : Same(b)
  BY DEF TypeInv, Same, SameElements, Becomes, Accessible

LEMMA IdleThread ==
  ASSUME NEW t \in Threads, calls'[t] = Idle
  PROVE  ThreadInv(t)'
  BY IdleType DEF ThreadInv, Owns, Locks, Progress, Wrote, Growing, Bulk

-----------------------------------------------------------------------------
(* Threads that create, clone or grow a table                              *)

\* Thread t is in call c, on table b with source s.
Grows(t, c, b, s) ==
  /\ calls[t] = c /\ c.table = b /\ c.source = s /\ b # None /\ tables[b].stage # "none"
  /\ s # None => InMap(s) /\ ~ InMap(b)

Holds(t, c, s) == s # None => tables[s].resizing = t /\ c.delta = tables[s].numElements

Locked(t, c, b) == tables[b].resizing = t /\ c.old = tables[b].numElements

Fresh(b) == ~ InMap(b) => tables[b].numElements = 0

LEMMA ThreadGrows ==
  ASSUME TableAssumption, TableInv, NEW t \in Threads, calls[t].step \in Growing
  PROVE  \E c \in CallType, b \in Tables, s \in Tables \cup {None} : Grows(t, c, b, s)
  <1>1. PICK c \in CallType : c = calls[t]
    BY DEF TableInv, TypeInv
  <1>2. c.step # "idle" /\ c.step \in Growing
    BY <1>1 DEF Growing
  <1>3. c.table \in Tables \cup {None} /\ c.source \in Tables \cup {None}
    BY DEF CallType
  <1>4. Owns(t)
    BY DEF TableInv, ThreadInv
  <1>5. Grows(t, c, c.table, c.source)
    BY <1>1, <1>2, <1>4 DEF Owns, Grows
  <1>6. c.table \in Tables
    BY <1>3, <1>5 DEF Grows
  <1> QED
    BY <1>3, <1>5, <1>6

LEMMA GrowFacts ==
  ASSUME TableInv, NEW t \in Threads, NEW c, NEW b, NEW s, Grows(t, c, b, s)
  PROVE  /\ c.step \in Growing \ {"insert", "delete"} => Holds(t, c, s)
         /\ c.step = "delete" /\ s # None => tables[s].resizing = t
         /\ c.step \in {"quota", "lock", "commit"} => c.delta > 0
         /\ c.step \in {"quota", "lock", "commit", "initialize"} /\ s = None => c.value \in Elements
         /\ c.step \in {"quota", "lock", "commit", "initialize", "store"} => Fresh(b)
         /\ c.step \in {"commit", "initialize", "store"} => Locked(t, c, b)
         /\ c.step \in {"copy", "insert", "delete"} => ~ InMap(b)
  <1>1. Owns(t) /\ Locks(t) /\ Progress(t) /\ calls[t] = c /\ c.table = b /\ c.source = s
    BY DEF TableInv, ThreadInv, Grows
  <1>2. c.step \in Growing \ {"insert", "delete"} => Holds(t, c, s)
    BY <1>1 DEF Locks, Progress, Holds
  <1>3. /\ c.step = "delete" /\ s # None => tables[s].resizing = t
        /\ c.step \in {"commit", "initialize", "store"} => Locked(t, c, b)
    BY <1>1 DEF Locks, Locked, Growing
  <1>4. /\ c.step \in {"quota", "lock", "commit"} => c.delta > 0
        /\ c.step \in {"quota", "lock", "commit", "initialize", "store"} => Fresh(b)
    BY <1>1 DEF Progress, Fresh
  <1>5. /\ c.step \in {"quota", "lock", "commit", "initialize"} /\ s = None => c.value \in Elements
        /\ c.step \in {"copy", "insert", "delete"} => ~ InMap(b)
    BY <1>1 DEF Owns
  <1> QED
    BY <1>2, <1>3, <1>4, <1>5

\* The thread goes on with the same table and source, which keep their stages.
LEMMA StillGrows ==
  ASSUME NEW t \in Threads, NEW c, NEW b, NEW s, Grows(t, c, b, s), NEW d, calls'[t] = d,
         d.table = c.table, d.source = c.source,
         tables'[b].stage = tables[b].stage, s # None => tables'[s].stage = tables[s].stage
  PROVE  Grows(t, d, b, s)'
  BY DEF Grows, InMap

LEMMA StillHolds ==
  ASSUME NEW t \in Threads, NEW c, NEW d, NEW s \in Tables \cup {None}, Holds(t, c, s),
         d.delta = c.delta, \A a \in Tables : a = s => Same(a)
  PROVE  Holds(t, d, s)'
  BY DEF Holds, Same, Becomes

LEMMA ReservesInv ==
  ASSUME NEW t \in Threads, NEW c, NEW b, NEW s, Grows(t, c, b, s)',
         c.step \in {"quota", "lock"} \/ (c.step = "commit" /\ Locked(t, c, b)'),
         Holds(t, c, s)', Fresh(b)', c.delta > 0, s = None => c.value \in Elements
  PROVE  ThreadInv(t)'
  <1>1. Owns(t)'
    BY DEF Grows, Owns, Bulk
  <1>2. Locks(t)'
    BY DEF Grows, Holds, Locked, Locks
  <1>3. Progress(t)'
    BY DEF Grows, Holds, Fresh, Progress, Bulk
  <1>4. Wrote(t)'
    BY DEF Grows, Wrote
  <1> QED
    BY <1>1, <1>2, <1>3, <1>4 DEF ThreadInv

LEMMA InitializesInv ==
  ASSUME NEW t \in Threads, NEW c, NEW b, Grows(t, c, b, None)', c.step = "initialize",
         Locked(t, c, b)', Fresh(b)', c.value \in Elements,
         c.old + c.delta <= NumReserved, c.old <= c.index, c.index < c.old + c.delta,
         \A i \in Indices : c.old <= i /\ i < c.index => Accessible(b, i)'
  PROVE  ThreadInv(t)'
  <1>1. Owns(t)'
    BY DEF Grows, Owns, Bulk
  <1>2. Locks(t)'
    BY DEF Grows, Locked, Locks
  <1>3. Progress(t)'
    BY DEF Grows, Fresh, Progress, Bulk
  <1>4. Wrote(t)'
    BY DEF Grows, Wrote
  <1> QED
    BY <1>1, <1>2, <1>3, <1>4 DEF ThreadInv

LEMMA StoresInv ==
  ASSUME NEW t \in Threads, NEW c, NEW b, NEW s, Grows(t, c, b, s)', c.step = "store",
         Locked(t, c, b)', Holds(t, c, s)', Fresh(b)', c.old + c.delta <= NumReserved,
         s = None =>
           \A i \in Indices : c.old <= i /\ i < c.old + c.delta => Accessible(b, i)'
  PROVE  ThreadInv(t)'
  <1>1. Owns(t)'
    BY DEF Grows, Owns, Bulk
  <1>2. Locks(t)'
    BY DEF Grows, Holds, Locked, Locks
  <1>3. Progress(t)'
    BY DEF Grows, Holds, Fresh, Progress, Bulk
  <1>4. Wrote(t)'
    BY DEF Grows, Wrote
  <1> QED
    BY <1>1, <1>2, <1>3, <1>4 DEF ThreadInv

LEMMA CopiesInv ==
  ASSUME NEW t \in Threads, NEW c, NEW b, NEW s, Grows(t, c, b, s)', c.step = "copy", s # None,
         Holds(t, c, s)', c.index <= c.delta, tables'[b].numElements = c.delta,
         \A i \in Indices : i < c.index => Accessible(b, i)'
  PROVE  ThreadInv(t)'
  <1>1. Owns(t)'
    BY DEF Grows, Owns, Bulk
  <1>2. Locks(t)'
    BY DEF Grows, Holds, Locks
  <1>3. Progress(t)'
    BY DEF Grows, Holds, Progress, Bulk
  <1>4. Wrote(t)'
    BY DEF Grows, Wrote
  <1> QED
    BY <1>1, <1>2, <1>3, <1>4 DEF ThreadInv

LEMMA EndsInv ==
  ASSUME NEW t \in Threads, NEW c, NEW b, NEW s, Grows(t, c, b, s)', ~ InMap(b)',
         \/ c.step = "insert" /\ Filled(b)'
         \/ c.step = "delete" /\ (s # None => tables'[s].resizing = t)
  PROVE  ThreadInv(t)'
  <1>1. Owns(t)'
    BY DEF Grows, Owns, Bulk
  <1>2. Locks(t)'
    BY DEF Grows, Locks
  <1>3. Progress(t)'
    BY DEF Grows, Progress, Bulk
  <1>4. Wrote(t)'
    BY DEF Grows, Wrote
  <1> QED
    BY <1>1, <1>2, <1>3, <1>4 DEF ThreadInv

LEMMA GrowingSteps == Growing \subseteq Steps /\ Bulk \subseteq Steps
  BY DEF Steps

LEMMA checkQuotaStep ==
  ASSUME TableAssumption, TableInv, NEW t \in Threads, checkQuota(t)
  PROVE  TableInv'
  <1>1. calls[t].step = "quota" /\ calls[t].step \in Growing /\ TypeInv
    BY DEF checkQuota, At, Growing, TableInv
  <1>2. PICK c \in CallType, b \in Tables, s \in Tables \cup {None} : Grows(t, c, b, s)
    BY <1>1, ThreadGrows
  <1>3. calls[t] = c /\ c.step = "quota" /\ c.table = b
    BY <1>1, <1>2 DEF Grows
  <1>4. tables' \in [Tables -> TableType] /\ \A a \in Tables : Same(a)
    BY <1>1, TablesSame DEF checkQuota
  <1>5. CASE Return(t)
    <2>1. Calls(t, Idle) /\ calls'[t] = Idle
      BY <1>1, <1>5, IdleType, Becoming, ThreadIs, Zenon DEF Return
    <2>2. ThreadInv(t)'
      BY <2>1, IdleThread
    <2> QED
      BY <1>1, <1>4, <2>1, <2>2, IdleType, QuietStep
  <1>6. ASSUME NEW step \in {"lock", "delete"}, Goto(t, step), step = "delete" => Creating(t)
        PROVE  TableInv'
    <2>1. step \in Steps
      BY GrowingSteps DEF Growing
    <2>2. PICK d : Calls(t, d) /\ Moves(c, d, step, c.old, c.index, c.value)
      BY <1>1, <1>3, <1>6, <2>1, Gotos, Zenon
    <2>3. calls'[t] = d
      BY <1>1, <2>2, ThreadIs, Zenon
    <2>4. /\ d.step = step /\ d.table = c.table /\ d.source = c.source /\ d.delta = c.delta
          /\ d.value = c.value
      BY <2>2 DEF Moves
    <2>5. \A a \in Tables : tables'[a].stage = tables[a].stage /\ (Fresh(a) => Fresh(a)')
      BY <1>4 DEF Same, Becomes, Fresh, InMap
    <2>6. Grows(t, d, b, s)'
      BY <1>2, <2>3, <2>4, <2>5, StillGrows
    <2>7. Holds(t, c, s) /\ Fresh(b) /\ c.delta > 0 /\ (s = None => c.value \in Elements)
      BY <1>2, <1>3, GrowFacts DEF Growing
    <2>8. Holds(t, d, s)'
      BY <1>4, <2>4, <2>7, StillHolds
    <2>9. ThreadInv(t)'
      <3>1. CASE step = "lock"
        BY <2>4, <2>5, <2>6, <2>7, <2>8, <3>1, ReservesInv
      <3>2. CASE step = "delete"
        <4>1. ~ InMap(b)'
          BY <1>3, <1>6, <2>5, <3>2 DEF Creating, InMap
        <4>2. s # None => tables'[s].resizing = t
          BY <2>8 DEF Holds
        <4> QED
          BY <2>4, <2>6, <3>2, <4>1, <4>2, EndsInv
      <3> QED
        BY <3>1, <3>2
    <2> QED
      BY <1>1, <1>3, <1>4, <2>2, <2>4, <2>9, QuietStep
  <1>7. Return(t) \/ \E step \in {"lock", "delete"} : Goto(t, step) /\ (step = "delete" => Creating(t))
    BY DEF checkQuota, Fail
  <1> QED
    BY <1>5, <1>6, <1>7

-----------------------------------------------------------------------------
(* Edits of a table                                                        *)

LEMMA ElementsAccessible ==
  ASSUME TableAssumption
  PROVE  Elements \cap Inaccessible = {}
  BY DEF TableAssumption, Elements, Inaccessible

\* One table becomes another record.
LEMMA TableEdit ==
  ASSUME TypeInv, NEW b \in Tables, NEW r \in TableType, tables' = [tables EXCEPT ![b] = r]
  PROVE  /\ tables' \in [Tables -> TableType] /\ tables'[b] = r
         /\ \A a \in Tables \ {b} : Same(a)
  <1>1. tables' \in [Tables -> TableType] /\ tables'[b] = r
    BY DEF TypeInv
  <1>2. \A a \in Tables \ {b} : tables'[a] = tables[a]
    BY DEF TypeInv
  <1> QED
    BY <1>1, <1>2 DEF Same, SameElements, Becomes, Accessible

LEMMA ElementEdit ==
  ASSUME TypeInv, TableAssumption, NEW b \in Tables, NEW i \in Indices, NEW v \in Elements,
         tables' = [tables EXCEPT ![b].elements[i] = v]
  PROVE  /\ tables' \in [Tables -> TableType]
         /\ \A a \in Tables \ {b} : Same(a)
         /\ Becomes(b, tables[b].stage, tables[b].numElements, tables[b].resizing)
         /\ \A j \in Indices : Accessible(b, j)' <=> Accessible(b, j) \/ j = i
  <1> DEFINE r == [tables[b] EXCEPT !.elements[i] = v]
  <1>1. tables' = [tables EXCEPT ![b] = r]
    BY Zenon
  <1>2. PICK x \in TableType : x = tables[b]
    BY DEF TypeInv
  <1>3. /\ r \in TableType /\ r.stage = x.stage /\ r.numElements = x.numElements
        /\ r.resizing = x.resizing /\ r.elements = [x.elements EXCEPT ![i] = v]
    BY <1>2 DEF TableType
  <1> HIDE DEF r
  <1>4. /\ tables' \in [Tables -> TableType] /\ tables'[b] = r
        /\ \A a \in Tables \ {b} : Same(a)
    BY <1>1, <1>3, TableEdit, Zenon
  <1>5. ASSUME NEW j \in Indices
        PROVE  Accessible(b, j)' <=> Accessible(b, j) \/ j = i
    <2>1. x.elements \in [Indices -> Elements \cup Inaccessible]
      BY DEF TableType
    <2>2. r.elements[j] = IF j = i THEN v ELSE x.elements[j]
      BY <1>3, <2>1
    <2>3. v \notin Inaccessible
      BY ElementsAccessible
    <2> QED
      BY <1>2, <1>4, <2>2, <2>3, Zenon DEF Accessible
  <1> QED
    BY <1>2, <1>3, <1>4, <1>5 DEF Becomes

-----------------------------------------------------------------------------
(* growTableImpl                                                           *)

\* A step of t that changes the table it grows.
LEMMA GrowingStep ==
  ASSUME TableInv, NEW t \in Threads, NEW d, Calls(t, d), tables' \in [Tables -> TableType],
         NEW b \in Tables, calls[t].table = b, d.table \in {None, b},
         \A a \in Tables \ {b} : Same(a),
         tables'[b].stage = tables[b].stage,
         \A u \in Threads \ {t} : b \in {calls[u].table, calls[u].source} => Undisturbed(u, b),
         ThreadInv(t)', OfTable(b)'
  PROVE  TableInv'
  <1>1. TypeInv'
    BY DEF TableInv, TypeInv, Calls
  <1>2. ASSUME NEW u \in Threads, u # t
        PROVE  ThreadInv(u)'
    <2>1. calls'[u] = calls[u]
      BY <1>2 DEF TableInv, TypeInv, Calls
    <2>2. \A a \in Tables \ {b} : Undisturbed(u, a)
      BY SameUndisturbed DEF TableInv
    <2> QED
      BY <1>2, <2>1, <2>2, ThreadFrame
  <1>3. Unshared'
    <2>1. \A u \in Threads : calls'[u] = IF u = t THEN d ELSE calls[u]
      BY DEF TableInv, TypeInv, Calls
    <2>2. \A u \in Threads : calls[u].table \in Tables \cup {None}
      BY DEF TableInv, TypeInv, CallType
    <2>3. \A a \in Tables : tables'[a].stage = tables[a].stage
      BY DEF Same, Becomes
    <2>4. Unshared
      BY DEF TableInv
    <2> QED
      BY <2>1, <2>2, <2>3, <2>4 DEF Unshared, InMap
  <1>4. \A a \in Tables \ {b} : OfTable(a)'
    BY TableFrame
  <1> QED
    BY <1>1, <1>2, <1>3, <1>4 DEF TableInv

\* Table b gets another owner and size.
LEMMA OwnerEdits ==
  ASSUME TypeInv, NEW b \in Tables, NEW n \in Nat, NEW t \in Threads \cup {None},
         \/ tables' = [tables EXCEPT ![b].resizing = t] /\ n = tables[b].numElements
         \/ tables' = [tables EXCEPT ![b].numElements = n, ![b].resizing = t]
  PROVE  /\ tables' \in [Tables -> TableType]
         /\ \A a \in Tables \ {b} : Same(a)
         /\ Becomes(b, tables[b].stage, n, t) /\ SameElements(b)
  <1>0. PICK x \in TableType : x = tables[b]
    BY DEF TypeInv
  <1>1. CASE tables' = [tables EXCEPT ![b].resizing = t] /\ n = tables[b].numElements
    <2> DEFINE r == [tables[b] EXCEPT !.resizing = t]
    <2>1. tables' = [tables EXCEPT ![b] = r]
      BY <1>1, Zenon
    <2>2. /\ r \in TableType /\ r.stage = x.stage /\ r.numElements = n
          /\ r.resizing = t /\ r.elements = x.elements
      BY <1>0, <1>1 DEF TableType
    <2> HIDE DEF r
    <2>3. /\ tables' \in [Tables -> TableType] /\ tables'[b] = r
          /\ \A a \in Tables \ {b} : Same(a)
      BY <2>1, <2>2, TableEdit, Zenon
    <2> QED
      BY <1>0, <2>2, <2>3 DEF SameElements, Becomes, Accessible
  <1>2. CASE tables' = [tables EXCEPT ![b].numElements = n, ![b].resizing = t]
    <2> DEFINE r == [tables[b] EXCEPT !.numElements = n, !.resizing = t]
    <2>1. tables' = [tables EXCEPT ![b] = r]
      BY <1>2, Zenon DEF TypeInv
    <2>2. /\ r \in TableType /\ r.stage = x.stage /\ r.numElements = n
          /\ r.resizing = t /\ r.elements = x.elements
      BY <1>0, Zenon DEF TableType
    <2> HIDE DEF r
    <2>3. /\ tables' \in [Tables -> TableType] /\ tables'[b] = r
          /\ \A a \in Tables \ {b} : Same(a)
      BY <2>1, <2>2, TableEdit, Zenon
    <2> QED
      BY <1>0, <2>2, <2>3 DEF SameElements, Becomes, Accessible
  <1> QED
    BY <1>1, <1>2

LEMMA OwnerFrame ==
  ASSUME TableInv, NEW t \in Threads, calls[t].step \in {"lock", "commit"}, NEW d, Calls(t, d),
         NEW b \in Tables, NEW owner, SameElements(b),
         Becomes(b, tables[b].stage, tables[b].numElements, owner)
  PROVE  OfTable(b)'
  <1>1. OfTable(b)
    BY DEF TableInv
  <1>2. \A u \in Threads \ {t} : calls'[u] = calls[u]
    BY DEF TableInv, TypeInv, Calls
  <1>3. \A u \in Threads, i \in Indices : Adding(u, b, i) => Adding(u, b, i)'
    BY <1>2 DEF Adding
  <1> QED
    BY <1>1, <1>3 DEF SameElements, Becomes, OfTable, Filled, InMap

LEMMA lockResizingStep ==
  ASSUME TableAssumption, TableInv, NEW t \in Threads, lockResizing(t)
  PROVE  TableInv'
  <1>1. TypeInv /\ calls[t].step = "lock" /\ calls[t].step \in Growing
    BY DEF lockResizing, At, Growing, TableInv
  <1>2. PICK c \in CallType, b \in Tables, s \in Tables \cup {None} : Grows(t, c, b, s)
    BY <1>1, ThreadGrows
  <1>3. calls[t] = c /\ c.step = "lock" /\ c.table = b
    BY <1>1, <1>2 DEF Grows
  <1>4. PICK n \in Nat : n = tables[b].numElements
    BY <1>1 DEF TypeInv, TableType
  <1> DEFINE d == [c EXCEPT !.step = "commit", !.old = n]
  <1>5. /\ tables' = [tables EXCEPT ![b].resizing = t] /\ Become(t, d)
        /\ tables[b].resizing = None /\ t # None
    BY <1>3, <1>4 DEF lockResizing, CanLock, TableAssumption
  <1>6. Moves(c, d, "commit", n, c.index, c.value)
    <2>1. "commit" \in Steps
      BY DEF Steps, Growing
    <2> QED
      BY <2>1, CallEdits, Zenon
  <1> HIDE DEF d
  <1>7. Calls(t, d) /\ calls'[t] = d
    BY <1>1, <1>5, <1>6, Becoming, ThreadIs, Zenon DEF Moves
  <1>8. /\ tables' \in [Tables -> TableType]
        /\ \A a \in Tables \ {b} : Same(a)
        /\ Becomes(b, tables[b].stage, n, t) /\ SameElements(b)
    BY <1>1, <1>4, <1>5, OwnerEdits, Zenon
  <1>9. \A u \in Threads \ {t} : Undisturbed(u, b)
    BY <1>4, <1>5, <1>8 DEF Undisturbed, Becomes, SameElements, TableAssumption
  <1>10. /\ d.step = "commit" /\ d.table = b /\ d.table = c.table /\ d.source = c.source
         /\ d.delta = c.delta /\ d.value = c.value /\ d.old = n
    BY <1>3, <1>6 DEF Moves
  <1>11. ThreadInv(t)'
    <2>1. Grows(t, d, b, s)'
      BY <1>2, <1>7, <1>8, <1>10, StillGrows DEF Same, Becomes
    <2>2. Holds(t, c, s) /\ Fresh(b) /\ c.delta > 0 /\ (s = None => c.value \in Elements)
      BY <1>2, <1>3, GrowFacts DEF Growing
    <2>3. Holds(t, d, s)'
      BY <1>2, <1>8, <1>10, <2>2, StillHolds DEF Grows
    <2>4. Fresh(b)' /\ Locked(t, d, b)'
      BY <1>4, <1>8, <1>10, <2>2, Zenon DEF Becomes, Fresh, Locked, InMap
    <2> QED
      BY <1>10, <2>1, <2>2, <2>3, <2>4, ReservesInv
  <1>12. OfTable(b)'
    BY <1>1, <1>3, <1>4, <1>7, <1>8, OwnerFrame
  <1> QED
    BY <1>3, <1>7, <1>8, <1>9, <1>10, <1>11, <1>12, GrowingStep DEF Becomes

\* Nobody else relies on a table that t has locked and is growing.
LEMMA LockedUndisturbed ==
  ASSUME TableInv, TableAssumption, NEW t \in Threads, NEW b \in Tables, b = calls[t].table,
         tables[b].resizing = t,
         tables'[b].stage = tables[b].stage, tables'[b].numElements >= tables[b].numElements
  PROVE  \A u \in Threads \ {t} : b \in {calls[u].table, calls[u].source} => Undisturbed(u, b)
  <1> SUFFICES ASSUME NEW u \in Threads \ {t}, b \in {calls[u].table, calls[u].source}
               PROVE  Undisturbed(u, b)
    OBVIOUS
  <1>1. b # None /\ Owns(u) /\ Unshared
    BY DEF TableAssumption, TableInv, ThreadInv
  <1>2. InMap(b)
    BY <1>1 DEF Owns, Unshared
  <1> QED
    BY <1>2 DEF Undisturbed

\* Nobody else adds elements to it.
LEMMA LockedAdding ==
  ASSUME TableInv, NEW t \in Threads, NEW b \in Tables, tables[b].resizing = t,
         NEW i \in Indices, Accessible(b, i)
  PROVE  i < tables[b].numElements \/ Adding(t, b, i)
  <1>1. OfTable(b) /\ \A u \in Threads : Locks(u)
    BY DEF TableInv, ThreadInv
  <1>2. i < tables[b].numElements \/ \E u \in Threads : Adding(u, b, i)
    BY <1>1 DEF OfTable
  <1>3. \A u \in Threads : Adding(u, b, i) => u = t
    BY <1>1 DEF Locks, Adding
  <1> QED
    BY <1>2, <1>3

LEMMA CommitEdit ==
  ASSUME TypeInv, NEW b \in Tables, NEW new \in SUBSET Indices,
         tables' = [tables EXCEPT ![b].elements =
                      [i \in Indices |-> IF i \in new THEN "outOfBounds" ELSE @[i]]]
  PROVE  /\ tables' \in [Tables -> TableType]
         /\ \A a \in Tables \ {b} : Same(a)
         /\ Becomes(b, tables[b].stage, tables[b].numElements, tables[b].resizing)
         /\ \A i \in Indices : Accessible(b, i)' <=> Accessible(b, i) /\ i \notin new
  <1> DEFINE r == [tables[b] EXCEPT !.elements =
                     [i \in Indices |-> IF i \in new THEN "outOfBounds" ELSE @[i]]]
  <1>1. tables' = [tables EXCEPT ![b] = r]
    BY Zenon
  <1>2. PICK x \in TableType : x = tables[b]
    BY DEF TypeInv
  <1>3. x.elements \in [Indices -> Elements \cup Inaccessible]
    BY DEF TableType
  <1>4. /\ r.stage = x.stage /\ r.numElements = x.numElements /\ r.resizing = x.resizing
        /\ r.elements = [i \in Indices |-> IF i \in new THEN "outOfBounds" ELSE x.elements[i]]
    BY <1>2 DEF TableType
  <1>5. r \in TableType
    <2>1. [i \in Indices |-> IF i \in new THEN "outOfBounds" ELSE x.elements[i]]
            \in [Indices -> Elements \cup Inaccessible]
      BY <1>3 DEF Inaccessible
    <2> QED
      BY <1>2, <2>1 DEF TableType
  <1> HIDE DEF r
  <1>6. /\ tables' \in [Tables -> TableType] /\ tables'[b] = r
        /\ \A a \in Tables \ {b} : Same(a)
    BY <1>1, <1>5, TableEdit, Zenon
  <1>7. \A i \in Indices : Accessible(b, i)' <=> Accessible(b, i) /\ i \notin new
    BY <1>2, <1>4, <1>6 DEF Accessible, Inaccessible
  <1> QED
    BY <1>2, <1>4, <1>6, <1>7 DEF Becomes

LEMMA commitPagesFails ==
  ASSUME TableAssumption, TableInv, NEW t \in Threads, At(t, "commit"), Fail(t),
         tables' = [tables EXCEPT ![calls[t].table].resizing = None]
  PROVE  TableInv'
  <1>1. TypeInv /\ calls[t].step = "commit" /\ calls[t].step \in Growing
    BY DEF At, Growing, TableInv
  <1>2. PICK c \in CallType, b \in Tables, s \in Tables \cup {None} : Grows(t, c, b, s)
    BY <1>1, ThreadGrows
  <1>3. calls[t] = c /\ c.step = "commit" /\ c.table = b
    BY <1>1, <1>2 DEF Grows
  <1>4. PICK n \in Nat : n = tables[b].numElements
    BY <1>1 DEF TypeInv, TableType
  <1>5. /\ tables' \in [Tables -> TableType]
        /\ \A a \in Tables \ {b} : Same(a)
        /\ Becomes(b, tables[b].stage, n, None) /\ SameElements(b)
    <2>1. tables' = [tables EXCEPT ![b].resizing = None] /\ None \in Threads \cup {None}
      BY <1>3
    <2> QED
      BY <1>1, <1>4, <2>1, OwnerEdits, Zenon
  <1>6. Holds(t, c, s) /\ Locked(t, c, b)
    BY <1>2, <1>3, GrowFacts DEF Growing
  <1>7. \A u \in Threads \ {t} : b \in {calls[u].table, calls[u].source} => Undisturbed(u, b)
    BY <1>3, <1>4, <1>5, <1>6, LockedUndisturbed DEF Becomes, Locked
  <1>8. CASE Return(t)
    <2>1. Calls(t, Idle) /\ calls'[t] = Idle
      BY <1>1, <1>8, IdleType, Becoming, ThreadIs, Zenon DEF Return
    <2>2. ThreadInv(t)'
      BY <2>1, IdleThread
    <2>3. OfTable(b)'
      BY <1>1, <1>3, <1>4, <1>5, <2>1, OwnerFrame, Zenon
    <2> QED
      BY <1>3, <1>5, <1>7, <2>1, <2>2, <2>3, IdleType, GrowingStep DEF Becomes
  <1>9. CASE Creating(t) /\ Goto(t, "delete")
    <2>1. "delete" \in Steps
      BY DEF Steps, Growing
    <2>2. PICK d : Calls(t, d) /\ Moves(c, d, "delete", c.old, c.index, c.value)
      BY <1>1, <1>3, <1>9, <2>1, Gotos, Zenon
    <2>3. calls'[t] = d
      BY <1>1, <2>2, ThreadIs, Zenon
    <2>4. /\ d.step = "delete" /\ d.table = b /\ d.table = c.table /\ d.source = c.source
          /\ d.delta = c.delta
      BY <1>3, <2>2 DEF Moves
    <2>5. Grows(t, d, b, s)'
      BY <1>2, <1>5, <2>3, <2>4, StillGrows DEF Same, Becomes
    <2>6. ~ InMap(b)'
      BY <1>3, <1>5, <1>9 DEF Creating, Becomes, InMap
    <2>7. Holds(t, d, s)'
      BY <1>2, <1>5, <1>6, <2>4, StillHolds DEF Grows
    <2>8. ThreadInv(t)'
      BY <2>4, <2>5, <2>6, <2>7, EndsInv DEF Holds
    <2>9. OfTable(b)'
      BY <1>1, <1>3, <1>4, <1>5, <2>2, OwnerFrame, Zenon
    <2> QED
      BY <1>3, <1>5, <1>7, <2>2, <2>4, <2>8, <2>9, GrowingStep DEF Becomes
  <1> QED
    BY <1>8, <1>9 DEF Fail

LEMMA commitPagesStep ==
  ASSUME TableAssumption, TableInv, NEW t \in Threads, NEW commitFails \in BOOLEAN,
         commitPages(t, commitFails)
  PROVE  TableInv'
  <1>1. TypeInv /\ calls[t].step = "commit" /\ calls[t].step \in Growing
    BY DEF commitPages, At, Growing, TableInv
  <1>2. PICK c \in CallType, b \in Tables, s \in Tables \cup {None} : Grows(t, c, b, s)
    BY <1>1, ThreadGrows
  <1>3. calls[t] = c /\ c.step = "commit" /\ c.table = b /\ c.source = s
    BY <1>1, <1>2 DEF Grows
  <1>4. c.old \in Nat /\ c.delta \in Nat
    BY DEF CallType
  <1>5. /\ Holds(t, c, s) /\ Locked(t, c, b) /\ Fresh(b) /\ c.delta > 0
        /\ s = None => c.value \in Elements
    BY <1>2, <1>3, GrowFacts DEF Growing
  <1> DEFINE new == Committed(c.old + c.delta) \ Committed(c.old)
             step == IF s = None THEN "initialize" ELSE "store"
             d == [c EXCEPT !.step = step, !.index = c.old]
  <1>6. CASE Fail(t) /\ tables' = [tables EXCEPT ![calls[t].table].resizing = None]
    BY <1>6, commitPagesFails, Zenon DEF commitPages
  <1>7. CASE /\ ~ Exceeds(c.old, c.delta) /\ Become(t, d)
             /\ tables' = [tables EXCEPT ![b].elements =
                             [i \in Indices |-> IF i \in new THEN "outOfBounds" ELSE @[i]]]
    <2>1. \A i \in Indices : i < c.old => i \notin new
      BY <1>4, CommittedCovers
    <2>2. c.old + c.delta <= NumReserved
      <3>1. c.old + c.delta <= TypeMax /\ c.old + c.delta <= MaxTableElems
        BY <1>4, <1>7 DEF Exceeds, TableAssumption
      <3> QED
        BY <1>4, <3>1, NumReservedBounds
    <2>3. Moves(c, d, step, c.old, c.old, c.value)
      <3>1. step \in Steps
        BY DEF Steps, Growing
      <3> QED
        BY <1>4, <3>1, CallEdits, Zenon
    <2>4. new \in SUBSET Indices
      BY DEF Committed
    <2>5. Become(t, d) /\ tables' = [tables EXCEPT ![b].elements =
                             [i \in Indices |-> IF i \in new THEN "outOfBounds" ELSE @[i]]]
      BY <1>7
    <2> HIDE DEF new, d
    <2>6. /\ tables' \in [Tables -> TableType]
          /\ \A a \in Tables \ {b} : Same(a)
          /\ Becomes(b, tables[b].stage, tables[b].numElements, tables[b].resizing)
          /\ \A i \in Indices : Accessible(b, i)' <=> Accessible(b, i) /\ i \notin new
      BY <1>1, <2>4, <2>5, CommitEdit, Zenon
    <2>7. Calls(t, d) /\ calls'[t] = d
      BY <1>1, <2>3, <2>5, Becoming, ThreadIs, Zenon DEF Moves
    <2>8. \A u \in Threads \ {t} : b \in {calls[u].table, calls[u].source} => Undisturbed(u, b)
      BY <1>3, <1>4, <1>5, <2>6, LockedUndisturbed DEF Becomes, Locked
    <2>9. /\ d.step = step /\ d.table = b /\ d.table = c.table /\ d.source = c.source
          /\ d.delta = c.delta /\ d.value = c.value /\ d.old = c.old /\ d.index = c.old
      BY <1>3, <2>3 DEF Moves
    <2>10. ThreadInv(t)'
      <3>1. Grows(t, d, b, s)'
        BY <1>2, <2>6, <2>7, <2>9, StillGrows DEF Same, Becomes
      <3>2. Fresh(b)' /\ Locked(t, d, b)'
        BY <1>5, <2>6, <2>9, Zenon DEF Becomes, Fresh, Locked, InMap
      <3>3. Holds(t, d, s)'
        BY <1>2, <1>5, <2>6, <2>9, StillHolds DEF Grows
      <3>4. CASE s = None
        <4>1. d.index < d.old + d.delta /\ d.old <= d.index /\ d.old + d.delta <= NumReserved
          BY <1>4, <1>5, <2>2, <2>9
        <4>2. \A i \in Indices : ~ (d.old <= i /\ i < d.index)
          BY <1>4, <2>9, NumReservedBounds
        <4> QED
          BY <1>5, <2>9, <3>1, <3>2, <3>4, <4>1, <4>2, InitializesInv
      <3>5. CASE s # None
        BY <2>2, <2>9, <3>1, <3>2, <3>3, <3>5, StoresInv
      <3> QED
        BY <3>4, <3>5
    <2>11. OfTable(b)'
      <3>1. OfTable(b)
        BY DEF TableInv
      <3>2. \A i \in Indices : Accessible(b, i) => i < tables[b].numElements
        BY <1>3, <1>5, LockedAdding DEF Adding, Locked
      <3>3. \A i \in Indices : i < tables[b].numElements => i \notin new
        BY <1>5, <2>1 DEF Locked
      <3> QED
        BY <2>6, <3>1, <3>2, <3>3 DEF Becomes, OfTable, Filled, InMap
    <2> QED
      BY <1>3, <2>6, <2>7, <2>8, <2>9, <2>10, <2>11, GrowingStep DEF Becomes
  <1> QED
    BY <1>3, <1>6, <1>7 DEF commitPages, AfterCommit

LEMMA initElementStep ==
  ASSUME TableAssumption, TableInv, NEW t \in Threads, initElement(t)
  PROVE  TableInv'
  <1>1. TypeInv /\ calls[t].step = "initialize" /\ calls[t].step \in Growing
    BY DEF initElement, At, Growing, TableInv
  <1>2. PICK c \in CallType, b \in Tables, s \in Tables \cup {None} : Grows(t, c, b, s)
    BY <1>1, ThreadGrows
  <1>3. /\ calls[t] = c /\ c.step = "initialize" /\ c.table = b /\ c.source = s
        /\ Owns(t) /\ Progress(t) /\ Wrote(t)
    BY <1>1, <1>2 DEF Grows, TableInv, ThreadInv
  <1>4. c.old \in Nat /\ c.delta \in Nat /\ c.index \in Nat /\ c.index + 1 \in Nat
    BY DEF CallType
  <1>5. s = None /\ Locked(t, c, b) /\ Fresh(b) /\ c.value \in Elements
    <2>1. s = None
      BY <1>3 DEF Owns
    <2> QED
      BY <1>2, <1>3, <2>1, GrowFacts
  <1>6. c.old <= c.index /\ c.index < c.old + c.delta /\ c.old + c.delta <= NumReserved
    BY <1>3 DEF Progress
  <1>7. PICK n \in Indices : n = c.index
    BY <1>4, <1>6, NumReservedBounds
  <1>8. PICK v \in Elements : v = c.value
    BY <1>5
  <1> DEFINE step == IF c.index + 1 = c.old + c.delta THEN "store" ELSE "initialize"
             d == [c EXCEPT !.index = c.index + 1, !.step = step]
  <1>9. Become(t, d) /\ tables' = [tables EXCEPT ![b].elements[n] = v]
    BY <1>3, <1>7, <1>8 DEF initElement
  <1>10. Moves(c, d, step, c.old, c.index + 1, c.value)
    <2>1. step \in Steps
      BY DEF Steps, Growing
    <2> QED
      BY <1>4, <2>1, CallEdits, Zenon
  <1> HIDE DEF d
  <1>11. Calls(t, d) /\ calls'[t] = d
    BY <1>1, <1>9, <1>10, Becoming, ThreadIs, Zenon DEF Moves
  <1>12. /\ tables' \in [Tables -> TableType]
         /\ \A a \in Tables \ {b} : Same(a)
         /\ Becomes(b, tables[b].stage, tables[b].numElements, tables[b].resizing)
         /\ \A i \in Indices : Accessible(b, i)' <=> Accessible(b, i) \/ i = n
    BY <1>1, <1>9, ElementEdit, Zenon
  <1>13. \A u \in Threads \ {t} : b \in {calls[u].table, calls[u].source} => Undisturbed(u, b)
    <2>1. tables[b].resizing = t /\ tables'[b].stage = tables[b].stage /\ b = calls[t].table
      BY <1>3, <1>5, <1>12 DEF Becomes, Locked
    <2>2. tables'[b].numElements >= tables[b].numElements
      BY <1>4, <1>5, <1>12 DEF Becomes, Locked
    <2> QED
      BY <2>1, <2>2, LockedUndisturbed, Zenon
  <1>14. /\ d.step = step /\ d.table = b /\ d.table = c.table /\ d.source = c.source
         /\ d.delta = c.delta /\ d.value = c.value /\ d.old = c.old /\ d.index = c.index + 1
    BY <1>3, <1>10 DEF Moves
  <1>15. ASSUME NEW i \in Indices
         PROVE  i \in Nat /\ (i < c.index + 1 <=> i < c.index \/ i = n)
    BY <1>4, <1>7, NumReservedBounds
  <1>16. ThreadInv(t)'
    <2>1. Grows(t, d, b, None)'
      BY <1>2, <1>5, <1>11, <1>12, <1>14, StillGrows DEF Becomes
    <2>2. Fresh(b)' /\ Locked(t, d, b)'
      BY <1>5, <1>12, <1>14, Zenon DEF Becomes, Fresh, Locked, InMap
    <2>3. \A i \in Indices : c.old <= i /\ i < c.index => Accessible(b, i)
      BY <1>3 DEF Wrote
    <2>4. \A i \in Indices : d.old <= i /\ i < d.index => Accessible(b, i)'
      BY <1>12, <1>14, <1>15, <2>3
    <2>5. CASE step = "initialize"
      <3>1. d.old <= d.index /\ d.index < d.old + d.delta /\ d.old + d.delta <= NumReserved
        BY <1>4, <1>6, <1>14, <2>5
      <3> QED
        BY <1>5, <1>14, <2>1, <2>2, <2>4, <2>5, <3>1, InitializesInv
    <2>6. CASE step = "store"
      <3>1. d.index = d.old + d.delta /\ d.old + d.delta <= NumReserved
        BY <1>6, <1>14, <2>6
      <3>2. Holds(t, d, None)'
        BY DEF Holds
      <3> QED
        BY <1>14, <2>1, <2>2, <2>4, <2>6, <3>1, <3>2, StoresInv
    <2> QED
      BY <2>5, <2>6
  <1>17. OfTable(b)'
    <2>1. OfTable(b)
      BY DEF TableInv
    <2>2. ASSUME NEW i \in Indices, Accessible(b, i)'
          PROVE  i < tables'[b].numElements \/ Adding(t, b, i)'
      <3>1. i < tables[b].numElements \/ Adding(t, b, i) \/ i = n
        BY <1>5, <1>12, <2>2, LockedAdding DEF Locked
      <3>2. Adding(t, b, i) => i < c.index
        BY <1>3 DEF Adding
      <3>3. d.step = "initialize" \/ (d.step = "store" /\ d.index = d.old + d.delta)
        BY <1>14
      <3>4. Adding(t, b, i)' <=> i < d.index
        BY <1>11, <1>14, <3>3 DEF Adding
      <3> QED
        BY <1>12, <1>14, <1>15, <3>1, <3>2, <3>4 DEF Becomes
    <2> QED
      BY <1>12, <2>1, <2>2 DEF Becomes, OfTable, Filled, InMap
  <1> QED
    BY <1>3, <1>11, <1>12, <1>13, <1>14, <1>16, <1>17, GrowingStep DEF Becomes

LEMMA storeSizeStep ==
  ASSUME TableAssumption, TableInv, NEW t \in Threads, storeSize(t)
  PROVE  TableInv'
  <1>1. TypeInv /\ calls[t].step = "store" /\ calls[t].step \in Growing
    BY DEF storeSize, At, Growing, TableInv
  <1>2. PICK c \in CallType, b \in Tables, s \in Tables \cup {None} : Grows(t, c, b, s)
    BY <1>1, ThreadGrows
  <1>3. /\ calls[t] = c /\ c.step = "store" /\ c.table = b /\ c.source = s
        /\ s # None => ~ InMap(b)
        /\ Progress(t) /\ Wrote(t)
    BY <1>1, <1>2 DEF Grows, TableInv, ThreadInv
  <1>4. c.old \in Nat /\ c.delta \in Nat
    BY DEF CallType
  <1>5. Holds(t, c, s) /\ Locked(t, c, b) /\ Fresh(b)
    BY <1>2, <1>3, GrowFacts DEF Growing
  <1>6. PICK n \in Nat : n = c.old + c.delta
    BY <1>4
  <1>7. n <= NumReserved
    BY <1>3, <1>6 DEF Progress
  <1>8. /\ tables' \in [Tables -> TableType]
        /\ \A a \in Tables \ {b} : Same(a)
        /\ Becomes(b, tables[b].stage, n, None) /\ SameElements(b)
    <2>1. /\ tables' = [tables EXCEPT ![b].numElements = n, ![b].resizing = None]
          /\ None \in Threads \cup {None}
      BY <1>3, <1>6 DEF storeSize
    <2> QED
      BY <1>1, <2>1, OwnerEdits, Zenon
  <1>9. \A u \in Threads \ {t} : b \in {calls[u].table, calls[u].source} => Undisturbed(u, b)
    <2>1. tables[b].resizing = t /\ tables'[b].stage = tables[b].stage /\ b = calls[t].table
      BY <1>3, <1>5, <1>8 DEF Becomes, Locked
    <2>2. tables'[b].numElements = n /\ c.old = tables[b].numElements
      BY <1>5, <1>8 DEF Becomes, Locked
    <2>3. tables'[b].numElements >= tables[b].numElements
      BY <1>4, <1>6, <2>2
    <2> QED
      BY <2>1, <2>3, LockedUndisturbed, Zenon
  <1>10. s = None => \A i \in Indices : i < n => Accessible(b, i)
    <2>1. InMap(b) => \A i \in Indices : i < c.old => Accessible(b, i)
      BY <1>5 DEF TableInv, OfTable, Filled, Locked
    <2>2. ~ InMap(b) => c.old = 0
      BY <1>5 DEF Fresh, Locked
    <2>3. s = None => \A i \in Indices : c.old <= i /\ i < n => Accessible(b, i)
      BY <1>3, <1>6 DEF Wrote
    <2> QED
      BY <1>4, <2>1, <2>2, <2>3, NumReservedBounds
  <1>11. OfTable(b)'
    <2>1. ASSUME NEW i \in Indices, Accessible(b, i)
          PROVE  i < n
      <3>1. i < tables[b].numElements \/ Adding(t, b, i)
        BY <1>5, <2>1, LockedAdding DEF Locked
      <3>2. i < c.old \/ i < c.old + c.delta
        BY <1>3, <1>5, <3>1 DEF Adding, Locked
      <3> QED
        BY <1>4, <1>6, <3>2, NumReservedBounds
    <2>2. tables[b].stage # "none"
      BY <1>2 DEF Grows
    <2> QED
      BY <1>3, <1>7, <1>8, <1>10, <2>1, <2>2 DEF Becomes, SameElements, OfTable, Filled, InMap
  <1>12. CASE Return(t)
    <2>1. Calls(t, Idle) /\ calls'[t] = Idle
      BY <1>1, <1>12, IdleType, Becoming, ThreadIs, Zenon DEF Return
    <2>2. ThreadInv(t)'
      BY <2>1, IdleThread
    <2> QED
      BY <1>3, <1>8, <1>9, <1>11, <2>1, <2>2, IdleType, GrowingStep DEF Becomes
  <1> DEFINE step == IF s = None THEN "insert" ELSE "copy"
             d == [c EXCEPT !.step = step, !.index = 0]
  <1>13. CASE Creating(t) /\ Become(t, d)
    <2>1. Moves(c, d, step, c.old, 0, c.value) /\ Become(t, d)
      <3>1. step \in Steps /\ 0 \in Nat
        BY DEF Steps, Growing
      <3> QED
        BY <1>13, <3>1, CallEdits, Zenon
    <2> HIDE DEF d
    <2>2. Calls(t, d) /\ calls'[t] = d
      BY <1>1, <2>1, Becoming, ThreadIs, Zenon DEF Moves
    <2>3. /\ d.step = step /\ d.table = b /\ d.table = c.table /\ d.source = c.source
          /\ d.delta = c.delta /\ d.index = 0
      BY <1>3, <2>1 DEF Moves
    <2>4. ~ InMap(b) /\ ~ InMap(b)' /\ n = c.delta
      <3>1. ~ InMap(b) /\ ~ InMap(b)'
        BY <1>3, <1>8, <1>13 DEF Creating, Becomes, InMap
      <3> QED
        BY <1>4, <1>5, <1>6, <3>1 DEF Fresh, Locked
    <2>5. Grows(t, d, b, s)'
      BY <1>2, <1>8, <2>2, <2>3, StillGrows DEF Same, Becomes
    <2>6. ThreadInv(t)'
      <3>1. CASE s = None
        <4>1. Filled(b)'
          BY <1>8, <1>10, <3>1 DEF Filled, SameElements, Becomes
        <4> QED
          BY <2>3, <2>4, <2>5, <3>1, <4>1, EndsInv
      <3>2. CASE s # None
        <4>1. Holds(t, d, s)'
          BY <1>2, <1>5, <1>8, <2>3, StillHolds DEF Grows
        <4>2. d.index <= d.delta /\ tables'[b].numElements = d.delta
          BY <1>4, <1>8, <2>3, <2>4 DEF Becomes
        <4>3. \A i \in Indices : ~ (i < d.index)
          BY <2>3, NumReservedBounds
        <4> QED
          BY <2>3, <2>5, <3>2, <4>1, <4>2, <4>3, CopiesInv
      <3> QED
        BY <3>1, <3>2
    <2> QED
      BY <1>3, <1>8, <1>9, <1>11, <2>2, <2>3, <2>6, GrowingStep DEF Becomes
  <1> QED
    BY <1>3, <1>12, <1>13 DEF storeSize
=============================================================================
