-------------------------- MODULE TableGrowProofs --------------------------
(***************************************************************************)
(* Proofs about TableGrow, for any number of threads and tables, any       *)
(* limits, page size and width of Uptr: the operations other than          *)
(* growTableImpl keep TableInv, and what follows from it.                  *)
(***************************************************************************)
EXTENDS TableInvariant

-----------------------------------------------------------------------------
(* The calls that begin without changing a table                           *)

\* The call is on table b with source s and the rest as given.
Begins(d, step, b, s, n, offset, from, v) ==
  /\ d \in CallType /\ d.step = step /\ d.table = b /\ d.source = s /\ d.delta = n
  /\ d.offset = offset /\ d.from = from /\ d.value = v /\ d.index = 0 /\ d.old = 0

LEMMA NewCalls ==
  ASSUME NEW b \in Tables, NEW n \in Nat, NEW offset \in Nat, NEW from \in Nat, NEW step \in Steps
  PROVE  /\ \A v \in Elements :
              /\ Begins([Idle EXCEPT !.step = step, !.table = b, !.delta = n, !.value = v],
                        step, b, None, n, 0, 0, v)
              /\ Begins([Idle EXCEPT !.step = step, !.table = b, !.offset = offset, !.delta = n,
                                     !.value = v],
                        step, b, None, n, offset, 0, v)
         /\ \A s \in Tables :
              /\ Begins([Idle EXCEPT !.step = step, !.table = b, !.offset = offset, !.delta = n,
                                     !.source = s, !.from = from],
                        step, b, s, n, offset, from, None)
              /\ Begins([Idle EXCEPT !.step = step, !.table = b, !.delta = n, !.source = s],
                        step, b, s, n, 0, 0, None)
         /\ Begins([Idle EXCEPT !.step = step, !.table = b, !.offset = offset, !.delta = n,
                                !.from = from],
                   step, b, None, n, offset, from, None)
  <1>1. ASSUME NEW v \in Elements
        PROVE  Begins([Idle EXCEPT !.step = step, !.table = b, !.delta = n, !.value = v],
                      step, b, None, n, 0, 0, v)
    BY Zenon DEF Idle, CallType, Begins
  <1>2. ASSUME NEW v \in Elements
        PROVE  Begins([Idle EXCEPT !.step = step, !.table = b, !.offset = offset, !.delta = n,
                                   !.value = v],
                      step, b, None, n, offset, 0, v)
    BY Zenon DEF Idle, CallType, Begins
  <1>3. ASSUME NEW s \in Tables
        PROVE  Begins([Idle EXCEPT !.step = step, !.table = b, !.offset = offset, !.delta = n,
                                   !.source = s, !.from = from],
                      step, b, s, n, offset, from, None)
    BY Zenon DEF Idle, CallType, Begins
  <1>4. ASSUME NEW s \in Tables
        PROVE  Begins([Idle EXCEPT !.step = step, !.table = b, !.delta = n, !.source = s],
                      step, b, s, n, 0, 0, None)
    BY Zenon DEF Idle, CallType, Begins
  <1>5. Begins([Idle EXCEPT !.step = step, !.table = b, !.offset = offset, !.delta = n,
                            !.from = from],
               step, b, None, n, offset, from, None)
    BY Zenon DEF Idle, CallType, Begins
  <1> QED
    BY <1>1, <1>2, <1>3, <1>4, <1>5, Zenon

\* InBounds does not wrap around.
LEMMA InBoundsSum ==
  ASSUME TableAssumption, NEW offset \in Uptr, NEW n \in Uptr, NEW size \in Nat, InBounds(offset, n, size)
  PROVE  offset + n <= size
  <1>1. Word \in Nat \ {0} /\ offset \in 0 .. Word - 1 /\ n \in 0 .. Word - 1
    BY DEF TableAssumption, Uptr
  <1>2. (offset + n) % Word = IF offset + n < Word THEN offset + n ELSE offset + n - Word
    BY <1>1
  <1> QED
    BY <1>1, <1>2 DEF InBounds

LEMMA BeginStep ==
  ASSUME TableAssumption, TableInv, NEW t \in Threads, At(t, "idle"), UNCHANGED tables,
         NEW b \in Tables, InMap(b), NEW s \in Tables \cup {None}, s # None => InMap(s),
         NEW n \in Nat, n # 0, NEW offset \in Nat, NEW from \in Nat, NEW v, NEW d,
         NEW step, Become(t, d), Begins(d, step, b, s, n, offset, from, v),
         \/ step = "quota" /\ s = None /\ v \in Elements
         \/ step = "fill" /\ s = None /\ v \in Elements /\ offset + n <= tables[b].numElements
         \/ /\ step = "read" /\ s # None /\ offset + n <= tables[b].numElements
            /\ from + n <= tables[s].numElements
         \/ /\ step = "segment" /\ s = None /\ offset + n <= tables[b].numElements
            /\ from + n <= Len(Segment)
  PROVE  TableInv'
  <1>1. TypeInv /\ calls[t].step = "idle"
    BY DEF At, TableInv
  <1>2. Calls(t, d) /\ calls'[t] = d
    BY <1>1, Becoming, ThreadIs, Zenon DEF Begins
  <1>3. ThreadInv(t)'
    <2>1. b # None /\ tables[b].stage = "inMap" /\ (s # None => tables[s].stage = "inMap")
      BY DEF TableAssumption, InMap
    <2>2. Owns(t)'
      BY <1>2, <2>1 DEF Begins, Owns, InMap, Growing, Bulk
    <2>3. Locks(t)' /\ Wrote(t)'
      BY <1>2 DEF Begins, Locks, Wrote, Growing
    <2>4. Progress(t)'
      BY <1>2, <2>1 DEF Begins, Progress, InMap, Growing, Bulk
    <2> QED
      BY <2>2, <2>3, <2>4 DEF ThreadInv
  <1> QED
    BY <1>1, <1>2, <1>3, QuietStep, TablesSame DEF Begins

LEMMA BeginsStep ==
  ASSUME TableAssumption, TableInv, NEW t \in Threads, NEW b \in Tables
  PROVE  /\ \A v \in Elements, n \in Deltas : growTable(t, b, n, v) => TableInv'
         /\ \A v \in Elements, offset, n \in Uptr : table_fill(t, b, offset, n, v) => TableInv'
         /\ \A s \in Tables, offset, from, n \in Uptr :
              table_copy(t, b, offset, s, from, n) => TableInv'
         /\ \A offset, from, n \in Uptr : table_init(t, b, offset, from, n) => TableInv'
  <1>1. /\ Uptr \subseteq Nat /\ Deltas \subseteq Nat /\ Len(Segment) \in Nat
        /\ \A a \in Tables : tables[a].numElements \in Nat /\ a # None
        /\ {"quota", "fill", "read", "segment"} \subseteq Steps
    BY DEF TableAssumption, Uptr, TableInv, TypeInv, TableType, Steps, Growing, Bulk
  <1>2. ASSUME NEW v \in Elements, NEW n \in Deltas, growTable(t, b, n, v)
        PROVE  TableInv'
    <2> DEFINE d == [Idle EXCEPT !.step = "quota", !.table = b, !.delta = n, !.value = v]
    <2>1. n \in Nat /\ n # 0 /\ "quota" \in Steps /\ 0 \in Nat /\ None \in Tables \cup {None}
      BY <1>1, <1>2 DEF growTable
    <2>2. Begins(d, "quota", b, None, n, 0, 0, v)
      BY <2>1, NewCalls, Zenon
    <2>3. At(t, "idle") /\ UNCHANGED tables /\ InMap(b) /\ Become(t, d)
      BY <1>2 DEF growTable
    <2> HIDE DEF d
    <2> QED
      BY <2>1, <2>2, <2>3, BeginStep, Zenon
  <1>3. ASSUME NEW v \in Elements, NEW offset \in Uptr, NEW n \in Uptr,
               table_fill(t, b, offset, n, v)
        PROVE  TableInv'
    <2> DEFINE d == [Idle EXCEPT !.step = "fill", !.table = b, !.offset = offset, !.delta = n,
                                 !.value = v]
    <2>1. /\ n \in Nat /\ n # 0 /\ offset \in Nat /\ "fill" \in Steps /\ 0 \in Nat
          /\ None \in Tables \cup {None}
      BY <1>1, <1>3 DEF table_fill
    <2>2. Begins(d, "fill", b, None, n, offset, 0, v)
      BY <2>1, NewCalls, Zenon
    <2>3. At(t, "idle") /\ UNCHANGED tables /\ InMap(b) /\ Become(t, d)
      BY <1>3 DEF table_fill
    <2>4. offset + n <= tables[b].numElements
      BY <1>1, <1>3, InBoundsSum DEF table_fill
    <2> HIDE DEF d
    <2> QED
      BY <2>1, <2>2, <2>3, <2>4, BeginStep, Zenon
  <1>4. ASSUME NEW s \in Tables, NEW offset \in Uptr, NEW from \in Uptr, NEW n \in Uptr,
               table_copy(t, b, offset, s, from, n)
        PROVE  TableInv'
    <2> DEFINE d == [Idle EXCEPT !.step = "read", !.table = b, !.offset = offset, !.delta = n,
                                 !.source = s, !.from = from]
    <2>1. /\ n \in Nat /\ n # 0 /\ offset \in Nat /\ from \in Nat /\ "read" \in Steps
          /\ s \in Tables \cup {None} /\ s # None
      BY <1>1, <1>4 DEF table_copy
    <2>2. Begins(d, "read", b, s, n, offset, from, None)
      BY <2>1, NewCalls, Zenon
    <2>3. At(t, "idle") /\ UNCHANGED tables /\ InMap(b) /\ InMap(s) /\ Become(t, d)
      BY <1>4 DEF table_copy
    <2>4. offset + n <= tables[b].numElements /\ from + n <= tables[s].numElements
      BY <1>1, <1>4, InBoundsSum DEF table_copy
    <2> HIDE DEF d
    <2> QED
      BY <2>1, <2>2, <2>3, <2>4, BeginStep, Zenon
  <1>5. ASSUME NEW offset \in Uptr, NEW from \in Uptr, NEW n \in Uptr,
               table_init(t, b, offset, from, n)
        PROVE  TableInv'
    <2> DEFINE d == [Idle EXCEPT !.step = "segment", !.table = b, !.offset = offset, !.delta = n,
                                 !.from = from]
    <2>1. /\ n \in Nat /\ n # 0 /\ offset \in Nat /\ from \in Nat /\ "segment" \in Steps
          /\ None \in Tables \cup {None}
      BY <1>1, <1>5 DEF table_init
    <2>2. Begins(d, "segment", b, None, n, offset, from, None)
      BY <2>1, NewCalls, Zenon
    <2>3. At(t, "idle") /\ UNCHANGED tables /\ InMap(b) /\ Become(t, d)
      BY <1>5 DEF table_init
    <2>4. offset + n <= tables[b].numElements /\ from + n <= Len(Segment)
      BY <1>1, <1>5, InBoundsSum DEF table_init
    <2> HIDE DEF d
    <2> QED
      BY <2>1, <2>2, <2>3, <2>4, BeginStep, Zenon
  <1> QED
    BY <1>2, <1>3, <1>4, <1>5

-----------------------------------------------------------------------------
(* Reading and writing elements                                            *)

\* A write to an accessible element.
LEMMA Overwrites ==
  ASSUME TypeInv, TableAssumption, NEW b \in Tables, NEW i, Accessible(b, i), NEW v \in Elements,
         tables' = [tables EXCEPT ![b].elements[i] = v]
  PROVE  tables' \in [Tables -> TableType] /\ \A a \in Tables : Same(a)
  <1>1. i \in Indices
    BY DEF Accessible
  <1>2. /\ tables' \in [Tables -> TableType]
        /\ \A a \in Tables \ {b} : Same(a)
        /\ Becomes(b, tables[b].stage, tables[b].numElements, tables[b].resizing)
        /\ \A j \in Indices : Accessible(b, j)' <=> Accessible(b, j) \/ j = i
    BY <1>1, ElementEdit, Zenon
  <1> QED
    BY <1>2 DEF Same, SameElements

LEMMA setTableElementStep ==
  ASSUME TableAssumption, TableInv, NEW t \in Threads, NEW b \in Tables, NEW i \in Indices,
         NEW v \in Elements, setTableElement(t, b, i, v)
  PROVE  TableInv'
  <1>1. TypeInv /\ calls[t] \in CallType /\ calls[t].step = "idle"
    BY DEF setTableElement, At, TableInv, TypeInv
  <1>2. tables' \in [Tables -> TableType] /\ \A a \in Tables : Same(a)
    BY <1>1, Overwrites, Zenon DEF setTableElement
  <1>3. Calls(t, calls[t]) /\ calls'[t] = calls[t]
    BY <1>1 DEF setTableElement, Calls, TypeInv
  <1>4. ThreadInv(t)'
    BY <1>1, <1>2, <1>3, ThreadFrame
       DEF TypeInv, TableType, Same, SameElements, Becomes, Undisturbed
  <1> QED
    BY <1>1, <1>2, <1>3, <1>4, QuietStep

\* Thread t is in bulk operation c, on table b with source s.
Accesses(t, c, b, s) ==
  /\ calls[t] = c /\ c.table = b /\ c.source = s /\ InMap(b) /\ (s # None => InMap(s))
  /\ c.index < c.delta /\ c.offset + c.delta <= tables[b].numElements
  /\ c.step \in {"read", "write"} => s # None /\ c.from + c.delta <= tables[s].numElements
  /\ c.step \in {"fill", "segment"} => s = None
  /\ c.step \in {"fill", "write"} => c.value \in Elements
  /\ c.step = "segment" => c.from + c.delta <= Len(Segment)

LEMMA ThreadAccesses ==
  ASSUME TableAssumption, TableInv, NEW t \in Threads, calls[t].step \in Bulk
  PROVE  \E c \in CallType, b \in Tables, s \in Tables \cup {None} : Accesses(t, c, b, s)
  <1>1. PICK c \in CallType : c = calls[t]
    BY DEF TableInv, TypeInv
  <1>2. Owns(t) /\ Progress(t) /\ c.step \in Bulk /\ c.step # "idle"
    BY <1>1 DEF TableInv, ThreadInv, Bulk
  <1>3. c.table \in Tables \cup {None} /\ c.source \in Tables \cup {None}
    BY DEF CallType
  <1>4. c.table # None /\ InMap(c.table) /\ (c.source # None => InMap(c.source))
    BY <1>1, <1>2 DEF Owns
  <1>5. Accesses(t, c, c.table, c.source)
    BY <1>1, <1>2, <1>4 DEF Progress, Accesses
  <1> QED
    BY <1>3, <1>4, <1>5

LEMMA AccessesInv ==
  ASSUME TableAssumption, NEW t \in Threads, NEW c, NEW b \in Tables, NEW s,
         Accesses(t, c, b, s)', c.step \in Bulk
  PROVE  ThreadInv(t)'
  <1>1. b # None
    BY DEF TableAssumption
  <1>2. Owns(t)'
    BY <1>1 DEF Accesses, Owns, InMap, Growing, Bulk
  <1>3. Locks(t)'
    BY DEF Accesses, Locks, Growing, Bulk
  <1>4. Progress(t)'
    BY DEF Accesses, Progress, Growing, Bulk
  <1>5. Wrote(t)'
    BY DEF Accesses, Wrote, Bulk
  <1> QED
    BY <1>2, <1>3, <1>4, <1>5 DEF ThreadInv

LEMMA WithinSize ==
  ASSUME TableAssumption, TableInv, NEW b \in Tables, InMap(b), NEW i \in Nat,
         i < tables[b].numElements
  PROVE  Accessible(b, i)
  <1>1. tables[b].numElements \in Nat /\ OfTable(b)
    BY DEF TableInv, TypeInv, TableType
  <1> QED
    BY <1>1, NumReservedBounds DEF OfTable, Filled

\* A bulk operation finds its next element accessible.
LEMMA BulkAccess ==
  ASSUME TableAssumption, TableInv, NEW t \in Threads, NEW c \in CallType, NEW b \in Tables,
         NEW s \in Tables \cup {None}, Accesses(t, c, b, s)
  PROVE  /\ Accessible(b, c.offset + Position(c))
         /\ c.step \in {"read", "write"} => Accessible(s, c.from + Position(c))
  <1>1. c.delta \in Nat /\ c.index \in Nat /\ c.offset \in Nat /\ c.from \in Nat
    BY DEF CallType
  <1>2. c.index < c.delta
    BY DEF Accesses
  <1>3. PICK i \in Nat : i = Position(c) /\ i < c.delta
    BY <1>1, <1>2 DEF Position
  <1>4. \A a \in Tables : tables[a].numElements \in Nat
    BY DEF TableInv, TypeInv, TableType
  <1>5. Accessible(b, c.offset + Position(c))
    <2>1. InMap(b) /\ c.offset + c.delta <= tables[b].numElements
      BY DEF Accesses
    <2>2. c.offset + i \in Nat /\ c.offset + i < tables[b].numElements
      BY <1>1, <1>3, <1>4, <2>1
    <2> QED
      BY <1>3, <2>1, <2>2, WithinSize
  <1>6. ASSUME c.step \in {"read", "write"}
        PROVE  Accessible(s, c.from + Position(c))
    <2>1. s \in Tables /\ InMap(s) /\ c.from + c.delta <= tables[s].numElements
      BY <1>6 DEF Accesses
    <2>2. c.from + i \in Nat /\ c.from + i < tables[s].numElements
      BY <1>1, <1>3, <1>4, <2>1
    <2> QED
      BY <1>3, <2>1, <2>2, WithinSize
  <1> QED
    BY <1>5, <1>6

LEMMA readElementStep ==
  ASSUME TableAssumption, TableInv, NEW t \in Threads, readElement(t)
  PROVE  TableInv'
  <1>1. TypeInv /\ calls[t].step = "read" /\ calls[t].step \in Bulk /\ UNCHANGED tables
    BY DEF readElement, At, Bulk, TableInv
  <1>2. PICK c \in CallType, b \in Tables, s \in Tables \cup {None} : Accesses(t, c, b, s)
    BY <1>1, ThreadAccesses
  <1>3. c = calls[t] /\ c.step = "read" /\ c.source = s /\ c.table = b /\ s \in Tables
    BY <1>1, <1>2 DEF Accesses
  <1>4. Accessible(s, c.from + Position(c))
    BY <1>2, <1>3, BulkAccess
  <1>5. PICK v \in Elements : v = tables[s].elements[c.from + Position(c)]
    BY <1>1, <1>3, <1>4 DEF Accessible, TypeInv, TableType
  <1> DEFINE d == [c EXCEPT !.step = "write", !.value = v]
  <1>6. Become(t, d)
    BY <1>3, <1>4, <1>5 DEF readElement
  <1>7. Moves(c, d, "write", c.old, c.index, v)
    <2>1. "write" \in Steps
      BY DEF Bulk, Steps
    <2> QED
      BY <2>1, CallEdits, Zenon
  <1> HIDE DEF d
  <1>8. Calls(t, d) /\ calls'[t] = d
    BY <1>1, <1>6, <1>7, Becoming, ThreadIs, Zenon DEF Moves
  <1>9. Accesses(t, d, b, s)' /\ d.step \in Bulk
    BY <1>1, <1>2, <1>3, <1>7, <1>8 DEF Moves, Accesses, InMap, Bulk
  <1>10. ThreadInv(t)'
    BY <1>9, AccessesInv
  <1>11. d.table = calls[t].table
    BY <1>3, <1>7 DEF Moves
  <1> QED
    BY <1>1, <1>8, <1>10, <1>11, TablesSame, QuietStep

LEMMA writeElementStep ==
  ASSUME TableAssumption, TableInv, NEW t \in Threads, writeElement(t)
  PROVE  TableInv'
  <1>1. TypeInv /\ calls[t].step \in {"fill", "segment", "write"} /\ calls[t].step \in Bulk
    BY DEF writeElement, Bulk, TableInv
  <1>2. PICK c \in CallType, b \in Tables, s \in Tables \cup {None} : Accesses(t, c, b, s)
    BY <1>1, ThreadAccesses
  <1>3. c = calls[t] /\ c.step \in {"fill", "segment", "write"} /\ c.table = b
    BY <1>1, <1>2 DEF Accesses
  <1> DEFINE i == c.offset + Position(c)
             step == IF c.step = "write" THEN "read" ELSE c.step
  <1>4. Accessible(b, i)
    BY <1>2, BulkAccess
  <1>5. /\ c.index \in Nat /\ c.index + 1 \in Nat /\ c.from \in Nat /\ c.delta \in Nat
        /\ c.index < c.delta
    BY <1>2 DEF CallType, Accesses
  <1>6. PICK v \in Elements :
          v = IF c.step = "segment" THEN Segment[c.from + c.index + 1] ELSE c.value
    <2>1. CASE c.step = "segment"
      <3>1. c.from + c.delta <= Len(Segment) /\ Segment \in Seq(Elements)
        BY <1>2, <2>1 DEF Accesses, TableAssumption, Elements
      <3>2. c.from + c.index + 1 \in 1 .. Len(Segment)
        BY <1>5, <3>1
      <3> QED
        BY <2>1, <3>1, <3>2
    <2>2. CASE c.step # "segment"
      BY <1>2, <1>3, <2>2 DEF Accesses
    <2> QED
      BY <2>1, <2>2
  <1>7. tables' = [tables EXCEPT ![b].elements[i] = v]
    BY <1>3, <1>4, <1>6 DEF writeElement
  <1> HIDE DEF i
  <1>8. tables' \in [Tables -> TableType] /\ \A a \in Tables : Same(a)
    BY <1>1, <1>4, <1>7, Overwrites, Zenon
  <1>9. CASE Return(t)
    <2>1. Calls(t, Idle) /\ calls'[t] = Idle
      BY <1>1, <1>9, IdleType, Becoming, ThreadIs, Zenon DEF Return
    <2>2. ThreadInv(t)'
      BY <2>1, IdleThread
    <2> QED
      BY <1>1, <1>8, <2>1, <2>2, IdleType, QuietStep
  <1>10. CASE /\ c.index + 1 < c.delta
              /\ Become(t, [c EXCEPT !.index = c.index + 1, !.step = step])
    <2> DEFINE d == [c EXCEPT !.index = c.index + 1, !.step = step]
    <2>1. Moves(c, d, step, c.old, c.index + 1, c.value) /\ step \in Bulk
      <3>1. step \in Steps /\ step \in Bulk
        BY <1>3 DEF Bulk, Steps
      <3> QED
        BY <1>5, <3>1, CallEdits, Zenon
    <2>2. Become(t, d)
      BY <1>10
    <2>3. step \in {"read", "fill", "segment"} /\ (step = "read" => c.step = "write")
            /\ (step # "read" => c.step = step)
      BY <1>3
    <2> HIDE DEF d, step
    <2>4. Calls(t, d) /\ calls'[t] = d
      BY <1>1, <2>1, <2>2, Becoming, ThreadIs, Zenon DEF Moves
    <2>5. \A a \in Tables : /\ tables'[a].stage = tables[a].stage
                            /\ tables'[a].numElements = tables[a].numElements
      BY <1>8 DEF Same, Becomes
    <2>6. Accesses(t, d, b, s)'
      BY <1>2, <1>10, <2>1, <2>3, <2>4, <2>5 DEF Moves, Accesses, InMap
    <2>7. d.table = calls[t].table /\ d.step \in Bulk
      BY <1>3, <2>1 DEF Moves
    <2>8. ThreadInv(t)'
      BY <2>6, <2>7, AccessesInv
    <2>9. calls[t].step \notin {"initialize", "store"}
      BY <1>1
    <2> QED
      BY <1>8, <2>4, <2>7, <2>8, <2>9, QuietStep
  <1>11. \/ Return(t)
         \/ c.index + 1 < c.delta /\ Become(t, [c EXCEPT !.index = c.index + 1, !.step = step])
    BY <1>3, <1>4 DEF writeElement, i
  <1> QED
    BY <1>9, <1>10, <1>11

-----------------------------------------------------------------------------
(* createTable, cloneTable, ~Table                                         *)

\* No call refers to a table that does not exist.
LEMMA Unreferenced ==
  ASSUME TableAssumption, TableInv, NEW b \in Tables, tables[b].stage = "none"
  PROVE  \A u \in Threads : b \notin {calls[u].table, calls[u].source}
  <1> SUFFICES ASSUME NEW u \in Threads
               PROVE  b \notin {calls[u].table, calls[u].source}
    OBVIOUS
  <1>1. b # None /\ Owns(u)
    BY DEF TableAssumption, TableInv, ThreadInv
  <1> QED
    BY <1>1 DEF Owns, InMap

\* Nobody else refers to the table that a thread is creating.
LEMMA CreatedAlone ==
  ASSUME TableAssumption, TableInv, NEW t \in Threads, NEW b \in Tables, b = calls[t].table,
         ~ InMap(b)
  PROVE  \A u \in Threads \ {t} : b \notin {calls[u].table, calls[u].source}
  <1>1. b # None /\ Unshared /\ \A u \in Threads : Owns(u)
    BY DEF TableAssumption, TableInv, ThreadInv
  <1> QED
    BY <1>1 DEF Owns, Unshared

\* At most the mutex changes.
SameButMutex(a) ==
  /\ tables'[a].stage = tables[a].stage /\ tables'[a].numElements = tables[a].numElements
  /\ SameElements(a)

\* A step of t that creates, inserts or deletes table b, to which no other call refers,
\* and may lock or unlock table s.
LEMMA LifetimeStep ==
  ASSUME TableInv, NEW t \in Threads, NEW d, Calls(t, d), tables' \in [Tables -> TableType],
         calls[t].step \notin {"initialize", "store"},
         NEW b \in Tables, NEW s,
         \A u \in Threads \ {t} : b \notin {calls[u].table, calls[u].source},
         d.table \in {None, b},
         \A a \in Tables \ {b} : SameButMutex(a),
         \A a \in Tables \ {b} : a = s \/ tables'[a].resizing = tables[a].resizing,
         s \in Tables => tables[s].resizing \in {None, t},
         None \notin Threads,
         ThreadInv(t)', OfTable(b)'
  PROVE  TableInv'
  <1>1. TypeInv'
    BY DEF TableInv, TypeInv, Calls
  <1>2. \A u \in Threads : calls'[u] = IF u = t THEN d ELSE calls[u]
    BY DEF TableInv, TypeInv, Calls
  <1>3. ASSUME NEW u \in Threads, u # t
        PROVE  ThreadInv(u)'
    <2>1. calls'[u] = calls[u]
      BY <1>2, <1>3
    <2>2. ASSUME NEW a \in Tables, a # b
          PROVE  Undisturbed(u, a)
      <3>1. tables[a].numElements \in Nat
        BY DEF TableInv, TypeInv, TableType
      <3>2. tables[a].resizing = u => tables'[a].resizing = u
        BY <1>3, <2>2
      <3>3. SameButMutex(a)
        BY <2>2
      <3> QED
        BY <3>1, <3>2, <3>3 DEF SameButMutex, SameElements, Undisturbed
    <2> QED
      BY <1>3, <2>1, <2>2, ThreadFrame
  <1>4. Unshared'
    <2>1. Unshared /\ \A u \in Threads : calls[u].table \in Tables \cup {None}
      BY DEF TableInv, TypeInv, CallType
    <2>2. \A a \in Tables \ {b} : tables'[a].stage = tables[a].stage
      BY DEF SameButMutex
    <2>3. ASSUME NEW u \in Threads, NEW w \in Threads, u # w, calls'[u].table # None,
                 ~ InMap(calls[u].table)'
          PROVE  calls'[w].table # calls'[u].table
      <3>1. CASE u = t
        <4>1. calls'[u].table = b /\ calls'[w] = calls[w]
          BY <1>2, <2>3, <3>1
        <4> QED
          BY <2>3, <3>1, <4>1
      <3>2. CASE u # t
        <4>1. calls'[u] = calls[u] /\ calls[u].table \in Tables \ {b}
          BY <1>2, <2>1, <2>3, <3>2
        <4>2. ~ InMap(calls[u].table)
          BY <2>2, <2>3, <4>1 DEF InMap
        <4>3. calls[w].table # calls[u].table
          BY <2>1, <2>3, <4>1, <4>2 DEF Unshared
        <4> QED
          BY <1>2, <2>3, <4>1, <4>3
      <3> QED
        BY <3>1, <3>2
    <2> QED
      BY <2>3 DEF Unshared
  <1>5. ASSUME NEW a \in Tables, a # b
        PROVE  OfTable(a)'
    <2>1. \A u \in Threads, i \in Indices : Adding(u, a, i) => Adding(u, a, i)'
      BY <1>2 DEF Adding
    <2>2. OfTable(a) /\ SameButMutex(a)
      BY <1>5 DEF TableInv
    <2> QED
      BY <2>1, <2>2 DEF SameButMutex, SameElements, OfTable, Filled, InMap
  <1> QED
    BY <1>1, <1>3, <1>4, <1>5 DEF TableInv

\* Table b gets another stage.
LEMMA StageEdit ==
  ASSUME TypeInv, NEW b \in Tables, NEW stage \in {"listed", "inMap"},
         tables' = [tables EXCEPT ![b].stage = stage]
  PROVE  /\ tables' \in [Tables -> TableType]
         /\ \A a \in Tables \ {b} : Same(a)
         /\ Becomes(b, stage, tables[b].numElements, tables[b].resizing) /\ SameElements(b)
  <1> DEFINE r == [tables[b] EXCEPT !.stage = stage]
  <1>1. tables' = [tables EXCEPT ![b] = r]
    BY Zenon
  <1>2. PICK x \in TableType : x = tables[b]
    BY DEF TypeInv
  <1>3. /\ r \in TableType /\ r.stage = stage /\ r.numElements = x.numElements
        /\ r.resizing = x.resizing /\ r.elements = x.elements
    BY <1>2 DEF TableType
  <1> HIDE DEF r
  <1>4. /\ tables' \in [Tables -> TableType] /\ tables'[b] = r
        /\ \A a \in Tables \ {b} : Same(a)
    BY <1>1, <1>3, TableEdit, Zenon
  <1> QED
    BY <1>2, <1>3, <1>4 DEF SameElements, Becomes, Accessible

LEMMA SameMutex ==
  ASSUME NEW a \in Tables, Same(a)
  PROVE  SameButMutex(a) /\ tables'[a].resizing = tables[a].resizing
  BY DEF Same, Becomes, SameButMutex

\* A table that was just created has no accessible element.
LEMMA NewTable ==
  ASSUME TableAssumption, TableInv, NEW b \in Tables, tables[b].stage = "none",
         Becomes(b, "listed", tables[b].numElements, tables[b].resizing), SameElements(b)
  PROVE  OfTable(b)' /\ Filled(b)' /\ tables'[b].numElements = 0
  <1>1. OfTable(b) /\ tables[b].numElements = 0
    BY DEF TableInv, OfTable
  <1>2. \A u \in Threads, i \in Indices : ~ Adding(u, b, i)
    BY Unreferenced DEF Adding
  <1>3. tables'[b].numElements = 0 /\ ~ InMap(b)' /\ tables'[b].stage # "none"
    BY <1>1 DEF Becomes, InMap
  <1>4. Filled(b)'
    BY <1>3, NumReservedBounds DEF Filled
  <1> QED
    BY <1>1, <1>2, <1>3, <1>4 DEF OfTable, SameElements

LEMMA createTableStep ==
  ASSUME TableAssumption, TableInv, NEW t \in Threads, NEW b \in Tables, NEW v \in Elements,
         createTable(t, b, v)
  PROVE  TableInv'
  <1> DEFINE step == IF TypeMin = 0 THEN "insert" ELSE "quota"
             d == [Idle EXCEPT !.step = step, !.table = b, !.delta = TypeMin, !.value = v]
  <1>1. /\ TypeInv /\ calls[t].step = "idle" /\ tables[b].stage = "none"
        /\ TypeMin \in Nat /\ b # None /\ None \notin Tables /\ None \notin Threads
    BY DEF createTable, At, TableInv, TableAssumption, Uptr
  <1>2. Become(t, d) /\ tables' = [tables EXCEPT ![b].stage = "listed"]
    BY DEF createTable, createTableImpl
  <1>3. Begins(d, step, b, None, TypeMin, 0, 0, v)
    <2>1. step \in Steps /\ 0 \in Nat
      BY DEF Steps, Growing
    <2> QED
      BY <1>1, <2>1, NewCalls, Zenon
  <1> HIDE DEF d
  <1>4. /\ tables' \in [Tables -> TableType]
        /\ \A a \in Tables \ {b} : Same(a)
        /\ Becomes(b, "listed", tables[b].numElements, tables[b].resizing) /\ SameElements(b)
    <2>1. "listed" \in {"listed", "inMap"}
      OBVIOUS
    <2> QED
      BY <1>1, <1>2, <2>1, StageEdit, Zenon
  <1>5. Calls(t, d) /\ calls'[t] = d
    BY <1>1, <1>2, <1>3, Becoming, ThreadIs, Zenon DEF Begins
  <1>6. OfTable(b)' /\ Filled(b)' /\ tables'[b].numElements = 0
    BY <1>1, <1>4, NewTable
  <1>7. ThreadInv(t)'
    <2>1. d.step = step /\ d.table = b /\ d.source = None /\ d.delta = TypeMin /\ d.value = v
      BY <1>3 DEF Begins
    <2>2. Grows(t, d, b, None)' /\ ~ InMap(b)'
      BY <1>1, <1>4, <1>5, <2>1 DEF Grows, Becomes, InMap
    <2>3. CASE TypeMin = 0
      BY <1>6, <2>1, <2>2, <2>3, EndsInv
    <2>4. CASE TypeMin # 0
      <3>1. Holds(t, d, None)' /\ Fresh(b)' /\ d.delta > 0 /\ d.step = "quota"
        BY <1>1, <1>6, <2>1, <2>4 DEF Holds, Fresh
      <3> QED
        BY <2>1, <2>2, <3>1, ReservesInv
    <2> QED
      BY <2>3, <2>4
  <1>8. \A u \in Threads \ {t} : b \notin {calls[u].table, calls[u].source}
    BY <1>1, Unreferenced
  <1>9. d.table = b /\ calls[t].step \notin {"initialize", "store"}
    BY <1>1, <1>3 DEF Begins
  <1>10. \A a \in Tables \ {b} : SameButMutex(a) /\ tables'[a].resizing = tables[a].resizing
    BY <1>4, SameMutex
  <1> QED
    BY <1>1, <1>4, <1>5, <1>6, <1>7, <1>8, <1>9, <1>10, LifetimeStep

\* Table b is created and table s locked.
LEMMA CloneEdit ==
  ASSUME TypeInv, NEW t \in Threads, NEW b \in Tables, NEW s \in Tables, b # s,
         tables' = [[tables EXCEPT ![b].stage = "listed"] EXCEPT ![s].resizing = t]
  PROVE  /\ tables' \in [Tables -> TableType]
         /\ \A a \in Tables \ {b, s} : Same(a)
         /\ Becomes(b, "listed", tables[b].numElements, tables[b].resizing) /\ SameElements(b)
         /\ SameButMutex(s) /\ tables'[s].resizing = t
  <1> DEFINE r == [tables[b] EXCEPT !.stage = "listed"]
             q == [tables[s] EXCEPT !.resizing = t]
             f == [tables EXCEPT ![b] = r]
  <1>1. PICK x \in TableType : x = tables[b]
    BY DEF TypeInv
  <1>2. PICK y \in TableType : y = tables[s]
    BY DEF TypeInv
  <1>3. /\ r \in TableType /\ r.stage = "listed" /\ r.numElements = x.numElements
        /\ r.resizing = x.resizing /\ r.elements = x.elements
    BY <1>1 DEF TableType
  <1>4. /\ q \in TableType /\ q.stage = y.stage /\ q.numElements = y.numElements
        /\ q.resizing = t /\ q.elements = y.elements
    BY <1>2 DEF TableType
  <1>5. f[s] = tables[s]
    BY DEF TypeInv
  <1>6. tables' = [f EXCEPT ![s] = q]
    <2>1. tables' = [f EXCEPT ![s].resizing = t]
      BY Zenon
    <2>2. [f EXCEPT ![s].resizing = t] = [f EXCEPT ![s] = [f[s] EXCEPT !.resizing = t]]
      BY Zenon
    <2> QED
      BY <1>5, <2>1, <2>2, Zenon
  <1> HIDE DEF r, q
  <1>7. tables' \in [Tables -> TableType] /\ tables'[b] = r /\ tables'[s] = q
    BY <1>3, <1>4, <1>6 DEF TypeInv
  <1>8. ASSUME NEW a \in Tables \ {b, s}
        PROVE  Same(a)
    <2>1. tables'[a] = tables[a]
      BY <1>6 DEF TypeInv
    <2> QED
      BY <2>1, Zenon DEF Same, SameElements, Becomes, Accessible
  <1>9. Becomes(b, "listed", tables[b].numElements, tables[b].resizing) /\ SameElements(b)
    BY <1>1, <1>3, <1>7 DEF SameElements, Becomes, Accessible
  <1>10. SameButMutex(s) /\ tables'[s].resizing = t
    BY <1>2, <1>4, <1>7 DEF SameElements, SameButMutex, Accessible
  <1> QED
    BY <1>7, <1>8, <1>9, <1>10

LEMMA cloneTableStep ==
  ASSUME TableAssumption, TableInv, NEW t \in Threads, NEW b \in Tables, NEW s \in Tables,
         cloneTable(t, s, b)
  PROVE  TableInv'
  <1>1. /\ TypeInv /\ calls[t].step = "idle" /\ tables[b].stage = "none"
        /\ tables[s].stage = "inMap" /\ tables[s].resizing = None
    BY DEF cloneTable, CanLock, InMap, At, TableInv
  <1>2. b # None /\ s # None /\ None \notin Threads /\ b # s
    BY <1>1 DEF TableAssumption
  <1>3. PICK n \in Nat : n = tables[s].numElements
    BY <1>1 DEF TypeInv, TableType
  <1> DEFINE step == IF n = 0 THEN "copy" ELSE "quota"
             d == [Idle EXCEPT !.step = step, !.table = b, !.delta = n, !.source = s]
  <1>4. Become(t, d) /\ tables' = [[tables EXCEPT ![b].stage = "listed"] EXCEPT ![s].resizing = t]
    BY <1>3 DEF cloneTable, createTableImpl
  <1>5. Begins(d, step, b, s, n, 0, 0, None)
    <2>1. step \in Steps /\ 0 \in Nat
      BY DEF Steps, Growing
    <2> QED
      BY <2>1, NewCalls, Zenon
  <1> HIDE DEF d
  <1>6. /\ tables' \in [Tables -> TableType]
        /\ \A a \in Tables \ {b, s} : Same(a)
        /\ Becomes(b, "listed", tables[b].numElements, tables[b].resizing) /\ SameElements(b)
        /\ SameButMutex(s) /\ tables'[s].resizing = t
    BY <1>1, <1>2, <1>4, CloneEdit, Zenon
  <1>7. Calls(t, d) /\ calls'[t] = d
    BY <1>1, <1>4, <1>5, Becoming, ThreadIs, Zenon DEF Begins
  <1>8. OfTable(b)' /\ Filled(b)' /\ tables'[b].numElements = 0
    BY <1>1, <1>6, NewTable
  <1>9. ThreadInv(t)'
    <2>1. d.step = step /\ d.table = b /\ d.source = s /\ d.delta = n /\ d.index = 0
      BY <1>5 DEF Begins
    <2>2. Grows(t, d, b, s)'
      BY <1>1, <1>2, <1>6, <1>7, <2>1 DEF Grows, Becomes, SameButMutex, InMap
    <2>3. Holds(t, d, s)'
      BY <1>3, <1>6, <2>1 DEF Holds, SameButMutex
    <2>4. CASE n = 0
      <3>1. d.step = "copy" /\ d.index <= d.delta /\ \A i \in Indices : ~ (i < d.index)
        BY <2>1, <2>4, NumReservedBounds
      <3> QED
        BY <1>2, <1>8, <2>1, <2>2, <2>3, <2>4, <3>1, CopiesInv
    <2>5. CASE n # 0
      <3>1. Fresh(b)' /\ d.delta > 0 /\ d.step = "quota"
        BY <1>8, <2>1, <2>5 DEF Fresh
      <3> QED
        BY <1>2, <2>2, <2>3, <3>1, ReservesInv
    <2> QED
      BY <2>4, <2>5
  <1>10. \A u \in Threads \ {t} : b \notin {calls[u].table, calls[u].source}
    BY <1>1, Unreferenced
  <1>11. d.table = b /\ calls[t].step \notin {"initialize", "store"}
    BY <1>1, <1>5 DEF Begins
  <1>12. \A a \in Tables \ {b} :
           SameButMutex(a) /\ (a = s \/ tables'[a].resizing = tables[a].resizing)
    BY <1>6, SameMutex
  <1> QED
    BY <1>1, <1>2, <1>6, <1>7, <1>8, <1>9, <1>10, <1>11, <1>12, LifetimeStep

LEMMA UnlockEdit ==
  ASSUME TypeInv, NEW t \in Threads
  PROVE  /\ UnlockSource(t) \in [Tables -> TableType]
         /\ \A a \in Tables :
              /\ UnlockSource(t)[a].stage = tables[a].stage
              /\ UnlockSource(t)[a].numElements = tables[a].numElements
              /\ UnlockSource(t)[a].elements = tables[a].elements
              /\ a = calls[t].source \/ UnlockSource(t)[a].resizing = tables[a].resizing
  <1>1. ASSUME NEW a \in Tables
        PROVE  LET r == [tables[a] EXCEPT !.resizing = None]
               IN  /\ r \in TableType /\ r.stage = tables[a].stage
                   /\ r.numElements = tables[a].numElements /\ r.elements = tables[a].elements
    <2>1. PICK x \in TableType : x = tables[a]
      BY DEF TypeInv
    <2>2. LET r == [x EXCEPT !.resizing = None]
          IN  /\ r \in TableType /\ r.stage = x.stage /\ r.numElements = x.numElements
              /\ r.elements = x.elements
      BY DEF TableType
    <2> QED
      BY <2>1, <2>2, Zenon
  <1>2. \A a \in Tables : tables[a] \in TableType
    BY DEF TypeInv
  <1> QED
    BY <1>1, <1>2, Zenon DEF UnlockSource

\* The next element of the original is copied.
LEMMA CopyStep ==
  ASSUME TableAssumption, TableInv, NEW t \in Threads, NEW c \in CallType, NEW b \in Tables,
         NEW s \in Tables \cup {None}, Grows(t, c, b, s), c.step = "copy", c.index < c.delta,
         copyElement(t)
  PROVE  TableInv'
  <1>1. TypeInv /\ calls[t] = c /\ c.table = b /\ c.source = s /\ Owns(t) /\ Progress(t) /\ Wrote(t)
    BY DEF Grows, TableInv, ThreadInv
  <1>2. c.index \in Nat /\ c.delta \in Nat /\ c.index + 1 \in Nat
    BY DEF CallType
  <1>3. s \in Tables /\ s # None /\ InMap(s) /\ ~ InMap(b) /\ Holds(t, c, s)
    <2>1. s # None
      BY <1>1 DEF Owns
    <2> QED
      BY <2>1, GrowFacts DEF Grows, Growing
  <1>4. tables[b].numElements = c.delta /\ OfTable(b) /\ tables[b].numElements <= NumReserved
    BY <1>1 DEF Progress, TableInv, OfTable
  <1>5. PICK n \in Indices : n = c.index
    BY <1>2, <1>4, NumReservedBounds
  <1>6. Accessible(s, n)
    BY <1>2, <1>3, <1>5, WithinSize DEF Holds
  <1>7. PICK v \in Elements : v = tables[s].elements[n]
    BY <1>1, <1>3, <1>6 DEF Accessible, TypeInv, TableType
  <1> DEFINE d == [c EXCEPT !.index = c.index + 1]
  <1>8. Moves(c, d, "copy", c.old, c.index + 1, c.value) /\ Become(t, d)
    <2>1. "copy" \in Steps
      BY DEF Steps, Growing
    <2>2. Become(t, d)
      BY <1>1, <1>2 DEF copyElement
    <2> QED
      BY <1>2, <2>1, <2>2, CallEdits, Zenon
  <1> HIDE DEF d
  <1>9. Calls(t, d) /\ calls'[t] = d
    BY <1>1, <1>8, Becoming, ThreadIs, Zenon DEF Moves
  <1>10. /\ tables' \in [Tables -> TableType]
         /\ \A a \in Tables \ {b} : Same(a)
         /\ Becomes(b, tables[b].stage, tables[b].numElements, tables[b].resizing)
         /\ \A i \in Indices : Accessible(b, i)' <=> Accessible(b, i) \/ i = n
    <2>1. tables' = [tables EXCEPT ![b].elements[n] = v]
      BY <1>1, <1>2, <1>5, <1>7 DEF copyElement
    <2> QED
      BY <1>1, <2>1, ElementEdit, Zenon
  <1>11. /\ d.step = "copy" /\ d.table = b /\ d.table = c.table /\ d.source = c.source
         /\ d.delta = c.delta /\ d.index = c.index + 1
    BY <1>1, <1>8 DEF Moves
  <1>12. s # b
    BY <1>3
  <1>13. ThreadInv(t)'
    <2>1. Grows(t, d, b, s)'
      BY <1>3, <1>9, <1>10, <1>11, <1>12, StillGrows DEF Same, Becomes
    <2>2. Holds(t, d, s)'
      BY <1>3, <1>10, <1>11, <1>12, StillHolds
    <2>3. d.index <= d.delta /\ tables'[b].numElements = d.delta
      BY <1>2, <1>4, <1>10, <1>11 DEF Becomes
    <2>4. \A i \in Indices : i < c.index => Accessible(b, i)
      BY <1>1 DEF Wrote
    <2>5. \A i \in Indices : i < d.index => i < c.index \/ i = n
      BY <1>2, <1>5, <1>11, NumReservedBounds
    <2>6. \A i \in Indices : i < d.index => Accessible(b, i)'
      BY <1>10, <2>4, <2>5
    <2> QED
      BY <1>3, <1>11, <2>1, <2>2, <2>3, <2>6, CopiesInv
  <1>14. OfTable(b)'
    <2>1. \A u \in Threads : calls'[u] = IF u = t THEN d ELSE calls[u]
      BY <1>1, <1>9 DEF TypeInv, Calls
    <2>2. \A u \in Threads, i \in Indices : Adding(u, b, i) => Adding(u, b, i)'
      BY <1>1, <2>1 DEF Adding
    <2>3. n < tables[b].numElements
      BY <1>4, <1>5
    <2> QED
      BY <1>3, <1>4, <1>10, <2>2, <2>3 DEF Becomes, OfTable, InMap
  <1>15. \A u \in Threads \ {t} : b \notin {calls[u].table, calls[u].source}
    BY <1>1, <1>3, CreatedAlone
  <1> QED
    BY <1>1, <1>9, <1>10, <1>11, <1>13, <1>14, <1>15, GrowingStep DEF Becomes

\* Every element is copied: the original is unlocked.
LEMMA CopiedStep ==
  ASSUME TableAssumption, TableInv, NEW t \in Threads, NEW c \in CallType, NEW b \in Tables,
         NEW s \in Tables \cup {None}, Grows(t, c, b, s), c.step = "copy", c.index = c.delta,
         Goto(t, "insert"), tables' = UnlockSource(t)
  PROVE  TableInv'
  <1>1. TypeInv /\ calls[t] = c /\ c.table = b /\ c.source = s /\ Progress(t) /\ Wrote(t)
    BY DEF Grows, TableInv, ThreadInv
  <1>2. ~ InMap(b) /\ Holds(t, c, s) /\ None \notin Threads /\ None \notin Tables
    BY GrowFacts DEF Growing, TableAssumption
  <1>3. PICK d : Calls(t, d) /\ Moves(c, d, "insert", c.old, c.index, c.value)
    <2>1. "insert" \in Steps
      BY DEF Steps, Growing
    <2> QED
      BY <1>1, <2>1, Gotos, Zenon
  <1>4. calls'[t] = d /\ d.step = "insert" /\ d.table = b /\ d.table = c.table /\ d.source = c.source
    BY <1>1, <1>3, ThreadIs DEF Moves
  <1>5. tables' \in [Tables -> TableType]
    BY <1>1, UnlockEdit
  <1>6. \A a \in Tables :
          SameButMutex(a) /\ (a = s \/ tables'[a].resizing = tables[a].resizing)
    <2> SUFFICES ASSUME NEW a \in Tables
                 PROVE  SameButMutex(a) /\ (a = s \/ tables'[a].resizing = tables[a].resizing)
      OBVIOUS
    <2>1. /\ tables'[a].stage = tables[a].stage /\ tables'[a].numElements = tables[a].numElements
          /\ tables'[a].elements = tables[a].elements
          /\ a = s \/ tables'[a].resizing = tables[a].resizing
      BY <1>1, UnlockEdit, Zenon
    <2> QED
      BY <2>1, Zenon DEF SameButMutex, SameElements, Accessible
  <1>7. ThreadInv(t)'
    <2>1. Grows(t, d, b, s)' /\ ~ InMap(b)'
      BY <1>2, <1>4, <1>6, StillGrows DEF SameButMutex, InMap
    <2>2. tables[b].numElements = c.index /\ \A i \in Indices : i < c.index => Accessible(b, i)
      BY <1>1 DEF Progress, Wrote
    <2>3. Filled(b)'
      BY <1>6, <2>2 DEF SameButMutex, SameElements, Filled
    <2> QED
      BY <1>4, <2>1, <2>3, EndsInv
  <1>8. OfTable(b)'
    <2>1. \A u \in Threads : calls'[u] = IF u = t THEN d ELSE calls[u]
      BY <1>1, <1>3 DEF TypeInv, Calls
    <2>2. \A u \in Threads, i \in Indices : Adding(u, b, i) => Adding(u, b, i)'
      BY <1>1, <2>1 DEF Adding
    <2>3. OfTable(b) /\ SameButMutex(b)
      BY <1>6 DEF TableInv
    <2> QED
      BY <1>2, <2>2, <2>3 DEF SameButMutex, SameElements, OfTable, InMap
  <1>9. \A u \in Threads \ {t} : b \notin {calls[u].table, calls[u].source}
    BY <1>1, <1>2, CreatedAlone
  <1>10. s \in Tables => tables[s].resizing = t
    BY <1>2 DEF Holds
  <1>11. calls[t].step \notin {"initialize", "store"}
    BY <1>1
  <1> QED
    BY <1>2, <1>3, <1>4, <1>5, <1>6, <1>7, <1>8, <1>9, <1>10, <1>11, LifetimeStep

LEMMA copyElementStep ==
  ASSUME TableAssumption, TableInv, NEW t \in Threads, copyElement(t)
  PROVE  TableInv'
  <1>1. calls[t].step = "copy" /\ calls[t].step \in Growing
    BY DEF copyElement, At, Growing
  <1>2. PICK c \in CallType, b \in Tables, s \in Tables \cup {None} : Grows(t, c, b, s)
    BY <1>1, ThreadGrows
  <1>3. calls[t] = c /\ c.step = "copy" /\ c.table = b /\ c.source = s
    BY <1>1, <1>2 DEF Grows
  <1>4. \/ c.index < c.delta
        \/ c.index = c.delta /\ tables' = UnlockSource(t) /\ Goto(t, "insert")
    BY <1>3 DEF copyElement
  <1> QED
    BY <1>2, <1>3, <1>4, CopyStep, CopiedStep, Zenon

LEMMA insertTableStep ==
  ASSUME TableAssumption, TableInv, NEW t \in Threads, insertTable(t)
  PROVE  TableInv'
  <1>1. TypeInv /\ calls[t].step = "insert" /\ calls[t].step \in Growing
    BY DEF insertTable, At, Growing, TableInv
  <1>2. PICK c \in CallType, b \in Tables, s \in Tables \cup {None} : Grows(t, c, b, s)
    BY <1>1, ThreadGrows
  <1>3. calls[t] = c /\ c.step = "insert" /\ c.table = b /\ Wrote(t)
    BY <1>1, <1>2 DEF Grows, TableInv, ThreadInv
  <1>4. ~ InMap(b) /\ Filled(b) /\ None \notin Threads /\ None \notin Tables
    BY <1>2, <1>3, GrowFacts DEF Wrote, TableAssumption
  <1>5. Calls(t, Idle) /\ calls'[t] = Idle
    BY <1>1, IdleType, Becoming, ThreadIs, Zenon DEF insertTable, Return
  <1>6. /\ tables' \in [Tables -> TableType]
        /\ \A a \in Tables \ {b} : Same(a)
        /\ Becomes(b, "inMap", tables[b].numElements, tables[b].resizing) /\ SameElements(b)
    <2>1. tables' = [tables EXCEPT ![b].stage = "inMap"] /\ "inMap" \in {"listed", "inMap"}
      BY <1>3 DEF insertTable
    <2> QED
      BY <1>1, <2>1, StageEdit, Zenon
  <1>7. OfTable(b)'
    <2>1. \A u \in Threads : calls'[u] = IF u = t THEN Idle ELSE calls[u]
      BY <1>1, <1>5 DEF TypeInv, Calls
    <2>2. \A u \in Threads, i \in Indices : Adding(u, b, i) => Adding(u, b, i)'
      BY <1>1, <2>1 DEF Adding
    <2>3. OfTable(b)
      BY DEF TableInv
    <2> QED
      BY <1>4, <1>6, <2>2, <2>3 DEF Becomes, SameElements, OfTable, Filled
  <1>8. \A u \in Threads \ {t} : b \notin {calls[u].table, calls[u].source}
    BY <1>3, <1>4, CreatedAlone
  <1>9. ThreadInv(t)' /\ Idle.table = None
    BY <1>5, IdleThread, IdleType
  <1>10. \A a \in Tables \ {b} : SameButMutex(a) /\ tables'[a].resizing = tables[a].resizing
    BY <1>6, SameMutex
  <1> QED
    BY <1>1, <1>4, <1>5, <1>6, <1>7, <1>8, <1>9, <1>10, LifetimeStep

\* A table that does not exist.
LEMMA TableGone ==
  ASSUME TableAssumption, NEW b \in Tables, tables'[b] = Table
  PROVE  Table \in TableType /\ OfTable(b)'
  <1>1. Table \in TableType
    BY DEF Table, TableType, Inaccessible
  <1>2. /\ Table.stage = "none" /\ Table.numElements = 0
        /\ \A i \in Indices : Table.elements[i] = "fault"
    BY DEF Table
  <1>3. \A i \in Indices : ~ Accessible(b, i)'
    BY <1>2 DEF Accessible, Inaccessible
  <1> QED
    BY <1>1, <1>2, <1>3, NumReservedBounds DEF OfTable, InMap

LEMMA deleteTableStep ==
  ASSUME TableAssumption, TableInv, NEW t \in Threads, deleteTable(t)
  PROVE  TableInv'
  <1>1. TypeInv /\ calls[t].step = "delete" /\ calls[t].step \in Growing
    BY DEF deleteTable, At, Growing, TableInv
  <1>2. PICK c \in CallType, b \in Tables, s \in Tables \cup {None} : Grows(t, c, b, s)
    BY <1>1, ThreadGrows
  <1>3. calls[t] = c /\ c.step = "delete" /\ c.table = b /\ c.source = s
    BY <1>1, <1>2 DEF Grows
  <1>4. /\ ~ InMap(b) /\ (s # None => tables[s].resizing = t)
        /\ None \notin Threads /\ None \notin Tables
    BY <1>2, <1>3, GrowFacts DEF TableAssumption
  <1>5. Calls(t, Idle) /\ calls'[t] = Idle
    BY <1>1, IdleType, Becoming, ThreadIs, Zenon DEF deleteTable, Return
  <1>6. PICK f : f = UnlockSource(t)
    OBVIOUS
  <1>7. /\ f \in [Tables -> TableType]
        /\ \A a \in Tables :
             /\ f[a].stage = tables[a].stage /\ f[a].numElements = tables[a].numElements
             /\ f[a].elements = tables[a].elements
             /\ a = s \/ f[a].resizing = tables[a].resizing
    BY <1>1, <1>3, <1>6, UnlockEdit, Zenon
  <1>8. tables' = [f EXCEPT ![b] = Table]
    BY <1>3, <1>6 DEF deleteTable
  <1>9. tables'[b] = Table /\ \A a \in Tables \ {b} : tables'[a] = f[a]
    BY <1>7, <1>8
  <1>10. OfTable(b)' /\ tables' \in [Tables -> TableType]
    <2>1. OfTable(b)' /\ Table \in TableType
      BY <1>9, TableGone
    <2> QED
      BY <1>7, <1>8, <2>1
  <1>11. ASSUME NEW a \in Tables, a # b
         PROVE  SameButMutex(a) /\ (a = s \/ tables'[a].resizing = tables[a].resizing)
    BY <1>7, <1>9, <1>11, Zenon DEF SameButMutex, SameElements, Accessible
  <1>12. \A u \in Threads \ {t} : b \notin {calls[u].table, calls[u].source}
    BY <1>3, <1>4, CreatedAlone
  <1>13. ThreadInv(t)' /\ Idle.table = None
    BY <1>5, IdleThread, IdleType
  <1> QED
    BY <1>1, <1>4, <1>5, <1>10, <1>11, <1>12, <1>13, LifetimeStep

LEMMA collectTableStep ==
  ASSUME TableAssumption, TableInv, NEW b \in Tables, collectTable(b)
  PROVE  TableInv'
  <1>1. /\ TypeInv /\ UNCHANGED calls /\ tables' = [tables EXCEPT ![b] = Table]
        /\ \A u \in Threads : b \notin {calls[u].table, calls[u].source}
    BY DEF collectTable, TableInv
  <1>2. tables'[b] = Table
    BY <1>1 DEF TypeInv
  <1>3. OfTable(b)' /\ Table \in TableType
    BY <1>2, TableGone
  <1>4. tables' \in [Tables -> TableType] /\ \A a \in Tables \ {b} : Same(a)
    BY <1>1, <1>3, TableEdit, Zenon
  <1>5. TypeInv'
    BY <1>1, <1>4 DEF TypeInv
  <1>6. ASSUME NEW u \in Threads
        PROVE  ThreadInv(u)'
    <2>1. \A a \in Tables : a \in {calls[u].table, calls[u].source} => Undisturbed(u, a)
      BY <1>1, <1>4, SameUndisturbed
    <2> QED
      BY <1>1, <1>4, <2>1, ThreadFrame
  <1>7. Unshared'
    <2>1. Unshared /\ \A u \in Threads : calls[u].table \in Tables \cup {None}
      BY DEF TableInv, TypeInv, CallType
    <2>2. \A a \in Tables \ {b} : tables'[a].stage = tables[a].stage
      BY <1>4 DEF Same, Becomes
    <2> QED
      BY <1>1, <2>1, <2>2 DEF Unshared, InMap
  <1>8. ASSUME NEW a \in Tables, a # b
        PROVE  OfTable(a)'
    <2>1. \A u \in Threads, i \in Indices : Adding(u, a, i) => Adding(u, a, i)'
      BY <1>1 DEF Adding
    <2>2. OfTable(a) /\ Same(a)
      BY <1>4, <1>8 DEF TableInv
    <2> QED
      BY <2>1, <2>2 DEF Same, SameElements, Becomes, OfTable, Filled, InMap
  <1> QED
    BY <1>3, <1>5, <1>6, <1>7, <1>8 DEF TableInv

-----------------------------------------------------------------------------
(* The theorems                                                            *)

LEMMA TablesUntouched ==
  ASSUME TableInv, UNCHANGED <<tables, calls>>
  PROVE  TableInv'
  <1>1. TypeInv'
    BY DEF TableInv, TypeInv
  <1>2. ASSUME NEW t \in Threads
        PROVE  ThreadInv(t)'
    <2>1. TypeInv /\ tables' \in [Tables -> TableType] /\ \A b \in Tables : Same(b)
      BY TablesSame DEF TableInv
    <2>2. \A b \in Tables : Undisturbed(t, b)
      BY <2>1, SameUndisturbed
    <2> QED
      BY <2>1, <2>2, ThreadFrame
  <1>3. Unshared'
    BY DEF TableInv, Unshared, InMap
  <1>4. \A b \in Tables : OfTable(b)'
    BY DEF TableInv, OfTable, Filled, Accessible, Adding, InMap
  <1> QED
    BY <1>1, <1>2, <1>3, <1>4 DEF TableInv

LEMMA TableStep ==
  ASSUME TableAssumption, TableInv, [Next]_vars
  PROVE  TableInv'
  <1>1. ASSUME UNCHANGED vars \/ (\E n \in QuotaMaxes : setMax(n)) \/ elem_drop
        PROVE  TableInv'
    <2>1. UNCHANGED <<tables, calls>>
      BY <1>1 DEF vars, setMax, elem_drop
    <2> QED
      BY <2>1, TablesUntouched
  <1>2. ASSUME NEW t \in Threads,
               \/ checkQuota(t) \/ lockResizing(t) \/ initElement(t) \/ storeSize(t)
               \/ \E commitFails \in BOOLEAN : commitPages(t, commitFails)
               \/ copyElement(t) \/ insertTable(t) \/ deleteTable(t)
               \/ readElement(t) \/ writeElement(t)
        PROVE  TableInv'
    BY <1>2, checkQuotaStep, lockResizingStep, initElementStep, storeSizeStep, commitPagesStep,
       copyElementStep, insertTableStep, deleteTableStep, readElementStep, writeElementStep
  <1>3. ASSUME NEW t \in Threads, NEW b \in Tables, NEW v \in Elements,
               \/ createTable(t, b, v)
               \/ \E n \in Deltas : growTable(t, b, n, v)
               \/ \E i \in Indices : setTableElement(t, b, i, v)
               \/ \E offset, n \in Uptr : table_fill(t, b, offset, n, v)
        PROVE  TableInv'
    BY <1>3, createTableStep, BeginsStep, setTableElementStep
  <1>4. ASSUME NEW t \in Threads, NEW b \in Tables,
               \/ \E s \in Tables :
                    \/ cloneTable(t, s, b)
                    \/ \E offset, from, n \in Uptr : table_copy(t, b, offset, s, from, n)
               \/ \E offset, from, n \in Uptr : table_init(t, b, offset, from, n)
        PROVE  TableInv'
    BY <1>4, cloneTableStep, BeginsStep
  <1> QED
    BY <1>1, <1>2, <1>3, <1>4, collectTableStep, NextIsOneOf, Zenon

\* TableInv is an invariant of the tables, however many threads create, clone, grow, copy,
\* fill and initialize them (Table.cpp).
THEOREM TableInvAlways == TableAssumption /\ Spec => []TableInv
  <1> SUFFICES ASSUME TableAssumption
               PROVE  Spec => []TableInv
    OBVIOUS
  <1>1. Init => TableInv
    BY TableInit
  <1>2. TableInv /\ [Next]_vars => TableInv'
    BY TableStep
  <1> QED
    BY <1>1, <1>2, PTL DEF Spec

\* A table.copy, table.fill or table.init whose bounds were in range when it tested them
\* finds every element accessible, although it takes no lock (table.copy, table.fill and
\* table.init in Table.cpp).
THEOREM BulkNeverThrowsAlways == TableAssumption /\ Spec => []BulkNeverThrows
  <1> SUFFICES ASSUME TableAssumption
               PROVE  Spec => []BulkNeverThrows
    OBVIOUS
  <1>1. TableInv => BulkNeverThrows
    <2> SUFFICES ASSUME TableInv, NEW t \in Threads, calls[t].step \in Bulk
                 PROVE  LET c == calls[t]
                        IN  /\ c.step = "read" => Accessible(c.source, c.from + Position(c))
                            /\ Accessible(c.table, c.offset + Position(c))
      BY DEF BulkNeverThrows, Bulk
    <2>1. PICK c \in CallType, b \in Tables, s \in Tables \cup {None} : Accesses(t, c, b, s)
      BY ThreadAccesses
    <2>2. calls[t] = c /\ c.table = b /\ c.source = s
      BY <2>1 DEF Accesses
    <2>3. /\ Accessible(b, c.offset + Position(c))
          /\ c.step \in {"read", "write"} => Accessible(s, c.from + Position(c))
      BY <2>1, BulkAccess
    <2> QED
      BY <2>2, <2>3
  <1>2. Spec => []TableInv
    BY TableInvAlways
  <1> QED
    BY <1>1, <1>2, PTL

\* An access beyond the size of a table throws, except to an element that a growTableImpl
\* is about to add: nothing is accessible there that was not written for the new size.
THEOREM BeyondSizeThrowsAlways == TableAssumption /\ Spec => []BeyondSizeThrows
  <1> SUFFICES ASSUME TableAssumption
               PROVE  Spec => []BeyondSizeThrows
    OBVIOUS
  <1>1. TableInv => BeyondSizeThrows
    <2> SUFFICES ASSUME TableInv, NEW b \in Tables, NEW i \in Indices, Accessible(b, i),
                        ~ (i < tables[b].numElements)
                 PROVE  \E t \in Threads :
                          /\ calls[t].step \in {"initialize", "store"} /\ calls[t].table = b
                          /\ i < calls[t].old + calls[t].delta
      BY DEF BeyondSizeThrows
    <2>1. PICK t \in Threads : Adding(t, b, i)
      BY DEF TableInv, OfTable
    <2>2. PICK c \in CallType : c = calls[t]
      BY DEF TableInv, TypeInv
    <2>3. c.old \in Nat /\ c.delta \in Nat /\ c.index \in Nat /\ i \in Nat
      BY NumReservedBounds DEF CallType
    <2>4. Progress(t)
      BY DEF TableInv, ThreadInv
    <2>5. c.step = "initialize" => c.index < c.old + c.delta
      BY <2>2, <2>4 DEF Progress
    <2> QED
      BY <2>1, <2>2, <2>3, <2>5 DEF Adding
  <1>2. Spec => []TableInv
    BY TableInvAlways
  <1> QED
    BY <1>1, <1>2, PTL

LEMMA KeepsElementsHolds ==
  ASSUME TableAssumption, TableInv
  PROVE  KeepsElements
  <1> SUFFICES ASSUME NEW t \in Threads, initElement(t)
               PROVE  ~ Accessible(calls[t].table, calls[t].index)
    BY DEF KeepsElements
  <1>1. calls[t].step = "initialize" /\ calls[t].step \in Growing
    BY DEF initElement, At, Growing
  <1>2. PICK c \in CallType, b \in Tables, s \in Tables \cup {None} : Grows(t, c, b, s)
    BY <1>1, ThreadGrows
  <1>3. calls[t] = c /\ c.step = "initialize" /\ c.table = b /\ Progress(t)
    BY <1>1, <1>2 DEF Grows, TableInv, ThreadInv
  <1>4. Locked(t, c, b) /\ c.old <= c.index
    BY <1>2, <1>3, GrowFacts DEF Progress
  <1>5. SUFFICES ASSUME Accessible(b, c.index)
                 PROVE  FALSE
    BY <1>3
  <1>6. c.index \in Indices
    BY <1>5 DEF Accessible
  <1>7. c.index < tables[b].numElements \/ Adding(t, b, c.index)
    BY <1>4, <1>5, <1>6, LockedAdding DEF Locked
  <1>8. c.index < c.old \/ c.index < c.index
    BY <1>3, <1>4, <1>7 DEF Locked, Adding
  <1>9. c.index \in Nat /\ c.old \in Nat
    BY DEF CallType
  <1> QED
    BY <1>4, <1>8, <1>9

\* Growing a table never overwrites an element that the program could already access.
THEOREM GrowthKeepsElementsAlways == TableAssumption /\ Spec => GrowthKeepsElements
  <1> SUFFICES ASSUME TableAssumption
               PROVE  Spec => GrowthKeepsElements
    OBVIOUS
  <1>1. TableInv => KeepsElements
    BY KeepsElementsHolds
  <1>2. Spec => []TableInv
    BY TableInvAlways
  <1> QED
    BY <1>1, <1>2, PTL DEF GrowthKeepsElements

-----------------------------------------------------------------------------
(* What a step means for the quota                                         *)

\* What a call has taken from the quota and not yet added to its table.
Taking == {"lock", "commit", "initialize", "store"}
Take(c) == IF c.step \in Taking THEN c.delta ELSE 0

\* The amount that allocate was or will be called with is a Uptr.
Bounded(c) == c.step \in Taking \cup {"quota"} => c.delta < Word

SameSize(a) == tables'[a].numElements = tables[a].numElements

SameSizes == \A a \in Tables : SameSize(a)

SameTakes == \A t \in Threads : Take(calls'[t]) = Take(calls[t]) /\ Bounded(calls'[t])

\* Thread t had taken some elements and has taken others now.
Takes(t, from, to) ==
  /\ Take(calls[t]) = from /\ Take(calls'[t]) = to /\ Bounded(calls'[t])
  /\ \A u \in Threads \ {t} : Take(calls'[u]) = Take(calls[u]) /\ Bounded(calls'[u])

Resizes(b, from, to) ==
  /\ tables[b].numElements = from /\ tables'[b].numElements = to
  /\ \A a \in Tables \ {b} : SameSize(a)

\* What a step means for the quota.
Quiet ==
  /\ SameSizes /\ SameTakes
  /\ elemQuota' \in [current : Uptr, max : Uptr] /\ elemQuota'.current = elemQuota.current

Reserves(t) ==
  \E n \in Uptr : SameSizes /\ Takes(t, 0, n) /\ allocate(n)

GivesBack(t) ==
  \E n \in Nat : SameSizes /\ Takes(t, n, 0) /\ free(n)

Adds(t, b) ==
  \E n, old \in Nat : Resizes(b, old, old + n) /\ Takes(t, n, 0) /\ UNCHANGED elemQuota

Destroys(b) ==
  \E n \in Nat : Resizes(b, n, 0) /\ SameTakes /\ free(n)

Small ==
  /\ elemQuota \in [current : Uptr, max : Uptr]
  /\ \A b \in Tables : tables[b].numElements < Word
  /\ \A t \in Threads : Bounded(calls[t])

LEMMA IdleTake == Take(Idle) = 0 /\ Bounded(Idle) /\ Table.numElements = 0
  BY DEF Idle, Take, Bounded, Taking, Table

LEMMA growQuiet ==
  ASSUME TableAssumption, TypeInv, Small, NEW t \in Threads, NEW b \in Tables, NEW v,
         \/ \E n \in Deltas : growTable(t, b, n, v)
         \/ createTable(t, b, v)
         \/ \E i \in Indices : setTableElement(t, b, i, v)
         \/ \E offset, n \in Uptr : table_fill(t, b, offset, n, v)
  PROVE  Quiet
<1>1. ASSUME NEW n \in Deltas, growTable(t, b, n, v)
      PROVE  Quiet
  <2>1. n \in Nat /\ n < Word
    BY DEF TableAssumption, Uptr
  <2> QED
    BY <1>1, <2>1, Zenon DEF growTable, Idle, At, Become, TypeInv, CallType, TableType, Small,
                      Quiet, SameSizes, SameTakes, SameSize, Take, Bounded, Taking
<1>2. CASE createTable(t, b, v)
  <2>1. TypeMin \in Nat /\ TypeMin < Word
    BY DEF TableAssumption, Uptr
  <2> QED
    BY <1>2, <2>1 DEF createTable, createTableImpl, Idle, At, Become, TypeInv, CallType, TableType,
                      Small, Quiet, SameSizes, SameTakes, SameSize, Take, Bounded, Taking
<1>3. ASSUME NEW i \in Indices, setTableElement(t, b, i, v)
      PROVE  Quiet
  BY <1>3 DEF setTableElement, TypeInv, TableType, Small, Quiet, SameSizes, SameTakes, SameSize
<1>4. ASSUME NEW offset \in Uptr, NEW n \in Uptr, table_fill(t, b, offset, n, v)
      PROVE  Quiet
  BY <1>4, Zenon DEF table_fill, Idle, At, Become, TypeInv, CallType, Small, Quiet, SameSizes, SameTakes,
              SameSize, Take, Bounded, Taking
<1> QED
  BY <1>1, <1>2, <1>3, <1>4

LEMMA copyQuiet ==
  ASSUME TypeInv, Small, NEW t \in Threads, NEW b \in Tables,
         \/ \E s \in Tables :
              \/ cloneTable(t, s, b)
              \/ \E offset, from, n \in Uptr : table_copy(t, b, offset, s, from, n)
         \/ \E offset, from, n \in Uptr : table_init(t, b, offset, from, n)
  PROVE  Quiet
<1>1. ASSUME NEW s \in Tables, cloneTable(t, s, b)
      PROVE  Quiet
  <2>1. PICK n \in Nat : n = tables[s].numElements /\ n < Word
    BY DEF TypeInv, TableType, Small
  <2>2. SameSizes
    BY <1>1, Zenon DEF cloneTable, createTableImpl, TypeInv, TableType, SameSizes, SameSize
  <2>3. SameTakes
    BY <1>1, <2>1, Zenon DEF cloneTable, Idle, At, Become, TypeInv, CallType, Small, SameTakes,
                      Take, Bounded, Taking
  <2> QED
    BY <1>1, <2>2, <2>3, Zenon DEF cloneTable, Quiet, Small
<1>2. ASSUME NEW s \in Tables, NEW offset \in Uptr, NEW from \in Uptr, NEW n \in Uptr,
             table_copy(t, b, offset, s, from, n)
      PROVE  Quiet
  BY <1>2, Zenon DEF table_copy, Idle, At, Become, TypeInv, CallType, Small, Quiet, SameSizes, SameTakes,
              SameSize, Take, Bounded, Taking
<1>3. ASSUME NEW offset \in Uptr, NEW from \in Uptr, NEW n \in Uptr, table_init(t, b, offset, from, n)
      PROVE  Quiet
  BY <1>3, Zenon DEF table_init, Idle, At, Become, TypeInv, CallType, Small, Quiet, SameSizes, SameTakes,
              SameSize, Take, Bounded, Taking
<1> QED
  BY <1>1, <1>2, <1>3

LEMMA writeQuiet ==
  ASSUME TypeInv, Small, NEW t \in Threads,
         \/ lockResizing(t) \/ initElement(t) \/ copyElement(t) \/ insertTable(t)
         \/ readElement(t) \/ writeElement(t)
  PROVE  Quiet
<1>1. CASE lockResizing(t)
  BY <1>1 DEF lockResizing, At, Become, TypeInv, CallType, TableType, Small, Quiet, SameSizes,
              SameTakes, SameSize, Take, Bounded, Taking
<1>2. CASE initElement(t)
  BY <1>2 DEF initElement, At, Become, TypeInv, CallType, TableType, Small, Quiet, SameSizes,
              SameTakes, SameSize, Take, Bounded, Taking
<1>3. CASE copyElement(t)
  <2>1. SameSizes /\ UNCHANGED elemQuota
    BY <1>3 DEF copyElement, UnlockSource, TypeInv, TableType, SameSizes, SameSize
  <2>2. CASE Goto(t, "insert")
    BY <1>3, <2>1, <2>2 DEF copyElement, At, Goto, TypeInv, CallType, Small, Quiet, SameTakes,
                            Take, Bounded, Taking
  <2>3. CASE Become(t, [calls[t] EXCEPT !.index = @ + 1])
    BY <1>3, <2>1, <2>3 DEF copyElement, At, Become, TypeInv, CallType, Small, Quiet, SameTakes,
                            Take, Bounded, Taking
  <2> QED
    BY <1>3, <2>2, <2>3 DEF copyElement
<1>4. CASE insertTable(t)
  BY <1>4 DEF insertTable, Return, Idle, At, Become, TypeInv, CallType, TableType, Small, Quiet,
              SameSizes, SameTakes, SameSize, Take, Bounded, Taking
<1>5. CASE readElement(t)
  <2>1. CASE Return(t)
    BY <1>5, <2>1 DEF readElement, Return, Idle, At, Become, TypeInv, CallType, Small, Quiet,
                      SameSizes, SameTakes, SameSize, Take, Bounded, Taking
  <2>2. ASSUME NEW v, Become(t, [calls[t] EXCEPT !.step = "write", !.value = v])
        PROVE  Quiet
    BY <1>5, <2>2 DEF readElement, At, Become, TypeInv, CallType, Small, Quiet,
                      SameSizes, SameTakes, SameSize, Take, Bounded, Taking
  <2> QED
    BY <1>5, <2>1, <2>2, Zenon DEF readElement
<1>6. CASE writeElement(t)
  <2>1. SameSizes /\ UNCHANGED elemQuota
    BY <1>6 DEF writeElement, SameSizes, SameSize, TypeInv, TableType
  <2>2. CASE Return(t)
    BY <1>6, <2>1, <2>2 DEF writeElement, Return, Idle, Become, TypeInv, CallType, Small, Quiet,
                            SameTakes, Take, Bounded, Taking
  <2>3. ASSUME NEW s \in {"read", "fill", "segment"},
               Become(t, [calls[t] EXCEPT !.index = @ + 1, !.step = s])
        PROVE  Quiet
    BY <1>6, <2>1, <2>3 DEF writeElement, Become, TypeInv, CallType, Small, Quiet,
                            SameTakes, Take, Bounded, Taking
  <2> QED
    BY <1>6, <2>2, <2>3, Zenon DEF writeElement
<1> QED
  BY <1>1, <1>2, <1>3, <1>4, <1>5, <1>6

\* What becomes of a call that could not grow its table.
LEMMA FailTakes ==
  ASSUME TypeInv, Small, NEW t \in Threads, Fail(t)
  PROVE  Takes(t, Take(calls[t]), 0)
<1>1. CASE Return(t)
  BY <1>1, IdleTake DEF Return, Become, TypeInv, Small, Takes
<1>2. CASE Goto(t, "delete")
  BY <1>2 DEF Goto, TypeInv, CallType, Small, Takes, Take, Bounded, Taking
<1> QED
  BY <1>1, <1>2 DEF Fail

LEMMA checkQuotaTakes ==
  ASSUME TableAssumption, TypeInv, Small, NEW t \in Threads, checkQuota(t)
  PROVE  Quiet \/ Reserves(t)
<1>1. PICK n \in Uptr : n = calls[t].delta
  BY DEF checkQuota, At, TypeInv, CallType, Small, Bounded, Uptr, TableAssumption
<1>2. SameSizes /\ Take(calls[t]) = 0
  BY DEF checkQuota, At, SameSizes, SameSize, Take, Taking
<1>3. CASE allocate(n) /\ Goto(t, "lock")
  <2>1. Takes(t, 0, n)
    BY <1>1, <1>2, <1>3 DEF checkQuota, At, Goto, TypeInv, CallType, Small, Takes, Take, Bounded, Taking
  <2> QED
    BY <1>2, <1>3, <2>1 DEF Reserves
<1>4. CASE Fail(t) /\ UNCHANGED elemQuota
  BY <1>2, <1>4, FailTakes DEF Quiet, SameTakes, Takes, Small
<1> QED
  BY <1>1, <1>3, <1>4 DEF checkQuota

LEMMA commitPagesTakes ==
  ASSUME TableAssumption, TypeInv, Small, NEW t \in Threads, NEW commitFails \in BOOLEAN,
         commitPages(t, commitFails)
  PROVE  Quiet \/ GivesBack(t)
<1>1. PICK n \in Nat : n = calls[t].delta /\ n = Take(calls[t])
  BY DEF commitPages, At, TypeInv, CallType, Take, Taking
<1>2. SameSizes
  <2>1. \A b : tables' = [tables EXCEPT ![b].resizing = None] => SameSizes
    BY DEF SameSizes, SameSize, TypeInv, TableType
  <2>2. \A b, e : tables' = [tables EXCEPT ![b].elements = e] => SameSizes
    BY DEF SameSizes, SameSize, TypeInv, TableType
  <2> QED
    BY <2>1, <2>2, Zenon DEF commitPages
<1>3. CASE free(n) /\ Fail(t)
  BY <1>1, <1>2, <1>3, FailTakes DEF GivesBack
<1>4. ASSUME NEW s \in {"initialize", "store"}, UNCHANGED elemQuota,
             Become(t, [calls[t] EXCEPT !.step = s, !.index = calls[t].old])
      PROVE  Quiet
  BY <1>2, <1>4 DEF commitPages, At, Become, TypeInv, CallType, Small, Quiet, SameTakes,
                    Take, Bounded, Taking
<1>5. AfterCommit(calls[t]) \in {"initialize", "store"}
  BY DEF AfterCommit
<1> QED
  BY <1>1, <1>3, <1>4, <1>5, Zenon DEF commitPages

LEMMA storeSizeTakes ==
  ASSUME TableAssumption, TableInv, Small, NEW t \in Threads, storeSize(t)
  PROVE  \E b \in Tables : Adds(t, b)
<1> TypeInv
  BY DEF TableInv
<1>1. /\ calls[t].step = "store" /\ calls[t].table \in Tables
      /\ calls[t].old = tables[calls[t].table].numElements
  BY DEF storeSize, At, TableInv, TypeInv, CallType, ThreadInv, Owns, Locks
<1>2. PICK b \in Tables, n \in Nat, old \in Nat :
        b = calls[t].table /\ n = calls[t].delta /\ old = calls[t].old
  BY <1>1 DEF TypeInv, CallType
<1>3. Resizes(b, old, old + n)
  BY <1>1, <1>2 DEF storeSize, Resizes, SameSize, TypeInv, TableType
<1>4. CASE Return(t)
  <2>1. Takes(t, n, 0)
    BY <1>1, <1>2, <1>4, IdleTake DEF Return, Become, TypeInv, Small, Takes, Take, Taking
  <2> QED
    BY <1>2, <1>3, <2>1 DEF Adds, storeSize
<1>5. ASSUME NEW s \in {"insert", "copy"}, Become(t, [calls[t] EXCEPT !.step = s, !.index = 0])
      PROVE  Adds(t, b)
  <2>1. Takes(t, n, 0)
    BY <1>1, <1>2, <1>5 DEF Become, TypeInv, CallType, Small, Takes, Take, Bounded, Taking
  <2> QED
    BY <1>2, <1>3, <2>1 DEF Adds, storeSize
<1> QED
  BY <1>4, <1>5, Zenon DEF storeSize

LEMMA destroyTakes ==
  ASSUME TableAssumption, TableInv, Small,
         (\E t \in Threads : deleteTable(t)) \/ (\E b \in Tables : collectTable(b))
  PROVE  \E b \in Tables : Destroys(b)
<1> TypeInv
  BY DEF TableInv
<1>1. ASSUME NEW t \in Threads, deleteTable(t)
      PROVE  \E b \in Tables : Destroys(b)
  <2>1. calls[t].step = "delete" /\ calls[t].table \in Tables
    BY <1>1 DEF deleteTable, At, TableInv, TypeInv, CallType, ThreadInv, Owns
  <2>2. PICK b \in Tables, n \in Nat : b = calls[t].table /\ n = tables[b].numElements
    BY <2>1 DEF TypeInv, TableType
  <2>3. \A a \in Tables : UnlockSource(t)[a].numElements = tables[a].numElements
    BY DEF UnlockSource, TypeInv, TableType
  <2>4. tables' = [UnlockSource(t) EXCEPT ![b] = Table] /\ DOMAIN UnlockSource(t) = Tables
    BY <1>1, <2>2 DEF deleteTable, UnlockSource
  <2>5. Resizes(b, n, 0)
    BY <2>2, <2>3, <2>4, IdleTake DEF Resizes, SameSize
  <2>6. SameTakes
    BY <1>1, <2>1, IdleTake DEF deleteTable, Return, Become, TypeInv, Small, SameTakes, Take, Taking
  <2> QED
    BY <1>1, <2>2, <2>5, <2>6 DEF Destroys, deleteTable
<1>2. ASSUME NEW b \in Tables, collectTable(b)
      PROVE  Destroys(b)
  <2>1. PICK n \in Nat : n = tables[b].numElements
    BY DEF TypeInv, TableType
  <2>2. Resizes(b, n, 0)
    BY <1>2, <2>1, IdleTake DEF collectTable, Resizes, SameSize, TypeInv
  <2>3. SameTakes
    BY <1>2 DEF collectTable, Small, SameTakes
  <2> QED
    BY <1>2, <2>1, <2>2, <2>3 DEF Destroys, collectTable
<1> QED
  BY <1>1, <1>2

\* Every step means one of these for the quota.
LEMMA QuotaSteps ==
  ASSUME TableAssumption, TableInv, Small, [Next]_vars
  PROVE  \/ Quiet
         \/ \E t \in Threads : Reserves(t) \/ GivesBack(t) \/ \E b \in Tables : Adds(t, b)
         \/ \E b \in Tables : Destroys(b)
<1> TypeInv
  BY DEF TableInv
<1>1. CASE UNCHANGED vars \/ elem_drop \/ \E n \in QuotaMaxes : setMax(n)
  <2>1. SameSizes /\ SameTakes
    BY <1>1 DEF vars, elem_drop, setMax, SameSizes, SameSize, SameTakes, Small
  <2>2. elemQuota' \in [current : Uptr, max : Uptr] /\ elemQuota'.current = elemQuota.current
    BY <1>1 DEF vars, elem_drop, setMax, Small, TableAssumption
  <2> QED
    BY <2>1, <2>2 DEF Quiet
<1>2. ASSUME NEW t \in Threads, Step(t)
      PROVE  \/ Quiet \/ Reserves(t) \/ GivesBack(t) \/ \E b \in Tables : Adds(t, b)
             \/ \E b \in Tables : Destroys(b)
  BY <1>2, writeQuiet, checkQuotaTakes, commitPagesTakes, storeSizeTakes, destroyTakes, Zenon
     DEF Step
<1>3. ASSUME NEW t \in Threads, NEW b \in Tables, Begin(t, b)
      PROVE  Quiet
  BY <1>3, growQuiet, copyQuiet, Zenon DEF Begin
<1> QED
  BY <1>1, <1>2, <1>3, destroyTakes, Zenon DEF Next
=============================================================================
