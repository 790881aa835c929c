----------------------------- MODULE TableGrow -----------------------------
(***************************************************************************)
(* WebAssembly tables (Lib/Runtime/Table.cpp): creation, growth, cloning   *)
(* and destruction under the element quota, and the accesses to elements   *)
(* that the threads of a program make meanwhile.                           *)
(*                                                                         *)
(* An access takes no lock and does not read the size.  It relies on what  *)
(* is stored: an address that was never committed faults, and an element   *)
(* of a committed page that nobody wrote is zero, which reads as the out-  *)
(* of-bounds sentinel.  Both are reported as an out-of-bounds access.      *)
(***************************************************************************)
EXTENDS Integers, Sequences, FiniteSets, FiniteSetsExt

CONSTANTS
  Threads, Tables, None,
  TypeMin, TypeMax,   \* type.size of every table, in elements
  MaxTableElems,      \* IR::maxTable32Elems
  PageElems,          \* the elements that fit in a page of the platform
  Word,               \* Uptr is 0 .. Word - 1
  Deltas,             \* the amounts passed to growTable
  QuotaMaxes,         \* the limits passed to setResourceQuotaMaxTableElems
  Objects,            \* what a program stores in tables
  Segment             \* the contents of the passive element segment

VARIABLES
  tables,      \* each table: whether it exists, its size, elements and mutex
  calls,       \* where each thread is in its call, and its locals
  elemQuota,   \* the quota: elements in use, and its limit
  elemSegment  \* whether the segment has its contents or was dropped

vars == <<tables, calls, elemQuota, elemSegment>>

Uptr == 0 .. Word - 1

TableAssumption ==
  /\ IsFiniteSet(Threads) /\ IsFiniteSet(Tables)
  /\ None \notin Threads \cup Tables
  /\ TypeMin \in Uptr /\ TypeMax \in Nat /\ MaxTableElems \in Nat
  /\ PageElems \in Nat \ {0} /\ Word \in Nat /\ MaxTableElems < Word
  /\ Deltas \subseteq Uptr /\ QuotaMaxes \subseteq Uptr
  /\ Segment \in Seq(Objects \cup {"uninitialized"})
  /\ Objects \cap {"fault", "outOfBounds"} = {}

\* createTableImpl reserves addresses for that many elements.
NumReserved == Min({TypeMax, MaxTableElems + 1})
Indices == 0 .. NumReserved - 1

\* What is at an index: nothing, one of the two sentinels or an object.
Inaccessible == {"fault", "outOfBounds"}
Elements == Objects \cup {"uninitialized"}

Table == [stage |-> "none", numElements |-> 0, resizing |-> None,
          elements |-> [i \in Indices |-> "fault"]]

Idle == [step |-> "idle", table |-> None, source |-> None, delta |-> 0, old |-> 0,
         index |-> 0, offset |-> 0, from |-> 0, value |-> None]

Init ==
  /\ tables = [b \in Tables |-> Table]
  /\ calls = [t \in Threads |-> Idle]
  /\ elemQuota = [current |-> 0, max |-> Word - 1]
  /\ elemSegment = TRUE

-----------------------------------------------------------------------------
\* CurrentAndMax, as for the pages of memories.
CanAllocate(n) ==
  /\ (elemQuota.current + n) % Word >= elemQuota.current
  /\ (elemQuota.current + n) % Word <= elemQuota.max

allocate(n) == CanAllocate(n) /\ elemQuota' = [elemQuota EXCEPT !.current = (@ + n) % Word]

free(n) == elemQuota' = [elemQuota EXCEPT !.current = (@ - n) % Word]

setMax(n) ==
  /\ elemQuota' = [elemQuota EXCEPT !.max = n]
  /\ UNCHANGED <<tables, calls, elemSegment>>

-----------------------------------------------------------------------------
At(t, step) == calls[t].step = step

Become(t, call) == calls' = [calls EXCEPT ![t] = call]

Goto(t, step) == calls' = [calls EXCEPT ![t].step = step]

Return(t) == Become(t, Idle)

InMap(b) == tables[b].stage = "inMap"

\* The call creates the table it grows.
Creating(t) == ~ InMap(calls[t].table)

\* growTableImpl returns to its caller or to a function that then deletes the
\* table it was creating.
Fail(t) == IF Creating(t) THEN Goto(t, "delete") ELSE Return(t)

-----------------------------------------------------------------------------
(* growTableImpl                                                           *)

\* growTable(table, 0) only reads the size.
growTable(t, b, n, v) ==
  /\ At(t, "idle") /\ InMap(b) /\ n # 0
  /\ Become(t, [Idle EXCEPT !.step = "quota", !.table = b, !.delta = n, !.value = v])
  /\ UNCHANGED <<tables, elemQuota, elemSegment>>

checkQuota(t) ==
  /\ At(t, "quota")
  /\ \/ allocate(calls[t].delta) /\ Goto(t, "lock")
     \/ ~ CanAllocate(calls[t].delta) /\ Fail(t) /\ UNCHANGED elemQuota
  /\ UNCHANGED <<tables, elemSegment>>

\* Mistake: the mutex is not taken.
CanLockUnlocked(b) == TRUE

CanLock(b) == tables[b].resizing = None

lockResizing(t) ==
  LET b == calls[t].table
  IN  /\ At(t, "lock") /\ CanLock(b)
      /\ tables' = [tables EXCEPT ![b].resizing = t]
      /\ Become(t, [calls[t] EXCEPT !.step = "commit", !.old = tables[b].numElements])
      /\ UNCHANGED <<elemQuota, elemSegment>>

Exceeds(old, n) ==
  \/ n > TypeMax \/ old > TypeMax - n
  \/ n > MaxTableElems \/ old > MaxTableElems - n

\* The elements in the pages that hold the first n elements.
Committed(n) == {i \in Indices : i \div PageElems < (n + PageElems - 1) \div PageElems}

\* Mistake: the new elements are left as the system gave them.
AfterCommitUnwritten(call) == "store"

\* A clone is not initialized: its elements are copied afterwards.
AfterCommit(call) == IF call.source = None THEN "initialize" ELSE "store"

\* Pages are only committed where the new elements need some.
commitPages(t, commitFails) ==
  LET c == calls[t]
      b == c.table
      new == Committed(c.old + c.delta) \ Committed(c.old)
      fails == Exceeds(c.old, c.delta) \/ (commitFails /\ new # {})
  IN  /\ At(t, "commit")
      /\ \/ /\ fails
            /\ free(c.delta)
            /\ tables' = [tables EXCEPT ![b].resizing = None]
            /\ Fail(t)
         \/ /\ ~ fails
            /\ tables' = [tables EXCEPT ![b].elements =
                 [i \in Indices |-> IF i \in new THEN "outOfBounds" ELSE @[i]]]
            /\ Become(t, [c EXCEPT !.step = AfterCommit(c), !.index = c.old])
            /\ UNCHANGED elemQuota
      /\ UNCHANGED elemSegment

\* The new elements are written one by one, before the size covers them.
initElement(t) ==
  LET c == calls[t]
  IN  /\ At(t, "initialize")
      /\ tables' = [tables EXCEPT ![c.table].elements[c.index] = c.value]
      /\ Become(t, [c EXCEPT !.index = @ + 1,
                             !.step = IF c.index + 1 = c.old + c.delta THEN "store" ELSE "initialize"])
      /\ UNCHANGED <<elemQuota, elemSegment>>

\* The new size is stored and the table unlocked.
storeSize(t) ==
  LET c == calls[t]
  IN  /\ At(t, "store")
      /\ tables' = [tables EXCEPT ![c.table].numElements = c.old + c.delta,
                                  ![c.table].resizing = None]
      /\ IF ~ Creating(t) THEN Return(t)
         ELSE Become(t, [c EXCEPT !.step = IF c.source = None THEN "insert" ELSE "copy",
                                  !.index = 0])
      /\ UNCHANGED <<elemQuota, elemSegment>>

-----------------------------------------------------------------------------
(* createTable, cloneTable, ~Table                                         *)

\* Addresses are reserved, and the table joins the global list before it has any
\* element.  When they cannot be reserved the table is deleted before anybody
\* has seen it and the call returns: nothing has changed.
createTableImpl(b) == [tables EXCEPT ![b].stage = "listed"]

createTable(t, b, v) ==
  /\ At(t, "idle") /\ tables[b].stage = "none"
  /\ tables' = createTableImpl(b)
  /\ Become(t, [Idle EXCEPT !.step = IF TypeMin = 0 THEN "insert" ELSE "quota",
                            !.table = b, !.delta = TypeMin, !.value = v])
  /\ UNCHANGED <<elemQuota, elemSegment>>

\* The original stays locked until its elements are copied.
cloneTable(t, s, b) ==
  LET n == tables[s].numElements
  IN  /\ At(t, "idle") /\ InMap(s) /\ tables[b].stage = "none" /\ CanLock(s)
      /\ tables' = [createTableImpl(b) EXCEPT ![s].resizing = t]
      /\ Become(t, [Idle EXCEPT !.step = IF n = 0 THEN "copy" ELSE "quota",
                                !.table = b, !.delta = n, !.source = s])
      /\ UNCHANGED <<elemQuota, elemSegment>>

UnlockSource(t) ==
  [b \in Tables |-> IF b = calls[t].source THEN [tables[b] EXCEPT !.resizing = None]
                    ELSE tables[b]]

copyElement(t) ==
  LET c == calls[t]
  IN  /\ At(t, "copy")
      /\ \/ /\ c.index < c.delta
            /\ tables' = [tables EXCEPT ![c.table].elements[c.index] =
                                           tables[c.source].elements[c.index]]
            /\ Become(t, [c EXCEPT !.index = @ + 1])
         \/ /\ c.index = c.delta
            /\ tables' = UnlockSource(t)
            /\ Goto(t, "insert")
      /\ UNCHANGED <<elemQuota, elemSegment>>

\* Under the compartment's mutex the table gets its id.
insertTable(t) ==
  /\ At(t, "insert")
  /\ tables' = [tables EXCEPT ![calls[t].table].stage = "inMap"]
  /\ Return(t)
  /\ UNCHANGED <<elemQuota, elemSegment>>

\* The table could not be grown to its first size.
deleteTable(t) ==
  LET b == calls[t].table
  IN  /\ At(t, "delete")
      /\ tables' = [UnlockSource(t) EXCEPT ![b] = Table]
      /\ free(tables[b].numElements)
      /\ Return(t)
      /\ UNCHANGED elemSegment

\* The garbage collector destroys a table that no thread can reach.
collectTable(b) ==
  /\ InMap(b)
  /\ \A t \in Threads : b \notin {calls[t].table, calls[t].source}
  /\ tables' = [tables EXCEPT ![b] = Table]
  /\ free(tables[b].numElements)
  /\ UNCHANGED <<calls, elemSegment>>

-----------------------------------------------------------------------------
(* Accesses of the program.  One that throws at once changes nothing and   *)
(* is left out.                                                            *)

Accessible(b, i) == i \in Indices /\ tables[b].elements[i] \notin Inaccessible

\* The test for the sentinel and the write are one compare-and-exchange.
setTableElement(t, b, i, v) ==
  /\ At(t, "idle") /\ InMap(b) /\ Accessible(b, i)
  /\ tables' = [tables EXCEPT ![b].elements[i] = v]
  /\ UNCHANGED <<calls, elemQuota, elemSegment>>

\* The bounds of table.copy, table.fill and table.init are tested once.
InBounds(offset, n, size) ==
  (offset + n) % Word <= size /\ (offset + n) % Word >= offset

table_fill(t, b, offset, n, v) ==
  /\ At(t, "idle") /\ InMap(b) /\ n # 0
  /\ InBounds(offset, n, tables[b].numElements)
  /\ Become(t, [Idle EXCEPT !.step = "fill", !.table = b, !.offset = offset, !.delta = n,
                            !.value = v])
  /\ UNCHANGED <<tables, elemQuota, elemSegment>>

table_copy(t, b, offset, s, from, n) ==
  /\ At(t, "idle") /\ InMap(b) /\ InMap(s) /\ n # 0
  /\ InBounds(from, n, tables[s].numElements)
  /\ InBounds(offset, n, tables[b].numElements)
  /\ Become(t, [Idle EXCEPT !.step = "read", !.table = b, !.offset = offset, !.delta = n,
                            !.source = s, !.from = from])
  /\ UNCHANGED <<tables, elemQuota, elemSegment>>

\* The call keeps the contents of the segment, which may be dropped meanwhile.
table_init(t, b, offset, from, n) ==
  /\ At(t, "idle") /\ InMap(b) /\ elemSegment /\ n # 0
  /\ InBounds(from, n, Len(Segment))
  /\ InBounds(offset, n, tables[b].numElements)
  /\ Become(t, [Idle EXCEPT !.step = "segment", !.table = b, !.offset = offset, !.delta = n,
                            !.from = from])
  /\ UNCHANGED <<tables, elemQuota, elemSegment>>

elem_drop ==
  /\ elemSegment /\ elemSegment' = FALSE
  /\ UNCHANGED <<tables, calls, elemQuota>>

\* A copy to higher indices goes down, so that an overlap is read before it is
\* overwritten.
Position(c) ==
  IF c.source # None /\ c.from < c.offset THEN c.delta - c.index - 1 ELSE c.index

readElement(t) ==
  LET c == calls[t]
      i == c.from + Position(c)
  IN  /\ At(t, "read")
      /\ IF Accessible(c.source, i)
           THEN Become(t, [c EXCEPT !.step = "write", !.value = tables[c.source].elements[i]])
           ELSE Return(t)
      /\ UNCHANGED <<tables, elemQuota, elemSegment>>

\* The next element of the call, which ends with the last one or throws.
writeElement(t) ==
  LET c == calls[t]
      i == c.offset + Position(c)
      v == IF c.step = "segment" THEN Segment[c.from + c.index + 1] ELSE c.value
  IN  /\ c.step \in {"fill", "segment", "write"}
      /\ IF Accessible(c.table, i)
           THEN tables' = [tables EXCEPT ![c.table].elements[i] = v]
           ELSE UNCHANGED tables
      /\ IF Accessible(c.table, i) /\ c.index + 1 < c.delta
           THEN Become(t, [c EXCEPT !.index = @ + 1,
                                    !.step = IF @ = "write" THEN "read" ELSE @])
           ELSE Return(t)
      /\ UNCHANGED <<elemQuota, elemSegment>>

-----------------------------------------------------------------------------
\* The steps a call takes on its own.
Step(t) ==
  \/ checkQuota(t) \/ lockResizing(t) \/ initElement(t) \/ storeSize(t)
  \/ \E commitFails \in BOOLEAN : commitPages(t, commitFails)
  \/ copyElement(t) \/ insertTable(t) \/ deleteTable(t)
  \/ readElement(t) \/ writeElement(t)

\* The program makes a call.
Begin(t, b) ==
  /\ At(t, "idle")
  /\ \/ \E v \in Elements :
          \/ createTable(t, b, v)
          \/ \E n \in Deltas : growTable(t, b, n, v)
          \/ \E i \in Indices : setTableElement(t, b, i, v)
          \/ \E offset, n \in Uptr : table_fill(t, b, offset, n, v)
     \/ \E s \in Tables :
          \/ cloneTable(t, s, b)
          \/ \E offset, from, n \in Uptr : table_copy(t, b, offset, s, from, n)
     \/ \E offset, from, n \in Uptr : table_init(t, b, offset, from, n)

Next ==
  \/ \E t \in Threads : Step(t) \/ \E b \in Tables : Begin(t, b)
  \/ \E b \in Tables : collectTable(b)
  \/ \E n \in QuotaMaxes : setMax(n)
  \/ elem_drop

Spec == Init /\ [][Next]_vars

\* The operating system keeps running every thread that is not waiting.
FairSpec == Spec /\ \A t \in Threads : WF_vars(Step(t))

-----------------------------------------------------------------------------
(* Properties                                                              *)

\* Threads that have taken elements from the quota and not yet added them to a
\* table.
Reserving == {t \in Threads : calls[t].step \in {"lock", "commit", "initialize", "store"}}

\* The elements of the tables, and those the threads have taken for them.
InUse == {x \in Tables \X Uptr : x[2] < tables[x[1]].numElements}
Reserved == {x \in Reserving \X Uptr : x[2] < calls[x[1]].delta}

\* The quota is exact: the elements in use are those of the tables and those that
\* a growTableImpl in progress has set aside, whatever fails.
QuotaExact == elemQuota.current = Cardinality(InUse) + Cardinality(Reserved)

\* An access beyond the size of a table throws, except to an element that a
\* growTableImpl is about to add.
BeyondSizeThrows ==
  \A b \in Tables, i \in Indices : Accessible(b, i) =>
    \/ i < tables[b].numElements
    \/ \E t \in Threads : /\ calls[t].step \in {"initialize", "store"} /\ calls[t].table = b
                           /\ i < calls[t].old + calls[t].delta

\* A table.copy, table.fill or table.init whose bounds were in range does not throw
\* half way, although it tests them only once and takes no lock while other threads
\* grow, clone and write the tables.
BulkNeverThrows ==
  \A t \in Threads :
    LET c == calls[t]
    IN  /\ c.step = "read" => Accessible(c.source, c.from + Position(c))
        /\ c.step \in {"fill", "segment", "write"} => Accessible(c.table, c.offset + Position(c))

\* Growing a table never changes an element that the program could already access:
\* what it stored there is not overwritten by an initialization that comes late.
KeepsElements ==
  \A t \in Threads : initElement(t) => ~ Accessible(calls[t].table, calls[t].index)

GrowthKeepsElements == [][KeepsElements]_vars

\* Threads that create, clone and grow tables do not all wait for each other.
NotAllStuck == (\A t \in Threads : ~ At(t, "idle")) ~> (\E t \in Threads : At(t, "idle"))
=============================================================================
