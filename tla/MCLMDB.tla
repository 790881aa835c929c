---------------------------------- MODULE MCLMDB ----------------------------------
(*********************************************************************************)
(* Model checking LMDB.                                                           *)
(*********************************************************************************)
EXTENDS LMDB

\* Four transactions with a crash and a failed write anywhere among them, and six without
\* in a larger map, in which the database of free pages grows to two leaves and shrinks.
MCLimits ==
    {[pages |-> 11, txnid |-> 4, crashes |-> 1, failures |-> 1],
     [pages |-> 13, txnid |-> 6, crashes |-> 0, failures |-> 0]}

\* The pages a content refers to.
Refs(content) ==
    IF "kids" \in DOMAIN content THEN Range(content.kids)
    ELSE IF IsBranch(content) THEN Range(content.leaf) ELSE {}

\* Every root that the page cache or the disk, a reader or the writer may use.
Roots ==
    UNION {{m.main, m.free} : m \in {cache[pg] : pg \in Metas} \cup {synced[pg] : pg \in Metas}}
    \cup {reader[p].main : p \in {q \in Procs : reader[q].pc = "active"}}
    \cup (IF txn.pc = "none" THEN {} ELSE {txn.main, txn.free})

\* The pages that can be read without being written first.
Reachable ==
    LET roots == Roots \ {P_INVALID}
    IN  Metas \cup roots \cup (UNION {Refs(cache[pg]) \cup Refs(synced[pg]) : pg \in roots} \ {P_INVALID})

\* States that differ only in pages nobody can read are the same.
ReadableState ==
    <<Restrict(cache, Reachable), Restrict(synced, Reachable),
      mti_txnid, slots, wmutex, env, reader, txn, hist, acked, raced, limits>>
==================================================================================
