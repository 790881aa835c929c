---------------------------------- MODULE LMDB ----------------------------------
(*********************************************************************************)
(* The transaction layer of liblmdb (ThirdParty/liblmdb/mdb.c), which stores the *)
(* object cache: copy-on-write pages, the reader table, reuse of freed pages, the*)
(* two meta pages, and what survives when a process or the system crashes.       *)
(*                                                                               *)
(* The environment is opened as ObjectCache.cpp opens it: MDB_NOMETASYNC, thread *)
(* local reader slots, robust POSIX mutexes.  Each process has one thread that   *)
(* reads and one that writes.                                                    *)
(*                                                                               *)
(* The main database is a branch page over one leaf per key, a leaf holding the  *)
(* ID of the transaction that wrote it.  The database of free pages (FREE_DBI),  *)
(* which a commit changes while it allocates from it, is a leaf of records of one*)
(* size, or a branch page over such leaves that splits and merges.  The shape of *)
(* deeper trees is the subject of BTree.tla.                                     *)
(*********************************************************************************)
EXTENDS Integers, Sequences, FiniteSets, FiniteSetsExt, Functions, TLC

CONSTANTS
    Procs,          \* processes that open the environment
    Readers,        \* those that start read transactions
    Writers,        \* those that start write transactions
    Keys,           \* keys of the main database
    MaxFree1Pg,     \* me_maxfree_1pg
    LeafRecords,    \* records of free pages that fit in a page
    NumSlots,       \* me_maxreaders
    MaxTxnId,       \* bound on transaction IDs
    MaxEdits,       \* bound on the edits of one transaction
    Limits,         \* what a behaviour may go to, see the variable limits
    NoProc,         \* no process: pid 0, or an unlocked mutex
    DeadProc        \* the pid of some process that has exited

ASSUME LMDBAssumption ==
    /\ Readers \subseteq Procs /\ Writers \subseteq Procs /\ NoProc \notin Procs /\ DeadProc \notin Procs /\ NoProc # DeadProc
    /\ MaxFree1Pg \in Nat \ {0} /\ NumSlots \in Nat
    /\ LeafRecords \in 2 .. 3   \* one record is more than a quarter of a page
    /\ MaxTxnId \in Nat /\ MaxEdits \in Nat
    /\ \A l \in Limits : l \in [pages : Nat \ 0 .. 2, txnid : 0 .. MaxTxnId, crashes : Nat, failures : Nat]

VARIABLES
    cache,      \* the data file as mapped by every process: page number -> content
    synced,     \* the data file at the last sync
    mti_txnid,  \* lock file: ID of the last committed transaction
    slots,      \* lock file: the reader table
    wmutex,     \* lock file: owner of the writer mutex
    env,        \* process -> its MDB_env
    reader,     \* process -> the transaction of its reading thread
    txn,        \* the write transaction of the owner of wmutex
    hist,       \* history: transaction ID -> what that transaction committed
    acked,      \* history: ID of the last transaction whose commit returned
    raced,      \* history: see below
    limits      \* me_maxpg, the map holding the pages 0 .. pages - 1, the last
                \* transaction ID, and the crashes and failed writes still to come

\* raced says that one of three things has happened against which the code has no
\* protection.  A process that opens the environment has stored an ID that is not the
\* last commit's (mdb_env_open2), a meta page was overwritten, and not committed, while
\* a reader was about to copy it (writeMetaFails), or the ID of a transaction that has
\* failed is left in its meta page (restoreMeta).  No property speaks of what follows.

vars == <<cache, synced, mti_txnid, slots, wmutex, env, reader, txn, hist, acked, raced, limits>>

disk == <<cache, synced>>
lockFile == <<mti_txnid, slots, wmutex>>
history == <<hist, acked, raced>>

NUM_METAS == 2
P_INVALID == 0
Metas == 0 .. NUM_METAS - 1
Pgnos == NUM_METAS .. limits.pages - 1
Slots == 1 .. NumSlots
NoTxnId == MaxTxnId + 1          \* (txnid_t)-1

EmptyMap == [k \in Keys |-> 0]
NoTxn == [pc |-> "none"]

---------------------------------------------------------------------------------
(* Reading a snapshot *)

\* The content of the main database under a root, in a view of the pages.
Content(view, root) ==
    IF root = P_INVALID THEN EmptyMap
    ELSE [k \in Keys |-> IF view[root].kids[k] = P_INVALID THEN 0
                         ELSE view[view[root].kids[k]].val]

\* The pages of the main database under a root.
MainPages(view, root) ==
    IF root = P_INVALID THEN {}
    ELSE {root} \cup ({view[root].kids[k] : k \in Keys} \ {P_INVALID})

\* The pages of the database of free pages.  A branch page holds a function from the
\* least ID of a leaf, 0 for the first, to the leaf.
IsBranch(page) == "leaf" \in DOMAIN page

FreePages(view, root) ==
    IF root = P_INVALID THEN {}
    ELSE {root} \cup (IF IsBranch(view[root]) THEN Range(view[root].leaf) ELSE {})

FreeRecords(view, root) ==
    LET leaves == {pg \in FreePages(view, root) : ~IsBranch(view[pg])}
        holder(id) == CHOOSE pg \in leaves : id \in DOMAIN view[pg].recs
    IN  [id \in UNION {DOMAIN view[pg].recs : pg \in leaves} |-> view[holder(id)].recs[id]]

\* The newest of the two meta pages.
mdb_env_pick_meta == IF cache[0].txnid < cache[1].txnid THEN cache[1] ELSE cache[0]

---------------------------------------------------------------------------------
(* Pages of a write transaction.  The operators take the transaction t and return *)
(* what becomes of it; ok is FALSE when MDB_MAP_FULL was returned.                 *)

\* F(v), v being evaluated once.
With(v, F(_)) == CHOOSE r \in {F(x) : x \in {v}} : TRUE

View(t) == t.dirty @@ cache
Recs(t) == FreeRecords(View(t), t.free)

\* Mistake: readers are not looked at.
oldestIgnoresReaders(t) == t.txnid - 1

\* The oldest snapshot that a reader, or the last commit, still needs.
mdb_find_oldest(t) ==
    Min({t.txnid - 1} \cup {slots[i].txnid : i \in {j \in Slots : slots[j].pid # NoProc}})

\* IDs of the records of FREE_DBI that mdb_page_alloc may take given an oldest snapshot.
Takeable(t, oldest) == {id \in DOMAIN Recs(t) : t.pglast < id /\ id < oldest}

\* Does the loop of mdb_page_alloc run into a record too recent for me_pgoldest?
NeedsOldest(t) ==
    LET taken == Takeable(t, t.pgoldest)
        last == Max(taken \cup {t.pglast})
    IN  /\ \A id \in taken : Recs(t)[id] = {}
        /\ \/ t.pgoldest <= last + 1
           \/ \E id \in DOMAIN Recs(t) : last < id

\* me_pgoldest is brought up to date when it stands in the way.
RefreshOldest(t) ==
    IF NeedsOldest(t) THEN [t EXCEPT !.pgoldest = mdb_find_oldest(t)] ELSE t

\* Merge records into me_pghead until it has a page, or none is left to take.
TakeRecords(t) ==
    LET ids == Takeable(t, t.pgoldest)
        full == {id \in ids : Recs(t)[id] # {}}
        last == IF full # {} THEN Min(full) ELSE Max(ids \cup {t.pglast})
    IN  [t EXCEPT !.pglast = last,
                  !.hasHead = @ \/ ids # {},
                  !.pghead = IF full # {} THEN Recs(t)[last] ELSE {}]

Got(t, pg) == [t |-> t, pg |-> pg, ok |-> TRUE]

\* A page of me_pghead, the lowest, else a new one from the map.
PageFromHead(t) ==
    IF t.pghead # {} THEN Got([t EXCEPT !.pghead = @ \ {Min(@)}], Min(t.pghead))
    ELSE IF t.next + 1 < limits.pages THEN Got([t EXCEPT !.next = @ + 1], t.next)
    ELSE [t |-> t, pg |-> P_INVALID, ok |-> FALSE]

\* One page: a loose one if there is any.
mdb_page_alloc(t) ==
    IF t.loose # <<>> THEN Got([t EXCEPT !.loose = Tail(@)], Head(t.loose))
    ELSE IF t.pghead # {} THEN PageFromHead(t)
    ELSE With(RefreshOldest(t), LAMBDA u : With(TakeRecords(u), PageFromHead))

Fresh(t, pg, content) == [t EXCEPT !.dirty = (pg :> content) @@ @]

\* A new page with a content.
mdb_page_new(t, content) ==
    With(mdb_page_alloc(t),
         LAMBDA a : IF a.ok THEN [a EXCEPT !.t = Fresh(a.t, a.pg, content)] ELSE a)

\* A writable version of a page: the page itself when it is dirty, else a copy.
mdb_page_touch(t, pg) ==
    IF pg \in DOMAIN t.dirty THEN Got(t, pg)
    ELSE With(mdb_page_new(t, cache[pg]),
              LAMBDA a : IF a.ok THEN [a EXCEPT !.t.free_pgs = @ \cup {pg}] ELSE a)

\* Free a dirty page for reuse in the same transaction.
mdb_page_loose(t, pg) ==
    [t EXCEPT !.loose = <<pg>> \o @, !.dirty = Restrict(@, DOMAIN @ \ {pg})]

\* Make the root of the main database writable, creating it in an empty database.
TouchMain(t) ==
    With(IF t.main = P_INVALID THEN mdb_page_new(t, [kids |-> [k \in Keys |-> P_INVALID]])
         ELSE mdb_page_touch(t, t.main),
         LAMBDA a : IF a.ok THEN [a EXCEPT !.t.main = a.pg] ELSE a)

\* The leaf for an ID, under a branch page that is writable.
TouchLeaf(t, id) ==
    LET leaf == t.dirty[t.free].leaf
        least == Max({n \in DOMAIN leaf : n <= id})
    IN  With(mdb_page_touch(t, leaf[least]),
             LAMBDA a : IF a.ok THEN [a EXCEPT !.t.dirty[t.free].leaf[least] = a.pg] ELSE a)

\* Make the leaf for an ID in the database of free pages writable, and the root above it,
\* which is created if there is none.
TouchFree(t, id) ==
    With(IF t.free = P_INVALID THEN mdb_page_new(t, [recs |-> <<>>])
         ELSE mdb_page_touch(t, t.free),
         LAMBDA a : IF ~a.ok THEN a
                    ELSE IF ~IsBranch(a.t.dirty[a.pg]) THEN [a EXCEPT !.t.free = a.pg]
                    ELSE TouchLeaf([a.t EXCEPT !.free = a.pg], id))

SetKid(t, k, pg) == [t EXCEPT !.dirty[t.main].kids[k] = pg]
Kid(t, k) == View(t)[t.main].kids[k]

\* What follows the allocation a; when it failed the transaction has MDB_TXN_ERROR and
\* can only be aborted.
Then(a, F(_)) == With(a, LAMBDA x : IF x.ok THEN F(x) ELSE [x.t EXCEPT !.pc = "error"])

\* Store a value under a key.
PutKey(t, k) ==
    LET page(u) == IF Kid(u, k) = P_INVALID THEN mdb_page_new(u, [val |-> t.txnid])
                   ELSE mdb_page_touch(u, Kid(u, k))
    IN  Then(TouchMain(t), LAMBDA a :
            Then(page(a.t), LAMBDA b : SetKid(Fresh(b.t, b.pg, [val |-> t.txnid]), k, b.pg)))

\* The root of a tree left empty is freed.
FreeEmptyMain(t) ==
    IF \E k \in Keys : Kid(t, k) # P_INVALID THEN t
    ELSE [t EXCEPT !.free_pgs = @ \cup {t.main}, !.main = P_INVALID]

\* Delete a key.  Its page is loosened.
DelKey(t, k) ==
    Then(TouchMain(t), LAMBDA a :
        Then(mdb_page_touch(a.t, Kid(a.t, k)), LAMBDA b :
            With(SetKid(mdb_page_loose(b.t, b.pg), k, P_INVALID), FreeEmptyMain)))

---------------------------------------------------------------------------------
(* mdb_freelist_save, one iteration of its loop at a time.  Its locals are in      *)
(* t.save; a reserved record is empty and has its length in save.room.             *)

SaveLocals == [pglast |-> 0, freecnt |-> 0, head_id |-> 0, head_room |-> 0,
               total_room |-> 0, more |-> 1, room |-> <<>>]

SetRecs(t, pg, recs) == [t EXCEPT !.dirty[pg].recs = recs]

\* The lowest n members of a set of page numbers or IDs.
Lowest(S, n) == {x \in S : Cardinality({y \in S : y < x}) < n}

\* mdb_page_split of a leaf: its upper records go to a new page, below a new root if the
\* leaf was the root.
SplitLeaf(t, pg, recs, id) ==
    LET ids == DOMAIN recs
        left == Lowest(ids, IF id = Max(ids) THEN LeafRecords - 1 ELSE LeafRecords)
        low == Restrict(recs, left)
        high == Restrict(recs, ids \ left)
        linked(u, right) == [u EXCEPT !.dirty[u.free].leaf = (Min(DOMAIN high) :> right) @@ @]
    IN  Then(mdb_page_new(SetRecs(t, pg, low), [recs |-> high]), LAMBDA a :
            IF pg # t.free THEN linked(a.t, a.pg)
            ELSE Then(mdb_page_new(a.t, [leaf |-> (0 :> pg)]), LAMBDA b :
                    linked([b.t EXCEPT !.free = b.pg], a.pg)))

\* mdb_cursor_put of a record of free pages.
PutRecord(t, pg, id, pages) ==
    LET recs == (id :> pages) @@ t.dirty[pg].recs
    IN  IF Cardinality(DOMAIN recs) <= LeafRecords THEN SetRecs(t, pg, recs)
        ELSE SplitLeaf(t, pg, recs, id)

\* Mistake: loose pages are forgotten.
SaveStartDropsLoose(t) ==
    Then(IF t.hasHead /\ t.free # P_INVALID THEN TouchFree(t, 0) ELSE Got(t, P_INVALID), LAMBDA a :
        [a.t EXCEPT !.pc = "save", !.save = SaveLocals, !.loose = IF t.hasHead THEN @ ELSE <<>>])

\* Before the loop: touch the first page of the free database if records were taken
\* from it; otherwise loose pages join the pages this transaction frees.
SaveStart(t) ==
    Then(IF t.hasHead /\ t.free # P_INVALID THEN TouchFree(t, 0) ELSE Got(t, P_INVALID), LAMBDA a :
        [a.t EXCEPT !.pc = "save", !.save = SaveLocals,
                    !.free_pgs = IF t.hasHead THEN @ ELSE @ \cup Range(t.loose),
                    !.loose = IF t.hasHead THEN @ ELSE <<>>])

\* mdb_rebalance after the first leaf was left empty: the root is freed, or the leaf takes
\* a record from the next one, or all of it.  The root of a tree with one leaf is freed.
RebalanceFirst(t, pg) ==
    LET leaf == t.dirty[t.free].leaf
        next == Min(DOMAIN leaf \ {0})
        recs == View(t)[leaf[next]].recs
        first == Min(DOMAIN recs)
        rest == Restrict(recs, DOMAIN recs \ {first})
        rekeyed(right) == (Min(DOMAIN rest) :> right) @@ Restrict(leaf, DOMAIN leaf \ {next})
        merged == [SetRecs(t, pg, recs) EXCEPT !.free_pgs = @ \cup {leaf[next]}]
    IN  IF pg = t.free THEN [t EXCEPT !.free_pgs = @ \cup {pg}, !.free = P_INVALID]
        ELSE IF rest # <<>>
        THEN Then(mdb_page_touch(t, leaf[next]), LAMBDA a :
                [SetRecs(SetRecs(a.t, pg, (first :> recs[first])), a.pg, rest)
                    EXCEPT !.dirty[t.free].leaf = rekeyed(a.pg)])
        ELSE IF Cardinality(DOMAIN leaf) > 2
        THEN [merged EXCEPT !.dirty[t.free].leaf = Restrict(@, DOMAIN @ \ {next})]
        ELSE [merged EXCEPT !.free_pgs = @ \cup {t.free}, !.free = pg]

\* mdb_cursor_del of the first record.
DeleteRecord(t, pg, id) ==
    With(Restrict(t.dirty[pg].recs, DOMAIN t.dirty[pg].recs \ {id}), LAMBDA recs :
        IF recs # <<>> THEN SetRecs(t, pg, recs) ELSE RebalanceFirst(SetRecs(t, pg, recs), pg))

\* Delete the first record, which mdb_page_alloc has taken or this loop has reserved.
SaveDelete(t) ==
    LET id == Min(DOMAIN Recs(t)) IN
    Then(TouchFree(t, id), LAMBDA a :
        [DeleteRecord(a.t, a.pg, id) EXCEPT !.save.pglast = id, !.save.head_id = id,
            !.save.head_room = 0, !.save.total_room = 0,
            !.save.room = Restrict(@, DOMAIN @ \ {id})])

\* Mistake: freecnt is not brought up to date, so the list is saved again.
SaveFreedForgets(t) ==
    Then(TouchFree(t, t.txnid), LAMBDA a : PutRecord(a.t, a.pg, t.txnid, a.t.free_pgs))

\* Write the pages this transaction has freed to the record with its own ID.
SaveFreed(t) ==
    Then(TouchFree(t, t.txnid), LAMBDA a :
        [PutRecord(a.t, a.pg, t.txnid, a.t.free_pgs)
            EXCEPT !.save.freecnt = Cardinality(a.t.free_pgs)])

\* Reserve records for what is left of me_pghead, under IDs no reader can be using.
SaveReserve(t) ==
    LET s == t.save
        mop_len == Cardinality(t.pghead) + Len(t.loose)
        enough == s.total_room >= mop_len
        newRecord == ~enough /\ s.head_room >= MaxFree1Pg /\ s.head_id > 1
        id == IF newRecord THEN s.head_id - 1 ELSE s.head_id
        others == IF newRecord THEN s.total_room ELSE s.total_room - s.head_room
        want == mop_len - others
        amortized == want \div id
        room == IF want > MaxFree1Pg /\ id > 1
                THEN (amortized + MaxFree1Pg) - (amortized % (MaxFree1Pg + 1))
                ELSE Max({want, 0})
    IN  IF enough /\ (s.total_room = mop_len \/ s.more = 0)
        THEN [t EXCEPT !.pc = "fill"]
        ELSE Then(TouchFree(t, id), LAMBDA a :
                [PutRecord(a.t, a.pg, id, {})
                    EXCEPT !.save.head_id = id, !.save.head_room = room,
                           !.save.total_room = others + room,
                           !.save.more = IF enough THEN @ - 1 ELSE @,
                           !.save.room = (id :> room) @@ @])

SaveStep(t) ==
    IF t.save.pglast < t.pglast THEN SaveDelete(t)
    ELSE IF t.save.freecnt < Cardinality(t.free_pgs) THEN SaveFreed(t)
    ELSE SaveReserve(t)

\* Pages of me_pghead that go to a reserved record: each takes the lowest left by the
\* records before it.
Filled(t, pages, id) ==
    LET before(n) == SumFunctionOnSet(t.save.room, {i \in DOMAIN t.save.room : i < n})
    IN  Lowest(pages, before(id + 1)) \ Lowest(pages, before(id))

\* After the loop: loose pages return to me_pghead, whose pages fill the records.
SaveFill(t) ==
    LET pages == t.pghead \cup Range(t.loose)
        fill == [id \in DOMAIN t.save.room |-> Filled(t, pages, id)]
        leaves == {pg \in FreePages(View(t), t.free) \cap DOMAIN t.dirty : ~IsBranch(t.dirty[pg])}
        filled(recs) == [id \in DOMAIN recs |-> IF id \in DOMAIN fill THEN fill[id] ELSE recs[id]]
        written == [pg \in leaves |-> [recs |-> filled(t.dirty[pg].recs)]]
    IN  [t EXCEPT !.pc = "flush", !.dirty = IF pages = {} THEN @ ELSE written @@ @, !.loose = <<>>, !.pghead = {}, !.hasHead = FALSE,
                   !.save = SaveLocals]

---------------------------------------------------------------------------------
Init ==
    /\ limits \in Limits
    /\ cache = [pg \in 0 .. limits.pages - 1 |->
                  IF pg \in Metas
                  THEN [txnid |-> 0, free |-> P_INVALID, main |-> P_INVALID, last |-> NUM_METAS - 1]
                  ELSE [val |-> 0]]
    /\ synced = cache
    /\ mti_txnid = 0
    /\ slots = [i \in Slots |-> [pid |-> NoProc, txnid |-> NoTxnId]]
    /\ wmutex = NoProc
    /\ env = [p \in Procs |-> [pc |-> "closed", txnid |-> 0, pgoldest |-> 0]]
    /\ reader = [p \in Procs |-> [pc |-> "none"]]
    /\ txn = NoTxn
    /\ hist = (0 :> EmptyMap)
    /\ acked = 0
    /\ raced = FALSE

---------------------------------------------------------------------------------
(* Opening and closing the environment *)

\* Does nobody else hold the lock on the lock file?
Exclusive(p) == \A q \in Procs \ {p} : env[q].pc = "closed"

\* mdb_env_open: lock the lock file, initialize it when the lock is exclusive, and
\* read both meta pages.  An exclusive opener keeps others out until it is done.
mdb_env_open(p) ==
    /\ env[p].pc = "closed"
    /\ \A q \in Procs : env[q].pc # "opening_excl"
    /\ env' = [env EXCEPT ![p] = [pc |-> IF Exclusive(p) THEN "opening_excl" ELSE "opening",
                                  txnid |-> mdb_env_pick_meta.txnid, pgoldest |-> 0]]
    /\ IF Exclusive(p)
       THEN /\ mti_txnid' = 0
            /\ slots' = [i \in Slots |-> [pid |-> NoProc, txnid |-> NoTxnId]]
            /\ wmutex' = NoProc
       ELSE UNCHANGED lockFile
    /\ UNCHANGED <<disk, reader, txn, history, limits>>

\* Mistake: the ID is not published.
openUnpublished(p) ==
    /\ env[p].pc \in {"opening", "opening_excl"}
    /\ env' = [env EXCEPT ![p].pc = "open", ![p].txnid = 0]
    /\ UNCHANGED <<disk, lockFile, reader, txn, history, limits>>

\* The end of mdb_env_open2: the ID read from the meta pages is published, without the
\* writer mutex.  It is out of date if another process has committed in between.
mdb_env_open2(p) ==
    /\ env[p].pc \in {"opening", "opening_excl"}
    /\ mti_txnid' = env[p].txnid
    /\ env' = [env EXCEPT ![p].pc = "open", ![p].txnid = 0]
    /\ raced' = (raced \/ env[p].txnid \notin {mti_txnid, Max(DOMAIN hist)})
    /\ UNCHANGED <<disk, slots, wmutex, reader, txn, hist, acked, limits>>

\* Reader slots of a set of processes given up.
ClearSlots(pids) ==
    [i \in Slots |-> IF slots[i].pid \in pids THEN [slots[i] EXCEPT !.pid = NoProc] ELSE slots[i]]

\* mdb_env_close: by the application, once its transactions have ended.
mdb_env_close(p) ==
    /\ env[p].pc \in {"open", "fatal"}
    /\ reader[p].pc \in {"none", "slot"}
    /\ wmutex # p
    /\ slots' = ClearSlots({p})
    /\ env' = [env EXCEPT ![p] = [pc |-> "closed", txnid |-> 0, pgoldest |-> 0]]
    /\ reader' = [reader EXCEPT ![p] = [pc |-> "none"]]
    /\ UNCHANGED <<disk, mti_txnid, wmutex, txn, history, limits>>

---------------------------------------------------------------------------------
(* Read transactions: mdb_txn_renew0 with MDB_TXN_RDONLY *)

\* The slot a reading thread has, or the first free one, claimed under the reader mutex.
SlotOf(p, i) ==
    IF reader[p].pc = "slot" THEN i = reader[p].slot
    ELSE slots[i].pid = NoProc /\ \A j \in Slots : j < i => slots[j].pid # NoProc

\* Load mti_txnid, to be stored in the slot.
loadTxnId(p) ==
    /\ p \in Readers /\ env[p].pc = "open" /\ reader[p].pc \in {"none", "slot"}
    /\ \E i \in Slots :
         /\ SlotOf(p, i)
         /\ slots' = [slots EXCEPT ![i] = [pid |-> p, txnid |-> NoTxnId]]
         /\ reader' = [reader EXCEPT ![p] = [pc |-> "loaded", slot |-> i, txnid |-> mti_txnid]]
    /\ UNCHANGED <<disk, mti_txnid, wmutex, env, txn, history, limits>>

storeTxnId(p) ==
    /\ reader[p].pc = "loaded"
    /\ slots' = [slots EXCEPT ![reader[p].slot].txnid = reader[p].txnid]
    /\ reader' = [reader EXCEPT ![p].pc = "stored"]
    /\ UNCHANGED <<disk, mti_txnid, wmutex, env, txn, history, limits>>

\* Mistake: no retry.
checkNothing(p) ==
    /\ reader[p].pc = "stored"
    /\ reader' = [reader EXCEPT ![p].pc = "checked"]
    /\ UNCHANGED <<disk, lockFile, env, txn, history, limits>>

\* The slot holds the latest ID, or the pair of steps is retried.
checkTxnId(p) ==
    /\ reader[p].pc = "stored"
    /\ reader' = [reader EXCEPT ![p] = IF @.txnid = mti_txnid THEN [@ EXCEPT !.pc = "checked"]
                                        ELSE [@ EXCEPT !.pc = "loaded", !.txnid = mti_txnid]]
    /\ UNCHANGED <<disk, lockFile, env, txn, history, limits>>

\* Copy the roots from the meta page.
copyMeta(p) ==
    /\ reader[p].pc = "checked"
    /\ LET meta == cache[reader[p].txnid % 2] IN
       reader' = [reader EXCEPT ![p] = [pc |-> "active", slot |-> @.slot, txnid |-> @.txnid,
                                        main |-> meta.main]]
    /\ UNCHANGED <<disk, lockFile, env, txn, history, limits>>

\* mdb_txn_reset, mdb_txn_abort or mdb_txn_commit: the thread keeps its slot.
endRead(p) ==
    /\ reader[p].pc = "active"
    /\ slots' = [slots EXCEPT ![reader[p].slot].txnid = NoTxnId]
    /\ reader' = [reader EXCEPT ![p] = [pc |-> "slot", slot |-> reader[p].slot]]
    /\ UNCHANGED <<disk, mti_txnid, wmutex, env, txn, history, limits>>

\* The reading thread exits and its destructor gives up the slot.
mdb_env_reader_dest(p) ==
    /\ reader[p].pc = "slot"
    /\ slots' = [slots EXCEPT ![reader[p].slot].pid = NoProc]
    /\ reader' = [reader EXCEPT ![p] = [pc |-> "none"]]
    /\ UNCHANGED <<disk, mti_txnid, wmutex, env, txn, history, limits>>

\* Slots of processes that have exited are cleared.
mdb_reader_check(p) ==
    /\ env[p].pc = "open"
    /\ \E i \in Slots : slots[i].pid = DeadProc
    /\ slots' = ClearSlots({DeadProc})
    /\ UNCHANGED <<disk, mti_txnid, wmutex, env, reader, txn, history, limits>>

---------------------------------------------------------------------------------
(* Write transactions *)

\* Does the next writer find the mutex of a dead owner?  mdb_mutex_failed then takes
\* the newest meta page to be the last commit and clears the slots of the dead.
Recovers == wmutex = DeadProc
LastTxnId == IF Recovers THEN mdb_env_pick_meta.txnid ELSE mti_txnid

\* mdb_txn_begin.  In an environment with a fatal error it fails, the lock released.
mdb_txn_begin(p) ==
    /\ p \in Writers /\ env[p].pc \in {"open", "fatal"}
    /\ wmutex \in {NoProc, DeadProc}
    /\ LastTxnId < limits.txnid
    /\ env[p].pc = "fatal" => Recovers
    /\ mti_txnid' = LastTxnId
    /\ slots' = IF Recovers THEN ClearSlots({DeadProc}) ELSE slots
    /\ IF env[p].pc = "fatal" THEN wmutex' = NoProc /\ UNCHANGED <<txn, acked>>
       ELSE LET meta == cache[LastTxnId % 2] IN
            /\ wmutex' = p
            /\ acked' = LastTxnId
            /\ txn' = [pc |-> "active", edits |-> 0, txnid |-> LastTxnId + 1, next |-> meta.last + 1,
                       main |-> meta.main, free |-> meta.free, dirty |-> <<>>,
                       free_pgs |-> {}, loose |-> <<>>, pghead |-> {}, hasHead |-> FALSE,
                       pglast |-> 0, pgoldest |-> env[p].pgoldest, save |-> SaveLocals]
    /\ UNCHANGED <<disk, env, reader, hist, raced, limits>>

\* A step of the write transaction that changes nothing outside it.
InTxn(p, pc, t) ==
    /\ wmutex = p /\ txn.pc = pc
    /\ txn' = t
    /\ UNCHANGED <<disk, lockFile, env, reader, history, limits>>

\* An edit of the main database, each capped by MaxEdits.
Edit(p, t) ==
    /\ txn.edits < MaxEdits
    /\ InTxn(p, "active", [t EXCEPT !.edits = @ + 1])

mdb_put(p) == txn.pc = "active" /\ \E k \in Keys : Edit(p, PutKey(txn, k))

mdb_del(p) ==
    /\ txn.pc = "active" /\ txn.main # P_INVALID
    /\ \E k \in Keys : Kid(txn, k) # P_INVALID /\ Edit(p, DelKey(txn, k))

\* mdb_txn_end of a write transaction: me_pgoldest outlives it in the environment.
EndTxn(p, fatal) ==
    /\ wmutex' = NoProc
    /\ txn' = NoTxn
    /\ env' = [env EXCEPT ![p].pgoldest = txn.pgoldest, ![p].pc = IF fatal THEN "fatal" ELSE @]

\* mdb_txn_abort, by the application or after a failure within mdb_txn_commit.
mdb_txn_abort(p) ==
    /\ wmutex = p /\ txn.pc \in {"active", "error"}
    /\ EndTxn(p, FALSE)
    /\ UNCHANGED <<disk, mti_txnid, slots, reader, history, limits>>

\* mdb_txn_commit of a transaction that changed nothing.
commitClean(p) ==
    /\ wmutex = p /\ txn.pc = "active" /\ DOMAIN txn.dirty = {} /\ txn.loose = <<>>
    /\ EndTxn(p, FALSE)
    /\ UNCHANGED <<disk, mti_txnid, slots, reader, history, limits>>

mdb_txn_commit(p) ==
    /\ txn.pc = "active" /\ (DOMAIN txn.dirty # {} \/ txn.loose # <<>>)
    /\ InTxn(p, "active", SaveStart(txn))

mdb_freelist_save(p) ==
    \/ txn.pc = "save" /\ InTxn(p, "save", SaveStep(txn))
    \/ txn.pc = "fill" /\ InTxn(p, "fill", SaveFill(txn))

\* mdb_page_flush writes the dirty pages.
mdb_page_flush(p) ==
    /\ wmutex = p /\ txn.pc = "flush"
    /\ cache' = txn.dirty @@ cache
    /\ txn' = [txn EXCEPT !.pc = "sync"]
    /\ UNCHANGED <<synced, lockFile, env, reader, history, limits>>

\* A write fails after some of the pages were written.
flushFails(p) ==
    /\ wmutex = p /\ txn.pc = "flush" /\ limits.failures > 0
    /\ \E n \in 0 .. Cardinality(DOMAIN txn.dirty) - 1 :
         cache' = Restrict(txn.dirty, Lowest(DOMAIN txn.dirty, n)) @@ cache
    /\ EndTxn(p, FALSE)
    /\ limits' = [limits EXCEPT !.failures = @ - 1]
    /\ UNCHANGED <<synced, mti_txnid, slots, reader, history>>

\* mdb_env_sync0 fails.
syncFails(p) ==
    /\ wmutex = p /\ txn.pc = "sync" /\ limits.failures > 0
    /\ EndTxn(p, FALSE)
    /\ limits' = [limits EXCEPT !.failures = @ - 1]
    /\ UNCHANGED <<disk, mti_txnid, slots, reader, history>>

NewMeta == [txnid |-> txn.txnid, free |-> txn.free, main |-> txn.main, last |-> txn.next - 1]

\* mdb_env_sync0 brings every page written so far to the disk, and mdb_env_write_meta
\* writes the meta page that is not the last commit's, unsynced.  (A crash between the
\* two is a crash before them that loses nothing.)
mdb_env_write_meta(p) ==
    LET meta == txn.txnid % 2 IN
    /\ wmutex = p /\ txn.pc = "sync"
    /\ synced' = cache
    /\ cache' = [cache EXCEPT ![meta] = NewMeta]
    /\ hist' = (txn.txnid :> Content(cache, txn.main)) @@ hist
    /\ txn' = [txn EXCEPT !.pc = "publish"]
    /\ UNCHANGED <<lockFile, env, reader, acked, raced, limits>>

\* The write fails, whether or not the new data has reached the page cache.
writeMetaFails(p) ==
    LET meta == txn.txnid % 2 IN
    /\ wmutex = p /\ txn.pc = "sync" /\ limits.failures > 0
    /\ synced' = cache
    /\ cache' \in {cache, [cache EXCEPT ![meta] = NewMeta]}
    /\ txn' = ("metab" :> cache[meta]) @@ [txn EXCEPT !.pc = "restore"]
    /\ limits' = [limits EXCEPT !.failures = @ - 1]
    /\ raced' = (raced \/ \E q \in Procs : reader[q].pc = "checked" /\ reader[q].txnid % 2 = meta)
    /\ UNCHANGED <<lockFile, env, reader, hist, acked>>

\* The new data with the IDs of before is written over it.  The result of this write is
\* ignored, and the environment is given up.  (A crash between the two writes is one
\* before or after a write that succeeds.)
restoreMeta(p) ==
    LET meta == txn.txnid % 2
        old == [txn.metab EXCEPT !.free = txn.free, !.main = txn.main]
    IN  /\ wmutex = p /\ txn.pc = "restore"
        /\ \/ cache' = [cache EXCEPT ![meta] = old] /\ UNCHANGED raced
           \/ raced' = (raced \/ cache[meta].txnid = txn.txnid) /\ UNCHANGED cache
        /\ EndTxn(p, TRUE)
        /\ UNCHANGED <<synced, mti_txnid, slots, reader, hist, acked, limits>>

\* The end of mdb_env_write_meta, and of the commit: readers find the new snapshot.
publish(p) ==
    /\ wmutex = p /\ txn.pc = "publish"
    /\ mti_txnid' = txn.txnid
    /\ acked' = txn.txnid
    /\ EndTxn(p, FALSE)
    /\ UNCHANGED <<disk, slots, reader, hist, raced, limits>>

---------------------------------------------------------------------------------
(* Crashes *)

\* A process dies at any point.  Its locks are released by the system, its reader slots
\* stay behind, and what it wrote stays in the page cache.
ProcDie(p) ==
    /\ env[p].pc # "closed" /\ limits.crashes > 0
    /\ wmutex = p => txn.pc # "restore"
    /\ slots' = [i \in Slots |-> IF slots[i].pid = p THEN [slots[i] EXCEPT !.pid = DeadProc] ELSE slots[i]]
    /\ IF wmutex = p THEN wmutex' = DeadProc /\ txn' = NoTxn ELSE UNCHANGED <<wmutex, txn>>
    /\ env' = [env EXCEPT ![p] = [pc |-> "closed", txnid |-> 0, pgoldest |-> 0]]
    /\ reader' = [reader EXCEPT ![p] = [pc |-> "none"]]
    /\ limits' = [limits EXCEPT !.crashes = @ - 1]
    /\ UNCHANGED <<disk, mti_txnid, history>>

\* The system crashes: any of the pages written since the last sync may be lost.
OSCrash ==
    /\ limits.crashes > 0 /\ txn.pc # "restore"
    /\ \E lost \in SUBSET {pg \in DOMAIN cache : cache[pg] # synced[pg]} :
         cache' = Restrict(synced, lost) @@ cache
    /\ synced' = cache'
    /\ slots' = [i \in Slots |-> [pid |-> NoProc, txnid |-> NoTxnId]]
    /\ wmutex' = NoProc
    /\ mti_txnid' = 0
    /\ env' = [p \in Procs |-> [pc |-> "closed", txnid |-> 0, pgoldest |-> 0]]
    /\ reader' = [p \in Procs |-> [pc |-> "none"]]
    /\ txn' = NoTxn
    /\ LET newest == Max({cache'[pg].txnid : pg \in Metas}) IN
       /\ hist' = Restrict(hist, 0 .. newest)
       /\ acked' = Min({acked, newest})
    /\ limits' = [limits EXCEPT !.crashes = @ - 1]
    /\ UNCHANGED raced

---------------------------------------------------------------------------------
Writer(p) ==
    \/ mdb_freelist_save(p) \/ mdb_page_flush(p)
    \/ mdb_env_write_meta(p) \/ restoreMeta(p) \/ publish(p)
    \/ (txn.pc = "error" /\ mdb_txn_abort(p))

Step ==
    \/ \E p \in Procs :
         \/ mdb_env_open(p) \/ mdb_env_open2(p) \/ mdb_env_close(p)
         \/ loadTxnId(p) \/ storeTxnId(p) \/ checkTxnId(p) \/ copyMeta(p)
         \/ endRead(p) \/ mdb_env_reader_dest(p) \/ mdb_reader_check(p)
         \/ mdb_txn_begin(p) \/ mdb_put(p) \/ mdb_del(p) \/ mdb_txn_abort(p)
         \/ commitClean(p) \/ mdb_txn_commit(p) \/ mdb_freelist_save(p)
         \/ mdb_page_flush(p) \/ flushFails(p) \/ syncFails(p)
         \/ mdb_env_write_meta(p) \/ writeMetaFails(p) \/ restoreMeta(p)
         \/ publish(p) \/ ProcDie(p)
    \/ OSCrash

Next == ~raced /\ Step

\* Within mdb_txn_commit, and after a failure.
Ending(p) == wmutex = p /\ txn.pc # "active"

\* A writer that is ending its transaction goes on, unless its process dies.
Spec == Init /\ [][Next]_vars /\ \A p \in Writers : WF_vars(~raced /\ Writer(p))

---------------------------------------------------------------------------------
\* No page is lost and none is used twice: in the newest snapshot, after any crash and
\* failed write too, each page up to mm_last_pg is in the tree once or in one record of
\* free pages, as the comment on MDB_page in mdb.c says.
PagesAccounted ==
    LET meta == mdb_env_pick_meta
        recs == FreeRecords(cache, meta.free)
        uses(pg) == Cardinality({id \in DOMAIN recs : pg \in recs[id]})
                    + (IF pg \in MainPages(cache, meta.main) THEN 1 ELSE 0)
                    + (IF pg \in FreePages(cache, meta.free) THEN 1 ELSE 0)
    IN  ~raced => \A pg \in Pgnos : uses(pg) = (IF pg <= meta.last THEN 1 ELSE 0)

\* The pages of every snapshot that a reader has announced are out of the writer's
\* reach: me_pgoldest, below which records of free pages are taken, is not above it.
OldestIsProtected ==
    \A p \in Procs : ~raced /\ reader[p].pc = "active" =>
        /\ \A q \in Procs : env[q].pgoldest <= reader[p].txnid
        /\ txn.pc # "none" => txn.pgoldest <= reader[p].txnid

\* mti_txnid is "the ID of the last transaction committed to the database" (the comment
\* on MDB_txbody in mdb.c) whenever the environment is open and no commit is in progress,
\* after a crash or a failed commit too, unless a process that opens the environment has
\* stored an ID it had read before another process committed (mdb.c:4884).
LastCommitKnown ==
    (/\ ~raced /\ wmutex = NoProc
     /\ \E p \in Procs : env[p].pc = "open"
     /\ \A p \in Procs : env[p].pc # "opening_excl") => mti_txnid = mdb_env_pick_meta.txnid

\* mdb_txn_commit returns: mdb_freelist_save, which allocates and frees pages while it
\* saves the list of free pages, comes to an end.
CommitReturns ==
    \A p \in Writers : Ending(p) ~> wmutex # p \/ raced

---------------------------------------------------------------------------------
\* A reader is started once its slot is known to hold the latest ID, and what it reads
\* is what its pages hold now.  The state committed as transaction n is log[n + 1].
Reads(p) ==
    CASE reader[p].pc = "checked" -> [pc |-> "started", from |-> reader[p].txnid + 1]
      [] reader[p].pc = "active"  -> [pc |-> "reading", state |-> Content(cache, reader[p].main)]
      [] OTHER                    -> [pc |-> "none"]

Store == INSTANCE TxnStore WITH
    States <- [Keys -> 0 .. MaxTxnId],
    Initial <- {EmptyMap},
    log <- [n \in 1 .. Cardinality(DOMAIN hist) |-> hist[n - 1]],
    acked <- acked + 1,
    work <- IF txn.pc \in {"none", "error"} THEN [on |-> FALSE]
            ELSE [on |-> TRUE, state |-> Content(View(txn), txn.main)],
    reads <- [p \in Procs |-> Reads(p)]

\* The layer keeps the promises of a transactional store: atomic commits by one writer
\* at a time, snapshots that do not change under a reader (mdb_page_alloc never hands out
\* a page of theirs), and after a crash the last commit or the one before it.
ImplementsStore == Store!Init /\ [][Store!Next \/ raced']_(Store!vars)
=================================================================================
