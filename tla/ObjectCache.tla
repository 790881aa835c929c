------------------------------- MODULE ObjectCache -------------------------------
(*********************************************************************************)
(* The cache of compiled modules (Lib/ObjectCache/ObjectCache.cpp): processes that *)
(* look up, compile and add object code in three tables of one database, and       *)
(* evict the least recently used entry when the database is full.  Every operation *)
(* is a write transaction of the store that TxnStore specifies.                     *)
(*********************************************************************************)
EXTENDS Integers, Sequences

CONSTANTS
    Procs,          \* processes that share the database
    Modules,        \* what blake2b tells apart: the hashes of the modules
    CodeKey,        \* process -> what identifies the code it compiles with
    None,           \* no entry
    Outdated,       \* an entry of another version of the database
    CoarseClock,    \* may two readings of the clock give the same time?
    MaxTime,        \* bound on the clock
    MaxCalls,       \* bound on calls of getCachedObject
    MaxFaults       \* bound on crashes, failed opens and full disks

ASSUME ObjectCacheAssumption ==
    /\ CoarseClock \in BOOLEAN
    /\ MaxTime \in Nat /\ MaxCalls \in Nat /\ MaxFaults \in Nat
    /\ MaxTime > 2 * MaxCalls           \* a call reads the clock twice at most
    /\ None # Outdated /\ "current" \notin {None, Outdated}
    /\ \A p \in Procs, m \in Modules : <<CodeKey[p], m>> \notin {None, Outdated}
    /\ None \notin 0 .. MaxTime

VARIABLES
    log, acked, work, reads,    \* the store
    call,                       \* process -> what it is doing
    clock,                      \* the last time that was read
    calls, faults

store == <<log, acked, work, reads>>
vars == <<log, acked, work, reads, call, clock, calls, faults>>

Times == 1 .. MaxTime
Keys == {CodeKey[p] : p \in Procs} \X Modules

\* The key of a module, and the object code that a process compiles for it.
ModuleKey(p) == <<CodeKey[p], call[p].module>>
Compiled(p) == <<CodeKey[p], call[p].module>>

\* A database: its version record and the three tables, None marking an absent key.
EmptyDB == [version |-> None, objects |-> [k \in Keys |-> None],
            meta |-> [k \in Keys |-> None], lru |-> [t \in Times |-> None]]

\* A database that another version wrote, whose object code is of no use to this one.
OutdatedDB(k) ==
    [EmptyDB EXCEPT !.version = Outdated, !.objects[k] = Outdated, !.meta[k] = 1, !.lru[1] = k]

Store == INSTANCE TxnStore WITH
    States <- {}, Initial <- {EmptyDB} \cup {OutdatedDB(k) : k \in Keys}

---------------------------------------------------------------------------------
(* Tables *)

\* Does an LRU entry exist under the time that the metadata of a key gives?
HasLRU(db, k) == db.meta[k] # None /\ db.lru[db.meta[k]] # None

\* The LRU entry under the time of a key's metadata is deleted.
WithoutLRU(db, k) == [db EXCEPT !.lru[db.meta[k]] = None]

\* The last use of a key is recorded in the metadata and the LRU table.
Used(db, k, t) == [db EXCEPT !.meta[k] = t, !.lru[t] = k]

Oldest(db) == CHOOSE t \in Times : db.lru[t] # None /\ \A u \in Times : db.lru[u] # None => t <= u

\* A key is deleted from every table, its LRU entry being the one under time t.
Evicted(db, t) ==
    LET k == db.lru[t] IN [db EXCEPT !.objects[k] = None, !.meta[k] = None, !.lru[t] = None]

Closed == [op |-> "closed"]
Idle == [op |-> "idle"]
Answered(c) == [op |-> "idle", module |-> c.module, code |-> c.code]
Transactions == {"init", "get", "add", "evict"}

Init ==
    /\ Store!Init
    /\ call = [p \in Procs |-> Closed]
    /\ clock = 1 /\ calls = 0 /\ faults = 0

\* Where a process is in a transaction of a kind.
In(p, op, step) == call[p].op = op /\ call[p].step = step
Goto(p, c) == call' = [call EXCEPT ![p] = c]
Step(p, step) == [call[p] EXCEPT !.step = step]

\* Something fails that the bound allows to fail.
Fault == faults < MaxFaults /\ faults' = faults + 1

\* Platform::getClockTime.
Read(t) ==
    /\ t \in Times
    /\ t = clock + 1 \/ (CoarseClock /\ t = clock)
    /\ clock' = t

---------------------------------------------------------------------------------
(* Calls *)

\* ObjectCache::open: the environment is opened and init begins its transaction.
open(p) ==
    /\ call[p].op = "closed"
    /\ Goto(p, [op |-> "init", step |-> "begin"])
    /\ UNCHANGED <<store, clock, calls, faults>>

getCachedObject(p) ==
    /\ call[p].op = "idle" /\ calls < MaxCalls
    /\ \E m \in Modules :
         Goto(p, [op |-> "get", step |-> "begin", module |-> m, code |-> None, now |-> 0])
    /\ calls' = calls + 1
    /\ UNCHANGED <<store, clock, faults>>

\* The module is compiled, and addCachedObject reads the clock.
compileThunk(p) ==
    /\ call[p].op = "compile"
    /\ \E t \in Times :
         /\ Read(t)
         /\ Goto(p, [call[p] EXCEPT !.op = "add", !.step = "begin", !.code = Compiled(p), !.now = t])
    /\ UNCHANGED <<store, calls, faults>>

---------------------------------------------------------------------------------
(* Transactions *)

beginTxn(p) ==
    /\ \E op \in Transactions : In(p, op, "begin")
    /\ Store!Begin
    /\ Goto(p, Step(p, "body"))
    /\ UNCHANGED <<clock, calls, faults>>

\* The body of a transaction is done and it is to be committed.
Done(p, db) ==
    /\ Store!ChangeTo(db)
    /\ Goto(p, Step(p, "commit"))

\* A transaction is given up: an exception was thrown, or ScopedTxn goes out of scope.
GiveUp(p, c) ==
    /\ Store!Abort
    /\ Goto(p, c)

\* What getCachedObject and open do when an exception reaches them.
Caught(p) ==
    CASE call[p].op = "init" -> Closed
      [] call[p].op = "get"  -> [call[p] EXCEPT !.op = "compile"]
      [] OTHER               -> Answered(call[p])

\* Mistake: the tables of another version are kept.
initKeepsTables(p) ==
    LET db == work.state IN
    /\ In(p, "init", "body")
    /\ Done(p, [db EXCEPT !.version = "current"])
    /\ UNCHANGED <<clock, calls, faults>>

\* init: clear the tables of another version, and write the version.
initBody(p) ==
    LET db == work.state IN
    /\ In(p, "init", "body")
    /\ \/ /\ Done(p, [IF db.version = Outdated THEN EmptyDB ELSE db EXCEPT !.version = "current"])
          /\ UNCHANGED faults
       \/ db.version # "current" /\ Fault /\ GiveUp(p, Caught(p))     \* mapIsFull
    /\ UNCHANGED <<clock, calls>>

\* tryGetCachedObject.
tryGetCachedObject(p) ==
    LET db == work.state
        k == ModuleKey(p)
    IN
    /\ In(p, "get", "body")
    /\ \/ /\ db.objects[k] = None \/ ~HasLRU(db, k)             \* commits no change, or keyNotFound
          /\ GiveUp(p, Caught(p))
          /\ UNCHANGED clock
       \/ /\ db.objects[k] # None /\ HasLRU(db, k)
          /\ \E t \in Times :
               /\ Read(t)
               /\ \/ /\ Store!ChangeTo(Used(WithoutLRU(db, k), k, t))
                     /\ Goto(p, [Step(p, "commit") EXCEPT !.code = db.objects[k]])
                  \/ GiveUp(p, Caught(p))                       \* mapIsFull
    /\ UNCHANGED <<calls, faults>>

\* Mistake: the LRU entry of a module that is added again is kept.
addKeepsLRU(p) ==
    LET db == work.state
        k == ModuleKey(p)
    IN
    /\ In(p, "add", "body")
    /\ \/ Done(p, [Used(db, k, call[p].now) EXCEPT !.objects[k] = call[p].code])
       \/ GiveUp(p, [call[p] EXCEPT !.op = "evict", !.step = "begin"])
    /\ UNCHANGED <<clock, calls, faults>>

\* addCachedObject: when the database is full, evict an entry and try again.
addCachedObject(p) ==
    LET db == work.state
        k == ModuleKey(p)
        base == IF db.meta[k] = None THEN db ELSE WithoutLRU(db, k)
    IN
    /\ In(p, "add", "body")
    /\ \/ /\ db.meta[k] # None /\ ~HasLRU(db, k)                \* keyNotFound
          /\ GiveUp(p, Caught(p))
       \/ /\ db.meta[k] # None => HasLRU(db, k)
          /\ \/ Done(p, [Used(base, k, call[p].now) EXCEPT !.objects[k] = call[p].code])
             \/ GiveUp(p, [call[p] EXCEPT !.op = "evict", !.step = "begin"])
    /\ UNCHANGED <<clock, calls, faults>>

\* Mistake: having nothing to evict is not reported.
evictNothing(p) ==
    LET db == work.state IN
    /\ In(p, "evict", "body")
    /\ IF \A u \in Times : db.lru[u] = None
       THEN GiveUp(p, [call[p] EXCEPT !.op = "add", !.step = "begin"])
       ELSE Done(p, Evicted(db, Oldest(db)))
    /\ UNCHANGED <<clock, calls, faults>>

\* evictLRU: without an entry to evict, or with one that is not in every table, the
\* object is not added.
evictLRU(p) ==
    LET db == work.state
        t == Oldest(db)
    IN
    /\ In(p, "evict", "body")
    /\ IF \/ \A u \in Times : db.lru[u] = None
          \/ db.objects[db.lru[t]] = None
          \/ db.meta[db.lru[t]] = None
       THEN GiveUp(p, Caught(p))
       ELSE Done(p, Evicted(db, t))
    /\ UNCHANGED <<clock, calls, faults>>

commit(p) ==
    /\ \E op \in Transactions : In(p, op, "commit")
    /\ Store!Commit
    /\ Goto(p, Step(p, "return"))
    /\ UNCHANGED <<clock, calls, faults>>

\* mdb_txn_commit fails with ENOSPC.
commitFails(p) ==
    /\ \E op \in Transactions : In(p, op, "commit")
    /\ Fault
    /\ GiveUp(p, Caught(p))
    /\ UNCHANGED <<clock, calls>>

\* The commit returns, and an eviction is followed by another try to add.
commitReturns(p) ==
    /\ \E op \in Transactions : In(p, op, "return")
    /\ Store!Return
    /\ Goto(p, CASE call[p].op = "init"  -> Idle
                 [] call[p].op = "evict" -> [call[p] EXCEPT !.op = "add", !.step = "begin"]
                 [] OTHER                -> Answered(call[p]))
    /\ UNCHANGED <<clock, calls, faults>>

---------------------------------------------------------------------------------
(* Crashes *)

InTxn(p) == call[p].op \in Transactions /\ call[p].step # "begin"

\* A process ends: it closes the cache, faults, or meets an error that is fatal to it.
Exit(p) ==
    /\ call[p].op # "closed"
    /\ Fault
    /\ Store!Stop(p)
    /\ work' = IF InTxn(p) THEN Store!NoWork ELSE work
    /\ Goto(p, Closed)
    /\ UNCHANGED <<clock, calls>>

OSCrash ==
    /\ Fault
    /\ Store!Crash
    /\ call' = [p \in Procs |-> Closed]
    /\ UNCHANGED <<clock, calls>>

---------------------------------------------------------------------------------
Proceed(p) ==
    \/ compileThunk(p) \/ beginTxn(p)
    \/ initBody(p) \/ tryGetCachedObject(p) \/ addCachedObject(p) \/ evictLRU(p)
    \/ commit(p) \/ commitFails(p) \/ commitReturns(p)

Next ==
    \/ \E p \in Procs : open(p) \/ getCachedObject(p) \/ Proceed(p) \/ Exit(p)
    \/ OSCrash

Spec == Init /\ [][Next]_vars /\ \A p \in Procs : WF_vars(Proceed(p))

---------------------------------------------------------------------------------
\* The three tables of a database describe the same entries: an object has metadata and
\* one LRU entry, the one under the time of its last use.
Agree(db) ==
    /\ \A k \in Keys : (db.objects[k] = None) <=> (db.meta[k] = None)
    /\ \A k \in Keys : db.meta[k] # None => db.lru[db.meta[k]] = k
    /\ \A t \in Times : db.lru[t] # None => db.meta[db.lru[t]] = t

\* Every committed database of this version has tables that agree, whatever the order
\* of the transactions and wherever a process or the system crashed, as long as no two
\* uses have the same time (the LRU table has the time alone for its key).
TablesAgree == \A i \in 1 .. Len(log) : log[i].version = "current" => Agree(log[i])

\* getCachedObject returns what the process itself would have compiled for that module:
\* never an entry of an outdated database, of another module or of another compiler.
ServesOwnCode ==
    \A p \in Procs : call[p].op = "idle" /\ "code" \in DOMAIN call[p] =>
        call[p].code = <<CodeKey[p], call[p].module>>

\* getCachedObject returns once the other processes stop adding: the loop of
\* addCachedObject, which evicts until the object fits, comes to an end, also when there
\* is nothing left to evict.  MaxCalls is what stops the others; while they go on adding,
\* the room that one process makes can go to another each time (ObjectCache.cpp:493).
CallReturns ==
    \A p \in Procs : call[p].op \in {"get", "compile", "add", "evict"} ~> call[p].op \in {"idle", "closed"}
==================================================================================
