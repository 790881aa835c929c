---------------------------- MODULE ObjectCacheProofs ----------------------------
(*********************************************************************************)
(* Proofs about ObjectCache, for any number of processes, modules, code keys,      *)
(* calls and crashes.                                                              *)
(*********************************************************************************)
EXTENDS ObjectCache, WellFoundedInduction, TLAPS

Codes == Keys \cup {None, Outdated}
Steps == {"begin", "body", "commit", "return"}

Databases ==
    [version : {None, Outdated, "current"}, objects : [Keys -> Codes],
     meta : [Keys -> Times \cup {None}], lru : [Times -> Keys \cup {None}]]

Asking == [op : {"get", "compile", "add", "evict"}, step : Steps, module : Modules,
           code : Codes, now : 0 .. MaxTime]

\* What a process may be doing.
Doing ==
    {Closed, Idle} \cup [op : {"idle"}, module : Modules, code : Codes]
        \cup [op : {"init"}, step : Steps] \cup Asking

\* A database that no other version wrote holds, under each key, what a process with that
\* key compiles.
Own(db) == db.version # Outdated => \A k \in Keys : db.objects[k] \in {None, k}

\* The code that a process has is the code it would compile.
HasOwn(p) ==
    \/ call[p].op = "idle" /\ "code" \in DOMAIN call[p]
    \/ call[p].op \in {"add", "evict"}
    \/ call[p].op = "get" /\ call[p].step \in {"commit", "return"}

\* A process has seen the database at this version.
Opened(p) == call[p].op \notin {"closed", "init"} \/ In(p, "init", "return")

TypeInv ==
    /\ log \in Seq(Databases) /\ log # <<>>
    /\ work \in {Store!NoWork} \cup [on : {TRUE}, state : Databases]
    /\ call \in [Procs -> Doing]
    /\ clock \in 1 .. MaxTime
    /\ \A p \in Procs : call[p].op \in {"add", "evict"} => call[p].now \in Times

\* One process at a time is in a transaction, and the store knows.
OneWriter ==
    /\ \A p \in Procs : InTxn(p) => work.on
    /\ \A p, q \in Procs : InTxn(p) /\ InTxn(q) => p = q

VersionInv ==
    /\ \A p \in Procs : Opened(p) => log[Len(log)].version = "current"
    /\ \A p \in Procs : InTxn(p) /\ (call[p].op # "init" \/ call[p].step \in {"commit", "return"})
           => work.state.version = "current"

OwnInv ==
    /\ \A i \in 1 .. Len(log) : Own(log[i])
    /\ work.on => Own(work.state)
    /\ \A p \in Procs : HasOwn(p) => call[p].code = ModuleKey(p)

\* Inductive: object code is served to those who would have compiled it.
OwnCodeInv == TypeInv /\ OneWriter /\ VersionInv /\ OwnInv

---------------------------------------------------------------------------------
(* Tables *)

LEMMA KeysOfCalls ==
    ASSUME TypeInv, NEW p \in Procs, call[p].op \in {"get", "compile", "add", "evict"}
    PROVE  /\ call[p] \in Asking
           /\ ModuleKey(p) \in Keys /\ Compiled(p) = ModuleKey(p)
  BY DEF TypeInv, Doing, Asking, Closed, Idle, ModuleKey, Compiled, Keys

LEMMA WorkState ==
    ASSUME TypeInv, work.on
    PROVE  work \in [on : {TRUE}, state : Databases] /\ work.state \in Databases
  <1>1. Store!NoWork.on = FALSE
    BY DEF Store!NoWork
  <1> QED
    BY <1>1, Zenon DEF TypeInv

LEMMA KeysAreNotMarks == Keys \cap {None, Outdated} = {} /\ None \notin Times /\ None # Outdated /\ None # "current" /\ Outdated # "current"
  BY ObjectCacheAssumption DEF Keys, Times

\* The operations on the tables give databases of the same version.
LEMMA UsedType ==
    ASSUME NEW db \in Databases, NEW k \in Keys, NEW t \in Times
    PROVE  /\ Used(db, k, t) \in Databases
           /\ Used(db, k, t).version = db.version /\ Used(db, k, t).objects = db.objects
           /\ \A j \in Keys : Used(db, k, t).meta[j] = IF j = k THEN t ELSE db.meta[j]
           /\ \A u \in Times : Used(db, k, t).lru[u] = IF u = t THEN k ELSE db.lru[u]
  BY Zenon DEF Used, Databases

LEMMA WithoutLRUType ==
    ASSUME NEW db \in Databases, NEW k \in Keys, db.meta[k] # None
    PROVE  /\ WithoutLRU(db, k) \in Databases
           /\ WithoutLRU(db, k).version = db.version /\ WithoutLRU(db, k).objects = db.objects
           /\ WithoutLRU(db, k).meta = db.meta
           /\ \A u \in Times : WithoutLRU(db, k).lru[u] = IF u = db.meta[k] THEN None ELSE db.lru[u]
  BY DEF WithoutLRU, Databases

LEMMA EvictedType ==
    ASSUME NEW db \in Databases, NEW t \in Times, db.lru[t] # None
    PROVE  /\ Evicted(db, t) \in Databases
           /\ Evicted(db, t).version = db.version
           /\ Evicted(db, t).objects = [db.objects EXCEPT ![db.lru[t]] = None]
           /\ Evicted(db, t).meta = [db.meta EXCEPT ![db.lru[t]] = None]
           /\ Evicted(db, t).lru = [db.lru EXCEPT ![t] = None]
  BY Zenon DEF Evicted, Databases, Codes

LEMMA EmptyType ==
    /\ EmptyDB \in Databases /\ EmptyDB.version = None
    /\ \A k \in Keys : OutdatedDB(k) \in Databases /\ OutdatedDB(k).version = Outdated
  <1>1. 1 \in Times
    BY ObjectCacheAssumption DEF Times
  <1>2. EmptyDB \in Databases /\ EmptyDB.version = None
    BY DEF EmptyDB, Databases, Codes
  <1>3. ASSUME NEW k \in Keys
        PROVE  OutdatedDB(k) \in Databases /\ OutdatedDB(k).version = Outdated
    BY <1>1, Zenon DEF EmptyDB, OutdatedDB, Databases, Codes
  <1> QED
    BY <1>2, <1>3

\* A table with an entry has an oldest one.
LEMMA OldestExists ==
    ASSUME NEW db \in Databases, \E t \in Times : db.lru[t] # None
    PROVE  Oldest(db) \in Times /\ db.lru[Oldest(db)] # None
  <1> DEFINE T == {t \in Times : db.lru[t] # None}
  <1>1. T \subseteq Nat /\ T # {}
    BY ObjectCacheAssumption DEF Times
  <1>2. PICK x \in T : \A y \in T : ~ (<<y, x>> \in OpToRel(<, Nat))
    <2> HIDE DEF T
    <2> QED
      BY <1>1, NatLessThanWellFounded, WFMin
  <1>3. ASSUME NEW m \in Nat, NEW n \in Nat, m < n
        PROVE  <<m, n>> \in OpToRel(<, Nat)
    BY <1>3, Zenon DEF OpToRel
  <1> HIDE DEF T
  <1>4. \A y \in T : ~ (y < x)
    BY <1>1, <1>2, <1>3, Zenon
  <1>5. \A y \in T : x <= y
    BY <1>1, <1>4
  <1> QED
    BY <1>5 DEF Oldest, T

---------------------------------------------------------------------------------
(* Object code *)

\* A step of one process that commits nothing: what has to be shown of it.
LEMMA StepOfOne ==
    ASSUME OwnCodeInv, NEW p \in Procs, NEW c \in Doing, Goto(p, c),
           c.op \in {"add", "evict"} => c.now \in Times,
           log' = log, clock' \in 1 .. MaxTime,
           work' \in {Store!NoWork} \cup [on : {TRUE}, state : Databases],
           work'.on => Own(work'.state),
           InTxn(p)' => work'.on,
           \A q \in Procs \ {p} : InTxn(q) => work' = work /\ ~InTxn(p)',
           Opened(p)' => log[Len(log)].version = "current",
           InTxn(p)' /\ (c.op # "init" \/ c.step \in {"commit", "return"})
               => work'.state.version = "current",
           HasOwn(p)' => c.code = <<CodeKey[p], c.module>>
    PROVE  OwnCodeInv'
  <1>1. call'[p] = c /\ \A q \in Procs \ {p} : call'[q] = call[q]
    BY DEF OwnCodeInv, TypeInv, Goto
  <1>2. TypeInv'
    BY <1>1, Zenon DEF OwnCodeInv, TypeInv, Goto
  <1>3. \A q \in Procs \ {p} : InTxn(q)' = InTxn(q) /\ Opened(q)' = Opened(q) /\ HasOwn(q)' = HasOwn(q)
                              /\ ModuleKey(q)' = ModuleKey(q)
    BY <1>1 DEF InTxn, Opened, HasOwn, In, ModuleKey
  <1>4. OneWriter'
    BY <1>3 DEF OwnCodeInv, OneWriter
  <1>5. VersionInv'
    BY <1>1, <1>3 DEF OwnCodeInv, OneWriter, VersionInv
  <1>6. OwnInv'
    BY <1>1, <1>3 DEF OwnCodeInv, OwnInv, ModuleKey
  <1> QED
    BY <1>2, <1>4, <1>5, <1>6 DEF OwnCodeInv

LEMMA OwnCodeInit == Init => OwnCodeInv
  <1> SUFFICES ASSUME Init PROVE OwnCodeInv
    OBVIOUS
  <1>1. PICK db \in {EmptyDB} \cup {OutdatedDB(k) : k \in Keys} : log = <<db>>
    BY DEF Init, Store!Init
  <1>2. db \in Databases /\ db.version # "current" /\ Own(db)
    BY EmptyType, KeysAreNotMarks DEF Own, EmptyDB
  <1>3. log \in Seq(Databases) /\ Len(log) = 1 /\ log[1] = db /\ log # <<>>
    BY <1>1, <1>2
  <1>4. \A p \in Procs : call[p] = Closed
    BY DEF Init
  <1>5. TypeInv
    BY <1>3, <1>4, ObjectCacheAssumption DEF Init, Store!Init, TypeInv, Doing, Closed
  <1>6. OneWriter /\ VersionInv /\ OwnInv
    BY <1>2, <1>3, <1>4
       DEF Init, Store!Init, Store!NoWork, OneWriter, VersionInv, OwnInv, HasOwn, InTxn, Opened, In,
           Closed, Transactions
  <1> QED
    BY <1>5, <1>6 DEF OwnCodeInv

\* A process that leaves its transaction, whether it gives up or evicts or has committed.
LEMMA LeavesTxn ==
    ASSUME OwnCodeInv, NEW p \in Procs, InTxn(p), NEW c \in Doing, Goto(p, c),
           c.op \in {"add", "evict"} => c.now \in Times,
           log' = log, clock' \in 1 .. MaxTime, work' = Store!NoWork,
           c.op \in Transactions => c.step = "begin",
           c.op \notin {"closed", "init"} => log[Len(log)].version = "current",
           HasOwn(p)' => c.code = <<CodeKey[p], c.module>>
    PROVE  OwnCodeInv'
  <1>1. call'[p] = c
    BY DEF OwnCodeInv, TypeInv, Goto
  <1>2. ~InTxn(p)' /\ (Opened(p)' => log[Len(log)].version = "current")
    BY <1>1 DEF InTxn, Opened, In, Transactions
  <1>3. \A q \in Procs \ {p} : ~InTxn(q)
    BY DEF OwnCodeInv, OneWriter
  <1>4. work'.on = FALSE
    BY DEF Store!NoWork
  <1> QED
    BY <1>2, <1>3, <1>4, StepOfOne

\* An exception reaches getCachedObject or open.
LEMMA CaughtLeaves ==
    ASSUME OwnCodeInv, NEW p \in Procs, InTxn(p), Goto(p, Caught(p)),
           log' = log, clock' \in 1 .. MaxTime, work' = Store!NoWork
    PROVE  OwnCodeInv'
  <1> USE DEF OwnCodeInv
  <1>1. CASE call[p].op = "init"
    <2>1. Caught(p) = Closed /\ Closed \in Doing /\ Closed.op = "closed"
      BY <1>1 DEF Caught, Doing, Closed
    <2>2. ~HasOwn(p)'
      BY <2>1 DEF TypeInv, Goto, HasOwn
    <2> QED
      BY <2>1, <2>2, LeavesTxn DEF Transactions
  <1>2. CASE call[p].op = "get"
    <2> DEFINE c == [call[p] EXCEPT !.op = "compile"]
    <2>1. Caught(p) = c /\ Opened(p)
      BY <1>2 DEF Caught, Opened
    <2>2. c \in Asking /\ c.op = "compile"
      BY <1>2, KeysOfCalls DEF Asking
    <2> HIDE DEF c
    <2>3. c \in Doing /\ call'[p] = c
      BY <2>1, <2>2 DEF Doing, Goto, TypeInv
    <2>4. ~HasOwn(p)'
      BY <2>2, <2>3 DEF HasOwn
    <2> QED
      BY <2>1, <2>2, <2>3, <2>4, LeavesTxn DEF Transactions, VersionInv
  <1>3. CASE call[p].op \in {"add", "evict"}
    <2> DEFINE c == Answered(call[p])
    <2>1. Caught(p) = c /\ Opened(p) /\ HasOwn(p)
      BY <1>3 DEF Caught, Opened, HasOwn
    <2>2. c \in Doing /\ c.op = "idle" /\ c.code = call[p].code /\ c.module = call[p].module
      BY <1>3, KeysOfCalls DEF Asking, Answered, Doing
    <2>3. c.code = <<CodeKey[p], c.module>>
      BY <2>1, <2>2 DEF OwnInv, ModuleKey
    <2> HIDE DEF c
    <2> QED
      BY <2>1, <2>2, <2>3, LeavesTxn DEF Transactions, VersionInv
  <1> QED
    BY <1>1, <1>2, <1>3 DEF InTxn, Transactions

\* A process goes on to commit what it has made of the database.
LEMMA DoneStays ==
    ASSUME OwnCodeInv, NEW p \in Procs, InTxn(p), NEW c \in Doing, Goto(p, c),
           c.op = call[p].op, c.step = "commit",
           c.op \in {"add", "evict"} => c.now \in Times,
           log' = log, clock' \in 1 .. MaxTime,
           NEW db \in Databases, work' = Store!Work(db), db.version = "current", Own(db),
           HasOwn(p)' => c.code = <<CodeKey[p], c.module>>
    PROVE  OwnCodeInv'
  <1>1. call'[p] = c
    BY DEF OwnCodeInv, TypeInv, Goto
  <1>2. Opened(p)' => log[Len(log)].version = "current"
    BY <1>1 DEF OwnCodeInv, VersionInv, Opened, In
  <1>3. \A q \in Procs \ {p} : ~InTxn(q)
    BY DEF OwnCodeInv, OneWriter
  <1>4. work' \in [on : {TRUE}, state : Databases] /\ work'.on = TRUE /\ work'.state = db
    BY DEF Store!Work
  <1> QED
    BY <1>2, <1>3, <1>4, StepOfOne, Zenon

LEMMA OwnCodeStep == OwnCodeInv /\ [Next]_vars => OwnCodeInv'
  <1> SUFFICES ASSUME OwnCodeInv, [Next]_vars PROVE OwnCodeInv'
    OBVIOUS
  <1> USE DEF OwnCodeInv
  <1>1. ASSUME NEW p \in Procs, open(p) PROVE OwnCodeInv'
    <2> DEFINE c == [op |-> "init", step |-> "begin"]
    <2>1. call'[p] = c /\ c \in Doing /\ ~InTxn(p)' /\ ~Opened(p)' /\ ~HasOwn(p)'
      BY <1>1 DEF open, Goto, TypeInv, Doing, Steps, InTxn, Opened, HasOwn, In
    <2> QED
      BY <1>1, <2>1, StepOfOne, Zenon DEF open, store, TypeInv, OwnInv
  <1>2. ASSUME NEW p \in Procs, getCachedObject(p) PROVE OwnCodeInv'
    <2>1. PICK m \in Modules :
            Goto(p, [op |-> "get", step |-> "begin", module |-> m, code |-> None, now |-> 0])
      BY <1>2 DEF getCachedObject
    <2> DEFINE c == [op |-> "get", step |-> "begin", module |-> m, code |-> None, now |-> 0]
    <2>2. call'[p] = c /\ c \in Doing /\ ~InTxn(p)' /\ ~HasOwn(p)'
      BY <2>1, ObjectCacheAssumption DEF Goto, TypeInv, Doing, Asking, Steps, Codes, InTxn, HasOwn, In
    <2>3. Opened(p)
      BY <1>2 DEF getCachedObject, Opened
    <2> QED
      BY <1>2, <2>1, <2>2, <2>3, StepOfOne, Zenon DEF getCachedObject, store, TypeInv, OwnInv, VersionInv
  <1>3. ASSUME NEW p \in Procs, compileThunk(p) PROVE OwnCodeInv'
    <2>1. PICK t \in Times : /\ clock' = t
                             /\ Goto(p, [call[p] EXCEPT !.op = "add", !.step = "begin", !.code = Compiled(p), !.now = t])
      BY <1>3, Zenon DEF compileThunk, Read
    <2> DEFINE c == [call[p] EXCEPT !.op = "add", !.step = "begin", !.code = Compiled(p), !.now = t]
    <2>2. call[p] \in Asking /\ Compiled(p) \in Codes /\ Compiled(p) = <<CodeKey[p], call[p].module>>
      BY <1>3, KeysOfCalls DEF compileThunk, Codes, Compiled
    <2>a. t \in 0 .. MaxTime
      BY ObjectCacheAssumption DEF Times
    <2>3. /\ c \in Asking /\ c.op = "add" /\ c.step = "begin" /\ c.code = Compiled(p) /\ c.module = call[p].module
          /\ c.now = t
      BY <2>2, <2>a, Zenon DEF Asking, Steps
    <2> HIDE DEF c
    <2>4. call'[p] = c /\ c \in Doing /\ ~InTxn(p)'
      BY <2>1, <2>3 DEF c, Goto, TypeInv, Doing, InTxn
    <2>5. Opened(p)
      BY <1>3 DEF compileThunk, Opened
    <2> QED
      BY <1>3, <2>1, <2>2, <2>3, <2>4, <2>5, StepOfOne, Zenon DEF c, compileThunk, store, TypeInv, OwnInv, VersionInv, Times
  <1>4. ASSUME NEW p \in Procs, beginTxn(p) PROVE OwnCodeInv'
    <2> DEFINE c == Step(p, "body")
    <2>1. call[p].op \in Transactions /\ call[p].step = "begin"
      BY <1>4 DEF beginTxn, In
    <2>2. c \in Doing /\ c.op = call[p].op /\ c.step = "body" /\ (c.op # "init" => c.code = call[p].code /\ c.module = call[p].module /\ c.now = call[p].now)
      BY <2>1 DEF TypeInv, Doing, Closed, Idle, Asking, Steps, Step, Transactions
    <2> HIDE DEF c
    <2>3. call'[p] = c
      BY <1>4 DEF c, beginTxn, Goto, TypeInv
    <2>4. log \in Seq(Databases) /\ Len(log) \in 1 .. Len(log) /\ log[Len(log)] \in Databases /\ Own(log[Len(log)])
      BY DEF TypeInv, OwnInv
    <2>5. /\ work' = Store!Work(log[Len(log)]) /\ log' = log /\ clock' = clock /\ ~work.on
          /\ work' \in [on : {TRUE}, state : Databases] /\ work'.on /\ work'.state = log[Len(log)]
      BY <1>4, <2>4 DEF beginTxn, Store!Begin, Store!Work
    <2>6. \A q \in Procs : ~InTxn(q)
      BY <2>5 DEF OneWriter
    <2>7. (HasOwn(p)' => HasOwn(p)) /\ (Opened(p)' => Opened(p)) /\ (c.op # "init" => Opened(p))
      BY <2>1, <2>2, <2>3 DEF HasOwn, Opened, In, Transactions
    <2>8. HasOwn(p)' => c.code = <<CodeKey[p], c.module>>
      BY <2>1, <2>2, <2>3, <2>7 DEF OwnInv, ModuleKey, HasOwn, Transactions
    <2> QED
      BY <1>4, <2>2, <2>4, <2>5, <2>6, <2>7, <2>8, StepOfOne, Zenon DEF c, beginTxn, TypeInv, VersionInv
  <1>5. ASSUME NEW p \in Procs, initBody(p) PROVE OwnCodeInv'
    <2>1. InTxn(p) /\ call[p].op = "init" /\ work.on
      BY <1>5 DEF initBody, In, InTxn, Transactions, OneWriter
    <2>2. work.state \in Databases /\ Own(work.state)
      BY <2>1, WorkState DEF OwnInv
    <2>3. CASE Done(p, [IF work.state.version = Outdated THEN EmptyDB ELSE work.state EXCEPT !.version = "current"])
      <3> DEFINE base == IF work.state.version = Outdated THEN EmptyDB ELSE work.state
                 db == [base EXCEPT !.version = "current"]
                 c == Step(p, "commit")
      <3>1. c \in Doing /\ c.op = "init" /\ c.step = "commit"
        BY <2>1 DEF TypeInv, Doing, Closed, Idle, Asking, Steps, Step
      <3>2. ~HasOwn(p)'
        BY <2>3, <3>1 DEF Done, Goto, TypeInv, HasOwn
      <3>3. base \in Databases
        BY <2>2, EmptyType
      <3>4. db \in Databases /\ db.version = "current" /\ db.objects = base.objects
        BY <3>3 DEF Databases
      <3>5. Own(db)
        BY <2>2, <3>4 DEF Own, EmptyDB
      <3> HIDE DEF c, db
      <3> QED
        BY <1>5, <2>1, <2>3, <3>1, <3>2, <3>4, <3>5, DoneStays, Zenon DEF c, db, Done, Store!ChangeTo, initBody, TypeInv
    <2>4. CASE GiveUp(p, Caught(p))
      BY <1>5, <2>1, <2>4, CaughtLeaves, Zenon DEF GiveUp, Store!Abort, initBody, TypeInv
    <2> QED
      BY <1>5, <2>3, <2>4 DEF initBody
  <1>6. ASSUME NEW p \in Procs, tryGetCachedObject(p) PROVE OwnCodeInv'
    <2> DEFINE db == work.state
               k == ModuleKey(p)
    <2>1. InTxn(p) /\ call[p].op = "get" /\ work.on /\ db \in Databases /\ Own(db) /\ db.version = "current"
      BY <1>6, WorkState, Zenon DEF tryGetCachedObject, In, InTxn, Transactions, OneWriter, OwnInv, VersionInv
    <2>2. call[p] \in Asking /\ k \in Keys
      BY <2>1, KeysOfCalls
    <2>3. log' = log /\ clock' \in 1 .. MaxTime
      BY <1>6 DEF tryGetCachedObject, GiveUp, Store!Abort, Store!ChangeTo, Read, Times, TypeInv
    <2>4. CASE GiveUp(p, Caught(p))
      BY <2>1, <2>3, <2>4, CaughtLeaves DEF GiveUp, Store!Abort
    <2>5. ASSUME NEW t \in Times, db.objects[k] # None, HasLRU(db, k),
                 Store!ChangeTo(Used(WithoutLRU(db, k), k, t)),
                 Goto(p, [Step(p, "commit") EXCEPT !.code = db.objects[k]])
          PROVE  OwnCodeInv'
      <3> DEFINE new == Used(WithoutLRU(db, k), k, t)
                 c == [Step(p, "commit") EXCEPT !.code = db.objects[k]]
      <3>1. db.objects[k] = k
        BY <2>1, <2>2, <2>5, KeysAreNotMarks DEF Own
      <3>2. /\ c \in Asking /\ c.op = "get" /\ c.step = "commit" /\ c.code = k /\ c.module = call[p].module
        BY <2>1, <2>2, <3>1, Zenon DEF Asking, Step, Steps, Codes
      <3>3. db.meta[k] # None
        BY <2>5 DEF HasLRU
      <3>4. new \in Databases /\ new.version = "current" /\ new.objects = db.objects
        <4> HIDE DEF db, k
        <4>1. WithoutLRU(db, k) \in Databases /\ WithoutLRU(db, k).version = "current"
              /\ WithoutLRU(db, k).objects = db.objects
          BY <2>1, <2>2, <3>3, WithoutLRUType
        <4> DEFINE b == WithoutLRU(db, k)
        <4> HIDE DEF b
        <4>2. /\ Used(b, k, t) \in Databases
              /\ Used(b, k, t).version = b.version /\ Used(b, k, t).objects = b.objects
          BY <2>2, <2>5, <4>1, UsedType DEF b
        <4> QED
          BY <4>1, <4>2 DEF b
      <3>5. Own(new)
        BY <2>1, <3>4, KeysAreNotMarks DEF Own
      <3> HIDE DEF new, c
      <3>6. c \in Doing /\ work' = Store!Work(new) /\ Goto(p, c)
        BY <2>5, <3>2 DEF c, new, Doing, Store!ChangeTo
      <3> QED
        BY <2>1, <2>3, <3>2, <3>4, <3>5, <3>6, DoneStays DEF ModuleKey
    <2> QED
      BY <1>6, <2>4, <2>5 DEF tryGetCachedObject
  <1>7. ASSUME NEW p \in Procs, addCachedObject(p) PROVE OwnCodeInv'
    <2> DEFINE db == work.state
               k == ModuleKey(p)
               base == IF db.meta[k] = None THEN db ELSE WithoutLRU(db, k)
               new == [Used(base, k, call[p].now) EXCEPT !.objects[k] = call[p].code]
               c == [call[p] EXCEPT !.op = "evict", !.step = "begin"]
    <2>1. /\ InTxn(p) /\ call[p].op = "add" /\ work.on /\ db \in Databases /\ Own(db) /\ db.version = "current"
          /\ Opened(p) /\ HasOwn(p)
      BY <1>7, WorkState, Zenon DEF addCachedObject, In, InTxn, Transactions, OneWriter, OwnInv, VersionInv, Opened, HasOwn
    <2>2. call[p] \in Asking /\ k \in Keys /\ call[p].code = k
      BY <2>1, KeysOfCalls DEF OwnInv
    <2>3. log' = log /\ clock' \in 1 .. MaxTime
      BY <1>7 DEF addCachedObject, Done, GiveUp, Store!Abort, Store!ChangeTo, TypeInv
    <2>4. CASE GiveUp(p, Caught(p))
      BY <2>1, <2>3, <2>4, CaughtLeaves DEF GiveUp, Store!Abort
    <2>5. CASE Done(p, new)
      <3> DEFINE d == Step(p, "commit")
      <3>1. /\ d \in Asking /\ d.op = "add" /\ d.step = "commit" /\ d.code = k /\ d.module = call[p].module
            /\ d.now = call[p].now
        BY <2>1, <2>2 DEF Asking, Step, Steps, Codes
      <3>2. call[p].now \in Times
        BY <2>1 DEF TypeInv
      <3>3. base \in Databases /\ base.version = "current" /\ base.objects = db.objects
        BY <2>1, <2>2, WithoutLRUType
      <3> HIDE DEF base
      <3>4. /\ Used(base, k, call[p].now) \in Databases /\ Used(base, k, call[p].now).version = "current"
            /\ Used(base, k, call[p].now).objects = db.objects
        <4> HIDE DEF db, k
        <4> QED
          BY <2>2, <3>2, <3>3, UsedType
      <3>5. new \in Databases /\ new.version = "current" /\ new.objects = [db.objects EXCEPT ![k] = k]
        BY <2>2, <3>4 DEF Databases, Codes
      <3>6. Own(new)
        BY <2>1, <3>5, KeysAreNotMarks DEF Own, Databases
      <3> HIDE DEF new, d
      <3>7. d \in Doing /\ work' = Store!Work(new) /\ Goto(p, d)
        BY <2>5, <3>1 DEF d, Done, Doing, Store!ChangeTo
      <3> QED
        BY <2>1, <2>3, <3>1, <3>2, <3>5, <3>6, <3>7, DoneStays DEF ModuleKey
    <2>6. CASE GiveUp(p, c)
      <3>1. c \in Asking /\ c.op = "evict" /\ c.step = "begin" /\ c.code = k /\ c.module = call[p].module
            /\ c.now = call[p].now
        BY <2>2, Zenon DEF Asking, Steps
      <3> HIDE DEF c
      <3>2. c \in Doing
        BY <3>1 DEF Doing
      <3> QED
        BY <2>1, <2>3, <2>6, <3>1, <3>2, LeavesTxn, Zenon DEF GiveUp, Store!Abort, VersionInv, ModuleKey, TypeInv
    <2> QED
      BY <1>7, <2>4, <2>5, <2>6 DEF addCachedObject
  <1>8. ASSUME NEW p \in Procs, evictLRU(p) PROVE OwnCodeInv'
    <2> DEFINE db == work.state
               t == Oldest(db)
    <2>1. /\ InTxn(p) /\ call[p].op = "evict" /\ work.on /\ db \in Databases /\ Own(db) /\ db.version = "current"
          /\ HasOwn(p) /\ call[p].now \in Times
      BY <1>8, WorkState, Zenon DEF evictLRU, In, InTxn, Transactions, OneWriter, OwnInv, VersionInv, HasOwn, TypeInv
    <2>2. call[p] \in Asking /\ call[p].code = <<CodeKey[p], call[p].module>>
      BY <2>1, KeysOfCalls, Zenon DEF OwnInv, ModuleKey
    <2>3. log' = log /\ clock' \in 1 .. MaxTime
      BY <1>8 DEF evictLRU, Done, GiveUp, Store!Abort, Store!ChangeTo, TypeInv
    <2>4. CASE GiveUp(p, Caught(p))
      BY <2>1, <2>3, <2>4, CaughtLeaves DEF GiveUp, Store!Abort
    <2>5. ASSUME \E u \in Times : db.lru[u] # None, Done(p, Evicted(db, t)) PROVE OwnCodeInv'
      <3> DEFINE new == Evicted(db, t)
                 d == Step(p, "commit")
      <3>1. /\ d \in Asking /\ d.op = "evict" /\ d.step = "commit" /\ d.code = call[p].code
            /\ d.module = call[p].module /\ d.now = call[p].now
        BY <2>1, <2>2 DEF Asking, Step, Steps
      <3>2. t \in Times /\ db.lru[t] # None
        BY <2>1, <2>5, OldestExists
      <3>3. new \in Databases /\ new.version = "current" /\ new.objects = [db.objects EXCEPT ![db.lru[t]] = None]
        <4> HIDE DEF db, t
        <4> QED
          BY <2>1, <3>2, EvictedType, Zenon
      <3>4. Own(new)
        BY <2>1, <3>3, KeysAreNotMarks DEF Own, Databases
      <3> HIDE DEF new, d
      <3>5. d \in Doing /\ work' = Store!Work(new) /\ Goto(p, d)
        BY <2>5, <3>1 DEF d, new, Done, Doing, Store!ChangeTo
      <3> QED
        BY <2>1, <2>2, <2>3, <3>1, <3>3, <3>4, <3>5, DoneStays
    <2> QED
      BY <1>8, <2>4, <2>5 DEF evictLRU
  <1>9. ASSUME NEW p \in Procs, commit(p) PROVE OwnCodeInv'
    <2> DEFINE c == Step(p, "return")
    <2>1. /\ InTxn(p) /\ work.on /\ work.state \in Databases /\ Own(work.state) /\ work.state.version = "current"
          /\ call[p].op \in Transactions /\ call[p].step = "commit"
      BY <1>9, WorkState, Zenon DEF commit, In, InTxn, Transactions, OneWriter, OwnInv, VersionInv
    <2>2. /\ c \in Doing /\ c.op = call[p].op /\ c.step = "return"
          /\ c.op # "init" => c.code = call[p].code /\ c.module = call[p].module /\ c.now = call[p].now
      BY <2>1 DEF TypeInv, Doing, Closed, Idle, Asking, Steps, Step, Transactions
    <2> HIDE DEF c
    <2>3. call'[p] = c /\ (\A q \in Procs \ {p} : call'[q] = call[q]) /\ work' = work /\ clock' = clock
          /\ call' \in [Procs -> Doing]
      BY <1>9, <2>2 DEF c, commit, Goto, TypeInv, Store!Commit
    <2>4. log' = Append(log, work.state) /\ log \in Seq(Databases)
      BY <1>9 DEF commit, Store!Commit, TypeInv
    <2>5. /\ log' \in Seq(Databases) /\ log' # <<>> /\ Len(log') = Len(log) + 1 /\ log'[Len(log')] = work.state
          /\ \A i \in 1 .. Len(log) : log'[i] = log[i]
      BY <2>1, <2>4
    <2>6. \A q \in Procs : /\ InTxn(q)' = InTxn(q)
                           /\ HasOwn(q)' = HasOwn(q)
                           /\ ModuleKey(q)' = ModuleKey(q) \/ ~HasOwn(q)
      BY <2>1, <2>2, <2>3 DEF InTxn, HasOwn, Transactions, ModuleKey
    <2>7. TypeInv'
      BY <2>1, <2>2, <2>3, <2>5, Zenon DEF TypeInv, Transactions
    <2>8. OneWriter'
      BY <2>3, <2>6 DEF OneWriter
    <2>9. VersionInv'
      BY <2>1, <2>3, <2>5, <2>6 DEF VersionInv, OneWriter
    <2>10. \A q \in Procs : HasOwn(q)' => call'[q].code = ModuleKey(q)'
      BY <2>1, <2>2, <2>3, <2>6 DEF OwnInv, HasOwn, Transactions
    <2>11. \A i \in 1 .. Len(log') : Own(log'[i])
      BY <2>1, <2>4, <2>5 DEF OwnInv
    <2>12. OwnInv'
      BY <2>1, <2>3, <2>10, <2>11 DEF OwnInv
    <2> QED
      BY <2>7, <2>8, <2>9, <2>12
  <1>10. ASSUME NEW p \in Procs, commitFails(p) PROVE OwnCodeInv'
    <2>1. InTxn(p)
      BY <1>10 DEF commitFails, In, InTxn
    <2> QED
      BY <1>10, <2>1, CaughtLeaves, Zenon DEF commitFails, GiveUp, Store!Abort, TypeInv
  <1>11. ASSUME NEW p \in Procs, commitReturns(p) PROVE OwnCodeInv'
    <2>1. InTxn(p) /\ Opened(p) /\ call[p].op \in Transactions /\ call[p].step = "return"
      BY <1>11 DEF commitReturns, In, InTxn, Opened, Transactions
    <2>2. log' = log /\ clock' = clock /\ work' = Store!NoWork /\ log[Len(log)].version = "current"
      BY <1>11, <2>1 DEF commitReturns, Store!Return, VersionInv
    <2>3. CASE call[p].op = "init"
      <3>1. Goto(p, Idle) /\ Idle \in Doing /\ Idle.op = "idle" /\ "code" \notin DOMAIN Idle
        BY <1>11, <2>3 DEF commitReturns, Doing, Idle
      <3>2. ~HasOwn(p)'
        BY <3>1 DEF Goto, TypeInv, HasOwn
      <3> QED
        BY <2>1, <2>2, <3>1, <3>2, LeavesTxn, Zenon DEF Transactions, TypeInv
    <2>4. CASE call[p].op = "evict"
      <3> DEFINE c == [call[p] EXCEPT !.op = "add", !.step = "begin"]
      <3>1. call[p] \in Asking /\ HasOwn(p) /\ call[p].now \in Times
        BY <2>4, KeysOfCalls, Zenon DEF HasOwn, TypeInv
      <3>2. c \in Asking /\ c.op = "add" /\ c.step = "begin" /\ c.code = call[p].code
            /\ c.module = call[p].module /\ c.now = call[p].now
        BY <3>1, Zenon DEF Asking, Steps
      <3>3. Goto(p, c)
        BY <1>11, <2>4 DEF commitReturns
      <3> HIDE DEF c
      <3>4. c \in Doing
        BY <3>2 DEF Doing
      <3> QED
        BY <2>1, <2>2, <3>1, <3>2, <3>3, <3>4, LeavesTxn, Zenon DEF Transactions, TypeInv, OwnInv, ModuleKey
    <2>5. CASE call[p].op \in {"get", "add"}
      <3> DEFINE c == Answered(call[p])
      <3>1. call[p] \in Asking /\ HasOwn(p)
        BY <2>1, <2>5, KeysOfCalls DEF HasOwn
      <3>2. c \in Doing /\ c.op = "idle" /\ c.code = call[p].code /\ c.module = call[p].module
        BY <3>1 DEF Asking, Answered, Doing
      <3>3. Goto(p, c)
        BY <1>11, <2>5 DEF commitReturns
      <3> HIDE DEF c
      <3> QED
        BY <2>1, <2>2, <3>1, <3>2, <3>3, LeavesTxn, Zenon DEF Transactions, TypeInv, OwnInv, ModuleKey
    <2> QED
      BY <2>1, <2>3, <2>4, <2>5 DEF Transactions
  <1>12. ASSUME NEW p \in Procs, Exit(p) PROVE OwnCodeInv'
    <2>1. /\ Goto(p, Closed) /\ Closed \in Doing /\ Closed.op = "closed"
          /\ log' = log /\ clock' = clock /\ work' = IF InTxn(p) THEN Store!NoWork ELSE work
      BY <1>12 DEF Exit, Store!Stop, Doing, Closed
    <2>2. call'[p] = Closed
      BY <2>1 DEF Goto, TypeInv
    <2>3. ~InTxn(p)' /\ ~Opened(p)' /\ ~HasOwn(p)'
      BY <2>1, <2>2 DEF InTxn, Opened, HasOwn, In, Transactions
    <2>4. CASE InTxn(p)
      BY <2>1, <2>3, <2>4, LeavesTxn, Zenon DEF Transactions, TypeInv
    <2>5. CASE ~InTxn(p)
      BY <2>1, <2>3, <2>5, StepOfOne, Zenon DEF TypeInv, OwnInv
    <2> QED
      BY <2>4, <2>5
  <1>13. ASSUME OSCrash PROVE OwnCodeInv'
    <2>1. PICK n \in {Len(log), Len(log) - 1} \ {0} : log' = SubSeq(log, 1, n)
      BY <1>13 DEF OSCrash, Store!Crash
    <2>2. log \in Seq(Databases) /\ n \in 1 .. Len(log)
      BY <2>1 DEF TypeInv
    <2>3. log' \in Seq(Databases) /\ log' # <<>> /\ Len(log') = n /\ \A i \in 1 .. n : log'[i] = log[i]
      BY <2>1, <2>2
    <2>4. /\ work' = Store!NoWork /\ clock' = clock /\ call' = [q \in Procs |-> Closed]
          /\ \A q \in Procs : call'[q] = Closed /\ call'[q].op = "closed"
      BY <1>13 DEF OSCrash, Store!Crash, Closed
    <2>5. TypeInv'
      BY <2>3, <2>4 DEF TypeInv, Doing
    <2>6. \A q \in Procs : ~InTxn(q)' /\ ~Opened(q)' /\ ~HasOwn(q)'
      BY <2>4 DEF InTxn, Opened, HasOwn, In, Transactions
    <2>7. \A i \in 1 .. Len(log') : Own(log'[i])
      BY <2>2, <2>3 DEF OwnInv
    <2>8. ~work'.on
      BY <2>4 DEF Store!NoWork
    <2>9. OneWriter' /\ VersionInv' /\ OwnInv'
      BY <2>6, <2>7, <2>8 DEF OneWriter, VersionInv, OwnInv
    <2> QED
      BY <2>5, <2>9
  <1>14. ASSUME UNCHANGED vars PROVE OwnCodeInv'
    BY <1>14, Zenon DEF vars, TypeInv, OneWriter, VersionInv, OwnInv, InTxn, HasOwn, Opened, In, ModuleKey
  <1> QED
    BY <1>1, <1>2, <1>3, <1>4, <1>5, <1>6, <1>7, <1>8, <1>9, <1>10, <1>11, <1>12, <1>13, <1>14 DEF Next, Proceed

\* getCachedObject returns object code that the process would have compiled itself, for any
\* number of processes with any code keys, whatever version wrote the database first, and
\* wherever a process or the system crashed.
THEOREM OwnCode == Spec => []ServesOwnCode
  <1>1. OwnCodeInv => ServesOwnCode
    BY DEF OwnCodeInv, OwnInv, ServesOwnCode, HasOwn, ModuleKey
  <1> QED
    BY <1>1, OwnCodeInit, OwnCodeStep, PTL DEF Spec

---------------------------------------------------------------------------------
(* The tables *)

\* The tables agree and no use lies in the future.
GoodAt(db, now) == db.version # Outdated =>
    Agree(db) /\ \A t \in Times : db.lru[t] # None => t <= now

Free(db, t) == db.version # Outdated => db.lru[t] = None

\* A process has read the clock and has not yet used the time.
Pending(p) == call[p].op = "evict" \/ (call[p].op = "add" /\ call[p].step \in {"begin", "body"})

\* Inductive, given OwnCodeInv: no table has an entry under a time that waits to be used, and
\* no two processes wait with the same time.
AgreeInv ==
    /\ \A i \in 1 .. Len(log) : GoodAt(log[i], clock)
    /\ work.on => GoodAt(work.state, clock)
    /\ \A p \in Procs : Pending(p) =>
         /\ call[p].now <= clock
         /\ \A i \in 1 .. Len(log) : Free(log[i], call[p].now)
         /\ work.on => Free(work.state, call[p].now)
    /\ \A p, q \in Procs : Pending(p) /\ Pending(q) /\ p # q => call[p].now # call[q].now

\* The last use of a key is moved to a time that no key has.
LEMMA UseAgrees ==
    ASSUME NEW db \in Databases, NEW new \in Databases, NEW k \in Keys, NEW t \in Times,
           Agree(db), db.lru[t] = None,
           \A j \in Keys \ {k} : new.objects[j] = db.objects[j],
           new.objects[k] # None,
           \A j \in Keys : new.meta[j] = IF j = k THEN t ELSE db.meta[j],
           \A u \in Times : new.lru[u] = CASE u = t -> k [] u # t /\ u = db.meta[k] -> None [] OTHER -> db.lru[u]
    PROVE  Agree(new) /\ \A u \in Times \ {t} : db.lru[u] = None => new.lru[u] = None
  <1> DEFINE s == db.meta[k]
  <1>1. /\ db.lru \in [Times -> Keys \cup {None}] /\ db.meta \in [Keys -> Times \cup {None}]
        /\ new.lru \in [Times -> Keys \cup {None}] /\ new.meta \in [Keys -> Times \cup {None}]
    BY DEF Databases
  <1>2. \A j \in Keys \ {k} : new.meta[j] = db.meta[j]
    BY <1>1
  <1>3. new.meta[k] = t /\ new.lru[t] = k
    BY <1>1
  <1>4. \A u \in Times \ {t} : new.lru[u] = IF u = s THEN None ELSE db.lru[u]
    BY <1>1, KeysAreNotMarks
  <1>5. ASSUME NEW j \in Keys
        PROVE  /\ (new.objects[j] = None) = (new.meta[j] = None)
               /\ new.meta[j] # None => new.lru[new.meta[j]] = j
    <2>1. CASE j = k
      BY <1>3, <2>1, KeysAreNotMarks
    <2>2. CASE j # k
      <3>1. new.objects[j] = db.objects[j] /\ new.meta[j] = db.meta[j]
        BY <1>2, <2>2
      <3>2. (db.objects[j] = None) = (db.meta[j] = None)
        BY DEF Agree
      <3>3. ASSUME db.meta[j] # None PROVE new.lru[db.meta[j]] = j
        <4>1. db.meta[j] \in Times /\ db.lru[db.meta[j]] = j /\ j # None
          BY <1>1, <3>3, KeysAreNotMarks DEF Agree
        <4>2. s # None => db.lru[s] = k
          BY DEF Agree
        <4>3. db.meta[j] # t /\ db.meta[j] # s
          BY <2>2, <4>1, <4>2, KeysAreNotMarks
        <4> QED
          BY <1>4, <4>1, <4>3
      <3> QED
        BY <3>1, <3>2, <3>3
    <2> QED
      BY <2>1, <2>2
  <1>6. ASSUME NEW u \in Times, new.lru[u] # None PROVE new.meta[new.lru[u]] = u
    <2>1. CASE u = t
      BY <1>3, <2>1
    <2>2. CASE u # t
      <3>1. u # s /\ new.lru[u] = db.lru[u] /\ db.lru[u] \in Keys /\ db.meta[db.lru[u]] = u
        BY <1>1, <1>4, <1>6, <2>2 DEF Agree
      <3> QED
        BY <1>2, <3>1
    <2> QED
      BY <2>1, <2>2
  <1> QED
    BY <1>4, <1>5, <1>6 DEF Agree

LEMMA EvictAgrees ==
    ASSUME NEW db \in Databases, NEW t \in Times, db.lru[t] # None, Agree(db)
    PROVE  /\ Agree(Evicted(db, t))
           /\ \A u \in Times : db.lru[u] = None => Evicted(db, t).lru[u] = None
  <1> DEFINE new == Evicted(db, t)
             k == db.lru[t]
  <1>1. /\ db.lru \in [Times -> Keys \cup {None}] /\ db.meta \in [Keys -> Times \cup {None}]
        /\ db.objects \in [Keys -> Codes] /\ k \in Keys /\ db.meta[k] = t
    BY DEF Databases, Agree
  <1>2. /\ new.objects = [db.objects EXCEPT ![k] = None] /\ new.meta = [db.meta EXCEPT ![k] = None]
        /\ new.lru = [db.lru EXCEPT ![t] = None]
    BY EvictedType
  <1> HIDE DEF new
  <1>3. \A j \in Keys : /\ new.objects[j] = IF j = k THEN None ELSE db.objects[j]
                        /\ new.meta[j] = IF j = k THEN None ELSE db.meta[j]
    BY <1>1, <1>2
  <1>4. \A u \in Times : new.lru[u] = IF u = t THEN None ELSE db.lru[u]
    BY <1>1, <1>2
  <1>5. Agree(new)
    BY <1>1, <1>3, <1>4, KeysAreNotMarks DEF Agree
  <1> QED
    BY <1>4, <1>5 DEF new

\* A step of one process that commits nothing: what has to be shown of it.
LEMMA AgreeStepOfOne ==
    ASSUME OwnCodeInv, AgreeInv, NEW p \in Procs, NEW c, Goto(p, c),
           log' = log, clock' \in Int, clock <= clock',
           work'.on => GoodAt(work'.state, clock'),
           \A q \in Procs \ {p} : Pending(q) /\ work'.on => Free(work'.state, call[q].now),
           Pending(p)' => /\ c.now <= clock'
                          /\ \A i \in 1 .. Len(log) : Free(log[i], c.now)
                          /\ work'.on => Free(work'.state, c.now)
                          /\ \A q \in Procs \ {p} : Pending(q) => c.now # call[q].now
    PROVE  AgreeInv'
  <1>1. call'[p] = c /\ \A q \in Procs \ {p} : call'[q] = call[q]
    BY DEF OwnCodeInv, TypeInv, Goto
  <1>2. \A q \in Procs \ {p} : Pending(q)' = Pending(q)
    BY <1>1 DEF Pending
  <1>3. clock \in Int /\ Times \subseteq Int
    BY DEF OwnCodeInv, TypeInv, Times
  <1>4. \A i \in 1 .. Len(log) : GoodAt(log[i], clock')
    BY <1>3 DEF AgreeInv, GoodAt
  <1>5. \A q \in Procs : Pending(q) => call[q].now \in Int
    BY <1>3, Zenon DEF OwnCodeInv, TypeInv, Pending
  <1>6. \A q \in Procs \ {p} : Pending(q) => call[q].now <= clock'
    BY <1>3, <1>5 DEF AgreeInv
  <1>7. (\A i \in 1 .. Len(log) : GoodAt(log[i], clock))'
    BY <1>4
  <1>8. ASSUME NEW q \in Procs, Pending(q)'
        PROVE  /\ call'[q].now <= clock'
               /\ \A i \in 1 .. Len(log) : Free(log[i], call'[q].now)
               /\ work'.on => Free(work'.state, call'[q].now)
    BY <1>1, <1>2, <1>6, <1>8 DEF AgreeInv
  <1>9. ASSUME NEW q \in Procs, NEW r \in Procs, Pending(q)', Pending(r)', q # r
        PROVE  call'[q].now # call'[r].now
    BY <1>1, <1>2, <1>9 DEF AgreeInv
  <1> QED
    BY <1>7, <1>8, <1>9 DEF AgreeInv

\* A process leaves its transaction, or goes on outside one.
LEMMA AgreeWithoutChange ==
    ASSUME OwnCodeInv, AgreeInv, NEW p \in Procs, NEW c, Goto(p, c),
           log' = log, clock' \in Int, clock <= clock', work' \in {work, Store!NoWork},
           Pending(p)' => Pending(p) /\ c.now = call[p].now
    PROVE  AgreeInv'
  <1>1. work'.on => work' = work
    BY DEF Store!NoWork
  <1>2. clock \in Int /\ Times \subseteq Int
    BY DEF OwnCodeInv, TypeInv, Times
  <1>3. work'.on => GoodAt(work'.state, clock')
    BY <1>1, <1>2 DEF AgreeInv, GoodAt
  <1>4. Pending(p) => call[p].now \in Int
    BY <1>2, Zenon DEF OwnCodeInv, TypeInv, Pending
  <1>5. Pending(p)' => /\ c.now <= clock'
                       /\ \A i \in 1 .. Len(log) : Free(log[i], c.now)
                       /\ work'.on => Free(work'.state, c.now)
                       /\ \A q \in Procs \ {p} : Pending(q) => c.now # call[q].now
    BY <1>1, <1>2, <1>4 DEF AgreeInv
  <1> QED
    BY <1>1, <1>3, <1>5, AgreeStepOfOne DEF AgreeInv

LEMMA AgreeInit == Init => AgreeInv
  <1> SUFFICES ASSUME Init PROVE AgreeInv
    OBVIOUS
  <1>1. PICK db \in {EmptyDB} \cup {OutdatedDB(k) : k \in Keys} : log = <<db>>
    BY DEF Init, Store!Init
  <1>2. EmptyDB.version # Outdated => Agree(EmptyDB) /\ \A t \in Times : EmptyDB.lru[t] = None
    BY DEF EmptyDB, Agree
  <1>3. GoodAt(db, clock)
    BY <1>2, EmptyType DEF GoodAt
  <1>4. Len(log) = 1 /\ log[1] = db
    BY <1>1
  <1>5. \A p \in Procs : ~Pending(p)
    BY DEF Init, Pending, Closed
  <1>6. ~work.on
    BY DEF Init, Store!Init, Store!NoWork
  <1> QED
    BY <1>3, <1>4, <1>5, <1>6 DEF AgreeInv

\* What a process gives up for leaves no time pending that was not.
LEMMA CaughtAgrees ==
    ASSUME OwnCodeInv, AgreeInv, NEW p \in Procs, InTxn(p), Goto(p, Caught(p)),
           log' = log, clock' \in Int, clock <= clock', work' = Store!NoWork
    PROVE  AgreeInv'
  <1>1. call'[p] = Caught(p)
    BY DEF OwnCodeInv, TypeInv, Goto
  <1>2. Caught(p).op \in {"closed", "compile", "idle"}
    <2>1. CASE call[p].op = "init"
      BY <2>1 DEF Caught, Closed
    <2>2. CASE call[p].op = "get"
      BY <2>2, KeysOfCalls DEF Caught, Asking, OwnCodeInv
    <2>3. CASE call[p].op \in {"add", "evict"}
      BY <2>3 DEF Caught, Answered
    <2> QED
      BY <2>1, <2>2, <2>3 DEF InTxn, Transactions
  <1>3. ~Pending(p)'
    BY <1>1, <1>2 DEF Pending
  <1> QED
    BY <1>3, AgreeWithoutChange

LEMMA AgreeStep == ~CoarseClock /\ OwnCodeInv /\ AgreeInv /\ [Next]_vars => AgreeInv'
  <1> SUFFICES ASSUME ~CoarseClock, OwnCodeInv, AgreeInv, [Next]_vars PROVE AgreeInv'
    OBVIOUS
  <1>0. clock \in Int /\ Times \subseteq Int
    BY DEF OwnCodeInv, TypeInv, Times
  <1>1. ASSUME NEW p \in Procs, open(p) PROVE AgreeInv'
    <2>1. ~Pending(p)'
      BY <1>1 DEF open, Goto, OwnCodeInv, TypeInv, Pending
    <2> QED
      BY <1>0, <1>1, <2>1, AgreeWithoutChange DEF open, store
  <1>2. ASSUME NEW p \in Procs, getCachedObject(p) PROVE AgreeInv'
    <2>1. PICK m \in Modules :
            Goto(p, [op |-> "get", step |-> "begin", module |-> m, code |-> None, now |-> 0])
      BY <1>2 DEF getCachedObject
    <2>2. ~Pending(p)'
      BY <2>1 DEF Goto, OwnCodeInv, TypeInv, Pending
    <2> QED
      BY <1>0, <1>2, <2>1, <2>2, AgreeWithoutChange DEF getCachedObject, store
  <1>3. ASSUME NEW p \in Procs, compileThunk(p) PROVE AgreeInv'
    <2>1. PICK t \in Times : /\ clock' = t /\ t = clock + 1
                             /\ Goto(p, [call[p] EXCEPT !.op = "add", !.step = "begin", !.code = Compiled(p), !.now = t])
      BY <1>3, Zenon DEF compileThunk, Read
    <2> DEFINE c == [call[p] EXCEPT !.op = "add", !.step = "begin", !.code = Compiled(p), !.now = t]
    <2>2. c.now = t
      BY <1>3, KeysOfCalls DEF compileThunk, Asking, OwnCodeInv
    <2> HIDE DEF c
    <2>3. \A i \in 1 .. Len(log) : Free(log[i], t)
      BY <1>0, <2>1 DEF AgreeInv, GoodAt, Free
    <2>4. work.on => GoodAt(work.state, clock') /\ Free(work.state, t)
      BY <1>0, <2>1 DEF AgreeInv, GoodAt, Free
    <2>5. \A q \in Procs : Pending(q) => call[q].now \in Int /\ call[q].now # t
      BY <1>0, <2>1 DEF OwnCodeInv, TypeInv, Pending, AgreeInv
    <2>6. work' = work /\ log' = log
      BY <1>3 DEF compileThunk, store
    <2> QED
      <3>1. Goto(p, c) /\ clock' \in Int /\ clock <= clock' /\ c.now <= clock'
        BY <1>0, <2>1, <2>2 DEF c
      <3>2. \A q \in Procs \ {p} : Pending(q) /\ work.on => Free(work.state, call[q].now)
        BY DEF AgreeInv
      <3> QED
        BY <2>2, <2>3, <2>4, <2>5, <2>6, <3>1, <3>2, AgreeStepOfOne
  <1>4. ASSUME NEW p \in Procs, beginTxn(p) PROVE AgreeInv'
    <2> DEFINE c == Step(p, "body")
    <2>1. call[p].op \in Transactions /\ call[p].step = "begin"
      BY <1>4 DEF beginTxn, In
    <2>2. c.op = call[p].op /\ (c.op # "init" => c.now = call[p].now)
      BY <2>1 DEF OwnCodeInv, TypeInv, Doing, Closed, Idle, Asking, Step, Transactions
    <2> HIDE DEF c
    <2>3. call'[p] = c /\ Goto(p, c)
      BY <1>4 DEF c, beginTxn, Goto, OwnCodeInv, TypeInv
    <2>4. Pending(p)' => Pending(p) /\ c.now = call[p].now
      BY <2>1, <2>2, <2>3 DEF Pending
    <2>5. /\ log' = log /\ clock' = clock /\ work'.on /\ work'.state = log[Len(log)]
          /\ Len(log) \in 1 .. Len(log)
      BY <1>4 DEF beginTxn, Store!Begin, Store!Work, OwnCodeInv, TypeInv
    <2>6. /\ work'.on => GoodAt(work'.state, clock')
          /\ \A q \in Procs : Pending(q) => Free(work'.state, call[q].now)
      BY <2>5 DEF AgreeInv
    <2>7. Pending(p)' => /\ c.now <= clock'
                         /\ \A i \in 1 .. Len(log) : Free(log[i], c.now)
                         /\ work'.on => Free(work'.state, c.now)
                         /\ \A q \in Procs \ {p} : Pending(q) => c.now # call[q].now
      BY <2>4, <2>5, <2>6 DEF AgreeInv
    <2>8. log' = log /\ clock' \in Int /\ clock <= clock'
      BY <1>0, <2>5
    <2> QED
      BY <2>3, <2>6, <2>7, <2>8, AgreeStepOfOne
  <1>5. ASSUME NEW p \in Procs, initBody(p) PROVE AgreeInv'
    <2>1. InTxn(p) /\ call[p].op = "init" /\ work.on /\ work.state \in Databases
      BY <1>5, WorkState, Zenon DEF initBody, In, InTxn, Transactions, OwnCodeInv, OneWriter
    <2>2. log' = log /\ clock' = clock
      BY <1>5 DEF initBody, Done, GiveUp, Store!Abort, Store!ChangeTo
    <2>3. CASE Done(p, [IF work.state.version = Outdated THEN EmptyDB ELSE work.state EXCEPT !.version = "current"])
      <3> DEFINE base == IF work.state.version = Outdated THEN EmptyDB ELSE work.state
                 db == [base EXCEPT !.version = "current"]
                 c == Step(p, "commit")
      <3>1. base \in Databases
        BY <2>1, EmptyType
      <3>2. base.version # Outdated
        BY EmptyType, KeysAreNotMarks
      <3>3. GoodAt(base, clock) /\ \A q \in Procs : Pending(q) => Free(base, call[q].now)
        <4>1. EmptyDB.lru = [t \in Times |-> None] /\ Agree(EmptyDB)
          BY DEF EmptyDB, Agree
        <4>2. \A q \in Procs : Pending(q) => call[q].now \in Times
          BY DEF OwnCodeInv, TypeInv, Pending
        <4> QED
          BY <2>1, <4>1, <4>2 DEF AgreeInv, GoodAt, Free
      <3> HIDE DEF base
      <3>4. db.version = "current" /\ db.objects = base.objects /\ db.meta = base.meta /\ db.lru = base.lru
        BY <3>1 DEF Databases
      <3> HIDE DEF db
      <3>5. GoodAt(db, clock) /\ \A q \in Procs : Pending(q) => Free(db, call[q].now)
        BY <3>2, <3>3, <3>4 DEF GoodAt, Free, Agree
      <3>6. Goto(p, c) /\ work'.state = db
        BY <2>3 DEF Done, Store!ChangeTo, Store!Work, db, base
      <3>7. ~Pending(p)'
        BY <2>1, <3>6 DEF Goto, Step, OwnCodeInv, TypeInv, Doing, Closed, Idle, Asking, Pending
      <3> QED
        BY <1>0, <2>2, <3>5, <3>6, <3>7, AgreeStepOfOne
    <2>4. CASE GiveUp(p, Caught(p))
      BY <1>0, <2>1, <2>2, <2>4, CaughtAgrees DEF GiveUp, Store!Abort
    <2> QED
      BY <1>5, <2>3, <2>4 DEF initBody
  <1>6. ASSUME NEW p \in Procs, tryGetCachedObject(p) PROVE AgreeInv'
    <2> DEFINE db == work.state
               k == ModuleKey(p)
    <2>1. /\ InTxn(p) /\ call[p].op = "get" /\ work.on /\ db \in Databases /\ db.version = "current"
          /\ call[p] \in Asking /\ k \in Keys
      BY <1>6, WorkState, KeysOfCalls, Zenon
         DEF tryGetCachedObject, In, InTxn, Transactions, OwnCodeInv, OneWriter, VersionInv
    <2>2. log' = log /\ clock' \in Int /\ clock <= clock'
      BY <1>0, <1>6 DEF tryGetCachedObject, GiveUp, Store!Abort, Store!ChangeTo, Read
    <2>3. CASE GiveUp(p, Caught(p))
      BY <2>1, <2>2, <2>3, CaughtAgrees DEF GiveUp, Store!Abort
    <2>4. ASSUME NEW t \in Times, db.objects[k] # None, HasLRU(db, k), clock' = t, t = clock + 1,
                 Store!ChangeTo(Used(WithoutLRU(db, k), k, t)),
                 Goto(p, [Step(p, "commit") EXCEPT !.code = db.objects[k]])
          PROVE  AgreeInv'
      <3> DEFINE b == WithoutLRU(db, k)
                 new == Used(b, k, t)
                 c == [Step(p, "commit") EXCEPT !.code = db.objects[k]]
      <3>1. c.op = "get"
        BY <2>1 DEF Step, Asking
      <3>2. db.meta[k] # None /\ Agree(db) /\ (\A u \in Times : db.lru[u] # None => u <= clock) /\ db.lru[t] = None
        BY <1>0, <2>1, <2>4, KeysAreNotMarks DEF HasLRU, AgreeInv, GoodAt
      <3>3. work'.state = new /\ Goto(p, c)
        BY <2>4 DEF Store!ChangeTo, Store!Work
      <3> HIDE DEF c, db, k
      <3>4. b \in Databases /\ b.version = "current" /\ b.objects = db.objects /\ b.meta = db.meta
            /\ \A u \in Times : b.lru[u] = IF u = db.meta[k] THEN None ELSE db.lru[u]
        BY <2>1, <3>2, WithoutLRUType
      <3> HIDE DEF b
      <3>5. new \in Databases /\ new.version = "current" /\ new.objects = db.objects
            /\ (\A j \in Keys : new.meta[j] = IF j = k THEN t ELSE db.meta[j])
            /\ \A u \in Times : new.lru[u] = IF u = t THEN k ELSE b.lru[u]
        BY <2>1, <2>4, <3>4, UsedType
      <3> HIDE DEF new
      <3>6. Agree(new) /\ \A u \in Times \ {t} : db.lru[u] = None => new.lru[u] = None
        <4>1. (\A j \in Keys \ {k} : new.objects[j] = db.objects[j]) /\ new.objects[k] # None
          BY <2>4, <3>5 DEF db, k
        <4>2. \A u \in Times : new.lru[u] = CASE u = t -> k [] u # t /\ u = db.meta[k] -> None [] OTHER -> db.lru[u]
          BY <3>4, <3>5
        <4> QED
          BY <2>1, <2>4, <3>2, <3>5, <4>1, <4>2, UseAgrees
      <3>7. GoodAt(new, clock')
        BY <1>0, <2>4, <3>2, <3>6 DEF GoodAt
      <3>8. \A q \in Procs : Pending(q) => call[q].now \in Times /\ call[q].now # t /\ Free(db, call[q].now)
        BY <1>0, <2>1, <2>4 DEF OwnCodeInv, TypeInv, Pending, AgreeInv, db
      <3>9. \A q \in Procs : Pending(q) => Free(new, call[q].now)
        BY <2>1, <3>6, <3>8, KeysAreNotMarks DEF Free
      <3>10. ~Pending(p)'
        BY <3>1, <3>3 DEF Goto, OwnCodeInv, TypeInv, Pending
      <3> QED
        BY <2>2, <3>3, <3>7, <3>9, <3>10, AgreeStepOfOne
    <2> QED
      BY <1>6, <2>3, <2>4 DEF tryGetCachedObject, Read
  <1>7. ASSUME NEW p \in Procs, addCachedObject(p) PROVE AgreeInv'
    <2> DEFINE db == work.state
               k == ModuleKey(p)
               t == call[p].now
               base == IF db.meta[k] = None THEN db ELSE WithoutLRU(db, k)
               use == Used(base, k, t)
               new == [use EXCEPT !.objects[k] = call[p].code]
               c == [call[p] EXCEPT !.op = "evict", !.step = "begin"]
    <2>1. /\ InTxn(p) /\ call[p].op = "add" /\ call[p].step = "body" /\ Pending(p)
          /\ work.on /\ db \in Databases /\ db.version = "current"
          /\ call[p] \in Asking /\ k \in Keys /\ call[p].code = k /\ t \in Times
      BY <1>7, WorkState, KeysOfCalls, Zenon
         DEF addCachedObject, In, InTxn, Transactions, OwnCodeInv, OneWriter, VersionInv, OwnInv, HasOwn,
             TypeInv, Pending
    <2>2. log' = log /\ clock' = clock
      BY <1>7 DEF addCachedObject, Done, GiveUp, Store!Abort, Store!ChangeTo
    <2>3. CASE GiveUp(p, Caught(p))
      BY <1>0, <2>1, <2>2, <2>3, CaughtAgrees DEF GiveUp, Store!Abort
    <2>4. CASE GiveUp(p, c)
      <3>1. c.now = t
        BY <2>1 DEF Asking
      <3> HIDE DEF c
      <3> QED
        BY <1>0, <2>1, <2>2, <2>4, <3>1, AgreeWithoutChange DEF GiveUp, Store!Abort
    <2>5. CASE Done(p, new)
      <3> DEFINE d == Step(p, "commit")
      <3>1. d.op = "add" /\ d.step = "commit"
        BY <2>1 DEF Asking, Step
      <3>2. work'.state = new /\ Goto(p, d)
        BY <2>5 DEF Done, Store!ChangeTo, Store!Work
      <3>3. ~Pending(p)'
        BY <3>1, <3>2 DEF Goto, OwnCodeInv, TypeInv, Pending
      <3>4. /\ Agree(db) /\ (\A u \in Times : db.lru[u] # None => u <= clock) /\ db.lru[t] = None /\ t <= clock
            /\ \A q \in Procs \ {p} : Pending(q) => call[q].now \in Times /\ call[q].now # t /\ Free(db, call[q].now)
        BY <2>1, KeysAreNotMarks DEF AgreeInv, GoodAt, Free, OwnCodeInv, TypeInv, Pending
      <3> HIDE DEF d, db, k, t
      <3>5. base \in Databases /\ base.objects = db.objects /\ base.meta = db.meta
            /\ \A u \in Times : base.lru[u] = IF u = db.meta[k] THEN None ELSE db.lru[u]
        BY <2>1, WithoutLRUType, KeysAreNotMarks
      <3> HIDE DEF base
      <3>6. use \in Databases /\ use.objects = db.objects
            /\ (\A j \in Keys : use.meta[j] = IF j = k THEN t ELSE db.meta[j])
            /\ \A u \in Times : use.lru[u] = IF u = t THEN k ELSE base.lru[u]
        BY <2>1, <3>5, UsedType
      <3> HIDE DEF use
      <3>7. new \in Databases /\ new.objects = [db.objects EXCEPT ![k] = k] /\ new.meta = use.meta /\ new.lru = use.lru
        BY <2>1, <3>6 DEF Databases, Codes
      <3> HIDE DEF new
      <3>8. (\A j \in Keys \ {k} : new.objects[j] = db.objects[j]) /\ new.objects[k] # None
        BY <2>1, <3>7, KeysAreNotMarks DEF Databases
      <3>9. Agree(new) /\ \A u \in Times \ {t} : db.lru[u] = None => new.lru[u] = None
        <4>1. \A u \in Times : new.lru[u] = CASE u = t -> k [] u # t /\ u = db.meta[k] -> None [] OTHER -> db.lru[u]
          BY <3>5, <3>6, <3>7
        <4>2. \A j \in Keys : new.meta[j] = IF j = k THEN t ELSE db.meta[j]
          BY <3>6, <3>7
        <4>3. db \in Databases /\ new \in Databases /\ k \in Keys /\ t \in Times /\ Agree(db) /\ db.lru[t] = None
          BY <2>1, <3>4, <3>7
        <4> QED
          BY <3>8, <4>1, <4>2, <4>3, UseAgrees
      <3>10. GoodAt(new, clock')
        BY <2>2, <3>4, <3>9 DEF GoodAt
      <3>11. \A q \in Procs \ {p} : Pending(q) => Free(new, call[q].now)
        BY <2>1, <3>4, <3>9, KeysAreNotMarks DEF Free
      <3> QED
        BY <1>0, <2>2, <3>2, <3>3, <3>10, <3>11, AgreeStepOfOne
    <2> QED
      BY <1>7, <2>3, <2>4, <2>5 DEF addCachedObject
  <1>8. ASSUME NEW p \in Procs, evictLRU(p) PROVE AgreeInv'
    <2> DEFINE db == work.state
               t == Oldest(db)
    <2>1. /\ InTxn(p) /\ call[p].op = "evict" /\ Pending(p) /\ call[p] \in Asking
          /\ work.on /\ db \in Databases /\ db.version = "current" /\ Agree(db)
          /\ \A u \in Times : db.lru[u] # None => u <= clock
      BY <1>8, WorkState, KeysOfCalls, KeysAreNotMarks, Zenon
         DEF evictLRU, In, InTxn, Transactions, OwnCodeInv, OneWriter, VersionInv, Pending, AgreeInv, GoodAt
    <2>2. log' = log /\ clock' = clock
      BY <1>8 DEF evictLRU, Done, GiveUp, Store!Abort, Store!ChangeTo
    <2>3. CASE GiveUp(p, Caught(p))
      BY <1>0, <2>1, <2>2, <2>3, CaughtAgrees DEF GiveUp, Store!Abort
    <2>4. ASSUME \E u \in Times : db.lru[u] # None, Done(p, Evicted(db, t)) PROVE AgreeInv'
      <3> DEFINE new == Evicted(db, t)
                 d == Step(p, "commit")
      <3>1. d.now = call[p].now
        BY <2>1 DEF Asking, Step
      <3>2. work'.state = new /\ Goto(p, d)
        BY <2>4 DEF Done, Store!ChangeTo, Store!Work
      <3>3. t \in Times /\ db.lru[t] # None
        BY <2>1, <2>4, OldestExists
      <3>4. \A q \in Procs : Pending(q) => call[q].now \in Times /\ call[q].now <= clock /\ Free(db, call[q].now)
        BY <2>1 DEF AgreeInv, OwnCodeInv, TypeInv, Pending
      <3> HIDE DEF d, db, t
      <3>5. Agree(new) /\ (\A u \in Times : db.lru[u] = None => new.lru[u] = None) /\ new.version = "current"
        BY <2>1, <3>3, EvictAgrees, EvictedType, Zenon
      <3> HIDE DEF new
      <3>6. GoodAt(new, clock')
        BY <2>1, <2>2, <3>5 DEF GoodAt
      <3>7. \A q \in Procs : Pending(q) => Free(new, call[q].now)
        BY <2>1, <3>4, <3>5, KeysAreNotMarks DEF Free
      <3>8. /\ d.now <= clock'
            /\ \A i \in 1 .. Len(log) : Free(log[i], d.now)
            /\ work'.on => Free(work'.state, d.now)
            /\ \A q \in Procs \ {p} : Pending(q) => d.now # call[q].now
        BY <2>1, <2>2, <3>1, <3>2, <3>4, <3>7 DEF AgreeInv
      <3>9. log' = log /\ clock' \in Int /\ clock <= clock'
        BY <1>0, <2>2
      <3> QED
        BY <3>2, <3>6, <3>7, <3>8, <3>9, AgreeStepOfOne
    <2> QED
      BY <1>8, <2>3, <2>4 DEF evictLRU
  <1>9. ASSUME NEW p \in Procs, commit(p) PROVE AgreeInv'
    <2> DEFINE c == Step(p, "return")
    <2>1. work.on /\ call[p].op \in Transactions /\ call[p].step = "commit"
      BY <1>9 DEF commit, In, InTxn, OwnCodeInv, OneWriter
    <2>2. c.op = call[p].op /\ c.step = "return" /\ (c.op # "init" => c.now = call[p].now)
      BY <2>1 DEF OwnCodeInv, TypeInv, Doing, Closed, Idle, Asking, Step, Transactions
    <2> HIDE DEF c
    <2>3. call'[p] = c /\ (\A q \in Procs \ {p} : call'[q] = call[q]) /\ work' = work /\ clock' = clock
      BY <1>9 DEF c, commit, Goto, OwnCodeInv, TypeInv, Store!Commit
    <2>4. \A q \in Procs : Pending(q)' => Pending(q) /\ call'[q].now = call[q].now
      BY <2>1, <2>2, <2>3 DEF Pending, Transactions
    <2>5. log' = Append(log, work.state) /\ log \in Seq(Databases) /\ work.state \in Databases
      BY <1>9, <2>1, WorkState, Zenon DEF commit, Store!Commit, OwnCodeInv, TypeInv
    <2>6. \A i \in 1 .. Len(log') : log'[i] = work.state \/ (i \in 1 .. Len(log) /\ log'[i] = log[i])
      BY <2>5
    <2>7. \A i \in 1 .. Len(log') : GoodAt(log'[i], clock')
      BY <2>1, <2>3, <2>6 DEF AgreeInv
    <2>8. \A q \in Procs : Pending(q)' => /\ call'[q].now <= clock'
                                          /\ \A i \in 1 .. Len(log') : Free(log'[i], call'[q].now)
                                          /\ work'.on => Free(work'.state, call'[q].now)
      BY <2>1, <2>3, <2>4, <2>6 DEF AgreeInv
    <2>9. \A q, r \in Procs : Pending(q)' /\ Pending(r)' /\ q # r => call'[q].now # call'[r].now
      BY <2>4 DEF AgreeInv
    <2> QED
      <3>1. (\A i \in 1 .. Len(log) : GoodAt(log[i], clock))'
        BY <2>7
      <3>2. (work.on => GoodAt(work.state, clock))'
        BY <2>3 DEF AgreeInv
      <3>3. (\A q \in Procs : Pending(q) =>
                /\ call[q].now <= clock
                /\ \A i \in 1 .. Len(log) : Free(log[i], call[q].now)
                /\ work.on => Free(work.state, call[q].now))'
        BY <2>8
      <3>4. (\A q, r \in Procs : Pending(q) /\ Pending(r) /\ q # r => call[q].now # call[r].now)'
        BY <2>9
      <3> QED
        BY <3>1, <3>2, <3>3, <3>4 DEF AgreeInv
  <1>10. ASSUME NEW p \in Procs, commitFails(p) PROVE AgreeInv'
    <2>1. InTxn(p)
      BY <1>10 DEF commitFails, In, InTxn
    <2> QED
      BY <1>0, <1>10, <2>1, CaughtAgrees DEF commitFails, GiveUp, Store!Abort
  <1>11. ASSUME NEW p \in Procs, commitReturns(p) PROVE AgreeInv'
    <2>1. call[p].op \in Transactions /\ log' = log /\ clock' = clock /\ work' = Store!NoWork
      BY <1>11 DEF commitReturns, In, Store!Return
    <2>2. CASE call[p].op = "evict"
      <3> DEFINE c == [call[p] EXCEPT !.op = "add", !.step = "begin"]
      <3>1. c.now = call[p].now
        BY <2>2, KeysOfCalls DEF OwnCodeInv, Asking
      <3>2. Goto(p, c) /\ Pending(p)
        BY <1>11, <2>2 DEF commitReturns, Pending
      <3> HIDE DEF c
      <3> QED
        BY <1>0, <2>1, <3>1, <3>2, AgreeWithoutChange
    <2>3. CASE call[p].op # "evict"
      <3>1. \E c \in {Idle, Answered(call[p])} : Goto(p, c)
        BY <1>11, <2>3 DEF commitReturns
      <3>2. PICK c \in {Idle, Answered(call[p])} : Goto(p, c)
        BY <3>1
      <3>3. ~Pending(p)'
        BY <3>2 DEF Goto, Pending, Idle, Answered, OwnCodeInv, TypeInv
      <3> QED
        BY <1>0, <2>1, <3>2, <3>3, AgreeWithoutChange
    <2> QED
      BY <2>2, <2>3
  <1>12. ASSUME NEW p \in Procs, Exit(p) PROVE AgreeInv'
    <2>1. Goto(p, Closed) /\ log' = log /\ clock' = clock /\ work' \in {work, Store!NoWork}
      BY <1>12 DEF Exit, Store!Stop
    <2>2. ~Pending(p)'
      BY <2>1 DEF Goto, Pending, Closed, OwnCodeInv, TypeInv
    <2> QED
      BY <1>0, <2>1, <2>2, AgreeWithoutChange
  <1>13. ASSUME OSCrash PROVE AgreeInv'
    <2>1. PICK n \in {Len(log), Len(log) - 1} \ {0} : log' = SubSeq(log, 1, n)
      BY <1>13 DEF OSCrash, Store!Crash
    <2>2. log \in Seq(Databases) /\ n \in 1 .. Len(log)
      BY <2>1 DEF OwnCodeInv, TypeInv
    <2>3. Len(log') = n /\ \A i \in 1 .. n : log'[i] = log[i]
      BY <2>1, <2>2
    <2>4. ~work'.on /\ clock' = clock /\ \A q \in Procs : ~Pending(q)'
      BY <1>13 DEF OSCrash, Store!Crash, Store!NoWork, Closed, Pending
    <2>5. \A i \in 1 .. Len(log') : GoodAt(log'[i], clock')
      BY <2>2, <2>3, <2>4 DEF AgreeInv
    <2> QED
      BY <2>4, <2>5 DEF AgreeInv
  <1>14. ASSUME UNCHANGED vars PROVE AgreeInv'
    BY <1>14 DEF vars, AgreeInv, Pending
  <1> QED
    BY <1>1, <1>2, <1>3, <1>4, <1>5, <1>6, <1>7, <1>8, <1>9, <1>10, <1>11, <1>12, <1>13, <1>14 DEF Next, Proceed

\* While no two readings of the clock are equal, the tables of every committed database agree,
\* for any number of processes that add, use and evict entries at once, and wherever a
\* process or the system crashed.
THEOREM AgreeingTables == ~CoarseClock => (Spec => []TablesAgree)
  <1>1. OwnCodeInv /\ AgreeInv => TablesAgree
    BY KeysAreNotMarks DEF AgreeInv, GoodAt, TablesAgree
  <1>2. ASSUME ~CoarseClock PROVE Spec => []TablesAgree
    <2>1. OwnCodeInv /\ AgreeInv /\ [Next]_vars => OwnCodeInv' /\ AgreeInv'
      BY <1>2, OwnCodeStep, AgreeStep
    <2> QED
      BY <1>1, <2>1, OwnCodeInit, AgreeInit, PTL DEF Spec
  <1> QED
    BY <1>2
==================================================================================
