# TLA+ models of the WAVM runtime

WAVM is a WebAssembly virtual machine: a library that validates modules, compiles
them with LLVM and runs them, together with the host interfaces (WASI, Emscripten, a
thread interface for tests) that programs call. These specifications cover the parts
of it where several threads, or several objects with different lifetimes, meet: there
a unit test sees one order of events and the code must be right in all of them.

Every definition is translated from the C++ source and keeps its name where TLA+
allows it. `PROJECT.json` maps each definition to the lines it models, and lists the
runs, the hazards, the theorems and, for each property, a mutation of the model (a
definition commented `Mistake:`) that the property detects.

## Inventory

| Part of the system | State | Operations | What makes it hard | Modelled in |
|---|---|---|---|---|
| Id allocator (`Inline/IndexMap.h`) | allocated ids, last id | add, insertOrFail, removeOrFail | wrap-around, a full range | `IndexMap`; proofs in `ObjectGCProofs` |
| Atomic wait/notify (`Runtime/Atomics.cpp`) | map from addresses to wait lists, reference counts, queues | wait (with timeout), notify, atomic store | counts changed outside the lock, timeouts racing wake-ups, exceptions | `WaitList`, `WaitListProofs`; promise: `Futex`; `WaitListRefinement` |
| Events (`Platform/*/Event*.cpp`) | signaled or not | wait, signal | lost signals, spurious wake-ups | inside `WaitList` (`EventKind`) |
| Memories and their quota (`Runtime/Memory.cpp`, `ResourceQuota`) | sizes, committed pages, copies of the size, quota | create, clone, grow, unmap, delete | concurrent growth, failures half way, unsigned wrap | `MemoryGrow`, `Resources` |
| Tables and their quota (`Runtime/Table.cpp`) | elements, sizes, quota, a passive segment | create, clone, grow, delete, table.set, fill, copy, init, elem.drop | accesses without a lock or a size check, initialization of what is being added | `TableGrow`, `TableInvariant`, `TableGrowProofs`, `Resources` |
| WASI descriptors (`WASI/WASIFile.cpp`) | descriptor map, entries, rights, directory streams | all calls that look up, open, close, renumber or restrict | two levels of locks, rights checked before the lock | `FDTable`, `FDTableProofs` |
| Compartment, globals, contexts, instances, collector (`Runtime/*.cpp`) | objects, references, roots, slots of mutable globals | create, set, root, instantiate, collect | changes that overlap a collection, reuse of slots | `ObjectGC`, `ObjectGCProofs` |
| Threads of the program (`ThreadTest.cpp`, `EmscriptenThreads.cpp`) | thread map, reference counts, results | create, join, detach, exit of a thread and of the process | races on one id, reference counts, exit while threads run | `Threads`, `ThreadsProofs` |
| LMDB transactions (`liblmdb/mdb.c`) | pages in memory and on disk, meta pages, reader table, transactions | open, close, begin, put, del, commit, abort, read, crash | page reuse against readers, crashes, failed writes | `LMDB`; promise: `TxnStore` |
| LMDB B+tree (`liblmdb/mdb.c`) | pages, the table's counters, cursors | get, put, del, drop, cursor moves | splits, moves and merges under other cursors | `BTree` |
| Object cache (`ObjectCache.cpp`) | three database tables, calls in progress | open, look up, add, evict | processes racing, a full database, crashes, the clock | `ObjectCache`, `ObjectCacheProofs`, over `TxnStore` |
| Validator and code generator (`IR/Validate.cpp`, `LLVMJIT/Emit*.cpp`) | control, operand, branch target, try and catch stacks | every control operator, other operators by signature | two machines that must agree, also across unreachable code | `Codegen` |
| Invoke thunk cache, hash tables, NFA/RegExp, LEB128, path canonicalization | | | | planned, see below |
| What operators compute, text and binary formats, linker, VFS, platform wrappers, C interface, programs | | | | not modelled, see below |

How they interact: every map from ids to objects in a compartment, the descriptor map
and the thread map are IndexMaps, and each user holds its own lock around a call.
Memories, tables and globals are objects of a compartment and are deleted by its
collector, which `MemoryGrow` and `TableGrow` see as `collectMemory` and `collectTable`.
Program threads call the atomic
intrinsics, the WASI calls and the thread interface concurrently; the threads' contexts
are garbage-collection roots for as long as their `Thread` object exists. The object cache
is written against `TxnStore`. `LMDB` is shown to keep that promise only as long as no process opens
the environment while another commits and no meta page that failed to be written is read (`raced` below);
what is shown of the object cache rests on that. `LMDB` leaves the shape of its data trees to `BTree`. The modules are
composed where the parts share state (events and wait lists; quota, memories and
compartment; contexts, globals, instances and collector; validator and emitter), and are
separate where one is used only through a lock, or a transaction, that makes its calls atomic.

## Conventions

* A step is one critical section, or one access to shared state made outside all locks.
  What a thread does between two such points commutes with the other threads' steps.
* An assertion that fails, an error that ends the process, and an access to freed
  memory are recorded in a variable (`fault` in `WaitList`, `status` in `FDTable` and
  `Threads`), and no step is taken afterwards: what the program would do next is undefined
  or nothing. Safety properties therefore speak about every state up to that point. In
  `BTree` and `Codegen` they are collected in `t.bad`, which the properties require to stay empty, and in
  `e.bad`, where they allow the three failures described below and nothing else.
* A race that the code does not exclude and that goes wrong sets `raced` (`ObjectGC`, `LMDB`). Properties and
  theorems say what holds until then, and that nothing but the races listed leads there; what happens afterwards is
  described under "Behaviour met while modelling".
* Data are abstracted to what the properties tell apart: values of cells, entries of
  directories and payloads are model values; sizes are numbers of a small word (`Word`,
  `Modulus`) with the wrap of unsigned arithmetic where overflow matters.
* History variables (`leaked`, `granted`, `raced`, `replaced`, `outcome`, `hist`, `stored`, `on`)
  serve the properties. No guard reads them, except that `leaked` is bounded by `MaxLeaks`
  and that `raced`, like `fault`, ends the run.
* A definition commented `Mistake:` is a plausible error, used to show that a property would
  detect it.

## The modules

**IndexMap.** State: `map` (keys of the hash map), `lastIndex`. `add` begins the call and
each `Probe` is one iteration of its loop, so that not returning is visible; `insertOrFail`
and `removeOrFail` are used by cloning and deletion, so nothing keeps a caller from filling the range.
The index has the width of its unsigned type (`Modulus`): the first probe starts from `MinIndex - 1` modulo it.

**WaitList.** State: the cells, `addressToWaitListMap`, the lists with `numReferences` and
`wakeEvents`, one event per thread, and where each thread is in its call. `openWaitList` is one
step under the map's mutex, the decrement in `closeWaitList` is a step of its own, and
`deleteWaitList` is the second half under the map's mutex. `loadFaults` is the exception
that leaves `waitOnAddress` when the address was unmapped by `unmapMemoryPages`; the
reference it holds is counted in `leaked`. `EventKind` selects an auto-reset event
(Windows) or a condition variable without a predicate (POSIX): a signal to
nobody is then forgotten, and `wake` may happen without a signal. Time is abstracted: a timed wait
may time out at any moment.

**Futex** is the promise: one queue per address, wait and notify atomic.
**WaitListRefinement** maps the lists to it: a call takes effect in its critical section on
the list. **MCWaitList** adds the symmetry set.

**MemoryGrow.** State: memories and their sizes, the copy of the size that generated code
reads (`rtPages`), committed pages, the owner of each `resizingMutex`, the quota. `growMemory`
is split at the quota, the mutex, the commit, the store of the size and its publication;
createMemory and cloneMemory run through the same steps (cloneMemory holds the source's
mutex meanwhile); every failure, of the reservation, the quota, the limit or the commit, takes the code's clean-up path.

**TableGrow.** State: each table with its elements, size and mutex, the calls with their
locals, the element quota and one passive segment. Growth is split like growMemory's, with one
step per element between the commit and the store of the size; cloning copies element by
element, and so do table.fill, table.copy and table.init, which test their bounds once. An element that was
never committed, or is the zero of a fresh page, is not `Accessible`: a read of it throws.

**Resources** holds the proofs about `MemoryGrow`, then puts memories and tables side by side
(`ResourcesSpec`) for the run and for the theorems about both. They share
no state, so a behaviour explores one of the two with the other at rest. **TableInvariant** and
**TableGrowProofs** hold the proofs about `TableGrow`.

**FDTable.** State: `fdMap`, the entries with their open file, rights, stream and preopened
type. The locks are not variables: who holds which follows from `pc` (`HoldsMapShared`,
`HoldsMapExclusive`, ...). The calls that only use a descriptor (read, seek, stat, ...)
differ in the rights and the lock they ask for, and are members of the set of calls; what
changes the table or an entry (`path_open`, `fd_close`, `fd_renumber`, `fd_fdstat_set_rights`,
`fd_readdir`, exit) has an action per critical section. `InFile` is the operation on the file, made with the
entry locked.

**ObjectGC.** State: the objects in the compartment's maps, root counts (zero or not), the
references held by tables, globals (initial value, and one value per context) and
instances, the instantiation in progress, and the collector's `unreferenced` and
`pending` sets. A createGlobal reads the mask of allocated slots in one step (`seen`) and writes it in the next, so
that two calls can take one slot or lose a bit, which sets `raced`. The collector holds the compartment's mutex; `setTableElement`,
`setGlobalValue`, `initializeGlobal` and root counting do not take it and can fall between
two `scanObject` steps. `instantiateModule` creates parts one by one and `publishInstance`
stores the instance, as other threads see it.

**Threads.** State: the map, `numRefs`, which objects have a platform thread, where each
thread is, how it ended and what was reported. Both interfaces are in one module: `api` is
chosen in `Init`, and the steps that differ test it (only Emscripten allocates a stack
and joins all threads at the end, and every exception that leaves an Emscripten thread is
fatal; only ThreadTest can detach). `joinAllThreads`, `joinNextThread` and `processDestroyed` are the end of
the process on the main thread.

**TxnStore** is the promise of a transactional store: one writer whose changes appear at once,
readers that see one committed state, no older than what was committed when they began, and
a crash of the system that undoes the last commit at most.

**LMDB** is the transaction layer that keeps it, opened as the object cache opens it: the data file
as mapped and as synced, the lock file (last transaction ID, reader table, writer mutex), an
environment per process, its reader's transaction and the one write transaction. A reader's
start is four steps (`loadTxnId`, `storeTxnId`, `checkTxnId`, `copyMeta`); a commit is the saving of the
free list, the flush, the sync, the meta page and the publication of the ID, each of which can
fail or be the last thing before a crash; a meta page whose write failed is written back from what it was (`restoreMeta`), which can fail too.
`mdb_page_alloc` takes pages from records of free pages that are
older than every reader, as far as `me_pgoldest` knows. The database of free pages is a leaf or a branch over leaves of
`LeafRecords` records, so that saving the free list splits, moves and collapses its pages, which takes and frees pages in turn. The data's own tree is
one page for each key and a root. `raced` is set when an opening process stores an ID that a commit has overtaken or that is not the last,
when a meta page write fails under a reader that has checked its ID, and when the restoring write leaves the failed ID.

**BTree** is one table of a write transaction, operation by operation: `mdb_page_split`,
`mdb_node_move`, `mdb_page_merge`, `mdb_rebalance` and `mdb_drop0` with the repair of every other
cursor that the code makes in each of them. A leaf node has a size, so that `mdb_cursor_put` over an existing key can
shrink a page or split it. A page that a merge has freed is loose and is the next to be handed out, also when an unused slot
of a cursor's stack still names it.

**ObjectCache.** State: the store, what each process is doing, the clock. One transaction per
step of `init`, `tryGetCachedObject`, `addCachedObject` and `evictLRU`; the store's crash, a full database and a full disk
can come at each. `MCObjectCache` has two processes that share entries and one that does not.

**Codegen.** The validator `v` and the emitter `e` read the same operators. In the program the whole
body is validated first; the model lets them read each operator together, which is the same
because both are deterministic and every accepted prefix can be completed to a valid body. A
value is its LLVM type, with one vector type that is canonical and one that is not.
`Decode` is UnreachableOpVisitor. What goes wrong is put in `e.bad` under a label and ends the body: "assert", "after" (an instruction after a
terminator) and "phi" must not happen; "switch" (br_table), "rethrow" and "args" (the parameters of an exception) do, see below.

## Runs

The runs marked V check what a comment or an assertion of the repository says of the program, and find
it violated; `findings` in `PROJECT.json` quotes the line.

| Run | Module | Instance | What it shows |
|---|---|---|---|
| `index_map` V | IndexMap | ids 0..3 of a 3-bit index | add on a full range probes for ever: the test at `IndexMap.h:26` lets one call too many through, where the comment before it says failure is returned |
| `wait_list` | MCWaitList | 3 threads, 1 address, 2 values, 4 lists, auto-reset events | exact reference counts, no open list is deleted, an event is signaled exactly when its waiter was taken off; every interleaving is one of `Futex` |
| `wait_list_posix` V | MCWaitList | 2 threads, 3 lists, condition variables | a notify between a waiter's timeout and its lock signals nobody: the event is not signaled where the comment at `Atomics.cpp:154` says it is and the next line ends the process otherwise |
| `memory_table_grow` | Resources | 2 threads; 2 memories, word of 8, growth by 1 or 7, quota 4; 2 tables, word of 4, growth by 1 or 3, quota 3 | exact quotas, accesses beyond the size fault, bulk operations inside the bounds never do, no two growths are granted the same pages or elements, no deadlock |
| `fd_table` | MCFDTable | 2 threads, descriptors 0..2 and 4 entries, one preopened directory | files match descriptors, a file in use stays open (except by fd_renumber), the process gains no right, a call waits for an entry for ever only behind an operation on that entry's file that does not return |
| `object_gc` | MCObjectGC | one instance, table, context and foreign object, two globals and one slot, one overlapping change | until a race goes wrong: what can be loaded survives, all garbage goes, a reused slot starts out null |
| `threads` | Threads | 3 created threads besides the main one, both interfaces | exact reference counts, the joiner gets the outcome, the process outlives its threads, ended threads are deleted |
| `lmdb` | MCLMDB | a writing and a reading process, 1 key, 1 reader slot; 11 pages, 4 transactions, one crash and one failed write, or 13 pages and 6 transactions without faults | until `raced`: no page is lost or used twice, readers' pages are out of reach, the last commit is known, commits return; the layer implements `TxnStore` |
| `btree` | MCBTree | 6 keys of one size, or 5 of which one changes its size; 1 tracked cursor, 2 to 3 keys a leaf, depth 3, 14 pages | the tree is sound, its counters exact, lookups find what is stored, a cursor stays on its key through splits, moves and merges |
| `object_cache` | MCObjectCache | 3 processes, two of one compiler, 1 module, 3 calls, one fault | the three tables agree, nobody is served foreign code, a call returns once the others stop adding |
| `codegen` | MCCodegen | nesting 3, stack 3, one structure in unreachable code | emitter and validator agree on every stack, calls unwind to the right try, no assertion or malformed IR but for the three failures labelled in `e.bad` |
| `codegen_rethrow` V | MCCodegen | the same | a valid rethrow across a block fails the emitter's assertion (`EmitExceptions.cpp:364`), since the validator counts every structure (`Validate.cpp:637`) and the emitter catch clauses only |

Why the bounds suffice to make the cases happen. `index_map`: four calls of add fill the range and the fifth does not return. `wait_list`: three threads are needed for two waiters and a notifier, and for a thread that
reopens a list between the two halves of another's close; a fourth list identity lets a
list be recreated while old ones are still referred to. `memory_table_grow`: 7 in a word of 8 (3
in a word of 4) wraps both the quota's sum and the limit's; the type's maximum and the quota are
each reached first in some behaviours; two memories or tables make cloning meet growth of its source;
with two elements a page, the first growth of a table commits a page with an element beyond the size
and the second only initializes it. `fd_table`: two
descriptors besides the root let opening, closing and renumbering meet, an entry more than
there are descriptors lets a call keep one that was removed, the grants include a right that
no directory has, and the table fills up. `object_gc`: one object of each kind, and a second global that competes for the slot,
already forms cycles (table to instance to table) and reuses the slot; a second change
overlapping one collection multiplies the states and adds no new kind of race.
`threads`: three threads form a join cycle while a fourth, the main one, ends the process.
`lmdb`: within four transactions freed pages are taken again while a reader is active, and a record
of free pages holds one page, so that saving the free list takes several rounds; a leaf of the database of free pages holds two
records, and six transactions make it split, move and collapse. Faults and the longer run are separate choices of `Limits`, since together they are
too many states.
`btree`: six keys at two a leaf make a tree of three levels and move nodes between branches; in the second choice of `Loads` a leaf with two small nodes and a
large one is full, and splits when one of the small ones is overwritten. `object_cache`: two processes race to add one entry while the third
has another, and eviction meets both; `MaxCalls` is what stops the others from adding, on which `CallReturns` depends. `codegen`: depth 3 is a try inside a catch inside a function.

The state spaces are finite without a state constraint: every bound is a guard and a
named constant (`MaxWake`, `MaxLeaks`, `MaxQueue`, `MaxFD`, `Word`, `MaxChanges`,
`NumThreads`, `MaxPg`, `MaxTxnId`, `MaxEdits`, `Limits`, `MaxTime`, `MaxCalls`, `MaxFaults`,
`MaxDepth`, `MaxStack`, `MaxDead`). Three runs have a VIEW: `ReadableState` leaves out pages no snapshot and no
transaction can read, `Surviving` the log entries that no crash can bring back, and no operation and no property tells the merged states apart.
`TreeView` leaves out the numbers of pages and what the unused slots of cursors' stacks and the list of loose pages hold; that no operation depends on
those two is read from the code, where every comparison of a slot comes after one of `mc_snum`, `mc_top` or C_INITIALIZED, and is not
itself checked in all combinations. `CHECK_DEADLOCK FALSE` is set where the program may stop: a
fault or the end of the process, all waiters asleep, a freed compartment, a bound reached.

## Fairness

* `IndexMap`: the loop of `add` goes on (`WF(Probe)`). It runs with its user's lock held and waits
  for nothing; the counterexample probes for ever.
* `MemoryGrow`, `TableGrow`, `FDTable`: weak fairness of each thread's steps inside a call. The operating
  system schedules every runnable thread, and mutexes are held only over steps that are
  themselves fair. Starting a call is not fair: a program need not call anything.
* `FDTable` assumes nothing of an operation on a file (`InFile`): a read from a terminal may never return, and keeps a
  concurrent fd_close, and with it the whole table, waiting. `TableUnlocked` says that this is the only way.
* `Threads`: steps inside calls and the end of a thread are fair. Nothing is assumed about
  WebAssembly functions: they may run for ever.
* `LMDB`: a writer that is ending its transaction goes on (`WF(~raced /\ Writer(p))`) unless its process dies;
  a transaction that is open need never end.
* `ObjectCache`: a process inside a call goes on (`WF(Proceed(p))`) unless it dies; the store's
  writer mutex is held only over such steps.
* `WaitList`, `ObjectGC`, `BTree` and `Codegen` state no liveness and assume no fairness.

## Proofs

Proved by TLAPS for every value of the constants that satisfies the named assumptions. Every
safety property that a passing run checks is a theorem, except those of `LMDB`, `BTree` and `Codegen`.

**WaitListProofs** (`WaitListAssumption`; any finite set of threads).
`OpenListIsLiveAlways`, `RefCountAlways` and `MapConsistentAlways` hold for both kinds of event. None of
the three is inductive alone. A close may delete a list only because the count it reads is zero;
that no holder remains follows from `RefCount`; that the entry removed from the map is the list's own
follows from the last conjunct of `LifeInv`, that a thread about to delete a list which is still
allocated finds it in the map. The counting steps (`OpenShared`, `OpenNew`,
`HolderLeaves`) rest on the theorems about cardinality. In particular the double
deletion described below never takes a list away from a call that has it open:
the only access to a deleted list is in the deletion itself.
`SignaledIffTakenOffAlways` and `ImplementsFutexAlways` have the hypothesis `EventKind = "auto_reset"`: with
condition variables both are false. `QueueInv` adds that a queue holds each thread at most once and only
threads that wait on that list. The refinement is one lemma per action: it is a
step of `Futex` (`OpenIsAsk`, `FaultIsTrap`, `DiffersIsRefuse`, `PushIsBlock`, `WakeIsResume`, `EraseIsGiveUp`,
`WakeIsNotify`, `CloseIsReturn`, ...) or leaves the mapped state alone; `InitIsFutex` and
`EveryStepIsFutex` join them.

**Resources** (`MemoryAssumption`, `TableAssumption`; any finite sets of threads, memories and tables, any word and limits).
For memories, `MemInv` says that nobody else knows a memory being created (`OwnInv`) and that a memory is
locked by the thread that grows it from the moment its size is read, and by the one that clones it (`LockInv`); `GrantedOnceAlways` and `BeyondSizeFaultsAlways` follow. The
quotas are sums over memories and calls in progress, and a sum over a set is a
recursion; it is written as the cardinality of a set of pairs (holder, number below what it holds), which `Exact` says
is the quota's value, and a step of one of the five kinds of `Moves` (take, give back, add to a size, destroy, nothing) keeps that (`StaysExact`). That no
addition wraps is part of the argument: every part is at most the sum, which is at most the maximum.
`PageQuotaExactAlways` and `ElemQuotaExactAlways` apply this to memories and tables. `SideBySide` shows that
a behaviour of `ResourcesSpec` is one of each part, and gives the four theorems about what the run checks:
`QuotasExactAlways`, `AccessBeyondSizeAlways`, `BulkNeverThrowsAlways`, `GrowthsDisjointAlways`.

**TableInvariant** and **TableGrowProofs** (`TableAssumption`). `TableInv` has, for each thread, what it owns
(`Owns`) and has locked (`Locks`), how far it is with the elements it adds, copies or writes
(`Progress`) and what it has written (`Wrote`); that nobody else knows a table being created
(`Unshared`); and that every element below a table's size is accessible and beyond it only what a
growth in progress has written (`OfTable`). The first module proves that each action keeps it,
the second `TableInvAlways` and from it `BulkNeverThrowsAlways`, `BeyondSizeThrowsAlways` and
`GrowthKeepsElementsAlways`: elements below a size are initialized before that size can be
seen, so an operation that passed its bounds test never meets an uninitialized element although it takes no lock.

**FDTableProofs** (`FDTableAssumption`): `FilesMatchDescriptorsAlways`, `UsedStaysOpenAlways`,
`AuthorityNeverGrowsAlways`. The invariant `FDInv` needs `LockInv`: whoever has the map locked exclusively excludes all other
holders, and the entry of a call in progress is still mapped or was replaced by fd_renumber. The action property
says that no step adds to the rights that the entries and the calls under way hold together (`AuthorityStep`).

**ThreadsProofs**: `RefCountAlways`, `JoinReturnsOutcomeAlways`, `ExitWaitsForThreadsAlways`. `ResultInv` says that a
result is read only after its thread has ended. `ExitInv` says that with Emscripten a thread that has not ended is in the map or
being joined (`Claimed`): the process ends when the map is empty, and what is then left are
threads that join one another.

**ObjectGCProofs** (`GCAssumption`; any sets of objects and slots, any number of overlapping
changes): `GCInvAlways`, `NoDanglingAlways`, `RootsSurviveAlways`, `NewGlobalIsNullAlways`,
`CollectsAllGarbageAlways`. The
invariant `GCInv` joins the tricolour condition of the collector (`FinishedIsClosed`: what has been
scanned refers to nothing still taken for garbage), the state of the slots of mutable
globals (`SlotsClean`: a slot has one global and reads as null until that global is in the
compartment, as long as no two calls of createGlobal have taken one) and of an instantiation in progress (`BuildingAlive`). When the collector has
nothing left to scan, `FinishedIsClosed` says that what it deletes is referred to by no
survivor (`DeletedIsUnused`). `CollectsAllGarbage` is the converse: what the collector has marked is reachable
(`MarkedIsReachable`), so that what is left after it is. The statements carry the condition `~raced`: the compartment's mutex
does not keep out table writes, root counting or the parts of an instantiation, and a collection
that overlaps one of these can delete an object in use; and nothing keeps two createGlobal calls from reading one mask.
`raced` is set only in these cases, so the theorems say that nothing else can go wrong.

The same module has the theorems about `IndexMap`, whose ids the objects have:
`AllocatedInRangeAlways` and `AllocatesNextFreeAlways`. `IdInv` adds
that `lastIndex` is in the range or is the value just below it, and that every id between the place where a
call of add started and the place it has reached is taken. Hypothesis `IdRange`: the range starts at 0 or ends before the largest value of the index type. The maps of a compartment
(`Compartment.cpp:20`) and WASI's (`WASIPrivate.h:112`) satisfy it. Emscripten's
thread ids (`EmscriptenPrivate.h:106`) and ThreadTest's do not: there the increment wraps to 0 before it
is compared, and 0 is handed out although it lies below `MinIndex`.

**ObjectCacheProofs** (`ObjectCacheAssumption`; any processes, modules, faults and crashes): `OwnCode` and, under
`~CoarseClock`, `AgreeingTables`. `OwnCodeInv` says that one process at a time is in a transaction (`OneWriter`), that no
process gets past its opening before the database has its version (`VersionInv`), and that every entry of a committed or working
database belongs to its key (`OwnInv`). For the tables, `AgreeInv` adds that no table has an
entry under a time that waits to be used, and that no two processes wait with the same time.

Only model-checked:

* liveness, which the prover does not handle: `CallReturns` of `ObjectCache`, `SomeReturns`, `TableUnlocked`, `EndedIsDeleted`, `CommitReturns`;
* `PagesAccounted`, `OldestIsProtected`, `LastCommitKnown` and `ImplementsStore` of `LMDB`: the pages of
  a transaction are the result of the loop of `mdb_freelist_save`, and no inductive invariant of it has been found yet that the provers handle;
* `BTree`, whose trees are defined by recursion, and `Codegen`, whose steps are
  compositions of operations on sequences: both need induction over data.

## Behaviour met while modelling that has no run

These follow from the code, and are in the models unless said otherwise.

* Wait lists: two threads that both see the count reach zero both delete the list
  (`Atomics.cpp:66-79`; `fault = "use_after_free"`). On POSIX a signal to a thread that has not yet
  begun to wait is lost, so a waiter that notify counted as woken may sleep on (`EventPOSIX.cpp:86`); a
  spurious wake-up leaves the thread's event in the list, and the assertion
  that a deleted list is empty fails (`Atomics.cpp:74`; `fault = "list_not_empty"`). The fatal error of
  run `wait_list_posix` is `fault = "event_not_signaled"`.
* A load that faults in `waitOnAddress` leaks a reference to the wait list (`Atomics.cpp:113`), which
  then stays in the map: counted in `leaked`.
* A caller of `IndexMap::add` that leaves one id free does not meet the loop of run `index_map`. A range that ends at the largest value of
  the index type but does not start at 0 hands out 0 (`IdRange` above); `AllocatedInRange` is false for it.
* path_open with every descriptor in use probes on with `fdMapMutex` locked (`pc = "probing"` in
  `FDTable`). The branch that returns EMFILE (`WASIFile.cpp:1004`) cannot be reached, nor can the one of
  createTable for exhausted ids, and createTable then probes with the compartment's mutex locked. `TableUnlocked` is about
  calls that wait for an entry, and does not claim that such a path_open unlocks the table.
* Two overlapping fd_fdstat_set_rights can leave a descriptor with rights that the first of them took away
  (`WASIFile.cpp:97`, `104`, `826`): rights are compared before the entry is locked. The process as a whole
  gains none (`AuthorityNeverGrows`). fd_renumber closes a file that another call is using; `UsedStaysOpen` excludes
  entries it `replaced`.
* fd_close of a preopened directory removes it from the table and then destroys the entry with its
  file open (`WASIFile.cpp:354`), which ends the process (`status = "destroyed_open"`).
* A thread is in the map before its platform thread is stored: a join in between
  (`ThreadTest.cpp:157`; `null_platform_thread`); createThread then reads the id from an object it holds no
  reference to (`creator_reads_deleted`). An exception thrown between the two halves of
  detachThread is lost.
* Threads that join themselves or each other in a cycle are no longer in the map, so the end of
  the process does not wait for them; this is why `ExitWaitsForThreads` admits `join`.
* Foreign objects are not in the sets the collector starts from: a rooted one does not keep its
  compartment alive. `NoDangling` and `RootsSurvive` therefore exclude them.
* LMDB, where `raced` ends the behaviour: a process that opens the environment sets `mti_txnid` back when another commits between its
  reading of the meta page and its store (`mdb.c:4883`), so that the next writer starts from the snapshot before the last; a reader between its check and its copy
  can copy the roots of a meta page whose write is then undone; when the write that restores the meta page fails too, the ID of the failed
  transaction can stay in it. A reader labelled t may copy the meta page of t + 2, which is harmless.
* Object cache, with `CoarseClock = TRUE`: two uses at one time share an LRU entry, and `TablesAgree` is violated. The comment at
  `ObjectCache.cpp:511-513` is about redundant adds. It does not cover two uses at the same time. `CallReturns` needs the others to stop adding:
  while they go on, the room one process makes can go to another each time (`ObjectCache.cpp:493`).
* BTree: a cursor that MDB_LAST has put at the end keeps its C_EOF flag when later puts split its page, and MDB_NEXT
  then answers MDB_NOTFOUND although keys follow (`lmdb.h:1558-1561`). `CursorsKeepTheirPlace` is about the key a
  cursor is on.
* Codegen, "switch" in `e.bad`: br_table coerces the arguments of its cases after it has created the switch
  (`EmitCore.cpp:273-290`), so that the conversion of a vector that is not canonical follows a terminator; builds with assertions verify the module and
  stop (`LLVMCompile.cpp:127-137`).
* Codegen, "args" in `e.bad`: throw_ stores parameter i at index i (`EmitExceptions.cpp:328-339`), catch_ loads it from
  index n-i-1 (`EmitExceptions.cpp:259-271`), so that several parameters arrive reversed.
* Codegen, not modelled: exceptions that leave a
  catch clause by br or return are never destroyed; table.grow and table.fill are validated with i32 operands also for
  tables with 64-bit indices (`Validate.cpp:611`, `617-620`); validateCodeSection does not call `finish()`
  (`Validate.cpp:1294-1303`).
* The address space itself is not modelled: `numReservedBytes` and its counterpart in tables are set before the result of the
  reservation is tested (`Memory.cpp:73`, `Table.cpp:84`), so the clean-up frees address space
  that was never reserved; `~Memory` deregisters another amount than was registered (`Memory.cpp:193`).
* Not modelled: the condition variable is created without the attribute that selects the
  monotonic clock its deadlines are computed with (`EventPOSIX.cpp:31`).
* Two concurrent createGlobal calls can choose the same slot, or one can clear the bit the other has set (`Global.cpp:26`; `raced` in `ObjectGC`).
  Not modelled: createContext's failure path is itself fatal (`Context.cpp:26`).
* Not modelled: cloneCompartment copies table elements without translating them to
  the new compartment (`Table.cpp:229`).

## Not modelled, and why

What the generated code computes: its correctness rests on LLVM's semantics and on machine code, out
of reach of a model checker; `Codegen` covers how control structures are validated and emitted. Text and
binary formats, printing: sequential functions of long inputs.
Linker, intrinsics, modules, VFS, platform layer, C interface, programs, logging: sequential
translations between interfaces, whose effects appear in the models of their users.
Of LMDB: nested transactions, spilling, overflow pages, sorted duplicates and MDB_APPEND, none of which the
object cache uses except overflow pages; `BTree` has keys of one size, so the split inside
update_key and the sibling branch of FollowLeftPage are not reached. Tables are those with 32-bit indices.
`components` in `PROJECT.json` has one entry for each.

## Plan

Next, in this order:

1. **Proofs about LMDB**: an inductive invariant for `PagesAccounted` that covers a transaction in
   progress, then `OldestIsProtected` and the steps of `ImplementsStore`.
2. **HashTable**: Robin Hood insertion and backward-shift removal against a map.
3. **Pure algorithms**: subset construction of `NFA.cpp`, LEB128, `getCanonicalPath`.
4. **Invoke thunk cache**: double-checked lookup; one thunk per type.
5. **Compartment cloning**.
