-------------------------------- MODULE TxnStore --------------------------------
(*********************************************************************************)
(* What a transactional store promises its users: one writer at a time, whose     *)
(* changes appear at once when it commits; readers that see one committed state   *)
(* for as long as they read, no older than what was committed when they began;    *)
(* and a system crash that undoes the last commit at most.  The promises of        *)
(* lmdb.h for an environment opened with MDB_NOMETASYNC.                           *)
(*********************************************************************************)
EXTENDS Integers, Sequences

CONSTANTS
    Procs,      \* users of the store
    States,     \* what the store may hold
    Initial     \* what it may hold at first

VARIABLES
    log,        \* the committed states, oldest first
    acked,      \* the length of the log when a commit was last known to be complete
    work,       \* the write transaction: the state it has made so far
    reads       \* user -> what it knows of the state it reads

vars == <<log, acked, work, reads>>

NoWork == [on |-> FALSE]
Work(state) == [on |-> TRUE, state |-> state]
NotReading == [pc |-> "none"]

Init ==
    /\ \E state \in Initial : log = <<state>>
    /\ acked = 1
    /\ work = NoWork
    /\ reads = [p \in Procs |-> NotReading]

\* A write transaction starts from the last state.
Begin ==
    /\ ~work.on
    /\ work' = Work(log[Len(log)])
    /\ acked' = Len(log)
    /\ UNCHANGED <<log, reads>>

\* It changes the state, for itself alone.
ChangeTo(state) ==
    /\ work.on
    /\ work' = Work(state)
    /\ UNCHANGED <<log, acked, reads>>

Change == \E state \in States : ChangeTo(state)

\* It ends without effect: aborted, failed, or its process is gone.
Abort ==
    /\ work' = NoWork
    /\ UNCHANGED <<log, acked, reads>>

\* Its changes are committed.
Commit ==
    /\ work.on
    /\ log' = Append(log, work.state)
    /\ UNCHANGED <<acked, work, reads>>

\* The commit returns.
Return ==
    /\ acked' = Len(log)
    /\ work' = NoWork
    /\ UNCHANGED <<log, reads>>

\* A read transaction begins, then settles on a state that is not older.
StartRead(p) ==
    /\ reads[p].pc = "none"
    /\ \E from \in acked .. Len(log) : reads' = [reads EXCEPT ![p] = [pc |-> "started", from |-> from]]
    /\ UNCHANGED <<log, acked, work>>

Read(p) ==
    /\ reads[p].pc = "started"
    /\ \E v \in reads[p].from .. Len(log) :
         reads' = [reads EXCEPT ![p] = [pc |-> "reading", state |-> log[v]]]
    /\ UNCHANGED <<log, acked, work>>

\* A read transaction ends, and a write transaction too if its process dies.
Stop(p) ==
    /\ reads' = [reads EXCEPT ![p] = NotReading]
    /\ work' \in {work, NoWork}
    /\ UNCHANGED <<log, acked>>

\* The system crashes: all or all but the last of the commits survive.
Crash ==
    /\ \E n \in {Len(log), Len(log) - 1} \ {0} :
         /\ log' = SubSeq(log, 1, n)
         /\ acked' = IF acked < n THEN acked ELSE n
    /\ work' = NoWork
    /\ reads' = [p \in Procs |-> NotReading]

Next ==
    \/ Begin \/ Change \/ Abort \/ Commit \/ Return \/ Crash
    \/ \E p \in Procs : StartRead(p) \/ Read(p) \/ Stop(p)

Spec == Init /\ [][Next]_vars
==================================================================================
