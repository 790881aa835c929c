--------------------------- MODULE FDTableProofs ---------------------------
(***************************************************************************)
(* Proofs about FDTable, for any number of threads, descriptors, entries   *)
(* and rights.                                                             *)
(***************************************************************************)
EXTENDS FDTable, TLAPS

Rights(e) == e.rights \cup e.inheriting

AllRights ==
  INHERITING_DIRECTORY_RIGHTS \cup stdioRights \cup UNION {Rights(g) : g \in Grants}

Entries ==
  [vfd : BOOLEAN, dirEntStream : BOOLEAN, rights : SUBSET AllRights,
   inheriting : SUBSET AllRights, isPreopened : BOOLEAN, replaced : BOOLEAN]

Kinds == {"none", "peek", "vfd", "readdir", "narrow", "rename", "open", "close", "renumber"}

CallType == [kind : Kinds, exclusive : BOOLEAN]

Grant == [rights : SUBSET AllRights, inheriting : SUBSET AllRights]

Referring == {"locking", "using", "closing", "removed", "renumbering"}

TypeInv ==
  /\ fdMap \in [FDs -> FDEs \cup {NoFDE}]
  /\ fdes \in [FDEs -> Entries]
  /\ pc \in [Threads -> Referring \cup {"idle", "renaming", "adding", "probing"}]
  /\ call \in [Threads -> CallType]
  /\ fde \in [Threads -> FDEs \cup {NoFDE}]
  /\ want \in [Threads -> Grant]
  /\ fd2 \in [Threads -> FDs]
  /\ \A t \in Threads : fde[t] # NoFDE <=> pc[t] \in Referring

\* What the locks give: one thread at a time changes the map, and nobody looks an
\* entry up meanwhile; an entry that was removed belongs to the call that removes it.
LockInv ==
  /\ \A t, u \in Threads :
       HoldsMapExclusive(t) /\ u # t => ~ HoldsMapExclusive(u) /\ ~ HoldsMapShared(u)
  /\ \A t \in Threads : pc[t] \in {"locking", "closing", "renumbering"} => fde[t] \in Range(fdMap)
  /\ \A t \in Threads : pc[t] = "renumbering" => fdMap[fd2[t]] # NoFDE
  /\ \A t \in Threads : pc[t] = "using" => fde[t] \in Range(fdMap) \/ fdes[fde[t]].replaced
  /\ \A t \in Threads : pc[t] = "removed" =>
       /\ fde[t] \notin Range(fdMap) /\ fdes[fde[t]].vfd
       /\ \A u \in Threads \ {t} : fde[u] # fde[t]

FDInv == TypeInv /\ LockInv /\ FilesMatchDescriptors

-----------------------------------------------------------------------------
USE DEF At

LEMMA NextIsOneOf ==
  ASSUME [Next]_vars
  PROVE  \/ UNCHANGED vars
         \/ exitProcess
         \/ \E t \in Threads :
              \/ lockFDE(t) \/ useVFD(t) \/ peek(t) \/ narrow(t)
              \/ \E b \in BOOLEAN : readdir(t, b) \/ readOldPath(t, b) \/ openVFD(t, b)
              \/ \E newFD \in FDs : validateNewPath(t, newFD)
              \/ addFDE(t) \/ probeFullMap(t) \/ removeFDE(t) \/ closeFDE(t) \/ moveFDE(t)
              \/ \E fd \in FDs :
                   \/ \E c \in SimpleCalls : begin(t, c, fd)
                   \/ \E g \in Grants : fd_fdstat_set_rights(t, fd, g)
                   \/ \E openFlags \in OpenFlags, fdFlags \in FDFlags, g \in Grants :
                        path_open(t, fd, openFlags, fdFlags, g)
                   \/ \E toFD \in FDs : fd_renumber(t, fd, toFD)
                   \/ path_rename(t, fd) \/ fd_close(t, fd)
  BY Zenon DEF Next, Step, Begin

LEMMA GrantRights ==
  ASSUME NEW g \in Grants
  PROVE  g \in Grant
  <1>1. g = [rights |-> g.rights, inheriting |-> g.inheriting]
    BY FDTableAssumption
  <1>2. g.rights \subseteq AllRights /\ g.inheriting \subseteq AllRights
    BY DEF AllRights, Rights
  <1> QED
    BY <1>1, <1>2 DEF Grant

LEMMA CallTypes ==
  ASSUME NEW c \in SimpleCalls
  PROVE  c.kind \in Kinds /\ c.exclusive \in BOOLEAN
  <1>1. \A needs : Call(needs, "peek").kind \in Kinds /\ Call(needs, "vfd").kind \in Kinds
    BY DEF Call, Kinds
  <1>2. \A needs, kind : Call(needs, kind).exclusive = FALSE
    BY DEF Call
  <1>3. fd_readdir.kind \in Kinds /\ fd_readdir.exclusive = TRUE
    BY DEF fd_readdir, Call, Kinds
  <1>4. c = fd_readdir \/ \E needs : c = Call(needs, "peek") \/ c = Call(needs, "vfd")
    BY Zenon DEF SimpleCalls, fd_prestat_get, fd_prestat_dir_name, fd_datasync, readImpl, writeImpl,
       fd_pread, fd_pwrite, fd_read, fd_write, fd_seek, fd_tell, fd_fdstat_get, fd_sync, fd_advise,
       fd_filestat_get, fd_filestat_set_times, fd_filestat_set_size, path_filestat_get,
       path_filestat_set_times, path_unlink_file, path_remove_directory, path_create_directory,
       fd_fdstat_set_flags
  <1> QED
    BY <1>1, <1>2, <1>3, <1>4, Zenon

LEMMA EntryTypes ==
  /\ Destroyed \in Entries /\ ~ Destroyed.vfd
  /\ \A g \in Grant, b \in BOOLEAN :
       /\ NewFDE(g, b) \in Entries /\ NewFDE(g, b).vfd
       /\ NewFDE(g, b).rights = g.rights /\ NewFDE(g, b).inheriting = g.inheriting
  BY Zenon DEF Destroyed, NewFDE, Entries, Grant

LEMMA ClosedType ==
  ASSUME TypeInv, NEW f \in FDEs, NEW t \in Threads
  PROVE  /\ closed(f, t) \in Entries /\ ~ closed(f, t).vfd
         /\ Rights(closed(f, t)) \subseteq Rights(fdes[f])
  BY EntryTypes, Zenon DEF TypeInv, closed, Entries, Rights, Destroyed

LEMMA TypeInit == Init => TypeInv
  <1> SUFFICES ASSUME Init
               PROVE  TypeInv
    OBVIOUS
  <1>1. /\ [rights |-> stdioRights, inheriting |-> {}]
             \in Grant
        /\ [rights |-> DIRECTORY_RIGHTS, inheriting |-> INHERITING_DIRECTORY_RIGHTS]
             \in Grant
        /\ NoRights \in Grant
    BY DEF AllRights, INHERITING_DIRECTORY_RIGHTS, NoRights, Grant
  <1>2. fdes \in [FDEs -> Entries]
    BY <1>1, EntryTypes, Zenon DEF Init
  <1>3. fdMap \in [FDs -> FDEs \cup {NoFDE}]
    BY FDTableAssumption DEF Init
  <1>4. 0 \in FDs
    BY FDTableAssumption DEF FDs
  <1> QED
    BY <1>1, <1>2, <1>3, <1>4, Zenon DEF Init, TypeInv, NoCall, Referring, Kinds, CallType

-----------------------------------------------------------------------------
(* The calls of the program take few kinds of steps.                       *)

\* A call finds its entry, and is granted no right that the entry lacks.
Lookup(t) ==
  /\ pc[t] \in {"idle", "renaming"} /\ MapReadable
  /\ \E fd \in FDs, c \in CallType :
       /\ fdMap[fd] # NoFDE
       /\ fde' = [fde EXCEPT ![t] = fdMap[fd]]
       /\ call' = [call EXCEPT ![t] = c]
       /\ \/ want' = want
          \/ \E g \in Grant : /\ want' = [want EXCEPT ![t] = g]
                              /\ Rights(g) \subseteq Rights(fdes[fdMap[fd]])
  /\ pc' = [pc EXCEPT ![t] = "locking"]
  /\ UNCHANGED <<fdMap, fdes, fd2, status>>

\* A call lets go of its entry, which it may have restricted.
Unlock(t) ==
  /\ pc[t] = "using"
  /\ \E e \in Entries :
       /\ fdes' = [fdes EXCEPT ![fde[t]] = e]
       /\ e.vfd = fdes[fde[t]].vfd /\ e.replaced = fdes[fde[t]].replaced
       /\ Rights(e) \subseteq Rights(fdes[fde[t]]) \cup Rights(want[t])
  /\ \E label \in {"idle", "renaming", "adding"} : pc' = [pc EXCEPT ![t] = label]
  /\ call' = [call EXCEPT ![t] = NoCall]
  /\ fde' = [fde EXCEPT ![t] = NoFDE]
  /\ want' = want \/ want' = [want EXCEPT ![t] = NoRights]
  /\ fd2' = fd2 \/ fd2' = [fd2 EXCEPT ![t] = 0]
  /\ status' \in {status, "used_closed"}
  /\ UNCHANGED fdMap

GiveUp(t) == pc[t] = "renaming" /\ Return(t) /\ UNCHANGED <<fdMap, fdes, status>>

\* A call takes the map for itself.
Take(t) ==
  /\ pc[t] = "idle" /\ MapWritable
  /\ \E fd \in FDs : fdMap[fd] # NoFDE /\ fde' = [fde EXCEPT ![t] = fdMap[fd]]
  /\ \E c \in CallType : call' = [call EXCEPT ![t] = c]
  /\ \/ pc' = [pc EXCEPT ![t] = "closing"] /\ UNCHANGED fd2
     \/ /\ pc' = [pc EXCEPT ![t] = "renumbering"]
        /\ \E toFD \in FDs : fdMap[toFD] # NoFDE /\ fd2' = [fd2 EXCEPT ![t] = toFD]
  /\ UNCHANGED <<fdMap, fdes, want, status>>

Kind(t) ==
  \/ Lookup(t) \/ Unlock(t) \/ GiveUp(t) \/ Take(t) \/ lockFDE(t) \/ addFDE(t) \/ probeFullMap(t)
  \/ removeFDE(t) \/ closeFDE(t) \/ moveFDE(t)

LEMMA LooksUp ==
  ASSUME NEW t \in Threads, NEW fd \in FDs, pc[t] \in {"idle", "renaming"},
         NEW needs, NEW inherits, NEW kind \in Kinds, NEW exclusive \in BOOLEAN,
         getLockedFDE(t, fd, needs, inherits, kind, exclusive), UNCHANGED fd2,
         \/ want' = want
         \/ \E g \in Grant : /\ want' = [want EXCEPT ![t] = g]
                             /\ \/ g.rights = needs /\ g.inheriting = inherits
                                \/ Rights(g) \subseteq inherits
  PROVE  Lookup(t)
  <1>1. needs \subseteq fdes[fdMap[fd]].rights /\ inherits \subseteq fdes[fdMap[fd]].inheriting
    BY DEF getLockedFDE, HasRights
  <1>2. \A g : (g.rights = needs /\ g.inheriting = inherits) \/ Rights(g) \subseteq inherits
               => Rights(g) \subseteq Rights(fdes[fdMap[fd]])
    BY <1>1 DEF Rights
  <1>3. [kind |-> kind, exclusive |-> exclusive] \in CallType
    BY DEF CallType
  <1> QED
    BY <1>2, <1>3, Zenon DEF getLockedFDE, Lookup

LEMMA Unlocks ==
  ASSUME TypeInv, NEW t \in Threads, pc[t] = "using", NEW e \in Entries, NEW usesVFD \in BOOLEAN,
         unlock(t, e, usesVFD),
         e.vfd = fdes[fde[t]].vfd, e.replaced = fdes[fde[t]].replaced,
         Rights(e) \subseteq Rights(fdes[fde[t]]) \cup Rights(want[t]),
         \/ Return(t)
         \/ /\ \E label \in {"renaming", "adding"} : pc' = [pc EXCEPT ![t] = label]
            /\ call' = [call EXCEPT ![t] = NoCall]
            /\ fde' = [fde EXCEPT ![t] = NoFDE]
            /\ UNCHANGED <<want, fd2>>
  PROVE  Unlock(t)
  <1>1. status' \in {status, "used_closed"}
    BY DEF unlock
  <1> QED
    BY <1>1, Zenon DEF unlock, Return, Unlock

LEMMA NextKind ==
  ASSUME TypeInv, [Next]_vars
  PROVE  UNCHANGED vars \/ exitProcess \/ \E t \in Threads : Kind(t)
  <1>1. ASSUME NEW t \in Threads, NEW fd \in FDs, NEW c \in SimpleCalls, begin(t, c, fd)
        PROVE  Lookup(t)
    BY <1>1, LooksUp, CallTypes DEF begin
  <1>2. ASSUME NEW t \in Threads, NEW fd \in FDs, NEW g \in Grants, fd_fdstat_set_rights(t, fd, g)
        PROVE  Lookup(t)
    <2>1. g \in Grant /\ "narrow" \in Kinds
      BY GrantRights DEF Kinds
    <2> QED
      BY <1>2, <2>1, LooksUp, Zenon DEF fd_fdstat_set_rights
  <1>3. ASSUME NEW t \in Threads, NEW fd \in FDs, NEW openFlags \in OpenFlags, NEW fdFlags \in FDFlags,
               NEW g \in Grants, path_open(t, fd, openFlags, fdFlags, g)
        PROVE  Lookup(t)
    <2>1. g \in Grant /\ "open" \in Kinds
      BY GrantRights DEF Kinds
    <2> DEFINE needs == {"PATH_OPEN"}
                 \cup (IF "CREAT" \in openFlags THEN {"PATH_CREATE_FILE"} ELSE {})
                 \cup (IF "TRUNC" \in openFlags THEN {"PATH_FILESTAT_SET_SIZE"} ELSE {})
               seeks == Writes(g) /\ "APPEND" \notin fdFlags /\ "TRUNC" \notin openFlags
               inherits == g.rights \cup g.inheriting \cup translateWASIVFDFlags(fdFlags)
                 \cup (IF seeks THEN {"FD_SEEK"} ELSE {})
    <2>2. getLockedFDE(t, fd, needs, inherits, "open", FALSE)
      BY <1>3, Zenon DEF path_open
    <2>3. Rights(g) \subseteq inherits
      BY Zenon DEF Rights
    <2> HIDE DEF needs, seeks, inherits
    <2>4. pc[t] = "idle" /\ want' = [want EXCEPT ![t] = g] /\ UNCHANGED fd2
      BY <1>3, Zenon DEF path_open
    <2> QED
      BY <2>1, <2>2, <2>3, <2>4, LooksUp, Zenon
  <1>4. ASSUME NEW t \in Threads, NEW fd \in FDs, path_rename(t, fd)
        PROVE  Lookup(t)
    BY <1>4, LooksUp, Zenon DEF path_rename, Kinds
  <1>5. ASSUME NEW t \in Threads, NEW fd \in FDs, validateNewPath(t, fd)
        PROVE  Lookup(t) \/ GiveUp(t)
    BY <1>5, LooksUp, Zenon DEF validateNewPath, Kinds, GiveUp
  <1>6. ASSUME NEW t \in Threads, useVFD(t) \/ peek(t)
        PROVE  Unlock(t)
    <2>1. pc[t] = "using" /\ fdes[fde[t]] \in Entries
      BY <1>6, FDTableAssumption, Zenon DEF useVFD, peek, Using, TypeInv, Referring
    <2> QED
      BY <1>6, <2>1, Unlocks, Zenon DEF useVFD, peek
  <1>7. ASSUME NEW t \in Threads, NEW b \in BOOLEAN, readOldPath(t, b) \/ openVFD(t, b)
        PROVE  Unlock(t)
    <2>1. pc[t] = "using" /\ fdes[fde[t]] \in Entries
      BY <1>7, FDTableAssumption, Zenon DEF readOldPath, openVFD, Using, TypeInv, Referring
    <2> QED
      BY <1>7, <2>1, Unlocks, Zenon DEF readOldPath, openVFD
  <1>8. ASSUME NEW t \in Threads, NEW b \in BOOLEAN, readdir(t, b)
        PROVE  Unlock(t)
    <2> DEFINE e == [fdes[fde[t]] EXCEPT !.dirEntStream = @ \/ b]
    <2>1. pc[t] = "using" /\ fdes[fde[t]] \in Entries
      BY <1>8, FDTableAssumption DEF readdir, Using, TypeInv, Referring
    <2>2. /\ e \in Entries /\ e.vfd = fdes[fde[t]].vfd /\ e.replaced = fdes[fde[t]].replaced
          /\ Rights(e) = Rights(fdes[fde[t]])
      BY <2>1 DEF Entries, Rights
    <2>3. unlock(t, e, TRUE) /\ Return(t)
      BY <1>8, Zenon DEF readdir
    <2> QED
      BY <2>1, <2>2, <2>3, Unlocks, Zenon
  <1>9. ASSUME NEW t \in Threads, narrow(t)
        PROVE  Unlock(t)
    <2> DEFINE e == [fdes[fde[t]] EXCEPT !.rights = want[t].rights, !.inheriting = want[t].inheriting]
    <2>1. pc[t] = "using" /\ fdes[fde[t]] \in Entries /\ want[t] \in Grant
      BY <1>9, FDTableAssumption DEF narrow, Using, TypeInv, Referring
    <2>2. /\ e \in Entries /\ e.vfd = fdes[fde[t]].vfd /\ e.replaced = fdes[fde[t]].replaced
          /\ Rights(e) = Rights(want[t])
      BY <2>1, Zenon DEF Entries, Rights, Grant
    <2>3. unlock(t, e, FALSE) /\ Return(t)
      BY <1>9, Zenon DEF narrow
    <2> QED
      BY <2>1, <2>2, <2>3, Unlocks, Zenon
  <1>10. ASSUME NEW t \in Threads, NEW fd \in FDs,
                fd_close(t, fd) \/ \E toFD \in FDs : fd_renumber(t, fd, toFD)
         PROVE  Take(t)
    <2>1. /\ [kind |-> "close", exclusive |-> TRUE] \in CallType
          /\ [kind |-> "renumber", exclusive |-> TRUE] \in CallType
      BY DEF CallType, Kinds
    <2> QED
      BY <1>10, <2>1, Zenon DEF fd_close, fd_renumber, Take
  <1> QED
    BY NextIsOneOf, <1>1, <1>2, <1>3, <1>4, <1>5, <1>6, <1>7, <1>8, <1>9, <1>10, Zenon DEF Kind

-----------------------------------------------------------------------------
(* Types, locks and files                                                  *)

LEMMA ReturnType ==
  ASSUME TypeInv, NEW t \in Threads, Return(t)
  PROVE  /\ pc' \in [Threads -> Referring \cup {"idle", "renaming", "adding", "probing"}]
         /\ call' \in [Threads -> CallType]
         /\ fde' \in [Threads -> FDEs \cup {NoFDE}]
         /\ want' \in [Threads -> Grant]
         /\ fd2' \in [Threads -> FDs]
         /\ \A u \in Threads : fde'[u] # NoFDE <=> pc'[u] \in Referring
  <1>1. NoCall \in CallType /\ 0 \in FDs
    BY FDTableAssumption DEF NoCall, Kinds, FDs, CallType
  <1>2. NoRights \in Grant
    BY DEF NoRights, Grant
  <1> QED
    BY <1>1, <1>2 DEF Return, TypeInv, Referring

LEMMA TypeStep ==
  ASSUME TypeInv, LockInv, UNCHANGED vars \/ exitProcess \/ \E t \in Threads : Kind(t)
  PROVE  TypeInv'
  <1>1. CASE UNCHANGED vars
    BY <1>1 DEF vars, locals, TypeInv
  <1>2. CASE exitProcess
    BY <1>2, EntryTypes DEF exitProcess, locals, TypeInv
  <1>3. ASSUME NEW t \in Threads, Lookup(t)
        PROVE  TypeInv'
    BY <1>3 DEF Lookup, TypeInv, Referring
  <1>4. ASSUME NEW t \in Threads, Unlock(t)
        PROVE  TypeInv'
    <2>1. NoCall \in CallType /\ 0 \in FDs
      BY FDTableAssumption DEF NoCall, Kinds, FDs, CallType
    <2>2. NoRights \in Grant
      BY DEF NoRights, Grant
    <2> QED
      BY <1>4, <2>1, <2>2 DEF Unlock, TypeInv, Referring
  <1>5. ASSUME NEW t \in Threads, GiveUp(t)
        PROVE  TypeInv'
    BY <1>5, ReturnType DEF GiveUp, TypeInv
  <1>6. ASSUME NEW t \in Threads, Take(t)
        PROVE  TypeInv'
    BY <1>6 DEF Take, TypeInv, Referring
  <1>7. ASSUME NEW t \in Threads, lockFDE(t) \/ probeFullMap(t)
        PROVE  TypeInv'
    BY <1>7 DEF lockFDE, probeFullMap, TypeInv, Referring
  <1>8. ASSUME NEW t \in Threads, addFDE(t)
        PROVE  TypeInv'
    <2> DEFINE f == CHOOSE f \in FDEs : ~ InUse(f)
    <2>1. f \in FDEs
      BY <1>8 DEF addFDE
    <2>2. /\ \E fd \in FDs : fdMap[fd] = NoFDE /\ fdMap' = [fdMap EXCEPT ![fd] = f]
          /\ fdes' = [fdes EXCEPT ![f] = NewFDE(want[t], FALSE)]
          /\ Return(t)
      BY <1>8, Zenon DEF addFDE
    <2> HIDE DEF f
    <2>3. NewFDE(want[t], FALSE) \in Entries
      BY EntryTypes, Zenon DEF TypeInv
    <2>4. fdes' \in [FDEs -> Entries]
      BY <2>1, <2>2, <2>3, Zenon DEF TypeInv
    <2>5. fdMap' \in [FDs -> FDEs \cup {NoFDE}]
      <3>1. PICK fd \in FDs : fdMap' = [fdMap EXCEPT ![fd] = f]
        BY <2>2, Zenon
      <3> QED
        BY <2>1, <3>1 DEF TypeInv
    <2>6. Return(t)
      BY <2>2
    <2> QED
      BY <2>4, <2>5, <2>6, ReturnType, Zenon DEF TypeInv
  <1>9. ASSUME NEW t \in Threads, removeFDE(t)
        PROVE  TypeInv'
    BY <1>9 DEF removeFDE, removed, TypeInv, Referring
  <1>10. ASSUME NEW t \in Threads, closeFDE(t)
         PROVE  TypeInv'
    <2>1. fde[t] \in FDEs
      BY <1>10 DEF closeFDE, TypeInv, Referring
    <2>2. closed(fde[t], t) \in Entries
      BY <2>1, ClosedType
    <2> QED
      BY <1>10, <2>1, <2>2, ReturnType DEF closeFDE, TypeInv
  <1>11. ASSUME NEW t \in Threads, moveFDE(t)
         PROVE  TypeInv'
    <2> DEFINE to == fdMap[fd2[t]]
               b == \E u \in Threads \ {t} : fde[u] = to
    <2>1. to \in FDEs /\ fde[t] \in FDEs
      BY <1>11 DEF moveFDE, TypeInv, LockInv, Referring
    <2>2. closed(to, t) \in Entries
      BY <2>1, ClosedType
    <2>3. [closed(to, t) EXCEPT !.replaced = b] \in Entries
      BY <2>2, Zenon DEF Entries
    <2>4. fdes' = [fdes EXCEPT ![to] = [closed(to, t) EXCEPT !.replaced = b]]
      BY <1>11 DEF moveFDE
    <2>5. fdes' \in [FDEs -> Entries]
      BY <2>1, <2>3, <2>4 DEF TypeInv
    <2> QED
      BY <1>11, <2>1, <2>5, ReturnType DEF moveFDE, TypeInv
  <1> QED
    BY <1>1, <1>2, <1>3, <1>4, <1>5, <1>6, <1>7, <1>8, <1>9, <1>10, <1>11, Zenon DEF Kind

LEMMA LockInit == Init => LockInv /\ FilesMatchDescriptors
  <1> SUFFICES ASSUME Init
               PROVE  LockInv /\ FilesMatchDescriptors
    OBVIOUS
  <1>1. LockInv
    BY DEF Init, LockInv, HoldsMapExclusive, HoldsMapShared, WaitsForFDE
  <1>2. ASSUME NEW f \in FDEs
        PROVE  fdes[f].vfd <=> f \in StdioFDs \cup RootFDs
    BY DEF Init, NewFDE, Destroyed
  <1>3. \A fd \in FDs : fdMap[fd] = IF fd \in StdioFDs \cup RootFDs THEN fd ELSE NoFDE
    BY DEF Init
  <1>4. MappedOpen
    BY <1>2, <1>3, FDTableAssumption, Zenon DEF MappedOpen, Init
  <1>5. OpenReachable
    BY <1>2, <1>3, FDTableAssumption, Zenon DEF OpenReachable, Range, Init
  <1> QED
    BY <1>1, <1>4, <1>5 DEF FilesMatchDescriptors

\* A step that leaves the map alone, and every file as open as it was, changes nothing
\* about the files.
LEMMA FilesStay ==
  ASSUME FDInv, UNCHANGED fdMap, TypeInv',
         \A f \in FDEs : fdes'[f].vfd = fdes[f].vfd,
         \A t \in Threads : pc[t] = "removed" => pc'[t] = "removed" /\ fde'[t] = fde[t],
         status' = status \/ status' = "used_closed"
  PROVE  FilesMatchDescriptors'
  <1>1. fdMap \in [FDs -> FDEs \cup {NoFDE}] /\ MappedOpen /\ OpenReachable
    BY DEF FDInv, TypeInv, FilesMatchDescriptors
  <1>2. MappedOpen'
    BY <1>1 DEF MappedOpen
  <1>3. OpenReachable'
    BY <1>1 DEF OpenReachable, Sane
  <1> QED
    BY <1>2, <1>3 DEF FilesMatchDescriptors

LEMMA LockStep ==
  ASSUME FDInv, TypeInv', UNCHANGED vars \/ exitProcess \/ \E t \in Threads : Kind(t)
  PROVE  LockInv' /\ FilesMatchDescriptors'
  <1> DEFINE Goal == LockInv' /\ FilesMatchDescriptors'
  <1> USE FDTableAssumption DEF HoldsMapExclusive, HoldsMapShared, WaitsForFDE, Referring
  <1>1. CASE UNCHANGED vars
    <2>1. LockInv'
      BY <1>1 DEF FDInv, LockInv, vars, locals
    <2> QED
      BY <1>1, <2>1, FilesStay DEF vars, locals
  <1>2. CASE exitProcess
    <2>1. LockInv'
      BY <1>2 DEF FDInv, LockInv, exitProcess, locals
    <2>2. ASSUME NEW f \in FDEs
          PROVE  ~ fdes'[f].vfd
      BY <1>2, EntryTypes DEF exitProcess, FDInv, FilesMatchDescriptors, OpenReachable, Sane
    <2> QED
      BY <1>2, <2>1, <2>2
         DEF exitProcess, FDInv, FilesMatchDescriptors, MappedOpen, OpenReachable
  <1>3. ASSUME NEW t \in Threads, Lookup(t)
        PROVE  Goal
    <2>1. LockInv'
      BY <1>3 DEF FDInv, TypeInv, LockInv, Lookup, MapReadable, Range
    <2>2. FilesMatchDescriptors'
      BY <1>3, FilesStay DEF FDInv, TypeInv, Lookup
    <2> QED
      BY <2>1, <2>2
  <1>4. ASSUME NEW t \in Threads, Unlock(t)
        PROVE  Goal
    <2>1. fde[t] \in FDEs
      BY <1>4 DEF FDInv, TypeInv, Unlock
    <2>2. \A f \in FDEs : fdes'[f].vfd = fdes[f].vfd /\ fdes'[f].replaced = fdes[f].replaced
      BY <1>4, <2>1 DEF FDInv, TypeInv, Unlock
    <2>3. LockInv'
      BY <1>4, <2>2 DEF FDInv, TypeInv, LockInv, Unlock
    <2>4. FilesMatchDescriptors'
      BY <1>4, <2>2, FilesStay DEF FDInv, TypeInv, Unlock
    <2> QED
      BY <2>3, <2>4
  <1>5. ASSUME NEW t \in Threads, GiveUp(t)
        PROVE  Goal
    <2>1. LockInv'
      BY <1>5 DEF FDInv, TypeInv, LockInv, GiveUp, Return
    <2>2. FilesMatchDescriptors'
      BY <1>5, FilesStay DEF FDInv, TypeInv, GiveUp, Return
    <2> QED
      BY <2>1, <2>2
  <1>6. ASSUME NEW t \in Threads, Take(t)
        PROVE  Goal
    <2>1. LockInv'
      BY <1>6 DEF FDInv, TypeInv, LockInv, Take, MapWritable, MapReadable, Range
    <2>2. FilesMatchDescriptors'
      BY <1>6, FilesStay DEF FDInv, TypeInv, Take
    <2> QED
      BY <2>1, <2>2
  <1>7. ASSUME NEW t \in Threads, lockFDE(t) \/ probeFullMap(t)
        PROVE  Goal
    <2>1. LockInv'
      BY <1>7 DEF FDInv, TypeInv, LockInv, lockFDE, probeFullMap, MapWritable, MapReadable
    <2>2. FilesMatchDescriptors'
      BY <1>7, FilesStay DEF FDInv, TypeInv, lockFDE, probeFullMap
    <2> QED
      BY <2>1, <2>2
  <1>8. ASSUME NEW t \in Threads, addFDE(t)
        PROVE  Goal
    <2> DEFINE f == CHOOSE f \in FDEs : ~ InUse(f)
    <2>1. f \in FDEs /\ f \notin Range(fdMap) /\ \A u \in Threads : fde[u] # f
      BY <1>8 DEF addFDE, InUse
    <2>2. fdes' = [fdes EXCEPT ![f] = NewFDE(want[t], FALSE)] /\ NewFDE(want[t], FALSE).vfd
      BY <1>8, EntryTypes, Zenon DEF addFDE, FDInv, TypeInv
    <2>3. PICK fd \in FDs : fdMap[fd] = NoFDE /\ fdMap' = [fdMap EXCEPT ![fd] = f]
      BY <1>8, Zenon DEF addFDE
    <2>4. /\ pc[t] = "adding" /\ status' = status /\ Return(t)
          /\ \A u \in Threads : pc[u] \notin {"locking", "closing", "renumbering", "probing"}
      BY <1>8 DEF addFDE, MapWritable, MapReadable
    <2>5. \A g \in FDEs \ {f} : fdes'[g] = fdes[g]
      BY <2>1, <2>2 DEF FDInv, TypeInv
    <2> HIDE DEF f
    <2>6. \A g \in FDEs : g \in Range(fdMap)' <=> g \in Range(fdMap) \/ g = f
      BY <2>1, <2>3 DEF FDInv, TypeInv, Range
    <2>7. LockInv'
      <3>1. ASSUME NEW u \in Threads, pc'[u] = "using"
            PROVE  fde'[u] \in Range(fdMap)' \/ fdes'[fde'[u]].replaced
        BY <2>1, <2>6, <2>4, <2>5, <3>1 DEF FDInv, TypeInv, LockInv, Return
      <3>2. ASSUME NEW u \in Threads, pc'[u] = "removed"
            PROVE  /\ fde'[u] \notin Range(fdMap)' /\ fdes'[fde'[u]].vfd
                   /\ \A w \in Threads \ {u} : fde'[w] # fde'[u]
        BY <2>1, <2>6, <2>4, <2>5, <3>2 DEF FDInv, TypeInv, LockInv, Return
      <3>3. \A u \in Threads : pc'[u] \notin {"locking", "closing", "renumbering", "probing"}
        BY <2>4 DEF FDInv, TypeInv, Return
      <3> QED
        BY <3>1, <3>2, <3>3 DEF LockInv
    <2>8. MappedOpen'
      <3>1. MappedOpen /\ fdMap \in [FDs -> FDEs \cup {NoFDE}]
        BY DEF FDInv, TypeInv, FilesMatchDescriptors
      <3>2. \A x \in FDs : fdMap[x] # f
        BY <2>1, <3>1 DEF Range
      <3>3. fdMap'[fd] = f /\ \A x \in FDs \ {fd} : fdMap'[x] = fdMap[x]
        BY <2>3, <3>1
      <3>4. fdes'[f].vfd
        BY <2>1, <2>2, Zenon DEF FDInv, TypeInv
      <3>5. \A x \in FDs : fdMap'[x] # NoFDE => fdes'[fdMap'[x]].vfd
        BY <2>5, <3>1, <3>2, <3>3, <3>4 DEF MappedOpen
      <3>6. \A x, y \in FDs : fdMap'[x] = fdMap'[y] /\ fdMap'[x] # NoFDE => x = y
        BY <3>1, <3>2, <3>3 DEF MappedOpen
      <3> QED
        BY <2>4, <3>1, <3>5, <3>6 DEF MappedOpen
    <2>9. OpenReachable'
      BY <2>1, <2>6, <2>4, <2>5
         DEF FDInv, TypeInv, FilesMatchDescriptors, OpenReachable, Sane, Return
    <2> QED
      BY <2>7, <2>8, <2>9 DEF FilesMatchDescriptors
  <1>9. ASSUME NEW t \in Threads, removeFDE(t)
        PROVE  Goal
    <2>1. fde[t] \in FDEs /\ fde[t] \in Range(fdMap) /\ fdes[fde[t]].vfd
      BY <1>9 DEF removeFDE, FDInv, TypeInv, LockInv, FilesMatchDescriptors, MappedOpen, Range
    <2>2. \A g \in FDEs : g \in Range(fdMap)' <=> g \in Range(fdMap) /\ g # fde[t]
      BY <1>9, <2>1 DEF removeFDE, removed, FDInv, TypeInv, Range
    <2>3. \A u \in Threads \ {t} : fde[u] # fde[t]
      BY <1>9, <2>1 DEF removeFDE, FDInv, TypeInv, LockInv, FDEAvailable, HoldsFDE
    <2>4. LockInv'
      BY <1>9, <2>1, <2>2, <2>3 DEF removeFDE, FDInv, TypeInv, LockInv
    <2>5. MappedOpen'
      BY <1>9 DEF removeFDE, removed, FDInv, TypeInv, FilesMatchDescriptors, MappedOpen
    <2>6. OpenReachable'
      BY <1>9, <2>2 DEF removeFDE, FDInv, TypeInv, FilesMatchDescriptors, OpenReachable, Sane
    <2> QED
      BY <2>4, <2>5, <2>6 DEF FilesMatchDescriptors
  <1>10. ASSUME NEW t \in Threads, closeFDE(t)
         PROVE  Goal
    <2>1. /\ fde[t] \in FDEs /\ fde[t] \notin Range(fdMap) /\ fdes[fde[t]].vfd
          /\ \A u \in Threads \ {t} : fde[u] # fde[t]
      BY <1>10 DEF closeFDE, FDInv, TypeInv, LockInv
    <2>2. ~ closed(fde[t], t).vfd
      BY <2>1, ClosedType DEF FDInv
    <2>3. LockInv'
      BY <1>10, <2>1 DEF closeFDE, Return, FDInv, TypeInv, LockInv
    <2>4. MappedOpen'
      BY <1>10, <2>1 DEF closeFDE, FDInv, TypeInv, FilesMatchDescriptors, MappedOpen, Range
    <2>5. OpenReachable'
      BY <1>10, <2>1, <2>2
         DEF closeFDE, Return, FDInv, TypeInv, FilesMatchDescriptors, OpenReachable, Sane
    <2> QED
      BY <2>3, <2>4, <2>5 DEF FilesMatchDescriptors
  <1>11. ASSUME NEW t \in Threads, moveFDE(t)
         PROVE  Goal
    <2> DEFINE to == fdMap[fd2[t]]
               e == [closed(to, t) EXCEPT !.replaced = \E u \in Threads \ {t} : fde[u] = to]
    <2>1. /\ to \in FDEs /\ to \in Range(fdMap) /\ fdes[to].vfd
          /\ fde[t] \in FDEs /\ fde[t] \in Range(fdMap) /\ fdes[fde[t]].vfd
      BY <1>11 DEF moveFDE, FDInv, TypeInv, LockInv, FilesMatchDescriptors, MappedOpen, Range
    <2>2. /\ ~ e.vfd
          /\ e.replaced <=> \E u \in Threads \ {t} : fde[u] = to
      BY <2>1, ClosedType DEF FDInv, Entries
    <2>3. /\ fdes' = [fdes EXCEPT ![to] = e] /\ status' = status /\ Return(t)
          /\ pc[t] = "renumbering" /\ status = "running"
      BY <1>11, <2>1 DEF moveFDE
    <2>4. fdMap' = [fd \in FDs |-> IF fdMap[fd] = fde[t] THEN NoFDE
                                   ELSE IF fd = fd2[t] THEN fde[t] ELSE fdMap[fd]]
      BY <1>11 DEF moveFDE
    <2>5. \A g \in FDEs : g \in Range(fdMap)' <=> g \in Range(fdMap) /\ g # to
      <3>1. \A fd \in FDs : fdMap[fd] = to => fd = fd2[t]
        BY <2>1 DEF FDInv, TypeInv, FilesMatchDescriptors, MappedOpen
      <3>2. fd2[t] \in FDs /\ fdMap \in [FDs -> FDEs \cup {NoFDE}]
        BY DEF FDInv, TypeInv
      <3> QED
        BY <2>1, <2>4, <3>1, <3>2 DEF Range
    <2>6. MappedOpen'
      BY <2>1, <2>3, <2>4 DEF FDInv, TypeInv, FilesMatchDescriptors, MappedOpen
    <2> HIDE DEF e, to
    <2>7. LockInv'
      <3>1. \A u \in Threads : pc[u] \in {"locking", "closing", "renumbering", "probing"} => u = t
        BY <2>3 DEF FDInv, LockInv
      <3> QED
        BY <2>1, <2>2, <2>3, <2>5, <3>1 DEF Return, FDInv, TypeInv, LockInv
    <2>8. OpenReachable'
      BY <2>1, <2>2, <2>3, <2>5
         DEF Return, FDInv, TypeInv, FilesMatchDescriptors, OpenReachable, Sane
    <2> QED
      BY <2>7, <2>8, <2>6 DEF FilesMatchDescriptors
  <1> QED
    BY <1>1, <1>2, <1>3, <1>4, <1>5, <1>6, <1>7, <1>8, <1>9, <1>10, <1>11, Zenon DEF Kind

LEMMA FDStep == FDInv /\ [Next]_vars => FDInv'
  <1> SUFFICES ASSUME FDInv, [Next]_vars
               PROVE  FDInv'
    OBVIOUS
  <1>1. UNCHANGED vars \/ exitProcess \/ \E t \in Threads : Kind(t)
    BY NextKind DEF FDInv
  <1>2. TypeInv'
    BY <1>1, TypeStep DEF FDInv
  <1> QED
    BY <1>1, <1>2, LockStep DEF FDInv

LEMMA FDInvAlways == Spec => []FDInv
  <1>1. Init => FDInv
    BY TypeInit, LockInit DEF FDInv
  <1> QED
    BY <1>1, FDStep, PTL DEF Spec

-----------------------------------------------------------------------------
\* Whatever fd_close, fd_renumber, path_open and the other calls do concurrently,
\* every descriptor refers to an open file of its own, no file is closed twice, and an
\* open file that has lost its descriptor is about to be closed by fd_close.
THEOREM FilesMatchDescriptorsAlways == Spec => []FilesMatchDescriptors
  <1>1. FDInv => FilesMatchDescriptors
    BY DEF FDInv
  <1> QED
    BY <1>1, FDInvAlways, PTL

\* The VFD of an entry is open as long as a call that getLockedFDE gave the entry to
\* has not returned, except when fd_renumber, which does not lock its destination,
\* replaced the entry.
THEOREM UsedStaysOpenAlways == Spec => []UsedStaysOpen
  <1>1. FDInv => UsedStaysOpen
    <2> SUFFICES ASSUME FDInv, NEW t \in Threads, pc[t] \in {"locking", "using"}
                 PROVE  fdes[fde[t]].vfd \/ fdes[fde[t]].replaced
      BY DEF UsedStaysOpen
    <2>1. fde[t] \in Range(fdMap) \/ fdes[fde[t]].replaced
      BY DEF FDInv, LockInv
    <2>2. fde[t] \in FDEs
      BY DEF FDInv, TypeInv, Referring
    <2> QED
      BY <2>1, <2>2, FDTableAssumption
         DEF FDInv, TypeInv, FilesMatchDescriptors, MappedOpen, Range
  <1> QED
    BY <1>1, FDInvAlways, PTL

-----------------------------------------------------------------------------
LEMMA AuthorityIs ==
  \A r : r \in Authority <=> \/ \E f \in FDEs : r \in Rights(fdes[f])
                           \/ \E t \in Threads : r \in Rights(want[t])
  BY DEF Authority, Rights

LEMMA InAuthority ==
  /\ \A f \in FDEs : Rights(fdes[f]) \subseteq Authority
  /\ \A t \in Threads : Rights(want[t]) \subseteq Authority
  BY AuthorityIs

LEMMA AuthorityKept ==
  ASSUME \A f \in FDEs : Rights(fdes'[f]) \subseteq Authority,
         \A t \in Threads : Rights(want'[t]) \subseteq Authority
  PROVE  Authority' \subseteq Authority
  <1>1. (\A r : r \in Authority <=> \/ \E f \in FDEs : r \in Rights(fdes[f])
                                  \/ \E t \in Threads : r \in Rights(want[t]))'
    BY AuthorityIs, PTL
  <1> QED
    BY <1>1

LEMMA AuthorityStep == FDInv /\ [Next]_vars => Authority' \subseteq Authority
  <1> SUFFICES ASSUME FDInv, [Next]_vars
               PROVE  Authority' \subseteq Authority
    OBVIOUS
  <1> DEFINE Kept == /\ \A f \in FDEs : Rights(fdes'[f]) \subseteq Authority
                     /\ \A u \in Threads : Rights(want'[u]) \subseteq Authority
  <1>1. UNCHANGED vars \/ exitProcess \/ \E t \in Threads : Kind(t)
    BY NextKind DEF FDInv
  <1>2. Rights(NoRights) = {} /\ Rights(Destroyed) = {}
    BY DEF Rights, NoRights, Destroyed
  <1>3. ASSUME NEW t \in Threads, Return(t)
        PROVE  \A u \in Threads : Rights(want'[u]) \subseteq Authority
    BY <1>2, <1>3, InAuthority DEF Return, FDInv, TypeInv
  <1>4. ASSUME UNCHANGED vars
        PROVE  Kept
    BY <1>4, InAuthority DEF vars, locals
  <1>5. ASSUME exitProcess
        PROVE  Kept
    BY <1>2, <1>5, InAuthority DEF exitProcess, locals
  <1>6. ASSUME NEW t \in Threads, Lookup(t)
        PROVE  Kept
    BY <1>6, InAuthority DEF Lookup, FDInv, TypeInv
  <1>7. ASSUME NEW t \in Threads, Unlock(t)
        PROVE  Kept
    <2>1. fde[t] \in FDEs
      BY <1>7 DEF Unlock, FDInv, TypeInv, Referring
    <2>2. \A f \in FDEs : Rights(fdes'[f]) \subseteq Authority
      BY <1>7, <2>1, InAuthority DEF Unlock, FDInv, TypeInv
    <2>3. \A u \in Threads : Rights(want'[u]) \subseteq Authority
      BY <1>2, <1>7, InAuthority DEF Unlock, FDInv, TypeInv
    <2> QED
      BY <2>2, <2>3
  <1>8. ASSUME NEW t \in Threads,
               \/ GiveUp(t) \/ Take(t) \/ lockFDE(t) \/ probeFullMap(t) \/ removeFDE(t)
        PROVE  Kept
    BY <1>3, <1>8, InAuthority, Zenon DEF GiveUp, Take, lockFDE, probeFullMap, removeFDE
  <1>9. ASSUME NEW t \in Threads, addFDE(t)
        PROVE  Kept
    <2>1. Rights(NewFDE(want[t], FALSE)) = Rights(want[t])
      BY DEF Rights, NewFDE, Destroyed
    <2>2. \E f \in FDEs : fdes' = [fdes EXCEPT ![f] = NewFDE(want[t], FALSE)]
      BY <1>9, Zenon DEF addFDE
    <2> QED
      BY <1>3, <1>9, <2>1, <2>2, InAuthority, Zenon DEF addFDE, FDInv, TypeInv
  <1>10. ASSUME NEW t \in Threads, closeFDE(t)
         PROVE  Kept
    <2>1. fde[t] \in FDEs
      BY <1>10 DEF closeFDE, FDInv, TypeInv, Referring
    <2> QED
      BY <1>3, <1>10, <2>1, ClosedType, InAuthority DEF closeFDE, FDInv, TypeInv
  <1>11. ASSUME NEW t \in Threads, moveFDE(t)
         PROVE  Kept
    <2> DEFINE to == fdMap[fd2[t]]
               e == [closed(to, t) EXCEPT !.replaced = \E u \in Threads \ {t} : fde[u] = to]
    <2>1. to \in FDEs
      BY <1>11 DEF moveFDE, FDInv, TypeInv, LockInv
    <2>2. Rights(e) \subseteq Rights(fdes[to])
      BY <2>1, ClosedType DEF FDInv, Rights, Entries
    <2>3. fdes' = [fdes EXCEPT ![to] = e]
      BY <1>11 DEF moveFDE
    <2> HIDE DEF e, to
    <2> QED
      BY <1>3, <1>11, <2>1, <2>2, <2>3, InAuthority, Zenon DEF moveFDE, FDInv, TypeInv
  <1>12. Kept
    BY <1>1, <1>4, <1>5, <1>6, <1>7, <1>8, <1>9, <1>10, <1>11, Zenon DEF Kind
  <1> QED
    BY <1>12, AuthorityKept

\* The calls of a program never give it a right that no descriptor of it, and no call
\* under way, conveyed before: path_open grants what the directory passes on, and
\* fd_fdstat_set_rights what the entry had when getLockedFDE checked it, even though
\* other calls may narrow either before the new rights are stored.
THEOREM AuthorityNeverGrowsAlways == Spec => AuthorityNeverGrows
  <1>1. FDInv /\ [Next]_vars => [Authority' \subseteq Authority]_vars
    BY AuthorityStep
  <1> QED
    BY <1>1, FDInvAlways, PTL DEF Spec, AuthorityNeverGrows
=============================================================================
