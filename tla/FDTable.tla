------------------------------ MODULE FDTable ------------------------------
(***************************************************************************)
(* The file descriptor table of a WASI process (Lib/WASI/WASIFile.cpp): a  *)
(* map from descriptors to entries (FDEs) that program threads look up,    *)
(* open, close, renumber and restrict concurrently.                        *)
(*                                                                         *)
(* Two kinds of reader-writer locks protect it: fdMapMutex for the map and *)
(* a mutex in each FDE.  They are not variables: which thread holds which  *)
(* lock follows from where it is (HoldsMapShared ... below).  An FDE that  *)
(* is neither in the map nor in use by a call has been destroyed.          *)
(***************************************************************************)
EXTENDS Integers, FiniteSets, Functions

CONSTANTS
  Threads,
  MaxFD,         \* fdMap is an IndexMap over 0 .. MaxFD
  StdioFDs,      \* stdin, stdout and stderr
  RootFDs,       \* the preopened root directories
  FDEs, NoFDE,   \* identities of entries
  Grants,        \* the rights that path_open and fd_fdstat_set_rights ask for
  OpenFlags,     \* the values of path_open's openFlags
  FDFlags        \* the values of fdFlags

FDs == 0 .. MaxFD

ASSUME FDTableAssumption ==
  /\ MaxFD \in Nat
  /\ StdioFDs \subseteq FDs /\ RootFDs \subseteq FDs /\ StdioFDs \cap RootFDs = {}
  /\ NoFDE \notin FDEs
  /\ FDs \subseteq FDEs   \* the entry that createProcess makes for fd is named fd
  /\ \A g \in Grants : g = [rights |-> g.rights, inheriting |-> g.inheriting]

VARIABLES
  fdMap,    \* the entry at each descriptor
  fdes,     \* the contents of each entry
  pc,       \* where each thread is in its call
  call,     \* what it will do with the entry: its kind and how it locks it
  fde,      \* the entry it refers to
  want,     \* the rights it asked for
  fd2,      \* the destination of a renumber
  status    \* "running", or how the process was ended

locals == <<pc, call, fde, want, fd2>>
vars == <<fdMap, fdes, locals, status>>

NoRights == [rights |-> {}, inheriting |-> {}]
NoCall == [kind |-> "none", exclusive |-> FALSE]

\* An entry that does not exist.
Destroyed == [vfd |-> FALSE, dirEntStream |-> FALSE, rights |-> {},
              inheriting |-> {}, isPreopened |-> FALSE, replaced |-> FALSE]

NewFDE(r, preopened) ==
  [Destroyed EXCEPT !.vfd = TRUE, !.rights = r.rights,
                    !.inheriting = r.inheriting, !.isPreopened = preopened]

-----------------------------------------------------------------------------
(* Rights (WASIPrivate.h) and the rights that each call requires.          *)

REGULAR_FILE_RIGHTS ==
  {"FD_DATASYNC", "FD_READ", "FD_SEEK", "FD_FDSTAT_SET_FLAGS", "FD_SYNC",
   "FD_TELL", "FD_WRITE", "FD_ADVISE", "FD_ALLOCATE", "FD_FILESTAT_GET",
   "FD_FILESTAT_SET_SIZE", "FD_FILESTAT_SET_TIMES", "POLL_FD_READWRITE"}

DIRECTORY_RIGHTS ==
  {"FD_FDSTAT_SET_FLAGS", "FD_SYNC", "FD_ADVISE", "PATH_CREATE_DIRECTORY",
   "PATH_CREATE_FILE", "PATH_LINK_SOURCE", "PATH_LINK_TARGET", "PATH_OPEN",
   "FD_READDIR", "PATH_READLINK", "PATH_RENAME_SOURCE", "PATH_RENAME_TARGET",
   "PATH_FILESTAT_GET", "PATH_FILESTAT_SET_SIZE", "PATH_FILESTAT_SET_TIMES",
   "FD_FILESTAT_GET", "FD_FILESTAT_SET_TIMES", "PATH_SYMLINK",
   "PATH_UNLINK_FILE", "PATH_REMOVE_DIRECTORY", "POLL_FD_READWRITE"}

INHERITING_DIRECTORY_RIGHTS == DIRECTORY_RIGHTS \cup REGULAR_FILE_RIGHTS

stdioRights == {"FD_READ", "FD_FDSTAT_SET_FLAGS", "FD_WRITE", "FD_FILESTAT_GET",
                "POLL_FD_READWRITE"}

\* A call that finds an entry with the rights it needs, locks it and then
\* does what its kind says.
Call(needs, kind) == [needs |-> needs, kind |-> kind, exclusive |-> FALSE]

fd_prestat_get == Call({}, "peek")
fd_prestat_dir_name == Call({}, "peek")
fd_datasync == Call({"FD_DATASYNC"}, "vfd")
readImpl(offset) == Call({"FD_READ"} \cup (IF offset THEN {"FD_SEEK"} ELSE {}), "vfd")
writeImpl(offset) == Call({"FD_WRITE"} \cup (IF offset THEN {"FD_SEEK"} ELSE {}), "vfd")
fd_pread == readImpl(TRUE)
fd_pwrite == writeImpl(TRUE)
fd_read == readImpl(FALSE)
fd_write == writeImpl(FALSE)
fd_seek == Call({"FD_SEEK"}, "vfd")
fd_tell == Call({"FD_TELL"}, "vfd")
fd_fdstat_get == Call({}, "vfd")
fd_sync == Call({"FD_SYNC"}, "vfd")
fd_advise == Call({"FD_ADVISE"}, "peek")
fd_filestat_get == Call({"FD_FILESTAT_GET"}, "vfd")
fd_filestat_set_times == Call({"FD_FILESTAT_SET_TIMES"}, "vfd")
fd_filestat_set_size == Call({"FD_FILESTAT_SET_SIZE"}, "vfd")
path_filestat_get == Call({"PATH_FILESTAT_GET"}, "peek")
path_filestat_set_times == Call({"PATH_FILESTAT_SET_TIMES"}, "peek")
path_unlink_file == Call({"PATH_UNLINK_FILE"}, "peek")
path_remove_directory == Call({"PATH_REMOVE_DIRECTORY"}, "peek")
path_create_directory == Call({"PATH_CREATE_DIRECTORY"}, "peek")

fd_readdir == [Call({"FD_READDIR"}, "readdir") EXCEPT !.exclusive = TRUE]

\* The rights that flags for the synchronisation of writes require.
translateWASIVFDFlags(fdFlags) ==
  (IF "DSYNC" \in fdFlags THEN {"FD_DATASYNC"} ELSE {})
    \cup (IF "SYNC" \in fdFlags THEN {"FD_SYNC"} ELSE {})

fd_fdstat_set_flags(flags) ==
  Call({"FD_FDSTAT_SET_FLAGS"} \cup translateWASIVFDFlags(flags), "vfd")

SimpleCalls ==
  {fd_prestat_get, fd_prestat_dir_name, fd_datasync, fd_pread, fd_pwrite, fd_read,
   fd_write, fd_seek, fd_tell, fd_fdstat_get, fd_sync, fd_advise, fd_filestat_get,
   fd_filestat_set_times, fd_filestat_set_size, path_filestat_get,
   path_filestat_set_times, path_unlink_file, path_remove_directory,
   path_create_directory, fd_readdir}
    \cup {fd_fdstat_set_flags(flags) : flags \in FDFlags}

-----------------------------------------------------------------------------
\* createProcess: the standard streams and the preopened root directories.
Init ==
  /\ fdMap = [fd \in FDs |-> IF fd \in StdioFDs \cup RootFDs THEN fd ELSE NoFDE]
  /\ fdes = [f \in FDEs |->
       IF f \in StdioFDs
         THEN NewFDE([rights |-> stdioRights, inheriting |-> {}], FALSE)
       ELSE IF f \in RootFDs
         THEN NewFDE([rights |-> DIRECTORY_RIGHTS,
                      inheriting |-> INHERITING_DIRECTORY_RIGHTS], TRUE)
       ELSE Destroyed]
  /\ pc = [t \in Threads |-> "idle"]
  /\ call = [t \in Threads |-> NoCall]
  /\ fde = [t \in Threads |-> NoFDE]
  /\ want = [t \in Threads |-> NoRights]
  /\ fd2 = [t \in Threads |-> 0]
  /\ status = "running"

-----------------------------------------------------------------------------
(* Locks                                                                   *)

HoldsMapShared(t) == pc[t] = "locking"
WaitsForFDE(t) == pc[t] \in {"closing", "renumbering"}
HoldsMapExclusive(t) == WaitsForFDE(t) \/ pc[t] = "probing"
HoldsFDE(t) == pc[t] \in {"using", "removed"}

MapReadable == \A t \in Threads : ~ HoldsMapExclusive(t)
MapWritable == MapReadable /\ \A t \in Threads : ~ HoldsMapShared(t)

\* Mistake: a shared holder does not keep out an exclusive one.
FDEAvailableShared(f, exclusive) ==
  \A t \in Threads : HoldsFDE(t) /\ fde[t] = f => ~ call[t].exclusive

FDEAvailable(f, exclusive) ==
  \A t \in Threads : HoldsFDE(t) /\ fde[t] = f => ~ exclusive /\ ~ call[t].exclusive

At(t, label) == status = "running" /\ pc[t] = label

\* The call returns.
Return(t) ==
  /\ pc' = [pc EXCEPT ![t] = "idle"]
  /\ call' = [call EXCEPT ![t] = NoCall]
  /\ fde' = [fde EXCEPT ![t] = NoFDE]
  /\ want' = [want EXCEPT ![t] = NoRights]
  /\ fd2' = [fd2 EXCEPT ![t] = 0]

InUse(f) == f \in Range(fdMap) \/ \E t \in Threads : fde[t] = f

\* FDE::close: the entry that thread t closed and no longer refers to.
closed(f, t) ==
  IF \E u \in Threads \ {t} : fde[u] = f
    THEN [fdes[f] EXCEPT !.vfd = FALSE, !.dirEntStream = FALSE]
    ELSE Destroyed

-----------------------------------------------------------------------------
(* Calls that use an entry                                                 *)

\* Mistake: the rights that an opened file inherits are not checked.
HasRightsOwn(f, needs, inherits) == needs \subseteq fdes[f].rights

HasRights(f, needs, inherits) ==
  needs \subseteq fdes[f].rights /\ inherits \subseteq fdes[f].inheriting

\* The look-up and the check of the rights, with the map locked shareably.
\* A failed check is an error return that changes nothing.
getLockedFDE(t, fd, needs, inherits, kind, exclusive) ==
  /\ MapReadable
  /\ fdMap[fd] # NoFDE
  /\ HasRights(fdMap[fd], needs, inherits)
  /\ pc' = [pc EXCEPT ![t] = "locking"]
  /\ call' = [call EXCEPT ![t] = [kind |-> kind, exclusive |-> exclusive]]
  /\ fde' = [fde EXCEPT ![t] = fdMap[fd]]
  /\ UNCHANGED <<fdMap, fdes, status>>

\* The entry is locked, then the map is unlocked.
lockFDE(t) ==
  /\ At(t, "locking")
  /\ FDEAvailable(fde[t], call[t].exclusive)
  /\ pc' = [pc EXCEPT ![t] = "using"]
  /\ UNCHANGED <<fdMap, fdes, call, fde, want, fd2, status>>

begin(t, c, fd) ==
  /\ At(t, "idle")
  /\ getLockedFDE(t, fd, c.needs, {}, c.kind, c.exclusive)
  /\ UNCHANGED <<want, fd2>>

fd_fdstat_set_rights(t, fd, g) ==
  /\ At(t, "idle")
  /\ getLockedFDE(t, fd, g.rights, g.inheriting, "narrow", TRUE)
  /\ want' = [want EXCEPT ![t] = g]
  /\ UNCHANGED fd2

path_rename(t, oldFD) ==
  /\ At(t, "idle")
  /\ getLockedFDE(t, oldFD, {"PATH_RENAME_SOURCE"}, {}, "rename", FALSE)
  /\ UNCHANGED <<want, fd2>>

\* path_open rejects combinations of flags, and requires that the directory
\* passes on every right asked for and the rights that the flags imply.
Writes(g) == g.rights \cap {"FD_DATASYNC", "FD_WRITE", "FD_ALLOCATE",
                            "FD_FILESTAT_SET_SIZE"} # {}

ValidOpenFlags(openFlags) ==
  "EXCL" \in openFlags => "CREAT" \in openFlags /\ "TRUNC" \notin openFlags

path_open(t, dirFD, openFlags, fdFlags, g) ==
  LET needs == {"PATH_OPEN"}
        \cup (IF "CREAT" \in openFlags THEN {"PATH_CREATE_FILE"} ELSE {})
        \cup (IF "TRUNC" \in openFlags THEN {"PATH_FILESTAT_SET_SIZE"} ELSE {})
      seeks == Writes(g) /\ "APPEND" \notin fdFlags /\ "TRUNC" \notin openFlags
      inherits == g.rights \cup g.inheriting \cup translateWASIVFDFlags(fdFlags)
        \cup (IF seeks THEN {"FD_SEEK"} ELSE {})
  IN  /\ At(t, "idle")
      /\ ValidOpenFlags(openFlags)
      /\ getLockedFDE(t, dirFD, needs, inherits, "open", FALSE)
      /\ want' = [want EXCEPT ![t] = g]
      /\ UNCHANGED fd2

-----------------------------------------------------------------------------
(* What a call does once it has locked the entry                           *)

\* LockedFDE releases its reference before it unlocks the mutex, which is
\* part of the entry.
LastReference(t) ==
  fde[t] \notin Range(fdMap) /\ \A u \in Threads \ {t} : fde[u] # fde[t]

Using(t, kind) == At(t, "using") /\ call[t].kind = kind

\* The entry is unlocked; its VFD was used on the way if usesVFD.
unlock(t, contents, usesVFD) ==
  /\ fdes' = [fdes EXCEPT ![fde[t]] = contents]
  /\ status' = IF LastReference(t) \/ (usesVFD /\ ~ contents.vfd)
                 THEN "used_closed" ELSE status
  /\ UNCHANGED fdMap

useVFD(t) == Using(t, "vfd") /\ unlock(t, fdes[fde[t]], TRUE) /\ Return(t)

\* Calls that only look at the entry: also the path calls (validatePath), which
\* read its path and then use the file system without it.
peek(t) ==
  /\ Using(t, "peek")
  /\ unlock(t, fdes[fde[t]], FALSE)
  /\ Return(t)

\* The first fd_readdir opens a stream, which may fail.
readdir(t, opens) ==
  /\ Using(t, "readdir")
  /\ unlock(t, [fdes[fde[t]] EXCEPT !.dirEntStream = @ \/ opens], TRUE)
  /\ Return(t)

narrow(t) ==
  /\ Using(t, "narrow")
  /\ unlock(t, [fdes[fde[t]] EXCEPT !.rights = want[t].rights,
                                    !.inheriting = want[t].inheriting], FALSE)
  /\ Return(t)

\* The path of path_rename's source was read, or is bad.
readOldPath(t, valid) ==
  /\ Using(t, "rename")
  /\ unlock(t, fdes[fde[t]], FALSE)
  /\ IF valid THEN /\ pc' = [pc EXCEPT ![t] = "renaming"]
                   /\ call' = [call EXCEPT ![t] = NoCall]
                   /\ fde' = [fde EXCEPT ![t] = NoFDE]
                   /\ UNCHANGED <<want, fd2>>
              ELSE Return(t)

\* path_rename looks its second argument up after the first is unlocked.
validateNewPath(t, newFD) ==
  /\ At(t, "renaming")
  /\ \/ /\ getLockedFDE(t, newFD, {"PATH_RENAME_TARGET"}, {}, "peek", FALSE)
        /\ UNCHANGED <<want, fd2>>
     \/ /\ MapReadable
        /\ fdMap[newFD] # NoFDE => ~ HasRights(fdMap[newFD], {"PATH_RENAME_TARGET"}, {})
        /\ Return(t)
        /\ UNCHANGED <<fdMap, fdes, status>>

\* path_open leaves the directory unlocked while it opens the file.
openVFD(t, opens) ==
  /\ Using(t, "open")
  /\ unlock(t, fdes[fde[t]], FALSE)
  /\ IF opens THEN /\ pc' = [pc EXCEPT ![t] = "adding"]
                   /\ call' = [call EXCEPT ![t] = NoCall]
                   /\ fde' = [fde EXCEPT ![t] = NoFDE]
                   /\ UNCHANGED <<want, fd2>>
              ELSE Return(t)

\* The new entry gets a descriptor that is not in use.  FDEs bounds the entries that
\* exist at once.
addFDE(t) ==
  /\ At(t, "adding")
  /\ MapWritable
  /\ \E f \in FDEs : ~ InUse(f)
  /\ LET f == CHOOSE f \in FDEs : ~ InUse(f)
     IN  /\ \E fd \in FDs : fdMap[fd] = NoFDE /\ fdMap' = [fdMap EXCEPT ![fd] = f]
         /\ fdes' = [fdes EXCEPT ![f] = NewFDE(want[t], FALSE)]
  /\ Return(t)
  /\ UNCHANGED status

\* IndexMap::add compares the number of entries with the size of the range by
\* >, which never holds: when every descriptor is in use it probes for ever
\* with fdMapMutex locked, and path_open does not get to return EMFILE.
probeFullMap(t) ==
  /\ At(t, "adding")
  /\ MapWritable
  /\ \A fd \in FDs : fdMap[fd] # NoFDE
  /\ pc' = [pc EXCEPT ![t] = "probing"]
  /\ UNCHANGED <<fdMap, fdes, call, fde, want, fd2, status>>

-----------------------------------------------------------------------------
(* fd_close, fd_renumber and the end of the process                        *)

fd_close(t, fd) ==
  /\ At(t, "idle")
  /\ MapWritable
  /\ fdMap[fd] # NoFDE
  /\ pc' = [pc EXCEPT ![t] = "closing"]
  /\ call' = [call EXCEPT ![t] = [kind |-> "close", exclusive |-> TRUE]]
  /\ fde' = [fde EXCEPT ![t] = fdMap[fd]]
  /\ UNCHANGED <<fdMap, fdes, want, fd2, status>>

\* Mistake: the descriptor stays in the map.
removedNot(f) == fdMap

removed(f) == [fd \in FDs |-> IF fdMap[fd] = f THEN NoFDE ELSE fdMap[fd]]

\* The entry is locked and leaves the map, which is unlocked.  A preopened
\* entry is then refused: it is destroyed without having been closed.
removeFDE(t) ==
  /\ At(t, "closing")
  /\ FDEAvailable(fde[t], TRUE)
  /\ fdMap' = removed(fde[t])
  /\ pc' = [pc EXCEPT ![t] = "removed"]
  /\ status' = IF fdes[fde[t]].isPreopened THEN "destroyed_open" ELSE status
  /\ UNCHANGED <<fdes, call, fde, want, fd2>>

closeFDE(t) ==
  /\ At(t, "removed")
  /\ fdes' = [fdes EXCEPT ![fde[t]] = closed(fde[t], t)]
  /\ status' = IF fdes[fde[t]].vfd THEN status ELSE "closed_twice"
  /\ Return(t)
  /\ UNCHANGED fdMap

fd_renumber(t, fromFD, toFD) ==
  /\ At(t, "idle")
  /\ MapWritable
  /\ fdMap[fromFD] # NoFDE /\ fdMap[toFD] # NoFDE
  /\ ~ fdes[fdMap[fromFD]].isPreopened /\ ~ fdes[fdMap[toFD]].isPreopened
  /\ pc' = [pc EXCEPT ![t] = "renumbering"]
  /\ call' = [call EXCEPT ![t] = [kind |-> "renumber", exclusive |-> TRUE]]
  /\ fde' = [fde EXCEPT ![t] = fdMap[fromFD]]
  /\ fd2' = [fd2 EXCEPT ![t] = toFD]
  /\ UNCHANGED <<fdMap, fdes, want, status>>

\* Mistake: both entries are locked, also when they are the same one.
RenumberLocksBoth(t) ==
  /\ fdMap[fd2[t]] # fde[t]
  /\ FDEAvailable(fde[t], TRUE) /\ FDEAvailable(fdMap[fd2[t]], TRUE)

\* The source is locked, not the destination.
RenumberLocks(t) == FDEAvailable(fde[t], TRUE)

\* The destination is closed and replaced; the source leaves its descriptor.
\* With one descriptor as both, it is closed and removed.
moveFDE(t) ==
  LET to == fdMap[fd2[t]]
  IN  /\ At(t, "renumbering")
      /\ RenumberLocks(t)
      /\ fdes' = [fdes EXCEPT ![to] =
           [closed(to, t) EXCEPT !.replaced = \E u \in Threads \ {t} : fde[u] = to]]
      /\ status' = IF fdes[to].vfd THEN status ELSE "closed_twice"
      /\ fdMap' = [fd \in FDs |->
           IF fdMap[fd] = fde[t] THEN NoFDE
           ELSE IF fd = fd2[t] THEN fde[t] ELSE fdMap[fd]]
      /\ Return(t)

\* ~Process closes every entry.
exitProcess ==
  /\ status = "running"
  /\ \A t \in Threads : pc[t] = "idle"
  /\ fdMap' = [fd \in FDs |-> NoFDE]
  /\ fdes' = [f \in FDEs |-> IF f \in Range(fdMap) THEN Destroyed ELSE fdes[f]]
  /\ status' = IF \A fd \in FDs : fdMap[fd] # NoFDE => fdes[fdMap[fd]].vfd
                 THEN "exited" ELSE "closed_twice"
  /\ UNCHANGED locals
-----------------------------------------------------------------------------
\* The steps a call takes on its own.
Step(t) ==
  \/ lockFDE(t) \/ useVFD(t) \/ peek(t) \/ narrow(t)
  \/ \E b \in BOOLEAN : readdir(t, b) \/ readOldPath(t, b) \/ openVFD(t, b)
  \/ \E newFD \in FDs : validateNewPath(t, newFD)
  \/ addFDE(t) \/ probeFullMap(t)
  \/ removeFDE(t) \/ closeFDE(t) \/ moveFDE(t)

\* The program makes a call.
Begin(t) ==
  \E fd \in FDs :
    \/ \E c \in SimpleCalls : begin(t, c, fd)
    \/ \E g \in Grants : fd_fdstat_set_rights(t, fd, g)
    \/ \E openFlags \in OpenFlags, fdFlags \in FDFlags, g \in Grants :
         path_open(t, fd, openFlags, fdFlags, g)
    \/ \E toFD \in FDs : fd_renumber(t, fd, toFD)
    \/ path_rename(t, fd) \/ fd_close(t, fd)

Next == exitProcess \/ \E t \in Threads : Begin(t) \/ Step(t)

Spec == Init /\ [][Next]_vars

\* The thread is inside an operation on a file, which the entry's lock is held
\* for.  A read from a terminal or a pipe may never return.
InFile(t) == pc[t] = "using" /\ call[t].kind = "vfd"

\* A call that can go on does, except for the operations on files: no thread
\* stops elsewhere inside a call.
FairSpec == Spec /\ \A t \in Threads : WF_vars(~ InFile(t) /\ Step(t))

-----------------------------------------------------------------------------
\* The process was not ended by an error of the table itself.
Sane == status \in {"running", "exited"}

\* Every descriptor refers to an open entry, and no two to the same one: what
\* getLockedFDE returns, fd_close closes and ~Process closes is open, whatever
\* calls run concurrently.
MappedOpen ==
  /\ \A fd \in FDs : fdMap[fd] # NoFDE => fdes[fdMap[fd]].vfd
  /\ \A fd1, fd3 \in FDs : fdMap[fd1] = fdMap[fd3] /\ fdMap[fd1] # NoFDE => fd1 = fd3
  /\ status # "closed_twice"

\* An open file does not get lost: as long as the process runs it has a
\* descriptor, or fd_close is about to close it.
OpenReachable ==
  Sane => \A f \in FDEs : fdes[f].vfd =>
            \/ f \in Range(fdMap)
            \/ \E t \in Threads : pc[t] = "removed" /\ fde[t] = f

\* Both: the open files are those that descriptors refer to, each by its own.
FilesMatchDescriptors == MappedOpen /\ OpenReachable

\* A file is not closed while a call uses it, unless fd_renumber replaced it.
UsedStaysOpen ==
  \A t \in Threads : pc[t] \in {"locking", "using"} =>
    fdes[fde[t]].vfd \/ fdes[fde[t]].replaced

\* The rights that the process holds: those of its entries and those that calls
\* under way were granted.
Authority ==
  (UNION {fdes[f].rights \cup fdes[f].inheriting : f \in FDEs})
    \cup (UNION {want[t].rights \cup want[t].inheriting : t \in Threads})

\* No sequence of calls gives the process a right that none of its descriptors
\* conveyed before, although getLockedFDE checks rights before it locks the
\* entry.
AuthorityNeverGrows == [][Authority' \subseteq Authority]_vars

\* fd_close and fd_renumber keep the whole table locked while they wait for an
\* entry (WASIFile.cpp:347, 655).  They do so for ever only behind an operation
\* on that entry's file that itself never returns: calls do not wait for each
\* other in a circle, and neither waits for itself.
TableUnlocked ==
  \A t \in Threads :
    <>[](Sane /\ WaitsForFDE(t)) => \E u \in Threads : <>[](InFile(u) /\ fde[u] = fde[t])
=============================================================================
