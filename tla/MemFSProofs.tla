------------------------------ MODULE MemFSProofs ------------------------------
(******************************************************************************)
(* Proofs about MemFS, for every value of its constants.                      *)
(*                                                                            *)
(* The invariant IInv joins the types, the ownership of descriptor objects,   *)
(* the preopens and the rights.  Most calls only replace the file or the      *)
(* rights of an object (SameObjects), and for them one lemma is enough        *)
(* (SameObjectsInv); fd_close, fd_renumber and path_open change the table and *)
(* have a lemma each.  The lemmas before them say what the operators of Lfs   *)
(* and the lookups of MemFS return.                                           *)
(******************************************************************************)
EXTENDS MemFS, TLAPS, FiniteSetTheorems, SequenceTheorems, WellFoundedInduction

USE WordAssumption DEF Return

(* LFS_FILE_MAX is a natural number below the words.                          *)
LEMMA FileMaxNat == FileMax \in Nat /\ FileMax < Word
  BY DEF FileMax

(* The low word of any integer, of a negative one too, is a word.             *)
LEMMA LowType == \A n \in Int : Low(n) \in 0..Word - 1
  BY DEF Low

(* A word read as signed never exceeds LFS_FILE_MAX.                          *)
LEMMA SignedType == \A n \in Int : Signed(n) \in Int /\ Signed(n) <= FileMax
  BY LowType, FileMaxNat DEF Signed

(* A path below a renamed directory becomes a path.                           *)
LEMMA RebaseType ==
  ASSUME NEW o \in Path, NEW n \in Path, NEW c \in Path, IsPrefix(o, c)
  PROVE  Rebase(o, n, c) \in Path
<1>1. Len(o) <= Len(c) /\ Len(o) \in Nat /\ Len(c) \in Nat
  BY DEF IsPrefix, Path
<1>2. SubSeq(c, Len(o) + 1, Len(c)) \in Seq(Name)
  BY <1>1, SubSeqProperties DEF Path
<1> QED
  BY <1>2, ConcatProperties DEF Rebase, Path

(* The entry of an open file stays a path, or Nowhere, after a rename.        *)
LEMMA EntryAfterRenameType ==
  ASSUME NEW o \in Path, NEW n \in Path, NEW c \in Path
  PROVE  EntryAfterRename(o, n, c) \in Path
  BY RebaseType DEF EntryAfterRename, Nowhere, Root, Path

(* Each operation keeps a handle a handle, with the accesses it was opened with. *)
Kept(h, g) == g \in Handle /\ g.mode = h.mode

LEMMA HandleOps ==
  ASSUME NEW h \in Handle
  PROVE  /\ \A pos \in 0..FileMax : Kept(h, MovedTo(h, pos))
         /\ \A n \in Nat : Kept(h, AfterRead(h, n))
         /\ \A n \in Nat, append \in BOOLEAN :
              WriteEnd(h, n, append) <= FileMax => Kept(h, AfterWrite(h, n, append))
         /\ \A size \in 0..FileMax : Kept(h, AfterTruncate(h, size))
         /\ Kept(h, Synced(h))
<1> USE FileMaxNat DEF Handle, Kept
<1>1. \A pos \in 0..FileMax : Kept(h, MovedTo(h, pos))
  BY DEF MovedTo
<1>2. \A n \in Nat : Kept(h, AfterRead(h, n))
  BY DEF AfterRead
<1>3. \A n \in Nat, append \in BOOLEAN :
         WriteEnd(h, n, append) <= FileMax => Kept(h, AfterWrite(h, n, append))
  <2> SUFFICES ASSUME NEW n \in Nat, NEW append \in BOOLEAN, WriteEnd(h, n, append) <= FileMax
               PROVE  Kept(h, AfterWrite(h, n, append))
    OBVIOUS
  <2>1. WriteEnd(h, n, append) \in 0..FileMax
    BY DEF WriteEnd
  <2> QED
    BY <2>1 DEF AfterWrite
<1>4. \A size \in 0..FileMax : Kept(h, AfterTruncate(h, size))
  BY DEF AfterTruncate
<1>5. Kept(h, Synced(h))
  BY DEF Synced
<1> QED
  BY <1>1, <1>2, <1>3, <1>4, <1>5

(* A tree maps paths to nodes.                                                *)
TreeType(T) == DOMAIN T \subseteq Path /\ T \in [DOMAIN T -> Node]

(* Writing back a handle, adding an entry and removing one give a tree.       *)
LEMMA TreeOps ==
  ASSUME NEW T, TreeType(T)
  PROVE  /\ \A h \in Handle : TreeType(SyncTree(T, h))
         /\ \A c \in Path, node \in Node : TreeType(PutEntry(T, c, node))
         /\ \A c : TreeType(RemoveEntry(T, c))
<1>1. \A h \in Handle : TreeType(SyncTree(T, h))
  <2> SUFFICES ASSUME NEW h \in Handle, h.dirty, h.at # Nowhere, h.at \in DOMAIN T
               PROVE  TreeType(SyncTree(T, h))
    BY DEF SyncTree, TreeType
  <2>1. [T[h.at] EXCEPT !.size = h.len] \in Node
    BY DEF TreeType, Node, Handle
  <2>2. SyncTree(T, h) = [T EXCEPT ![h.at] = [T[h.at] EXCEPT !.size = h.len]]
    BY DEF SyncTree, TreeType
  <2> QED
    BY <2>1, <2>2 DEF TreeType
<1>2. \A c \in Path, node \in Node : TreeType(PutEntry(T, c, node))
  BY DEF PutEntry, TreeType
<1>3. \A c : TreeType(RemoveEntry(T, c))
  BY DEF RemoveEntry, TreeType, Restrict
<1> QED
  BY <1>1, <1>2, <1>3

(* A rename gives a tree, whatever it renames.                                *)
LEMMA RenameType ==
  ASSUME NEW T, TreeType(T), NEW o \in Path, NEW n \in Path
  PROVE  TreeType(Rename(T, o, n))
<1> DEFINE stay == {c \in DOMAIN T : ~IsPrefix(o, c) /\ c # n}
           move == {c \in DOMAIN T : IsPrefix(o, c) /\ ~IsPrefix(o, n)}
           dom == stay \union {Rebase(o, n, d) : d \in move}
           from(c) == IF c \in stay THEN T[c] ELSE T[CHOOSE d \in move : Rebase(o, n, d) = c]
<1>1. CASE o = n
  BY <1>1 DEF Rename
<1>2. CASE o # n
  <2>1. Rename(T, o, n) = [c \in dom |-> from(c)]
    BY <1>2 DEF Rename
  <2>2. dom \subseteq Path
    BY RebaseType DEF TreeType
  <2>3. \A c \in dom : from(c) \in Node
    BY DEF TreeType
  <2> HIDE DEF dom, from
  <2> QED
    BY <2>1, <2>2, <2>3 DEF TreeType
<1> QED
  BY <1>1, <1>2

--------------------------------------------------------------------------------
(* Descriptors and error codes.                                               *)

PathRec == [comps : Path, size : Nat, slash : BOOLEAN]
Arg == [dot : BOOLEAN, comps : Path, size : Nat, slash : BOOLEAN]

(* The absent object and the absent file have their types.                    *)
LEMMA BlankType == Blank \in FileDescriptor /\ NoFile \in Handle
<1>1. AnyPointer \in Pointers
  BY ArgumentAssumption DEF AnyPointer
<1>2. NoFile \in Handle
  BY FileMaxNat, EmptySeq DEF NoFile, Handle, Nowhere, Root, Path
<1> QED
  BY <1>1, <1>2, EmptySeq DEF Blank, FileDescriptor, Root, Path

(* resolve_path gives a path, whatever junk it takes from memory.             *)
LEMMA ResolvePathType ==
  ASSUME NEW dir \in FileDescriptor, NEW arg \in PathArgs
  PROVE  resolve_path(dir, arg) \in PathRec
<1> DEFINE n == dir.path.size
           nul == dir.ptr.nul
           k == IF n < nul THEN n ELSE nul
           junk == IF n = 0 \/ nul = 0 THEN << >> ELSE <<dir.ptr.name[k]>>
<1>1. n \in Nat /\ nul \in 0..3 /\ dir.ptr.name \in [1..3 -> Name]
  BY ArgumentAssumption DEF FileDescriptor, Pointer
<1>2. arg \in Arg
  BY PathAssumption DEF Arg
<1>3. junk \in Seq(Name)
  <2>1. CASE n = 0 \/ nul = 0
    BY <2>1
  <2>2. CASE ~(n = 0 \/ nul = 0)
    <3>1. k \in 1..3
      BY <1>1, <2>2
    <3>2. dir.ptr.name[k] \in Name
      BY <1>1, <3>1
    <3> HIDE DEF k
    <3> QED
      BY <2>2, <3>2
  <2> QED
    BY <2>1, <2>2
<1>4. junk \o arg.comps \in Seq(Name)
  BY <1>2, <1>3, ConcatProperties DEF Arg, Path
<1>5. resolve_path(dir, arg) =
        IF n > nul THEN [comps |-> junk, size |-> nul, slash |-> FALSE]
        ELSE IF arg.dot THEN [comps |-> junk, size |-> n, slash |-> FALSE]
        ELSE [comps |-> junk \o arg.comps, size |-> n + 1 + arg.size, slash |-> arg.slash]
  BY DEF resolve_path
<1> HIDE DEF n, nul, junk
<1> QED
  BY <1>1, <1>2, <1>3, <1>4, <1>5 DEF PathRec, Arg, Path

(* A lookup of a descriptor returns an errno.                                 *)
LEMMA LookupErrno ==
  /\ \A fd, type, rights, streams : lookup_fd(fd, type, rights, streams) \in Errno
  /\ \A fd, rights : dir_of(fd, rights) \in Errno
  /\ \A fd, right, mode : file_of(fd, right, mode) \in Errno
  /\ \A fd : fd_close_error(fd) \in Errno
  /\ \A fd, to : fd_renumber_error(fd, to) \in Errno
<1>1. \A fd, type, rights, streams : lookup_fd(fd, type, rights, streams) \in Errno
  BY DEF lookup_fd, Errno
<1>2. \A fd, rights : dir_of(fd, rights) \in Errno
  BY <1>1 DEF dir_of
<1>3. \A fd, right, mode : file_of(fd, right, mode) \in Errno
  BY <1>1 DEF file_of, Errno
<1>4. \A fd : fd_close_error(fd) \in Errno
  BY <1>1 DEF fd_close_error, First, require_not_preopen, Errno
<1>5. \A fd, to : fd_renumber_error(fd, to) \in Errno
  BY <1>4 DEF fd_renumber_error, First, require_not_preopen, Errno
<1> QED
  BY <1>1, <1>2, <1>3, <1>4, <1>5

(* Every littlefs error has an errno (from_lfs_error).                        *)
LEMMA LfsErrno ==
  ASSUME NEW T
  PROVE  /\ \A c : LookupError(T, c) \in Errno
         /\ \A p : CreateError(T, p) \in Errno
         /\ \A p : MkdirError(T, p) \in Errno
         /\ \A p : DirOpenError(T, p) \in Errno
         /\ \A p, flags : FileOpenError(T, p, flags) \in Errno
         /\ \A c : RemoveError(T, c) \in Errno
         /\ \A o, n : RenameError(T, o, n) \in Errno
<1>1. \A c : LookupError(T, c) \in Errno
  BY DEF LookupError, Errno
<1>2. \A p : CreateError(T, p) \in Errno
  BY <1>1 DEF CreateError, Errno
<1>3. \A p : MkdirError(T, p) \in Errno
  BY <1>2 DEF MkdirError, Errno
<1>4. \A p : DirOpenError(T, p) \in Errno
  BY <1>1 DEF DirOpenError, Errno
<1>5. \A p, flags : FileOpenError(T, p, flags) \in Errno
  BY <1>1, <1>2 DEF FileOpenError, Errno
<1>6. \A c : RemoveError(T, c) \in Errno
  BY <1>1 DEF RemoveError, Errno
<1>7. \A o, n : RenameError(T, o, n) \in Errno
  BY <1>1 DEF RenameError, Errno
<1> QED
  BY <1>1, <1>2, <1>3, <1>4, <1>5, <1>6, <1>7

(* What a successful lookup says of the descriptor.                           *)
LEMMA Found ==
  ASSUME TypeOK, NEW fd \in Fd
  PROVE  /\ \A type, rights, streams : lookup_fd(fd, type, rights, streams) = "SUCCESS" =>
              /\ fds[fd] \in Addr /\ At(fd) \in FileDescriptor
              /\ At(fd).stream => streams
              /\ type \in {"dir", "reg"} => At(fd).type = type
              /\ rights \subseteq At(fd).base
         /\ \A rights : dir_of(fd, rights) = "SUCCESS" =>
              /\ fds[fd] \in Addr /\ At(fd) \in FileDescriptor
              /\ ~At(fd).stream /\ At(fd).type = "dir"
         /\ \A right, mode : file_of(fd, right, mode) = "SUCCESS" =>
              /\ fds[fd] \in Addr /\ At(fd) \in FileDescriptor /\ At(fd).file \in Handle
              /\ ~At(fd).stream /\ At(fd).type = "reg" /\ mode \subseteq At(fd).file.mode
<1>1. fds[fd] \in Addr \union {Free}
  BY DEF TypeOK, TableOK
<1>2. fds[fd] \in Addr => At(fd) \in FileDescriptor
  BY DEF TypeOK, HeapOK, At
<1>3. \A d \in FileDescriptor : d.file \in Handle
  BY DEF FileDescriptor
<1>4. \A type, rights, streams : lookup_fd(fd, type, rights, streams) = "SUCCESS" =>
        /\ fds[fd] \in Addr /\ At(fd) \in FileDescriptor
        /\ At(fd).stream => streams
        /\ type \in {"dir", "reg"} => At(fd).type = type
        /\ rights \subseteq At(fd).base
  BY <1>1, <1>2 DEF lookup_fd
<1>5. \A rights : dir_of(fd, rights) = "SUCCESS" =>
        /\ fds[fd] \in Addr /\ At(fd) \in FileDescriptor
        /\ ~At(fd).stream /\ At(fd).type = "dir"
  BY <1>4 DEF dir_of
<1>6. \A right, mode : file_of(fd, right, mode) = "SUCCESS" =>
        /\ fds[fd] \in Addr /\ At(fd) \in FileDescriptor /\ At(fd).file \in Handle
        /\ ~At(fd).stream /\ At(fd).type = "reg" /\ mode \subseteq At(fd).file.mode
  BY <1>3, <1>4 DEF file_of
<1> QED
  BY <1>4, <1>5, <1>6

--------------------------------------------------------------------------------
(* Type correctness, and what each call may do to the objects of the table.   *)

(* No object appears, disappears or changes its nature; rights may shrink.    *)
SameObjects ==
  /\ UNCHANGED <<fds, mlist, next_fd>>
  /\ \A a \in Addr :
       /\ heap'[a].type = heap[a].type /\ heap'[a].stream = heap[a].stream
       /\ heap'[a].path = heap[a].path /\ heap'[a].file.mode = heap[a].file.mode
       /\ heap'[a].base \subseteq heap[a].base /\ heap'[a].inh \subseteq heap[a].inh

(* A call that only answers keeps the types and every object.                 *)
LEMMA AnswerStep ==
  ASSUME TypeOK
  PROVE  \A e \in Errno : Answer(e) => TypeOK' /\ SameObjects
  BY DEF Answer, UnchangedTable, SameObjects, TypeOK, TableOK, HeapOK, TreeOK

(* So does a call that fails.                                                 *)
LEMMA FailStep ==
  ASSUME TypeOK
  PROVE  \A e \in Errno : Fail(e) => TypeOK' /\ SameObjects
  BY AnswerStep DEF Fail

(* So does a call that throws.                                                *)
LEMMA ThrowStep ==
  ASSUME TypeOK
  PROVE  /\ OutOfSpace => TypeOK' /\ SameObjects
         /\ \A e \in {"SUCCESS", "THROW", "INVAL", "NOSYS"} : Answer(e) => TypeOK' /\ SameObjects
  BY AnswerStep DEF OutOfSpace, Errno

(* One object is replaced by another of the same nature.                      *)
LEMMA UpdateStep ==
  ASSUME TypeOK, NEW fd \in Fd, fds[fd] \in Addr, UnchangedTable, ret' \in Errno,
         TreeType(tree'),
         NEW d \in FileDescriptor, heap' = [heap EXCEPT ![fds[fd]] = d],
         d.type = At(fd).type, d.stream = At(fd).stream, d.path = At(fd).path,
         d.file.mode = At(fd).file.mode, d.base \subseteq At(fd).base, d.inh \subseteq At(fd).inh
  PROVE  TypeOK' /\ SameObjects
<1>1. HeapOK'
  BY DEF TypeOK, HeapOK
<1>2. TableOK' /\ TreeOK'
  BY DEF TypeOK, TableOK, UnchangedTable, TreeType, TreeOK
<1>3. SameObjects
  BY DEF TypeOK, HeapOK, UnchangedTable, SameObjects, At
<1> QED
  BY <1>1, <1>2, <1>3 DEF TypeOK

(* A change of the open file of a descriptor, written back.                   *)
LEMMA SyncedToStep ==
  ASSUME TypeOK, NEW fd \in Fd, fds[fd] \in Addr,
         NEW h, Kept(At(fd).file, h), SyncedTo(fd, h)
  PROVE  TypeOK' /\ SameObjects
<1> DEFINE d == [At(fd) EXCEPT !.file = Synced(h)]
<1>1. At(fd) \in FileDescriptor /\ heap \in [Addr -> FileDescriptor]
  BY DEF TypeOK, HeapOK, At
<1>2. Kept(h, Synced(h)) /\ h \in Handle
  BY HandleOps DEF Kept
<1>3. d \in FileDescriptor
  BY <1>1, <1>2 DEF FileDescriptor, Kept
<1>4. heap' = [heap EXCEPT ![fds[fd]] = d]
  BY <1>1 DEF SyncedTo, At
<1>5. TreeType(tree')
  BY <1>2, TreeOps DEF SyncedTo, TypeOK, TreeOK, TreeType
<1>6. /\ d.type = At(fd).type /\ d.stream = At(fd).stream /\ d.path = At(fd).path
      /\ d.file.mode = At(fd).file.mode /\ d.base \subseteq At(fd).base /\ d.inh \subseteq At(fd).inh
  BY <1>1, <1>2 DEF FileDescriptor, Kept
<1>7. UnchangedTable /\ ret' \in Errno
  BY DEF SyncedTo, Errno
<1> HIDE DEF d
<1> QED
  BY <1>3, <1>4, <1>5, <1>6, <1>7, UpdateStep

(* The calls that only look.                                                  *)
LEMMA LookStep ==
  ASSUME TypeOK, LookCalls
  PROVE  TypeOK' /\ SameObjects
<1>1. CASE not_implemented
  BY <1>1, ThrowStep DEF not_implemented
<1>2. ASSUME NEW fd \in FdArgs,
             fd_advise(fd) \/ fd_datasync(fd) \/ fd_sync(fd) \/ fd_fdstat_get(fd)
      PROVE  TypeOK' /\ SameObjects
  BY <1>2, AnswerStep, LookupErrno DEF fd_advise, fd_datasync, fd_sync, fd_fdstat_get
<1>3. ASSUME NEW fd \in FdArgs, fd_filestat_get(fd)
      PROVE  TypeOK' /\ SameObjects
  <2>1. (IF At(fd).stream THEN "SUCCESS" ELSE LookupError(tree, At(fd).path.comps)) \in Errno
    BY LfsErrno DEF Errno
  <2>2. First(lookup_fd(fd, "any", {"FD_FILESTAT_GET"}, TRUE),
              IF At(fd).stream THEN "SUCCESS" ELSE LookupError(tree, At(fd).path.comps)) \in Errno
    BY <2>1, LookupErrno DEF First
  <2> QED
    BY <1>3, <2>2, AnswerStep DEF fd_filestat_get
<1>4. ASSUME NEW fd \in FdArgs, fd_prestat_get(fd)
      PROVE  TypeOK' /\ SameObjects
  <2>1. (IF fd < 3 THEN "NOTSUP" ELSE IF IsPreopen(fd) THEN "SUCCESS" ELSE "BADF") \in Errno
    BY DEF Errno
  <2> QED
    BY <1>4, <2>1, AnswerStep DEF fd_prestat_get
<1>5. ASSUME NEW fd \in FdArgs, NEW arg \in PathArgs, path_filestat_get(fd, arg)
      PROVE  TypeOK' /\ SameObjects
  <2>1. First(dir_of(fd, {"PATH_FILESTAT_GET"}),
              LookupError(tree, resolve_path(At(fd), arg).comps)) \in Errno
    BY LookupErrno, LfsErrno DEF First
  <2> QED
    BY <1>5, <2>1, AnswerStep DEF path_filestat_get
<1> QED
  BY <1>1, <1>2, <1>3, <1>4, <1>5 DEF LookCalls

(* fd_fdstat_set_flags.                                                       *)
LEMMA SetFlagsStep ==
  ASSUME TypeOK, NEW fd \in Fd, NEW append \in BOOLEAN, fd_fdstat_set_flags(fd, append)
  PROVE  TypeOK' /\ SameObjects
<1> DEFINE found == lookup_fd(fd, "any", {"FD_FDSTAT_SET_FLAGS"}, TRUE)
           d == [At(fd) EXCEPT !.append = append]
<1>1. CASE Fail(found)
  BY <1>1, FailStep, LookupErrno
<1>2. CASE ~Fail(found)
  <2>1. found = "SUCCESS" /\ heap' = [heap EXCEPT ![fds[fd]].append = append]
        /\ ret' = "SUCCESS" /\ UnchangedTable /\ UNCHANGED tree
    BY <1>2 DEF fd_fdstat_set_flags
  <2>2. fds[fd] \in Addr /\ At(fd) \in FileDescriptor
    BY <2>1, Found
  <2>3. d \in FileDescriptor
    BY <2>2 DEF FileDescriptor
  <2>4. heap' = [heap EXCEPT ![fds[fd]] = d]
    BY <2>1, <2>2 DEF At, TypeOK, HeapOK
  <2>5. TreeType(tree') /\ ret' \in Errno
    BY <2>1 DEF TypeOK, TreeOK, TreeType, Errno
  <2>6. /\ d.type = At(fd).type /\ d.stream = At(fd).stream /\ d.path = At(fd).path
        /\ d.file.mode = At(fd).file.mode /\ d.base \subseteq At(fd).base /\ d.inh \subseteq At(fd).inh
    BY <2>2 DEF FileDescriptor
  <2> HIDE DEF d
  <2> QED
    BY <2>1, <2>2, <2>3, <2>4, <2>5, <2>6, UpdateStep
<1> QED
  BY <1>1, <1>2

(* fd_fdstat_set_rights: the rights shrink.                                   *)
LEMMA SetRightsStep ==
  ASSUME TypeOK, NEW fd \in Fd, NEW base \in SUBSET Right, NEW inh \in SUBSET Right,
         fd_fdstat_set_rights(fd, base, inh)
  PROVE  TypeOK' /\ SameObjects
<1> DEFINE found == lookup_fd(fd, "any", {}, TRUE)
           subset == base \subseteq At(fd).base /\ inh \subseteq At(fd).inh
           error == First(found, IF subset THEN "SUCCESS" ELSE "NOTCAPABLE")
           d == [At(fd) EXCEPT !.base = base, !.inh = inh]
<1>1. CASE Fail(error)
  <2>1. (IF subset THEN "SUCCESS" ELSE "NOTCAPABLE") \in Errno
    BY DEF Errno
  <2>2. error \in Errno
    BY <2>1, LookupErrno DEF First
  <2> QED
    BY <1>1, <2>2, FailStep
<1>2. CASE ~Fail(error)
  <2>1. /\ found = "SUCCESS" /\ subset
        /\ heap' = [heap EXCEPT ![fds[fd]].base = base, ![fds[fd]].inh = inh]
        /\ ret' = "SUCCESS" /\ UnchangedTable /\ UNCHANGED tree
    BY <1>2 DEF fd_fdstat_set_rights
  <2>2. fds[fd] \in Addr /\ At(fd) \in FileDescriptor
    BY <2>1, Found
  <2>3. d \in FileDescriptor
    BY <2>2 DEF FileDescriptor
  <2>4. heap' = [heap EXCEPT ![fds[fd]] = d]
    BY <2>1, <2>2 DEF At, TypeOK, HeapOK
  <2>5. TreeType(tree') /\ ret' \in Errno
    BY <2>1 DEF TypeOK, TreeOK, TreeType, Errno
  <2>6. /\ d.type = At(fd).type /\ d.stream = At(fd).stream /\ d.path = At(fd).path
        /\ d.file.mode = At(fd).file.mode /\ d.base \subseteq At(fd).base /\ d.inh \subseteq At(fd).inh
    BY <2>1, <2>2 DEF FileDescriptor
  <2> HIDE DEF d
  <2> QED
    BY <2>1, <2>2, <2>3, <2>4, <2>5, <2>6, UpdateStep
<1> QED
  BY <1>1, <1>2

(* The truncation of fd_allocate and fd_filestat_set_size, at any size.       *)
LEMMA TruncateStep ==
  ASSUME TypeOK, NEW fd \in Fd, fds[fd] \in Addr, NEW size \in Int, TruncateFile(fd, size)
  PROVE  TypeOK' /\ SameObjects
<1> DEFINE h == At(fd).file
<1>1. h \in Handle
  BY DEF TypeOK, HeapOK, FileDescriptor, At
<1>2. CASE Answer("THROW") \/ Answer("INVAL") \/ OutOfSpace
  BY <1>2, ThrowStep
<1>3. CASE Low(size) <= FileMax /\ SyncedTo(fd, AfterTruncate(h, Low(size)))
  <2>1. Low(size) \in 0..FileMax
    BY <1>3, LowType, FileMaxNat
  <2>2. Kept(h, AfterTruncate(h, Low(size)))
    BY <1>1, <2>1, HandleOps
  <2> QED
    BY <1>3, <2>2, SyncedToStep
<1> QED
  BY <1>2, <1>3 DEF TruncateFile

(* fd_allocate.                                                               *)
LEMMA AllocateStep ==
  ASSUME TypeOK, NEW fd \in Fd, NEW offset \in Offsets, NEW len \in Offsets,
         fd_allocate(fd, offset, len)
  PROVE  TypeOK' /\ SameObjects
<1> DEFINE found == file_of(fd, "FD_ALLOCATE", {})
           required_size == (offset + len) % (Word * Word)
<1>1. CASE Fail(found)
  BY <1>1, FailStep, LookupErrno
<1>2. CASE Answer("SUCCESS")
  BY <1>2, ThrowStep
<1>3. CASE found = "SUCCESS" /\ TruncateFile(fd, required_size)
  <2>1. offset + len \in Int
    BY ArgumentAssumption
  <2>2. Word * Word \in Nat /\ Word * Word > 0
    BY WordAssumption
  <2>3. \A i \in Int, m \in Nat : m > 0 => i % m \in Int
    OBVIOUS
  <2>4. required_size \in Int
    BY <2>1, <2>2, <2>3
  <2>5. fds[fd] \in Addr
    BY <1>3, Found
  <2> QED
    BY <1>3, <2>4, <2>5, TruncateStep
<1> QED
  BY <1>1, <1>2, <1>3 DEF fd_allocate

(* fd_filestat_set_size.                                                      *)
LEMMA SetSizeStep ==
  ASSUME TypeOK, NEW fd \in Fd, NEW size \in Offsets, fd_filestat_set_size(fd, size)
  PROVE  TypeOK' /\ SameObjects
<1> DEFINE found == file_of(fd, "FD_FILESTAT_SET_SIZE", {})
<1>1. CASE Fail(found)
  BY <1>1, FailStep, LookupErrno
<1>2. CASE found = "SUCCESS" /\ TruncateFile(fd, size)
  <2>1. size \in Int /\ fds[fd] \in Addr
    BY <1>2, Found, ArgumentAssumption
  <2> QED
    BY <1>2, <2>1, TruncateStep
<1> QED
  BY <1>1, <1>2 DEF fd_filestat_set_size

(* fd_read.                                                                   *)
LEMMA ReadStep ==
  ASSUME TypeOK, NEW fd \in Fd, NEW n \in IoLens, fd_read(fd, n)
  PROVE  TypeOK' /\ SameObjects
<1> DEFINE found == file_of(fd, "FD_READ", {"r"})
           h == At(fd).file
<1>1. CASE Fail(found)
  BY <1>1, FailStep, LookupErrno
<1>2. CASE found = "SUCCESS" /\ SyncedTo(fd, AfterRead(h, n))
  <2>1. h \in Handle /\ fds[fd] \in Addr
    BY <1>2, Found
  <2>2. Kept(h, AfterRead(h, n))
    BY <2>1, HandleOps, ArgumentAssumption
  <2> QED
    BY <1>2, <2>1, <2>2, SyncedToStep
<1> QED
  BY <1>1, <1>2 DEF fd_read

(* The offset of a positioned read or write, once it is not negative.         *)
LEMMA SetTarget ==
  ASSUME NEW h \in Handle, NEW offset \in Offsets, SeekTarget(h, offset, "SET") >= 0
  PROVE  SeekTarget(h, offset, "SET") \in 0..FileMax
<1>1. Signed(offset) \in Int /\ Signed(offset) <= FileMax
  BY SignedType, ArgumentAssumption
<1>2. SeekTarget(h, offset, "SET") = Signed(offset) + 0
  BY DEF SeekTarget
<1> QED
  BY <1>1, <1>2, FileMaxNat

(* fd_pread.                                                                  *)
LEMMA PreadStep ==
  ASSUME TypeOK, NEW fd \in Fd, NEW n \in IoLens, NEW offset \in Offsets, fd_pread(fd, n, offset)
  PROVE  TypeOK' /\ SameObjects
<1> DEFINE found == file_of(fd, "FD_READ", {"r"})
           h == At(fd).file
           target == SeekTarget(h, offset, "SET")
           there == MovedTo(h, target)
           back == MovedTo(AfterRead(there, n), h.pos)
<1>1. CASE Fail(found)
  BY <1>1, FailStep, LookupErrno
<1>2. CASE Answer("INVAL")
  BY <1>2, ThrowStep
<1>3. CASE found = "SUCCESS" /\ target >= 0 /\ SyncedTo(fd, back)
  <2>1. h \in Handle /\ fds[fd] \in Addr /\ h.pos \in 0..FileMax
    BY <1>3, Found DEF Handle
  <2>2. Kept(h, there)
    BY <1>3, <2>1, SetTarget, HandleOps
  <2>3. Kept(there, AfterRead(there, n))
    BY <2>2, HandleOps, ArgumentAssumption DEF Kept
  <2>4. Kept(h, back)
    BY <2>1, <2>2, <2>3, HandleOps DEF Kept
  <2> QED
    BY <1>3, <2>1, <2>4, SyncedToStep
<1> QED
  BY <1>1, <1>2, <1>3 DEF fd_pread

(* fd_write.                                                                  *)
LEMMA WriteStep ==
  ASSUME TypeOK, NEW fd \in Fd, NEW n \in IoLens, fd_write(fd, n)
  PROVE  TypeOK' /\ SameObjects
<1> DEFINE found == file_of(fd, "FD_WRITE", {"w"})
           h == At(fd).file
           append == At(fd).append
           written == AfterWrite(h, n, append)
           back == IF append THEN MovedTo(written, h.pos) ELSE written
<1>1. CASE Fail(found)
  BY <1>1, FailStep, LookupErrno
<1>2. CASE OutOfSpace
  BY <1>2, ThrowStep
<1>3. CASE found = "SUCCESS" /\ WriteEnd(h, n, append) <= FileMax /\ SyncedTo(fd, back)
  <2>1. h \in Handle /\ fds[fd] \in Addr /\ h.pos \in 0..FileMax /\ append \in BOOLEAN
    BY <1>3, Found DEF Handle, FileDescriptor
  <2>2. Kept(h, written)
    BY <1>3, <2>1, HandleOps, ArgumentAssumption
  <2>3. Kept(h, back)
    BY <2>1, <2>2, HandleOps DEF Kept
  <2> QED
    BY <1>3, <2>1, <2>3, SyncedToStep
<1> QED
  BY <1>1, <1>2, <1>3 DEF fd_write

(* fd_pwrite.                                                                 *)
LEMMA PwriteStep ==
  ASSUME TypeOK, NEW fd \in Fd, NEW n \in IoLens, NEW offset \in Offsets, fd_pwrite(fd, n, offset)
  PROVE  TypeOK' /\ SameObjects
<1> DEFINE found == file_of(fd, "FD_WRITE", {"w"})
           h == At(fd).file
           target == SeekTarget(h, offset, "SET")
           there == MovedTo(h, target)
           written == AfterWrite(there, n, FALSE)
           back == MovedTo(written, h.pos)
<1>1. CASE Fail(found)
  BY <1>1, FailStep, LookupErrno
<1>2. CASE Answer("INVAL") \/ OutOfSpace
  BY <1>2, ThrowStep
<1>3. CASE found = "SUCCESS" /\ target >= 0 /\ WriteEnd(there, n, FALSE) <= FileMax
           /\ SyncedTo(fd, back)
  <2>1. h \in Handle /\ fds[fd] \in Addr /\ h.pos \in 0..FileMax
    BY <1>3, Found DEF Handle
  <2>2. Kept(h, there)
    BY <1>3, <2>1, SetTarget, HandleOps
  <2>3. Kept(there, written)
    BY <1>3, <2>2, HandleOps, ArgumentAssumption DEF Kept
  <2>4. Kept(h, back)
    BY <2>1, <2>2, <2>3, HandleOps DEF Kept
  <2> QED
    BY <1>3, <2>1, <2>4, SyncedToStep
<1> QED
  BY <1>1, <1>2, <1>3 DEF fd_pwrite

(* fd_seek and fd_tell.                                                       *)
LEMMA SeekStep ==
  ASSUME TypeOK, NEW fd \in Fd, NEW offset \in Int, NEW whence, fd_seek(fd, offset, whence)
  PROVE  TypeOK' /\ SameObjects
<1> DEFINE required == IF whence = "CUR" /\ offset = 0 THEN {"FD_SEEK", "FD_TELL"} ELSE {"FD_SEEK"}
           found == lookup_fd(fd, "reg", required, TRUE)
           target == SeekTarget(At(fd).file, offset, whence)
           valid == whence \in {"SET", "CUR", "END"} /\ target \in 0..FileMax
           error == First(found, IF At(fd).stream THEN "SPIPE" ELSE IF valid THEN "SUCCESS" ELSE "INVAL")
           g == MovedTo(At(fd).file, target)
           d == [At(fd) EXCEPT !.file = g]
<1>1. CASE Fail(error)
  <2>1. (IF At(fd).stream THEN "SPIPE" ELSE IF valid THEN "SUCCESS" ELSE "INVAL") \in Errno
    BY DEF Errno
  <2>2. error \in Errno
    BY <2>1, LookupErrno DEF First
  <2> QED
    BY <1>1, <2>2, FailStep
<1>2. CASE ~Fail(error)
  <2>1. /\ found = "SUCCESS" /\ valid /\ heap' = [heap EXCEPT ![fds[fd]].file = g]
        /\ ret' = "SUCCESS" /\ UnchangedTable /\ UNCHANGED tree
    BY <1>2 DEF fd_seek
  <2>2. fds[fd] \in Addr /\ At(fd) \in FileDescriptor /\ At(fd).file \in Handle
    <3> HIDE DEF required
    <3>1. fds[fd] \in Addr /\ At(fd) \in FileDescriptor
      BY <2>1, Found
    <3> QED
      BY <3>1 DEF FileDescriptor
  <2>3. Kept(At(fd).file, g)
    BY <2>1, <2>2, HandleOps
  <2> HIDE DEF g
  <2>4. d \in FileDescriptor
    BY <2>2, <2>3 DEF FileDescriptor, Kept
  <2>5. heap' = [heap EXCEPT ![fds[fd]] = d]
    BY <2>1, <2>2 DEF At, TypeOK, HeapOK
  <2>6. TreeType(tree') /\ ret' \in Errno
    BY <2>1 DEF TypeOK, TreeOK, TreeType, Errno
  <2>7. /\ d.type = At(fd).type /\ d.stream = At(fd).stream /\ d.path = At(fd).path
        /\ d.file.mode = At(fd).file.mode /\ d.base \subseteq At(fd).base /\ d.inh \subseteq At(fd).inh
    BY <2>2, <2>3 DEF FileDescriptor, Kept
  <2> HIDE DEF d
  <2> QED
    BY <2>1, <2>2, <2>4, <2>5, <2>6, <2>7, UpdateStep
<1> QED
  BY <1>1, <1>2

(* The calls on open files, together.                                         *)
LEMMA FileStep ==
  ASSUME TypeOK, FileCalls
  PROVE  TypeOK' /\ SameObjects
<1>1. FdArgs \subseteq Fd /\ Offsets \subseteq Int
  BY ArgumentAssumption DEF Fd
<1>2. ASSUME NEW fd \in FdArgs, NEW offset \in Offsets, NEW len \in Offsets,
             fd_allocate(fd, offset, len)
      PROVE  TypeOK' /\ SameObjects
  BY <1>1, <1>2, AllocateStep
<1>3. ASSUME NEW fd \in FdArgs, NEW size \in Offsets, fd_filestat_set_size(fd, size)
      PROVE  TypeOK' /\ SameObjects
  BY <1>1, <1>3, SetSizeStep
<1>4. ASSUME NEW fd \in FdArgs, NEW n \in IoLens, fd_read(fd, n) \/ fd_write(fd, n)
      PROVE  TypeOK' /\ SameObjects
  BY <1>1, <1>4, ReadStep, WriteStep
<1>5. ASSUME NEW fd \in FdArgs, NEW n \in IoLens, NEW offset \in Offsets,
             fd_pread(fd, n, offset) \/ fd_pwrite(fd, n, offset)
      PROVE  TypeOK' /\ SameObjects
  BY <1>1, <1>5, PreadStep, PwriteStep
<1>6. ASSUME NEW fd \in FdArgs, NEW offset \in Offsets, NEW whence, fd_seek(fd, offset, whence)
      PROVE  TypeOK' /\ SameObjects
  BY <1>1, <1>6, SeekStep
<1>7. ASSUME NEW fd \in FdArgs, fd_tell(fd)
      PROVE  TypeOK' /\ SameObjects
  BY <1>1, <1>7, SeekStep DEF fd_tell
<1> QED
  BY <1>2, <1>3, <1>4, <1>5, <1>6, <1>7 DEF FileCalls

(* set_file_times, from a descriptor or from a path.                          *)
LEMMA SetTimesStep ==
  ASSUME TypeOK, NEW c, NEW flags, NEW t \in Times, set_file_times(c, flags, t)
  PROVE  TypeOK' /\ SameObjects
<1>1. CASE Answer("INVAL")
  BY <1>1, ThrowStep
<1>2. CASE ~Answer("INVAL")
  <2>1. ret' = "SUCCESS" /\ UnchangedTable /\ UNCHANGED heap
    BY <1>2 DEF set_file_times
  <2>2. TreeOK'
    <3>1. CASE UNCHANGED tree
      BY <3>1 DEF TypeOK, TreeOK
    <3>2. CASE ~(UNCHANGED tree)
      <4>1. PICK now \in Times :
              /\ Exists(tree, c)
              /\ tree' = [tree EXCEPT ![c].time = IF "TIM" \in flags THEN t
                                                  ELSE IF "TIM_NOW" \in flags THEN now ELSE @]
        BY <1>2, <3>2 DEF set_file_times
      <4>2. tree[c] \in Node
        BY <4>1 DEF Exists, TypeOK, TreeOK
      <4> DEFINE node == [tree[c] EXCEPT !.time = IF "TIM" \in flags THEN t
                                          ELSE IF "TIM_NOW" \in flags THEN now ELSE @]
      <4>3. node \in Node
        BY <4>2 DEF Node
      <4>4. tree' = [tree EXCEPT ![c] = node]
        BY <4>1 DEF TypeOK, TreeOK, Exists
      <4> HIDE DEF node
      <4> QED
        BY <4>1, <4>3, <4>4 DEF TypeOK, TreeOK, Exists
    <3> QED
      BY <3>1, <3>2
  <2>3. TableOK' /\ HeapOK' /\ ret' \in Errno
    BY <2>1 DEF TypeOK, TableOK, HeapOK, UnchangedTable, Errno
  <2>4. SameObjects
    BY <2>1 DEF SameObjects, UnchangedTable
  <2> QED
    BY <2>2, <2>3, <2>4 DEF TypeOK
<1> QED
  BY <1>1, <1>2

(* A call that changes the tree and leaves every object alone.                *)
LEMMA TreeOnlyStep ==
  ASSUME TypeOK, TreeType(tree'), ret' = "SUCCESS", UnchangedTable, UNCHANGED heap
  PROVE  TypeOK' /\ SameObjects
  BY DEF TypeOK, TableOK, HeapOK, TreeOK, TreeType, SameObjects, UnchangedTable, Errno

(* A call that changes the tree and where open files have their entries.      *)
LEMMA MovedEntriesStep ==
  ASSUME TypeOK, TreeType(tree'), ret' = "SUCCESS", UnchangedTable,
         NEW at \in [Addr -> Path],
         heap' = [a \in Addr |-> [heap[a] EXCEPT !.file.at = at[a]]]
  PROVE  TypeOK' /\ SameObjects
<1>1. ASSUME NEW a \in Addr
      PROVE  /\ heap'[a] \in FileDescriptor
             /\ heap'[a].type = heap[a].type /\ heap'[a].stream = heap[a].stream
             /\ heap'[a].path = heap[a].path /\ heap'[a].file.mode = heap[a].file.mode
             /\ heap'[a].base = heap[a].base /\ heap'[a].inh = heap[a].inh
  <2>1. heap[a] \in FileDescriptor /\ at[a] \in Path
    BY DEF TypeOK, HeapOK
  <2>2. heap'[a] = [heap[a] EXCEPT !.file = [heap[a].file EXCEPT !.at = at[a]]]
    BY <2>1 DEF FileDescriptor
  <2>3. [heap[a].file EXCEPT !.at = at[a]] \in Handle
        /\ [heap[a].file EXCEPT !.at = at[a]].mode = heap[a].file.mode
    BY <2>1 DEF FileDescriptor, Handle
  <2> QED
    BY <2>1, <2>2, <2>3 DEF FileDescriptor
<1>2. HeapOK'
  BY <1>1 DEF HeapOK
<1> QED
  BY <1>1, <1>2 DEF TypeOK, TableOK, TreeOK, TreeType, SameObjects, UnchangedTable, Errno

(* path_create_directory.                                                     *)
LEMMA MkdirStep ==
  ASSUME TypeOK, NEW fd \in Fd, NEW arg \in PathArgs, path_create_directory(fd, arg)
  PROVE  TypeOK' /\ SameObjects
<1> DEFINE found == dir_of(fd, {"PATH_CREATE_DIRECTORY"})
           p == resolve_path(At(fd), arg)
           error == First(found, MkdirError(tree, p))
           node == [type |-> "dir", size |-> 0, time |-> DefaultTime]
<1>1. CASE Fail(error)
  <2>1. error \in Errno
    BY LookupErrno, LfsErrno DEF First
  <2> QED
    BY <1>1, <2>1, FailStep
<1>2. CASE OutOfSpace
  BY <1>2, ThrowStep
<1>3. CASE error = "SUCCESS" /\ tree' = PutEntry(tree, p.comps, node)
           /\ ret' = "SUCCESS" /\ UnchangedTable /\ UNCHANGED heap
  <2>1. found = "SUCCESS"
    BY <1>3 DEF First
  <2>2. p \in PathRec
    BY <2>1, Found, ResolvePathType
  <2>3. node \in Node
    BY ArgumentAssumption, FileMaxNat DEF Node
  <2>4. TreeType(tree')
    BY <1>3, <2>2, <2>3, TreeOps DEF PathRec, TypeOK, TreeOK, TreeType
  <2> QED
    BY <1>3, <2>4, TreeOnlyStep
<1> QED
  BY <1>1, <1>2, <1>3 DEF path_create_directory

(* path_remove_directory.                                                     *)
LEMMA RemoveDirectoryStep ==
  ASSUME TypeOK, NEW fd \in Fd, NEW arg \in PathArgs, path_remove_directory(fd, arg)
  PROVE  TypeOK' /\ SameObjects
<1> DEFINE found == dir_of(fd, {"PATH_REMOVE_DIRECTORY"})
           c == resolve_path(At(fd), arg).comps
           result == IF IsReg(tree, c) THEN "NOTDIR" ELSE RemoveError(tree, c)
           error == First(found, result)
<1>1. CASE Fail(error)
  <2>1. result \in Errno
    BY LfsErrno DEF Errno
  <2>2. error \in Errno
    BY <2>1, LookupErrno DEF First
  <2> QED
    BY <1>1, <2>2, FailStep
<1>2. CASE tree' = RemoveEntry(tree, c) /\ ret' = "SUCCESS" /\ UnchangedTable /\ UNCHANGED heap
  BY <1>2, TreeOps, TreeOnlyStep DEF TypeOK, TreeOK, TreeType
<1> QED
  BY <1>1, <1>2 DEF path_remove_directory

(* path_unlink_file.                                                          *)
LEMMA UnlinkStep ==
  ASSUME TypeOK, NEW fd \in Fd, NEW arg \in PathArgs, path_unlink_file(fd, arg)
  PROVE  TypeOK' /\ SameObjects
<1> DEFINE found == dir_of(fd, {"PATH_UNLINK_FILE"})
           p == resolve_path(At(fd), arg)
           result == IF IsDir(tree, p.comps) THEN "ISDIR"
                     ELSE IF p.slash THEN "NOTDIR" ELSE RemoveError(tree, p.comps)
           error == First(found, result)
           at == [a \in Addr |-> IF heap[a].file.at = p.comps THEN Nowhere ELSE heap[a].file.at]
<1>1. CASE Fail(error)
  <2>1. result \in Errno
    BY LfsErrno DEF Errno
  <2>2. error \in Errno
    BY <2>1, LookupErrno DEF First
  <2> QED
    BY <1>1, <2>2, FailStep
<1>2. CASE /\ tree' = RemoveEntry(tree, p.comps)
           /\ heap' = [a \in Addr |-> IF heap[a].file.at = p.comps
                                      THEN [heap[a] EXCEPT !.file.at = Nowhere] ELSE heap[a]]
           /\ ret' = "SUCCESS" /\ UnchangedTable
  <2>1. \A a \in Addr : heap[a] \in FileDescriptor
    BY DEF TypeOK, HeapOK
  <2>2. at \in [Addr -> Path]
    BY <2>1, EmptySeq DEF FileDescriptor, Handle, Nowhere, Root, Path
  <2>3. \A a \in Addr : heap[a] = [heap[a] EXCEPT !.file.at = heap[a].file.at]
    BY <2>1 DEF FileDescriptor, Handle
  <2>4. heap' = [a \in Addr |-> [heap[a] EXCEPT !.file.at = at[a]]]
    BY <1>2, <2>3
  <2>5. TreeType(tree')
    BY <1>2, TreeOps DEF TypeOK, TreeOK, TreeType
  <2> HIDE DEF at
  <2> QED
    BY <1>2, <2>2, <2>4, <2>5, MovedEntriesStep
<1> QED
  BY <1>1, <1>2 DEF path_unlink_file

(* path_rename.                                                               *)
LEMMA RenameStep ==
  ASSUME TypeOK, NEW old_fd \in Fd, NEW old_arg \in PathArgs, NEW new_fd \in Fd,
         NEW new_arg \in PathArgs, path_rename(old_fd, old_arg, new_fd, new_arg)
  PROVE  TypeOK' /\ SameObjects
<1> DEFINE old == resolve_path(At(old_fd), old_arg)
           new == resolve_path(At(new_fd), new_arg)
           is_old_file == IsReg(tree, old.comps)
           result == RenameError(tree, old.comps, new.comps)
           mapped == IF result = "ISDIR" /\ IsReg(tree, new.comps) THEN "NOTDIR" ELSE result
           old_slash == IF is_old_file /\ old.slash THEN "NOTDIR" ELSE "SUCCESS"
           new_slash == IF is_old_file /\ new.slash THEN "NOTDIR" ELSE "SUCCESS"
           old_dir == dir_of(old_fd, {"PATH_RENAME_SOURCE"})
           new_dir == dir_of(new_fd, {"PATH_RENAME_TARGET"})
           error == First(old_dir, First(old_slash, First(new_dir, First(new_slash, mapped))))
           at == [a \in Addr |-> EntryAfterRename(old.comps, new.comps, heap[a].file.at)]
<1>1. CASE Fail(error)
  <2>1. mapped \in Errno /\ old_slash \in Errno /\ new_slash \in Errno
    BY LfsErrno DEF Errno
  <2>2. old_dir \in Errno /\ new_dir \in Errno
    BY LookupErrno
  <2> HIDE DEF mapped, old_slash, new_slash, old_dir, new_dir
  <2>3. error \in Errno
    BY <2>1, <2>2 DEF First
  <2> QED
    BY <1>1, <2>3, FailStep
<1>2. CASE OutOfSpace
  BY <1>2, ThrowStep
<1>3. CASE /\ error = "SUCCESS"
           /\ tree' = Rename(tree, old.comps, new.comps)
           /\ heap' = [a \in Addr |-> [heap[a] EXCEPT !.file.at =
                                         EntryAfterRename(old.comps, new.comps, @)]]
           /\ ret' = "SUCCESS" /\ UnchangedTable
  <2>1. old_dir = "SUCCESS" /\ new_dir = "SUCCESS"
    <3> HIDE DEF mapped, old_slash, new_slash, old_dir, new_dir
    <3> QED
      BY <1>3 DEF First
  <2>2. old \in PathRec /\ new \in PathRec
    BY <2>1, Found, ResolvePathType
  <2>3. old.comps \in Path /\ new.comps \in Path
    BY <2>2 DEF PathRec
  <2>4. \A a \in Addr : heap[a] \in FileDescriptor
    BY DEF TypeOK, HeapOK
  <2>5. at \in [Addr -> Path]
    BY <2>3, <2>4, EntryAfterRenameType DEF FileDescriptor, Handle
  <2>6. heap' = [a \in Addr |-> [heap[a] EXCEPT !.file.at = at[a]]]
    BY <1>3
  <2>7. TreeType(tree')
    BY <1>3, <2>3, RenameType DEF TypeOK, TreeOK, TreeType
  <2> HIDE DEF at
  <2> QED
    BY <1>3, <2>5, <2>6, <2>7, MovedEntriesStep
<1> QED
  BY <1>1, <1>2, <1>3 DEF path_rename

(* The calls on paths, together.                                              *)
LEMMA PathStep ==
  ASSUME TypeOK, PathCalls
  PROVE  TypeOK' /\ SameObjects
<1>1. FdArgs \subseteq Fd
  BY ArgumentAssumption DEF Fd
<1>2. ASSUME NEW fd \in FdArgs, NEW flags \in TimeFlags, NEW t \in Times,
             fd_filestat_set_times(fd, flags, t)
      PROVE  TypeOK' /\ SameObjects
  BY <1>2, SetTimesStep, FailStep, LookupErrno DEF fd_filestat_set_times
<1>3. ASSUME NEW fd \in FdArgs, NEW arg \in PathArgs, NEW flags \in TimeFlags, NEW t \in Times,
             path_filestat_set_times(fd, arg, flags, t)
      PROVE  TypeOK' /\ SameObjects
  BY <1>3, SetTimesStep, FailStep, LookupErrno DEF path_filestat_set_times
<1>4. ASSUME NEW fd \in FdArgs, NEW arg \in PathArgs,
             path_create_directory(fd, arg) \/ path_remove_directory(fd, arg)
               \/ path_unlink_file(fd, arg)
      PROVE  TypeOK' /\ SameObjects
  BY <1>1, <1>4, MkdirStep, RemoveDirectoryStep, UnlinkStep
<1>5. ASSUME NEW old_fd \in FdArgs, NEW new_fd \in FdArgs, NEW old_arg \in PathArgs,
             NEW new_arg \in PathArgs, path_rename(old_fd, old_arg, new_fd, new_arg)
      PROVE  TypeOK' /\ SameObjects
  BY <1>1, <1>5, RenameStep
<1> QED
  BY <1>2, <1>3, <1>4, <1>5 DEF PathCalls

--------------------------------------------------------------------------------
(* Which number path_open takes.                                              *)

(* A nonempty set of numbers below a bound has a largest member.              *)
LEMMA MaxOfInterval ==
  ASSUME NEW lo \in Int, NEW hi \in Int, NEW S \in SUBSET (lo..hi), S # {}
  PROVE  Max(S) \in S
<1> DEFINE T == {hi - s : s \in S}
<1>1. T \subseteq Nat /\ T # {}
  OBVIOUS
<1>2. PICK x \in T : \A y \in T : ~(<<y, x>> \in OpToRel(<, Nat))
  BY <1>1, WFMin, NatLessThanWellFounded
<1>3. \A y \in T : ~(y < x)
  BY <1>1, <1>2 DEF OpToRel
<1>4. PICK s \in S : x = hi - s
  OBVIOUS
<1>5. \A r \in S : s >= r
  <2> SUFFICES ASSUME NEW r \in S
               PROVE  s >= r
    OBVIOUS
  <2>1. hi - r \in T /\ ~(hi - r < hi - s)
    BY <1>3, <1>4
  <2> QED
    BY <2>1
<1> QED
  BY <1>5 DEF Max

(* Fewer objects than numbers: some number from NPre on is unused.            *)
LEMMA SomeUnused ==
  ASSUME TypeOK, HandlesOwned, NEW a \in Addr, ~Live(a)
  PROVE  Unused(NPre, MaxFd) # {}
<1> SUFFICES ASSUME \A n \in NPre..MaxFd : fds[n] # Free
             PROVE  FALSE
  BY DEF Unused
<1> DEFINE S == NPre..MaxFd
           T == Addr \ {a}
           f == [n \in S |-> fds[n]]
<1>1. S \subseteq Fd /\ NPre \in Nat /\ MaxFd \in Nat /\ MaxDesc \in Nat
      /\ MaxDesc + NPre <= MaxFd + 1 /\ NPre + 3 <= MaxDesc
  BY TableAssumption DEF Fd
<1>2. f \in [S -> T]
  <2> SUFFICES ASSUME NEW n \in S
               PROVE  fds[n] \in T
    OBVIOUS
  <2>1. fds[n] \in Addr
    BY <1>1 DEF TypeOK, TableOK
  <2>2. fds[n] # a
    BY <1>1 DEF HandlesOwned, Referenced
  <2> QED
    BY <2>1, <2>2
<1>3. IsFiniteSet(S) /\ Cardinality(S) = MaxFd - NPre + 1
  BY <1>1, FS_Interval
<1>4. IsFiniteSet(Addr) /\ Cardinality(Addr) = MaxDesc
  BY <1>1, FS_Interval DEF Addr
<1>5. IsFiniteSet(T) /\ Cardinality(T) = MaxDesc - 1
  BY <1>4, FS_RemoveElement
<1>6. \E x, y \in S : x # y /\ f[x] = f[y]
  <2>1. Cardinality(T) < Cardinality(S)
    BY <1>1, <1>3, <1>5
  <2> HIDE DEF S, T, f
  <2> QED
    BY <1>2, <1>3, <1>5, <2>1, FS_PigeonHole
<1> QED
  BY <1>1, <1>6 DEF HandlesOwned, Injective

(* allocate_fd returns an unused number that is no preopen, and next_fd stays *)
(* in its range.                                                              *)
LEMMA AllocateType ==
  ASSUME TypeOK, HandlesOwned, NEW a \in Addr, ~Live(a)
  PROVE  /\ allocate_fd \in NPre..MaxFd /\ fds[allocate_fd] = Free
         /\ NextAfter(allocate_fd) \in NPre..MaxFd
<1>1. NPre \in Nat /\ MaxFd \in Nat /\ next_fd \in NPre..MaxFd /\ NPre <= MaxFd
  BY TableAssumption DEF TypeOK, TableOK
<1>2. \A hi \in NPre..MaxFd : Unused(NPre, hi) # {} => Max(Unused(NPre, hi)) \in Unused(NPre, hi)
  <2> SUFFICES ASSUME NEW hi \in NPre..MaxFd, Unused(NPre, hi) # {}
               PROVE  Max(Unused(NPre, hi)) \in Unused(NPre, hi)
    OBVIOUS
  <2>1. Unused(NPre, hi) \in SUBSET (NPre..hi) /\ hi \in Int /\ NPre \in Int
    BY <1>1 DEF Unused
  <2> QED
    BY <2>1, MaxOfInterval
<1>3. allocate_fd \in Unused(NPre, next_fd) \/ allocate_fd \in Unused(NPre, MaxFd)
  BY <1>1, <1>2, SomeUnused DEF allocate_fd
<1>4. allocate_fd \in NPre..MaxFd /\ fds[allocate_fd] = Free
  BY <1>1, <1>3 DEF Unused
<1>5. NextAfter(allocate_fd) \in NPre..MaxFd
  BY <1>1, <1>4 DEF NextAfter
<1> QED
  BY <1>4, <1>5

--------------------------------------------------------------------------------
(* The inductive invariant.  Ownership alone is not inductive: fd_close frees *)
(* the object of any number that is not a preopen, so the preopens keep theirs *)
(* only because no other number shares an object with them; and an opened     *)
(* object is new only because every object that exists has a number.          *)

IInv == TypeOK /\ HandlesOwned /\ PreopensPinned /\ RequireHolds

(* What the assumptions say of the numbers and addresses of preopens.         *)
LEMMA Constants ==
  /\ NPre \in Nat /\ MaxFd \in Nat /\ TopFd \in Nat /\ MaxDesc \in Nat
  /\ NPre + 3 <= MaxFd /\ MaxFd <= TopFd /\ NPre + 3 <= MaxDesc
  /\ FdArgs \subseteq Fd /\ Free \notin Addr
  /\ \A i \in 1..NPre : i \in Addr /\ i + 2 \in Fd /\ IsPreopen(i + 2)
  BY TableAssumption, ArgumentAssumption DEF Fd, Addr, Free, IsPreopen

(* The calls that keep every object keep the invariant.                       *)
LEMMA SameObjectsInv ==
  ASSUME IInv, SameObjects
  PROVE  HandlesOwned' /\ PreopensPinned' /\ RequireHolds'
<1>1. HandlesOwned'
  BY DEF IInv, HandlesOwned, Injective, Referenced, OpenHandles, Live, SameObjects
<1>2. PreopensPinned'
  BY Constants DEF IInv, PreopensPinned, SameObjects
<1>3. RequireHolds'
  <2> SUFFICES ASSUME NEW a \in Addr, Live(a)', ~heap'[a].stream
               PROVE  /\ heap'[a].base \intersect FdRights # {} => heap'[a].type = "reg"
                      /\ heap'[a].base \intersect PathRights # {} => heap'[a].type = "dir"
                      /\ open_mode(heap'[a].base) \subseteq heap'[a].file.mode
    BY DEF RequireHolds
  <2>1. /\ heap'[a].type = heap[a].type /\ heap'[a].stream = heap[a].stream
        /\ heap'[a].file.mode = heap[a].file.mode /\ heap'[a].base \subseteq heap[a].base
    BY DEF SameObjects
  <2>2. Live(a) /\ ~heap[a].stream
    BY <2>1 DEF Live
  <2>3. open_mode(heap'[a].base) \subseteq open_mode(heap[a].base)
    BY <2>1 DEF open_mode
  <2> QED
    BY <2>1, <2>2, <2>3 DEF IInv, RequireHolds
<1> QED
  BY <1>1, <1>2, <1>3

(* A number that is not a preopen denotes none of the preopened directories.  *)
LEMMA NotPreopened ==
  ASSUME IInv, NEW fd \in Fd, fds[fd] \in Addr, ~IsPreopen(fd)
  PROVE  fds[fd] > NPre
<1> SUFFICES ASSUME fds[fd] <= NPre
             PROVE  FALSE
  BY Constants DEF Addr
<1>1. fds[fd] \in 1..NPre
  BY Constants DEF Addr
<1>2. fds[fds[fd] + 2] = fds[fd] /\ fds[fd] + 2 \in Fd /\ IsPreopen(fds[fd] + 2)
  BY <1>1, Constants DEF IInv, PreopensPinned
<1>3. fd = fds[fd] + 2
  BY <1>2, Constants DEF IInv, HandlesOwned, Injective
<1> QED
  BY <1>2, <1>3

(* A number that fd_close frees is in use and is neither stdio nor a preopen. *)
LEMMA CloseError ==
  ASSUME TypeOK, NEW fd \in Fd, fd_close_error(fd) = "SUCCESS"
  PROVE  /\ ~IsPreopen(fd)
         /\ fd >= 3 => fds[fd] \in Addr /\ ~At(fd).stream
<1>1. fd \in Nat
  BY Constants DEF Fd
<1>2. ~IsPreopen(fd)
  BY DEF fd_close_error, First, require_not_preopen
<1>3. fd >= 3 => lookup_fd(fd, "any", {}, FALSE) = "SUCCESS"
  <2>1. fd >= 3 => ~(fd < 3)
    BY <1>1
  <2> QED
    BY <1>2, <2>1, Zenon DEF fd_close_error, First, require_not_preopen
<1> QED
  BY <1>2, <1>3, Found

(* Closing an object keeps the types.                                         *)
LEMMA ReleaseStep ==
  ASSUME IInv, NEW fd \in Fd, fds[fd] \in Addr, ~At(fd).stream, ~IsPreopen(fd), Release(fd),
         fds' \in [Fd -> Addr \union {Free}], UNCHANGED next_fd, ret' = "SUCCESS"
  PROVE  /\ TypeOK' /\ RequireHolds'
         /\ fds[fd] > NPre
         /\ \A a \in Addr : heap'[a] = IF a = fds[fd] THEN Blank ELSE heap[a]
<1>1. heap \in [Addr -> FileDescriptor] /\ At(fd).file \in Handle
  BY DEF IInv, TypeOK, HeapOK, At, FileDescriptor
<1>2. \A a \in Addr : heap'[a] = IF a = fds[fd] THEN Blank ELSE heap[a]
  BY <1>1 DEF Release
<1>3. HeapOK'
  BY <1>1, BlankType DEF Release, HeapOK
<1>4. TreeOK'
  BY <1>1, TreeOps DEF Release, TreeType, TreeOK, IInv, TypeOK
<1>5. TableOK' /\ ret' \in Errno
  BY DEF IInv, TypeOK, TableOK, Release, Errno
<1>6. RequireHolds'
  <2> SUFFICES ASSUME NEW a \in Addr, Live(a)'
               PROVE  heap'[a] = heap[a] /\ Live(a)
    BY DEF IInv, RequireHolds
  <2> QED
    BY <1>2 DEF Live, Blank
<1> QED
  BY <1>2, <1>3, <1>4, <1>5, <1>6, NotPreopened DEF TypeOK

(* fd_close keeps the invariant.                                              *)
LEMMA CloseStep ==
  ASSUME IInv, NEW fd \in Fd, fd_close(fd)
  PROVE  IInv'
<1>1. CASE Fail(fd_close_error(fd)) \/ Answer("SUCCESS")
  BY <1>1, FailStep, ThrowStep, LookupErrno, SameObjectsInv DEF IInv
<1>2. CASE /\ fd >= 3 /\ fd_close_error(fd) = "SUCCESS"
           /\ Release(fd) /\ fds' = [fds EXCEPT ![fd] = Free]
           /\ ret' = "SUCCESS" /\ UNCHANGED next_fd
  <2>1. fds[fd] \in Addr /\ ~At(fd).stream /\ ~IsPreopen(fd) /\ fds \in [Fd -> Addr \union {Free}]
    BY <1>2, CloseError DEF IInv, TypeOK, TableOK
  <2>2. /\ TypeOK' /\ RequireHolds' /\ fds[fd] > NPre
        /\ \A a \in Addr : heap'[a] = IF a = fds[fd] THEN Blank ELSE heap[a]
    BY <1>2, <2>1, ReleaseStep
  <2>3. \A n \in Fd : fds'[n] = IF n = fd THEN Free ELSE fds[n]
    BY <1>2, <2>1
  <2>4. Injective'
    BY <2>3 DEF IInv, HandlesOwned, Injective
  <2>5. Referenced'
    <3>1. \A a \in Addr : Live(a)' <=> Live(a) /\ a # fds[fd]
      BY <2>2 DEF Live, Blank
    <3>2. \A a \in Addr : (\E n \in Fd : fds'[n] = a) <=> (\E n \in Fd : fds[n] = a) /\ a # fds[fd]
      BY <2>1, <2>3, Constants DEF IInv, HandlesOwned, Injective
    <3> QED
      BY <3>1, <3>2 DEF IInv, HandlesOwned, Referenced
  <2>6. OpenHandles'
    BY <1>2, <2>2 DEF IInv, HandlesOwned, OpenHandles, Release, Live, Blank
  <2>7. PreopensPinned'
    BY <2>1, <2>2, <2>3, Constants DEF IInv, PreopensPinned
  <2> QED
    BY <2>2, <2>4, <2>5, <2>6, <2>7 DEF IInv, HandlesOwned
<1> QED
  BY <1>1, <1>2 DEF fd_close

(* fd_renumber keeps the invariant, onto a free number, one in use, or itself. *)
LEMMA RenumberStep ==
  ASSUME IInv, NEW fd \in Fd, NEW to \in Fd, fd_renumber(fd, to)
  PROVE  IInv'
<1>1. CASE Fail(fd_renumber_error(fd, to)) \/ Answer("THROW")
  BY <1>1, FailStep, ThrowStep, LookupErrno, SameObjectsInv DEF IInv
<1>2. CASE /\ fd_renumber_error(fd, to) = "SUCCESS"
           /\ to >= 3 \/ fds[to] = Free
           /\ IF fds[to] = Free THEN UNCHANGED <<mlist, heap, tree>> ELSE Release(to)
           /\ fds' = [fds EXCEPT ![to] = IF to = fd THEN Free ELSE fds[fd], ![fd] = Free]
           /\ ret' = "SUCCESS" /\ UNCHANGED next_fd
  <2>1. ~IsPreopen(fd) /\ fds[fd] # Free /\ (fds[to] # Free => fd_close_error(to) = "SUCCESS")
    BY <1>2, Zenon DEF fd_renumber_error, First, require_not_preopen
  <2>2. fds \in [Fd -> Addr \union {Free}] /\ fds[fd] \in Addr
    BY <2>1 DEF IInv, TypeOK, TableOK
  <2>3. \A n \in Fd : fds'[n] = IF n = fd THEN Free ELSE IF n = to THEN fds[fd] ELSE fds[n]
    BY <1>2, <2>2
  <2>4. fds' \in [Fd -> Addr \union {Free}]
    BY <1>2, <2>2
  <2>5. Injective'
    BY <2>3 DEF IInv, HandlesOwned, Injective
  <2>6. CASE fds[to] = Free
    <3>1. TypeOK' /\ RequireHolds'
      BY <1>2, <2>4, <2>6 DEF IInv, TypeOK, TableOK, HeapOK, TreeOK, RequireHolds, Live, Errno
    <3>2. \A a \in Addr : (\E n \in Fd : fds'[n] = a) <=> (\E n \in Fd : fds[n] = a)
      BY <2>1, <2>3, <2>6, Constants
    <3>3. Referenced' /\ OpenHandles'
      BY <1>2, <2>6, <3>2 DEF IInv, HandlesOwned, Referenced, OpenHandles, Live
    <3>4. PreopensPinned'
      <4>1. UNCHANGED heap
        BY <1>2, <2>6
      <4>2. \A i \in 1..NPre : i + 2 # fd /\ i + 2 # to
        BY <2>1, <2>6, Constants DEF IInv, PreopensPinned
      <4> QED
        BY <2>3, <4>1, <4>2, Constants DEF IInv, PreopensPinned
    <3> QED
      BY <2>5, <3>1, <3>3, <3>4 DEF IInv, HandlesOwned
  <2>7. CASE fds[to] # Free
    <3>1. to >= 3 /\ fds[to] \in Addr /\ ~At(to).stream /\ ~IsPreopen(to)
      BY <1>2, <2>1, <2>2, <2>7, CloseError DEF IInv
    <3>2. /\ TypeOK' /\ RequireHolds' /\ fds[to] > NPre
          /\ \A a \in Addr : heap'[a] = IF a = fds[to] THEN Blank ELSE heap[a]
      BY <1>2, <2>4, <2>7, <3>1, ReleaseStep
    <3>3. Referenced'
      <4>1. \A a \in Addr : Live(a)' <=> Live(a) /\ a # fds[to]
        BY <3>2 DEF Live, Blank
      <4>2. \A a \in Addr : (\E n \in Fd : fds'[n] = a) <=> (\E n \in Fd : fds[n] = a) /\ a # fds[to]
        BY <2>1, <2>3, <2>7, Constants DEF IInv, HandlesOwned, Injective
      <4> QED
        BY <4>1, <4>2 DEF IInv, HandlesOwned, Referenced
    <3>4. OpenHandles'
      BY <1>2, <2>7, <3>2 DEF IInv, HandlesOwned, OpenHandles, Release, Live, Blank
    <3>5. PreopensPinned'
      BY <2>1, <2>3, <3>1, <3>2, Constants DEF IInv, PreopensPinned
    <3> QED
      BY <2>5, <3>2, <3>3, <3>4, <3>5 DEF IInv, HandlesOwned
  <2> QED
    BY <2>6, <2>7
<1> QED
  BY <1>1, <1>2 DEF fd_renumber

(* The object path_open creates has its type, and rights its file can serve.  *)
LEMMA OpenedType ==
  ASSUME TypeOK, NEW fd \in Fd, NEW arg \in PathArgs, NEW oflags,
         NEW base \in SUBSET Right, NEW inh \in SUBSET Right, NEW append \in BOOLEAN,
         NEW m \in Pointers, open_error(fd, resolve_path(At(fd), arg), oflags) = "SUCCESS"
  PROVE  /\ resolve_path(At(fd), arg).comps \in Path
         /\ opened(At(fd), resolve_path(At(fd), arg), oflags, base, inh, append, m) \in FileDescriptor
<1> DEFINE p == resolve_path(At(fd), arg)
           d == opened(At(fd), p, oflags, base, inh, append, m)
           rights == open_rights(At(fd), oflags, base)
           file == IF "DIRECTORY" \in oflags THEN NoFile
                   ELSE OpenHandle(tree, p, oflags, open_mode(rights))
<1>1. dir_of(fd, open_required_rights(oflags)) = "SUCCESS"
  BY DEF open_error, First
<1>2. At(fd) \in FileDescriptor
  BY <1>1, Found
<1>3. p \in PathRec
  BY <1>2, ResolvePathType
<1>4. p.comps \in Path /\ p.size \in Nat
  BY <1>3 DEF PathRec
<1>5. rights \in SUBSET Right /\ open_mode(rights) \in SUBSET {"r", "w"}
  BY DEF open_rights, open_mode
<1>6. OpenHandle(tree, p, oflags, open_mode(rights)) \in Handle
  <2>1. Exists(tree, p.comps) => tree[p.comps].size \in 0..FileMax
    BY DEF TypeOK, TreeOK, Exists, Node
  <2>2. (IF p.slash THEN Nowhere ELSE p.comps) \in Path
    BY <1>4, EmptySeq DEF Nowhere, Root, Path
  <2> HIDE DEF p, rights
  <2> QED
    BY <1>5, <2>1, <2>2, FileMaxNat DEF OpenHandle, Handle
<1>7. file \in Handle
  BY <1>6, BlankType
<1>8. d = [type |-> open_type(oflags), stream |-> FALSE, base |-> rights, inh |-> inh,
           append |-> append, path |-> [comps |-> p.comps, size |-> p.size], ptr |-> m,
           file |-> file]
  BY DEF opened
<1>9. open_type(oflags) \in {"dir", "reg"}
  BY DEF open_type
<1>10. [comps |-> p.comps, size |-> p.size] \in [comps : Path, size : Nat]
  BY <1>4
<1>11. d \in FileDescriptor
  <2> HIDE DEF p, rights, file
  <2> QED
    BY <1>5, <1>7, <1>8, <1>9, <1>10 DEF FileDescriptor
<1> QED
  BY <1>4, <1>11

(* path_open keeps the invariant.                                             *)
LEMMA OpenStep ==
  ASSUME IInv, NEW fd \in Fd, NEW arg \in PathArgs, NEW oflags \in OpenFlags,
         NEW base \in SUBSET Right, NEW inh \in SUBSET Right, NEW append \in BOOLEAN,
         path_open(fd, arg, oflags, base, inh, append)
  PROVE  IInv'
<1> DEFINE p == resolve_path(At(fd), arg)
           creates == "DIRECTORY" \notin oflags /\ ~Exists(tree, p.comps)
           node == [type |-> "reg", size |-> 0, time |-> DefaultTime]
           new(m) == opened(At(fd), p, oflags, base, inh, append, m)
<1>1. CASE Fail(open_error(fd, p, oflags))
  <2>1. open_error(fd, p, oflags) \in Errno
    BY LookupErrno, LfsErrno DEF open_error, First
  <2> QED
    BY <1>1, <2>1, FailStep, SameObjectsInv DEF IInv
<1>2. CASE OutOfSpace
  BY <1>2, ThrowStep, SameObjectsInv DEF IInv
<1>3. ASSUME open_error(fd, p, oflags) = "SUCCESS",
             NEW a \in Addr, NEW m \in Pointers, heap[a].type = "none",
             heap' = [heap EXCEPT ![a] = new(m)], mlist' = mlist \union {a},
             fds' = [fds EXCEPT ![allocate_fd] = a], next_fd' = NextAfter(allocate_fd),
             tree' = (IF creates THEN PutEntry(tree, p.comps, node) ELSE tree),
             ret' = "SUCCESS"
      PROVE  IInv'
  <2>1. /\ TypeOK /\ HandlesOwned /\ ~Live(a)
        /\ fds \in [Fd -> Addr \union {Free}] /\ heap \in [Addr -> FileDescriptor]
    BY <1>3 DEF IInv, TypeOK, TableOK, HeapOK, Live
  <2>2. /\ allocate_fd \in Fd /\ allocate_fd \in NPre..MaxFd /\ fds[allocate_fd] = Free
        /\ NextAfter(allocate_fd) \in NPre..MaxFd
    BY <2>1, AllocateType, Constants DEF Fd
  <2>3. p.comps \in Path /\ new(m) \in FileDescriptor
    BY <1>3, <2>1, OpenedType
  <2>4. TypeOK'
    <3>1. TreeOK'
      <4>1. node \in Node
        BY ArgumentAssumption, FileMaxNat DEF Node
      <4>2. TreeType(PutEntry(tree, p.comps, node))
        BY <2>1, <2>3, <4>1, TreeOps DEF TypeOK, TreeOK, TreeType
      <4> HIDE DEF p, node, creates
      <4> QED
        BY <1>3, <2>1, <4>2 DEF TypeOK, TreeOK, TreeType
    <3>2. HeapOK'
      <4> HIDE DEF new
      <4> QED
        BY <1>3, <2>1, <2>3 DEF HeapOK
    <3>3. TableOK' /\ ret' \in Errno
      BY <1>3, <2>1, <2>2 DEF TypeOK, TableOK, Errno
    <3> QED
      BY <3>1, <3>2, <3>3 DEF TypeOK
  <2>5. /\ new(m).type \in {"dir", "reg"} /\ ~new(m).stream
        /\ new(m).base \intersect FdRights # {} => new(m).type = "reg"
        /\ new(m).base \intersect PathRights # {} => new(m).type = "dir"
        /\ open_mode(new(m).base) \subseteq new(m).file.mode
    BY DEF opened, open_type, open_rights, open_mode, OpenHandle, FdRights
  <2> HIDE DEF new
  <2>6. \A b \in Addr : heap'[b] = IF b = a THEN new(m) ELSE heap[b]
    BY <1>3, <2>1
  <2>7. \A n \in Fd : fds'[n] = IF n = allocate_fd THEN a ELSE fds[n]
    BY <1>3, <2>1
  <2>8. \A n \in Fd : fds[n] # a
    BY <2>1 DEF HandlesOwned, Referenced
  <2> HIDE DEF p, creates, node
  <2>9. Injective'
    BY <2>1, <2>7, <2>8 DEF HandlesOwned, Injective
  <2>10. Referenced'
    <3>1. \A b \in Addr : Live(b)' <=> Live(b) \/ b = a
      BY <2>5, <2>6 DEF Live
    <3>2. \A b \in Addr : (\E n \in Fd : fds'[n] = b) <=> (\E n \in Fd : fds[n] = b) \/ b = a
      <4> HIDE DEF allocate_fd
      <4> QED
        BY <2>2, <2>7, Constants
    <3> QED
      BY <2>1, <3>1, <3>2 DEF HandlesOwned, Referenced
  <2>11. a > NPre
    <3>1. \A i \in 1..NPre : i # a
      BY <1>3 DEF IInv, PreopensPinned
    <3> QED
      BY <3>1, Constants DEF Addr
  <2>12. OpenHandles'
    BY <1>3, <2>1, <2>5, <2>6, <2>11 DEF HandlesOwned, OpenHandles, Live
  <2>13. PreopensPinned'
    BY <2>2, <2>6, <2>7, <2>11, Constants DEF IInv, PreopensPinned
  <2>14. RequireHolds'
    BY <2>5, <2>6 DEF IInv, RequireHolds, Live
  <2> QED
    BY <2>4, <2>9, <2>10, <2>12, <2>13, <2>14 DEF IInv, HandlesOwned
<1> QED
  BY <1>1, <1>2, <1>3 DEF path_open

(* The initial files and the directories above them form a tree.              *)
LEMMA InitTreeType == TreeType(InitTree)
<1> DEFINE dirs == {Root} \union UNION {{SubSeq(f, 1, i) : i \in 1..Len(f) - 1} : f \in DOMAIN Files}
           node(c) == [type |-> IF c \in DOMAIN Files THEN "reg" ELSE "dir",
                       size |-> IF c \in DOMAIN Files THEN Files[c] ELSE 0,
                       time |-> DefaultTime]
<1>1. \A f \in DOMAIN Files : f \in Seq(Name) /\ Files[f] \in 0..FileMax
  BY PathAssumption DEF Path
<1>2. ASSUME NEW f \in DOMAIN Files, NEW i \in 1..Len(f) - 1
      PROVE  SubSeq(f, 1, i) \in Seq(Name)
  <2>1. f \in Seq(Name) /\ Len(f) \in Nat
    BY <1>1
  <2>2. i \in 1..Len(f)
    BY <2>1
  <2> QED
    BY <2>1, <2>2, SubSeqProperties
<1>3. dirs \union DOMAIN Files \subseteq Path
  <2>1. Root \in Path
    BY EmptySeq DEF Root, Path
  <2> QED
    BY <1>1, <1>2, <2>1 DEF Path
<1>4. \A c : node(c) \in Node
  BY <1>1, FileMaxNat, ArgumentAssumption DEF Node
<1>5. InitTree = [c \in dirs \union DOMAIN Files |-> node(c)]
  BY DEF InitTree
<1> HIDE DEF dirs, node
<1> QED
  BY <1>3, <1>4, <1>5 DEF TreeType

(* The invariant holds after initialize_internal.                             *)
LEMMA InitInv == Init => IInv
<1> SUFFICES ASSUME Init
             PROVE  IInv
  OBVIOUS
<1>1. PICK m \in [1..NPre -> Pointers] : heap = InitHeap(m)
  BY DEF Init
<1> DEFINE d(a) == IF a <= NPre THEN make_preopen_fd(Preopens[a], m[a])
                   ELSE IF a = StreamAddr(0) THEN make_stream_fd({"FD_READ"})
                   ELSE IF a \in {StreamAddr(1), StreamAddr(2)} THEN make_stream_fd({"FD_WRITE"})
                   ELSE Blank
<1>2. \A a \in Addr : heap[a] = d(a)
  BY <1>1 DEF InitHeap
<1>3. \A n \in 0..2 : StreamAddr(n) = NPre + 1 + n /\ StreamAddr(n) \in Addr
  BY Constants DEF StreamAddr, Addr
<1>4. \A n \in Fd : fds[n] = IF n < 3 THEN NPre + 1 + n
                             ELSE IF n <= NPre + 2 THEN n - 2 ELSE Free
  <2>1. \A n \in Fd : fds[n] = IF n < 3 THEN StreamAddr(n)
                               ELSE IF IsPreopen(n) THEN n - 2 ELSE Free
    BY DEF Init, InitFds
  <2>2. \A n \in Fd : n \in Nat
    BY DEF Fd
  <2>3. \A n \in Fd : n >= 3 => (IsPreopen(n) <=> n <= NPre + 2)
    BY <2>2, Constants DEF IsPreopen
  <2> QED
    BY <2>1, <2>2, <2>3 DEF StreamAddr
<1>5. \A a \in 1..NPre :
        /\ a \in Addr /\ heap[a] = make_preopen_fd(Preopens[a], m[a])
        /\ heap[a].type = "dir" /\ heap[a].stream = FALSE /\ heap[a].path = Preopens[a]
  <2> SUFFICES ASSUME NEW a \in 1..NPre
               PROVE  /\ a \in Addr /\ heap[a] = make_preopen_fd(Preopens[a], m[a])
                      /\ heap[a].type = "dir" /\ heap[a].stream = FALSE
                      /\ heap[a].path = Preopens[a]
    OBVIOUS
  <2>1. a \in Addr /\ a <= NPre
    BY Constants
  <2>2. heap[a] = make_preopen_fd(Preopens[a], m[a])
    BY <1>2, <2>1
  <2> QED
    BY <2>1, <2>2 DEF make_preopen_fd, Blank
<1>6. \A a \in NPre + 1..NPre + 3 : a \in Addr /\ heap[a].type = "reg" /\ heap[a].stream = TRUE
  <2> SUFFICES ASSUME NEW a \in NPre + 1..NPre + 3
               PROVE  a \in Addr /\ heap[a].type = "reg" /\ heap[a].stream = TRUE
    OBVIOUS
  <2>1. a \in Addr /\ ~(a <= NPre)
    BY Constants DEF Addr
  <2>2. StreamAddr(0) = NPre + 1 /\ StreamAddr(1) = NPre + 2 /\ StreamAddr(2) = NPre + 3
    BY Constants DEF StreamAddr
  <2>3. \E rights : heap[a] = make_stream_fd(rights)
    BY <1>2, <2>1, <2>2, Constants
  <2> QED
    BY <2>1, <2>3 DEF make_stream_fd, Blank
<1>7. \A a \in Addr : a > NPre + 3 => heap[a] = Blank /\ heap[a].type = "none"
  <2>1. StreamAddr(0) = NPre + 1 /\ StreamAddr(1) = NPre + 2 /\ StreamAddr(2) = NPre + 3
    BY Constants DEF StreamAddr
  <2> SUFFICES ASSUME NEW a \in Addr, a > NPre + 3
               PROVE  heap[a] = Blank /\ heap[a].type = "none"
    OBVIOUS
  <2>2. ~(a <= NPre) /\ a # StreamAddr(0) /\ a \notin {StreamAddr(1), StreamAddr(2)}
    BY <2>1, Constants DEF Addr
  <2>3. heap[a] = Blank
    BY <1>2, <2>2
  <2> QED
    BY <2>3 DEF Blank
<1>8. \A a \in Addr : a \in 1..NPre \/ a \in NPre + 1..NPre + 3 \/ a > NPre + 3
  BY Constants DEF Addr
<1>9. TypeOK
  <2>1. \A a \in 1..NPre : make_preopen_fd(Preopens[a], m[a]) \in FileDescriptor
    <3> SUFFICES ASSUME NEW a \in 1..NPre
                 PROVE  make_preopen_fd(Preopens[a], m[a]) \in FileDescriptor
      OBVIOUS
    <3>1. Preopens[a] \in [comps : Path, size : Nat] /\ m[a] \in Pointers
      BY PathAssumption
    <3> QED
      BY <3>1, BlankType DEF make_preopen_fd, FileDescriptor, Right
  <2>2. \A r \in SUBSET FdRights : make_stream_fd(r) \in FileDescriptor
    BY BlankType DEF make_stream_fd, FileDescriptor, Right
  <2>3. {"FD_READ"} \in SUBSET FdRights /\ {"FD_WRITE"} \in SUBSET FdRights
    BY DEF FdRights
  <2>4. HeapOK
    <3>1. \A a \in Addr : d(a) \in FileDescriptor
      BY <2>1, <2>2, <2>3, BlankType, Constants DEF Addr
    <3> HIDE DEF d
    <3> QED
      BY <1>1, <1>2, <3>1 DEF HeapOK, InitHeap
  <2>5. TableOK
    <3>1. \A n \in Fd : fds[n] \in Addr \union {Free}
      BY <1>4, Constants DEF Fd, Addr
    <3> QED
      BY <3>1, Constants DEF TableOK, Init, InitFds
  <2>6. TreeOK /\ ret \in Errno
    BY InitTreeType DEF Init, TreeType, TreeOK, Errno
  <2> QED
    BY <2>4, <2>5, <2>6 DEF TypeOK
<1>10. HandlesOwned
  <2>1. Injective
    BY <1>4, Constants DEF Injective, Fd, Free
  <2>2. Referenced
    <3> SUFFICES ASSUME NEW a \in Addr
                 PROVE  Live(a) <=> \E n \in Fd : fds[n] = a
      BY DEF Referenced
    <3>1. CASE a \in 1..NPre
      <4>1. a + 2 \in Fd /\ fds[a + 2] = a
        BY <1>4, <3>1, Constants DEF Fd
      <4> QED
        BY <1>5, <3>1, <4>1 DEF Live
    <3>2. CASE a \in NPre + 1..NPre + 3
      <4>1. a - NPre - 1 \in Fd /\ fds[a - NPre - 1] = a
        BY <1>4, <3>2, Constants DEF Fd
      <4> QED
        BY <1>6, <3>2, <4>1 DEF Live
    <3>3. CASE a > NPre + 3
      <4>1. \A n \in Fd : fds[n] # a
        BY <1>4, <3>3, Constants DEF Fd, Free
      <4> QED
        BY <1>7, <3>3, <4>1 DEF Live
    <3> QED
      BY <1>8, <3>1, <3>2, <3>3
  <2>3. OpenHandles
    <3>1. mlist = {}
      BY DEF Init
    <3>2. \A a \in Addr : ~(Live(a) /\ ~heap[a].stream /\ a > NPre)
      BY <1>6, <1>7, <1>8, Constants DEF Live
    <3> QED
      BY <3>1, <3>2 DEF OpenHandles
  <2> QED
    BY <2>1, <2>2, <2>3 DEF HandlesOwned
<1>11. PreopensPinned
  BY <1>4, <1>5, Constants DEF PreopensPinned, Fd
<1>12. RequireHolds
  <2> SUFFICES ASSUME NEW a \in 1..NPre
               PROVE  /\ heap[a].base \intersect FdRights # {} => heap[a].type = "reg"
                      /\ heap[a].base \intersect PathRights # {} => heap[a].type = "dir"
                      /\ open_mode(heap[a].base) \subseteq heap[a].file.mode
    BY <1>6, <1>7, <1>8 DEF RequireHolds, Live
  <2>1. heap[a].base = PathRights /\ heap[a].type = "dir"
    BY <1>5 DEF make_preopen_fd, Blank
  <2>2. PathRights \intersect FdRights = {} /\ open_mode(PathRights) = {}
    BY DEF PathRights, FdRights, open_mode
  <2> QED
    BY <2>1, <2>2
<1> QED
  BY <1>9, <1>10, <1>11, <1>12 DEF IInv

(* Every call keeps the invariant.                                            *)
LEMMA StepInv == IInv /\ [Next]_vars => IInv'
<1> SUFFICES ASSUME IInv, [Next]_vars
             PROVE  IInv'
  OBVIOUS
<1>1. FdArgs \subseteq Fd /\ RightsArgs \subseteq SUBSET Right /\ AppendArgs \subseteq BOOLEAN
  BY Constants, ArgumentAssumption
<1>2. CASE LookCalls \/ FileCalls \/ PathCalls
  BY <1>2, LookStep, FileStep, PathStep, SameObjectsInv DEF IInv
<1>3. CASE TableCalls
  <2>1. ASSUME NEW fd \in FdArgs, NEW append \in AppendArgs, fd_fdstat_set_flags(fd, append)
        PROVE  IInv'
    BY <1>1, <2>1, SetFlagsStep, SameObjectsInv DEF IInv
  <2>2. ASSUME NEW fd \in FdArgs, NEW base \in RightsArgs, NEW inh \in RightsArgs,
               fd_fdstat_set_rights(fd, base, inh)
        PROVE  IInv'
    BY <1>1, <2>2, SetRightsStep, SameObjectsInv DEF IInv
  <2>3. ASSUME NEW fd \in FdArgs, NEW to \in FdArgs, fd_close(fd) \/ fd_renumber(fd, to)
        PROVE  IInv'
    BY <1>1, <2>3, CloseStep, RenumberStep
  <2>4. ASSUME NEW fd \in FdArgs, NEW arg \in PathArgs, NEW oflags \in OpenFlags,
               NEW base \in RightsArgs, NEW inh \in RightsArgs, NEW append \in AppendArgs,
               path_open(fd, arg, oflags, base, inh, append)
        PROVE  IInv'
    BY <1>1, <2>4, OpenStep
  <2> QED
    BY <1>3, <2>1, <2>2, <2>3, <2>4 DEF TableCalls
<1>4. CASE UNCHANGED vars
  BY <1>4 DEF vars, IInv, TypeOK, TableOK, HeapOK, TreeOK, HandlesOwned, Injective, Referenced,
              OpenHandles, PreopensPinned, RequireHolds, Live
<1> QED
  BY <1>2, <1>3, <1>4 DEF Next

(* After any sequence of calls, of any guests, the table is well typed, owns  *)
(* its objects, keeps its preopens, and grants no right that would fail a     *)
(* REQUIRE: the parts of the invariant are proved together because each needs *)
(* the others.                                                                *)
THEOREM Invariance == Spec => []IInv
  BY InitInv, StepInv, PTL DEF Spec

(* Every variable keeps its type, whatever guests call and in any order: no   *)
(* conversion of sizes and offsets in memfs.cc leaves a littlefs position or  *)
(* length outside the 31 bits it has.                                         *)
THEOREM TypeCorrect == Spec => []TypeOK
<1>1. IInv => TypeOK
  BY DEF IInv
<1> QED
  BY <1>1, Invariance, PTL

(* Numbers and descriptor objects correspond one to one, and the open littlefs *)
(* handles are those of the objects guests opened (memfs.cc 172-183, 264-279, *)
(* 431-443, 559-604), for a table of any size.                                *)
THEOREM Ownership == Spec => []HandlesOwned
<1>1. IInv => HandlesOwned
  BY DEF IInv
<1> QED
  BY <1>1, Invariance, PTL

(* The preopened numbers keep denoting the preopened directories, as          *)
(* fd_prestat_get and fd_prestat_dir_name assume (memfs.cc 361-389).          *)
THEOREM PreopensStay == Spec => []PreopensPinned
<1>1. IInv => PreopensPinned
  BY DEF IInv
<1> QED
  BY <1>1, Invariance, PTL

(* No descriptor has a right that would let a call reach file() or dir() of   *)
(* the wrong type, or read and write a file not opened for it                 *)
(* (memfs.cc 109-118, and the LFS_ASSERTs of config.h).                       *)
THEOREM RequiresHold == Spec => []RequireHolds
<1>1. IInv => RequireHolds
  BY DEF IInv
<1> QED
  BY <1>1, Invariance, PTL

--------------------------------------------------------------------------------
(* Action properties.                                                         *)

(* The step formulas of the two action properties.                            *)
RightsShrink ==
  \A a \in Addr : Live(a) /\ Live(a)' =>
    heap'[a].base \subseteq heap[a].base /\ heap'[a].inh \subseteq heap[a].inh

OthersStay == (mlist' \ mlist # {}) => \A n \in Fd : fds[n] # Free => fds'[n] = fds[n]

(* The calls that keep every object satisfy both.                             *)
LEMMA SameObjectsActions == SameObjects => RightsShrink /\ OthersStay
  BY DEF SameObjects, RightsShrink, OthersStay

(* So does the release of an object.                                          *)
LEMMA ReleaseActions ==
  ASSUME IInv, NEW fd, Release(fd)
  PROVE  RightsShrink /\ OthersStay
<1>1. \A a \in Addr : heap'[a] = heap[a] \/ heap'[a].type = "none"
  BY DEF Release, Blank, IInv, TypeOK, HeapOK
<1> QED
  BY <1>1 DEF Release, RightsShrink, OthersStay, Live

(* So does path_open.                                                         *)
LEMMA OpenActions ==
  ASSUME IInv, NEW fd, NEW arg, NEW oflags, NEW base, NEW inh, NEW append,
         path_open(fd, arg, oflags, base, inh, append)
  PROVE  RightsShrink /\ OthersStay
<1>1. CASE UNCHANGED <<heap, mlist>>
  BY <1>1 DEF RightsShrink, OthersStay
<1>2. CASE ~(UNCHANGED <<heap, mlist>>)
  <2>1. PICK a, d : /\ a \in Addr /\ heap[a].type = "none" /\ heap' = [heap EXCEPT ![a] = d]
                    /\ fds' = [fds EXCEPT ![allocate_fd] = a]
    BY <1>2 DEF path_open, Fail, OutOfSpace, Answer, UnchangedTable
  <2>2. heap \in [Addr -> FileDescriptor] /\ fds \in [Fd -> Addr \union {Free}]
    BY DEF IInv, TypeOK, TableOK, HeapOK
  <2>3. RightsShrink
    BY <2>1, <2>2 DEF RightsShrink, Live
  <2>4. fds[allocate_fd] = Free
    BY <2>1, AllocateType DEF IInv, Live
  <2> HIDE DEF allocate_fd
  <2>5. OthersStay
    BY <2>1, <2>2, <2>4 DEF OthersStay
  <2> QED
    BY <2>3, <2>5
<1> QED
  BY <1>1, <1>2

(* So does every call.                                                        *)
LEMMA StepActions == IInv /\ [Next]_vars => RightsShrink /\ OthersStay
<1> SUFFICES ASSUME IInv, [Next]_vars
             PROVE  RightsShrink /\ OthersStay
  OBVIOUS
<1>1. FdArgs \subseteq Fd /\ RightsArgs \subseteq SUBSET Right /\ AppendArgs \subseteq BOOLEAN
  BY Constants, ArgumentAssumption
<1>2. CASE LookCalls \/ FileCalls \/ PathCalls
  BY <1>2, LookStep, FileStep, PathStep, SameObjectsActions DEF IInv
<1>3. CASE TableCalls
  <2>1. ASSUME NEW fd \in FdArgs, NEW append \in AppendArgs, fd_fdstat_set_flags(fd, append)
        PROVE  SameObjects
    BY <1>1, <2>1, SetFlagsStep DEF IInv
  <2>2. ASSUME NEW fd \in FdArgs, NEW base \in RightsArgs, NEW inh \in RightsArgs,
               fd_fdstat_set_rights(fd, base, inh)
        PROVE  SameObjects
    BY <1>1, <2>2, SetRightsStep DEF IInv
  <2>3. ASSUME NEW fd \in FdArgs, NEW to \in FdArgs, fd_close(fd) \/ fd_renumber(fd, to)
        PROVE  UNCHANGED <<heap, mlist>> \/ Release(fd) \/ Release(to)
    BY <2>3 DEF fd_close, fd_renumber, Fail, Answer, UnchangedTable
  <2>4. UNCHANGED <<heap, mlist>> => RightsShrink /\ OthersStay
    BY DEF RightsShrink, OthersStay
  <2> QED
    BY <1>3, <2>1, <2>2, <2>3, <2>4, SameObjectsActions, ReleaseActions, OpenActions DEF TableCalls
<1>4. CASE UNCHANGED vars
  BY <1>4 DEF vars, RightsShrink, OthersStay
<1> QED
  BY <1>2, <1>3, <1>4 DEF Next

(* No call of any guest gives a descriptor a right it had lost or never had   *)
(* (memfs.cc 298-314).                                                        *)
THEOREM RightsStayShrunk == Spec => RightsNeverGrow
<1>1. IInv /\ [Next]_vars => [RightsShrink]_vars
  BY StepActions
<1> QED
  BY <1>1, Invariance, PTL DEF Spec, RightsNeverGrow, RightsShrink

(* path_open never takes a number that is in use: allocate_fd finds an unused *)
(* one by counting, since there are fewer objects than numbers                *)
(* (memfs.cc 172-183).                                                        *)
THEOREM OpenTakesUnused == Spec => OpenPreservesTable
<1>1. IInv /\ [Next]_vars => [OthersStay]_vars
  BY StepActions
<1> QED
  BY <1>1, Invariance, PTL DEF Spec, OpenPreservesTable, OthersStay
================================================================================
