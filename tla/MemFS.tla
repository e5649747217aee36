--------------------------------- MODULE MemFS ---------------------------------
(******************************************************************************)
(* The in-memory file system of wasily, memfs/memfs.cc: the table of file     *)
(* descriptors, their rights, and the WASI calls on files and paths over      *)
(* littlefs (module Lfs).  One action per exported call; ret is the errno the *)
(* last call returned, or "THROW" when a REQUIRE of the code failed: trace()  *)
(* then throws a JavaScript error, which unwinds the guest.                   *)
(*                                                                            *)
(* The calls run one at a time: the module is synchronous WebAssembly, and    *)
(* nothing in it waits.  What interleaves is the calls themselves, in any     *)
(* order a guest (or several activations of one) makes them.                  *)
(******************************************************************************)
EXTENDS Lfs

CONSTANTS
  MaxFd,        \* INT_MAX, where allocate_fd starts and wraps to
  TopFd,        \* bound: the largest number of a descriptor
  FdArgs,       \* the numbers guests pass
  MaxDesc,      \* bound: descriptors that exist at once
  MaxEntries,   \* bound: entries of the tree
  Preopens,     \* the "preopens" of initialize_internal: a sequence of [comps, size]
  Files,        \* its "fs": the initial files, from paths to sizes
  Pointers,     \* what the address of a descriptor's path string looks like in memory
  DefaultTime,  \* the timestamp of an entry without metadata
  PathArgs,     \* the path strings guests pass: [dot, comps, size, slash]
  OpenFlags,    \* the sets of oflags guests pass to path_open
  RightsArgs,   \* the sets of rights guests pass
  AppendArgs,   \* whether guests pass FDFLAGS_APPEND
  Offsets,      \* offsets and sizes guests pass, 64-bit
  IoLens,       \* numbers of bytes guests read or write
  TimeFlags     \* the sets of fstflags guests pass

PathRights ==
  {"PATH_CREATE_DIRECTORY", "PATH_CREATE_FILE", "PATH_LINK_SOURCE", "PATH_LINK_TARGET",
   "PATH_OPEN", "PATH_RENAME_SOURCE", "PATH_RENAME_TARGET", "PATH_FILESTAT_GET",
   "PATH_FILESTAT_SET_SIZE", "PATH_FILESTAT_SET_TIMES", "PATH_SYMLINK",
   "PATH_REMOVE_DIRECTORY", "PATH_UNLINK_FILE"}

FdRights ==
  {"FD_DATASYNC", "FD_READ", "FD_SEEK", "FD_FDSTAT_SET_FLAGS", "FD_SYNC", "FD_TELL",
   "FD_WRITE", "FD_ADVISE", "FD_ALLOCATE", "FD_READDIR", "FD_FILESTAT_GET",
   "FD_FILESTAT_SET_SIZE", "FD_FILESTAT_SET_TIMES"}

Right == PathRights \union FdRights \union {"PATH_READLINK", "POLL_FD_READWRITE"}

Fd == 0..TopFd
Addr == 1..MaxDesc
Free == 0                        \* no descriptor has this address

NPre == Len(Preopens)
IsPreopen(fd) == fd \in 3..NPre + 2

(* An address a of a string in little-endian order: nul is the index of its   *)
(* first zero byte, and name[k] names the string of its first k bytes.        *)
Pointer == [nul : 0..3, name : [1..3 -> Name]]

ASSUME TableAssumption ==
  /\ MaxFd \in Nat /\ TopFd \in Nat /\ MaxDesc \in Nat
  /\ MaxFd <= TopFd
  /\ NPre \in Nat /\ NPre + 3 <= MaxFd /\ NPre + 3 <= MaxDesc
  /\ MaxDesc + NPre <= MaxFd + 1     \* allocate_fd always finds a number
ASSUME ArgumentAssumption ==
  /\ FdArgs \subseteq 0..TopFd
  /\ Pointers \subseteq Pointer /\ Pointers # {}
  /\ DefaultTime \in Times
  /\ RightsArgs \subseteq SUBSET Right
  /\ AppendArgs \subseteq BOOLEAN
  /\ Offsets \subseteq Int /\ IoLens \subseteq Nat \ {0}
ASSUME PathAssumption ==
  /\ \A i \in 1..NPre : Preopens[i] \in [comps : Path, size : Nat]
  /\ PathArgs \subseteq [dot : BOOLEAN, comps : Path, size : Nat, slash : BOOLEAN]
  /\ \A f \in DOMAIN Files : f \in Path \ {Root} /\ Files[f] \in 0..FileMax
  /\ \A f, g \in DOMAIN Files : ~IsStrictPrefix(f, g)

VARIABLES
  fds,      \* the table: from numbers to addresses of descriptors
  heap,     \* the FileDescriptor objects
  mlist,    \* the addresses whose littlefs handle is open
  next_fd,  \* where allocate_fd looks next
  tree,     \* the files and directories
  ret       \* the errno of the last call

vars == <<fds, heap, mlist, next_fd, tree, ret>>

--------------------------------------------------------------------------------
(* Descriptors.                                                               *)

NoFile == [at |-> Nowhere, pos |-> 0, len |-> 0, dirty |-> FALSE, mode |-> {}]
AnyPointer == CHOOSE m \in Pointers : TRUE

FileDescriptor ==
  [type : {"none", "dir", "reg"}, stream : BOOLEAN, base : SUBSET Right, inh : SUBSET Right,
   append : BOOLEAN, path : [comps : Path, size : Nat], ptr : Pointers, file : Handle]

Blank ==   \* no object at this address
  [type |-> "none", stream |-> FALSE, base |-> {}, inh |-> {}, append |-> FALSE,
   path |-> [comps |-> Root, size |-> 0], ptr |-> AnyPointer, file |-> NoFile]

make_preopen_fd(path, m) ==
  [Blank EXCEPT !.type = "dir", !.base = PathRights, !.inh = Right, !.path = path, !.ptr = m]

make_stream_fd(rights) ==
  [Blank EXCEPT !.type = "reg", !.stream = TRUE, !.inh = Right,
                !.base = {"POLL_FD_READWRITE"} \union rights]

StreamAddr(n) == NPre + 1 + n

(* initialize_internal: numbers 0, 1, 2 are streams, 3 .. NPre + 2 preopens.  *)
InitFds == [n \in Fd |-> IF n < 3 THEN StreamAddr(n) ELSE IF IsPreopen(n) THEN n - 2 ELSE Free]

InitHeap(m) ==
  [a \in Addr |-> IF a <= NPre THEN make_preopen_fd(Preopens[a], m[a])
                  ELSE IF a = StreamAddr(0) THEN make_stream_fd({"FD_READ"})
                  ELSE IF a \in {StreamAddr(1), StreamAddr(2)} THEN make_stream_fd({"FD_WRITE"})
                  ELSE Blank]

(* Every initial file is created with the directories above it (mkdirp).      *)
InitTree ==
  LET dirs == {Root} \union UNION {{SubSeq(f, 1, i) : i \in 1..Len(f) - 1} : f \in DOMAIN Files}
  IN  [c \in dirs \union DOMAIN Files |->
         [type |-> IF c \in DOMAIN Files THEN "reg" ELSE "dir",
          size |-> IF c \in DOMAIN Files THEN Files[c] ELSE 0,
          time |-> DefaultTime]]

Init ==
  /\ fds = InitFds
  /\ \E m \in [1..NPre -> Pointers] : heap = InitHeap(m)
  /\ mlist = {}
  /\ next_fd = MaxFd
  /\ tree = InitTree
  /\ ret = "SUCCESS"

--------------------------------------------------------------------------------
(* Lookups of a descriptor, and the returns of a call.                        *)

At(fd) == heap[fds[fd]]

(* type is "any" (0 in the code), "dir" or "reg".                             *)
lookup_fd(fd, type, rights, allow_streams) ==
  IF fds[fd] = Free THEN "BADF"
  ELSE IF At(fd).stream /\ ~allow_streams THEN "NOTSUP"
  ELSE IF type = "reg" /\ At(fd).type # "reg" THEN "BADF"
  ELSE IF type = "dir" /\ At(fd).type # "dir" THEN "NOTDIR"
  ELSE IF ~(rights \subseteq At(fd).base) THEN "NOTCAPABLE"
  ELSE "SUCCESS"

(* A call on the open file of fd: FileDescriptor::file() requires a regular   *)
(* file, and littlefs asserts that the handle was opened for the access.      *)
file_of(fd, right, mode) ==
  LET found == lookup_fd(fd, "any", {right}, FALSE)
  IN  IF found # "SUCCESS" THEN found
      ELSE IF At(fd).type # "reg" \/ ~(mode \subseteq At(fd).file.mode) THEN "THROW"
      ELSE "SUCCESS"

require_not_preopen(fd) == IF IsPreopen(fd) THEN "NOTSUP" ELSE "SUCCESS"

First(e, f) == IF e # "SUCCESS" THEN e ELSE f    \* RETURN_IF_WASI_ERR(e); return f

(* A call returns.  Bound: a run of the model ends with a throw.  The error    *)
(* unwinds the guest that called, and what littlefs leaves half done by then  *)
(* is not modelled.                                                           *)
Return(e) == ret # "THROW" /\ ret' = e

UnchangedTable == UNCHANGED <<fds, mlist, next_fd>>

Answer(e) == Return(e) /\ UnchangedTable /\ UNCHANGED <<heap, tree>>

Fail(e) == e # "SUCCESS" /\ Answer(e)

(* littlefs found no free block (or the file would pass LFS_FILE_MAX):        *)
(* from_lfs_error has no errno for it.                                        *)
OutOfSpace == Answer("THROW")

(* The handle of fd becomes h, and what it views is written back if dirty.    *)
SyncedTo(fd, h) ==
  /\ heap' = [heap EXCEPT ![fds[fd]].file = Synced(h)]
  /\ tree' = SyncTree(tree, h)
  /\ Return("SUCCESS")
  /\ UnchangedTable

--------------------------------------------------------------------------------
(* Calls that only look at a descriptor.                                      *)

fd_advise(fd) == Answer(lookup_fd(fd, "any", {"FD_ADVISE"}, FALSE))
fd_datasync(fd) == Answer(lookup_fd(fd, "any", {"FD_DATASYNC"}, FALSE))
fd_sync(fd) == Answer(lookup_fd(fd, "any", {"FD_SYNC"}, FALSE))
fd_fdstat_get(fd) == Answer(lookup_fd(fd, "any", {}, TRUE))

(* The size comes from the path the descriptor was opened with.               *)
fd_filestat_get(fd) ==
  Answer(First(lookup_fd(fd, "any", {"FD_FILESTAT_GET"}, TRUE),
               IF At(fd).stream THEN "SUCCESS" ELSE LookupError(tree, At(fd).path.comps)))

(* Also fd_prestat_dir_name, given the length fd_prestat_get returned.        *)
fd_prestat_get(fd) ==
  Answer(IF fd < 3 THEN "NOTSUP" ELSE IF IsPreopen(fd) THEN "SUCCESS" ELSE "BADF")

(* fd_readdir, path_link, path_readlink and path_symlink.                     *)
not_implemented == Answer("NOSYS")

--------------------------------------------------------------------------------
(* Calls that change a descriptor.                                            *)

fd_fdstat_set_flags(fd, append) ==
  LET found == lookup_fd(fd, "any", {"FD_FDSTAT_SET_FLAGS"}, TRUE)
  IN  \/ Fail(found)
      \/ /\ found = "SUCCESS"
         /\ heap' = [heap EXCEPT ![fds[fd]].append = append]
         /\ Return("SUCCESS")
         /\ UnchangedTable /\ UNCHANGED tree

(* Mutated: only the base rights are compared.                                *)
fd_fdstat_set_rights_BaseOnly(fd, base, inh) ==
  LET found == lookup_fd(fd, "any", {}, TRUE)
      subset == base \subseteq At(fd).base
  IN  \/ Fail(First(found, IF subset THEN "SUCCESS" ELSE "NOTCAPABLE"))
      \/ /\ found = "SUCCESS" /\ subset
         /\ heap' = [heap EXCEPT ![fds[fd]].base = base, ![fds[fd]].inh = inh]
         /\ Return("SUCCESS")
         /\ UnchangedTable /\ UNCHANGED tree

fd_fdstat_set_rights(fd, base, inh) ==
  LET found == lookup_fd(fd, "any", {}, TRUE)
      subset == base \subseteq At(fd).base /\ inh \subseteq At(fd).inh
  IN  \/ Fail(First(found, IF subset THEN "SUCCESS" ELSE "NOTCAPABLE"))
      \/ /\ found = "SUCCESS" /\ subset
         /\ heap' = [heap EXCEPT ![fds[fd]].base = base, ![fds[fd]].inh = inh]
         /\ Return("SUCCESS")
         /\ UnchangedTable /\ UNCHANGED tree

(* The errno of fd_close; 0, 1 and 2 answer SUCCESS and stay in the table.    *)
fd_close_error(fd) ==
  First(require_not_preopen(fd),
        IF fd < 3 THEN "SUCCESS" ELSE lookup_fd(fd, "any", {}, FALSE))

(* Mutated: the object is freed and its littlefs handle left open.            *)
Release_NotClosed(fd) ==
  /\ UNCHANGED <<mlist, tree>>
  /\ heap' = [heap EXCEPT ![fds[fd]] = Blank]

(* lfs_file_close or lfs_dir_close of the object of fd, which is then freed.  *)
Release(fd) ==
  /\ mlist' = mlist \ {fds[fd]}
  /\ heap' = [heap EXCEPT ![fds[fd]] = Blank]
  /\ tree' = SyncTree(tree, At(fd).file)

fd_close(fd) ==
  \/ Fail(fd_close_error(fd))
  \/ fd < 3 /\ Answer("SUCCESS")
  \/ /\ fd >= 3 /\ fd_close_error(fd) = "SUCCESS"
     /\ Release(fd)
     /\ fds' = [fds EXCEPT ![fd] = Free]
     /\ Return("SUCCESS")
     /\ UNCHANGED next_fd

(* Mutated: a preopen can be moved away.                                      *)
fd_renumber_error_MovesPreopen(fd, to) ==
  IF fds[fd] = Free THEN "BADF"
  ELSE IF fds[to] # Free THEN fd_close_error(to)
  ELSE "SUCCESS"

fd_renumber_error(fd, to) ==
  First(require_not_preopen(fd),
        IF fds[fd] = Free THEN "BADF"
        ELSE IF fds[to] # Free THEN fd_close_error(to)
        ELSE "SUCCESS")

(* Onto 0, 1 or 2 in use: fd_close(to) erased nothing, so emplace finds the   *)
(* number taken and the REQUIRE around it fails.  Onto itself: fd_close frees *)
(* the object iter still refers to, which is undefined; the build ends with   *)
(* the number free and the object closed.                                     *)
fd_renumber(fd, to) ==
  \/ Fail(fd_renumber_error(fd, to))
  \/ /\ fd_renumber_error(fd, to) = "SUCCESS"
     /\ to < 3 /\ fds[to] # Free
     /\ Answer("THROW")
  \/ /\ fd_renumber_error(fd, to) = "SUCCESS"
     /\ to >= 3 \/ fds[to] = Free
     /\ IF fds[to] = Free THEN UNCHANGED <<mlist, heap, tree>> ELSE Release(to)
     /\ fds' = [fds EXCEPT ![to] = IF to = fd THEN Free ELSE fds[fd], ![fd] = Free]
     /\ Return("SUCCESS")
     /\ UNCHANGED next_fd

--------------------------------------------------------------------------------
(* Calls on an open file.  n is the total length of the iovecs.               *)

(* Mutated: fd_allocate and fd_filestat_set_size do not sync.                 *)
TruncateFile_Unsynced(fd, size) ==
  /\ "w" \in At(fd).file.mode /\ Low(size) <= FileMax
  /\ heap' = [heap EXCEPT ![fds[fd]].file = AfterTruncate(@, Low(size))]
  /\ Return("SUCCESS")
  /\ UnchangedTable /\ UNCHANGED tree

(* lfs_file_truncate then lfs_file_sync; size is narrowed to 32 bits, and     *)
(* littlefs asserts that the handle can write.                                *)
TruncateFile(fd, size) ==
  LET h == At(fd).file
  IN  \/ "w" \notin h.mode /\ Answer("THROW")
      \/ "w" \in h.mode /\ Low(size) > FileMax /\ Answer("INVAL")
      \/ /\ "w" \in h.mode /\ Low(size) <= FileMax
         /\ SyncedTo(fd, AfterTruncate(h, Low(size)))
      \/ "w" \in h.mode /\ Low(size) \in h.len + 1..FileMax /\ OutOfSpace

fd_allocate(fd, offset, len) ==
  LET found == file_of(fd, "FD_ALLOCATE", {})
      required_size == (offset + len) % (Word * Word)
  IN  \/ Fail(found)
      \/ found = "SUCCESS" /\ At(fd).file.len >= required_size /\ Answer("SUCCESS")
      \/ found = "SUCCESS" /\ At(fd).file.len < required_size /\ TruncateFile(fd, required_size)

fd_filestat_set_size(fd, size) ==
  LET found == file_of(fd, "FD_FILESTAT_SET_SIZE", {})
  IN  \/ Fail(found)
      \/ found = "SUCCESS" /\ TruncateFile(fd, size)

fd_read(fd, n) ==
  LET found == file_of(fd, "FD_READ", {"r"})
  IN  \/ Fail(found)
      \/ found = "SUCCESS" /\ SyncedTo(fd, AfterRead(At(fd).file, n))

(* The position is set, used and set back; an invalid offset changes nothing. *)
fd_pread(fd, n, offset) ==
  LET found == file_of(fd, "FD_READ", {"r"})
      h == At(fd).file
      target == SeekTarget(h, offset, "SET")
  IN  \/ Fail(found)
      \/ found = "SUCCESS" /\ target < 0 /\ Answer("INVAL")
      \/ /\ found = "SUCCESS" /\ target >= 0
         /\ SyncedTo(fd, MovedTo(AfterRead(MovedTo(h, target), n), h.pos))

fd_write(fd, n) ==
  LET found == file_of(fd, "FD_WRITE", {"w"})
      h == At(fd).file
      append == At(fd).append
      written == AfterWrite(h, n, append)
  IN  \/ Fail(found)
      \/ /\ found = "SUCCESS" /\ WriteEnd(h, n, append) <= FileMax
         /\ SyncedTo(fd, IF append THEN MovedTo(written, h.pos) ELSE written)
      \/ found = "SUCCESS" /\ OutOfSpace

fd_pwrite(fd, n, offset) ==
  LET found == file_of(fd, "FD_WRITE", {"w"})
      h == At(fd).file
      target == SeekTarget(h, offset, "SET")
      there == MovedTo(h, target)
  IN  \/ Fail(found)
      \/ found = "SUCCESS" /\ target < 0 /\ Answer("INVAL")
      \/ /\ found = "SUCCESS" /\ target >= 0 /\ WriteEnd(there, n, FALSE) <= FileMax
         /\ SyncedTo(fd, MovedTo(AfterWrite(there, n, FALSE), h.pos))
      \/ found = "SUCCESS" /\ target >= 0 /\ OutOfSpace

fd_seek(fd, offset, whence) ==
  LET required == IF whence = "CUR" /\ offset = 0 THEN {"FD_SEEK", "FD_TELL"} ELSE {"FD_SEEK"}
      found == lookup_fd(fd, "reg", required, TRUE)
      target == SeekTarget(At(fd).file, offset, whence)
      valid == whence \in {"SET", "CUR", "END"} /\ target \in 0..FileMax
  IN  \/ Fail(First(found, IF At(fd).stream THEN "SPIPE" ELSE IF valid THEN "SUCCESS" ELSE "INVAL"))
      \/ /\ found = "SUCCESS" /\ ~At(fd).stream /\ valid
         /\ heap' = [heap EXCEPT ![fds[fd]].file = MovedTo(At(fd).file, target)]
         /\ Return("SUCCESS")
         /\ UnchangedTable /\ UNCHANGED tree

fd_tell(fd) == fd_seek(fd, 0, "CUR")

--------------------------------------------------------------------------------
(* Calls on paths.                                                            *)

(* resolve_path copies the bytes of the iterator a, the address of the        *)
(* directory's path, instead of the path itself (and, past four bytes, what   *)
(* follows a on the stack: its zero bytes end the string before that).  With  *)
(* an empty directory path nothing is copied, and the name resolves from the  *)
(* root.                                                                      *)
resolve_path(dir, arg) ==
  LET n == dir.path.size
      nul == dir.ptr.nul
      junk == IF n = 0 \/ nul = 0 THEN << >> ELSE <<dir.ptr.name[IF n < nul THEN n ELSE nul]>>
  IN  IF n > nul THEN [comps |-> junk, size |-> nul, slash |-> FALSE]
      ELSE IF arg.dot THEN [comps |-> junk, size |-> n, slash |-> FALSE]
      ELSE [comps |-> junk \o arg.comps, size |-> n + 1 + arg.size, slash |-> arg.slash]

HasRoom == Cardinality(DOMAIN tree) < MaxEntries    \* the bound on the tree

dir_of(fd, rights) == lookup_fd(fd, "dir", rights, FALSE)

path_create_directory(fd, arg) ==
  LET found == dir_of(fd, {"PATH_CREATE_DIRECTORY"})
      p == resolve_path(At(fd), arg)
      error == First(found, MkdirError(tree, p))
  IN  \/ Fail(error)
      \/ /\ error = "SUCCESS" /\ HasRoom
         /\ tree' = PutEntry(tree, p.comps, [type |-> "dir", size |-> 0, time |-> DefaultTime])
         /\ Return("SUCCESS")
         /\ UnchangedTable /\ UNCHANGED heap
      \/ error = "SUCCESS" /\ OutOfSpace

path_filestat_get(fd, arg) ==
  Answer(First(dir_of(fd, {"PATH_FILESTAT_GET"}),
               LookupError(tree, resolve_path(At(fd), arg).comps)))

(* One timestamp stands for both; NOW is any value.  The outcome of the       *)
(* attribute write is ignored: a path that names nothing succeeds.            *)
set_file_times(c, flags, t) ==
  \/ {"TIM", "TIM_NOW"} \subseteq flags /\ Answer("INVAL")
  \/ /\ ~({"TIM", "TIM_NOW"} \subseteq flags)
     /\ \/ ~Exists(tree, c) /\ UNCHANGED tree
        \/ /\ Exists(tree, c)
           /\ \E now \in Times :
                tree' = [tree EXCEPT ![c].time = IF "TIM" \in flags THEN t
                                                 ELSE IF "TIM_NOW" \in flags THEN now ELSE @]
     /\ Return("SUCCESS")
     /\ UnchangedTable /\ UNCHANGED heap

fd_filestat_set_times(fd, flags, t) ==
  LET found == lookup_fd(fd, "any", {"FD_FILESTAT_SET_TIMES"}, FALSE)
  IN  \/ Fail(found)
      \/ found = "SUCCESS" /\ set_file_times(At(fd).path.comps, flags, t)

path_filestat_set_times(fd, arg, flags, t) ==
  LET found == dir_of(fd, {"PATH_FILESTAT_SET_TIMES"})
  IN  \/ Fail(found)
      \/ found = "SUCCESS" /\ set_file_times(resolve_path(At(fd), arg).comps, flags, t)

path_remove_directory(fd, arg) ==
  LET found == dir_of(fd, {"PATH_REMOVE_DIRECTORY"})
      c == resolve_path(At(fd), arg).comps
      error == First(found, IF IsReg(tree, c) THEN "NOTDIR" ELSE RemoveError(tree, c))
  IN  \/ Fail(error)
      \/ /\ error = "SUCCESS"
         /\ tree' = RemoveEntry(tree, c)
         /\ Return("SUCCESS")
         /\ UnchangedTable /\ UNCHANGED heap

(* The open files whose entry is c lose it: what they write from now on stays *)
(* in their own view.                                                         *)
path_unlink_file(fd, arg) ==
  LET found == dir_of(fd, {"PATH_UNLINK_FILE"})
      p == resolve_path(At(fd), arg)
      error == First(found, IF IsDir(tree, p.comps) THEN "ISDIR"
                            ELSE IF p.slash THEN "NOTDIR" ELSE RemoveError(tree, p.comps))
  IN  \/ Fail(error)
      \/ /\ error = "SUCCESS"
         /\ tree' = RemoveEntry(tree, p.comps)
         /\ heap' = [a \in Addr |-> IF heap[a].file.at = p.comps
                                    THEN [heap[a] EXCEPT !.file.at = Nowhere] ELSE heap[a]]
         /\ Return("SUCCESS")
         /\ UnchangedTable

(* Open descriptors keep the path they were opened with.                      *)
path_rename(old_fd, old_arg, new_fd, new_arg) ==
  LET old == resolve_path(At(old_fd), old_arg)
      new == resolve_path(At(new_fd), new_arg)
      is_old_file == IsReg(tree, old.comps)
      result == RenameError(tree, old.comps, new.comps)
      error == First(dir_of(old_fd, {"PATH_RENAME_SOURCE"}),
               First(IF is_old_file /\ old.slash THEN "NOTDIR" ELSE "SUCCESS",
               First(dir_of(new_fd, {"PATH_RENAME_TARGET"}),
               First(IF is_old_file /\ new.slash THEN "NOTDIR" ELSE "SUCCESS",
                     IF result = "ISDIR" /\ IsReg(tree, new.comps) THEN "NOTDIR" ELSE result))))
  IN  \/ Fail(error)
      \/ /\ error = "SUCCESS"
         /\ tree' = Rename(tree, old.comps, new.comps)
         /\ heap' = [a \in Addr |-> [heap[a] EXCEPT !.file.at =
                                       EntryAfterRename(old.comps, new.comps, @)]]
         /\ Return("SUCCESS")
         /\ UnchangedTable
      \/ error = "SUCCESS" /\ OutOfSpace

--------------------------------------------------------------------------------
(* Opening.                                                                   *)

(* allocate_fd counts down from INT_MAX, skips the numbers in use, and starts *)
(* again at INT_MAX when it passes preopens.size().                           *)
Unused(lo, hi) == {n \in lo..hi : fds[n] = Free}
(* Mutated: the numbers in use are not skipped.                               *)
allocate_fd_NoSkip == next_fd
allocate_fd ==
  IF Unused(NPre, next_fd) # {} THEN Max(Unused(NPre, next_fd)) ELSE Max(Unused(NPre, MaxFd))
(* Mutated: the wrap to INT_MAX is missing.                                   *)
NextAfter_NoWrap(fd) == fd - 1
NextAfter(fd) == IF fd - 1 < NPre THEN MaxFd ELSE fd - 1

open_required_rights(oflags) ==
  {"PATH_OPEN"}
    \union (IF "CREAT" \in oflags THEN {"PATH_CREATE_FILE"} ELSE {})
    \union (IF "TRUNC" \in oflags THEN {"PATH_FILESTAT_SET_SIZE"} ELSE {})

open_type(oflags) == IF "DIRECTORY" \in oflags THEN "dir" ELSE "reg"

(* Mutated: the rights that make no sense for the type stay.                  *)
open_rights_Unmasked(dir, oflags, base) == base \intersect dir.inh

(* Mutated: what the directory hands on is not asked.                         *)
open_rights_AsAsked(dir, oflags, base) ==
  base \ (IF "DIRECTORY" \in oflags THEN FdRights ELSE PathRights)

(* What is asked for, as far as the directory hands it on, without the rights *)
(* that make no sense for the type.                                           *)
open_rights(dir, oflags, base) ==
  (base \intersect dir.inh) \ (IF "DIRECTORY" \in oflags THEN FdRights ELSE PathRights)

(* to_lfs_open_flags: the accesses littlefs grants follow from the rights.    *)
open_mode(rights) ==
  (IF "FD_READ" \in rights THEN {"r"} ELSE {}) \union (IF "FD_WRITE" \in rights THEN {"w"} ELSE {})

open_error(fd, p, oflags) ==
  First(dir_of(fd, open_required_rights(oflags)),
        IF "DIRECTORY" \in oflags THEN DirOpenError(tree, p) ELSE FileOpenError(tree, p, oflags))

opened(dir, p, oflags, base, inh, append, m) ==
  LET rights == open_rights(dir, oflags, base)
  IN  [type |-> open_type(oflags), stream |-> FALSE, base |-> rights, inh |-> inh,
       append |-> append, path |-> [comps |-> p.comps, size |-> p.size], ptr |-> m,
       file |-> IF "DIRECTORY" \in oflags THEN NoFile
                ELSE OpenHandle(tree, p, oflags, open_mode(rights))]

path_open(fd, arg, oflags, base, inh, append) ==
  LET p == resolve_path(At(fd), arg)
      creates == "DIRECTORY" \notin oflags /\ ~Exists(tree, p.comps)
  IN  \/ Fail(open_error(fd, p, oflags))
      \/ /\ open_error(fd, p, oflags) = "SUCCESS" /\ (creates => HasRoom)
         /\ \E a \in Addr, m \in Pointers :
              /\ heap[a].type = "none"
              /\ \A b \in Addr : heap[b].type = "none" => a <= b   \* any free address will do
              /\ heap' = [heap EXCEPT ![a] = opened(At(fd), p, oflags, base, inh, append, m)]
              /\ mlist' = mlist \union {a}
              /\ fds' = [fds EXCEPT ![allocate_fd] = a]
         /\ next_fd' = NextAfter(allocate_fd)
         /\ tree' = IF creates
                    THEN PutEntry(tree, p.comps, [type |-> "reg", size |-> 0, time |-> DefaultTime])
                    ELSE tree
         /\ Return("SUCCESS")
      \/ open_error(fd, p, oflags) = "SUCCESS" /\ creates /\ OutOfSpace

--------------------------------------------------------------------------------
(* Any call, at any time, with any arguments.                                 *)

LookCalls ==
  \/ not_implemented
  \/ \E fd \in FdArgs : fd_advise(fd)
  \/ \E fd \in FdArgs : fd_datasync(fd)
  \/ \E fd \in FdArgs : fd_sync(fd)
  \/ \E fd \in FdArgs : fd_fdstat_get(fd)
  \/ \E fd \in FdArgs : fd_filestat_get(fd)
  \/ \E fd \in FdArgs : fd_prestat_get(fd)
  \/ \E fd \in FdArgs, arg \in PathArgs : path_filestat_get(fd, arg)

TableCalls ==
  \/ \E fd \in FdArgs, append \in AppendArgs : fd_fdstat_set_flags(fd, append)
  \/ \E fd \in FdArgs, base, inh \in RightsArgs : fd_fdstat_set_rights(fd, base, inh)
  \/ \E fd \in FdArgs : fd_close(fd)
  \/ \E fd, to \in FdArgs : fd_renumber(fd, to)
  \/ \E fd \in FdArgs, arg \in PathArgs, oflags \in OpenFlags, base, inh \in RightsArgs,
        append \in AppendArgs : path_open(fd, arg, oflags, base, inh, append)

FileCalls ==
  \/ \E fd \in FdArgs, offset, len \in Offsets : fd_allocate(fd, offset, len)
  \/ \E fd \in FdArgs, size \in Offsets : fd_filestat_set_size(fd, size)
  \/ \E fd \in FdArgs, n \in IoLens : fd_read(fd, n)
  \/ \E fd \in FdArgs, n \in IoLens, offset \in Offsets : fd_pread(fd, n, offset)
  \/ \E fd \in FdArgs, n \in IoLens : fd_write(fd, n)
  \/ \E fd \in FdArgs, n \in IoLens, offset \in Offsets : fd_pwrite(fd, n, offset)
  \/ \E fd \in FdArgs, offset \in Offsets, whence \in {"SET", "CUR", "END", "OTHER"} :
       fd_seek(fd, offset, whence)
  \/ \E fd \in FdArgs : fd_tell(fd)

PathCalls ==
  \/ \E fd \in FdArgs, flags \in TimeFlags, t \in Times : fd_filestat_set_times(fd, flags, t)
  \/ \E fd \in FdArgs, arg \in PathArgs, flags \in TimeFlags, t \in Times :
       path_filestat_set_times(fd, arg, flags, t)
  \/ \E fd \in FdArgs, arg \in PathArgs : path_create_directory(fd, arg)
  \/ \E fd \in FdArgs, arg \in PathArgs : path_remove_directory(fd, arg)
  \/ \E fd \in FdArgs, arg \in PathArgs : path_unlink_file(fd, arg)
  \/ \E old_fd, new_fd \in FdArgs, old_arg, new_arg \in PathArgs :
       path_rename(old_fd, old_arg, new_fd, new_arg)

Next == LookCalls \/ TableCalls \/ FileCalls \/ PathCalls

Spec == Init /\ [][Next]_vars

--------------------------------------------------------------------------------
(* Properties.                                                                *)

Errno ==
  {"SUCCESS", "BADF", "EXIST", "INVAL", "ISDIR", "NOENT", "NOSYS", "NOTCAPABLE", "NOTDIR",
   "NOTEMPTY", "NOTSUP", "SPIPE", "THROW"}

TableOK == fds \in [Fd -> Addr \union {Free}] /\ mlist \subseteq Addr /\ next_fd \in NPre..MaxFd
HeapOK == heap \in [Addr -> FileDescriptor]
TreeOK == DOMAIN tree \subseteq Path /\ tree \in [DOMAIN tree -> Node]

(* The type of every variable.                                                *)
TypeOK == TableOK /\ HeapOK /\ TreeOK /\ ret \in Errno

Live(a) == heap[a].type # "none"

(* memfs.cc 152-183, 264-279, 431-443: two numbers never share a descriptor   *)
(* object, no object is left without a number, and the littlefs handles that  *)
(* are open are exactly those of the objects guests opened.  A violation is a *)
(* handle leaked, closed twice, or used after it was closed.                  *)
Injective == \A m, n \in Fd : fds[m] # Free /\ fds[m] = fds[n] => m = n
Referenced == \A a \in Addr : Live(a) <=> \E n \in Fd : fds[n] = a
OpenHandles == \A a \in Addr : a \in mlist <=> Live(a) /\ ~heap[a].stream /\ a > NPre
HandlesOwned == Injective /\ Referenced /\ OpenHandles

(* memfs.cc 109-118: the REQUIREs of FileDescriptor::file() and ::dir() never *)
(* fail on a descriptor whose rights let a call reach them, and the accesses  *)
(* littlefs asserts on a read or a write were granted when it was opened.     *)
RequireHolds ==
  \A a \in Addr : Live(a) /\ ~heap[a].stream =>
    /\ heap[a].base \intersect FdRights # {} => heap[a].type = "reg"
    /\ heap[a].base \intersect PathRights # {} => heap[a].type = "dir"
    /\ open_mode(heap[a].base) \subseteq heap[a].file.mode

(* memfs.cc 375-389 answers fd_prestat_get from the vector of preopens and    *)
(* not from the table: the two agree as long as every preopened number still  *)
(* denotes the directory it was created for, whatever guests close or move.   *)
PreopensPinned ==
  \A i \in 1..NPre : fds[i + 2] = i /\ heap[i].type = "dir" /\ heap[i].path = Preopens[i]

(* An open file that still has an entry has it at a path that names a regular *)
(* file, through every rename and unlink of it or of what is above it.        *)
EntriesAreFiles == \A a \in Addr : heap[a].file.at # Nowhere => IsReg(tree, heap[a].file.at)

(* memfs.cc 251-263, 327-332, 341-360, 390-423, 481-507: each call that       *)
(* changes data writes it back before it returns; all a later close may still *)
(* write back is the truncation of path_open.                                 *)
OnlyTruncationPending ==
  \A a \in Addr : heap[a].file.dirty /\ heap[a].file.at # Nowhere => heap[a].file.len = 0

(* memfs.cc 172-183: path_open takes an unused number and moves no other,     *)
(* wherever next_fd stands after wrapping and whatever was renumbered.        *)
OpenPreservesTable ==
  [][(mlist' \ mlist # {}) => \A n \in Fd : fds[n] # Free => fds'[n] = fds[n]]_vars

(* memfs.cc 298-314: the rights of a descriptor only ever shrink.             *)
RightsNeverGrow ==
  [][\A a \in Addr : Live(a) /\ Live(a)' =>
       heap'[a].base \subseteq heap[a].base /\ heap'[a].inh \subseteq heap[a].inh]_vars

(* memfs.cc 251-263, 327-332, 390-408, 481-507: with one descriptor open at a *)
(* time, every call that changes the file through it leaves the size a path   *)
(* call sees, except for the truncation of path_open, which only shows later. *)
ViewIsFile ==
  \A a \in Addr : LET h == heap[a].file
                  IN  h.at # Nowhere => \/ tree[h.at].size = h.len
                                        \/ h.dirty /\ h.len = 0

(* memfs.cc 172-183, 264-279, 298-314, 431-443, 559-604: behind the objects,  *)
(* the handles and next_fd is a table of numbers that only path_open,         *)
(* fd_close, fd_renumber and fd_fdstat_set_rights change, as FileTable says.  *)
Described(type, stream, base, inh) ==
  [type |-> type, stream |-> stream, base |-> base, inh |-> inh]

NotDescribed == Described("none", FALSE, {}, {})

Descriptor(n) ==
  IF fds[n] = Free THEN NotDescribed
  ELSE Described(At(n).type, At(n).stream, At(n).base, At(n).inh)

InitDescriptor(n) ==
  IF n = 0 THEN Described("reg", TRUE, {"POLL_FD_READWRITE", "FD_READ"}, Right)
  ELSE IF n < 3 THEN Described("reg", TRUE, {"POLL_FD_READWRITE", "FD_WRITE"}, Right)
  ELSE IF IsPreopen(n) THEN Described("dir", FALSE, PathRights, Right)
  ELSE NotDescribed

Table == INSTANCE FileTable WITH
  Pinned <- {n \in Fd : IsPreopen(n)},
  Initial <- [n \in Fd |-> InitDescriptor(n)],
  table <- [n \in Fd |-> Descriptor(n)]

ImplementsTable == Table!Spec

(* memfs.cc 440: REQUIRE(fds.emplace(to, ...).second) never fails.            *)
RenumberNeverThrows == [][\A fd, to \in Fd : fd_renumber(fd, to) => ret' # "THROW"]_vars

(* test/wasmtime-wasi-tests.test.ts 29-32 opens the files given under "/tmp"  *)
(* from the preopened directory "/tmp": a name resolves below its directory.  *)
NamesResolve ==
  \A a \in Addr, arg \in PathArgs : heap[a].type = "dir" =>
    resolve_path(heap[a], arg).comps = heap[a].path.comps \o arg.comps
================================================================================
