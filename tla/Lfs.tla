---------------------------------- MODULE Lfs ----------------------------------
(******************************************************************************)
(* littlefs as memfs/memfs.cc uses it.  The library is not part of the        *)
(* repository (only its build inside memfs/memfs.wasm is), so every           *)
(* definition here is external: it states what the calls of memfs.cc return   *)
(* and change.                                                                *)
(*                                                                            *)
(* A tree maps paths (sequences of names, the root is << >>) to nodes.  File  *)
(* contents are abstracted to their length.  Open files are handles: littlefs *)
(* gives every handle its own view of the file (position and length), written *)
(* back to the tree by a sync when the view is dirty.                         *)
(******************************************************************************)
EXTENDS Integers, SequencesExt

CONSTANTS
  Name,    \* file names
  Word,    \* the number of values of a 32-bit word (2^32 in the program)
  Times    \* timestamps

ASSUME WordAssumption == Word \in Nat /\ Word > 1
ASSUME TimesAssumption == Times # {}

FileMax == Word \div 2 - 1      \* LFS_FILE_MAX, the largest int32

Root == << >>
Nowhere == Root                 \* the entry of an orphaned handle: no file is the root

Path == Seq(Name)
Node == [type : {"dir", "reg"}, size : 0..FileMax, time : Times]
Handle == [at : Path, pos : 0..FileMax, len : 0..FileMax, dirty : BOOLEAN,
           mode : SUBSET {"r", "w"}]

(* The low word of an integer, and that word read as a signed one: the        *)
(* conversions of 64-bit WASI sizes and offsets to lfs_off_t and lfs_soff_t.  *)
Low(n) == n % Word
Signed(n) == IF Low(n) > FileMax THEN Low(n) - Word ELSE Low(n)

--------------------------------------------------------------------------------
(* Lookups and their errors.                                                  *)

Exists(T, c) == c \in DOMAIN T
IsDir(T, c) == Exists(T, c) /\ T[c].type = "dir"
IsReg(T, c) == Exists(T, c) /\ T[c].type = "reg"
Below(T, c) == {d \in DOMAIN T : IsStrictPrefix(c, d)}

LookupError(T, c) ==
  IF Exists(T, c) THEN "SUCCESS"
  ELSE IF \E i \in 1..Len(c) - 1 : IsReg(T, SubSeq(c, 1, i)) THEN "NOTDIR"
  ELSE "NOENT"

(* A path p is [comps, size, slash]: its names, the length of the string, and *)
(* whether the string ends in '/'.                                            *)
CreateError(T, p) ==
  IF ~IsDir(T, Front(p.comps)) THEN LookupError(T, p.comps)
  ELSE IF p.slash THEN "NOENT"
  ELSE "SUCCESS"

MkdirError(T, p) == IF Exists(T, p.comps) THEN "EXIST" ELSE CreateError(T, p)

DirOpenError(T, p) == IF IsReg(T, p.comps) THEN "NOTDIR" ELSE LookupError(T, p.comps)

FileOpenError(T, p, flags) ==
  IF Exists(T, p.comps)
  THEN IF "EXCL" \in flags THEN "EXIST"
       ELSE IF IsDir(T, p.comps) THEN "ISDIR"
       ELSE IF p.slash /\ "TRUNC" \notin flags THEN "NOENT"
       ELSE "SUCCESS"
  ELSE IF "CREAT" \in flags THEN CreateError(T, p)
  ELSE LookupError(T, p.comps)

RemoveError(T, c) ==
  IF ~Exists(T, c) THEN LookupError(T, c)
  ELSE IF c = Root THEN "INVAL"
  ELSE IF Below(T, c) # {} THEN "NOTEMPTY"
  ELSE "SUCCESS"

RenameError(T, o, n) ==
  IF ~Exists(T, o) THEN LookupError(T, o)
  ELSE IF o = Root \/ n = Root THEN "INVAL"
  ELSE IF ~Exists(T, n) THEN (IF IsDir(T, Front(n)) THEN "SUCCESS" ELSE LookupError(T, n))
  ELSE IF T[o].type # T[n].type THEN "ISDIR"
  ELSE IF o # n /\ Below(T, n) # {} THEN "NOTEMPTY"
  ELSE "SUCCESS"

--------------------------------------------------------------------------------
(* Changes of the tree.                                                       *)

PutEntry(T, c, node) == [d \in DOMAIN T \union {c} |-> IF d = c THEN node ELSE T[d]]
RemoveEntry(T, c) == Restrict(T, DOMAIN T \ {c})

Rebase(o, n, c) == n \o SubSeq(c, Len(o) + 1, Len(c))

(* What was below o is below n.  A directory renamed to a place below itself  *)
(* is accepted, and is no longer reachable from the root.                     *)
Rename(T, o, n) ==
  LET stay == {c \in DOMAIN T : ~IsPrefix(o, c) /\ c # n}
      move == {c \in DOMAIN T : IsPrefix(o, c) /\ ~IsPrefix(o, n)}
  IN  IF o = n THEN T
      ELSE [c \in stay \union {Rebase(o, n, d) : d \in move} |->
              IF c \in stay THEN T[c] ELSE T[CHOOSE d \in move : Rebase(o, n, d) = c]]

(* Mutated: the files below a renamed directory are not followed.             *)
EntryAfterRename_NotFollowed(o, n, c) == IF o # n /\ c \in {o, n} THEN Nowhere ELSE c

(* The entry of an open file after a rename: the renamed file itself and the  *)
(* file it replaces lose their handles, files below a renamed directory move. *)
EntryAfterRename(o, n, c) ==
  IF o = n \/ (~IsPrefix(o, c) /\ c # n) THEN c
  ELSE IF c \in {o, n} \/ IsPrefix(o, n) THEN Nowhere
  ELSE Rebase(o, n, c)

--------------------------------------------------------------------------------
(* Changes of a handle.                                                       *)

OpenHandle(T, p, flags, mode) ==
  LET fresh == ~Exists(T, p.comps) \/ "TRUNC" \in flags
  IN  [at    |-> IF p.slash THEN Nowhere ELSE p.comps,
       pos   |-> 0,
       len   |-> IF fresh THEN 0 ELSE T[p.comps].size,
       dirty |-> "TRUNC" \in flags /\ Exists(T, p.comps),
       mode  |-> mode]

SeekTarget(h, offset, whence) ==
  Signed(offset) + (IF whence = "SET" THEN 0 ELSE IF whence = "CUR" THEN h.pos ELSE h.len)

MovedTo(h, pos) == [h EXCEPT !.pos = pos]

AfterRead(h, n) ==
  IF h.pos >= h.len THEN h
  ELSE [h EXCEPT !.pos = IF h.pos + n < h.len THEN h.pos + n ELSE h.len]

(* LFS_O_APPEND moves a write to the end of the view, never back to it.       *)
WriteEnd(h, n, append) == n + (IF append /\ h.pos < h.len THEN h.len ELSE h.pos)

AfterWrite(h, n, append) ==
  LET end == WriteEnd(h, n, append)
  IN  [h EXCEPT !.pos = end, !.len = IF end > h.len THEN end ELSE h.len, !.dirty = TRUE]

AfterTruncate(h, size) == [h EXCEPT !.len = size, !.dirty = h.dirty \/ size # h.len]

Synced(h) == IF h.at = Nowhere THEN h ELSE [h EXCEPT !.dirty = FALSE]
SyncTree(T, h) ==
  IF h.dirty /\ h.at # Nowhere THEN [T EXCEPT ![h.at].size = h.len] ELSE T
================================================================================
