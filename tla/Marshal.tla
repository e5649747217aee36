------------------------------- MODULE Marshal --------------------------------
(******************************************************************************)
(* How a call's data gets from the guest's memory to the code that serves it  *)
(* and back.                                                                  *)
(*                                                                            *)
(* The calls memfs.cc exports work on copies in the CallFrame of the call     *)
(* (memfs/util.h, util.cc), made and written back by the host functions       *)
(* copy_in and copy_out of memfs/index.ts: one action per span copied in, one *)
(* for what the call stores, one per MutableView written back.  A thrown      *)
(* error unwinds memfs without running destructors: nothing is written back,  *)
(* and the stack pointer of memfs stays where it was.  The other calls of     *)
(* Imports/Wasi.ts write into the guest's memory themselves, as they go.      *)
(*                                                                            *)
(* An address counts cells; a cell holds a byte or a 32-bit word, and an      *)
(* iovec is two cells.  A call runs to its end before the guest goes on.      *)
(******************************************************************************)
EXTENDS SequencesExt, Integers

CONSTANTS
  Word,       \* 2^32
  GuestSize,  \* cells of the guest's memory
  FrameSize,  \* cells of a tmp_buffer
  Stack,      \* where the first CallFrame is in the memory of memfs
  Frames,     \* how many CallFrames the stack of memfs has room for
  Memories,   \* what the guest's memory may hold at first
  FileData,   \* what a file holds, from the position of the descriptor on
  DirSize,    \* the length of the path of a directory
  Args,       \* the arguments: each [chars, bytes], its length and its UTF-8 bytes
  Env,        \* the variables, as "key=value", likewise
  Result,     \* what a call stores besides: a time, a size, a number, random bytes
  Quota,      \* the most bytes crypto.getRandomValues fills
  Pointers,   \* the addresses guests pass
  Sizes,      \* the sizes guests pass
  Counts,     \* how many iovecs guests pass
  MaxCalls    \* bound: calls of a run

Cell == 0..Word - 1
Nul == 0
Junk == Word       \* what nobody stored in a frame
Guest == 0..GuestSize - 1
Slot == 0..FrameSize - 1

Value == [chars : Nat, bytes : Seq(Cell)]

encode(v) == Append(v.bytes, Nul)

(* Mutated: the length of the string, not of its encoding.                    *)
encoded_size_Chars(v) == v.chars + 1
encoded_size(v) == Len(encode(v))

size_of(values) == FoldLeft(LAMBDA n, v : n + encoded_size(v), 0, values)

ASSUME SizeAssumption ==
  /\ Word \in Nat /\ GuestSize \in Nat /\ FrameSize \in Nat
  /\ Frames \in Nat /\ DirSize \in Nat /\ Quota \in Nat /\ MaxCalls \in Nat
  /\ Stack \in Nat /\ 2 * GuestSize <= Word /\ DirSize + 2 * FrameSize + 2 < Word
ASSUME DataAssumption ==
  /\ Memories \subseteq [Guest -> Cell]
  /\ FileData \in Seq(Cell) /\ Result \in Cell
  /\ Args \in Seq(Value) /\ Env \in Seq(Value)
  /\ \A values \in {Args, Env} : Len(values) \in Cell /\ size_of(values) \in Cell
ASSUME InputAssumption ==
  Pointers \subseteq Cell /\ Sizes \subseteq Cell /\ Counts \subseteq Cell

VARIABLES
  given,   \* whether the memory setter gave MemFS and Wasi the guest's memory
  guest,   \* the guest's memory
  lost,    \* frames of memfs's stack that thrown errors left behind
  pc,      \* where the call is: idle, refer, body, out or fill
  kind,    \* which call it is
  todo,    \* refer: the parts to allocate; fill: the values to store
  frame,   \* its CallFrame: offset, the cells of tmp_buffer, the spans allocated
  cursor,  \* out: views not yet written back; fill: where to store next
  ret,     \* what the last call returned, or why it threw
  before,  \* history: the guest's memory when the call began
  calls    \* bound: calls made

vars == <<given, guest, lost, pc, kind, todo, frame, cursor, ret, before, calls>>

(* A RangeError unless these cells are cells of the guest's memory: addresses *)
(* and sizes from Word / 2 on are negative in JavaScript.                     *)
InGuest(addr, count) == addr + count <= GuestSize

(* The cells of the guest's memory from addr on become data.                  *)
Store(mem, addr, data) ==
  [c \in Guest |-> IF c \in addr..addr + Len(data) - 1 THEN data[c - addr + 1] ELSE mem[c]]

--------------------------------------------------------------------------------
(* Entering a framed call.                                                    *)

(* A part of the frame: a MutableView, a copy (ref_array, ref_string), an     *)
(* array of iovecs whose buffers become views or copies, or what resolve_path *)
(* allocates.                                                                 *)
Part(addr, count, of) == [addr |-> addr, count |-> count, of |-> of]
MutableView(addr, count) == Part(addr, count, "view")
ref_string(addr, size) == Part(addr, size, "copy")
resolved_path(size) == Part(0, DirSize + size + 2, "path")
external_iovs(addr, count) == Part(addr, (2 * count) % Word, "iovs")
external_ciovs(addr, count) == Part(addr, (2 * count) % Word, "ciovs")

(* The size of an array of iovecs is an unsigned int, and may wrap; what is   *)
(* copied, and where a loop over it ends, follow from it, not from the count. *)
Wraps(count) == 2 * count >= Word

EmptyFrame == [spans |-> <<>>, offset |-> 0, cells |-> [c \in Slot |-> Junk]]

Started(k) ==
  /\ pc = "idle" /\ calls < MaxCalls /\ calls' = calls + 1
  /\ kind' = k /\ before' = guest

(* A frame that a thrown error left behind is not given back: below it there  *)
(* is no room for another, its address is negative, and copy_in throws.       *)
Enter(k, parts) ==
  /\ Started(k)
  /\ todo' = parts /\ frame' = EmptyFrame
  /\ \/ lost < Frames /\ pc' = "refer" /\ UNCHANGED <<lost, ret>>
     \/ lost >= Frames /\ pc' = "idle" /\ ret' = "NoFrame" /\ lost' = lost + 1
  /\ UNCHANGED <<given, guest, cursor>>

(* fd_fdstat_get, fd_filestat_get, fd_prestat_get, fd_seek and fd_tell.       *)
result_call(addr) == Enter("result", <<MutableView(addr, 1)>>)

fd_prestat_dir_name(addr, size) == Enter("name", <<MutableView(addr, size)>>)

(* fd_read and fd_pread; fd_write and fd_pwrite.                              *)
fd_read(iovs, count, addr) ==
  Enter(IF Wraps(count) THEN "unreserved" ELSE "read",
        <<MutableView(addr, 1), external_iovs(iovs, count)>>)
fd_write(iovs, count, addr) ==
  Enter(IF Wraps(count) THEN "overrun" ELSE "write",
        <<MutableView(addr, 1), external_ciovs(iovs, count)>>)

(* fd_readdir and path_readlink are not implemented, but copy in and out.     *)
fd_readdir(addr, size, addr2) ==
  Enter("unserved", <<MutableView(addr, size), MutableView(addr2, 1)>>)
path_readlink(path, size, addr, addr2) ==
  Enter("unserved", <<MutableView(addr, size), MutableView(addr2, 1), ref_string(path, size)>>)

(* path_create_directory, _filestat_set_times, _remove_directory and          *)
(* _unlink_file; path_filestat_get and path_open, which also have a result.   *)
path_call(path, size) == Enter("path", <<ref_string(path, size), resolved_path(size)>>)
path_result_call(path, size, addr) ==
  Enter("result", <<MutableView(addr, 1), ref_string(path, size), resolved_path(size)>>)

path_rename(path, path2, size) ==
  Enter("path", <<ref_string(path, size), ref_string(path2, size),
                  resolved_path(size), resolved_path(size)>>)

(* path_link and path_symlink.                                                *)
two_paths_call(path, path2, size) ==
  Enter("unserved", <<ref_string(path, size), ref_string(path2, size)>>)

--------------------------------------------------------------------------------
(* In a framed call.                                                          *)

(* An error is thrown: no destructor runs, and the frame stays on the stack.  *)
Throw(why) ==
  /\ ret' = why /\ pc' = "idle" /\ lost' = lost + 1
  /\ UNCHANGED <<given, guest, kind, todo, frame, cursor, before, calls>>

(* Mutated: the offset is set, not advanced.                                  *)
alloc_Set(count) == count % Word

(* CallFrame::alloc: tmp_offset is an int, and is compared as unsigned.       *)
alloc(count) == (frame.offset + count) % Word

(* Mutated: the REQUIRE is missing.                                           *)
Fits_Always(count) == TRUE
Fits(count) == alloc(count) <= FrameSize

copy_in(addr, at, count) ==
  [c \in Slot |-> IF c \in at..at + count - 1 THEN guest[addr + c - at] ELSE frame.cells[c]]

(* The frame with the span of part h; a path is stored without a copy.        *)
Allocated(h, cells) ==
  [spans |-> Append(frame.spans,
                    [addr |-> h.addr, count |-> h.count, of |-> h.of, at |-> frame.offset]),
   offset |-> alloc(h.count), cells |-> cells]

(* The buffers of an array of iovecs, as the copy of the array gives them.    *)
Buffers(h, cells) ==
  IF h.of \notin {"iovs", "ciovs"} THEN <<>>
  ELSE [i \in 1..h.count \div 2 |->
          Part(cells[frame.offset + 2 * i - 2], cells[frame.offset + 2 * i - 1],
               IF h.of = "iovs" THEN "view" ELSE "copy")]

(* Where memfs finds a slot of the frame: the stack grows down, and a frame   *)
(* that is lost is still on it.                                               *)
Address(slot) == (Stack - lost * FrameSize + slot) % Word

(* The slot where the copied array has the pointer of the n-th iovec.         *)
IovecSlot(n) == frame.spans[2].at + 2 * (n - 1)

Vectored == {"read", "write", "overrun"}    \* the calls with iovecs

(* Mutated: the pointer of the first iovec is always the one that is stored.  *)
Repointed_First(cells) ==
  IF kind \in Vectored /\ Len(frame.spans) > 1
  THEN [cells EXCEPT ![IovecSlot(1)] = Address(frame.offset)]
  ELSE cells

(* iov.buf = ....data(): the copy of an iovec points to the copy of its       *)
(* buffer, the span that is allocated now.                                    *)
Repointed(cells) ==
  IF kind \in Vectored /\ Len(frame.spans) > 1
  THEN [cells EXCEPT ![IovecSlot(Len(frame.spans) - 1)] = Address(frame.offset)]
  ELSE cells

(* ref_array: a REQUIRE that the frame has room, then copy_in.  After that, a *)
(* read of more iovecs than rw_buffers can reserve room for is aborted.       *)
ref_array ==
  /\ pc = "refer" /\ todo # <<>> /\ Head(todo).of # "path"
  /\ LET h == Head(todo)
         readable == given /\ InGuest(h.addr, h.count)
         reserved == ~(kind = "unreserved" /\ h.of = "iovs")
         cells == copy_in(h.addr, frame.offset, h.count)
     IN  \/ ~Fits(h.count) /\ Throw("REQUIRE")
         \/ Fits(h.count) /\ ~readable /\ Throw("RangeError")
         \/ Fits(h.count) /\ readable /\ ~reserved /\ Throw("abort")
         \/ /\ Fits(h.count) /\ readable /\ reserved
            /\ frame' = Allocated(h, Repointed(cells))
            /\ todo' = Buffers(h, cells) \o Tail(todo)
            /\ UNCHANGED <<given, guest, lost, pc, kind, cursor, ret, before, calls>>

(* The call has its answer, and its views are about to be destroyed.          *)
Answer(e, cells) ==
  /\ ret' = e /\ pc' = "out" /\ cursor' = Len(frame.spans)
  /\ frame' = [frame EXCEPT !.cells = cells]
  /\ UNCHANGED <<given, guest, lost, kind, todo, before, calls>>

(* resolve_path, after a lookup that may fail; what it stores is of no        *)
(* concern to the guest.                                                      *)
resolve_path ==
  /\ pc = "refer" /\ todo # <<>> /\ Head(todo).of = "path"
  /\ LET h == Head(todo)
     IN  \/ Answer("errno", frame.cells)
         \/ ~Fits(h.count) /\ Throw("REQUIRE")
         \/ /\ Fits(h.count)
            /\ frame' = Allocated(h, frame.cells)
            /\ todo' = Tail(todo)
            /\ UNCHANGED <<given, guest, lost, pc, kind, cursor, ret, before, calls>>

(* The slots of the views from the i-th span on, in order.                    *)
SlotsFrom(i) ==
  FlattenSeq([j \in 1..Len(frame.spans) - i + 1 |->
    LET s == frame.spans[j + i - 1]
    IN  IF s.of = "view" THEN [k \in 1..s.count |-> s.at + k - 1] ELSE <<>>])

(* The frame once data has been stored in its slots, one by one.              *)
Filled(cells, slots, data) ==
  [c \in Slot |-> IF \E j \in DOMAIN data : slots[j] = c
                  THEN data[CHOOSE j \in DOMAIN data : slots[j] = c] ELSE cells[c]]

(* What the function behind the export stores, and what it answers.  A write  *)
(* of a count that wraps goes on behind the copied array, where memfs takes   *)
(* any cells for iovecs: it ends like any other, or in a trap, and the number *)
(* of bytes is arbitrary.                                                     *)
serve ==
  /\ pc = "refer" /\ todo = <<>>
  /\ \/ Answer("errno", frame.cells)
     \/ kind # "unserved" /\ Throw("REQUIRE")
     \/ kind = "path" /\ Answer("SUCCESS", frame.cells)
     \/ /\ kind = "result"
        /\ Answer("SUCCESS", Filled(frame.cells, SlotsFrom(1), <<Result>>))
     \/ /\ kind = "name"
        /\ Answer("SUCCESS", Filled(frame.cells, SlotsFrom(1),
                                    [j \in 1..Len(SlotsFrom(1)) |-> Result]))
     \/ /\ kind = "read"
        /\ \E n \in 0..Len(FileData) :
             n <= Len(SlotsFrom(3)) /\
             Answer("SUCCESS", Filled(Filled(frame.cells, SlotsFrom(3), SubSeq(FileData, 1, n)),
                                      SlotsFrom(1), <<n % Word>>))
     \/ /\ kind = "write"
        /\ LET n == frame.offset - 1 - frame.spans[2].count     \* all but out and the array
           IN  Answer("SUCCESS", Filled(frame.cells, SlotsFrom(1), <<n % Word>>))
     \/ /\ kind = "overrun"
        /\ \E n \in Cell : Answer("SUCCESS", Filled(frame.cells, SlotsFrom(1), <<n>>))

(* Mutated: the views are destroyed first to last.                            *)
Next_view_First == Len(frame.spans) - cursor + 1

(* The last one built goes first: the buffers from the end, then out.         *)
Next_view == cursor

(* Mutated: the stack pointer stays where it is.                              *)
LostAfterReturn_Kept == lost + 1
LostAfterReturn == lost

(* Mutated: the addresses are swapped.                                        *)
destination_Swapped(s) == s.at
destination(s) == s.addr

WrittenBack(s) ==
  [c \in Guest |-> IF c \in destination(s)..destination(s) + s.count - 1
                   THEN frame.cells[s.at + c - destination(s)] ELSE guest[c]]

(* ~MutableView, for the view at hand, or the return of the call.             *)
copy_out ==
  /\ pc = "out"
  /\ \/ /\ cursor > 0
        /\ LET s == frame.spans[Next_view]
           IN  guest' = IF s.of = "view" THEN WrittenBack(s) ELSE guest
        /\ cursor' = cursor - 1
        /\ UNCHANGED <<pc, lost>>
     \/ cursor = 0 /\ pc' = "idle" /\ lost' = LostAfterReturn /\ UNCHANGED <<guest, cursor>>
  /\ UNCHANGED <<given, kind, todo, frame, ret, before, calls>>

--------------------------------------------------------------------------------
(* The calls Imports/Wasi.ts serves.  this.buffer and this.view() throw       *)
(* before the memory is set; a DataView or a TypedArray throws a RangeError   *)
(* where the guest's memory ends.                                             *)

(* The call returns or throws, and leaves the guest's memory so.              *)
Served(k, e, mem) ==
  /\ Started(k)
  /\ ret' = e /\ guest' = mem
  /\ UNCHANGED <<given, lost, pc, todo, frame, cursor>>

(* The memory setter of Wasi, at the end of the constructor of Instance.      *)
set_memory ==
  /\ ~given /\ given' = TRUE
  /\ UNCHANGED <<guest, lost, pc, kind, todo, frame, cursor, ret, before, calls>>

(* args_sizes_get and environ_sizes_get.                                      *)
fillSizes(k, values, count_ptr, buffer_size_ptr) ==
  LET counted == Store(guest, count_ptr, <<Len(values)>>)
  IN  \/ ~(given /\ InGuest(count_ptr, 1)) /\ Served(k, "RangeError", guest)
      \/ /\ given /\ InGuest(count_ptr, 1) /\ ~InGuest(buffer_size_ptr, 1)
         /\ Served(k, "RangeError", counted)
      \/ /\ given /\ InGuest(count_ptr, 1) /\ InGuest(buffer_size_ptr, 1)
         /\ Served(k, "SUCCESS", Store(counted, buffer_size_ptr, <<size_of(values)>>))

(* args_get and environ_get store a pointer and a string for each value.      *)
fillValues(k, values, iter_ptr_ptr, buf_ptr) ==
  \/ ~given /\ Served(k, "RangeError", guest)
  \/ /\ given /\ Started(k)
     /\ pc' = "fill" /\ todo' = values
     /\ cursor' = [iter |-> iter_ptr_ptr, buf |-> buf_ptr]
     /\ UNCHANGED <<given, guest, lost, frame, ret>>

fill_next ==
  /\ pc = "fill" /\ todo # <<>>
  /\ LET data == encode(Head(todo))
         pointed == Store(guest, cursor.iter, <<cursor.buf>>)
     IN  \/ /\ ~InGuest(cursor.iter, 1)
            /\ ret' = "RangeError" /\ pc' = "idle" /\ UNCHANGED <<guest, todo, cursor>>
         \/ /\ InGuest(cursor.iter, 1) /\ ~InGuest(cursor.buf, Len(data))
            /\ ret' = "RangeError" /\ pc' = "idle" /\ guest' = pointed /\ UNCHANGED <<todo, cursor>>
         \/ /\ InGuest(cursor.iter, 1) /\ InGuest(cursor.buf, Len(data))
            /\ guest' = Store(pointed, cursor.buf, data)
            /\ cursor' = [iter |-> cursor.iter + 1, buf |-> cursor.buf + Len(data)]
            /\ todo' = Tail(todo)
            /\ UNCHANGED <<pc, ret>>
  /\ UNCHANGED <<given, lost, kind, frame, before, calls>>

fill_return ==
  /\ pc = "fill" /\ todo = <<>>
  /\ pc' = "idle" /\ ret' = "SUCCESS"
  /\ UNCHANGED <<given, guest, lost, kind, todo, frame, cursor, before, calls>>

(* clock_res_get and clock_time_get of a known clock; of another, EINVAL.     *)
clock_get(retptr0) ==
  \/ Served("clock", "errno", guest)
  \/ ~(given /\ InGuest(retptr0, 1)) /\ Served("clock", "RangeError", guest)
  \/ given /\ InGuest(retptr0, 1) /\ Served("clock", "SUCCESS", Store(guest, retptr0, <<Result>>))

random_get(buffer_ptr, buffer_len) ==
  \/ /\ ~(given /\ InGuest(buffer_ptr, buffer_len)) \/ buffer_len > Quota
     /\ Served("random", "RangeError", guest)
  \/ /\ given /\ InGuest(buffer_ptr, buffer_len) /\ buffer_len <= Quota
     /\ Served("random", "SUCCESS", Store(guest, buffer_ptr, [i \in 1..buffer_len |-> Result]))

(* poll_oneoff, proc_raise, sock_recv, sock_send, sock_shutdown, sched_yield. *)
stub == \E e \in {"errno", "SUCCESS"} : Served("stub", e, guest)

--------------------------------------------------------------------------------
(* The guest makes any call, one at a time.                                   *)

FramedCalls ==
  \/ \E p \in Pointers : result_call(p)
  \/ \E p \in Pointers, n \in Sizes : fd_prestat_dir_name(p, n) \/ path_call(p, n)
  \/ \E p, q \in Pointers, n \in Counts : fd_read(p, n, q) \/ fd_write(p, n, q)
  \/ \E p, q \in Pointers, n \in Sizes :
       \/ fd_readdir(p, n, q) \/ path_readlink(p, n, q, q)
       \/ path_result_call(p, n, q)
       \/ path_rename(p, q, n) \/ two_paths_call(p, q, n)

DirectCalls ==
  \/ \E p, q \in Pointers : fillSizes("args_sizes", Args, p, q) \/ fillSizes("environ_sizes", Env, p, q)
  \/ \E p, q \in Pointers : fillValues("args", Args, p, q) \/ fillValues("environ", Env, p, q)
  \/ \E p \in Pointers : clock_get(p)
  \/ \E p \in Pointers, n \in Sizes : random_get(p, n)
  \/ stub

Init ==
  /\ given = FALSE /\ guest \in Memories /\ lost = 0
  /\ pc = "idle" /\ kind = "none" /\ todo = <<>> /\ frame = EmptyFrame /\ cursor = 0
  /\ ret = "SUCCESS" /\ before = guest /\ calls = 0

Steps == ref_array \/ resolve_path \/ serve \/ copy_out \/ fill_next \/ fill_return

Next == set_memory \/ FramedCalls \/ DirectCalls \/ Steps

Spec == Init /\ [][Next]_vars

--------------------------------------------------------------------------------
(* Properties.                                                                *)

Framed == {"result", "name", "read", "write", "overrun", "unreserved", "unserved", "path"}
Thrown == {"RangeError", "REQUIRE", "abort", "NoFrame"}

Span == [addr : Cell, count : 0..FrameSize,
         of : {"view", "copy", "iovs", "ciovs", "path"}, at : 0..FrameSize]

(* The type of the variables that hold data.                                  *)
TypeOK ==
  /\ guest \in [Guest -> Cell] /\ before \in [Guest -> Cell]
  /\ lost \in Nat /\ calls \in 0..MaxCalls
  /\ frame.offset \in 0..FrameSize /\ frame.cells \in [Slot -> Cell \union {Junk}]
  /\ \A i \in DOMAIN frame.spans : frame.spans[i] \in Span
  /\ ret \in Thrown \union {"SUCCESS", "errno"}

(* util.cc 4-9, util.h 39-53: the spans of a call lie in its tmp_buffer, one  *)
(* after the other, whatever sizes and counts the guest passes, and however   *)
(* the int tmp_offset and the size of an array wrap: no two share a cell.     *)
SpansApart ==
  \A i \in DOMAIN frame.spans :
    /\ frame.spans[i].at + frame.spans[i].count <= frame.offset
    /\ \A j \in 1..i - 1 : frame.spans[j].at + frame.spans[j].count <= frame.spans[i].at

(* util.h 39-47, memfs.cc 777-799, memfs/index.ts 30-34: what memfs works on  *)
(* is what the guest handed over.  Until the call is served, a span holds the *)
(* guest's own cells, except that an iovec, once its buffer is copied, points *)
(* to the copy, which is of what the guest's iovec points to.                 *)
SpansCopied ==
  pc = "refer" =>
    \A i \in DOMAIN frame.spans :
      LET s == frame.spans[i]
          repointed(k) ==
            s.of \in {"iovs", "ciovs"} /\ k % 2 = 0 /\ 3 + k \div 2 <= Len(frame.spans)
      IN  s.of # "path" =>
            /\ \A k \in 0..s.count - 1 :
                 frame.cells[s.at + k] = IF repointed(k) THEN Address(frame.spans[3 + k \div 2].at)
                                         ELSE guest[s.addr + k]
            /\ kind \in Vectored /\ i > 2 =>
                 /\ s.addr = guest[frame.spans[2].addr + 2 * (i - 3)]
                 /\ s.count = guest[frame.spans[2].addr + 2 * (i - 3) + 1]

(* The cells of the guest's memory that a call may change.                    *)
HandedOver == UNION {frame.spans[i].addr..frame.spans[i].addr + frame.spans[i].count - 1 :
                       i \in {j \in DOMAIN frame.spans : frame.spans[j].of = "view"}}

(* util.h 17-33, memfs.cc 777-926: a framed call changes no cell of the guest *)
(* but those it handed over for results, and a call that throws, at whatever  *)
(* point, or answers an error, changes none.                                  *)
OnlyHandedOver ==
  kind \in Framed =>
    /\ \A c \in Guest : guest[c] # before[c] => c \in HandedOver
    /\ ret \in Thrown \union {"errno"} /\ pc = "idle" => guest = before

(* memfs.cc 788-798: after a read, the guest finds the bytes read in its      *)
(* buffers, in order, and the cells of the buffers beyond them as they were,  *)
(* even where its buffers overlap: a stale copy written back never covers a   *)
(* byte that was read.  The number of bytes is written last of all.           *)
BytesArrive ==
  pc = "idle" /\ kind = "read" /\ ret = "SUCCESS" =>
    LET out == frame.spans[1].addr
        n == guest[out]
        targets == FlattenSeq([j \in 1..Len(frame.spans) - 2 |->
          LET s == frame.spans[j + 2] IN [k \in 1..s.count |-> s.addr + k - 1]])
    IN  n <= Len(targets) /\ \A c \in Guest \ {out} :
          IF \E j \in 1..n : targets[j] = c
          THEN \E j \in 1..n : targets[j] = c /\ guest[c] = FileData[j]
          ELSE guest[c] = before[c]

(* Wasi.ts 89-109: a guest that makes room for as many pointers and bytes as  *)
(* args_sizes_get (environ_sizes_get) says finds a pointer to each string,    *)
(* NUL-terminated, there, and nothing else of its memory is written.          *)
ValuesArrive ==
  pc = "idle" /\ kind \in {"args", "environ"} /\ ret = "SUCCESS" =>
    LET values == IF kind = "args" THEN Args ELSE Env
        argc == Len(values)
        argv == cursor.iter - argc
        start(i) == guest[argv + i - 1]
        area == argv..argv + argc - 1 \union cursor.buf - size_of(values)..cursor.buf - 1
    IN  Cardinality(area \intersect Guest) = argc + size_of(values) =>
          /\ \A i \in 1..argc : \A k \in 1..Len(encode(values[i])) :
               guest[start(i) + k - 1] = encode(values[i])[k]
          /\ \A c \in Guest \ area : guest[c] = before[c]

(* util.h 15, memfs/index.ts 16-24: a frame is lost only when an error is     *)
(* thrown out of memfs, and once as many are lost as the stack had room for,  *)
(* every framed call throws, whatever it asks.                                *)
FrameLostByThrow ==
  kind \in Framed /\ pc = "idle" =>
    /\ ret \in Thrown => lost > 0
    /\ lost >= Frames => ret \in Thrown
================================================================================
