----------------------------- MODULE MarshalProofs -----------------------------
(******************************************************************************)
(* Proofs about Marshal, for every value of its constants.                    *)
(*                                                                            *)
(* The invariant says of the frame what the properties need of it: its spans  *)
(* follow each other (SpansApart), hold the guest's cells until the call is   *)
(* served, but for the pointers of the iovecs (SpansCopied), and what is      *)
(* still to be allocated cannot make the int tmp_offset wrap unnoticed        *)
(* (Bounded): the only part whose size is not held against the guest's        *)
(* memory, the resolved path, is no longer than a string copied in before it. *)
(* Where the array of iovecs is among the spans, and that the parts to be     *)
(* allocated are the buffers its next iovecs give (Vectors), keeps the store  *)
(* of a pointer inside the array, whose size may have wrapped.                *)
(******************************************************************************)
EXTENDS Marshal, TLAPS, SequenceTheorems

USE SizeAssumption

PartType == [addr : Cell, count : Nat, of : {"view", "copy", "iovs", "ciovs", "path"}]
FrameCell == Cell \union {Junk}
FrameType == [spans : Seq(Span), offset : 0..FrameSize, cells : [Slot -> FrameCell]]

Direct == {"none", "args_sizes", "environ_sizes", "args", "environ", "clock", "random", "stub"}

(* The values of the variables.                                               *)
Typed ==
  /\ guest \in [Guest -> Cell] /\ before \in [Guest -> Cell]
  /\ lost \in Nat /\ calls \in 0..MaxCalls
  /\ frame \in FrameType
  /\ ret \in Thrown \union {"SUCCESS", "errno"}
  /\ pc \in {"idle", "refer", "out", "fill"} /\ kind \in Framed \union Direct

(* No path is longer than a string that is copied in before it allows.        *)
Sized(parts) ==
  \A i \in DOMAIN parts : parts[i].of = "path" =>
    \/ parts[i].count <= DirSize + FrameSize + 2
    \/ \E j \in 1..i - 1 : /\ parts[j].of = "copy"
                           /\ parts[i].count = DirSize + parts[j].count + 2

(* Where a framed call allocates its parts.                                   *)
Bounded ==
  pc = "refer" =>
    /\ kind \in Framed /\ lost < Frames /\ guest = before
    /\ todo \in Seq(PartType) /\ Sized(todo)

Array == {"iovs", "ciovs"}

(* Span or part b is the buffer that the iovec of the i-th of these spans     *)
(* gives, in memory mem.                                                      *)
Buffer(b, i, spans, mem) ==
  /\ b.of \in {"view", "copy"}
  /\ b.addr = mem[spans[2].addr + 2 * (i - 3)]
  /\ b.count = mem[spans[2].addr + 2 * (i - 3) + 1]

(* Where call k has its array of iovecs: in the second span, if it has any.   *)
ArraySpan(k, spans, mem) ==
  /\ k \notin Vectored => \A i \in DOMAIN spans : spans[i].of \notin Array
  /\ k \in Vectored =>
       /\ Len(spans) > 0 => spans[1].of = "view"
       /\ Len(spans) > 1 => spans[2].of \in Array
       /\ \A i \in 3..Len(spans) : Buffer(spans[i], i, spans, mem)

(* The parts to come: the array, and the buffers of the iovecs it holds.      *)
VectorParts(k, spans, parts, mem) ==
  /\ k \notin Vectored => \A m \in DOMAIN parts :
       parts[m].of \in Array => k = "unreserved" /\ parts[m].of = "iovs"
  /\ k \in Vectored =>
       /\ Len(spans) = 0 => Len(parts) = 2 /\ parts[1].of = "view" /\ parts[2].of \in Array
       /\ Len(spans) = 1 => Len(parts) = 1 /\ parts[1].of \in Array
       /\ Len(spans) > 1 =>
            /\ Len(spans) + Len(parts) = 2 + spans[2].count \div 2
            /\ \A m \in 1..Len(parts) : Buffer(parts[m], Len(spans) + m, spans, mem)

Vectors ==
  pc = "refer" =>
    ArraySpan(kind, frame.spans, guest) /\ VectorParts(kind, frame.spans, todo, guest)

(* The iovec at cell k of span s points to the copy of its buffer.            *)
Pointed(s, k, spans) == s.of \in Array /\ k % 2 = 0 /\ 3 + k \div 2 <= Len(spans)

(* What span s of these has at its cell k.                                    *)
Expected(s, k, spans) ==
  IF Pointed(s, k, spans) THEN Address(spans[3 + k \div 2].at) ELSE guest[s.addr + k]

CellsCopied ==
  pc = "refer" => \A i \in DOMAIN frame.spans : frame.spans[i].of # "path" =>
    \A k \in 0..frame.spans[i].count - 1 :
      frame.cells[frame.spans[i].at + k] = Expected(frame.spans[i], k, frame.spans)

(* As SpansApart, of any spans.                                               *)
Apart(spans, offset) ==
  \A i \in DOMAIN spans :
    /\ spans[i].at + spans[i].count <= offset
    /\ \A j \in 1..i - 1 : spans[j].at + spans[j].count <= spans[i].at

(* A span holds what the guest holds.                                         *)
SpanCopied(s) == \A k \in 0..s.count - 1 : frame.cells[s.at + k] = guest[s.addr + k]
ViewsCopied == \A i \in DOMAIN frame.spans : frame.spans[i].of = "view" => SpanCopied(frame.spans[i])

(* What may be written back was stored by somebody.                           *)
NoJunk ==
  \A i \in DOMAIN frame.spans :
    LET s == frame.spans[i]
    IN  s.of # "path" => \A k \in 0..s.count - 1 : frame.cells[s.at + k] \in Cell

(* Where a framed call has been served.                                       *)
Served_ ==
  pc = "out" =>
    /\ kind \in Framed /\ lost < Frames
    /\ cursor \in 0..Len(frame.spans)
    /\ ret \in {"SUCCESS", "errno"}
    /\ ret = "errno" => guest = before /\ ViewsCopied

(* Where args_get or environ_get stores its values.                           *)
Filling ==
  pc = "fill" =>
    /\ kind \in Direct
    /\ todo \in Seq(Value) /\ cursor \in [iter : Nat, buf : Cell]

IInv ==
  /\ Typed /\ NoJunk /\ Bounded /\ Vectors /\ Served_ /\ Filling
  /\ SpansApart /\ SpansCopied /\ OnlyHandedOver /\ FrameLostByThrow

--------------------------------------------------------------------------------
(* What the operators return.                                                 *)

(* A zero is a cell, and the guest and a frame have fewer cells than a word.  *)
LEMMA Sizes_ ==
  /\ Word > 0 /\ 0 \in Cell /\ GuestSize \in Cell /\ FrameSize < Word
  /\ Cell \subseteq Nat /\ Guest \subseteq Nat /\ Slot \subseteq Nat
  BY DEF Cell, Guest, Slot

(* Storing cells leaves a memory of cells.                                    *)
LEMMA StoreType ==
  ASSUME NEW mem \in [Guest -> Cell], NEW addr \in Nat, NEW data \in Seq(Cell)
  PROVE  Store(mem, addr, data) \in [Guest -> Cell]
<1> SUFFICES ASSUME NEW c \in Guest, c \in addr..addr + Len(data) - 1
             PROVE  data[c - addr + 1] \in Cell
  BY DEF Store
<1>1. Len(data) \in Nat /\ c \in Int
  BY DEF Guest
<1>2. c - addr + 1 \in 1..Len(data)
  BY <1>1
<1> QED
  BY <1>2, ElementOfSeq

(* Storing cells in slots leaves a frame of cells.                            *)
LEMMA FilledType ==
  ASSUME NEW cells \in [Slot -> FrameCell], NEW slots, NEW data,
         \A j \in DOMAIN data : data[j] \in Cell
  PROVE  Filled(cells, slots, data) \in [Slot -> FrameCell]
<1> SUFFICES ASSUME NEW c \in Slot, NEW i \in DOMAIN data, slots[i] = c
             PROVE  data[CHOOSE j \in DOMAIN data : slots[j] = c] \in Cell
  BY DEF Filled, FrameCell
<1> QED
  OBVIOUS

(* A frame is made of its parts.                                              *)
LEMMA FrameOf ==
  ASSUME NEW spans \in Seq(Span), NEW offset \in 0..FrameSize, NEW cells \in [Slot -> FrameCell]
  PROVE  [spans |-> spans, offset |-> offset, cells |-> cells] \in FrameType
  BY DEF FrameType

(* The encoding of a value is a sequence of cells.                            *)
LEMMA EncodeType ==
  ASSUME NEW v \in Value
  PROVE  encode(v) \in Seq(Cell)
  BY Sizes_ DEF encode, Value, Nul

(* The parts of a path fit a frame or are bounded by their strings.           *)
LEMMA Part_Type ==
  /\ \A addr \in Cell, count \in Nat : MutableView(addr, count) \in PartType
  /\ \A addr \in Cell, count \in Nat : ref_string(addr, count) \in PartType
  /\ \A count \in Nat : resolved_path(count) \in PartType
  /\ \A addr \in Cell, count \in Nat : external_iovs(addr, count) \in PartType
  /\ \A addr \in Cell, count \in Nat : external_ciovs(addr, count) \in PartType
<1>1. \A count \in Nat : (2 * count) % Word \in Nat
  BY Sizes_
<1> QED
  BY <1>1, Sizes_
  DEF PartType, Part, MutableView, ref_string, resolved_path, external_iovs, external_ciovs

(* An address of memfs is a word.                                             *)
LEMMA AddressCell ==
  ASSUME Typed, NEW slot \in Nat
  PROVE  Address(slot) \in Cell
<1>1. lost \in Nat
  BY DEF Typed
<1>2. Stack - lost * FrameSize + slot \in Int
  BY <1>1
<1>3. Word \in Nat /\ Word > 0
  BY Sizes_
<1> DEFINE a == Stack - lost * FrameSize + slot
<1>4. a \in Int
  BY <1>2
<1> HIDE DEF a
<1>5. a % Word \in 0..Word - 1
  BY <1>3, <1>4
<1> QED
  BY <1>5 DEF Address, Cell, a

(* A number is 0, 1 or more.                                                  *)
LEMMA FewOrMany == \A n \in Nat : n = 0 \/ n = 1 \/ (n > 1 /\ n >= 2)
  OBVIOUS

(* What SpansCopied says, in the parts that are kept.                         *)
LEMMA CopiedParts ==
  /\ Vectors /\ CellsCopied => SpansCopied
  /\ SpansCopied => CellsCopied
<1>1. ASSUME Vectors, CellsCopied, pc = "refer", NEW i \in DOMAIN frame.spans,
             frame.spans[i].of # "path"
      PROVE  /\ \A k \in 0..frame.spans[i].count - 1 :
                  frame.cells[frame.spans[i].at + k] =
                    Expected(frame.spans[i], k, frame.spans)
             /\ kind \in Vectored /\ i > 2 =>
                  Buffer(frame.spans[i], i, frame.spans, guest)
  <2>1. kind \in Vectored /\ i > 2 => Buffer(frame.spans[i], i, frame.spans, guest)
    BY <1>1 DEF Vectors, ArraySpan
  <2> QED
    BY <1>1, <2>1 DEF CellsCopied
<1>2. Vectors /\ CellsCopied => SpansCopied
  BY <1>1 DEF SpansCopied, Expected, Pointed, Buffer, Array
<1>3. SpansCopied => CellsCopied
  BY DEF SpansCopied, CellsCopied, Expected, Pointed, Array
<1> QED
  BY <1>2, <1>3

(* Below the modulus, the remainder is the number.                            *)
LEMMA SmallMod ==
  ASSUME NEW n \in Nat, NEW w \in Nat, n < w
  PROVE  n % w = n
  OBVIOUS

(* Where the k-th cell of a span is.                                          *)
LEMMA SlotOf ==
  ASSUME NEW at \in Nat, NEW count \in Nat, NEW k \in 0..count - 1, at + count <= FrameSize
  PROVE  at + k \in Slot /\ at + k \in at..at + count - 1
  BY DEF Slot

(* As long as a part is no larger than the guest's memory or a bounded path,  *)
(* the REQUIRE of alloc holds it against the frame.                           *)
LEMMA AllocBound ==
  ASSUME Typed, NEW count \in Nat, Fits(count),
         count <= GuestSize \/ count <= DirSize + FrameSize + 2
  PROVE  alloc(count) = frame.offset + count /\ frame.offset + count <= FrameSize
<1>1. frame.offset \in Nat /\ frame.offset <= FrameSize
  BY DEF Typed, FrameType
<1>2. frame.offset + count < Word
  BY <1>1
<1>3. (frame.offset + count) % Word = frame.offset + count
  BY <1>1, <1>2, SmallMod
<1> QED
  BY <1>3 DEF alloc, Fits

(* What copy_in leaves in the frame: cells of the guest, and the rest of the  *)
(* frame as it was.                                                           *)
LEMMA CopyInCells ==
  ASSUME Typed, NEW addr \in Cell, NEW count \in Nat, InGuest(addr, count),
         frame.offset + count <= FrameSize
  PROVE  LET cells == copy_in(addr, frame.offset, count)
         IN  /\ cells \in [Slot -> FrameCell]
             /\ \A c \in 0..frame.offset - 1 : cells[c] = frame.cells[c]
             /\ \A k \in 0..count - 1 : cells[frame.offset + k] = guest[addr + k]
             /\ \A k \in 0..count - 1 : cells[frame.offset + k] \in Cell
<1> DEFINE cells == copy_in(addr, frame.offset, count)
<1>1. /\ frame.offset \in Nat /\ frame.offset <= FrameSize /\ addr \in Nat
      /\ frame.cells \in [Slot -> FrameCell] /\ guest \in [Guest -> Cell]
  BY Sizes_ DEF Typed, FrameType
<1>2. ASSUME NEW c \in frame.offset..frame.offset + count - 1
      PROVE  addr + c - frame.offset \in Guest
  BY <1>1 DEF InGuest, Guest
<1>3. \A c \in Slot : cells[c] = IF c \in frame.offset..frame.offset + count - 1
                               THEN guest[addr + c - frame.offset] ELSE frame.cells[c]
  BY DEF copy_in
<1>4. cells \in [Slot -> FrameCell]
  BY <1>1, <1>2 DEF copy_in, FrameCell
<1>5. ASSUME NEW c \in 0..frame.offset - 1
      PROVE  cells[c] = frame.cells[c]
  <2>1. c \in Slot /\ c \notin frame.offset..frame.offset + count - 1
    BY <1>1 DEF Slot
  <2> QED
    BY <2>1, <1>3
<1>6. ASSUME NEW k \in 0..count - 1
      PROVE  cells[frame.offset + k] = guest[addr + k] /\ guest[addr + k] \in Cell
  <2> DEFINE c == frame.offset + k
  <2>1. c \in Slot /\ c \in frame.offset..frame.offset + count - 1
    BY <1>1, SlotOf
  <2>2. addr + c - frame.offset = addr + k
    BY <1>1
  <2>3. cells[c] = guest[addr + c - frame.offset]
    BY <2>1, <1>3
  <2>4. guest[addr + c - frame.offset] \in Cell
    BY <2>1, <1>2, <1>1
  <2> QED
    BY <2>2, <2>3, <2>4
<1> QED
  BY <1>4, <1>5, <1>6

--------------------------------------------------------------------------------
(* The steps of a framed call.                                                *)

(* A call enters with nothing in its frame.                                   *)
LEMMA EnterInv ==
  ASSUME IInv, NEW k \in Framed, NEW parts \in Seq(PartType), Sized(parts),
         k \in Vectored => Len(parts) = 2 /\ parts[1].of = "view" /\ parts[2].of \in Array,
         k \notin Vectored => \A m \in DOMAIN parts :
           parts[m].of \in Array => k = "unreserved" /\ parts[m].of = "iovs",
         Enter(k, parts)
  PROVE  IInv'
<1>1. EmptyFrame \in FrameType
  BY Sizes_ DEF EmptyFrame, FrameType, FrameCell
<1>2. /\ frame' = EmptyFrame /\ kind' = k /\ before' = guest /\ guest' = guest
      /\ todo' = parts /\ calls' = calls + 1 /\ calls < MaxCalls
      /\ \/ lost < Frames /\ pc' = "refer" /\ lost' = lost /\ ret' = ret
         \/ lost >= Frames /\ pc' = "idle" /\ ret' = "NoFrame" /\ lost' = lost + 1
  BY DEF Enter, Started
<1>0. frame'.spans = <<>> /\ DOMAIN frame'.spans = {}
  BY <1>2 DEF EmptyFrame
<1>3. Typed'
  <2>1. lost \in Nat /\ calls \in 0..MaxCalls /\ guest \in [Guest -> Cell]
        /\ ret \in Thrown \union {"SUCCESS", "errno"}
    BY DEF IInv, Typed
  <2>2. lost' \in Nat /\ calls' \in 0..MaxCalls
    BY <1>2, <2>1
  <2>3. ret' \in Thrown \union {"SUCCESS", "errno"} /\ pc' \in {"idle", "refer"}
    BY <1>2, <2>1 DEF Thrown
  <2> QED
    BY <1>1, <1>2, <2>1, <2>2, <2>3 DEF Typed
<1>4. SpansApart' /\ SpansCopied' /\ NoJunk' /\ Served_' /\ Filling'
  BY <1>0, <1>2 DEF SpansApart, SpansCopied, NoJunk, Served_, Filling
<1>5. Bounded'
  <2>1. Sized(todo)'
    BY <1>2 DEF Sized
  <2> QED
    BY <1>2, <2>1 DEF Bounded
<1>7. Vectors'
  <2>1. Len(frame'.spans) = 0
    BY <1>0
  <2>2. ArraySpan(k, <<>>, guest)
    BY DEF ArraySpan
  <2>3. VectorParts(k, <<>>, parts, guest)
    BY DEF VectorParts
  <2> QED
    BY <1>0, <1>2, <2>2, <2>3 DEF Vectors
<1>6. OnlyHandedOver' /\ FrameLostByThrow'
  <2>1. lost \in Nat /\ guest' = before'
    BY <1>2 DEF IInv, Typed
  <2>2. OnlyHandedOver'
    BY <2>1 DEF OnlyHandedOver
  <2>3. FrameLostByThrow'
    BY <2>1, <1>2 DEF FrameLostByThrow, Thrown
  <2> QED
    BY <2>2, <2>3
<1> QED
  BY <1>3, <1>4, <1>5, <1>6, <1>7 DEF IInv

(* An error leaves the guest's memory as it was, and a frame behind.          *)
LEMMA ThrowInv ==
  ASSUME IInv, pc = "refer", NEW why \in Thrown, Throw(why)
  PROVE  IInv'
<1>1. /\ ret' = why /\ pc' = "idle" /\ lost' = lost + 1 /\ frame' = frame
      /\ guest' = guest /\ before' = before /\ kind' = kind /\ calls' = calls
      /\ guest = before
  BY DEF Throw, IInv, Bounded
<1>2. Typed' /\ NoJunk' /\ SpansApart'
  BY <1>1 DEF IInv, Typed, NoJunk, SpansApart
<1>3. Bounded' /\ Vectors' /\ Served_' /\ Filling' /\ SpansCopied'
  BY <1>1 DEF Bounded, Vectors, Served_, Filling, SpansCopied
<1>4. OnlyHandedOver' /\ FrameLostByThrow'
  BY <1>1 DEF OnlyHandedOver, FrameLostByThrow, IInv, Typed
<1> QED
  BY <1>2, <1>3, <1>4 DEF IInv

(* The call has its answer; after an error the frame is as it was copied in.  *)
LEMMA AnswerInv ==
  ASSUME IInv, pc = "refer", NEW e \in {"SUCCESS", "errno"}, NEW cells \in [Slot -> FrameCell],
         e = "errno" => cells = frame.cells,
         \A c \in Slot : cells[c] = frame.cells[c] \/ cells[c] \in Cell,
         Answer(e, cells)
  PROVE  IInv'
<1>1. /\ ret' = e /\ pc' = "out" /\ lost' = lost /\ guest' = guest /\ before' = before
      /\ kind' = kind /\ calls' = calls /\ cursor' = Len(frame.spans)
      /\ frame' = [frame EXCEPT !.cells = cells]
  BY DEF Answer
<1>2. frame \in FrameType /\ guest = before /\ kind \in Framed /\ lost < Frames
  BY DEF IInv, Typed, Bounded
<1>3. /\ frame' \in FrameType /\ frame'.spans = frame.spans /\ frame'.offset = frame.offset
      /\ frame'.cells = cells
  BY <1>1, <1>2 DEF FrameType
<1>4. Typed'
  BY <1>1, <1>3 DEF IInv, Typed
<1>5. SpansApart'
  BY <1>3 DEF IInv, SpansApart
<1>6. NoJunk'
  <2> SUFFICES ASSUME NEW i \in DOMAIN frame.spans, frame.spans[i].of # "path",
                      NEW k \in 0..frame.spans[i].count - 1
               PROVE  cells[frame.spans[i].at + k] \in Cell
    BY <1>3 DEF NoJunk
  <2> DEFINE s == frame.spans[i]
  <2>1. s \in Span /\ s.at + s.count <= frame.offset
    BY <1>2, ElementOfSeq DEF FrameType, IInv, SpansApart
  <2>2. s.at + k \in Slot
    BY <2>1, <1>2, SMTT(30) DEF Span, FrameType, Slot
  <2>3. frame.cells[s.at + k] \in Cell
    BY DEF IInv, NoJunk
  <2> QED
    BY <2>2, <2>3
<1>7. Served_'
  <2>1. cursor' \in 0..Len(frame'.spans)
    BY <1>1, <1>2, <1>3 DEF FrameType
  <2>2. e = "errno" => ViewsCopied'
    <3> SUFFICES ASSUME e = "errno" PROVE ViewsCopied'
      OBVIOUS
    <3>1. frame'.cells = frame.cells /\ frame'.spans = frame.spans /\ guest' = guest
      BY <1>1, <1>3
    <3>2. ASSUME NEW i \in DOMAIN frame.spans, frame.spans[i].of = "view",
                 NEW k \in 0..frame.spans[i].count - 1
          PROVE  frame.cells[frame.spans[i].at + k] = guest[frame.spans[i].addr + k]
      BY <3>2 DEF IInv, SpansCopied
    <3> QED
      BY <3>1, <3>2 DEF ViewsCopied, SpanCopied
  <2> QED
    BY <2>1, <2>2, <1>1, <1>2 DEF Served_
<1>8. Bounded' /\ Vectors' /\ Filling' /\ SpansCopied' /\ OnlyHandedOver' /\ FrameLostByThrow'
  BY <1>1, <1>2 DEF Bounded, Vectors, Filling, SpansCopied, OnlyHandedOver, FrameLostByThrow
<1> QED
  BY <1>4, <1>5, <1>6, <1>7, <1>8 DEF IInv

(* The fields of a span are natural numbers.                                  *)
LEMMA SpanFields ==
  ASSUME NEW s \in Span
  PROVE  s.at \in Nat /\ s.count \in Nat /\ s.addr \in Nat
<1>1. s.addr \in Cell /\ s.at \in 0..FrameSize /\ s.count \in 0..FrameSize
  BY DEF Span
<1> QED
  BY <1>1 DEF Cell

(* A span after the others keeps them apart.                                  *)
LEMMA ApartAppend ==
  ASSUME NEW spans \in Seq(Span), NEW s \in Span, Apart(spans, s.at)
  PROVE  Apart(Append(spans, s), s.at + s.count)
<1> DEFINE n == Len(spans)
           all == Append(spans, s)
<1>1. /\ n \in Nat /\ DOMAIN spans = 1..n /\ DOMAIN all = 1..n + 1
      /\ all[n + 1] = s /\ \A i \in 1..n : all[i] = spans[i] /\ spans[i] \in Span
  BY ElementOfSeq
<1>2. s.at \in Nat /\ s.count \in Nat
  BY DEF Span
<1> HIDE DEF n, all
<1>3. ASSUME NEW i \in 1..n
      PROVE  /\ all[i].at + all[i].count <= s.at + s.count
             /\ \A j \in 1..i - 1 : all[j].at + all[j].count <= all[i].at
  <2>1. spans[i].at \in Nat /\ spans[i].count \in Nat
    BY <1>1, SpanFields
  <2>2. /\ spans[i].at + spans[i].count <= s.at
        /\ \A j \in 1..i - 1 : spans[j].at + spans[j].count <= spans[i].at
    BY <1>1 DEF Apart
  <2>3. \A j \in 1..i - 1 : j \in 1..n
    BY <1>1
  <2>4. all[i] = spans[i] /\ \A j \in 1..i - 1 : all[j] = spans[j]
    BY <1>1, <2>3
  <2>5. spans[i].at + spans[i].count <= s.at + s.count
    BY <1>2, <2>1, <2>2
  <2> QED
    BY <2>2, <2>4, <2>5
<1>4. /\ all[n + 1].at + all[n + 1].count <= s.at + s.count
      /\ \A j \in 1..n : all[j].at + all[j].count <= all[n + 1].at
  <2>1. \A j \in 1..n : spans[j].at + spans[j].count <= s.at
    BY <1>1 DEF Apart
  <2> QED
    BY <1>1, <1>2, <2>1
<1>5. \A i \in 1..n + 1 : i \in 1..n \/ i = n + 1
  BY <1>1
<1>6. \A i \in DOMAIN all :
        /\ all[i].at + all[i].count <= s.at + s.count
        /\ \A j \in 1..i - 1 : all[j].at + all[j].count <= all[i].at
  <2> TAKE i \in DOMAIN all
  <2>1. CASE i \in 1..n
    BY <2>1, <1>3
  <2>2. CASE i = n + 1
    <3>1. \A j \in 1..i - 1 : j \in 1..n
      BY <2>2, <1>1
    <3>2. all[i].at + all[i].count <= s.at + s.count
      BY <2>2, <1>4
    <3>3. \A j \in 1..i - 1 : all[j].at + all[j].count <= all[i].at
      BY <2>2, <3>1, <1>4
    <3> QED
      BY <3>2, <3>3
  <2> QED
    BY <1>1, <1>5, <2>1, <2>2
<1> QED
  BY <1>6 DEF Apart, all

(* The cells of spans that end here are before here.                          *)
LEMMA CellBefore ==
  ASSUME NEW spans \in Seq(Span), NEW at \in Nat, Apart(spans, at),
         NEW i \in DOMAIN spans, NEW k \in 0..spans[i].count - 1
  PROVE  spans[i].at + k \in 0..at - 1
<1>1. spans[i] \in Span
  BY ElementOfSeq
<1>2. spans[i].at \in Nat /\ spans[i].count \in Nat
  BY <1>1, SpanFields
<1>3. spans[i].at + spans[i].count <= at
  BY DEF Apart
<1> QED
  BY <1>2, <1>3, SMTT(30)

(* A cell of a span is in no other span.                                      *)
LEMMA OneSpan ==
  ASSUME NEW spans \in Seq(Span), NEW at \in Nat, Apart(spans, at),
         NEW i \in DOMAIN spans, NEW j \in DOMAIN spans, i # j,
         NEW k \in 0..spans[i].count - 1, NEW l \in 0..spans[j].count - 1
  PROVE  spans[i].at + k # spans[j].at + l
<1>1. spans[i] \in Span /\ spans[j] \in Span
  BY ElementOfSeq
<1>2. /\ spans[i].at \in Nat /\ spans[i].count \in Nat
      /\ spans[j].at \in Nat /\ spans[j].count \in Nat
  BY <1>1, SpanFields
<1>3. i \in Nat /\ j \in Nat /\ i >= 1 /\ j >= 1
  OBVIOUS
<1>4. CASE i < j
  <2>1. i \in 1..j - 1
    BY <1>3, <1>4
  <2>2. spans[i].at + spans[i].count <= spans[j].at
    BY <2>1 DEF Apart
  <2> QED
    BY <1>2, <2>2, SMTT(30)
<1>5. CASE j < i
  <2>1. j \in 1..i - 1
    BY <1>3, <1>5
  <2>2. spans[j].at + spans[j].count <= spans[i].at
    BY <2>1 DEF Apart
  <2> QED
    BY <1>2, <2>2, SMTT(30)
<1> QED
  BY <1>3, <1>4, <1>5

(* A part that is allocated may leave its buffers to be allocated instead: a  *)
(* path then still follows its string, or its string fitted the frame.        *)
LEMMA SizedNext ==
  ASSUME NEW parts \in Seq(PartType), parts # <<>>, Sized(parts),
         Head(parts).count <= FrameSize,
         NEW buffers \in Seq(PartType), \A i \in DOMAIN buffers : buffers[i].of # "path"
  PROVE  Sized(buffers \o Tail(parts))
<1> DEFINE n == Len(parts)
           m == Len(buffers)
           all == buffers \o Tail(parts)
<1>1. /\ n \in Nat /\ n >= 1 /\ m \in Nat /\ DOMAIN buffers = 1..m /\ DOMAIN parts = 1..n
      /\ Head(parts) = parts[1]
  OBVIOUS
<1>2. DOMAIN all = 1..m + n - 1
  BY <1>1
<1>3. \A i \in 1..m : all[i] = buffers[i]
  BY <1>1
<1>4. \A i \in 2..n : all[m + i - 1] = parts[i]
  BY <1>1
<1> HIDE DEF n, m, all
<1>5. ASSUME NEW i \in 2..n, parts[i].of = "path"
      PROVE  \/ parts[i].count <= DirSize + FrameSize + 2
             \/ \E j \in 1..m + i - 2 : /\ all[j].of = "copy"
                                       /\ parts[i].count = DirSize + all[j].count + 2
  <2>1. CASE parts[i].count <= DirSize + FrameSize + 2
    BY <2>1
  <2>2. ASSUME NEW j \in 1..i - 1, parts[j].of = "copy",
               parts[i].count = DirSize + parts[j].count + 2
        PROVE  \/ parts[i].count <= DirSize + FrameSize + 2
               \/ \E l \in 1..m + i - 2 : /\ all[l].of = "copy"
                                         /\ parts[i].count = DirSize + all[l].count + 2
    <3>1. CASE j = 1
      <4>1. parts[1] \in PartType
        BY <1>1, ElementOfSeq DEF n
      <4>2. parts[j].count \in Nat /\ parts[j].count <= FrameSize
        BY <3>1, <1>1, <4>1 DEF PartType
      <4>3. parts[i].count <= DirSize + FrameSize + 2
        BY <4>2, <2>2
      <4> QED
        BY <4>3
    <3>2. CASE j # 1
      <4>1. j \in 2..n /\ m + j - 1 \in 1..m + i - 2
        BY <3>2, <1>1
      <4> QED
        BY <4>1, <2>2, <1>4
    <3> QED
      BY <3>1, <3>2
  <2>3. i \in DOMAIN parts
    BY <1>1
  <2> QED
    BY <1>5, <2>1, <2>2, <2>3 DEF Sized
<1>6. ASSUME NEW i \in 1..m + n - 1, all[i].of = "path"
      PROVE  \/ all[i].count <= DirSize + FrameSize + 2
             \/ \E j \in 1..i - 1 : all[j].of = "copy" /\ all[i].count = DirSize + all[j].count + 2
  <2>1. i \notin 1..m
    BY <1>1, <1>3, <1>6
  <2>2. i - m + 1 \in 2..n /\ m + (i - m + 1) - 1 = i /\ m + (i - m + 1) - 2 = i - 1
    BY <1>1, <2>1
  <2>3. all[i] = parts[i - m + 1]
    BY <1>4, <2>2
  <2> QED
    BY <1>5, <1>6, <2>2, <2>3
<1> QED
  BY <1>2, <1>6 DEF Sized, all

(* A part becomes a span.                                                     *)
LEMMA FrameAllocated ==
  ASSUME IInv, pc = "refer", todo # <<>>, NEW h, h = Head(todo), NEW s, NEW cells,
         s = [addr |-> h.addr, count |-> h.count, of |-> h.of, at |-> frame.offset],
         Fits(h.count), h.count <= GuestSize \/ h.count <= DirSize + FrameSize + 2,
         frame' = Allocated(h, cells)
  PROVE  /\ frame'.spans = Append(frame.spans, s) /\ frame'.offset = frame.offset + h.count
         /\ frame'.cells = cells /\ frame.offset + h.count \in 0..FrameSize
         /\ h \in PartType /\ frame.spans \in Seq(Span) /\ s \in Span
<1>1. frame \in FrameType /\ todo \in Seq(PartType)
  BY DEF IInv, Typed, Bounded
<1>2. h \in PartType
  BY <1>1
<1>3. h.addr \in Cell /\ h.count \in Nat /\ h.of \in {"view", "copy", "iovs", "ciovs", "path"}
  BY <1>2 DEF PartType
<1>4. alloc(h.count) = frame.offset + h.count /\ frame.offset + h.count <= FrameSize
  BY <1>3, AllocBound DEF IInv
<1>5. frame.spans \in Seq(Span) /\ frame.offset \in 0..FrameSize
  BY <1>1 DEF FrameType
<1>6. h.count \in 0..FrameSize /\ frame.offset + h.count \in 0..FrameSize
  <2>1. frame.offset \in Nat /\ h.count \in Nat /\ FrameSize \in Nat
    BY <1>3, <1>5, SizeAssumption
  <2>2. frame.offset + h.count <= FrameSize
    BY <1>4
  <2> QED
    BY <2>1, <2>2, SMTT(30)
<1>7. s \in Span
  BY <1>3, <1>5, <1>6 DEF Span
<1>8. frame' = [spans |-> Append(frame.spans, s), offset |-> frame.offset + h.count,
                cells |-> cells]
  BY <1>4 DEF Allocated
<1> QED
  BY <1>2, <1>4, <1>5, <1>6, <1>7, <1>8

(* A part is allocated; the parts it stands for come next.                    *)
LEMMA AllocInv ==
  ASSUME IInv, pc = "refer", todo # <<>>,
         NEW h, h = Head(todo), NEW s, NEW cells \in [Slot -> FrameCell],
         NEW buffers \in Seq(PartType), \A i \in DOMAIN buffers : buffers[i].of # "path",
         s = [addr |-> h.addr, count |-> h.count, of |-> h.of, at |-> frame.offset],
         Fits(h.count), h.count <= GuestSize \/ h.count <= DirSize + FrameSize + 2,
         frame' = Allocated(h, cells),
         todo' = buffers \o Tail(todo),
         NoJunk', Vectors', CellsCopied',
         UNCHANGED <<given, guest, lost, pc, kind, cursor, ret, before, calls>>
  PROVE  IInv'
<1>1. /\ frame \in FrameType /\ todo \in Seq(PartType) /\ Sized(todo) /\ guest = before
      /\ kind \in Framed /\ lost < Frames
  BY DEF IInv, Typed, Bounded
<1>2. h \in PartType /\ Tail(todo) \in Seq(PartType)
  BY <1>1
<1>3. /\ frame'.spans = Append(frame.spans, s) /\ frame'.offset = frame.offset + h.count
      /\ frame'.cells = cells /\ frame.offset + h.count \in 0..FrameSize
      /\ frame.spans \in Seq(Span) /\ s \in Span
  BY FrameAllocated
<1>4. h.count \in Nat
  BY <1>2 DEF PartType
<1>5. frame.offset \in 0..FrameSize
  BY <1>1 DEF FrameType
<1>6. h.count \in 0..FrameSize
  BY <1>3, <1>4, <1>5
<1>7. s.at = frame.offset /\ s.count = h.count
  OBVIOUS
<1>8. frame'.offset = s.at + s.count /\ frame' \in FrameType
  <2>1. Append(frame.spans, s) \in Seq(Span)
    BY <1>3
  <2>2. frame' = [spans |-> frame'.spans, offset |-> frame'.offset, cells |-> frame'.cells]
    BY DEF Allocated
  <2>3. frame' \in FrameType
    BY <1>3, <2>1, <2>2, FrameOf
  <2> QED
    BY <1>3, <1>7, <2>3
<1>9. Apart(frame.spans, s.at)
  BY <1>7 DEF IInv, SpansApart, Apart
<1>10. Typed'
  BY <1>8 DEF IInv, Typed
<1>11. SpansApart'
  <2>1. Apart(frame'.spans, frame'.offset)
    BY <1>3, <1>8, <1>9, ApartAppend
  <2> QED
    BY <2>1 DEF Apart, SpansApart
<1>12. SpansCopied'
  BY CopiedParts, PTL
<1>13. Bounded'
  <2>1. Sized(todo')
    BY <1>1, <1>6, SizedNext
  <2>2. todo' \in Seq(PartType)
    BY <1>2
  <2>3. Sized(todo)'
    BY <2>1 DEF Sized
  <2> QED
    BY <1>1, <2>2, <2>3 DEF Bounded
<1>14. OnlyHandedOver' /\ FrameLostByThrow' /\ Served_' /\ Filling'
  BY <1>1 DEF OnlyHandedOver, FrameLostByThrow, Served_, Filling
<1> QED
  BY <1>10, <1>11, <1>12, <1>13, <1>14 DEF IInv

(* The buffers that a copied array gives.                                     *)
LEMMA BufferParts ==
  ASSUME IInv, NEW h \in PartType, NEW cells,
         \A k \in 0..h.count - 1 : cells[frame.offset + k] \in Cell
  PROVE  /\ Buffers(h, cells) \in Seq(PartType)
         /\ h.of # "iovs" /\ h.of # "ciovs" => Buffers(h, cells) = <<>>
         /\ \A i \in DOMAIN Buffers(h, cells) :
              /\ Buffers(h, cells)[i].of # "path"
              /\ h.of = "iovs" => Buffers(h, cells)[i].of = "view"
<1>0. frame.offset \in Nat /\ h.count \in Nat
  BY DEF IInv, Typed, FrameType, PartType
<1>1. h.of # "iovs" /\ h.of # "ciovs" => Buffers(h, cells) = <<>>
  BY DEF Buffers
<1>2. \A i \in DOMAIN Buffers(h, cells) :
        /\ Buffers(h, cells)[i].of # "path"
        /\ h.of = "iovs" => Buffers(h, cells)[i].of = "view"
  BY DEF Buffers, Part
<1>3. CASE h.of \notin {"iovs", "ciovs"}
  <2>1. Buffers(h, cells) = <<>> /\ <<>> \in Seq(PartType)
    BY <1>3 DEF Buffers
  <2> QED
    BY <1>1, <1>2, <2>1, Zenon
<1>4. CASE h.of \in {"iovs", "ciovs"}
  <2>1. ASSUME NEW i \in 1..h.count \div 2
        PROVE  cells[frame.offset + 2 * i - 2] \in Cell /\ cells[frame.offset + 2 * i - 1] \in Cell
    <3>1. 2 * i - 2 \in 0..h.count - 1 /\ 2 * i - 1 \in 0..h.count - 1
      BY <1>0
    <3>2. /\ frame.offset + (2 * i - 2) = frame.offset + 2 * i - 2
          /\ frame.offset + (2 * i - 1) = frame.offset + 2 * i - 1
      BY <1>0
    <3> QED
      BY <3>1, <3>2
  <2>2. \A a, n \in Cell, of \in {"view", "copy"} : Part(a, n, of) \in PartType
    BY Sizes_ DEF Part, PartType
  <2>3. h.count \div 2 \in Nat
    BY <1>0
  <2>4. \A i \in 1..h.count \div 2 :
          Part(cells[frame.offset + 2 * i - 2], cells[frame.offset + 2 * i - 1],
               IF h.of = "iovs" THEN "view" ELSE "copy") \in PartType
    BY <2>1, <2>2
  <2>5. Buffers(h, cells) \in Seq(PartType)
    BY <1>4, <2>3, <2>4 DEF Buffers
  <2> QED
    BY <1>1, <1>2, <2>5
<1> QED
  BY <1>3, <1>4

(* These cells have the pointer of an iovec at p, if there is one to store.   *)
PointsAt(p, cells) ==
  \/ p = -1 /\ ~(kind \in Vectored /\ Len(frame.spans) > 1)
  \/ /\ kind \in Vectored /\ Len(frame.spans) > 1
     /\ p = IovecSlot(Len(frame.spans) - 1) /\ cells[p] = Address(frame.offset)

(* Otherwise they are as the frame had them, up to the part that is copied.   *)
KeptBut(p, cells) == \A c \in 0..frame.offset - 1 : c # p => cells[c] = frame.cells[c]

(* And this part is a copy of what the guest has.                             *)
CopiedIn(h, cells) ==
  h.of # "path" => \A k \in 0..h.count - 1 :
    cells[frame.offset + k] = guest[h.addr + k] /\ cells[frame.offset + k] \in Cell

(* A part is allocated and copied in, and the pointer of an iovec is stored   *)
(* at p if the part is the buffer of the iovec: every span then has what is   *)
(* expected of it, and no junk.                                               *)
LEMMA AllocCells ==
  ASSUME IInv, pc = "refer", todo # <<>>, NEW h, h = Head(todo), NEW s, NEW cells,
         s = [addr |-> h.addr, count |-> h.count, of |-> h.of, at |-> frame.offset],
         Fits(h.count), h.count <= GuestSize \/ h.count <= DirSize + FrameSize + 2,
         frame' = Allocated(h, cells), UNCHANGED <<guest, lost, pc, kind>>,
         NEW p \in Int, PointsAt(p, cells), KeptBut(p, cells), CopiedIn(h, cells),
         h.of \in Array => Len(frame.spans) = 1
  PROVE  NoJunk' /\ CellsCopied'
<1> DEFINE n == Len(frame.spans)
           spans == frame.spans
           all == Append(spans, s)
<1> USE DEF PointsAt, KeptBut, CopiedIn
<1>1. /\ frame'.spans = all /\ frame'.cells = cells
      /\ h \in PartType /\ spans \in Seq(Span) /\ s \in Span
  BY FrameAllocated
<1>2. /\ n \in Nat /\ DOMAIN spans = 1..n /\ DOMAIN all = 1..n + 1 /\ Len(all) = n + 1
      /\ all[n + 1] = s /\ \A i \in 1..n : all[i] = spans[i] /\ spans[i] \in Span
  BY <1>1, ElementOfSeq
<1>3. /\ s.at = frame.offset /\ s.count = h.count /\ s.addr = h.addr /\ s.of = h.of
      /\ frame.offset \in Nat
  BY DEF IInv, Typed, FrameType
<1>4. Apart(spans, frame.offset)
  BY DEF IInv, SpansApart, Apart
<1>5. \A i \in 1..n : spans[i].at \in Nat /\ spans[i].count \in Nat
  BY <1>2, SpanFields
<1>6. /\ CellsCopied /\ NoJunk /\ ArraySpan(kind, spans, guest)
      /\ VectorParts(kind, spans, todo, guest)
  BY CopiedParts DEF IInv, Vectors
<1>7. ASSUME kind \in Vectored, n > 1
      PROVE  /\ 2 \in 1..n /\ 2 * (n - 2) \in 0..spans[2].count - 1 /\ spans[2].of \in Array
             /\ p = spans[2].at + 2 * (n - 2) /\ cells[p] = Address(frame.offset)
  <2>1. 2 \in 1..n
    BY <1>2, <1>7
  <2>2. spans[2].of \in Array /\ n + Len(todo) = 2 + spans[2].count \div 2
    BY <1>6, <1>7 DEF ArraySpan, VectorParts
  <2>3. Len(todo) \in Nat /\ Len(todo) >= 1
    BY DEF IInv, Bounded
  <2>4. n - 2 < spans[2].count \div 2
    BY <1>2, <1>5, <2>1, <2>2, <2>3
  <2>5. 2 * (n - 2) \in 0..spans[2].count - 1
    BY <1>2, <1>5, <1>7, <2>1, <2>4
  <2>6. p = spans[2].at + 2 * (n - 2) /\ cells[p] = Address(frame.offset)
    <3>1. p = IovecSlot(n - 1) /\ cells[p] = Address(frame.offset)
      BY <1>7
    <3>2. IovecSlot(n - 1) = spans[2].at + 2 * (n - 2)
      BY <1>2 DEF IovecSlot
    <3> QED
      BY <3>1, <3>2
  <2> QED
    BY <2>1, <2>2, <2>5, <2>6
<1>8. \A i \in 1..n : spans[i].of \in Array => i = 2 /\ kind \in Vectored /\ n > 1
  <2> TAKE i \in 1..n
  <2>1. CASE kind \notin Vectored
    BY <1>2, <1>6, <2>1 DEF ArraySpan
  <2>2. CASE kind \in Vectored
    <3>1. n > 0 => spans[1].of = "view"
      BY <1>6, <2>2 DEF ArraySpan
    <3>2. \A j \in 3..n : spans[j].of \in {"view", "copy"}
      BY <1>6, <2>2 DEF ArraySpan, Buffer
    <3>3. i = 1 \/ i = 2 \/ i \in 3..n
      BY <1>2
    <3> QED
      BY <1>2, <2>2, <3>1, <3>2, <3>3 DEF Array
  <2> QED
    BY <2>1, <2>2
<1>9. ASSUME NEW i \in 1..n, spans[i].of \notin Array, NEW k \in 0..spans[i].count - 1
      PROVE  cells[spans[i].at + k] = frame.cells[spans[i].at + k]
  <2>1. spans[i].at + k # p
    <3>1. CASE kind \in Vectored /\ n > 1
      <4>1. i # 2
        BY <1>7, <1>9, <3>1
      <4> QED
        <5>1. 2 \in DOMAIN spans /\ i \in DOMAIN spans /\ 2 * (n - 2) \in 0..spans[2].count - 1
          BY <1>2, <1>7, <3>1
        <5>2. p = spans[2].at + 2 * (n - 2)
          BY <1>7, <3>1
        <5>3. spans[i].at + k # spans[2].at + 2 * (n - 2)
          BY <1>1, <1>3, <1>4, <4>1, <5>1, OneSpan
        <5> QED
          BY <5>2, <5>3
    <3>2. CASE ~(kind \in Vectored /\ n > 1)
      <4>1. p = -1
        BY <3>2
      <4>2. spans[i].at + k >= 0
        BY <1>5
      <4> QED
        BY <4>1, <4>2
    <3> QED
      BY <3>1, <3>2
  <2>2. i \in DOMAIN spans
    BY <1>2
  <2>3. spans[i].at + k \in 0..frame.offset - 1
    BY <1>1, <1>3, <1>4, <2>2, CellBefore
  <2> QED
    BY <2>1, <2>3
<1>10. ASSUME NEW i \in 1..n, spans[i].of \in Array, NEW k \in 0..spans[i].count - 1
       PROVE  /\ i = 2 /\ kind \in Vectored /\ n > 1
              /\ k = 2 * (n - 2) => cells[spans[i].at + k] = Address(frame.offset)
              /\ k # 2 * (n - 2) => cells[spans[i].at + k] = frame.cells[spans[i].at + k]
  <2>1. i = 2 /\ kind \in Vectored /\ n > 1
    BY <1>8, <1>10
  <2>2. k = 2 * (n - 2) => cells[spans[i].at + k] = Address(frame.offset)
    BY <1>7, <2>1
  <2>3. ASSUME k # 2 * (n - 2)
        PROVE  cells[spans[i].at + k] = frame.cells[spans[i].at + k]
    <3>1. spans[i].at + k # p
      <4>1. p = spans[2].at + 2 * (n - 2) /\ spans[2].at \in Nat
        BY <1>5, <1>7, <2>1
      <4>2. 2 * (n - 2) \in Int /\ k \in Int
        BY <1>2
      <4> QED
        BY <2>1, <2>3, <4>1, <4>2, SMTT(30)
    <3>2. i \in DOMAIN spans
      BY <1>2
    <3>3. spans[i].at + k \in 0..frame.offset - 1
      BY <1>1, <1>3, <1>4, <3>2, CellBefore
    <3> QED
      BY <3>1, <3>3
  <2> QED
    BY <2>1, <2>2, <2>3
<1>11. Address(frame.offset) \in Cell
  BY <1>3, AddressCell DEF IInv
<1> HIDE DEF n, spans, all
<1>13. NoJunk'
  <2>1. ASSUME NEW i \in 1..n + 1, all[i].of # "path", NEW k \in 0..all[i].count - 1
        PROVE  cells[all[i].at + k] \in Cell
    <3>1. CASE i = n + 1
      BY <1>2, <1>3, <2>1, <3>1
    <3>2. CASE i \in 1..n
      <4>1. all[i] = spans[i] /\ spans[i].of # "path" /\ k \in 0..spans[i].count - 1
        BY <1>2, <2>1, <3>2
      <4>2. frame.cells[spans[i].at + k] \in Cell
        BY <1>2, <1>6, <3>2, <4>1 DEF NoJunk, spans
      <4> QED
        BY <1>9, <1>10, <1>11, <3>2, <4>1, <4>2
    <3> QED
      BY <1>2, <2>1, <3>1, <3>2
  <2> QED
    BY <1>1, <1>2, <2>1 DEF NoJunk
<1>14. ASSUME NEW i \in 1..n + 1, all[i].of # "path", NEW k \in 0..all[i].count - 1
       PROVE  cells[all[i].at + k] = Expected(all[i], k, all)
  <2>1. CASE i = n + 1
    <3>1. ~Pointed(s, k, all)
      <4> SUFFICES ASSUME s.of \in Array
                   PROVE  ~(3 + k \div 2 <= n + 1)
        BY <1>2 DEF Pointed
      <4>1. n = 1 /\ k \in Nat
        BY <1>2, <1>3, <2>1 DEF n, spans
      <4> QED
        BY <4>1
    <3>2. cells[s.at + k] = guest[s.addr + k]
      BY <1>2, <1>3, <2>1, <1>14
    <3> QED
      BY <1>2, <2>1, <3>1, <3>2 DEF Expected
  <2>2. CASE i \in 1..n
    <3>1. all[i] = spans[i] /\ spans[i].of # "path" /\ k \in 0..spans[i].count - 1
      BY <1>2, <1>14, <2>2
    <3>2. frame.cells[spans[i].at + k] = Expected(spans[i], k, spans)
      BY <1>2, <1>6, <2>2, <3>1 DEF CellsCopied, spans
    <3>3. CASE spans[i].of \notin Array
      <4>1. ~Pointed(spans[i], k, spans) /\ ~Pointed(spans[i], k, all)
        BY <3>3 DEF Pointed
      <4> QED
        BY <1>9, <2>2, <3>1, <3>2, <3>3, <4>1 DEF Expected
    <3>4. CASE spans[i].of \in Array
      <4>1. i = 2 /\ kind \in Vectored /\ n > 1 /\ n \in Nat /\ k \in Nat
        BY <1>2, <1>10, <2>2, <3>1, <3>4
      <4>2. CASE k = 2 * (n - 2)
        <5>1. k % 2 = 0 /\ 3 + k \div 2 = n + 1
          BY <4>1, <4>2
        <5>2. Pointed(spans[i], k, all)
          BY <1>2, <3>4, <5>1 DEF Pointed
        <5>3. all[3 + k \div 2].at = frame.offset
          BY <1>2, <1>3, <5>1
        <5> QED
          BY <1>10, <2>2, <3>1, <3>4, <4>2, <5>2, <5>3 DEF Expected
      <4>3. CASE k # 2 * (n - 2)
        <5>1. k % 2 = 0 => 3 + k \div 2 # n + 1
          BY <4>1, <4>3
        <5>2. k \div 2 \in Nat
          BY <4>1
        <5>3. Pointed(spans[i], k, all) <=> Pointed(spans[i], k, spans)
          <6>1. Len(spans) = n
            BY DEF n, spans
          <6>2. k % 2 = 0 => (3 + k \div 2 <= n + 1 <=> 3 + k \div 2 <= n)
            BY <4>1, <5>1, <5>2
          <6> QED
            BY <1>2, <6>1, <6>2 DEF Pointed
        <5>4. Pointed(spans[i], k, spans) => all[3 + k \div 2] = spans[3 + k \div 2]
          <6> SUFFICES ASSUME Pointed(spans[i], k, spans)
                       PROVE  3 + k \div 2 \in 1..n
            BY <1>2
          <6>1. 3 + k \div 2 <= n
            BY DEF Pointed, n, spans
          <6> QED
            BY <4>1, <5>2, <6>1
        <5>5. Expected(spans[i], k, all) = Expected(spans[i], k, spans)
          BY <5>3, <5>4 DEF Expected
        <5> QED
          BY <1>10, <2>2, <3>1, <3>2, <3>4, <4>3, <5>5
      <4> QED
        BY <4>2, <4>3
    <3> QED
      BY <3>3, <3>4
  <2> QED
    BY <1>2, <2>1, <2>2
<1>15. CellsCopied'
  <2>1. \A x, k, a : Expected(x, k, a)' = Expected(x, k, a)
    BY DEF Expected, Address
  <2>2. ASSUME NEW i \in DOMAIN all, all[i].of # "path", NEW k \in 0..all[i].count - 1
        PROVE  cells[all[i].at + k] = Expected(all[i], k, all)
    BY <1>2, <1>14, <2>2
  <2> QED
    BY <1>1, <2>1, <2>2, SMTT(60) DEF CellsCopied
<1> QED
  BY <1>13, <1>15

(* In a call without iovecs a part that is no array is followed by the rest.  *)
LEMMA OtherAlloc ==
  ASSUME IInv, pc = "refer", todo # <<>>, NEW h, h = Head(todo), NEW cells,
         Fits(h.count), h.count <= GuestSize \/ h.count <= DirSize + FrameSize + 2,
         frame' = Allocated(h, cells), todo' = Tail(todo), UNCHANGED <<guest, lost, pc, kind>>,
         kind \notin Vectored, h.of \notin Array,
         \A c \in 0..frame.offset - 1 : cells[c] = frame.cells[c], CopiedIn(h, cells)
  PROVE  NoJunk' /\ Vectors' /\ CellsCopied'
<1> DEFINE s == [addr |-> h.addr, count |-> h.count, of |-> h.of, at |-> frame.offset]
<1>1. NoJunk' /\ CellsCopied'
  <2>1. -1 \in Int /\ PointsAt(-1, cells) /\ KeptBut(-1, cells)
    BY DEF PointsAt, KeptBut
  <2>2. s = [addr |-> h.addr, count |-> h.count, of |-> h.of, at |-> frame.offset]
    OBVIOUS
  <2> HIDE DEF s
  <2> QED
    BY <2>1, <2>2, AllocCells, SMTT(30)
<1>2. /\ frame'.spans = Append(frame.spans, s) /\ frame.spans \in Seq(Span)
      /\ todo \in Seq(PartType)
  BY FrameAllocated DEF IInv, Bounded
<1>3. ArraySpan(kind, Append(frame.spans, s), guest)
  <2>1. \A i \in DOMAIN frame.spans : frame.spans[i].of \notin Array
    BY DEF IInv, Vectors, ArraySpan
  <2>2. s.of \notin Array
    OBVIOUS
  <2>3. \A i \in DOMAIN Append(frame.spans, s) : Append(frame.spans, s)[i].of \notin Array
    BY <1>2, <2>1, <2>2
  <2> QED
    BY <2>3 DEF ArraySpan
<1>4. VectorParts(kind, Append(frame.spans, s), Tail(todo), guest)
  <2>1. \A m \in DOMAIN todo : todo[m].of \in Array => kind = "unreserved" /\ todo[m].of = "iovs"
    BY DEF IInv, Vectors, VectorParts
  <2>2. \A m \in DOMAIN Tail(todo) : m + 1 \in DOMAIN todo /\ Tail(todo)[m] = todo[m + 1]
    BY <1>2
  <2> QED
    BY <2>1, <2>2 DEF VectorParts
<1> QED
  BY <1>1, <1>2, <1>3, <1>4 DEF Vectors

(* Part h is an array, and these are the buffers of the iovecs it has in mem. *)
Gives(h, buffers, mem) ==
  /\ Len(buffers) = h.count \div 2
  /\ \A m \in 1..Len(buffers) :
       /\ buffers[m].of \in {"view", "copy"}
       /\ buffers[m].addr = mem[h.addr + 2 * (m - 1)]
       /\ buffers[m].count = mem[h.addr + 2 * (m - 1) + 1]

(* A copied array gives the buffers that the guest's array does.              *)
LEMMA BuffersGiven ==
  ASSUME IInv, NEW h \in PartType, h.of \in Array, NEW raw,
         \A k \in 0..h.count - 1 : raw[frame.offset + k] = guest[h.addr + k]
  PROVE  Gives(h, Buffers(h, raw), guest)
<1>1. frame.offset \in Nat /\ h.addr \in Nat /\ h.count \in Nat
  <2>1. h.addr \in Cell /\ h.count \in Nat
    BY DEF PartType
  <2>2. frame.offset \in Nat
    BY DEF IInv, Typed, FrameType
  <2> QED
    BY <2>1, <2>2, Sizes_
<1>2. Buffers(h, raw) = [i \in 1..h.count \div 2 |->
                           Part(raw[frame.offset + 2 * i - 2], raw[frame.offset + 2 * i - 1],
                                IF h.of = "iovs" THEN "view" ELSE "copy")]
  BY DEF Buffers, Array
<1>3. h.count \div 2 \in Nat
  BY <1>1
<1>4. Len(Buffers(h, raw)) = h.count \div 2
  BY <1>2, <1>3
<1>5. ASSUME NEW m \in 1..h.count \div 2
      PROVE  /\ Buffers(h, raw)[m].of \in {"view", "copy"}
             /\ Buffers(h, raw)[m].addr = guest[h.addr + 2 * (m - 1)]
             /\ Buffers(h, raw)[m].count = guest[h.addr + 2 * (m - 1) + 1]
  <2>1. 2 * (m - 1) \in 0..h.count - 1 /\ 2 * (m - 1) + 1 \in 0..h.count - 1
    BY <1>1
  <2>2. /\ frame.offset + 2 * m - 2 = frame.offset + 2 * (m - 1)
        /\ frame.offset + 2 * m - 1 = frame.offset + (2 * (m - 1) + 1)
        /\ h.addr + 2 * (m - 1) + 1 = h.addr + (2 * (m - 1) + 1)
    BY <1>1
  <2>3. /\ raw[frame.offset + 2 * (m - 1)] = guest[h.addr + 2 * (m - 1)]
        /\ raw[frame.offset + (2 * (m - 1) + 1)] = guest[h.addr + (2 * (m - 1) + 1)]
    BY <2>1
  <2> QED
    BY <1>2, <2>2, <2>3 DEF Part
<1> QED
  BY <1>4, <1>5 DEF Gives

(* In a call with iovecs the array comes after a view, and then the buffers   *)
(* that its iovecs give.                                                      *)
LEMMA VectorAlloc ==
  ASSUME NEW k \in Vectored, NEW spans \in Seq(Span), NEW parts \in Seq(PartType), parts # <<>>,
         NEW mem, ArraySpan(k, spans, mem), VectorParts(k, spans, parts, mem),
         NEW h \in PartType, h = Head(parts), NEW s \in Span,
         s.of = h.of, s.addr = h.addr, s.count = h.count,
         NEW buffers \in Seq(PartType), h.of \notin Array => buffers = <<>>,
         h.of \in Array => Gives(h, buffers, mem)
  PROVE  /\ ArraySpan(k, Append(spans, s), mem)
         /\ VectorParts(k, Append(spans, s), buffers \o Tail(parts), mem)
         /\ h.of \in Array => Len(spans) = 1
<1> DEFINE n == Len(spans)
           all == Append(spans, s)
           rest == buffers \o Tail(parts)
<1>2. /\ n \in Nat /\ Len(all) = n + 1 /\ all[n + 1] = s /\ \A i \in 1..n : all[i] = spans[i]
  OBVIOUS
<1>3. h = parts[1] /\ Len(parts) \in Nat /\ Len(parts) >= 1
  OBVIOUS
<1>4. /\ n = 0 => Len(parts) = 2 /\ parts[1].of = "view" /\ parts[2].of \in Array
      /\ n = 1 => Len(parts) = 1 /\ parts[1].of \in Array
      /\ n > 0 => spans[1].of = "view"
      /\ n > 1 => spans[2].of \in Array /\ n + Len(parts) = 2 + spans[2].count \div 2
      /\ n > 1 => \A m \in 1..Len(parts) : Buffer(parts[m], n + m, spans, mem)
      /\ \A i \in 3..n : Buffer(spans[i], i, spans, mem)
  BY DEF ArraySpan, VectorParts
<1>5. /\ Tail(parts) \in Seq(PartType) /\ Len(Tail(parts)) = Len(parts) - 1
      /\ \A m \in 1..Len(parts) - 1 : Tail(parts)[m] = parts[m + 1]
  OBVIOUS
<1>6. h.of \notin Array => rest = Tail(parts)
  BY <1>5, ConcatEmptySeq
<1> HIDE DEF n, all, rest
<1>7. CASE n = 0
  <2>1. all[1] = s /\ h.of = "view"
    BY <1>2, <1>3, <1>4, <1>7
  <2>2. h.of \notin Array
    BY <2>1 DEF Array
  <2>3. Len(parts) = 2 /\ parts[2].of \in Array
    BY <1>4, <1>7
  <2>4. Len(Tail(parts)) = 1 /\ Tail(parts)[1] = parts[2]
    <3>1. 1 \in 1..Len(parts) - 1 /\ 1 + 1 = 2
      BY <2>3
    <3>2. Tail(parts)[1] = parts[1 + 1]
      BY <1>5, <3>1
    <3>3. Len(parts) - 1 = 1
      BY <2>3
    <3> QED
      BY <1>5, <3>1, <3>2, <3>3
  <2>5. Len(rest) = 1 /\ rest[1].of \in Array
    BY <1>6, <2>2, <2>3, <2>4
  <2>6. Len(all) = 1
    BY <1>2, <1>7
  <2>7. ArraySpan(k, all, mem)
    BY <2>1, <2>6 DEF ArraySpan
  <2>8. VectorParts(k, all, rest, mem)
    BY <2>5, <2>6 DEF VectorParts
  <2> QED
    BY <2>2, <2>7, <2>8 DEF all, rest
<1>8. CASE n = 1
  <2>1. /\ Len(all) = 2 /\ all[1].of = "view" /\ all[2].of \in Array /\ h.of \in Array
        /\ all[2].addr = h.addr /\ all[2].count = h.count
    <3>1. Len(all) = 2 /\ all[1] = spans[1] /\ all[2] = s
      BY <1>2, <1>8
    <3>2. spans[1].of = "view" /\ h.of \in Array
      BY <1>3, <1>4, <1>8
    <3> QED
      BY <3>1, <3>2
  <2>2. Gives(h, buffers, mem)
    BY <2>1
  <2>3. rest = buffers
    <3>1. Len(Tail(parts)) = 0
      BY <1>4, <1>5, <1>8
    <3>2. Tail(parts) = <<>>
      BY <1>5, <3>1, EmptySeq
    <3>3. buffers \o <<>> = buffers
      BY ConcatEmptySeq
    <3> QED
      BY <3>2, <3>3 DEF rest
  <2>4. Len(rest) = h.count \div 2 /\ Len(rest) \in Nat
    BY <2>2, <2>3 DEF Gives
  <2>5. ASSUME NEW m \in 1..Len(rest)
        PROVE  Buffer(rest[m], 2 + m, all, mem)
    <3>1. (2 + m) - 3 = m - 1
      BY <2>4
    <3> QED
      BY <2>1, <2>2, <2>3, <3>1 DEF Gives, Buffer
  <2>6. ArraySpan(k, all, mem)
    BY <2>1 DEF ArraySpan
  <2>7. VectorParts(k, all, rest, mem)
    BY <2>1, <2>4, <2>5 DEF VectorParts
  <2> QED
    BY <1>8, <2>6, <2>7 DEF all, rest, n
<1>9. CASE n > 1
  <2>1. h.of \in {"view", "copy"} /\ Buffer(h, n + 1, spans, mem)
    <3>1. 1 \in 1..Len(parts)
      BY <1>3
    <3> QED
      BY <1>3, <1>4, <1>9, <3>1 DEF Buffer
  <2>2. h.of \notin Array
    BY <2>1 DEF Array
  <2>3. all[1] = spans[1] /\ all[2] = spans[2] /\ Len(all) = n + 1
    BY <1>2, <1>9
  <2>4. \A b, i : Buffer(b, i, all, mem) <=> Buffer(b, i, spans, mem)
    BY <2>3 DEF Buffer
  <2>5. rest = Tail(parts)
    BY <1>6, <2>2
  <2>6. \A i \in 3..n + 1 : Buffer(all[i], i, all, mem)
    <3> TAKE i \in 3..n + 1
    <3>1. CASE i \in 3..n
      <4>1. all[i] = spans[i]
        BY <1>2, <3>1
      <4> QED
        BY <1>4, <2>4, <3>1, <4>1
    <3>2. CASE i = n + 1
      <4>1. Buffer(s, n + 1, spans, mem)
        BY <2>1 DEF Buffer
      <4> QED
        BY <1>2, <2>4, <3>2, <4>1
    <3> QED
      BY <1>2, <3>1, <3>2
  <2>7. \A m \in 1..Len(parts) - 1 : Buffer(rest[m], (n + 1) + m, all, mem)
    <3> TAKE m \in 1..Len(parts) - 1
    <3>1. m + 1 \in 1..Len(parts) /\ n + (m + 1) = (n + 1) + m
      BY <1>2, <1>3
    <3>2. Buffer(parts[m + 1], n + (m + 1), spans, mem)
      BY <1>4, <1>9, <3>1
    <3> QED
      BY <1>5, <2>4, <2>5, <3>1, <3>2
  <2>8. (n + 1) + (Len(parts) - 1) = 2 + spans[2].count \div 2
    <3>1. n + Len(parts) = 2 + spans[2].count \div 2
      BY <1>4, <1>9
    <3>2. (n + 1) + (Len(parts) - 1) = n + Len(parts)
      BY <1>2, <1>3
    <3> QED
      BY <3>1, <3>2
  <2>9. Len(rest) = Len(parts) - 1
    BY <1>5, <2>5
  <2>10. spans[1].of = "view" /\ spans[2].of \in Array
    BY <1>2, <1>4, <1>9
  <2>11. ArraySpan(k, all, mem)
    BY <2>3, <2>6, <2>10 DEF ArraySpan
  <2>12. VectorParts(k, all, rest, mem)
    <3>1. n + 1 # 0 /\ n + 1 # 1
      BY <1>2, <1>9
    <3> QED
      BY <2>3, <2>7, <2>8, <2>9, <3>1 DEF VectorParts
  <2> QED
    BY <2>2, <2>11, <2>12 DEF all, rest
<1>10. n = 0 \/ n = 1 \/ n > 1
  BY <1>2
<1> QED
  BY <1>7, <1>8, <1>9, <1>10

(* Where the pointer of an iovec is stored: in the array, so in the frame.    *)
LEMMA IovecInFrame ==
  ASSUME IInv, pc = "refer", todo # <<>>, kind \in Vectored, Len(frame.spans) > 1
  PROVE  IovecSlot(Len(frame.spans) - 1) \in 0..frame.offset - 1
<1> DEFINE n == Len(frame.spans)
<1>1. frame.spans \in Seq(Span) /\ n \in Nat /\ frame.offset \in Nat
  BY DEF IInv, Typed, FrameType
<1>2. frame.spans[2] \in Span /\ 2 \in DOMAIN frame.spans
  BY <1>1
<1>3. frame.spans[2].at \in Nat /\ frame.spans[2].count \in Nat
  BY <1>2, SpanFields
<1>4. n + Len(todo) = 2 + frame.spans[2].count \div 2
  BY DEF IInv, Vectors, VectorParts
<1>5. Len(todo) \in Nat /\ Len(todo) >= 1
  BY DEF IInv, Bounded
<1>6. frame.spans[2].at + frame.spans[2].count <= frame.offset
  BY <1>2 DEF IInv, SpansApart
<1>7. n - 2 < frame.spans[2].count \div 2
  BY <1>1, <1>3, <1>4, <1>5
<1>8. 2 * (n - 2) <= frame.spans[2].count - 1
  BY <1>1, <1>3, <1>7
<1> QED
  BY <1>1, <1>3, <1>6, <1>8 DEF IovecSlot

(* ref_array copies in a part that is no path, or throws.                     *)
LEMMA RefArrayInv ==
  ASSUME IInv, ref_array
  PROVE  IInv'
<1> PICK h : h = Head(todo)
  OBVIOUS
<1> DEFINE raw == copy_in(h.addr, frame.offset, h.count)
           cells == Repointed(raw)
           s == [addr |-> h.addr, count |-> h.count, of |-> h.of, at |-> frame.offset]
<1>1. pc = "refer" /\ todo # <<>> /\ h.of # "path"
  BY DEF ref_array
<1>2. h \in PartType /\ todo \in Seq(PartType)
  BY <1>1 DEF IInv, Bounded
<1>3. CASE Throw("REQUIRE") \/ Throw("RangeError") \/ Throw("abort")
  BY <1>1, <1>3, ThrowInv DEF Thrown
<1>4. CASE /\ Fits(h.count) /\ given /\ InGuest(h.addr, h.count)
           /\ ~(kind = "unreserved" /\ h.of = "iovs")
           /\ frame' = Allocated(h, cells)
           /\ todo' = Buffers(h, raw) \o Tail(todo)
           /\ UNCHANGED <<given, guest, lost, pc, kind, cursor, ret, before, calls>>
  <2>1. h.addr \in Cell /\ h.count \in Nat /\ h.count <= GuestSize
    BY <1>2, <1>4, Sizes_ DEF PartType, InGuest, Cell
  <2>2. frame.offset + h.count <= FrameSize
    BY <2>1, <1>4, AllocBound DEF IInv
  <2>3. /\ raw \in [Slot -> FrameCell]
        /\ \A c \in 0..frame.offset - 1 : raw[c] = frame.cells[c]
        /\ \A k \in 0..h.count - 1 : raw[frame.offset + k] = guest[h.addr + k]
        /\ \A k \in 0..h.count - 1 : raw[frame.offset + k] \in Cell
    BY <1>4, <2>1, <2>2, CopyInCells DEF IInv
  <2>4. frame.offset \in Nat /\ frame.offset <= FrameSize
    BY DEF IInv, Typed, FrameType
  <2>5. Address(frame.offset) \in Cell
    BY <2>4, AddressCell DEF IInv
  <2> HIDE DEF raw
  <2>6. /\ Buffers(h, raw) \in Seq(PartType)
        /\ \A i \in DOMAIN Buffers(h, raw) : Buffers(h, raw)[i].of # "path"
        /\ h.of \notin Array => Buffers(h, raw) = <<>>
    BY <1>2, <2>3, BufferParts DEF Array
  <2>7. CASE kind \notin Vectored
    <3>1. cells = raw
      BY <2>7 DEF Repointed
    <3>2. h.of \notin Array
      <4>1. 1 \in DOMAIN todo /\ h = todo[1]
        BY <1>1, <1>2
      <4> QED
        BY <1>1, <1>4, <2>7, <4>1 DEF IInv, Vectors, VectorParts
    <3>3. todo' = Tail(todo)
      <4>1. Tail(todo) \in Seq(PartType)
        BY <1>1, <1>2
      <4> QED
        BY <1>4, <2>6, <3>2, <4>1
    <3> HIDE DEF cells
    <3>4. CopiedIn(h, cells)
      BY <2>3, <3>1 DEF CopiedIn
    <3>5. NoJunk' /\ Vectors' /\ CellsCopied'
      BY <1>1, <1>4, <2>1, <2>3, <2>7, <3>1, <3>2, <3>3, <3>4, OtherAlloc
    <3> QED
      BY <1>1, <1>4, <2>1, <2>3, <2>6, <3>1, <3>5, AllocInv
  <2>8. CASE kind \in Vectored
    <3> DEFINE p == IF Len(frame.spans) > 1 THEN IovecSlot(Len(frame.spans) - 1) ELSE -1
    <3>1. Len(frame.spans) > 1 => p \in 0..frame.offset - 1
      BY <1>1, <2>8, IovecInFrame
    <3>2. p \in Int
      BY <2>4, <3>1
    <3>3. cells = IF Len(frame.spans) > 1 THEN [raw EXCEPT ![p] = Address(frame.offset)] ELSE raw
      BY <2>8 DEF Repointed
    <3> HIDE DEF p, cells
    <3>4. cells \in [Slot -> FrameCell]
      BY <2>3, <2>5, <3>3 DEF FrameCell
    <3>5. Len(frame.spans) > 1 => cells[p] = Address(frame.offset)
      <4>1. Len(frame.spans) > 1 => p \in Slot
        BY <2>4, <3>1 DEF Slot
      <4> QED
        BY <2>3, <3>3, <4>1
    <3>6. KeptBut(p, cells)
      <4> SUFFICES ASSUME NEW c \in 0..frame.offset - 1, c # p
                   PROVE  cells[c] = raw[c]
        BY <2>3 DEF KeptBut
      <4>1. c \in Slot
        BY <2>4 DEF Slot
      <4> QED
        BY <2>3, <3>3, <4>1
    <3>7. CopiedIn(h, cells)
      <4> SUFFICES ASSUME NEW k \in 0..h.count - 1
                   PROVE  cells[frame.offset + k] = raw[frame.offset + k]
        BY <2>3 DEF CopiedIn
      <4>1. frame.offset + k \in Slot /\ (Len(frame.spans) > 1 => frame.offset + k # p)
        BY <2>1, <2>2, <2>4, <3>1 DEF Slot
      <4> QED
        BY <2>3, <3>3, <4>1
    <3>8. Vectors' /\ (h.of \in Array => Len(frame.spans) = 1)
      <4>1. ArraySpan(kind, frame.spans, guest) /\ VectorParts(kind, frame.spans, todo, guest)
        BY <1>1 DEF IInv, Vectors
      <4>2. frame'.spans = Append(frame.spans, s) /\ frame.spans \in Seq(Span) /\ s \in Span
        BY <1>1, <1>4, <2>1, FrameAllocated
      <4>3. h.of \in Array => Gives(h, Buffers(h, raw), guest)
        BY <1>2, <2>3, BuffersGiven
      <4>4. s.of = h.of /\ s.addr = h.addr /\ s.count = h.count
        OBVIOUS
      <4> HIDE DEF s
      <4>5. /\ ArraySpan(kind, Append(frame.spans, s), guest)
            /\ VectorParts(kind, Append(frame.spans, s), Buffers(h, raw) \o Tail(todo), guest)
            /\ h.of \in Array => Len(frame.spans) = 1
        BY <1>1, <1>2, <2>6, <2>8, <4>1, <4>2, <4>3, <4>4, VectorAlloc
      <4> QED
        BY <1>4, <4>2, <4>5 DEF Vectors
    <3>9. PointsAt(p, cells)
      BY <2>8, <3>5 DEF p, PointsAt
    <3>10. NoJunk' /\ CellsCopied'
      <4>1. s = [addr |-> h.addr, count |-> h.count, of |-> h.of, at |-> frame.offset]
        OBVIOUS
      <4> HIDE DEF s
      <4>2. /\ Fits(h.count) /\ frame' = Allocated(h, cells)
            /\ UNCHANGED <<guest, lost, pc, kind>>
            /\ h.count <= GuestSize \/ h.count <= DirSize + FrameSize + 2
        BY <1>4, <2>1
      <4>3. h.of \in Array => Len(frame.spans) = 1
        BY <3>8
      <4> QED
        BY <1>1, <3>2, <3>6, <3>7, <3>9, <4>1, <4>2, <4>3, AllocCells, ZenonT(60)
    <3> QED
      BY <1>1, <1>4, <2>1, <2>6, <3>4, <3>8, <3>10, AllocInv
  <2> QED
    BY <2>7, <2>8
<1> QED
  BY <1>1, <1>3, <1>4 DEF ref_array, cells, raw

(* resolve_path answers an error, throws, or allocates the path.              *)
LEMMA ResolvePathInv ==
  ASSUME IInv, resolve_path
  PROVE  IInv'
<1> PICK h : h = Head(todo)
  OBVIOUS
<1>1. pc = "refer" /\ todo # <<>> /\ h.of = "path"
  BY DEF resolve_path
<1>2. frame.cells \in [Slot -> FrameCell] /\ todo \in Seq(PartType) /\ Sized(todo)
  BY <1>1 DEF IInv, Typed, FrameType, Bounded
<1>3. CASE Throw("REQUIRE")
  BY <1>1, <1>3, ThrowInv DEF Thrown
<1>4. CASE Answer("errno", frame.cells)
  BY <1>1, <1>2, <1>4, AnswerInv
<1>5. CASE /\ Fits(h.count)
           /\ frame' = Allocated(h, frame.cells)
           /\ todo' = Tail(todo)
           /\ UNCHANGED <<given, guest, lost, pc, kind, cursor, ret, before, calls>>
  <2>1. h.count <= DirSize + FrameSize + 2
    <3>1. h = todo[1] /\ 1 \in DOMAIN todo
      BY <1>1, <1>2
    <3>2. \A j \in 1..1 - 1 : FALSE
      OBVIOUS
    <3> QED
      BY <1>1, <1>2, <3>1, <3>2 DEF Sized
  <2>2. <<>> \in Seq(PartType) /\ DOMAIN <<>> = {} /\ <<>> \o Tail(todo) = Tail(todo)
    BY <1>1, <1>2
  <2> DEFINE s == [addr |-> h.addr, count |-> h.count, of |-> h.of, at |-> frame.offset]
  <2>3. kind \notin Vectored
    <3>1. todo[1].of = "path" /\ Len(todo) >= 1 /\ 1 \in 1..Len(todo)
      BY <1>1, <1>2
    <3>2. Len(frame.spans) \in Nat
      BY DEF IInv, Typed, FrameType
    <3>3. ASSUME kind \in Vectored PROVE FALSE
      <4>1. CASE Len(frame.spans) = 0
        BY <1>1, <3>1, <3>3, <4>1 DEF IInv, Vectors, VectorParts
      <4>2. CASE Len(frame.spans) = 1
        BY <1>1, <3>1, <3>3, <4>2 DEF IInv, Vectors, VectorParts, Array
      <4>3. CASE Len(frame.spans) > 1
        BY <1>1, <3>1, <3>3, <4>3 DEF IInv, Vectors, VectorParts, Buffer
      <4>4. Len(frame.spans) = 0 \/ Len(frame.spans) = 1 \/ Len(frame.spans) > 1
        BY <3>2, FewOrMany
      <4> QED
        BY <4>1, <4>2, <4>3, <4>4
    <3> QED
      BY <3>3
  <2>4. s.of = "path" /\ s.of \notin Array
    BY <1>1 DEF Array
  <2>5. CopiedIn(h, frame.cells)
    BY <1>1 DEF CopiedIn
  <2>6. NoJunk' /\ Vectors' /\ CellsCopied'
    BY <1>1, <1>2, <1>5, <2>1, <2>3, <2>4, <2>5, OtherAlloc
  <2> QED
    BY <1>1, <1>2, <1>5, <2>1, <2>2, <2>6, AllocInv
<1> QED
  BY <1>1, <1>3, <1>4, <1>5 DEF resolve_path

(* Storing data in slots leaves every cell as it was, or a cell of the data.  *)
LEMMA FilledCells ==
  ASSUME NEW cells \in [Slot -> FrameCell], NEW slots, NEW data,
         \A j \in DOMAIN data : data[j] \in Cell
  PROVE  \A c \in Slot : Filled(cells, slots, data)[c] = cells[c]
                         \/ Filled(cells, slots, data)[c] \in Cell
<1> SUFFICES ASSUME NEW c \in Slot, NEW i \in DOMAIN data, slots[i] = c
             PROVE  data[CHOOSE j \in DOMAIN data : slots[j] = c] \in Cell
  BY DEF Filled
<1> QED
  OBVIOUS

(* The answer of a call that has stored data in its frame.                    *)
LEMMA StoredInv ==
  ASSUME IInv, pc = "refer", NEW slots, NEW data,
         \A j \in DOMAIN data : data[j] \in Cell,
         Answer("SUCCESS", Filled(frame.cells, slots, data))
  PROVE  IInv'
<1>1. frame.cells \in [Slot -> FrameCell]
  BY DEF IInv, Typed, FrameType
<1> QED
  BY <1>1, FilledType, FilledCells, AnswerInv

(* One cell is a sequence of cells.                                           *)
LEMMA OneCell == \A c \in Cell : <<c>> \in Seq(Cell) /\ \A j \in DOMAIN <<c>> : <<c>>[j] \in Cell
  OBVIOUS

(* serve stores cells in the frame, and leaves the guest's memory alone.      *)
LEMMA ServeInv ==
  ASSUME IInv, serve
  PROVE  IInv'
<1>1. pc = "refer" /\ todo = <<>> /\ frame.cells \in [Slot -> FrameCell]
  BY DEF serve, IInv, Typed, FrameType
<1>2. CASE Answer("errno", frame.cells) \/ Answer("SUCCESS", frame.cells)
  BY <1>1, <1>2, AnswerInv
<1>3. CASE Throw("REQUIRE")
  BY <1>1, <1>3, ThrowInv DEF Thrown
<1>4. CASE Answer("SUCCESS", Filled(frame.cells, SlotsFrom(1), <<Result>>))
  BY <1>1, <1>4, OneCell, DataAssumption, StoredInv
<1>5. CASE Answer("SUCCESS", Filled(frame.cells, SlotsFrom(1),
                                    [j \in 1..Len(SlotsFrom(1)) |-> Result]))
  <2>1. \A j \in DOMAIN [i \in 1..Len(SlotsFrom(1)) |-> Result] :
          [i \in 1..Len(SlotsFrom(1)) |-> Result][j] \in Cell
    BY DataAssumption
  <2> QED
    BY <1>1, <1>5, <2>1, StoredInv
<1>6. ASSUME NEW n \in 0..Len(FileData),
             Answer("SUCCESS", Filled(Filled(frame.cells, SlotsFrom(3), SubSeq(FileData, 1, n)),
                                      SlotsFrom(1), <<n % Word>>))
      PROVE  IInv'
  <2> DEFINE data == SubSeq(FileData, 1, n)
             inner == Filled(frame.cells, SlotsFrom(3), data)
  <2>1. \A j \in DOMAIN data : data[j] \in Cell
    <3>1. data \in Seq(Cell)
      BY DataAssumption
    <3> QED
      BY <3>1, ElementOfSeq
  <2>2. inner \in [Slot -> FrameCell]
    BY <1>1, <2>1, FilledType
  <2>3. \A c \in Slot : inner[c] = frame.cells[c] \/ inner[c] \in Cell
    BY <1>1, <2>1, FilledCells
  <2>4. n % Word \in Cell
    BY DEF Cell
  <2> HIDE DEF inner
  <2> DEFINE outer == Filled(inner, SlotsFrom(1), <<n % Word>>)
  <2>5. outer \in [Slot -> FrameCell] /\ \A c \in Slot : outer[c] = inner[c] \/ outer[c] \in Cell
    BY <2>2, <2>4, OneCell, FilledType, FilledCells
  <2>6. Answer("SUCCESS", outer)
    BY <1>6 DEF inner
  <2> HIDE DEF outer
  <2>7. \A c \in Slot : outer[c] = frame.cells[c] \/ outer[c] \in Cell
    BY <2>3, <2>5
  <2> QED
    BY <1>1, <2>5, <2>6, <2>7, AnswerInv
<1>7. CASE /\ kind = "write"
           /\ Answer("SUCCESS", Filled(frame.cells, SlotsFrom(1),
                                       <<(frame.offset - 1 - frame.spans[2].count) % Word>>))
  <2>1. frame.spans \in Seq(Span) /\ frame.offset \in Nat
    BY DEF IInv, Typed, FrameType
  <2>2. Len(frame.spans) >= 2
    <3>1. Len(frame.spans) # 0 /\ Len(frame.spans) # 1
      BY <1>1, <1>7 DEF IInv, Vectors, VectorParts, Vectored
    <3>2. Len(frame.spans) \in Nat
      BY <2>1
    <3> QED
      BY <3>1, <3>2, FewOrMany
  <2>3. frame.spans[2] \in Span
    BY <2>1, <2>2
  <2>4. frame.spans[2].count \in Nat
    BY <2>3 DEF Span
  <2>5. (frame.offset - 1 - frame.spans[2].count) % Word \in Cell
    BY <2>1, <2>4, SMTT(30) DEF Cell
  <2> QED
    BY <1>1, <1>7, <2>5, OneCell, StoredInv
<1>8. ASSUME NEW n \in Cell, Answer("SUCCESS", Filled(frame.cells, SlotsFrom(1), <<n>>))
      PROVE  IInv'
  BY <1>1, <1>8, OneCell, StoredInv
<1> QED
  BY <1>1, <1>2, <1>3, <1>4, <1>5, <1>6, <1>7, <1>8 DEF serve

(* Writing a view back changes cells that were handed over, and none if the   *)
(* view still holds what the guest does.                                      *)
LEMMA WrittenBackCells ==
  ASSUME IInv, NEW i \in DOMAIN frame.spans, NEW s, s = frame.spans[i], s.of = "view"
  PROVE  /\ WrittenBack(s) \in [Guest -> Cell]
         /\ \A c \in Guest : WrittenBack(s)[c] # guest[c] => c \in HandedOver
         /\ SpanCopied(s) => WrittenBack(s) = guest
<1>1. /\ guest \in [Guest -> Cell] /\ frame.spans \in Seq(Span)
  BY DEF IInv, Typed, FrameType
<1>2. s \in Span
  BY <1>1, ElementOfSeq
<1>3. s.addr \in Nat /\ s.at \in Nat /\ s.count \in Nat
  BY <1>2, SpanFields
<1>4. \A c \in Guest : c \in s.addr..s.addr + s.count - 1 =>
        /\ c - s.addr \in 0..s.count - 1 /\ s.at + c - s.addr = s.at + (c - s.addr)
        /\ s.addr + (c - s.addr) = c
  BY <1>3 DEF Guest
<1>5. \A k \in 0..s.count - 1 : frame.cells[s.at + k] \in Cell
  BY DEF IInv, NoJunk
<1>6. WrittenBack(s) \in [Guest -> Cell]
  <2> SUFFICES ASSUME NEW c \in Guest, c \in s.addr..s.addr + s.count - 1
               PROVE  frame.cells[s.at + c - s.addr] \in Cell
    BY <1>1 DEF WrittenBack, destination
  <2> QED
    BY <1>4, <1>5
<1>7. \A c \in Guest : WrittenBack(s)[c] # guest[c] => c \in HandedOver
  <2> SUFFICES ASSUME NEW c \in Guest, c \in s.addr..s.addr + s.count - 1
               PROVE  c \in HandedOver
    BY <1>1 DEF WrittenBack, destination
  <2> QED
    BY DEF HandedOver
<1>8. SpanCopied(s) => WrittenBack(s) = guest
  <2> SUFFICES ASSUME SpanCopied(s), NEW c \in Guest, c \in s.addr..s.addr + s.count - 1
               PROVE  frame.cells[s.at + c - s.addr] = guest[c]
    BY <1>1 DEF WrittenBack, destination
  <2> QED
    BY <1>4 DEF SpanCopied
<1> QED
  BY <1>6, <1>7, <1>8

(* The views go back one by one, and the call returns.                        *)
LEMMA CopyOutInv ==
  ASSUME IInv, copy_out
  PROVE  IInv'
<1>1. /\ pc = "out" /\ given' = given /\ kind' = kind /\ todo' = todo /\ frame' = frame
      /\ ret' = ret /\ before' = before /\ calls' = calls
  BY DEF copy_out
<1>2. /\ kind \in Framed /\ lost < Frames /\ cursor \in 0..Len(frame.spans)
      /\ ret \in {"SUCCESS", "errno"}
      /\ ret = "errno" => guest = before /\ ViewsCopied
  BY <1>1 DEF IInv, Served_
<1>3. frame.spans \in Seq(Span) /\ Len(frame.spans) \in Nat /\ guest \in [Guest -> Cell]
  BY DEF IInv, Typed, FrameType
<1>4. ASSUME cursor = 0, pc' = "idle", lost' = lost, guest' = guest
      PROVE  IInv'
  <2>1. Typed' /\ NoJunk' /\ SpansApart'
    BY <1>1, <1>4 DEF IInv, Typed, NoJunk, SpansApart
  <2>2. Bounded' /\ Vectors' /\ Served_' /\ Filling' /\ SpansCopied'
    BY <1>4 DEF Bounded, Vectors, Served_, Filling, SpansCopied
  <2>3. OnlyHandedOver' /\ FrameLostByThrow'
    <3>1. HandedOver' = HandedOver
      BY <1>1 DEF HandedOver
    <3>2. \A c \in Guest : guest[c] # before[c] => c \in HandedOver
      BY <1>2 DEF IInv, OnlyHandedOver
    <3>3. ret \notin Thrown /\ ~(lost >= Frames)
      <4>1. lost \in Nat
        BY DEF IInv, Typed
      <4> QED
        BY <1>2, <4>1 DEF Thrown
    <3>4. OnlyHandedOver'
      BY <1>1, <1>2, <1>4, <3>1, <3>2, <3>3 DEF OnlyHandedOver, Thrown
    <3>5. FrameLostByThrow'
      BY <1>1, <1>2, <1>4, <3>3 DEF FrameLostByThrow, Thrown
    <3> QED
      BY <3>4, <3>5
  <2> QED
    BY <2>1, <2>2, <2>3 DEF IInv
<1>5. ASSUME NEW s, s = frame.spans[cursor], cursor > 0, cursor' = cursor - 1,
             pc' = pc, lost' = lost,
             guest' = IF s.of = "view" THEN WrittenBack(s) ELSE guest
      PROVE  IInv'
  <2>1. cursor \in DOMAIN frame.spans /\ cursor' \in 0..Len(frame.spans)
    BY <1>2, <1>3, <1>5
  <2>2. /\ guest' \in [Guest -> Cell]
        /\ \A c \in Guest : guest'[c] # guest[c] => c \in HandedOver
        /\ ret = "errno" => guest' = guest
    <3>1. CASE s.of = "view"
      <4>1. ret = "errno" => SpanCopied(s)
        BY <1>2, <1>5, <2>1, <3>1 DEF ViewsCopied
      <4> QED
        BY <1>5, <2>1, <3>1, <4>1, WrittenBackCells
    <3>2. CASE s.of # "view"
      BY <1>3, <1>5, <3>2
    <3> QED
      BY <3>1, <3>2
  <2>3. Typed' /\ NoJunk' /\ SpansApart'
    BY <1>1, <1>5, <2>2 DEF IInv, Typed, NoJunk, SpansApart
  <2>4. Bounded' /\ Vectors' /\ Filling' /\ SpansCopied' /\ FrameLostByThrow'
    BY <1>1, <1>5 DEF Bounded, Vectors, Filling, SpansCopied, FrameLostByThrow
  <2>5. Served_'
    <3>1. ret = "errno" => guest' = before' /\ ViewsCopied'
      BY <1>1, <1>2, <2>2 DEF ViewsCopied, SpanCopied
    <3>2. kind' \in Framed /\ lost' < Frames /\ ret' \in {"SUCCESS", "errno"}
      BY <1>1, <1>2, <1>5
    <3>3. cursor' \in 0..Len(frame'.spans)
      BY <1>1, <2>1
    <3>4. ret' = "errno" => guest' = before' /\ ViewsCopied'
      BY <1>1, <3>1
    <3> QED
      BY <3>2, <3>3, <3>4 DEF Served_
  <2>6. OnlyHandedOver'
    <3>1. HandedOver' = HandedOver
      BY <1>1 DEF HandedOver
    <3>2. \A c \in Guest : guest[c] # before[c] => c \in HandedOver
      BY <1>2 DEF IInv, OnlyHandedOver
    <3>3. \A c \in Guest : guest'[c] # before[c] => c \in HandedOver
      BY <2>2, <3>2
    <3> QED
      BY <1>1, <1>5, <3>1, <3>3 DEF OnlyHandedOver
  <2> QED
    BY <2>3, <2>4, <2>5, <2>6 DEF IInv
<1> QED
  BY <1>4, <1>5 DEF copy_out, Next_view, LostAfterReturn

--------------------------------------------------------------------------------
(* The calls of Wasi.ts.                                                      *)

(* A call of Wasi.ts only has to leave a memory of cells.                     *)
LEMMA ServedInv ==
  ASSUME IInv, NEW k \in Direct, NEW e \in {"SUCCESS", "errno", "RangeError"},
         NEW mem \in [Guest -> Cell], Served(k, e, mem)
  PROVE  IInv'
<1>1. /\ pc = "idle" /\ pc' = "idle" /\ kind' = k /\ before' = guest /\ guest' = mem
      /\ ret' = e /\ lost' = lost /\ frame' = frame /\ calls' = calls + 1 /\ calls < MaxCalls
  BY DEF Served, Started
<1>2. Typed'
  <2>1. calls' \in 0..MaxCalls
    BY <1>1 DEF IInv, Typed
  <2> QED
    BY <1>1, <2>1 DEF IInv, Typed, Thrown
<1>3. NoJunk' /\ SpansApart'
  BY <1>1 DEF IInv, NoJunk, SpansApart
<1>4. k \notin Framed
  BY DEF Direct, Framed
<1> QED
  BY <1>1, <1>2, <1>3, <1>4
  DEF IInv, Bounded, Vectors, Served_, Filling, SpansCopied, OnlyHandedOver, FrameLostByThrow

(* args_sizes_get and environ_sizes_get.                                      *)
LEMMA FillSizesInv ==
  ASSUME IInv, NEW k \in {"args_sizes", "environ_sizes"}, NEW values \in {Args, Env},
         NEW p \in Pointers, NEW q \in Pointers, fillSizes(k, values, p, q)
  PROVE  IInv'
<1>1. p \in Nat /\ q \in Nat /\ guest \in [Guest -> Cell] /\ k \in Direct
  BY InputAssumption, Sizes_ DEF IInv, Typed, Direct
<1>2. Len(values) \in Cell /\ size_of(values) \in Cell
  BY DataAssumption
<1> DEFINE counted == Store(guest, p, <<Len(values)>>)
<1>3. counted \in [Guest -> Cell]
  BY <1>1, <1>2, OneCell, StoreType
<1>4. Store(counted, q, <<size_of(values)>>) \in [Guest -> Cell]
  BY <1>1, <1>2, <1>3, OneCell, StoreType
<1> QED
  BY <1>1, <1>3, <1>4, ServedInv DEF fillSizes

(* clock_res_get and clock_time_get.                                          *)
LEMMA ClockInv ==
  ASSUME IInv, NEW p \in Pointers, clock_get(p)
  PROVE  IInv'
<1>1. p \in Nat /\ guest \in [Guest -> Cell] /\ "clock" \in Direct /\ Result \in Cell
  BY InputAssumption, DataAssumption, Sizes_ DEF IInv, Typed, Direct
<1>2. Store(guest, p, <<Result>>) \in [Guest -> Cell]
  BY <1>1, OneCell, StoreType
<1> QED
  BY <1>1, <1>2, ServedInv DEF clock_get

(* random_get.                                                                *)
LEMMA RandomInv ==
  ASSUME IInv, NEW p \in Pointers, NEW n \in Sizes, random_get(p, n)
  PROVE  IInv'
<1>1. p \in Nat /\ n \in Nat /\ guest \in [Guest -> Cell] /\ "random" \in Direct /\ Result \in Cell
  BY InputAssumption, DataAssumption, Sizes_ DEF IInv, Typed, Direct
<1>2. [i \in 1..n |-> Result] \in Seq(Cell)
  BY <1>1
<1>3. Store(guest, p, [i \in 1..n |-> Result]) \in [Guest -> Cell]
  BY <1>1, <1>2, StoreType
<1> QED
  BY <1>1, <1>3, ServedInv DEF random_get

(* The calls that answer without looking.                                     *)
LEMMA StubInv ==
  ASSUME IInv, stub
  PROVE  IInv'
<1>1. guest \in [Guest -> Cell] /\ "stub" \in Direct
  BY DEF IInv, Typed, Direct
<1> QED
  BY <1>1, ServedInv DEF stub

(* args_get and environ_get begin.                                            *)
LEMMA FillValuesInv ==
  ASSUME IInv, NEW k \in {"args", "environ"}, NEW values \in {Args, Env},
         NEW p \in Pointers, NEW q \in Pointers, fillValues(k, values, p, q)
  PROVE  IInv'
<1>1. p \in Nat /\ q \in Cell /\ guest \in [Guest -> Cell] /\ k \in Direct /\ k \notin Framed
  BY InputAssumption, Sizes_ DEF IInv, Typed, Direct, Framed
<1>2. values \in Seq(Value)
  BY DataAssumption
<1>3. CASE Served(k, "RangeError", guest)
  BY <1>1, <1>3, ServedInv
<1>4. CASE /\ Started(k)
           /\ pc' = "fill" /\ todo' = values
           /\ cursor' = [iter |-> p, buf |-> q]
           /\ UNCHANGED <<given, guest, lost, frame, ret>>
  <2>1. /\ calls < MaxCalls /\ calls' = calls + 1 /\ kind' = k /\ before' = guest
        /\ pc' = "fill" /\ guest' = guest /\ lost' = lost /\ frame' = frame /\ ret' = ret
    BY <1>4 DEF Started
  <2>2. calls' \in 0..MaxCalls
    BY <2>1 DEF IInv, Typed
  <2>3. Typed'
    BY <1>1, <2>1, <2>2 DEF IInv, Typed
  <2>4. NoJunk' /\ SpansApart'
    BY <2>1 DEF IInv, NoJunk, SpansApart
  <2>5. Filling'
    BY <1>1, <1>2, <1>4, <2>1 DEF Filling
  <2> QED
    BY <1>1, <2>1, <2>3, <2>4, <2>5
    DEF IInv, Bounded, Vectors, Served_, SpansCopied, OnlyHandedOver, FrameLostByThrow
<1> QED
  BY <1>3, <1>4 DEF fillValues

(* A pointer and a string are stored, and the next follow them.               *)
LEMMA FillNextInv ==
  ASSUME IInv, fill_next
  PROVE  IInv'
<1> PICK v : v = Head(todo)
  OBVIOUS
<1> DEFINE data == encode(v)
           pointed == Store(guest, cursor.iter, <<cursor.buf>>)
           filled == Store(pointed, cursor.buf, data)
<1>1. /\ pc = "fill" /\ todo # <<>> /\ given' = given /\ lost' = lost /\ kind' = kind
      /\ frame' = frame /\ before' = before /\ calls' = calls
  BY DEF fill_next
<1>2. /\ todo \in Seq(Value) /\ cursor.iter \in Nat /\ cursor.buf \in Cell
      /\ guest \in [Guest -> Cell] /\ kind \in Direct /\ kind \notin Framed
  BY <1>1 DEF IInv, Filling, Typed, Direct, Framed
<1>3. data \in Seq(Cell) /\ Tail(todo) \in Seq(Value) /\ cursor.buf \in Nat
  <2>1. v \in Value /\ Tail(todo) \in Seq(Value)
    BY <1>1, <1>2
  <2> QED
    BY <1>2, <2>1, EncodeType, Sizes_
<1>4. pointed \in [Guest -> Cell]
  BY <1>2, OneCell, StoreType
<1> HIDE DEF data, pointed
<1>5. filled \in [Guest -> Cell]
  BY <1>3, <1>4, StoreType
<1> HIDE DEF filled
<1>6. NoJunk' /\ SpansApart'
  BY <1>1 DEF IInv, NoJunk, SpansApart
<1>7. CASE pc' = "idle" /\ ret' = "RangeError" /\ guest' \in [Guest -> Cell]
  <2>1. Typed'
    BY <1>1, <1>7 DEF IInv, Typed, Thrown
  <2> QED
    BY <1>1, <1>2, <1>6, <1>7, <2>1
    DEF IInv, Bounded, Vectors, Served_, Filling, SpansCopied, OnlyHandedOver, FrameLostByThrow
<1>8. CASE /\ InGuest(cursor.buf, Len(data)) /\ guest' = filled
           /\ cursor' = [iter |-> cursor.iter + 1, buf |-> cursor.buf + Len(data)]
           /\ todo' = Tail(todo) /\ pc' = pc /\ ret' = ret
  <2>1. cursor.buf + Len(data) \in Cell /\ cursor.iter + 1 \in Nat
    BY <1>2, <1>3, <1>8, SMTT(30) DEF InGuest, Cell
  <2>2. Filling'
    BY <1>1, <1>2, <1>3, <1>8, <2>1 DEF Filling
  <2>3. Typed'
    BY <1>1, <1>5, <1>8 DEF IInv, Typed
  <2> QED
    BY <1>1, <1>2, <1>6, <1>8, <2>2, <2>3
    DEF IInv, Bounded, Vectors, Served_, SpansCopied, OnlyHandedOver, FrameLostByThrow
<1> QED
  BY <1>2, <1>4, <1>7, <1>8 DEF fill_next, data, pointed, filled

(* args_get or environ_get returns.                                           *)
LEMMA FillReturnInv ==
  ASSUME IInv, fill_return
  PROVE  IInv'
<1>1. /\ pc = "fill" /\ pc' = "idle" /\ ret' = "SUCCESS" /\ guest' = guest /\ lost' = lost
      /\ kind' = kind /\ frame' = frame /\ before' = before /\ calls' = calls
  BY DEF fill_return
<1>2. kind \notin Framed
  BY <1>1 DEF IInv, Filling, Direct, Framed
<1>3. Typed' /\ NoJunk' /\ SpansApart'
  BY <1>1 DEF IInv, Typed, NoJunk, SpansApart
<1> QED
  BY <1>1, <1>2, <1>3
  DEF IInv, Bounded, Vectors, Served_, Filling, SpansCopied, OnlyHandedOver, FrameLostByThrow

(* The guest's memory is given to Wasi and MemFS.                             *)
LEMMA SetMemoryInv ==
  ASSUME IInv, set_memory
  PROVE  IInv'
<1>1. UNCHANGED <<guest, lost, pc, kind, todo, frame, cursor, ret, before, calls>>
  BY DEF set_memory
<1>2. Typed' /\ NoJunk' /\ SpansApart' /\ SpansCopied'
  BY <1>1 DEF IInv, Typed, NoJunk, SpansApart, SpansCopied, Address
<1>3. HandedOver' = HandedOver
  BY <1>1 DEF HandedOver
<1>4. OnlyHandedOver' /\ FrameLostByThrow' /\ Filling'
  BY <1>1, <1>3 DEF IInv, OnlyHandedOver, FrameLostByThrow, Filling
<1>5. Bounded' /\ Vectors'
  BY <1>1 DEF IInv, Bounded, Sized, Vectors
<1>6. Served_'
  BY <1>1 DEF IInv, Served_, ViewsCopied, SpanCopied
<1> QED
  BY <1>2, <1>4, <1>5, <1>6 DEF IInv

--------------------------------------------------------------------------------
(* The framed calls begin.                                                    *)

(* The parts of a path allow for it.                                          *)
LEMMA PathParts ==
  ASSUME NEW p \in Cell, NEW q \in Cell, NEW n \in Cell
  PROVE  /\ Sized(<<ref_string(p, n), resolved_path(n)>>)
         /\ Sized(<<MutableView(q, 1), ref_string(p, n), resolved_path(n)>>)
         /\ Sized(<<ref_string(p, n), ref_string(q, n), resolved_path(n), resolved_path(n)>>)
<1>1. /\ MutableView(q, 1).of = "view"
      /\ ref_string(p, n).of = "copy" /\ ref_string(p, n).count = n
      /\ ref_string(q, n).of = "copy"
      /\ resolved_path(n).count = DirSize + n + 2
  BY DEF Part, MutableView, ref_string, resolved_path
<1>2. Sized(<<ref_string(p, n), resolved_path(n)>>)
  <2> DEFINE parts == <<ref_string(p, n), resolved_path(n)>>
  <2>1. DOMAIN parts = 1..2 /\ parts[1] = ref_string(p, n) /\ parts[2] = resolved_path(n)
    OBVIOUS
  <2> HIDE DEF parts
  <2>2. (\A i \in 1..2 : i = 1 \/ i = 2) /\ 1 \in 1..2 - 1
    OBVIOUS
  <2>3. Sized(parts)
    BY <1>1, <2>1, <2>2 DEF Sized
  <2> QED
    BY <2>3 DEF parts
<1>3. Sized(<<MutableView(q, 1), ref_string(p, n), resolved_path(n)>>)
  <2> DEFINE parts == <<MutableView(q, 1), ref_string(p, n), resolved_path(n)>>
  <2>1. /\ DOMAIN parts = 1..3 /\ parts[1] = MutableView(q, 1)
        /\ parts[2] = ref_string(p, n) /\ parts[3] = resolved_path(n)
    OBVIOUS
  <2> HIDE DEF parts
  <2>2. (\A i \in 1..3 : i = 1 \/ i = 2 \/ i = 3) /\ 2 \in 1..3 - 1
    OBVIOUS
  <2>3. Sized(parts)
    BY <1>1, <2>1, <2>2 DEF Sized
  <2> QED
    BY <2>3 DEF parts
<1>4. Sized(<<ref_string(p, n), ref_string(q, n), resolved_path(n), resolved_path(n)>>)
  <2> DEFINE parts == <<ref_string(p, n), ref_string(q, n), resolved_path(n), resolved_path(n)>>
  <2>1. /\ DOMAIN parts = 1..4 /\ parts[1] = ref_string(p, n) /\ parts[2] = ref_string(q, n)
        /\ parts[3] = resolved_path(n) /\ parts[4] = resolved_path(n)
    OBVIOUS
  <2> HIDE DEF parts
  <2>2. (\A i \in 1..4 : i = 1 \/ i = 2 \/ i = 3 \/ i = 4) /\ 1 \in 1..3 - 1 /\ 1 \in 1..4 - 1
    OBVIOUS
  <2>3. Sized(parts)
    BY <1>1, <2>1, <2>2 DEF Sized
  <2> QED
    BY <2>3 DEF parts
<1> QED
  BY <1>2, <1>3, <1>4

(* The parts of a call without a path of its own.                             *)
LEMMA OtherParts ==
  ASSUME NEW p \in Cell, NEW q \in Cell, NEW n \in Nat
  PROVE  /\ Sized(<<MutableView(p, n)>>)
         /\ Sized(<<MutableView(p, 1), external_iovs(q, n)>>)
         /\ Sized(<<MutableView(p, 1), external_ciovs(q, n)>>)
         /\ Sized(<<MutableView(p, n), MutableView(q, 1)>>)
         /\ Sized(<<ref_string(p, n), ref_string(q, n)>>)
         /\ \A a \in Cell : Sized(<<MutableView(p, n), MutableView(q, 1), ref_string(a, n)>>)
<1>1. \A a \in Cell, m \in Nat :
        /\ MutableView(a, m).of # "path" /\ ref_string(a, m).of # "path"
        /\ external_iovs(a, m).of # "path" /\ external_ciovs(a, m).of # "path"
  BY DEF Part, MutableView, ref_string, external_iovs, external_ciovs
<1>2. \A a, b, c : /\ a.of # "path" => Sized(<<a>>)
                   /\ a.of # "path" /\ b.of # "path" => Sized(<<a, b>>)
                   /\ a.of # "path" /\ b.of # "path" /\ c.of # "path" => Sized(<<a, b, c>>)
  BY DEF Sized
<1> QED
  BY <1>1, <1>2

(* Of these parts none is an array of iovecs.                                 *)
NoArray(parts) == \A m \in DOMAIN parts : parts[m].of \notin Array

(* Nor of the parts of the calls without iovecs.                              *)
LEMMA NoArrays ==
  /\ \A a, b, n, m : /\ NoArray(<<MutableView(a, n)>>)
                      /\ NoArray(<<MutableView(a, n), MutableView(b, m)>>)
                      /\ NoArray(<<ref_string(a, n), ref_string(b, m)>>)
                      /\ NoArray(<<ref_string(a, n), resolved_path(m)>>)
  /\ \A a, b, c, n, m, l :
       /\ NoArray(<<MutableView(a, n), MutableView(b, m), ref_string(c, l)>>)
       /\ NoArray(<<MutableView(a, n), ref_string(b, m), resolved_path(l)>>)
       /\ NoArray(<<ref_string(a, n), ref_string(b, m), resolved_path(l), resolved_path(l)>>)
<1>1. \A a, n : /\ MutableView(a, n).of \notin Array /\ ref_string(a, n).of \notin Array
               /\ resolved_path(n).of \notin Array
  BY DEF MutableView, ref_string, resolved_path, Part, Array
<1>2. \A a, b, c, d :
        /\ a.of \notin Array => NoArray(<<a>>)
        /\ a.of \notin Array /\ b.of \notin Array => NoArray(<<a, b>>)
        /\ a.of \notin Array /\ b.of \notin Array /\ c.of \notin Array => NoArray(<<a, b, c>>)
        /\ a.of \notin Array /\ b.of \notin Array /\ c.of \notin Array /\ d.of \notin Array =>
             NoArray(<<a, b, c, d>>)
  BY DEF NoArray
<1>3. ASSUME NEW a, NEW b, NEW n, NEW m
      PROVE  /\ NoArray(<<MutableView(a, n)>>)
             /\ NoArray(<<MutableView(a, n), MutableView(b, m)>>)
             /\ NoArray(<<ref_string(a, n), ref_string(b, m)>>)
             /\ NoArray(<<ref_string(a, n), resolved_path(m)>>)
  BY <1>1, <1>2, Zenon
<1>4. ASSUME NEW a, NEW b, NEW c, NEW n, NEW m, NEW l
      PROVE  /\ NoArray(<<MutableView(a, n), MutableView(b, m), ref_string(c, l)>>)
             /\ NoArray(<<MutableView(a, n), ref_string(b, m), resolved_path(l)>>)
             /\ NoArray(<<ref_string(a, n), ref_string(b, m), resolved_path(l), resolved_path(l)>>)
  BY <1>1, <1>2, Zenon
<1> QED
  BY <1>3, <1>4, Zenon

(* Every framed call enters with parts that a frame can be held against.      *)
LEMMA FramedCallsInv ==
  ASSUME IInv, FramedCalls
  PROVE  IInv'
<1>1. /\ \A p \in Pointers : p \in Cell
      /\ \A n \in Sizes : n \in Cell /\ n \in Nat
      /\ \A n \in Counts : n \in Nat
  BY InputAssumption, Sizes_
<1>2. \A a, b, c, d \in PartType :
        /\ <<a>> \in Seq(PartType) /\ <<a, b>> \in Seq(PartType)
        /\ <<a, b, c>> \in Seq(PartType) /\ <<a, b, c, d>> \in Seq(PartType)
  OBVIOUS
<1>3. \A k \in Framed \ (Vectored \union {"unreserved"}), parts \in Seq(PartType) :
        Enter(k, parts) /\ Sized(parts) /\ NoArray(parts) => IInv'
  <2> SUFFICES ASSUME NEW k \in Framed \ (Vectored \union {"unreserved"}),
                      NEW parts \in Seq(PartType), Enter(k, parts), Sized(parts), NoArray(parts)
               PROVE  IInv'
    OBVIOUS
  <2>1. k \in Framed /\ k \notin Vectored
    OBVIOUS
  <2>2. \A m \in DOMAIN parts : parts[m].of \in Array => FALSE
    BY DEF NoArray
  <2> QED
    BY <2>1, <2>2, EnterInv
<1>4. {"result", "name", "unserved", "path"} = Framed \ (Vectored \union {"unreserved"})
  BY DEF Framed, Vectored
<1>5. ASSUME NEW p \in Pointers, result_call(p)
      PROVE  IInv'
  <2>1. Enter("result", <<MutableView(p, 1)>>)
    BY <1>5 DEF result_call
  <2> QED
    BY <2>1, <1>1, <1>2, <1>3, <1>4, Part_Type, OtherParts, NoArrays
<1>6. ASSUME NEW p \in Pointers, NEW n \in Sizes, fd_prestat_dir_name(p, n) \/ path_call(p, n)
      PROVE  IInv'
  <2>1. CASE fd_prestat_dir_name(p, n)
    <3>1. Enter("name", <<MutableView(p, n)>>)
      BY <2>1 DEF fd_prestat_dir_name
    <3> QED
      BY <3>1, <1>1, <1>2, <1>3, <1>4, Part_Type, OtherParts, NoArrays
  <2>2. CASE path_call(p, n)
    <3>1. Enter("path", <<ref_string(p, n), resolved_path(n)>>)
      BY <2>2 DEF path_call
    <3> QED
      BY <3>1, <1>1, <1>2, <1>3, <1>4, Part_Type, PathParts, NoArrays
  <2> QED
    BY <1>6, <2>1, <2>2
<1>7. ASSUME NEW p \in Pointers, NEW q \in Pointers, NEW n \in Counts,
             fd_read(p, n, q) \/ fd_write(p, n, q)
      PROVE  IInv'
  <2>1. p \in Cell /\ q \in Cell /\ n \in Nat /\ 1 \in Nat
    BY <1>1, <1>7
  <2>2. CASE fd_read(p, n, q)
    <3> DEFINE parts == <<MutableView(q, 1), external_iovs(p, n)>>
               k == IF Wraps(n) THEN "unreserved" ELSE "read"
    <3>1. Enter(k, parts)
      BY <2>2 DEF fd_read
    <3>2. parts \in Seq(PartType) /\ Sized(parts)
      BY <1>2, <2>1, Part_Type, OtherParts
    <3>3. parts[1].of = "view" /\ parts[2].of = "iovs" /\ Len(parts) = 2 /\ DOMAIN parts = 1..2
      BY DEF MutableView, external_iovs, Part
    <3>4. k \in Framed /\ k \in {"unreserved", "read"}
      BY DEF Framed
    <3> HIDE DEF parts, k
    <3>5. k \in Vectored => Len(parts) = 2 /\ parts[1].of = "view" /\ parts[2].of \in Array
      BY <3>3 DEF Array
    <3>6. ASSUME k \notin Vectored, NEW m \in DOMAIN parts, parts[m].of \in Array
          PROVE  k = "unreserved" /\ parts[m].of = "iovs"
      <4>1. k = "unreserved"
        BY <3>4, <3>6 DEF Vectored
      <4>2. m = 1 \/ m = 2
        BY <3>3
      <4> QED
        BY <3>3, <3>6, <4>1, <4>2 DEF Array
    <3> QED
      BY <3>1, <3>2, <3>4, <3>5, <3>6, EnterInv
  <2>3. CASE fd_write(p, n, q)
    <3> DEFINE parts == <<MutableView(q, 1), external_ciovs(p, n)>>
               k == IF Wraps(n) THEN "overrun" ELSE "write"
    <3>1. Enter(k, parts)
      BY <2>3 DEF fd_write
    <3>2. parts \in Seq(PartType) /\ Sized(parts)
      BY <1>2, <2>1, Part_Type, OtherParts
    <3>3. parts[1].of = "view" /\ parts[2].of \in Array /\ Len(parts) = 2
      BY DEF MutableView, external_ciovs, Part, Array
    <3>4. k \in Framed /\ k \in Vectored
      BY DEF Framed, Vectored
    <3> HIDE DEF parts, k
    <3> QED
      BY <3>1, <3>2, <3>3, <3>4, EnterInv
  <2> QED
    BY <1>7, <2>2, <2>3
<1>8. ASSUME NEW p \in Pointers, NEW q \in Pointers, NEW n \in Sizes,
             \/ fd_readdir(p, n, q) \/ path_readlink(p, n, q, q)
             \/ path_result_call(p, n, q)
             \/ path_rename(p, q, n) \/ two_paths_call(p, q, n)
      PROVE  IInv'
  <2>1. CASE fd_readdir(p, n, q)
    <3> DEFINE parts == <<MutableView(p, n), MutableView(q, 1)>>
    <3>1. Enter("unserved", parts)
      BY <2>1 DEF fd_readdir
    <3>2. parts \in Seq(PartType)
      BY <1>1, <1>2, Part_Type
    <3>3. Sized(parts)
      BY <1>1, OtherParts
    <3>4. NoArray(parts)
      BY NoArrays
    <3> HIDE DEF parts
    <3> QED
      BY <3>1, <3>2, <3>3, <3>4, <1>3, <1>4
  <2>2. CASE path_readlink(p, n, q, q)
    <3> DEFINE parts == <<MutableView(q, n), MutableView(q, 1), ref_string(p, n)>>
    <3>1. Enter("unserved", parts)
      BY <2>2 DEF path_readlink
    <3>2. parts \in Seq(PartType)
      BY <1>1, <1>2, Part_Type
    <3>3. Sized(parts)
      BY <1>1, OtherParts
    <3>4. NoArray(parts)
      BY NoArrays
    <3> HIDE DEF parts
    <3> QED
      BY <3>1, <3>2, <3>3, <3>4, <1>3, <1>4
  <2>3. CASE path_result_call(p, n, q)
    <3> DEFINE parts == <<MutableView(q, 1), ref_string(p, n), resolved_path(n)>>
    <3>1. Enter("result", parts)
      BY <2>3 DEF path_result_call
    <3>2. parts \in Seq(PartType)
      BY <1>1, <1>2, Part_Type
    <3>3. Sized(parts)
      BY <1>1, PathParts
    <3>4. NoArray(parts)
      BY NoArrays
    <3> HIDE DEF parts
    <3> QED
      BY <3>1, <3>2, <3>3, <3>4, <1>3, <1>4
  <2>4. CASE path_rename(p, q, n)
    <3> DEFINE parts == <<ref_string(p, n), ref_string(q, n), resolved_path(n), resolved_path(n)>>
    <3>1. Enter("path", parts)
      BY <2>4 DEF path_rename
    <3>2. parts \in Seq(PartType)
      BY <1>1, <1>2, Part_Type
    <3>3. Sized(parts)
      BY <1>1, PathParts
    <3>4. NoArray(parts)
      BY NoArrays
    <3> HIDE DEF parts
    <3> QED
      BY <3>1, <3>2, <3>3, <3>4, <1>3, <1>4
  <2>5. CASE two_paths_call(p, q, n)
    <3> DEFINE parts == <<ref_string(p, n), ref_string(q, n)>>
    <3>1. Enter("unserved", parts)
      BY <2>5 DEF two_paths_call
    <3>2. parts \in Seq(PartType)
      BY <1>1, <1>2, Part_Type
    <3>3. Sized(parts)
      BY <1>1, OtherParts
    <3>4. NoArray(parts)
      BY NoArrays
    <3> HIDE DEF parts
    <3> QED
      BY <3>1, <3>2, <3>3, <3>4, <1>3, <1>4
  <2> QED
    BY <1>8, <2>1, <2>2, <2>3, <2>4, <2>5
<1> QED
  BY <1>5, <1>6, <1>7, <1>8 DEF FramedCalls

--------------------------------------------------------------------------------
(* The invariant and the theorems.                                            *)

(* The invariant holds at first.                                              *)
LEMMA InitInv == Init => IInv
<1> SUFFICES ASSUME Init PROVE IInv
  OBVIOUS
<1>1. EmptyFrame \in FrameType /\ EmptyFrame.spans = <<>> /\ DOMAIN EmptyFrame.spans = {}
  BY Sizes_ DEF EmptyFrame, FrameType, FrameCell
<1>2. /\ guest \in [Guest -> Cell] /\ before = guest /\ lost = 0 /\ pc = "idle"
      /\ kind = "none" /\ frame = EmptyFrame /\ ret = "SUCCESS" /\ calls = 0
  BY DataAssumption DEF Init
<1>3. Typed
  BY <1>1, <1>2 DEF Typed, Direct
<1>4. NoJunk /\ SpansApart
  BY <1>1, <1>2 DEF NoJunk, SpansApart
<1> QED
  BY <1>2, <1>3, <1>4
  DEF IInv, Bounded, Vectors, Served_, Filling, SpansCopied, OnlyHandedOver, FrameLostByThrow, Framed

(* Every step keeps the invariant.                                            *)
LEMMA StepInv == IInv /\ [Next]_vars => IInv'
<1> SUFFICES ASSUME IInv, [Next]_vars PROVE IInv'
  OBVIOUS
<1>1. CASE set_memory
  BY <1>1, SetMemoryInv
<1>2. CASE FramedCalls
  BY <1>2, FramedCallsInv
<1>3. CASE DirectCalls
  <2>1. ASSUME NEW p \in Pointers, NEW q \in Pointers,
               \/ fillSizes("args_sizes", Args, p, q) \/ fillSizes("environ_sizes", Env, p, q)
        PROVE  IInv'
    BY <2>1, FillSizesInv
  <2>2. ASSUME NEW p \in Pointers, NEW q \in Pointers,
               fillValues("args", Args, p, q) \/ fillValues("environ", Env, p, q)
        PROVE  IInv'
    BY <2>2, FillValuesInv
  <2>3. ASSUME NEW p \in Pointers, clock_get(p)
        PROVE  IInv'
    BY <2>3, ClockInv
  <2>4. ASSUME NEW p \in Pointers, NEW n \in Sizes, random_get(p, n)
        PROVE  IInv'
    BY <2>4, RandomInv
  <2> QED
    BY <1>3, <2>1, <2>2, <2>3, <2>4, StubInv DEF DirectCalls
<1>4. CASE Steps
  BY <1>4, RefArrayInv, ResolvePathInv, ServeInv, CopyOutInv, FillNextInv, FillReturnInv DEF Steps
<1>5. CASE UNCHANGED vars
  <2>1. UNCHANGED <<guest, lost, pc, kind, todo, frame, cursor, ret, before, calls>>
    BY <1>5 DEF vars
  <2>2. Typed' /\ NoJunk' /\ SpansApart' /\ SpansCopied'
    BY <2>1 DEF IInv, Typed, NoJunk, SpansApart, SpansCopied, Address
  <2>3. HandedOver' = HandedOver
    BY <2>1 DEF HandedOver
  <2>4. OnlyHandedOver' /\ FrameLostByThrow' /\ Filling'
    BY <2>1, <2>3 DEF IInv, OnlyHandedOver, FrameLostByThrow, Filling
  <2>5. Bounded' /\ Vectors'
    BY <2>1 DEF IInv, Bounded, Sized, Vectors
  <2>6. Served_'
    BY <2>1 DEF IInv, Served_, ViewsCopied, SpanCopied
  <2> QED
    BY <2>2, <2>4, <2>5, <2>6 DEF IInv
<1> QED
  BY <1>1, <1>2, <1>3, <1>4, <1>5 DEF Next

(* The invariant holds of every behaviour.                                    *)
LEMMA Invariance == Spec => []IInv
  BY InitInv, StepInv, PTL DEF Spec

(* The types of the variables that hold data, util.h 9-15 and 39-53: among    *)
(* them that no span exceeds the tmp_buffer, also where the count of an array *)
(* makes its size wrap.                                                       *)
THEOREM TypesHold == Spec => []TypeOK
<1>1. IInv => TypeOK
  <2> SUFFICES ASSUME IInv PROVE TypeOK
    OBVIOUS
  <2>1. frame.spans \in Seq(Span) /\ frame.offset \in 0..FrameSize
        /\ frame.cells \in [Slot -> Cell \union {Junk}]
    BY DEF IInv, Typed, FrameType, FrameCell
  <2>2. \A i \in DOMAIN frame.spans : frame.spans[i] \in Span
    BY <2>1, ElementOfSeq
  <2> QED
    BY <2>1, <2>2 DEF IInv, Typed, TypeOK
<1> QED
  BY <1>1, Invariance, PTL

(* The spans of a call lie one after the other in its tmp_buffer, whatever    *)
(* sizes and counts the guest passes, and however the int tmp_offset and the  *)
(* unsigned size of an array wrap, util.cc 4-9, util.h 39-53.                 *)
THEOREM SpansStayApart == Spec => []SpansApart
<1>1. IInv => SpansApart
  BY DEF IInv
<1> QED
  BY <1>1, Invariance, PTL

(* Until the call is served a span holds the guest's own cells, except that   *)
(* an iovec, once its buffer is copied, points to the copy, which is of what  *)
(* the guest's iovec points to, util.h 39-47 and memfs.cc 777-799.            *)
THEOREM SpansAreCopied == Spec => []SpansCopied
<1>1. IInv => SpansCopied
  BY DEF IInv
<1> QED
  BY <1>1, Invariance, PTL

(* A framed call changes no cell but those handed over for results, and one   *)
(* that throws or answers an error changes none, util.h 17-33.                *)
THEOREM OnlyHandedOverChanges == Spec => []OnlyHandedOver
<1>1. IInv => OnlyHandedOver
  BY DEF IInv
<1> QED
  BY <1>1, Invariance, PTL

(* Frames are lost by errors thrown only, and once the stack has no room for  *)
(* another, every framed call throws, memfs/index.ts 15-24.                   *)
THEOREM FramesLostByThrow == Spec => []FrameLostByThrow
<1>1. IInv => FrameLostByThrow
  BY DEF IInv
<1> QED
  BY <1>1, Invariance, PTL
================================================================================
