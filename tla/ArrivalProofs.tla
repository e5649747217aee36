----------------------------- MODULE ArrivalProofs -----------------------------
(******************************************************************************)
(* Proofs that what a call hands to the guest arrives: the bytes of a read    *)
(* (BytesArrive) and the arguments and variables (ValuesArrive) of Marshal,   *)
(* for every value of its constants.                                          *)
(*                                                                            *)
(* Both say where the elements of a concatenation are.  FlattenSeq and        *)
(* FoldLeft are defined by recursive functions; that these exist, and what    *)
(* they return, follows from the least-number principle: the shortest         *)
(* sequence for which it fails would have a shorter one.                      *)
(*                                                                            *)
(* Of a read the invariant says that the spans leave no cell out (Packed) and *)
(* are a result, an array and its buffers (Reading); that the frame holds the *)
(* bytes read, and else what the guest held (Loaded); and, while the views    *)
(* are written back from the last one on, that a cell of the guest has the    *)
(* byte that some view written back brought it, or is as it was (Delivered).  *)
(* Two buffers may cover one cell.  The earlier one is written over the later *)
(* and has the earlier byte: if it was not reached by the read, neither was   *)
(* the later (LaterPlace), and the stale cell is the one that is there.       *)
(*                                                                            *)
(* Of args_get it says how many values are stored, and that they stay: the    *)
(* next pointer and the next string lie behind what is stored (StoredNext).   *)
(******************************************************************************)
EXTENDS MarshalProofs, FiniteSetTheorems, WellFoundedInduction

--------------------------------------------------------------------------------
(* Concatenations.                                                            *)

(* A set of numbers has a least one.                                          *)
LEMMA LeastNumber ==
  ASSUME NEW T, T \subseteq Nat, T # {}
  PROVE  \E x \in T : \A y \in T : x <= y
<1>1. PICK x \in T : \A y \in T : <<y, x>> \notin OpToRel(<, Nat)
  BY NatLessThanWellFounded, WFMin, Zenon
<1>2. \A y \in Nat : y < x => <<y, x>> \in OpToRel(<, Nat)
  BY Zenon DEF OpToRel
<1>3. \A y \in T : ~(y < x)
  BY <1>1, <1>2, Zenon
<1> QED
  BY <1>3

(* f is the function that FlattenSeq defines for the first n of seqs.         *)
Flattens(f, seqs, n) ==
  f = [i \in 1..n |-> IF i = 1 THEN seqs[i] ELSE f[i - 1] \o seqs[i]]

(* There is one,                                                              *)
LEMMA FlattenExists ==
  ASSUME NEW seqs, NEW n \in Nat, n # 0
  PROVE  \E f : Flattens(f, seqs, n)
<1> DEFINE Bad == {m \in Nat : m # 0 /\ ~\E f : Flattens(f, seqs, m)}
<1> SUFFICES ASSUME Bad # {} PROVE FALSE
  OBVIOUS
<1>1. PICK m \in Bad : \A y \in Bad : m <= y
  <2> Bad \subseteq Nat
    OBVIOUS
  <2> HIDE DEF Bad
  <2> QED
    BY LeastNumber
<1>2. CASE m = 1
  <2> DEFINE f == [i \in 1..1 |-> seqs[1]]
  <2>1. f = [i \in 1..1 |-> IF i = 1 THEN seqs[i] ELSE f[i - 1] \o seqs[i]]
    OBVIOUS
  <2> QED
    BY <1>1, <1>2, <2>1 DEF Flattens
<1>3. CASE m # 1
  <2>1. m \in Nat /\ m # 0 /\ m - 1 \in Nat /\ m - 1 # 0 /\ ~(m <= m - 1)
    BY <1>1, <1>3
  <2>2. m - 1 \notin Bad
    BY <1>1, <2>1
  <2>3. PICK f : Flattens(f, seqs, m - 1)
    BY <2>1, <2>2
  <2> DEFINE g == [i \in 1..m |-> IF i = m THEN f[m - 1] \o seqs[m] ELSE f[i]]
  <2>4. ASSUME NEW i \in 1..m
        PROVE  g[i] = IF i = 1 THEN seqs[i] ELSE g[i - 1] \o seqs[i]
    <3>1. CASE i = m
      <4>1. i # 1 /\ i - 1 \in 1..m /\ i - 1 # m
        BY <2>1, <3>1, <1>3
      <4>2. g[i] = f[m - 1] \o seqs[m] /\ g[i - 1] = f[m - 1]
        BY <3>1, <4>1
      <4> QED
        BY <3>1, <4>1, <4>2
    <3>2. CASE i # m
      <4>1. i \in 1..m - 1
        BY <2>1, <3>2
      <4>2. f[i] = IF i = 1 THEN seqs[i] ELSE f[i - 1] \o seqs[i]
        BY <2>3, <4>1 DEF Flattens
      <4>3. i # 1 => i - 1 \in 1..m /\ i - 1 # m
        BY <2>1, <4>1
      <4> QED
        BY <3>2, <4>1, <4>2, <4>3
    <3> QED
      BY <3>1, <3>2
  <2>5. g = [i \in 1..m |-> IF i = 1 THEN seqs[i] ELSE g[i - 1] \o seqs[i]]
    <3>1. DOMAIN g = 1..m /\ g = [i \in 1..m |-> g[i]]
      OBVIOUS
    <3> HIDE DEF g
    <3> QED
      BY <2>4, <3>1
  <2> QED
    BY <1>1, <2>5 DEF Flattens
<1> QED
  BY <1>2, <1>3

(* and FlattenSeq returns its last value.                                     *)
LEMMA FlattenLast ==
  ASSUME NEW seqs, Len(seqs) # 0, \E f : Flattens(f, seqs, Len(seqs))
  PROVE  \E f : Flattens(f, seqs, Len(seqs)) /\ FlattenSeq(seqs) = f[Len(seqs)]
  BY Zenon DEF Flattens, FlattenSeq

(* Where the elements of seqs begin in their concatenation, and its end.      *)
Layout(seqs, pos) ==
  /\ pos \in [1..Len(seqs) + 1 -> Nat] /\ pos[1] = 0
  /\ \A j \in 1..Len(seqs) : pos[j + 1] = pos[j] + Len(seqs[j])

(* One sequence, f, is another, g, of a elements, and then h of m elements.   *)
Joined(f, g, h, a, m) == \A i \in 1..a + m : f[i] = IF i <= a THEN g[i] ELSE h[i - a]

(* It has the elements of both.                                               *)
HasBoth(f, g, h, a, m) ==
  /\ \A k \in 1..m : a + k \in 1..a + m /\ f[a + k] = h[k]
  /\ \A p \in 1..a : p \in 1..a + m /\ f[p] = g[p]

(* Where they are.                                                            *)
LEMMA JoinedParts ==
  ASSUME NEW a \in Nat, NEW m \in Nat, NEW f, NEW g, NEW h, Joined(f, g, h, a, m)
  PROVE  HasBoth(f, g, h, a, m)
<1>1. ASSUME NEW k \in 1..m
      PROVE  a + k \in 1..a + m /\ f[a + k] = h[k]
  <2>1. a + k \in 1..a + m /\ ~(a + k <= a) /\ a + k - a = k
    OBVIOUS
  <2>2. \A i \in 1..a + m : ~(i <= a) => f[i] = h[i - a]
    BY Zenon DEF Joined
  <2> QED
    BY <2>1, <2>2
<1>2. ASSUME NEW p \in 1..a
      PROVE  p \in 1..a + m /\ f[p] = g[p]
  <2>1. p \in 1..a + m /\ p <= a
    OBVIOUS
  <2>2. f[p] = IF p <= a THEN g[p] ELSE h[p - a]
    BY <2>1, Zenon DEF Joined
  <2> QED
    BY <2>1, <2>2, Zenon
<1> QED
  BY <1>1, <1>2, Zenon DEF HasBoth

(* What a flattened prefix holds.                                             *)
PrefixHolds(flat, seqs, pos, n) ==
  /\ Len(flat) = pos[n + 1]
  /\ \A j \in 1..n : \A k \in 1..Len(seqs[j]) :
       pos[j] + k \in 1..pos[n + 1] /\ flat[pos[j] + k] = seqs[j][k]

(* One element more,                                                          *)
LEMMA PrefixGrows ==
  ASSUME NEW S, NEW seqs \in Seq(Seq(S)), NEW pos, Layout(seqs, pos),
         NEW n \in 1..Len(seqs) - 1, NEW flat \in Seq(S), PrefixHolds(flat, seqs, pos, n)
  PROVE  PrefixHolds(flat \o seqs[n + 1], seqs, pos, n + 1)
<1>0. pos \in [1..Len(seqs) + 1 -> Nat]
  BY DEF Layout
<1> DEFINE more == seqs[n + 1]
           all == flat \o more
<1>1. n + 1 \in 1..Len(seqs) /\ n \in 1..Len(seqs) /\ n \in Nat
  OBVIOUS
<1>2. more \in Seq(S) /\ Len(more) \in Nat
  BY <1>1, ElementOfSeq, LenProperties
<1>3. /\ pos[n + 1] \in Nat /\ pos[n + 2] = pos[n + 1] + Len(more)
      /\ Len(flat) = pos[n + 1] /\ (n + 1) + 1 = n + 2
  BY <1>1 DEF Layout, PrefixHolds
<1>4. Len(all) = Len(flat) + Len(more) /\ Joined(all, flat, more, Len(flat), Len(more))
  BY <1>2, ConcatProperties DEF Joined
<1> HIDE DEF all
<1>5. ASSUME NEW j \in 1..n + 1, NEW k \in 1..Len(seqs[j])
      PROVE  pos[j] + k \in 1..pos[n + 2] /\ all[pos[j] + k] = seqs[j][k]
  <2>1. /\ \A i \in 1..Len(more) : /\ Len(flat) + i \in 1..Len(flat) + Len(more)
                                   /\ all[Len(flat) + i] = more[i]
        /\ \A p \in 1..Len(flat) : p \in 1..Len(flat) + Len(more) /\ all[p] = flat[p]
    <3>1. Len(flat) \in Nat
      BY LenProperties
    <3> HIDE DEF more
    <3>2. HasBoth(all, flat, more, Len(flat), Len(more))
      BY <1>2, <1>4, <3>1, JoinedParts, Zenon
    <3> QED
      BY <3>2, Zenon DEF HasBoth
  <2>2. pos[n + 2] = Len(flat) + Len(more) /\ pos[n + 1] = Len(flat)
    BY <1>3
  <2>3. CASE j = n + 1
    <3>1. k \in 1..Len(more) /\ seqs[j][k] = more[k] /\ pos[j] = Len(flat)
      BY <2>2, <2>3
    <3> HIDE DEF more
    <3> QED
      BY <2>1, <2>2, <3>1, Zenon
  <2>4. CASE j # n + 1
    <3>1. j \in 1..n
      BY <1>1, <2>4
    <3>2. pos[j] + k \in 1..pos[n + 1] /\ flat[pos[j] + k] = seqs[j][k]
      BY <3>1 DEF PrefixHolds
    <3> HIDE DEF more
    <3> QED
      BY <2>1, <2>2, <3>2, Zenon
  <2> QED
    BY <2>3, <2>4
<1> QED
  BY <1>3, <1>4, <1>5 DEF PrefixHolds, all, more

(* and so to the end: where each element of each sequence is in FlattenSeq.   *)
LEMMA FlattenLayout ==
  ASSUME NEW S, NEW seqs \in Seq(Seq(S)), NEW pos, Layout(seqs, pos)
  PROVE  FlattenSeq(seqs) \in Seq(S) /\ PrefixHolds(FlattenSeq(seqs), seqs, pos, Len(seqs))
<1>1. Len(seqs) \in Nat
  BY LenProperties
<1>2. CASE Len(seqs) = 0
  <2>1. seqs = <<>>
    BY <1>2, EmptySeq
  <2>2. FlattenSeq(seqs) = seqs
    BY <1>2, Zenon DEF FlattenSeq
  <2>3. <<>> \in Seq(S) /\ Len(<<>>) = 0
    BY EmptySeq
  <2>4. pos[0 + 1] = 0 /\ 1..0 = {}
    BY DEF Layout
  <2>5. PrefixHolds(<<>>, seqs, pos, 0)
    BY <2>3, <2>4, Zenon DEF PrefixHolds
  <2> QED
    BY <2>1, <2>2, <2>3, <2>5, <1>2, Zenon
<1>3. CASE Len(seqs) # 0
  <2>1. PICK f : Flattens(f, seqs, Len(seqs)) /\ FlattenSeq(seqs) = f[Len(seqs)]
    BY <1>1, <1>3, FlattenExists, FlattenLast
  <2> DEFINE Good(n) == f[n] \in Seq(S) /\ PrefixHolds(f[n], seqs, pos, n)
             Bad == {n \in 1..Len(seqs) : ~Good(n)}
  <2>2. Good(1)
    <3>1. f[1] = seqs[1] /\ seqs[1] \in Seq(S) /\ 1 \in 1..Len(seqs)
      BY <1>1, <1>3, <2>1, ElementOfSeq DEF Flattens
    <3>2. Len(seqs[1]) \in Nat /\ pos[1] = 0 /\ pos[2] = pos[1] + Len(seqs[1]) /\ 1 + 1 = 2
      BY <3>1, LenProperties DEF Layout
    <3>3. \A k \in 1..Len(seqs[1]) : 0 + k = k
      BY <3>2
    <3>4. pos[2] = Len(seqs[1]) /\ \A j \in 1..1 : j = 1
      BY <3>2
    <3> QED
      BY <3>1, <3>2, <3>3, <3>4 DEF PrefixHolds
  <2>3. ASSUME NEW n \in 1..Len(seqs) - 1, Good(n)
        PROVE  Good(n + 1)
    <3>1. n + 1 \in 1..Len(seqs) /\ n + 1 # 1 /\ n + 1 - 1 = n
      BY <1>1
    <3>2. f[n + 1] = f[n] \o seqs[n + 1]
      <4>1. f = [i \in 1..Len(seqs) |-> IF i = 1 THEN seqs[i] ELSE f[i - 1] \o seqs[i]]
        BY <2>1 DEF Flattens
      <4>2. \A i \in 1..Len(seqs) : f[i] = IF i = 1 THEN seqs[i] ELSE f[i - 1] \o seqs[i]
        BY <4>1
      <4>3. PICK m \in 1..Len(seqs) : m = n + 1 /\ m # 1 /\ m - 1 = n
        BY <3>1
      <4>4. f[m] = f[m - 1] \o seqs[m]
        BY <4>2, <4>3, Zenon
      <4> QED
        BY <4>3, <4>4, Zenon
    <3>3. seqs[n + 1] \in Seq(S)
      BY <3>1, ElementOfSeq
    <3>4. f[n + 1] \in Seq(S)
      BY <3>2, <3>3, <2>3, ConcatProperties
    <3>5. PrefixHolds(f[n + 1], seqs, pos, n + 1)
      BY <3>2, <2>3, PrefixGrows
    <3> QED
      BY <3>4, <3>5
  <2> HIDE DEF Good
  <2>4. Bad = {}
    <3> SUFFICES ASSUME Bad # {} PROVE FALSE
      OBVIOUS
    <3>1. PICK m \in Bad : \A y \in Bad : m <= y
      <4> Bad \subseteq Nat
        OBVIOUS
      <4> HIDE DEF Bad
      <4> QED
        BY LeastNumber
    <3>2. m # 1
      BY <3>1, <2>2
    <3>3. m - 1 \in 1..Len(seqs) - 1 /\ m - 1 \in 1..Len(seqs) /\ ~(m <= m - 1) /\ (m - 1) + 1 = m
      BY <3>1, <3>2, <1>1
    <3>4. Good(m - 1)
      BY <3>1, <3>3
    <3>5. Good(m)
      BY <2>3, <3>3, <3>4
    <3> QED
      BY <3>1, <3>5
  <2>5. Good(Len(seqs))
    BY <2>4, <1>1, <1>3
  <2> QED
    BY <2>1, <2>5 DEF Good
<1> QED
  BY <1>2, <1>3

(* Every place in the concatenation belongs to an element.                    *)
Covered(seqs, pos) ==
  \A p \in 1..pos[Len(seqs) + 1] :
    \E j \in 1..Len(seqs) : \E k \in 1..Len(seqs[j]) : p = pos[j] + k

(* It does: the last position that is before a place has the place.           *)
LEMMA LayoutCovers ==
  ASSUME NEW S, NEW seqs \in Seq(Seq(S)), NEW pos, Layout(seqs, pos)
  PROVE  Covered(seqs, pos)
<1> SUFFICES ASSUME NEW p \in 1..pos[Len(seqs) + 1]
             PROVE  \E j \in 1..Len(seqs) : \E k \in 1..Len(seqs[j]) : p = pos[j] + k
  BY DEF Covered
<1>1. Len(seqs) \in Nat /\ pos \in [1..Len(seqs) + 1 -> Nat] /\ pos[1] = 0
  BY LenProperties DEF Layout
<1> DEFINE Past == {j \in 1..Len(seqs) : p <= pos[j + 1]}
<1>2. Len(seqs) + 1 \in 1..Len(seqs) + 1 /\ pos[Len(seqs) + 1] \in Nat /\ p \in Nat
  <2>1. Len(seqs) + 1 \in 1..Len(seqs) + 1
    BY <1>1
  <2>2. pos[Len(seqs) + 1] \in Nat
    BY <1>1, <2>1, Zenon
  <2> QED
    BY <2>1, <2>2
<1>3. Len(seqs) # 0 /\ p <= pos[Len(seqs) + 1]
  BY <1>1, <1>2
<1>4. PICK j \in Past : \A i \in Past : j <= i
  <2>1. Len(seqs) \in Past
    BY <1>1, <1>3
  <2> Past \subseteq Nat /\ Past # {}
    BY <2>1
  <2> HIDE DEF Past
  <2> QED
    BY LeastNumber
<1>5. j \in 1..Len(seqs) /\ p <= pos[j + 1]
  OBVIOUS
<1>6. pos[j] \in Nat /\ pos[j] < p
  <2>1. CASE j = 1
    BY <2>1, <1>1, <1>2
  <2>2. CASE j # 1
    <3>1. j - 1 \in 1..Len(seqs) /\ ~(j <= j - 1) /\ (j - 1) + 1 = j /\ j \in 1..Len(seqs) + 1
      BY <1>1, <1>5, <2>2
    <3>2. pos[j] \in Nat /\ ~(p <= pos[j])
      BY <3>1, <1>1, <1>4
    <3> QED
      BY <3>2, <1>2
  <2> QED
    BY <2>1, <2>2
<1>7. pos[j + 1] = pos[j] + Len(seqs[j]) /\ Len(seqs[j]) \in Nat
  BY <1>5, ElementOfSeq, LenProperties DEF Layout
<1>8. p - pos[j] \in 1..Len(seqs[j]) /\ p = pos[j] + (p - pos[j])
  <2> DEFINE u == pos[j]
             l == Len(seqs[j])
  <2>1. u \in Nat /\ l \in Nat /\ p \in Nat /\ u < p /\ p <= u + l
    BY <1>2, <1>5, <1>6, <1>7
  <2> HIDE DEF u, l
  <2>2. p - u \in 1..l /\ p = u + (p - u)
    BY <2>1
  <2> QED
    BY <2>2 DEF u, l
<1> QED
  BY <1>5, <1>8

--------------------------------------------------------------------------------
(* The invariant of a read.                                                   *)

(* The i-th span, or the part that becomes it: out, the array, the buffers.   *)
Shape(i, s) ==
  /\ i = 1 => s.of = "view" /\ s.count = 1
  /\ i = 2 => s.of = "iovs"
  /\ i > 2 => s.of = "view"

Reading(spans, parts) ==
  /\ Len(spans) + Len(parts) >= 2
  /\ \A i \in DOMAIN spans : Shape(i, spans[i])
  /\ \A i \in DOMAIN parts : Shape(Len(spans) + i, parts[i])

(* The spans of a frame leave no cell out.                                    *)
Packed(spans, offset) ==
  \A i \in 1..Len(spans) :
    spans[i].at + spans[i].count = IF i = Len(spans) THEN offset ELSE spans[i + 1].at

InMemory(spans) ==
  \A i \in DOMAIN spans : spans[i].of # "path" => InGuest(spans[i].addr, spans[i].count)

Framing ==
  /\ Packed(frame.spans, frame.offset) /\ InMemory(frame.spans)
  /\ pc = "refer" /\ kind = "read" => Reading(frame.spans, todo)

(* The slot of the first cell of the buffers, whether s has cell c of the     *)
(* guest, and how many bytes a read stores before it gets to that cell.       *)
FirstSlot(spans) == spans[2].at + spans[2].count
Covers(s, c) == c \in s.addr..s.addr + s.count - 1
Place(spans, i, c) == spans[i].at + (c - spans[i].addr) - FirstSlot(spans)

(* n bytes, and their number, are in the frame.                               *)
Loaded(n) ==
  /\ n <= frame.offset - FirstSlot(frame.spans)
  /\ frame.cells[frame.spans[1].at] = n
  /\ \A i \in 3..Len(frame.spans), c \in Guest :
       Covers(frame.spans[i], c) =>
         frame.cells[frame.spans[i].at + (c - frame.spans[i].addr)] =
           IF Place(frame.spans, i, c) < n THEN FileData[Place(frame.spans, i, c) + 1]
           ELSE before[c]

(* Of n bytes read the i-th span, written back already, brought one to c.     *)
Brings(i, c, n) ==
  /\ i \in 3..Len(frame.spans) /\ i > cursor
  /\ Covers(frame.spans[i], c) /\ Place(frame.spans, i, c) < n

(* Every cell of the guest has a byte that a span brought it, or is as it was.*)
Delivered(n) ==
  /\ cursor = 0 => guest[frame.spans[1].addr] = n
  /\ \A c \in Guest :
       \/ cursor = 0 /\ c = frame.spans[1].addr
       \/ \E i \in 3..Len(frame.spans) :
            Brings(i, c, n) /\ guest[c] = FileData[Place(frame.spans, i, c) + 1]
       \/ (\A i \in 3..Len(frame.spans) : ~Brings(i, c, n)) /\ guest[c] = before[c]

Arriving ==
  pc \in {"out", "idle"} /\ kind = "read" /\ ret = "SUCCESS" =>
    /\ Reading(frame.spans, <<>>)
    /\ cursor \in 0..Len(frame.spans) /\ (pc = "idle" => cursor = 0)
    /\ \E n \in 0..Len(FileData) : Loaded(n) /\ Delivered(n)

--------------------------------------------------------------------------------
(* Where the buffers of a read are.                                           *)

(* What is known of the spans of a read that is about to be served.           *)
ReadFrame(spans, offset) ==
  /\ spans \in Seq(Span) /\ offset \in 0..FrameSize
  /\ Apart(spans, offset) /\ Packed(spans, offset) /\ InMemory(spans) /\ Reading(spans, <<>>)

(* The numbers of its spans.                                                  *)
LEMMA ReadSpans ==
  ASSUME NEW spans, NEW offset, ReadFrame(spans, offset)
  PROVE  /\ Len(spans) \in Nat /\ Len(spans) >= 2 /\ DOMAIN spans = 1..Len(spans)
         /\ \A i \in 1..Len(spans) : /\ spans[i] \in Span /\ spans[i].at \in Nat
                                     /\ spans[i].count \in Nat /\ spans[i].addr \in Nat
                                     /\ spans[i].at + spans[i].count <= offset
         /\ spans[1].of = "view" /\ spans[1].count = 1 /\ spans[2].of = "iovs"
         /\ \A i \in 3..Len(spans) : spans[i].of = "view" /\ spans[i].at >= FirstSlot(spans)
         /\ FirstSlot(spans) \in Nat /\ FirstSlot(spans) > spans[1].at
         /\ FirstSlot(spans) <= offset /\ offset \in Nat
<1>1. spans \in Seq(Span) /\ Len(spans) \in Nat /\ DOMAIN spans = 1..Len(spans) /\ offset \in Nat
  BY LenProperties DEF ReadFrame
<1>2. Len(spans) >= 2
  <2>1. Len(spans) + Len(<<>>) >= 2 /\ Len(<<>>) = 0
    BY EmptySeq DEF ReadFrame, Reading
  <2> QED
    BY <1>1, <2>1
<1>3. \A i \in 1..Len(spans) : /\ spans[i] \in Span /\ spans[i].at \in Nat
                               /\ spans[i].count \in Nat /\ spans[i].addr \in Nat
  BY <1>1, ElementOfSeq, SpanFields
<1>4. \A i \in 1..Len(spans) :
        /\ spans[i].at + spans[i].count <= offset
        /\ \A j \in 1..i - 1 : spans[j].at + spans[j].count <= spans[i].at
  BY <1>1 DEF ReadFrame, Apart
<1>5. \A i \in 1..Len(spans) : Shape(i, spans[i])
  BY <1>1 DEF ReadFrame, Reading
<1>6. 1 \in 1..Len(spans) /\ 2 \in 1..Len(spans) /\ 1 \in 1..2 - 1
      /\ \A i \in 3..Len(spans) : i \in 1..Len(spans) /\ i > 2 /\ 2 \in 1..i - 1
  BY <1>1, <1>2
<1>7. spans[1].of = "view" /\ spans[1].count = 1 /\ spans[2].of = "iovs"
      /\ \A i \in 3..Len(spans) : spans[i].of = "view"
  BY <1>5, <1>6 DEF Shape
<1>8. \A i \in 3..Len(spans) : spans[i].at >= spans[2].at + spans[2].count
  <2> TAKE i \in 3..Len(spans)
  <2>1. spans[2].at + spans[2].count <= spans[i].at
    BY <1>4, <1>6, Zenon
  <2>2. spans[2].at \in Nat /\ spans[2].count \in Nat /\ spans[i].at \in Nat
    BY <1>3, <1>6, Zenon
  <2> QED
    BY <2>1, <2>2
<1>9. spans[2].at + spans[2].count \in Nat /\ spans[2].at + spans[2].count > spans[1].at
      /\ spans[2].at + spans[2].count <= offset
  <2> DEFINE t == spans[1].at
             u == spans[2].at
             m == spans[2].count
  <2>1. t + spans[1].count <= u /\ u + m <= offset /\ spans[1].count = 1
    BY <1>4, <1>6, <1>7, Zenon
  <2>2. t \in Nat /\ u \in Nat /\ m \in Nat
    BY <1>3, <1>6, Zenon
  <2>3. t + 1 <= u
    BY <2>1
  <2> HIDE DEF t, u, m
  <2>4. u + m \in Nat /\ u + m > t
    BY <2>2, <2>3
  <2> QED
    BY <2>1, <2>4 DEF t, u, m
<1> QED
  BY <1>1, <1>2, <1>3, <1>4, <1>7, <1>8, <1>9, Zenon DEF FirstSlot

(* Where the buffers begin, counted from the first of their cells.            *)
BufferPos(spans, offset) ==
  [j \in 1..Len(spans) - 1 |->
     IF j = Len(spans) - 1 THEN offset - FirstSlot(spans) ELSE spans[j + 2].at - FirstSlot(spans)]

(* Sequences as long as the buffers are laid out so.                          *)
LEMMA BufferLayout ==
  ASSUME NEW spans, NEW offset, ReadFrame(spans, offset),
         NEW seqs, Len(seqs) = Len(spans) - 2,
         \A j \in 1..Len(seqs) : Len(seqs[j]) = spans[j + 2].count
  PROVE  Layout(seqs, BufferPos(spans, offset))
<1> DEFINE pos == BufferPos(spans, offset)
           first == FirstSlot(spans)
           N == Len(spans)
<1>1. /\ N \in Nat /\ N >= 2 /\ first \in Nat /\ first <= offset /\ offset \in Nat
      /\ \A i \in 3..N : spans[i].at >= first /\ spans[i].at \in Nat /\ spans[i].count \in Nat
  <2>1. \A i \in 3..N : i \in 1..N
    OBVIOUS
  <2> QED
    BY <2>1, ReadSpans
<1>2. \A i \in 1..N : spans[i].at + spans[i].count = IF i = N THEN offset ELSE spans[i + 1].at
  BY DEF ReadFrame, Packed
<1>3. \A j \in 1..N - 1 : pos[j] = IF j = N - 1 THEN offset - first ELSE spans[j + 2].at - first
  BY DEF BufferPos
<1>4. pos = [j \in 1..N - 1 |-> pos[j]]
  BY DEF BufferPos
<1>5. first = spans[2].at + spans[2].count
  BY DEF FirstSlot
<1> HIDE DEF pos, first, N
<1>6. \A j \in 1..N - 1 : pos[j] \in Nat
  <2> TAKE j \in 1..N - 1
  <2>1. CASE j = N - 1
    <3>1. pos[j] = offset - first
      BY <1>3, <2>1
    <3> QED
      BY <1>1, <3>1
  <2>2. CASE j # N - 1
    <3>1. j + 2 \in 3..N /\ pos[j] = spans[j + 2].at - first
      BY <1>1, <1>3, <2>2
    <3>2. spans[j + 2].at >= first /\ spans[j + 2].at \in Nat
      BY <1>1, <3>1
    <3> QED
      BY <1>1, <3>1, <3>2
  <2> QED
    BY <2>1, <2>2
<1>7. pos[1] = 0
  <2>1. first = IF 2 = N THEN offset ELSE spans[3].at
    BY <1>1, <1>2, <1>5
  <2>2. pos[1] = IF 1 = N - 1 THEN offset - first ELSE spans[3].at - first
    BY <1>1, <1>3
  <2>3. N # 2 => spans[3].at \in Nat
    BY <1>1
  <2> QED
    BY <2>1, <2>2, <2>3, <1>1
<1>8. ASSUME NEW j \in 1..N - 2
      PROVE  pos[j + 1] = pos[j] + spans[j + 2].count
  <2>1. j \in 1..N - 1 /\ j # N - 1 /\ j + 1 \in 1..N - 1 /\ j + 2 \in 1..N /\ j + 2 \in 3..N
        /\ (j + 1) + 2 = (j + 2) + 1 /\ (j + 1 = N - 1 <=> j + 2 = N)
    BY <1>1
  <2>2. pos[j] = spans[j + 2].at - first
    BY <1>3, <2>1
  <2>3. pos[j + 1] = IF j + 2 = N THEN offset - first ELSE spans[(j + 2) + 1].at - first
    BY <1>3, <2>1
  <2>4. spans[j + 2].at + spans[j + 2].count = IF j + 2 = N THEN offset ELSE spans[(j + 2) + 1].at
    BY <1>2, <2>1
  <2>5. spans[j + 2].at \in Nat /\ spans[j + 2].count \in Nat
    BY <1>1, <2>1
  <2>6. pos[j + 1] = (spans[j + 2].at + spans[j + 2].count) - first
    BY <2>3, <2>4
  <2> QED
    BY <1>1, <2>2, <2>5, <2>6
<1>9. Len(seqs) = N - 2 /\ Len(seqs) + 1 = N - 1
  BY <1>1 DEF N
<1>10. pos \in [1..Len(seqs) + 1 -> Nat]
  BY <1>4, <1>6, <1>9
<1>11. \A j \in 1..Len(seqs) : pos[j + 1] = pos[j] + Len(seqs[j])
  BY <1>8, <1>9
<1> QED
  BY <1>7, <1>10, <1>11 DEF Layout, pos

(* The position of a buffer.                                                  *)
LEMMA BufferAt ==
  ASSUME NEW spans, NEW offset, ReadFrame(spans, offset)
  PROVE  /\ \A j \in 1..Len(spans) - 2 :
              BufferPos(spans, offset)[j] = spans[j + 2].at - FirstSlot(spans)
         /\ BufferPos(spans, offset)[Len(spans) - 2 + 1] = offset - FirstSlot(spans)
<1>1. Len(spans) \in Nat /\ Len(spans) >= 2
  BY ReadSpans
<1>2. \A j \in 1..Len(spans) - 2 : j \in 1..Len(spans) - 1 /\ j # Len(spans) - 1
  BY <1>1
<1>3. Len(spans) - 2 + 1 = Len(spans) - 1 /\ Len(spans) - 1 \in 1..Len(spans) - 1
  BY <1>1
<1> QED
  BY <1>2, <1>3 DEF BufferPos

(* A function from 1 to n is a sequence.                                      *)
LEMMA FcnIsSeq ==
  ASSUME NEW T, NEW n \in Nat, NEW f \in [1..n -> T]
  PROVE  f \in Seq(T) /\ Len(f) = n
  OBVIOUS

(* n numbers from a on.                                                       *)
Run(a, n) == [k \in 1..n |-> a + k - 1]

IsRun(r, a, n) == r \in Seq(Nat) /\ Len(r) = n /\ \A k \in 1..n : r[k] = a + k - 1

(* They are numbers.                                                          *)
LEMMA RunType ==
  ASSUME NEW a \in Nat, NEW n \in Nat
  PROVE  IsRun(Run(a, n), a, n)
<1>1. \A k \in 1..n : a + k - 1 \in Nat
  OBVIOUS
<1>2. Run(a, n) \in [1..n -> Nat]
  BY <1>1 DEF Run
<1> QED
  BY <1>2 DEF Run, IsRun

(* What has a number for each cell of the buffers, in order, holds them so.   *)
InOrder(flat, spans, offset, base) ==
  /\ Len(flat) = offset - FirstSlot(spans)
  /\ \A j \in 1..Len(spans) - 2 : \A k \in 1..spans[j + 2].count :
       /\ spans[j + 2].at - FirstSlot(spans) + k \in 1..offset - FirstSlot(spans)
       /\ flat[spans[j + 2].at - FirstSlot(spans) + k] = base[j] + k - 1
  /\ \A p \in 1..offset - FirstSlot(spans) :
       \E j \in 1..Len(spans) - 2 : \E k \in 1..spans[j + 2].count :
         p = spans[j + 2].at - FirstSlot(spans) + k

(* Runs as long as the buffers, one after the other, do.                      *)
LEMMA BuffersInOrder ==
  ASSUME NEW spans, NEW offset, ReadFrame(spans, offset),
         NEW base \in [1..Len(spans) - 2 -> Nat],
         NEW seqs \in Seq(Seq(Nat)), Len(seqs) = Len(spans) - 2,
         \A j \in 1..Len(spans) - 2 : seqs[j] = Run(base[j], spans[j + 2].count)
  PROVE  InOrder(FlattenSeq(seqs), spans, offset, base)
<1> DEFINE N == Len(spans)
           first == FirstSlot(spans)
           pos == BufferPos(spans, offset)
           flat == FlattenSeq(seqs)
<1>1. /\ N \in Nat /\ N >= 2
      /\ \A i \in 1..N : spans[i].count \in Nat
  BY ReadSpans
<1>2. \A j \in 1..N - 2 : j + 2 \in 1..N
  BY <1>1
<1>4. \A j \in 1..N - 2 : base[j] \in Nat /\ spans[j + 2].count \in Nat
  BY <1>1, <1>2
<1>5. \A j \in 1..N - 2 :
        /\ seqs[j] \in Seq(Nat) /\ Len(seqs[j]) = spans[j + 2].count
        /\ \A k \in 1..spans[j + 2].count : seqs[j][k] = base[j] + k - 1
  <2> TAKE j \in 1..N - 2
  <2>1. base[j] \in Nat /\ spans[j + 2].count \in Nat /\ seqs[j] = Run(base[j], spans[j + 2].count)
    BY <1>4, Zenon
  <2>2. IsRun(seqs[j], base[j], spans[j + 2].count)
    BY <2>1, RunType, Zenon
  <2> QED
    BY <2>2, Zenon DEF IsRun
<1>7. Len(seqs) = N - 2
  OBVIOUS
<1>8. Layout(seqs, pos)
  BY <1>5, BufferLayout
<1>9. /\ \A j \in 1..N - 2 : pos[j] = spans[j + 2].at - first
      /\ pos[N - 2 + 1] = offset - first
  BY BufferAt
<1>10. PrefixHolds(flat, seqs, pos, N - 2)
  BY <1>7, <1>8, FlattenLayout
<1>11. \A p \in 1..pos[N - 2 + 1] :
         \E j \in 1..N - 2 : \E k \in 1..Len(seqs[j]) : p = pos[j] + k
  <2>1. \A p \in 1..pos[Len(seqs) + 1] :
          \E j \in 1..Len(seqs) : \E k \in 1..Len(seqs[j]) : p = pos[j] + k
    <3>1. Covered(seqs, pos)
      BY <1>8, LayoutCovers
    <3> QED
      BY <3>1, Zenon DEF Covered
  <2> HIDE DEF pos, N
  <2> QED
    BY <2>1, <1>7
<1> HIDE DEF pos, first, flat, N
<1>12. Len(flat) = offset - first
  BY <1>9, <1>10, Zenon DEF PrefixHolds
<1>13. ASSUME NEW j \in 1..N - 2, NEW k \in 1..spans[j + 2].count
       PROVE  /\ spans[j + 2].at - first + k \in 1..offset - first
              /\ flat[spans[j + 2].at - first + k] = base[j] + k - 1
  <2>1. k \in 1..Len(seqs[j])
    BY <1>5, Zenon
  <2>2. pos[j] + k \in 1..pos[N - 2 + 1] /\ flat[pos[j] + k] = seqs[j][k]
    BY <1>10, <2>1, Zenon DEF PrefixHolds
  <2>3. pos[j] = spans[j + 2].at - first /\ pos[N - 2 + 1] = offset - first
    BY <1>9, Zenon
  <2>4. seqs[j][k] = base[j] + k - 1
    BY <1>5, Zenon
  <2> QED
    BY <2>2, <2>3, <2>4, Zenon
<1>14. ASSUME NEW p \in 1..offset - first
       PROVE  \E j \in 1..N - 2 : \E k \in 1..spans[j + 2].count : p = spans[j + 2].at - first + k
  <2>1. p \in 1..pos[N - 2 + 1]
    BY <1>9, Zenon
  <2>2. PICK j \in 1..N - 2 : \E k \in 1..Len(seqs[j]) : p = pos[j] + k
    BY <1>11, <2>1, Zenon
  <2>3. Len(seqs[j]) = spans[j + 2].count /\ pos[j] = spans[j + 2].at - first
    BY <1>5, <1>9, Zenon
  <2> QED
    BY <2>2, <2>3, Zenon
<1> QED
  BY <1>12, <1>13, <1>14, Zenon DEF InOrder, first, flat, N

(* The slots of the buffers follow each other.                                *)
LEMMA BufferSlots ==
  ASSUME ReadFrame(frame.spans, frame.offset)
  PROVE  /\ Len(SlotsFrom(3)) = frame.offset - FirstSlot(frame.spans)
         /\ \A p \in 1..frame.offset - FirstSlot(frame.spans) :
              SlotsFrom(3)[p] = FirstSlot(frame.spans) + p - 1
<1> DEFINE spans == frame.spans
           N == Len(spans)
           first == FirstSlot(spans)
           seqs == [j \in 1..N - 3 + 1 |->
                      LET s == spans[j + 3 - 1]
                      IN  IF s.of = "view" THEN [k \in 1..s.count |-> s.at + k - 1] ELSE <<>>]
           base == [j \in 1..N - 2 |-> spans[j + 2].at]
           runs == [j \in 1..N - 2 |-> Run(base[j], spans[j + 2].count)]
<1>1. /\ N \in Nat /\ N >= 2 /\ first \in Nat
      /\ \A i \in 3..N : spans[i].of = "view" /\ spans[i].at \in Nat
  <2>1. \A i \in 3..N : i \in 1..N
    OBVIOUS
  <2> QED
    BY <2>1, ReadSpans
<1>2. SlotsFrom(3) = FlattenSeq(seqs)
  BY DEF SlotsFrom
<1>3. 1..N - 3 + 1 = 1..N - 2 /\ \A j \in 1..N - 2 : j + 3 - 1 = j + 2 /\ j + 2 \in 3..N
  BY <1>1
<1>4. \A j \in 1..N - 2 : spans[j + 3 - 1] = spans[j + 2] /\ spans[j + 2].of = "view"
  BY <1>1, <1>3, Zenon
<1>5. seqs = runs
  <2>1. \A j \in 1..N - 2 :
          (LET s == spans[j + 3 - 1]
           IN  IF s.of = "view" THEN [k \in 1..s.count |-> s.at + k - 1] ELSE <<>>)
          = Run(base[j], spans[j + 2].count)
    BY <1>4, Zenon DEF Run
  <2> QED
    BY <1>3, <2>1
<1>6. base \in [1..N - 2 -> Nat]
  BY <1>1, <1>3
<1>7. InOrder(FlattenSeq(runs), spans, frame.offset, base)
  <2>1. N - 2 \in Nat /\ \A j \in 1..N - 2 : base[j] \in Nat /\ spans[j + 2].count \in Nat
    <3>1. \A j \in 1..N - 2 : j + 2 \in 1..N
      BY <1>1
    <3> QED
      BY <1>1, <1>6, <3>1, ReadSpans
  <2>2. \A j \in 1..N - 2 : Run(base[j], spans[j + 2].count) \in Seq(Nat)
    BY <2>1, RunType, Zenon DEF IsRun
  <2>3. /\ runs \in [1..N - 2 -> Seq(Nat)]
        /\ \A j \in 1..N - 2 : runs[j] = Run(base[j], spans[j + 2].count)
    BY <2>2
  <2> HIDE DEF runs, base
  <2>4. runs \in Seq(Seq(Nat)) /\ Len(runs) = N - 2
    <3> HIDE DEF N
    <3> QED
      BY <2>1, <2>3, FcnIsSeq
  <2> QED
    BY <1>6, <2>3, <2>4, BuffersInOrder
<1>8. \A j \in 1..N - 2 : base[j] = spans[j + 2].at /\ base[j] \in Nat
  BY <1>1, <1>3
<1> HIDE DEF base, runs, N, seqs
<1> DEFINE flat == FlattenSeq(runs)
<1>9. ASSUME NEW p \in 1..frame.offset - first
      PROVE  flat[p] = first + p - 1
  <2>1. PICK j \in 1..N - 2 : \E k \in 1..spans[j + 2].count : p = spans[j + 2].at - first + k
    BY <1>7, Zenon DEF InOrder, N
  <2>2. PICK k \in 1..spans[j + 2].count : p = spans[j + 2].at - first + k
    BY <2>1
  <2>3. flat[p] = base[j] + k - 1
    BY <1>7, <2>2, Zenon DEF InOrder, N
  <2>4. base[j] \in Nat /\ base[j] = spans[j + 2].at /\ k \in Int
    BY <1>8
  <2> HIDE DEF first, flat
  <2> QED
    BY <1>1, <2>2, <2>3, <2>4
<1>10. Len(flat) = frame.offset - first
  BY <1>7, Zenon DEF InOrder
<1> QED
  BY <1>2, <1>5, <1>9, <1>10, Zenon

(* The first view of a read has the one slot the number of bytes goes to.     *)
LEMMA OutSlot ==
  ASSUME ReadFrame(frame.spans, frame.offset)
  PROVE  SlotsFrom(1)[1] = frame.spans[1].at
<1> DEFINE spans == frame.spans
           N == Len(spans)
           first == FirstSlot(spans)
           elem(j) == IF spans[j].of = "view" THEN Run(spans[j].at, spans[j].count) ELSE <<>>
           seqs == [j \in 1..N |-> elem(j)]
           pos == [j \in 1..N + 1 |-> IF j = 1 THEN 0
                                      ELSE IF j = N + 1 THEN 1 + frame.offset - first
                                      ELSE IF j = 2 THEN 1 ELSE 1 + spans[j].at - first]
<1>1. /\ N \in Nat /\ N >= 2 /\ first \in Nat /\ frame.offset \in Nat /\ first <= frame.offset
      /\ spans[1].of = "view" /\ spans[1].count = 1 /\ spans[2].of = "iovs"
      /\ spans[1].at \in Nat
      /\ \A i \in 3..N : /\ spans[i].of = "view" /\ spans[i].at \in Nat /\ spans[i].count \in Nat
                         /\ spans[i].at >= first
  <2>1. 1 \in 1..N /\ \A i \in 3..N : i \in 1..N
    BY ReadSpans
  <2>2. /\ N \in Nat /\ N >= 2 /\ first \in Nat /\ frame.offset \in Nat /\ first <= frame.offset
        /\ spans[1].of = "view" /\ spans[1].count = 1 /\ spans[2].of = "iovs"
    BY ReadSpans
  <2>3. \A i \in 1..N : spans[i].at \in Nat /\ spans[i].count \in Nat
    BY ReadSpans
  <2>4. \A i \in 3..N : spans[i].of = "view" /\ spans[i].at >= first
    BY ReadSpans
  <2> QED
    BY <2>1, <2>2, <2>3, <2>4, Zenon
<1>2. SlotsFrom(1) = FlattenSeq(seqs)
  <2>1. 1..N - 1 + 1 = 1..N /\ \A j \in 1..N : j + 1 - 1 = j
    BY <1>1
  <2>2. [j \in 1..N - 1 + 1 |->
           LET s == spans[j + 1 - 1]
           IN  IF s.of = "view" THEN [k \in 1..s.count |-> s.at + k - 1] ELSE <<>>] = seqs
    BY <2>1 DEF Run
  <2> QED
    BY <2>2 DEF SlotsFrom
<1>3. \A i \in 1..N : spans[i].at + spans[i].count = IF i = N THEN frame.offset ELSE spans[i + 1].at
  BY DEF ReadFrame, Packed
<1>4. first = spans[2].at + spans[2].count
  BY DEF FirstSlot
<1>5. \A j \in 1..N : j = 1 \/ j = 2 \/ j \in 3..N
  BY <1>1
<1>7. /\ 1 \in 1..N /\ seqs[1] = Run(spans[1].at, 1) /\ seqs[2] = <<>>
      /\ \A j \in 3..N : seqs[j] = Run(spans[j].at, spans[j].count)
      /\ seqs = [j \in 1..N |-> seqs[j]]
  BY <1>1
<1>8. pos = [j \in 1..N + 1 |-> pos[j]]
  OBVIOUS
<1>9. \A j \in 1..N + 1 : pos[j] = IF j = 1 THEN 0
                                   ELSE IF j = N + 1 THEN 1 + frame.offset - first
                                   ELSE IF j = 2 THEN 1 ELSE 1 + spans[j].at - first
  OBVIOUS
<1> HIDE DEF seqs, pos, N, first
<1>6. /\ seqs[1] \in Seq(Nat) /\ Len(seqs[1]) = 1
      /\ seqs[2] \in Seq(Nat) /\ Len(seqs[2]) = 0
      /\ \A j \in 3..N : seqs[j] \in Seq(Nat) /\ Len(seqs[j]) = spans[j].count
  <2>1. 1 \in Nat
    OBVIOUS
  <2>2. <<>> \in Seq(Nat) /\ Len(<<>>) = 0
    BY EmptySeq
  <2>3. /\ Run(spans[1].at, 1) \in Seq(Nat) /\ Len(Run(spans[1].at, 1)) = 1
    BY <1>1, <2>1, RunType, Zenon DEF IsRun
  <2>4. \A j \in 3..N : /\ Run(spans[j].at, spans[j].count) \in Seq(Nat)
                         /\ Len(Run(spans[j].at, spans[j].count)) = spans[j].count
    <3> TAKE j \in 3..N
    <3>1. spans[j].at \in Nat /\ spans[j].count \in Nat
      BY <1>1, Zenon
    <3>2. IsRun(Run(spans[j].at, spans[j].count), spans[j].at, spans[j].count)
      BY <3>1, RunType, Zenon
    <3> QED
      BY <3>2, Zenon DEF IsRun
  <2> QED
    BY <1>7, <2>2, <2>3, <2>4, Zenon
<1>10. seqs \in Seq(Seq(Nat)) /\ Len(seqs) = N
  <2>1. \A j \in 1..N : seqs[j] \in Seq(Nat)
    BY <1>5, <1>6
  <2>2. seqs \in [1..N -> Seq(Nat)]
    BY <1>7, <2>1
  <2> QED
    BY <1>1, <2>2
<1>11. \A j \in 1..N + 1 : pos[j] \in Nat
  <2> TAKE j \in 1..N + 1
  <2>1. CASE j \in 3..N
    <3>1. pos[j] = 1 + spans[j].at - first /\ spans[j].at \in Nat /\ spans[j].at >= first
      BY <1>1, <1>9, <2>1
    <3> QED
      BY <3>1, <1>1
  <2>2. CASE j \notin 3..N
    <3>1. j = 1 \/ j = 2 \/ j = N + 1
      BY <1>1, <2>2
    <3> QED
      BY <3>1, <1>1, <1>9
  <2> QED
    BY <2>1, <2>2
<1>12. \A j \in 1..N : pos[j + 1] = pos[j] + Len(seqs[j])
  <2> TAKE j \in 1..N
  <2>0. j + 1 \in 1..N + 1 /\ j \in 1..N + 1 /\ j + 1 # 1 /\ j # N + 1
    BY <1>1
  <2>1. CASE j = 1
    <3>1. Len(seqs[j]) = 1 /\ pos[j] = 0
      BY <1>6, <1>9, <2>0, <2>1, Zenon
    <3>2. pos[2] = 1
      BY <1>1, <1>9
    <3> QED
      BY <2>1, <3>1, <3>2
  <2>2. CASE j = 2
    <3>0. Len(seqs[j]) = 0
      BY <1>6, <2>2, Zenon
    <3>1. Len(seqs[j]) = 0 /\ pos[j] = 1
      BY <3>0, <1>9, <2>0, <2>2
    <3>2. pos[3] = IF N = 2 THEN 1 + frame.offset - first ELSE 1 + spans[3].at - first
      BY <1>1, <1>9, <2>0, <2>2
    <3>3. first = IF N = 2 THEN frame.offset ELSE spans[3].at
      BY <1>1, <1>3, <1>4
    <3>4. pos[3] = 1 + first - first
      BY <3>2, <3>3
    <3> QED
      BY <1>1, <2>2, <3>1, <3>4
  <2>3. CASE j \in 3..N
    <3>0. Len(seqs[j]) = spans[j].count
      BY <1>6, <2>3, Zenon
    <3>1. Len(seqs[j]) = spans[j].count /\ pos[j] = 1 + spans[j].at - first
      BY <3>0, <1>9, <2>0, <2>3
    <3>2. pos[j + 1] = IF j = N THEN 1 + frame.offset - first ELSE 1 + spans[j + 1].at - first
      BY <1>1, <1>9, <2>0, <2>3
    <3>3. spans[j].at + spans[j].count = IF j = N THEN frame.offset ELSE spans[j + 1].at
      BY <1>3
    <3>4. pos[j + 1] = 1 + (spans[j].at + spans[j].count) - first
      BY <3>2, <3>3
    <3>5. spans[j].at \in Nat /\ spans[j].count \in Nat
      BY <1>1, <2>3
    <3> DEFINE t == spans[j].at
               m == spans[j].count
    <3>6. pos[j] = 1 + t - first /\ pos[j + 1] = 1 + (t + m) - first
      BY <3>1, <3>4
    <3>7. t \in Nat /\ m \in Nat /\ Len(seqs[j]) = m
      BY <3>1, <3>5
    <3> HIDE DEF t, m
    <3>8. 1 + (t + m) - first = (1 + t - first) + m
      BY <1>1, <3>7
    <3> QED
      BY <3>6, <3>7, <3>8, Zenon
  <2> QED
    BY <1>5, <2>1, <2>2, <2>3
<1>13. Layout(seqs, pos)
  <2>1. pos[1] = 0
    BY <1>1, <1>9
  <2>2. pos \in [1..Len(seqs) + 1 -> Nat]
    BY <1>8, <1>10, <1>11
  <2> QED
    BY <1>10, <1>12, <2>1, <2>2 DEF Layout
<1>14. PrefixHolds(FlattenSeq(seqs), seqs, pos, N)
  BY <1>10, <1>13, FlattenLayout
<1>15. Run(spans[1].at, 1)[1] = spans[1].at /\ 1 \in 1..1
  BY <1>1 DEF Run
<1>16. 1 \in 1..Len(seqs[1]) /\ pos[1] = 0 /\ 0 + 1 = 1
  <2>1. 1 \in 1..N + 1
    BY <1>1
  <2> QED
    BY <1>6, <1>9, <1>15, <2>1
<1>17. FlattenSeq(seqs)[1] = seqs[1][1]
  <2>1. FlattenSeq(seqs)[pos[1] + 1] = seqs[1][1]
    BY <1>7, <1>14, <1>16, Zenon DEF PrefixHolds
  <2> QED
    BY <1>16, <2>1, Zenon
<1> QED
  BY <1>2, <1>7, <1>15, <1>17, Zenon

--------------------------------------------------------------------------------
(* The steps of a read.                                                       *)

(* The frame of a read that is about to be served, or has been.               *)
LEMMA FrameOfRead ==
  ASSUME IInv, Framing, Reading(frame.spans, <<>>)
  PROVE  ReadFrame(frame.spans, frame.offset)
<1>1. frame.spans \in Seq(Span) /\ frame.offset \in 0..FrameSize
  BY DEF IInv, Typed, FrameType
<1>2. Apart(frame.spans, frame.offset)
  BY DEF IInv, SpansApart, Apart
<1> QED
  BY <1>1, <1>2, Zenon DEF ReadFrame, Framing

(* A span after the others leaves no cell out,                                *)
LEMMA PackedAppend ==
  ASSUME NEW spans \in Seq(Span), NEW s \in Span, Packed(spans, s.at)
  PROVE  Packed(Append(spans, s), s.at + s.count)
<1> DEFINE n == Len(spans)
           all == Append(spans, s)
<1>1. /\ n \in Nat /\ Len(all) = n + 1
      /\ all[n + 1] = s /\ \A i \in 1..n : all[i] = spans[i]
  BY ElementOfSeq
<1>2. \A i \in 1..n : spans[i].at + spans[i].count = IF i = n THEN s.at ELSE spans[i + 1].at
  BY DEF Packed
<1> HIDE DEF n, all
<1>3. ASSUME NEW i \in 1..n + 1
      PROVE  all[i].at + all[i].count = IF i = n + 1 THEN s.at + s.count ELSE all[i + 1].at
  <2>1. CASE i = n + 1
    BY <2>1, <1>1
  <2>2. CASE i # n + 1
    <3>1. i \in 1..n /\ (i # n => i + 1 \in 1..n) /\ i # n + 1
      BY <1>1, <2>2
    <3>2. all[i + 1].at = IF i = n THEN s.at ELSE spans[i + 1].at
      <4>1. CASE i = n
        BY <4>1, <1>1
      <4>2. CASE i # n
        BY <4>2, <3>1, <1>1, Zenon
      <4> QED
        BY <4>1, <4>2
    <3> QED
      BY <3>1, <3>2, <1>1, <1>2
  <2> QED
    BY <2>1, <2>2
<1> QED
  BY <1>1, <1>3 DEF Packed, all

(* lies in the guest's memory,                                                *)
LEMMA InMemoryAppend ==
  ASSUME NEW spans \in Seq(Span), NEW s \in Span, InMemory(spans),
         s.of # "path" => InGuest(s.addr, s.count)
  PROVE  InMemory(Append(spans, s))
<1> DEFINE n == Len(spans)
           all == Append(spans, s)
<1>1. /\ n \in Nat /\ DOMAIN spans = 1..n /\ DOMAIN all = 1..n + 1
      /\ all[n + 1] = s /\ \A i \in 1..n : all[i] = spans[i]
  BY ElementOfSeq
<1> HIDE DEF n, all
<1>2. \A i \in 1..n + 1 : i \in 1..n \/ i = n + 1
  BY <1>1
<1> QED
  BY <1>1, <1>2, Zenon DEF InMemory, all

(* and is what the read wants there, as are its buffers.                      *)
LEMMA ReadingAppend ==
  ASSUME NEW spans \in Seq(Span), NEW parts \in Seq(PartType), parts # <<>>, Reading(spans, parts),
         NEW s \in Span, s.of = Head(parts).of, s.count = Head(parts).count,
         NEW buffers \in Seq(PartType),
         s.of # "iovs" => buffers = <<>>,
         \A i \in DOMAIN buffers : s.of = "iovs" => buffers[i].of = "view",
         s.of # "ciovs"
  PROVE  Reading(Append(spans, s), buffers \o Tail(parts))
<1> DEFINE n == Len(spans)
           t == Len(parts)
           m == Len(buffers)
           all == Append(spans, s)
           rest == buffers \o Tail(parts)
<1>1. /\ n \in Nat /\ DOMAIN spans = 1..n /\ DOMAIN all = 1..n + 1 /\ Len(all) = n + 1
      /\ all[n + 1] = s /\ \A i \in 1..n : all[i] = spans[i]
  BY ElementOfSeq
<1>2. /\ t \in Nat /\ t >= 1 /\ m \in Nat /\ DOMAIN parts = 1..t /\ DOMAIN buffers = 1..m
      /\ Head(parts) = parts[1] /\ DOMAIN rest = 1..m + t - 1 /\ Len(rest) = m + t - 1
  OBVIOUS
<1>3. (\A i \in 1..m : rest[i] = buffers[i]) /\ (\A i \in 2..t : rest[m + i - 1] = parts[i])
  OBVIOUS
<1>4. m = 0 \/ s.of = "iovs"
  BY EmptySeq
<1>5. /\ n + t >= 2 /\ (\A i \in 1..n : Shape(i, spans[i]))
      /\ \A i \in 1..t : Shape(n + i, parts[i])
  BY <1>1, <1>2 DEF Reading
<1> HIDE DEF n, t, m, all, rest
<1>6. Shape(n + 1, s)
  <2>1. Shape(n + 1, parts[1])
    BY <1>2, <1>5
  <2> QED
    BY <2>1, <1>2 DEF Shape
<1>7. s.of = "iovs" => n = 1
  <2>1. n + 1 = 1 => s.of = "view"
    BY <1>6 DEF Shape
  <2>2. n + 1 > 2 => s.of = "view"
    BY <1>6 DEF Shape
  <2> QED
    BY <2>1, <2>2, <1>1
<1>8. \A i \in 1..n + 1 : Shape(i, all[i])
  <2>1. \A i \in 1..n + 1 : i \in 1..n \/ i = n + 1
    BY <1>1
  <2> QED
    BY <2>1, <1>1, <1>5, <1>6, Zenon
<1>9. ASSUME NEW i \in 1..m + t - 1
      PROVE  Shape((n + 1) + i, rest[i])
  <2>1. CASE i \in 1..m
    <3>1. s.of = "iovs" /\ n = 1
      BY <2>1, <1>2, <1>4, <1>7
    <3>2. rest[i].of = "view"
      BY <2>1, <3>1, <1>2, <1>3
    <3>3. (n + 1) + i > 2 /\ (n + 1) + i # 1 /\ (n + 1) + i # 2
      BY <2>1, <3>1
    <3> QED
      BY <3>2, <3>3 DEF Shape
  <2>2. CASE i \notin 1..m
    <3>1. i - m + 1 \in 2..t /\ m + (i - m + 1) - 1 = i /\ i - m + 1 \in 1..t
      BY <1>2, <2>2
    <3>2. rest[i] = parts[i - m + 1] /\ Shape(n + (i - m + 1), parts[i - m + 1])
      BY <3>1, <1>3, <1>5
    <3>3. CASE m = 0
      <4>1. n + (i - m + 1) = (n + 1) + i
        BY <3>3, <1>1
      <4> QED
        BY <3>2, <4>1
    <3>4. CASE m # 0
      <4>1. n = 1
        BY <3>4, <1>4, <1>7
      <4>2. n + (i - m + 1) > 2
        BY <4>1, <3>1
      <4>3. rest[i].of = "view"
        BY <3>2, <4>2 DEF Shape
      <4>4. (n + 1) + i > 2 /\ (n + 1) + i # 1 /\ (n + 1) + i # 2
        BY <4>1
      <4> QED
        BY <4>3, <4>4 DEF Shape
    <3> QED
      BY <3>3, <3>4
  <2> QED
    BY <2>1, <2>2
<1>10. (n + 1) + (m + t - 1) >= 2
  BY <1>1, <1>2, <1>5
<1> QED
  BY <1>1, <1>2, <1>8, <1>9, <1>10 DEF Reading, all, rest

(* A call enters with an empty frame.                                         *)
LEMMA EnterFraming ==
  ASSUME NEW k, NEW parts, k = "read" => Reading(<<>>, parts), Enter(k, parts)
  PROVE  Framing'
<1>1. frame' = EmptyFrame /\ kind' = k /\ todo' = parts
  BY DEF Enter, Started
<1>2. frame'.spans = <<>> /\ Len(<<>>) = 0 /\ DOMAIN <<>> = {} /\ 1..0 = {}
  BY <1>1 DEF EmptyFrame
<1>3. Packed(frame.spans, frame.offset)' /\ InMemory(frame.spans)'
  BY <1>2, Zenon DEF Packed, InMemory
<1>4. Reading(frame.spans, todo)' <=> Reading(<<>>, parts)
  BY <1>1, <1>2, Zenon
<1> QED
  BY <1>1, <1>3, <1>4, Zenon DEF Framing

(* The parts of a read are what a read wants.                                 *)
LEMMA ReadParts ==
  ASSUME NEW p \in Cell, NEW q \in Cell, NEW n \in Nat
  PROVE  Reading(<<>>, <<MutableView(q, 1), external_iovs(p, n)>>)
<1> DEFINE parts == <<MutableView(q, 1), external_iovs(p, n)>>
<1>1. /\ DOMAIN parts = 1..2 /\ Len(parts) = 2 /\ Len(<<>>) = 0 /\ DOMAIN <<>> = {}
      /\ parts[1].of = "view" /\ parts[1].count = 1 /\ parts[2].of = "iovs"
  BY DEF Part, MutableView, external_iovs
<1> HIDE DEF parts
<1>2. Shape(0 + 1, parts[1]) /\ Shape(0 + 2, parts[2])
  BY <1>1 DEF Shape
<1>3. \A i \in 1..2 : i = 1 \/ i = 2
  OBVIOUS
<1>4. \A i \in DOMAIN parts : Shape(Len(<<>>) + i, parts[i])
  BY <1>1, <1>2, <1>3, Zenon
<1>5. Len(<<>>) + Len(parts) >= 2
  BY <1>1
<1>6. Reading(<<>>, parts)
  BY <1>1, <1>4, <1>5, Zenon DEF Reading
<1> QED
  BY <1>6 DEF parts

(* A part is allocated, and the parts it stands for come next.                *)
LEMMA AllocFraming ==
  ASSUME IInv, Framing, pc = "refer", todo # <<>>, NEW h, h = Head(todo), NEW cells,
         Fits(h.count), h.count <= GuestSize \/ h.count <= DirSize + FrameSize + 2,
         h.of # "path" => InGuest(h.addr, h.count),
         NEW buffers \in Seq(PartType), h.of # "iovs" /\ h.of # "ciovs" => buffers = <<>>,
         \A i \in DOMAIN buffers : h.of = "iovs" => buffers[i].of = "view",
         frame' = Allocated(h, cells),
         todo' = buffers \o Tail(todo), kind' = kind
  PROVE  Framing'
<1> DEFINE s == [addr |-> h.addr, count |-> h.count, of |-> h.of, at |-> frame.offset]
<1>1. /\ frame'.spans = Append(frame.spans, s) /\ frame'.offset = frame.offset + h.count
      /\ h \in PartType /\ frame.spans \in Seq(Span) /\ s \in Span
  BY FrameAllocated
<1>2. s.addr = h.addr /\ s.count = h.count /\ s.of = h.of /\ s.at = frame.offset
  OBVIOUS
<1> HIDE DEF s
<1>3. Packed(Append(frame.spans, s), s.at + s.count)
  BY <1>1, <1>2, PackedAppend DEF Framing
<1>4. InMemory(Append(frame.spans, s))
  BY <1>1, <1>2, InMemoryAppend DEF Framing
<1>5. ASSUME kind = "read"
      PROVE  Reading(Append(frame.spans, s), buffers \o Tail(todo))
  <2>1. Reading(frame.spans, todo) /\ todo \in Seq(PartType)
    BY <1>5 DEF Framing, IInv, Bounded
  <2>2. s.of # "ciovs"
    <3>1. 1 \in DOMAIN todo /\ h = todo[1]
      BY <2>1
    <3>2. Shape(Len(frame.spans) + 1, h)
      BY <2>1, <3>1, Zenon DEF Reading
    <3>3. Len(frame.spans) + 1 = 1 \/ Len(frame.spans) + 1 = 2 \/ Len(frame.spans) + 1 > 2
      BY <1>1
    <3> QED
      BY <1>2, <3>2, <3>3 DEF Shape
  <2> QED
    BY <1>1, <1>2, <2>1, <2>2, ReadingAppend
<1>6. Packed(frame.spans, frame.offset)' /\ InMemory(frame.spans)'
  BY <1>1, <1>2, <1>3, <1>4, Zenon
<1>7. kind' = "read" => Reading(frame.spans, todo)'
  BY <1>1, <1>5, Zenon
<1> QED
  BY <1>6, <1>7, Zenon DEF Framing

(* A call that does not touch its frame leaves it as it is.                   *)
LEMMA SameFraming ==
  ASSUME Framing, frame'.spans = frame.spans, frame'.offset = frame.offset,
         pc' # "refer" \/ kind' # "read" \/ (pc = pc' /\ kind = kind' /\ todo = todo')
  PROVE  Framing'
<1>1. Packed(frame.spans, frame.offset)' /\ InMemory(frame.spans)'
  BY Zenon DEF Framing
<1>2. pc' = "refer" /\ kind' = "read" => Reading(frame.spans, todo)'
  BY Zenon DEF Framing
<1> QED
  BY <1>1, <1>2, Zenon DEF Framing

(* ref_array.                                                                 *)
LEMMA RefArrayFraming ==
  ASSUME IInv, Framing, ref_array
  PROVE  Framing'
<1> PICK h : h = Head(todo)
  OBVIOUS
<1> DEFINE raw == copy_in(h.addr, frame.offset, h.count)
<1>1. pc = "refer" /\ todo # <<>> /\ h.of # "path"
  BY DEF ref_array
<1>2. h \in PartType
  BY <1>1 DEF IInv, Bounded
<1>3. CASE Throw("REQUIRE") \/ Throw("RangeError") \/ Throw("abort")
  <2>1. frame' = frame /\ pc' = "idle"
    BY <1>3 DEF Throw
  <2> QED
    BY <2>1, SameFraming
<1>4. CASE /\ Fits(h.count) /\ given /\ InGuest(h.addr, h.count)
           /\ frame' = Allocated(h, Repointed(raw))
           /\ todo' = Buffers(h, raw) \o Tail(todo)
           /\ UNCHANGED <<given, guest, lost, pc, kind, cursor, ret, before, calls>>
  <2>1. h.addr \in Cell /\ h.count \in Nat /\ h.count <= GuestSize
    BY <1>2, <1>4, Sizes_ DEF PartType, InGuest, Cell
  <2>2. frame.offset + h.count <= FrameSize
    BY <2>1, <1>4, AllocBound DEF IInv
  <2>3. \A k \in 0..h.count - 1 : raw[frame.offset + k] \in Cell
    BY <1>4, <2>1, <2>2, CopyInCells DEF IInv
  <2> HIDE DEF raw
  <2>4. /\ Buffers(h, raw) \in Seq(PartType)
        /\ h.of # "iovs" /\ h.of # "ciovs" => Buffers(h, raw) = <<>>
        /\ \A i \in DOMAIN Buffers(h, raw) : h.of = "iovs" => Buffers(h, raw)[i].of = "view"
    BY <1>2, <2>3, BufferParts
  <2> QED
    BY <1>1, <1>4, <2>1, <2>4, AllocFraming
<1> QED
  BY <1>1, <1>3, <1>4 DEF ref_array, raw

(* resolve_path.                                                              *)
LEMMA ResolvePathFraming ==
  ASSUME IInv, Framing, resolve_path
  PROVE  Framing'
<1> PICK h : h = Head(todo)
  OBVIOUS
<1>1. pc = "refer" /\ todo # <<>> /\ h.of = "path"
  BY DEF resolve_path
<1>2. frame \in FrameType /\ todo \in Seq(PartType) /\ Sized(todo)
  BY <1>1 DEF IInv, Typed, Bounded
<1>3. CASE Throw("REQUIRE")
  <2>1. frame' = frame /\ pc' = "idle"
    BY <1>3 DEF Throw
  <2> QED
    BY <2>1, SameFraming
<1>4. CASE Answer("errno", frame.cells)
  <2>1. frame'.spans = frame.spans /\ frame'.offset = frame.offset /\ pc' = "out"
    BY <1>2, <1>4 DEF Answer, FrameType
  <2> QED
    BY <2>1, SameFraming
<1>5. CASE /\ Fits(h.count)
           /\ frame' = Allocated(h, frame.cells)
           /\ todo' = Tail(todo)
           /\ UNCHANGED <<given, guest, lost, pc, kind, cursor, ret, before, calls>>
  <2>1. h.count <= DirSize + FrameSize + 2
    <3>1. h = todo[1] /\ 1 \in DOMAIN todo
      BY <1>1, <1>2
    <3>2. \A j \in 1..1 - 1 : FALSE
      OBVIOUS
    <3> QED
      BY <1>1, <1>2, <3>1, <3>2 DEF Sized
  <2>2. <<>> \in Seq(PartType) /\ DOMAIN <<>> = {} /\ <<>> \o Tail(todo) = Tail(todo)
    BY <1>1, <1>2
  <2> QED
    BY <1>1, <1>5, <2>1, <2>2, AllocFraming
<1> QED
  BY <1>1, <1>3, <1>4, <1>5 DEF resolve_path

--------------------------------------------------------------------------------
(* What a read stores, and what is written back of it.                        *)

(* The slot of a cell of the guest that a buffer covers.                      *)
LEMMA CoveredSlot ==
  ASSUME NEW spans, NEW offset, ReadFrame(spans, offset),
         NEW i \in 3..Len(spans), NEW c \in Guest, Covers(spans[i], c)
  PROVE  LET d == c - spans[i].addr
             x == spans[i].at + d
         IN  /\ d \in 0..spans[i].count - 1 /\ x \in Slot /\ x # spans[1].at
             /\ x = FirstSlot(spans) + Place(spans, i, c)
             /\ Place(spans, i, c) \in Nat
             /\ spans[i].at - FirstSlot(spans) + (d + 1) = Place(spans, i, c) + 1
             /\ Place(spans, i, c) + 1 \in 1..offset - FirstSlot(spans)
             /\ spans[i].addr + (d + 1) - 1 = c
             /\ spans[i].of # "path" /\ spans[i].of = "view"
<1>1. /\ i \in 1..Len(spans) /\ offset \in Nat /\ offset <= FrameSize /\ c \in Nat
  BY DEF ReadFrame, Guest
<1>2. /\ spans[i].at \in Nat /\ spans[i].count \in Nat /\ spans[i].addr \in Nat
      /\ spans[i].at + spans[i].count <= offset
      /\ spans[i].at >= FirstSlot(spans)
      /\ FirstSlot(spans) \in Nat /\ FirstSlot(spans) > spans[1].at
      /\ spans[i].of = "view" /\ spans[1].at \in Nat
  <2>1. 1 \in 1..Len(spans)
    BY ReadSpans
  <2> QED
    BY <1>1, <2>1, ReadSpans
<1> DEFINE a == spans[i].addr
           t == spans[i].at
           n == spans[i].count
           f == FirstSlot(spans)
<1>3. c \in a..a + n - 1 /\ Place(spans, i, c) = t + (c - a) - f
  BY DEF Covers, Place
<1> HIDE DEF a, t, n, f
<1>4. /\ a \in Nat /\ t \in Nat /\ n \in Nat /\ f \in Nat /\ t + n <= offset /\ t >= f
      /\ f > spans[1].at /\ spans[1].at \in Nat
  BY <1>2 DEF a, t, n, f
<1>5. /\ c - a \in 0..n - 1 /\ t + (c - a) \in 0..FrameSize - 1 /\ t + (c - a) # spans[1].at
      /\ t + (c - a) = f + (t + (c - a) - f) /\ t + (c - a) - f \in Nat
      /\ t - f + ((c - a) + 1) = (t + (c - a) - f) + 1
      /\ (t + (c - a) - f) + 1 \in 1..offset - f
      /\ a + ((c - a) + 1) - 1 = c
  BY <1>1, <1>3, <1>4, SizeAssumption
<1>6. spans[i].of # "path" /\ spans[i].of = "view"
  BY <1>2
<1> QED
  BY <1>3, <1>5, <1>6 DEF a, t, n, f, Slot

(* Where two buffers overlap, the later one has the later byte.               *)
LEMMA LaterPlace ==
  ASSUME NEW spans, NEW offset, ReadFrame(spans, offset), NEW c \in Guest,
         NEW i \in 3..Len(spans), NEW j \in 3..Len(spans), j < i,
         Covers(spans[i], c), Covers(spans[j], c)
  PROVE  Place(spans, j, c) < Place(spans, i, c)
<1> DEFINE a1 == spans[j].addr
           t1 == spans[j].at
           n1 == spans[j].count
           a2 == spans[i].addr
           t2 == spans[i].at
           f == FirstSlot(spans)
<1>1. /\ a1 \in Nat /\ t1 \in Nat /\ n1 \in Nat /\ f \in Nat
      /\ a2 \in Nat /\ t2 \in Nat /\ c \in Nat
  <2>1. i \in 1..Len(spans) /\ j \in 1..Len(spans)
    OBVIOUS
  <2> QED
    BY <2>1, ReadSpans DEF Guest
<1>2. t1 + n1 <= t2
  <2>1. j \in 1..i - 1 /\ i \in DOMAIN spans
    BY ReadSpans
  <2> QED
    BY <2>1, Zenon DEF ReadFrame, Apart
<1>3. c \in a1..a1 + n1 - 1 /\ c \in a2..a2 + spans[i].count - 1
  BY DEF Covers
<1>4. Place(spans, i, c) = t2 + (c - a2) - f /\ Place(spans, j, c) = t1 + (c - a1) - f
  BY DEF Place
<1> HIDE DEF a1, t1, n1, a2, t2, f
<1>5. c <= a1 + n1 - 1 /\ c >= a2
  BY <1>1, <1>3
<1>6. t1 + (c - a1) - f < t2 + (c - a2) - f
  BY <1>1, <1>2, <1>5
<1> QED
  BY <1>4, <1>6

(* The frame once n bytes of the file, and then their number, are stored.     *)
Read(n) == Filled(Filled(frame.cells, SlotsFrom(3), SubSeq(FileData, 1, n)),
                  SlotsFrom(1), <<n % Word>>)

(* A read stores its bytes in the slots of the buffers, in order.             *)
LEMMA ReadStores ==
  ASSUME IInv, ReadFrame(frame.spans, frame.offset),
         NEW n \in 0..Len(FileData), n <= Len(SlotsFrom(3))
  PROVE  /\ n <= frame.offset - FirstSlot(frame.spans)
         /\ Read(n)[frame.spans[1].at] = n
         /\ \A x \in Slot : x # frame.spans[1].at =>
              Read(n)[x] = IF x - FirstSlot(frame.spans) \in 0..n - 1
                           THEN FileData[x - FirstSlot(frame.spans) + 1] ELSE frame.cells[x]
<1> DEFINE spans == frame.spans
           first == FirstSlot(spans)
           data == SubSeq(FileData, 1, n)
           slots == SlotsFrom(3)
           inner == Filled(frame.cells, slots, data)
<1>1. /\ FileData \in Seq(Cell) /\ Len(FileData) \in Nat /\ n \in Nat /\ n <= Len(FileData)
  BY DataAssumption, LenProperties
<1>2. /\ Len(slots) = frame.offset - first
      /\ \A p \in 1..frame.offset - first : slots[p] = first + p - 1
  BY BufferSlots
<1>3. first \in Nat /\ frame.offset \in Nat /\ frame.offset <= FrameSize /\ first > spans[1].at
      /\ spans[1].at \in Nat
  <2>1. 1 \in 1..Len(spans)
    BY ReadSpans
  <2> QED
    BY <2>1, ReadSpans DEF ReadFrame
<1>4. n <= frame.offset - first
  BY <1>2
<1>5. DOMAIN data = 1..n /\ \A j \in 1..n : data[j] = FileData[j]
  <2>1. \A j \in 1..n : FileData[j] \in Cell
    BY <1>1, ElementOfSeq
  <2>2. data \in Seq(Cell) /\ Len(data) = n
    BY <1>1, <2>1, SubSeqProperties
  <2>3. \A j \in 1..n - 1 + 1 : data[j] = FileData[1 + j - 1]
    BY <1>1, <2>1, SubSeqProperties
  <2>4. n - 1 + 1 = n /\ \A j \in 1..n : 1 + j - 1 = j
    BY <1>1
  <2> QED
    BY <2>2, <2>3, <2>4, LenProperties
<1>6. \A j \in 1..n : slots[j] = first + j - 1
  <2>1. \A j \in 1..n : j \in 1..frame.offset - first
    BY <1>1, <1>3, <1>4
  <2> QED
    BY <1>2, <2>1
<1>7. n % Word = n
  <2>1. n < Word
    BY <1>1, <1>3, <1>4, Sizes_, SizeAssumption
  <2> QED
    BY <1>1, <2>1, SmallMod, SizeAssumption
<1>8. SlotsFrom(1)[1] = spans[1].at
  BY OutSlot
<1>9. \A x \in Slot : Read(n)[x] = IF spans[1].at = x THEN n ELSE inner[x]
  <2>1. DOMAIN <<n % Word>> = {1} /\ <<n % Word>>[1] = n
    BY <1>7
  <2> HIDE DEF inner
  <2>2. \A x \in Slot : Filled(inner, SlotsFrom(1), <<n % Word>>)[x] =
          IF spans[1].at = x THEN n ELSE inner[x]
    <3> TAKE x \in Slot
    <3>1. Filled(inner, SlotsFrom(1), <<n % Word>>)[x] =
            IF \E j \in DOMAIN <<n % Word>> : SlotsFrom(1)[j] = x
            THEN <<n % Word>>[CHOOSE j \in DOMAIN <<n % Word>> : SlotsFrom(1)[j] = x] ELSE inner[x]
      BY Zenon DEF Filled
    <3>2. CASE spans[1].at = x
      <4>1. 1 \in DOMAIN <<n % Word>> /\ SlotsFrom(1)[1] = x
        BY <1>8, <2>1, <3>2
      <4>2. (CHOOSE j \in DOMAIN <<n % Word>> : SlotsFrom(1)[j] = x) \in DOMAIN <<n % Word>>
        BY <4>1, Zenon
      <4> QED
        BY <2>1, <3>1, <3>2, <4>1, <4>2, Zenon
    <3>3. CASE spans[1].at # x
      BY <1>8, <2>1, <3>1, <3>3, Zenon
    <3> QED
      BY <3>2, <3>3
  <2> QED
    BY <2>2, Zenon DEF Read, inner
<1>10. ASSUME NEW x \in Slot
       PROVE  inner[x] = IF x - first \in 0..n - 1 THEN FileData[x - first + 1] ELSE frame.cells[x]
  <2>0. x \in Nat
    BY DEF Slot
  <2>1. inner[x] = IF \E j \in 1..n : slots[j] = x
                   THEN data[CHOOSE j \in 1..n : slots[j] = x] ELSE frame.cells[x]
    BY <1>5, Zenon DEF Filled
  <2> HIDE DEF inner, slots, data, first
  <2>2. \A j \in 1..n : slots[j] = x <=> j = x - first + 1
    <3> TAKE j \in 1..n
    <3>1. slots[j] = first + j - 1
      BY <1>6, Zenon
    <3>2. first \in Nat /\ j \in Int
      BY <1>3
    <3> QED
      BY <3>1, <3>2, <2>0
  <2>3. (x - first \in 0..n - 1) <=> (x - first + 1 \in 1..n)
    BY <1>1, <1>3, <2>0
  <2>4. CASE x - first + 1 \in 1..n
    <3>1. (CHOOSE j \in 1..n : slots[j] = x) = x - first + 1
      <4>1. \E j \in 1..n : slots[j] = x
        BY <2>2, <2>4, Zenon
      <4>2. (CHOOSE j \in 1..n : slots[j] = x) \in 1..n
            /\ slots[CHOOSE j \in 1..n : slots[j] = x] = x
        BY <4>1, Zenon
      <4> QED
        BY <2>2, <4>2, Zenon
    <3> QED
      BY <1>5, <2>1, <2>2, <2>3, <2>4, <3>1, Zenon
  <2>5. CASE x - first + 1 \notin 1..n
    BY <2>1, <2>2, <2>3, <2>5, Zenon
  <2> QED
    BY <2>4, <2>5
<1>11. spans[1].at \in Slot
  <2> DEFINE t == spans[1].at
             o == frame.offset
  <2>1. /\ t \in Nat /\ t < first /\ first \in Nat /\ n \in Nat /\ n <= o - first
        /\ o \in Nat /\ o <= FrameSize
    BY <1>1, <1>3, <1>4
  <2> HIDE DEF t, o, first
  <2>2. t \in Slot
    BY <2>1, SizeAssumption DEF Slot
  <2> QED
    BY <2>2 DEF t
<1> QED
  BY <1>4, <1>9, <1>10, <1>11, Zenon

(* A read that is served has its bytes in the frame, and none in the guest.   *)
LEMMA ReadArriving ==
  ASSUME IInv, Framing, pc = "refer", todo = <<>>, kind = "read",
         NEW n \in 0..Len(FileData), n <= Len(SlotsFrom(3)), Answer("SUCCESS", Read(n))
  PROVE  Arriving'
<1> DEFINE spans == frame.spans
           first == FirstSlot(spans)
<1>1. Reading(spans, <<>>) /\ guest = before /\ frame \in FrameType
  BY DEF Framing, IInv, Bounded, Typed
<1>2. ReadFrame(spans, frame.offset)
  BY <1>1, FrameOfRead
<1>3. /\ frame'.spans = spans /\ frame'.offset = frame.offset /\ frame'.cells = Read(n)
      /\ cursor' = Len(spans) /\ guest' = guest /\ before' = before /\ kind' = kind /\ pc' = "out"
      /\ ret' = "SUCCESS"
  BY <1>1 DEF Answer, FrameType
<1>4. /\ n <= frame.offset - first /\ Read(n)[spans[1].at] = n
      /\ \A x \in Slot : x # spans[1].at =>
           Read(n)[x] = IF x - first \in 0..n - 1 THEN FileData[x - first + 1] ELSE frame.cells[x]
  BY <1>2, ReadStores
<1>5. Len(spans) \in Nat /\ Len(spans) >= 2 /\ first \in Nat /\ DOMAIN spans = 1..Len(spans)
  BY <1>2, ReadSpans
<1>6. ASSUME NEW i \in 3..Len(spans), NEW c \in Guest, Covers(spans[i], c)
      PROVE  Read(n)[spans[i].at + (c - spans[i].addr)] =
               IF Place(spans, i, c) < n THEN FileData[Place(spans, i, c) + 1] ELSE before[c]
  <2> DEFINE d == c - spans[i].addr
             x == spans[i].at + d
             p == Place(spans, i, c)
  <2>1. /\ d \in 0..spans[i].count - 1 /\ x \in Slot /\ x # spans[1].at /\ x = first + p
        /\ p \in Nat /\ spans[i].addr + (d + 1) - 1 = c /\ spans[i].of # "path"
    <3> HIDE DEF spans, first
    <3> QED
      BY <1>2, <1>6, CoveredSlot DEF first
  <2>2. i \in DOMAIN spans /\ spans[i].addr \in Nat
    <3>1. i \in 1..Len(spans)
      OBVIOUS
    <3> QED
      BY <1>2, <1>5, <3>1, ReadSpans
  <2>3. frame.cells[spans[i].at + d] = guest[spans[i].addr + d]
    <3>1. spans[i].of = "view"
      BY <1>2, ReadSpans
    <3>2. CellsCopied
      BY CopiedParts DEF IInv
    <3>3. frame.cells[spans[i].at + d] = Expected(spans[i], d, spans)
      BY <2>1, <2>2, <3>2 DEF CellsCopied
    <3> QED
      BY <3>1, <3>3 DEF Expected, Pointed, Array
  <2>4. spans[i].addr + d = c
    BY <2>2 DEF Guest
  <2>5. frame.cells[x] = before[c]
    BY <1>1, <2>3, <2>4, Zenon
  <2>6. Read(n)[x] = IF x - first \in 0..n - 1 THEN FileData[x - first + 1] ELSE frame.cells[x]
    BY <1>4, <2>1, Zenon
  <2> HIDE DEF x, p, d, first
  <2>7. x - first = p /\ (p \in 0..n - 1 <=> p < n)
    <3>1. x = first + p /\ first \in Nat /\ p \in Nat
      BY <1>5, <2>1, Zenon
    <3>2. x - first = p
      BY <3>1
    <3>3. n \in Int
      OBVIOUS
    <3>4. p \in 0..n - 1 <=> p < n
      BY <3>1, <3>3
    <3> QED
      BY <3>2, <3>4, Zenon
  <2>8. Read(n)[x] = IF p < n THEN FileData[p + 1] ELSE before[c]
    BY <2>5, <2>6, <2>7, Zenon
  <2> QED
    BY <2>8, Zenon DEF x, p, d
<1>7. Loaded(n)'
  <2>1. n <= frame'.offset - FirstSlot(frame'.spans) /\ frame'.cells[frame'.spans[1].at] = n
    BY <1>3, <1>4, Zenon
  <2>2. \A i \in 3..Len(frame'.spans), c \in Guest :
          Covers(frame'.spans[i], c) =>
            frame'.cells[frame'.spans[i].at + (c - frame'.spans[i].addr)] =
              IF Place(frame'.spans, i, c) < n THEN FileData[Place(frame'.spans, i, c) + 1]
              ELSE before'[c]
    BY <1>3, <1>6, Zenon
  <2> QED
    BY <2>1, <2>2, Zenon DEF Loaded
<1>8. Delivered(n)'
  <2>1. cursor' # 0 /\ \A i \in 3..Len(spans) : ~(i > cursor')
    BY <1>3, <1>5
  <2>2. \A c \in Guest : \A i \in 3..Len(frame.spans') : ~Brings(i, c, n)'
    BY <1>3, <2>1, Zenon DEF Brings
  <2> QED
    BY <1>1, <1>3, <2>1, <2>2, Zenon DEF Delivered
<1>9. Reading(frame.spans, <<>>)' /\ cursor' \in 0..Len(frame'.spans)
  BY <1>1, <1>3, <1>5
<1> QED
  BY <1>3, <1>7, <1>8, <1>9, Zenon DEF Arriving

(* A view is written back, on top of the buffers that follow it.              *)
LEMMA ReadWrittenBack ==
  ASSUME IInv, Framing, Arriving, pc = "out", kind = "read", ret = "SUCCESS",
         copy_out
  PROVE  Arriving'
<1> DEFINE spans == frame.spans
           first == FirstSlot(spans)
<1>1. /\ kind' = kind /\ frame' = frame /\ ret' = ret /\ before' = before
      /\ guest \in [Guest -> Cell]
  BY DEF copy_out, IInv, Typed
<1>2. Reading(spans, <<>>) /\ cursor \in 0..Len(spans)
  BY Zenon DEF Arriving
<1>3. PICK n \in 0..Len(FileData) : Loaded(n) /\ Delivered(n)
  BY Zenon DEF Arriving
<1>4. ReadFrame(spans, frame.offset)
  BY <1>2, FrameOfRead
<1>5. /\ Len(spans) \in Nat /\ Len(spans) >= 2 /\ first \in Nat
      /\ \A i \in 1..Len(spans) : /\ spans[i].at \in Nat /\ spans[i].count \in Nat
                                  /\ spans[i].addr \in Nat
      /\ spans[1].of = "view" /\ spans[1].count = 1 /\ spans[2].of = "iovs"
      /\ \A i \in 3..Len(spans) : spans[i].of = "view"
  BY <1>4, ReadSpans
<1>6. Loaded(n)' /\ Reading(frame.spans, <<>>)'
  BY <1>1, <1>2, <1>3, Zenon DEF Loaded
<1>7. CASE cursor = 0 /\ pc' = "idle" /\ guest' = guest /\ cursor' = cursor
  <2>1. \A i, c : Brings(i, c, n)' <=> Brings(i, c, n)
    BY <1>1, <1>7, Zenon DEF Brings
  <2>2. Delivered(n)'
    BY <1>1, <1>3, <1>7, <2>1, Zenon DEF Delivered
  <2>3. cursor' \in 0..Len(frame'.spans)
    BY <1>1, <1>2, <1>7, Zenon
  <2> QED
    BY <1>6, <1>7, <2>2, <2>3, Zenon DEF Arriving
<1>8. ASSUME cursor > 0, pc' = "out", cursor' = cursor - 1,
             guest' = IF spans[cursor].of = "view" THEN WrittenBack(spans[cursor]) ELSE guest
      PROVE  Arriving'
  <2>1. cursor \in 1..Len(spans) /\ cursor' \in 0..Len(frame'.spans) /\ cursor \in Nat
    BY <1>1, <1>2, <1>5, <1>8
  <2> DEFINE s == spans[cursor]
  <2>2. /\ s.at \in Nat /\ s.count \in Nat /\ s.addr \in Nat
    BY <1>5, <2>1
  <2>3. s.of = "view" => \A c \in Guest :
          guest'[c] = IF Covers(s, c) THEN frame.cells[s.at + (c - s.addr)] ELSE guest[c]
    <3> SUFFICES ASSUME s.of = "view", NEW c \in Guest
                 PROVE  guest'[c] = IF Covers(s, c) THEN frame.cells[s.at + (c - s.addr)]
                                    ELSE guest[c]
      OBVIOUS
    <3>1. s.at + c - s.addr = s.at + (c - s.addr)
      BY <2>2 DEF Guest
    <3>2. guest'[c] = IF Covers(s, c) THEN frame.cells[s.at + c - s.addr] ELSE guest[c]
      BY <1>8 DEF WrittenBack, destination, Covers
    <3> QED
      BY <3>1, <3>2, Zenon
  <2>4. \A i \in 3..Len(spans) : i > cursor' <=> i > cursor \/ i = cursor
    BY <1>8, <2>1
  <2>5. \A i \in 3..Len(spans), c \in Guest :
          Brings(i, c, n)' <=> Brings(i, c, n)
                               \/ (i = cursor /\ Covers(s, c) /\ Place(spans, i, c) < n)
    BY <1>1, <2>4, Zenon DEF Brings
  <2>6. CASE cursor = 1
    <3>1. s.of = "view" /\ s.count = 1 /\ s = spans[1]
      BY <1>5, <2>6
    <3>2. \A c \in Guest : Covers(s, c) <=> c = s.addr
      BY <2>2, <3>1 DEF Covers, Guest
    <3>3. s.addr \in Guest
      <4>1. 1 \in DOMAIN spans
        BY <1>4, <1>5, ReadSpans
      <4>2. InGuest(s.addr, 1)
        BY <3>1, <4>1 DEF Framing, InMemory
      <4> QED
        BY <2>2, <4>2, SizeAssumption DEF InGuest, Guest
    <3>4. guest'[s.addr] = n
      <4>1. guest'[s.addr] = frame.cells[s.at + (s.addr - s.addr)]
        BY <2>3, <3>1, <3>2, <3>3, Zenon
      <4>2. s.at + (s.addr - s.addr) = s.at
        BY <2>2
      <4>3. frame.cells[s.at] = n
        BY <1>3, <3>1, Zenon DEF Loaded
      <4> QED
        BY <4>1, <4>2, <4>3, Zenon
    <3>5. \A i \in 3..Len(spans), c \in Guest : Brings(i, c, n)' <=> Brings(i, c, n)
      <4>1. \A i \in 3..Len(spans) : i # cursor
        BY <2>6
      <4> QED
        BY <2>5, <4>1, Zenon
    <3>6. cursor # 0 /\ cursor' = 0
      BY <1>8, <2>6
    <3>7. ASSUME NEW c \in Guest, c # s.addr
          PROVE  \/ \E i \in 3..Len(spans) :
                      Brings(i, c, n)' /\ guest'[c] = FileData[Place(spans, i, c) + 1]
                 \/ (\A i \in 3..Len(spans) : ~Brings(i, c, n)') /\ guest'[c] = before[c]
      <4>1. guest'[c] = guest[c]
        BY <2>3, <3>1, <3>2, <3>7, Zenon
      <4>2. \/ \E i \in 3..Len(spans) :
                 Brings(i, c, n) /\ guest[c] = FileData[Place(spans, i, c) + 1]
            \/ (\A i \in 3..Len(spans) : ~Brings(i, c, n)) /\ guest[c] = before[c]
        BY <1>3, <3>6, Zenon DEF Delivered
      <4> QED
        BY <3>5, <4>1, <4>2, Zenon
    <3>8. Delivered(n)'
      BY <1>1, <3>1, <3>4, <3>6, <3>7, Zenon DEF Delivered
    <3> QED
      BY <1>6, <1>8, <2>1, <3>8, Zenon DEF Arriving
  <2>7. CASE cursor = 2
    <3>1. guest' = guest
      BY <1>5, <1>8, <2>7
    <3>2. \A i \in 3..Len(spans) : i # cursor
      BY <2>7
    <3>3. \A i \in 3..Len(spans), c \in Guest : Brings(i, c, n)' <=> Brings(i, c, n)
      BY <2>5, <3>2, Zenon
    <3>4. cursor # 0 /\ cursor' # 0
      BY <1>8, <2>7
    <3>5. Delivered(n)'
      BY <1>1, <1>3, <3>1, <3>3, <3>4, Zenon DEF Delivered
    <3> QED
      BY <1>6, <1>8, <2>1, <3>5, Zenon DEF Arriving
  <2>8. CASE cursor \in 3..Len(spans)
    <3>1. s.of = "view" /\ cursor # 0 /\ cursor' # 0
      BY <1>5, <1>8, <2>8
    <3>2. ASSUME NEW c \in Guest
          PROVE  \/ \E i \in 3..Len(spans) :
                      Brings(i, c, n)' /\ guest'[c] = FileData[Place(spans, i, c) + 1]
                 \/ (\A i \in 3..Len(spans) : ~Brings(i, c, n)') /\ guest'[c] = before[c]
      <4>1. CASE ~Covers(s, c)
        <5>1. guest'[c] = guest[c]
          BY <2>3, <3>1, <4>1, Zenon
        <5>2. \A i \in 3..Len(spans) : Brings(i, c, n)' <=> Brings(i, c, n)
          BY <2>5, <4>1, Zenon
        <5>3. \/ \E i \in 3..Len(spans) :
                   Brings(i, c, n) /\ guest[c] = FileData[Place(spans, i, c) + 1]
              \/ (\A i \in 3..Len(spans) : ~Brings(i, c, n)) /\ guest[c] = before[c]
          BY <1>3, <3>1, Zenon DEF Delivered
        <5> QED
          BY <5>1, <5>2, <5>3, Zenon
      <4>2. CASE Covers(s, c)
        <5>1. guest'[c] = IF Place(spans, cursor, c) < n THEN FileData[Place(spans, cursor, c) + 1]
                          ELSE before[c]
          <6>1. frame.cells[s.at + (c - s.addr)] =
                  IF Place(spans, cursor, c) < n THEN FileData[Place(spans, cursor, c) + 1]
                  ELSE before[c]
            BY <1>3, <2>8, <4>2, Zenon DEF Loaded
          <6>2. guest'[c] = frame.cells[s.at + (c - s.addr)]
            BY <2>3, <3>1, <4>2, Zenon
          <6> QED
            BY <6>1, <6>2, Zenon
        <5>2. CASE Place(spans, cursor, c) < n
          BY <2>5, <2>8, <4>2, <5>1, <5>2, Zenon
        <5>3. CASE ~(Place(spans, cursor, c) < n)
          <6>1. ASSUME NEW i \in 3..Len(spans), Brings(i, c, n)
                PROVE  FALSE
            <7>1. i > cursor /\ Place(spans, i, c) < n /\ Covers(spans[i], c)
              BY <6>1, Zenon DEF Brings
            <7>2. Place(spans, cursor, c) < Place(spans, i, c)
              BY <1>4, <2>8, <4>2, <6>1, <7>1, LaterPlace
            <7>3. Place(spans, cursor, c) \in Nat /\ Place(spans, i, c) \in Nat /\ n \in Int
              BY <1>4, <2>8, <4>2, <6>1, <7>1, CoveredSlot, SMTT(30)
            <7> QED
              BY <5>3, <7>1, <7>2, <7>3
          <6>2. \A i \in 3..Len(spans) : ~Brings(i, c, n)'
            BY <2>5, <5>3, <6>1, Zenon
          <6> QED
            BY <5>1, <5>3, <6>2, Zenon
        <5> QED
          BY <5>2, <5>3
      <4> QED
        BY <4>1, <4>2
    <3>3. Delivered(n)'
      BY <1>1, <3>1, <3>2, Zenon DEF Delivered
    <3> QED
      BY <1>6, <1>8, <2>1, <3>3, Zenon DEF Arriving
  <2> QED
    BY <2>1, <2>6, <2>7, <2>8
<1> QED
  BY <1>7, <1>8 DEF copy_out, Next_view

--------------------------------------------------------------------------------
(* The invariant.                                                             *)

(* Where no read has succeeded, nothing has to have arrived.                  *)
LEMMA NotRead ==
  ASSUME pc' = "refer" \/ pc' = "fill" \/ kind' # "read" \/ ret' # "SUCCESS"
  PROVE  Arriving'
  BY DEF Arriving

(* A call that leaves the frame alone and is not a read.                      *)
LEMMA AnotherCall ==
  ASSUME Framing, frame' = frame, kind' # "read"
  PROVE  Framing' /\ Arriving'
  BY SameFraming, NotRead

(* A framed call begins.                                                      *)
LEMMA FramedArrival ==
  ASSUME IInv, Framing, FramedCalls
  PROVE  Framing' /\ Arriving'
<1>1. ASSUME NEW k, NEW parts, Enter(k, parts), k = "read" => Reading(<<>>, parts)
      PROVE  Framing' /\ Arriving'
  <2>1. pc' = "refer" \/ ret' = "NoFrame"
    BY <1>1 DEF Enter
  <2>2. Arriving'
    BY <2>1, NotRead
  <2> QED
    BY <1>1, <2>2, EnterFraming
<1>2. \A k, parts : Enter(k, parts) /\ k # "read" => Framing' /\ Arriving'
  BY <1>1
<1>3. ASSUME NEW p \in Pointers, NEW q \in Pointers, NEW n \in Counts, fd_read(p, n, q)
      PROVE  Framing' /\ Arriving'
  <2>1. p \in Cell /\ q \in Cell /\ n \in Nat
    BY InputAssumption, Sizes_
  <2>2. Reading(<<>>, <<MutableView(q, 1), external_iovs(p, n)>>)
    BY <2>1, ReadParts
  <2> DEFINE k == IF Wraps(n) THEN "unreserved" ELSE "read"
  <2>3. Enter(k, <<MutableView(q, 1), external_iovs(p, n)>>)
    BY <1>3 DEF fd_read
  <2> HIDE DEF k
  <2> QED
    BY <1>1, <2>2, <2>3
<1>4. \/ \E k, parts : Enter(k, parts) /\ k # "read"
      \/ \E p \in Pointers, q \in Pointers, n \in Counts : fd_read(p, n, q)
  <2>1. \A p, q, n : /\ result_call(p) => Enter("result", <<MutableView(p, 1)>>)
                     /\ fd_prestat_dir_name(p, n) => Enter("name", <<MutableView(p, n)>>)
                     /\ path_call(p, n) => Enter("path", <<ref_string(p, n), resolved_path(n)>>)
    BY Zenon DEF result_call, fd_prestat_dir_name, path_call
  <2>2. \A p, q, n : /\ fd_readdir(p, n, q) => \E parts : Enter("unserved", parts)
                     /\ path_readlink(p, n, q, q) => \E parts : Enter("unserved", parts)
                     /\ path_result_call(p, n, q) => \E parts : Enter("result", parts)
                     /\ path_rename(p, q, n) => \E parts : Enter("path", parts)
                     /\ two_paths_call(p, q, n) => \E parts : Enter("unserved", parts)
    BY Zenon DEF fd_readdir, path_readlink, path_result_call, path_rename, two_paths_call
  <2>3. /\ "result" # "read" /\ "name" # "read" /\ "path" # "read" /\ "write" # "read"
        /\ "unserved" # "read" /\ "overrun" # "read"
    OBVIOUS
  <2>4. \A p, q, n : fd_write(p, n, q) => \E k, parts : Enter(k, parts) /\ k # "read"
    <3> SUFFICES ASSUME NEW p, NEW q, NEW n, fd_write(p, n, q)
                 PROVE  \E k, parts : Enter(k, parts) /\ k # "read"
      OBVIOUS
    <3> DEFINE k == IF Wraps(n) THEN "overrun" ELSE "write"
               parts == <<MutableView(q, 1), external_ciovs(p, n)>>
    <3>1. Enter(k, parts)
      BY DEF fd_write
    <3>2. k # "read"
      OBVIOUS
    <3> HIDE DEF k, parts
    <3> QED
      BY <3>1, <3>2
  <2> QED
    BY <2>1, <2>2, <2>3, <2>4, Zenon DEF FramedCalls
<1> QED
  BY <1>2, <1>3, <1>4, Zenon

(* A call served by Wasi begins, and may end.                                 *)
LEMMA DirectArrival ==
  ASSUME Framing, DirectCalls
  PROVE  Framing' /\ Arriving'
<1>1. \A k, e, mem : Served(k, e, mem) => frame' = frame /\ kind' = k
  BY DEF Served, Started
<1>2. \A k, values, p, q : fillSizes(k, values, p, q) => frame' = frame /\ kind' = k
  BY <1>1 DEF fillSizes
<1>3. \A k, values, p, q : fillValues(k, values, p, q) => frame' = frame /\ kind' = k
  BY <1>1 DEF fillValues, Started
<1>4. /\ \A p : clock_get(p) => frame' = frame /\ kind' = "clock"
      /\ \A p, n : random_get(p, n) => frame' = frame /\ kind' = "random"
      /\ stub => frame' = frame /\ kind' = "stub"
  BY <1>1 DEF clock_get, random_get, stub
<1>5. /\ frame' = frame
      /\ kind' \in {"args_sizes", "environ_sizes", "args", "environ", "clock", "random", "stub"}
  BY <1>2, <1>3, <1>4 DEF DirectCalls
<1> QED
  BY <1>5, AnotherCall

(* The call is served.                                                        *)
LEMMA ServeArrival ==
  ASSUME IInv, Framing, serve
  PROVE  Framing' /\ Arriving'
<1>1. pc = "refer" /\ todo = <<>>
  BY DEF serve
<1>2. \A e, cells : Answer(e, cells) =>
        /\ frame'.spans = frame.spans /\ frame'.offset = frame.offset
        /\ pc' = "out" /\ ret' = e /\ kind' = kind
  BY DEF IInv, Typed, FrameType, Answer
<1>3. \A why : Throw(why) => frame' = frame /\ pc' = "idle" /\ ret' = why /\ kind' = kind
  BY DEF Throw
<1>4. Framing'
  <2>1. frame'.spans = frame.spans /\ frame'.offset = frame.offset /\ pc' # "refer"
    BY <1>2, <1>3 DEF serve
  <2> QED
    BY <2>1, SameFraming
<1>5. \/ kind' # "read" \/ ret' # "SUCCESS"
      \/ kind = "read" /\ \E n \in 0..Len(FileData) :
                            n <= Len(SlotsFrom(3)) /\ Answer("SUCCESS", Read(n))
  <2>1. CASE kind = "read"
    BY <1>2, <1>3, <2>1 DEF serve, Read
  <2>2. CASE kind # "read"
    BY <1>2, <1>3, <2>2 DEF serve
  <2> QED
    BY <2>1, <2>2
<1>6. Arriving'
  BY <1>1, <1>5, NotRead, ReadArriving
<1> QED
  BY <1>4, <1>6

(* Every step keeps the invariant.                                            *)
LEMMA ArrivalStep == IInv /\ Framing /\ Arriving /\ [Next]_vars => Framing' /\ Arriving'
<1> SUFFICES ASSUME IInv, Framing, Arriving, [Next]_vars PROVE Framing' /\ Arriving'
  OBVIOUS
<1>1. CASE UNCHANGED <<guest, pc, kind, todo, frame, cursor, ret, before>>
  <2>1. Framing'
    BY <1>1, SameFraming
  <2>2. \A n : Loaded(n)' <=> Loaded(n)
    BY <1>1, Zenon DEF Loaded
  <2>3. \A n, i, c : Brings(i, c, n)' <=> Brings(i, c, n)
    BY <1>1, Zenon DEF Brings
  <2>4. \A n : Delivered(n)' <=> Delivered(n)
    BY <1>1, <2>3, Zenon DEF Delivered
  <2>5. Arriving'
    BY <1>1, <2>2, <2>4, Zenon DEF Arriving
  <2> QED
    BY <2>1, <2>5
<1>2. CASE FramedCalls
  BY <1>2, FramedArrival
<1>3. CASE DirectCalls
  BY <1>3, DirectArrival
<1>4. CASE ref_array
  <2>1. pc' = "refer" \/ ret' \in {"REQUIRE", "RangeError", "abort"}
    BY <1>4 DEF ref_array, Throw
  <2> QED
    BY <1>4, <2>1, RefArrayFraming, NotRead
<1>5. CASE resolve_path
  <2>1. pc' = "refer" \/ ret' \in {"REQUIRE", "errno"}
    BY <1>5 DEF resolve_path, Throw, Answer
  <2> QED
    BY <1>5, <2>1, ResolvePathFraming, NotRead
<1>6. CASE serve
  BY <1>6, ServeArrival
<1>7. CASE copy_out
  <2>1. /\ pc = "out" /\ frame' = frame /\ kind' = kind /\ ret' = ret /\ pc' # "refer"
    BY <1>7 DEF copy_out
  <2>2. Framing'
    BY <2>1, SameFraming
  <2>3. CASE kind = "read" /\ ret = "SUCCESS"
    BY <1>7, <2>1, <2>2, <2>3, ReadWrittenBack
  <2>4. CASE ~(kind = "read" /\ ret = "SUCCESS")
    BY <2>1, <2>2, <2>4, NotRead
  <2> QED
    BY <2>3, <2>4
<1>8. CASE fill_next \/ fill_return
  <2>1. pc = "fill" /\ frame' = frame /\ kind' = kind
    BY <1>8 DEF fill_next, fill_return
  <2>2. kind # "read"
    BY <2>1 DEF IInv, Filling, Direct
  <2> QED
    BY <2>1, <2>2, AnotherCall
<1> QED
  BY <1>1, <1>2, <1>3, <1>4, <1>5, <1>6, <1>7, <1>8 DEF Next, Steps, vars, set_memory

(* The invariant holds of every behaviour.                                    *)
LEMMA Arrival == Spec => [](IInv /\ Framing /\ Arriving)
<1>1. Init => Framing /\ Arriving
  <2> SUFFICES ASSUME Init PROVE Framing /\ Arriving
    OBVIOUS
  <2>1. /\ frame.spans = <<>> /\ pc = "idle" /\ kind = "none"
        /\ DOMAIN <<>> = {} /\ Len(<<>>) = 0 /\ 1..0 = {}
    BY DEF Init, EmptyFrame
  <2> QED
    BY <2>1 DEF Framing, Packed, InMemory, Arriving
<1> QED
  BY <1>1, InitInv, StepInv, ArrivalStep, PTL DEF Spec

--------------------------------------------------------------------------------
(* What has arrived.                                                          *)

(* Where the bytes of a read go, one after the other.                         *)
Targets(spans) ==
  FlattenSeq([j \in 1..Len(spans) - 2 |->
    LET s == spans[j + 2] IN [k \in 1..s.count |-> s.addr + k - 1]])

Addresses(spans) == [j \in 1..Len(spans) - 2 |-> spans[j + 2].addr]

(* They are in the order of the buffers.                                      *)
LEMMA TargetsInOrder ==
  ASSUME NEW spans, NEW offset, ReadFrame(spans, offset)
  PROVE  InOrder(Targets(spans), spans, offset, Addresses(spans))
<1> DEFINE N == Len(spans)
           base == Addresses(spans)
           runs == [j \in 1..N - 2 |-> Run(base[j], spans[j + 2].count)]
<1>1. /\ N - 2 \in Nat
      /\ \A j \in 1..N - 2 : spans[j + 2].addr \in Nat /\ spans[j + 2].count \in Nat
  <2>1. N \in Nat /\ N >= 2 /\ \A j \in 1..N - 2 : j + 2 \in 1..N
    BY ReadSpans
  <2> QED
    BY <2>1, ReadSpans
<1>2. base \in [1..N - 2 -> Nat] /\ \A j \in 1..N - 2 : base[j] = spans[j + 2].addr
  BY <1>1 DEF Addresses
<1>3. Targets(spans) = FlattenSeq(runs)
  <2>1. \A j \in 1..N - 2 : (LET s == spans[j + 2] IN [k \in 1..s.count |-> s.addr + k - 1])
                            = Run(base[j], spans[j + 2].count)
    BY <1>2, Zenon DEF Run
  <2>2. [j \in 1..N - 2 |-> LET s == spans[j + 2] IN [k \in 1..s.count |-> s.addr + k - 1]] = runs
    BY <2>1
  <2> QED
    BY <2>2, Zenon DEF Targets
<1> HIDE DEF base
<1>4. \A j \in 1..N - 2 : runs[j] = Run(base[j], spans[j + 2].count) /\ runs[j] \in Seq(Nat)
  <2>1. \A j \in 1..N - 2 : base[j] \in Nat /\ spans[j + 2].count \in Nat
    BY <1>1, <1>2
  <2>2. \A j \in 1..N - 2 : Run(base[j], spans[j + 2].count) \in Seq(Nat)
    BY <2>1, RunType, Zenon DEF IsRun
  <2> QED
    BY <2>2
<1>5. runs \in [1..N - 2 -> Seq(Nat)]
  BY <1>4
<1> HIDE DEF runs
<1>6. runs \in Seq(Seq(Nat)) /\ Len(runs) = N - 2
  <2> HIDE DEF N
  <2> QED
    BY <1>1, <1>5, FcnIsSeq
<1> QED
  BY <1>2, <1>3, <1>4, <1>6, BuffersInOrder DEF base

(* The j-th byte goes to c exactly if a buffer has it there.                  *)
LEMMA TargetBuffer ==
  ASSUME NEW spans, NEW offset, ReadFrame(spans, offset),
         NEW c \in Guest, NEW j \in 1..offset - FirstSlot(spans)
  PROVE  Targets(spans)[j] = c <=>
           \E i \in 3..Len(spans) : Covers(spans[i], c) /\ j = Place(spans, i, c) + 1
<1> DEFINE first == FirstSlot(spans)
           base == Addresses(spans)
           N == Len(spans)
<1>1. N \in Nat /\ N >= 2 /\ first \in Nat
  BY ReadSpans
<1>2. \A m \in 1..N - 2 : base[m] = spans[m + 2].addr
  BY DEF Addresses
<1>3. InOrder(Targets(spans), spans, offset, base)
  BY TargetsInOrder
<1>4. ASSUME Targets(spans)[j] = c
      PROVE  \E i \in 3..N : Covers(spans[i], c) /\ j = Place(spans, i, c) + 1
  <2>1. PICK m \in 1..N - 2 : \E k \in 1..spans[m + 2].count : j = spans[m + 2].at - first + k
    BY <1>3, Zenon DEF InOrder
  <2>2. PICK k \in 1..spans[m + 2].count : j = spans[m + 2].at - first + k
    BY <2>1
  <2>3. c = base[m] + k - 1
    BY <1>3, <1>4, <2>2, Zenon DEF InOrder
  <2> DEFINE s == spans[m + 2]
  <2>4. m + 2 \in 3..N /\ m + 2 \in 1..N
    BY <1>1
  <2>5. s.addr \in Nat /\ s.at \in Nat /\ s.count \in Nat
    BY <2>4, ReadSpans
  <2>6. Place(spans, m + 2, c) = s.at + (c - s.addr) - first
    BY DEF Place
  <2>7. base[m] = s.addr /\ k \in 1..s.count /\ j = s.at - first + k
    BY <1>2, <2>2
  <2>8. c \in s.addr..s.addr + s.count - 1
    <3> HIDE DEF s, base, N, first
    <3> QED
      BY <2>3, <2>5, <2>7
  <2>9. j = Place(spans, m + 2, c) + 1
    <3> HIDE DEF s, base, N, first
    <3> QED
      BY <1>1, <2>3, <2>5, <2>6, <2>7
  <2> QED
    BY <2>4, <2>8, <2>9 DEF Covers
<1>5. ASSUME NEW i \in 3..N, Covers(spans[i], c), j = Place(spans, i, c) + 1
      PROVE  Targets(spans)[j] = c
  <2> DEFINE d == c - spans[i].addr
  <2>1. /\ d \in 0..spans[i].count - 1
        /\ spans[i].at - first + (d + 1) = j
        /\ spans[i].addr + (d + 1) - 1 = c
    BY <1>5, CoveredSlot
  <2>2. PICK m \in 1..N - 2 : m + 2 = i
    <3>1. i - 2 \in 1..N - 2 /\ (i - 2) + 2 = i
      BY <1>1
    <3> QED
      BY <3>1, Zenon
  <2>3. d + 1 \in 1..spans[m + 2].count
    <3>1. spans[i].count \in Nat
      <4>1. i \in 1..N
        OBVIOUS
      <4> QED
        BY <4>1, ReadSpans
    <3> HIDE DEF d
    <3>2. d + 1 \in 1..spans[i].count
      BY <2>1, <3>1
    <3> QED
      BY <2>2, <3>2, Zenon
  <2> HIDE DEF d, base, N, first
  <2>4. Targets(spans)[spans[m + 2].at - first + (d + 1)] = base[m] + (d + 1) - 1
    BY <1>3, <2>3, Zenon DEF InOrder, N, first
  <2> QED
    BY <1>2, <2>1, <2>2, <2>4, Zenon
<1> QED
  BY <1>4, <1>5

(* After a read, the guest finds the bytes read in its buffers, in order, and *)
(* the cells beyond them as they were, even where buffers overlap, the number *)
(* of bytes being written last: memfs.cc 788-798, util.h 17-33.               *)
THEOREM BytesReadArrive == Spec => []BytesArrive
<1>1. IInv /\ Framing /\ Arriving => BytesArrive
  <2> SUFFICES ASSUME IInv, Framing, Arriving, pc = "idle", kind = "read", ret = "SUCCESS"
               PROVE  LET out == frame.spans[1].addr
                          n == guest[out]
                          targets == Targets(frame.spans)
                      IN  n <= Len(targets) /\ \A c \in Guest \ {out} :
                            IF \E j \in 1..n : targets[j] = c
                            THEN \E j \in 1..n : targets[j] = c /\ guest[c] = FileData[j]
                            ELSE guest[c] = before[c]
    BY Zenon DEF BytesArrive, Targets
  <2> DEFINE spans == frame.spans
             out == spans[1].addr
             targets == Targets(spans)
             first == FirstSlot(spans)
  <2>1. Reading(spans, <<>>) /\ cursor = 0
    BY Zenon DEF Arriving
  <2>2. PICK n \in 0..Len(FileData) : Loaded(n) /\ Delivered(n)
    BY Zenon DEF Arriving
  <2>3. ReadFrame(spans, frame.offset)
    BY <2>1, FrameOfRead
  <2>4. n <= frame.offset - first /\ Len(targets) = frame.offset - first /\ guest[out] = n
    <3>1. InOrder(targets, spans, frame.offset, Addresses(spans))
      BY <2>3, TargetsInOrder
    <3> QED
      BY <2>1, <2>2, <3>1, Zenon DEF Loaded, Delivered, InOrder
  <2>5. n \in Nat /\ frame.offset \in Nat /\ first \in Nat
    <3>1. Len(FileData) \in Nat
      BY DataAssumption, LenProperties
    <3> QED
      BY <2>3, <3>1, ReadSpans
  <2>6. ASSUME NEW c \in Guest \ {out}
        PROVE  IF \E j \in 1..n : targets[j] = c
               THEN \E j \in 1..n : targets[j] = c /\ guest[c] = FileData[j]
               ELSE guest[c] = before[c]
    <3>1. ASSUME NEW j \in 1..n, targets[j] = c
          PROVE  \E i \in 3..Len(spans) : Brings(i, c, n)
      <4>1. j \in 1..frame.offset - first
        BY <2>4, <2>5
      <4>2. PICK i \in 3..Len(spans) : Covers(spans[i], c) /\ j = Place(spans, i, c) + 1
        BY <2>3, <3>1, <4>1, TargetBuffer
      <4>3. Place(spans, i, c) \in Nat
        BY <2>3, <4>2, CoveredSlot
      <4>4. Place(spans, i, c) < n /\ i > cursor
        BY <2>1, <2>5, <4>2, <4>3
      <4> QED
        BY <4>2, <4>4, Zenon DEF Brings
    <3>2. ASSUME NEW i \in 3..Len(spans), Brings(i, c, n)
          PROVE  \E j \in 1..n : targets[j] = c /\ j = Place(spans, i, c) + 1
      <4>1. Covers(spans[i], c) /\ Place(spans, i, c) < n
        BY <3>2, Zenon DEF Brings
      <4>2. Place(spans, i, c) \in Nat /\ Place(spans, i, c) + 1 \in 1..frame.offset - first
        BY <2>3, <4>1, CoveredSlot
      <4>3. Place(spans, i, c) + 1 \in 1..n
        BY <2>5, <4>1, <4>2
      <4>4. targets[Place(spans, i, c) + 1] = c
        BY <2>3, <4>1, <4>2, TargetBuffer
      <4> QED
        BY <4>3, <4>4
    <3>3. \/ \E i \in 3..Len(spans) :
               Brings(i, c, n) /\ guest[c] = FileData[Place(spans, i, c) + 1]
          \/ (\A i \in 3..Len(spans) : ~Brings(i, c, n)) /\ guest[c] = before[c]
      BY <2>2, <2>6, Zenon DEF Delivered
    <3> QED
      BY <3>1, <3>2, <3>3, Zenon
  <2> QED
    BY <2>4, <2>5, <2>6
<1> QED
  BY <1>1, Arrival, PTL
--------------------------------------------------------------------------------
(* The size of some values.                                                   *)

(* g is the function by which size_of sums the sizes of the first n values.   *)
Sums(g, V, n) ==
  g = [s \in SUBSET (1..n) |->
         IF s = {} THEN 0 ELSE g[s \ {Max(s)}] + encoded_size(V[Max(s)])]

(* The greatest of some numbers up to n.                                      *)
LEMMA MaxIsLast ==
  ASSUME NEW n \in Nat, NEW s \in SUBSET (1..n), n \in s
  PROVE  Max(s) = n
<1>1. \A y \in s : n >= y
  OBVIOUS
<1>2. Max(s) \in s /\ \A y \in s : Max(s) >= y
  BY <1>1, Zenon DEF Max
<1>3. \A x \in s : x >= n => x = n
  OBVIOUS
<1> QED
  BY <1>2, <1>3, Zenon

(* There is one,                                                              *)
LEMMA SumsExist ==
  ASSUME NEW V, NEW n \in Nat
  PROVE  \E g : Sums(g, V, n)
<1> DEFINE Bad == {m \in Nat : ~\E g : Sums(g, V, m)}
<1> SUFFICES ASSUME Bad # {} PROVE FALSE
  OBVIOUS
<1>1. PICK m \in Bad : \A y \in Bad : m <= y
  <2> Bad \subseteq Nat
    OBVIOUS
  <2> HIDE DEF Bad
  <2> QED
    BY LeastNumber
<1>2. m \in Nat /\ ~\E g : Sums(g, V, m)
  BY <1>1
<1>3. CASE m = 0
  <2> DEFINE g == [s \in SUBSET (1..m) |-> 0]
  <2>1. \A s \in SUBSET (1..m) : s = {}
    BY <1>3
  <2>2. g = [s \in SUBSET (1..m) |->
               IF s = {} THEN 0 ELSE g[s \ {Max(s)}] + encoded_size(V[Max(s)])]
    BY <2>1
  <2> QED
    BY <1>2, <2>2, Zenon DEF Sums
<1>4. CASE m # 0
  <2>1. m - 1 \in Nat /\ ~(m <= m - 1) /\ 1..m - 1 \subseteq 1..m /\ m \notin 1..m - 1
        /\ \A i \in 1..m : i # m => i \in 1..m - 1
    BY <1>2, <1>4
  <2>2. PICK f : Sums(f, V, m - 1)
    BY <1>1, <2>1
  <2>3. \A s \in SUBSET (1..m - 1) :
          f[s] = IF s = {} THEN 0 ELSE f[s \ {Max(s)}] + encoded_size(V[Max(s)])
    <3>1. f = [s \in SUBSET (1..m - 1) |->
                 IF s = {} THEN 0 ELSE f[s \ {Max(s)}] + encoded_size(V[Max(s)])]
      BY <2>2, Zenon DEF Sums
    <3> QED
      BY <3>1, Zenon
  <2> DEFINE g == [s \in SUBSET (1..m) |->
                     IF m \in s THEN f[s \ {m}] + encoded_size(V[m]) ELSE f[s]]
  <2>4. \A s \in SUBSET (1..m) : g[s] = IF m \in s THEN f[s \ {m}] + encoded_size(V[m]) ELSE f[s]
    OBVIOUS
  <2>5. g = [s \in SUBSET (1..m) |-> g[s]]
    OBVIOUS
  <2> HIDE DEF g
  <2>6. ASSUME NEW s \in SUBSET (1..m)
        PROVE  g[s] = IF s = {} THEN 0 ELSE g[s \ {Max(s)}] + encoded_size(V[Max(s)])
    <3>1. CASE m \in s
      <4>1. Max(s) = m /\ s # {}
        BY <1>2, <3>1, MaxIsLast
      <4>2. g[s \ {m}] = f[s \ {m}] /\ g[s] = f[s \ {m}] + encoded_size(V[m])
        BY <2>4, <3>1
      <4> QED
        BY <4>1, <4>2, Zenon
    <3>2. CASE m \notin s
      <4>1. s \in SUBSET (1..m - 1)
        BY <2>1, <3>2
      <4>2. g[s] = f[s] /\ g[s \ {Max(s)}] = f[s \ {Max(s)}]
        BY <2>4, <3>2
      <4> QED
        BY <2>3, <4>1, <4>2, Zenon
    <3> QED
      BY <3>1, <3>2
  <2>7. Sums(g, V, m)
    BY <2>5, <2>6, Zenon DEF Sums
  <2> QED
    BY <1>2, <2>7
<1> QED
  BY <1>3, <1>4

(* and size_of returns its value for all of them.                             *)
LEMMA SizeIsSum ==
  ASSUME NEW V, DOMAIN V = 1..Len(V), \E g : Sums(g, V, Len(V))
  PROVE  \E g : Sums(g, V, Len(V)) /\ size_of(V) = g[1..Len(V)]
<1>1. size_of(V) = (CHOOSE g : Sums(g, V, Len(V)))[1..Len(V)]
  BY Zenon DEF size_of, FoldLeft, MapThenFoldSet, Sums
<1> QED
  BY <1>1, Zenon

(* The encodings of some values, one after the other.                         *)
Encodings(V) == [j \in 1..Len(V) |-> encode(V[j])]

(* Where each begins; size_of is where the last one ends.                     *)
Starts(V, pos) == Layout(Encodings(V), pos) /\ size_of(V) = pos[Len(V) + 1]

(* How many they are, and how long.                                           *)
LEMMA EncodingsType ==
  ASSUME NEW V \in Seq(Value)
  PROVE  /\ Len(V) \in Nat /\ DOMAIN V = 1..Len(V)
         /\ Len(Encodings(V)) = Len(V)
         /\ \A j \in 1..Len(V) : /\ Encodings(V)[j] = encode(V[j])
                                 /\ encode(V[j]) \in Seq(Cell) /\ Len(encode(V[j])) \in Nat
<1> DEFINE n == Len(V)
           E == Encodings(V)
<1>1. n \in Nat /\ DOMAIN V = 1..n
  BY LenProperties
<1>2. \A j \in 1..n : encode(V[j]) \in Seq(Cell)
  BY <1>1, ElementOfSeq, EncodeType
<1>3. \A j \in 1..n : Len(encode(V[j])) \in Nat
  BY <1>2, LenProperties
<1>4. E \in [1..n -> Seq(Cell)]
  BY <1>2 DEF Encodings
<1>5. \A j \in 1..n : E[j] = encode(V[j])
  BY DEF Encodings
<1> HIDE DEF E, n
<1>6. Len(E) = n
  BY <1>1, <1>4, FcnIsSeq
<1> QED
  BY <1>1, <1>2, <1>3, <1>5, <1>6 DEF E, n

(* The one where the last ends is what size_of returns.                       *)
LEMMA SizeLayout ==
  ASSUME NEW V \in Seq(Value)
  PROVE  \E pos : Starts(V, pos)
<1> DEFINE n == Len(V)
           E == Encodings(V)
<1>1. n \in Nat /\ DOMAIN V = 1..n
  BY LenProperties
<1>2. /\ \A j \in 1..n : E[j] = encode(V[j]) /\ Len(E[j]) \in Nat
      /\ Len(E) = n
  BY EncodingsType
<1>3. PICK g : Sums(g, V, n) /\ size_of(V) = g[1..n]
  BY <1>1, SumsExist, SizeIsSum
<1>4. \A s \in SUBSET (1..n) :
        g[s] = IF s = {} THEN 0 ELSE g[s \ {Max(s)}] + encoded_size(V[Max(s)])
  <2>1. g = [s \in SUBSET (1..n) |->
               IF s = {} THEN 0 ELSE g[s \ {Max(s)}] + encoded_size(V[Max(s)])]
    BY <1>3, Zenon DEF Sums
  <2> QED
    BY <2>1, Zenon
<1> DEFINE pos == [j \in 1..n + 1 |-> g[1..j - 1]]
<1> HIDE DEF E, n
<1>5. \A j \in 1..n : pos[j + 1] = pos[j] + Len(E[j])
  <2> TAKE j \in 1..n
  <2>1. /\ j \in Nat /\ j \in 1..j /\ 1..j \in SUBSET (1..n) /\ 1..j # {}
        /\ (1..j) \ {j} = 1..j - 1 /\ (j + 1) - 1 = j /\ j \in 1..n + 1 /\ j + 1 \in 1..n + 1
    <3>1. j \in Nat /\ j \in 1..j /\ \A i \in 1..j : i \in 1..n
      BY <1>1
    <3>2. (j + 1) - 1 = j /\ j \in 1..n + 1 /\ j + 1 \in 1..n + 1
      BY <1>1
    <3>3. \A i : i \in 1..j /\ i # j <=> i \in 1..j - 1
      BY <3>1
    <3>4. (1..j) \ {j} = 1..j - 1
      BY <3>3, Zenon
    <3> QED
      BY <3>1, <3>2, <3>4
  <2>2. Max(1..j) = j
    BY <2>1, MaxIsLast
  <2>3. g[1..j] = g[1..j - 1] + encoded_size(V[j])
    BY <1>4, <2>1, <2>2, Zenon
  <2>4. pos[j] = g[1..j - 1] /\ pos[j + 1] = g[1..j]
    BY <2>1
  <2> QED
    BY <1>2, <2>3, <2>4, Zenon DEF encoded_size
<1>6. pos[1] = 0 /\ pos[n + 1] = g[1..n]
  <2>1. 1 \in 1..n + 1 /\ n + 1 \in 1..n + 1 /\ 1..1 - 1 = {} /\ (n + 1) - 1 = n
    BY <1>1
  <2>2. g[{}] = 0
    BY <1>4, Zenon
  <2>3. pos[1] = g[1..1 - 1] /\ pos[n + 1] = g[1..(n + 1) - 1]
    BY <2>1
  <2> QED
    BY <2>1, <2>2, <2>3, Zenon
<1>7. pos = [j \in 1..n + 1 |-> pos[j]]
  OBVIOUS
<1> HIDE DEF pos
<1>8. \A j \in 1..n + 1 : pos[j] \in Nat
  <2> DEFINE Bad == {j \in 1..n + 1 : pos[j] \notin Nat}
  <2> SUFFICES ASSUME Bad # {} PROVE FALSE
    OBVIOUS
  <2>1. PICK j \in Bad : \A i \in Bad : j <= i
    <3> Bad \subseteq Nat
      BY <1>1
    <3> HIDE DEF Bad
    <3> QED
      BY LeastNumber
  <2>2. j \in 1..n + 1 /\ pos[j] \notin Nat /\ j # 1
    BY <1>6, <2>1
  <2>3. j - 1 \in 1..n /\ j - 1 \in 1..n + 1 /\ ~(j <= j - 1) /\ (j - 1) + 1 = j
    BY <1>1, <2>2
  <2>4. pos[j - 1] \in Nat
    BY <2>1, <2>3
  <2>5. pos[j] = pos[j - 1] + Len(E[j - 1]) /\ Len(E[j - 1]) \in Nat
    BY <1>2, <1>5, <2>3
  <2> QED
    BY <2>2, <2>4, <2>5
<1>9. Layout(E, pos)
  BY <1>2, <1>5, <1>6, <1>7, <1>8 DEF Layout
<1> QED
  BY <1>3, <1>6, <1>9, Zenon DEF Starts, E, n

(* What begins later does not begin before.                                   *)
LEMMA LayoutGrows ==
  ASSUME NEW V \in Seq(Value), NEW pos, Starts(V, pos),
         NEW i \in 1..Len(V) + 1, NEW j \in 1..Len(V) + 1, i <= j
  PROVE  pos[i] <= pos[j]
<1> DEFINE Bad == {m \in 1..Len(V) + 1 : i <= m /\ ~(pos[i] <= pos[m])}
<1>1. Len(V) \in Nat
  BY LenProperties
<1>2. /\ \A m \in 1..Len(V) + 1 : pos[m] \in Nat
      /\ \A m \in 1..Len(V) : pos[m] <= pos[m + 1]
  <2>1. /\ Len(Encodings(V)) = Len(V)
        /\ \A m \in 1..Len(V) : Len(Encodings(V)[m]) \in Nat
    BY EncodingsType
  <2>2. /\ \A m \in 1..Len(V) + 1 : pos[m] \in Nat
        /\ \A m \in 1..Len(V) : pos[m + 1] = pos[m] + Len(Encodings(V)[m])
    BY <2>1 DEF Starts, Layout
  <2>3. ASSUME NEW m \in 1..Len(V)
        PROVE  pos[m] <= pos[m + 1]
    <3> DEFINE u == pos[m]
               l == Len(Encodings(V)[m])
    <3>1. m \in 1..Len(V) + 1
      BY <1>1
    <3>2. u \in Nat /\ l \in Nat /\ pos[m + 1] = u + l
      BY <2>1, <2>2, <3>1
    <3> HIDE DEF u, l
    <3>3. u <= u + l
      BY <3>2
    <3> QED
      BY <3>2, <3>3 DEF u
  <2> QED
    BY <2>2, <2>3
<1> SUFFICES ASSUME Bad # {} PROVE FALSE
  OBVIOUS
<1>3. PICK m \in Bad : \A y \in Bad : m <= y
  <2> Bad \subseteq Nat
    BY <1>1
  <2> HIDE DEF Bad
  <2> QED
    BY LeastNumber
<1>4. m \in 1..Len(V) + 1 /\ i <= m /\ ~(pos[i] <= pos[m]) /\ m # i
  BY <1>2, <1>3
<1>5. m - 1 \in 1..Len(V) /\ m - 1 \in 1..Len(V) + 1 /\ i <= m - 1 /\ ~(m <= m - 1)
      /\ (m - 1) + 1 = m
  BY <1>1, <1>4
<1>6. pos[i] <= pos[m - 1] /\ pos[m - 1] <= pos[m]
  BY <1>2, <1>3, <1>5
<1> QED
  BY <1>2, <1>4, <1>5, <1>6

--------------------------------------------------------------------------------
(* The steps of args_get and environ_get.                                     *)

ValuesOf(k) == IF k = "args" THEN Args ELSE Env

(* The pointers from a on and the bytes from b on share no cell.              *)
Aside(V, pos, a, b) ==
  \A c : c \in a..a + Len(V) - 1 => c \notin b..b + pos[Len(V) + 1] - 1

(* The first i values are stored.                                             *)
Stored(V, pos, a, b, i) ==
  /\ i > 0 => a + i <= GuestSize /\ b + pos[i + 1] <= GuestSize
  /\ Aside(V, pos, a, b) =>
       \A j \in 1..i :
         /\ guest[a + j - 1] = b + pos[j]
         /\ \A k \in 1..Len(encode(V[j])) : guest[b + pos[j] + k - 1] = encode(V[j])[k]
  /\ \A c \in Guest :
       c \notin a..a + Len(V) - 1 /\ c \notin b..b + pos[Len(V) + 1] - 1 => guest[c] = before[c]

(* One more.                                                                  *)
LEMMA StoredNext ==
  ASSUME NEW V \in Seq(Value), NEW pos, Starts(V, pos), NEW a \in Nat, NEW b \in Nat,
         NEW i \in 0..Len(V) - 1, Stored(V, pos, a, b, i), guest \in [Guest -> Cell],
         guest' = Store(Store(guest, a + i, <<b + pos[i + 1]>>), b + pos[i + 1], encode(V[i + 1])),
         InGuest(a + i, 1), InGuest(b + pos[i + 1], Len(encode(V[i + 1]))), before' = before
  PROVE  Stored(V, pos, a, b, i + 1)' /\ pos[i + 2] = pos[i + 1] + Len(encode(V[i + 1]))
<1> DEFINE n == Len(V)
           p == b + pos[i + 1]
           data == encode(V[i + 1])
           l == Len(data)
           size == pos[n + 1]
<1>1. n \in Nat /\ i \in Nat /\ i + 1 \in 1..n /\ (i + 1) + 1 = i + 2 /\ i < n
  BY LenProperties
<1>2. /\ \A m \in 1..n + 1 : pos[m] \in Nat
      /\ \A m \in 1..n : pos[m + 1] = pos[m] + Len(encode(V[m])) /\ Len(encode(V[m])) \in Nat
  BY EncodingsType DEF Starts, Layout
<1>3. l \in Nat /\ pos[i + 2] = pos[i + 1] + l /\ pos[i + 1] \in Nat /\ pos[i + 2] \in Nat
      /\ size \in Nat /\ p \in Nat
  <2>1. i + 1 \in 1..n + 1 /\ i + 2 \in 1..n + 1 /\ n + 1 \in 1..n + 1
    BY <1>1
  <2> QED
    BY <1>1, <1>2, <2>1
<1>4. pos[i + 2] <= size
  BY <1>1, LayoutGrows
<1> HIDE DEF n
<1>5. \A c \in Guest : guest'[c] = IF c \in p..p + l - 1 THEN data[c - p + 1]
                                   ELSE IF c = a + i THEN p ELSE guest[c]
  <2>1. \A c \in Guest : c \in a + i..a + i + 1 - 1 <=> c = a + i
    BY <1>1 DEF Guest
  <2>2. \A c \in Guest : c = a + i => c - (a + i) + 1 = 1
    BY <1>1 DEF Guest
  <2>3. Len(<<p>>) = 1 /\ <<p>>[1] = p
    OBVIOUS
  <2>4. \A c \in Guest : Store(guest, a + i, <<p>>)[c] = IF c = a + i THEN p ELSE guest[c]
    BY <2>1, <2>2, <2>3 DEF Store
  <2> QED
    BY <2>4 DEF Store
<1> HIDE DEF p, data, l, size
<1>6. a + i + 1 <= GuestSize /\ p + l <= GuestSize
  BY DEF InGuest, p, data, l
<1>7. p >= b /\ p + l <= b + size /\ p + l = b + pos[i + 2]
  <2> DEFINE u == pos[i + 1]
             w == pos[i + 2]
  <2>1. p = b + u /\ u \in Nat /\ w \in Nat /\ w = u + l /\ w <= size
    BY <1>3, <1>4 DEF p
  <2> HIDE DEF u, w
  <2>2. p >= b /\ p + l <= b + size /\ p + l = b + w
    BY <1>3, <2>1
  <2> QED
    BY <2>2 DEF w
<1>8. \A c : c \in p..p + l - 1 => c \in b..b + size - 1
  BY <1>3, <1>7
<1>9. i + 1 > 0 => a + (i + 1) <= GuestSize /\ b + pos[(i + 1) + 1] <= GuestSize
  <2>1. a + (i + 1) <= GuestSize
    BY <1>1, <1>6
  <2>2. b + pos[i + 2] <= GuestSize
    BY <1>6, <1>7
  <2> QED
    BY <1>1, <2>1, <2>2
<1>10. ASSUME NEW c \in Guest, c \notin a..a + n - 1, c \notin b..b + size - 1
      PROVE  guest'[c] = before[c]
  <2>1. c # a + i /\ c \notin p..p + l - 1
    <3>1. a + i \in a..a + n - 1
      BY <1>1
    <3> QED
      BY <1>10, <1>8, <3>1
  <2>2. guest[c] = before[c]
    BY <1>10 DEF Stored, n, size
  <2> QED
    BY <1>5, <2>1, <2>2
<1>11. ASSUME Aside(V, pos, a, b), NEW j \in 1..i + 1
      PROVE  /\ guest'[a + j - 1] = b + pos[j]
             /\ \A k \in 1..Len(encode(V[j])) : guest'[b + pos[j] + k - 1] = encode(V[j])[k]
  <2>1. \A c : c \in a..a + n - 1 => c \notin b..b + size - 1
    BY <1>11, Zenon DEF Aside, n, size
  <2>2. \A c : c \in a..a + n - 1 => c \notin p..p + l - 1
    BY <1>8, <2>1
  <2>3. a + i \in a..a + n - 1
    BY <1>1
  <2>4. CASE j = i + 1
    <3>1. a + j - 1 = a + i /\ a + i \in Guest
      BY <1>1, <1>6, <2>4, SizeAssumption DEF Guest
    <3>2. guest'[a + j - 1] = p
      BY <1>5, <2>2, <2>3, <3>1
    <3>3. ASSUME NEW k \in 1..l
          PROVE  guest'[p + k - 1] = data[k]
      <4>1. p + k - 1 \in Guest /\ p + k - 1 \in p..p + l - 1 /\ (p + k - 1) - p + 1 = k
        BY <1>3, <1>6, SizeAssumption DEF Guest
      <4> QED
        BY <1>5, <4>1
    <3> QED
      BY <2>4, <3>2, <3>3 DEF p, data, l
  <2>5. CASE j # i + 1
    <3>1. /\ j \in 1..i /\ j \in 1..n /\ i > 0 /\ j + 1 <= i + 1
          /\ j \in 1..n + 1 /\ j + 1 \in 1..n + 1 /\ i + 1 \in 1..n + 1
      BY <1>1, <2>5
    <3>2. a + i <= GuestSize /\ b + pos[i + 1] <= GuestSize
      BY <3>1 DEF Stored
    <3>3. /\ guest[a + j - 1] = b + pos[j]
          /\ \A k \in 1..Len(encode(V[j])) : guest[b + pos[j] + k - 1] = encode(V[j])[k]
      BY <1>11, <3>1 DEF Stored
    <3>4. guest'[a + j - 1] = guest[a + j - 1]
      <4>1. a + j - 1 \in Guest /\ a + j - 1 # a + i /\ a + j - 1 \in a..a + n - 1
        BY <1>1, <3>1, <3>2, SizeAssumption DEF Guest
      <4> QED
        BY <1>5, <2>2, <4>1
    <3>5. pos[j + 1] <= pos[i + 1] /\ pos[j + 1] = pos[j] + Len(encode(V[j]))
          /\ pos[j] \in Nat /\ Len(encode(V[j])) \in Nat /\ pos[i + 1] <= size
      <4>1. pos[j + 1] <= pos[i + 1]
        BY <3>1, LayoutGrows DEF n
      <4>2. pos[i + 1] <= pos[n + 1]
        BY <1>1, <3>1, LayoutGrows DEF n
      <4> QED
        BY <1>2, <3>1, <4>1, <4>2 DEF size
    <3>6. ASSUME NEW k \in 1..Len(encode(V[j]))
          PROVE  guest'[b + pos[j] + k - 1] = guest[b + pos[j] + k - 1]
      <4> DEFINE q == pos[j]
                 m == Len(encode(V[j]))
                 c == b + q + k - 1
      <4>1. q \in Nat /\ m \in Nat /\ q + m <= pos[i + 1] /\ k \in 1..m
        BY <3>5
      <4> HIDE DEF q, m
      <4>2. c \in Guest /\ c < p /\ c \in b..b + size - 1
        <5> DEFINE u == pos[i + 1]
        <5>1. /\ p = b + u /\ u \in Nat /\ u <= size /\ size \in Nat
              /\ b + u <= GuestSize /\ q + m <= u
          BY <1>3, <3>2, <3>5, <4>1 DEF p
        <5>2. k \in Nat /\ k >= 1 /\ k <= m
          BY <4>1
        <5> HIDE DEF u
        <5> QED
          BY <4>1, <5>1, <5>2, SizeAssumption DEF Guest
      <4>3. c # a + i
        BY <2>1, <2>3, <4>2
      <4>4. c \notin p..p + l - 1
        <5>1. c < p /\ c \in Nat /\ p \in Nat /\ l \in Nat
          BY <1>3, <4>2 DEF Guest
        <5> HIDE DEF c
        <5> QED
          BY <5>1
      <4>5. guest'[c] = guest[c]
        BY <1>5, <4>2, <4>3, <4>4
      <4> QED
        BY <4>5 DEF q
    <3> QED
      BY <3>3, <3>4, <3>6
  <2> QED
    BY <2>4, <2>5
<1> QED
  BY <1>3, <1>9, <1>10, <1>11 DEF Stored, n, size, l, data

(* What is stored where, and what is still to be stored.                      *)
Storing(V, pos, a, b, i) ==
  /\ Starts(V, pos) /\ a \in Nat /\ b \in Nat /\ i \in 0..Len(V)
  /\ cursor = [iter |-> a + i, buf |-> b + pos[i + 1]]
  /\ Stored(V, pos, a, b, i)

ToStore(V, i) == Len(todo) = Len(V) - i /\ \A j \in 1..Len(todo) : todo[j] = V[i + j]

Emplacing ==
  /\ pc = "fill" =>
       /\ kind \in {"args", "environ"}
       /\ \E pos, a, b, i : Storing(ValuesOf(kind), pos, a, b, i) /\ ToStore(ValuesOf(kind), i)
  /\ pc = "idle" /\ kind \in {"args", "environ"} /\ ret = "SUCCESS" =>
       \E pos, a, b : Storing(ValuesOf(kind), pos, a, b, Len(ValuesOf(kind)))

(* Another call has nothing to emplace.                                       *)
LEMMA NotEmplacing ==
  ASSUME pc' # "fill", pc' # "idle" \/ kind' \notin {"args", "environ"} \/ ret' # "SUCCESS"
  PROVE  Emplacing'
  BY DEF Emplacing

(* The arguments are values, and so are the variables.                        *)
LEMMA ValuesType ==
  ASSUME NEW k
  PROVE  ValuesOf(k) \in Seq(Value)
  BY DataAssumption DEF ValuesOf

(* args_get and environ_get begin with nothing stored.                        *)
LEMMA EmplacingBegins ==
  ASSUME NEW k \in {"args", "environ"}, NEW p \in Pointers, NEW q \in Pointers,
         fillValues(k, ValuesOf(k), p, q)
  PROVE  Emplacing'
<1>1. CASE Served(k, "RangeError", guest)
  <2>1. pc' = "idle" /\ ret' = "RangeError"
    BY <1>1 DEF Served, Started
  <2> QED
    BY <2>1, NotEmplacing
<1>2. CASE /\ given /\ Started(k)
           /\ pc' = "fill" /\ todo' = ValuesOf(k)
           /\ cursor' = [iter |-> p, buf |-> q]
           /\ UNCHANGED <<given, guest, lost, frame, ret>>
  <2>1. PICK V : V = ValuesOf(k)
    OBVIOUS
  <2>2. V \in Seq(Value) /\ Len(V) \in Nat /\ p \in Nat /\ q \in Nat
    BY <2>1, ValuesType, LenProperties, InputAssumption, Sizes_
  <2>3. PICK pos : Starts(V, pos)
    BY <2>2, SizeLayout
  <2>4. pos[1] = 0
    BY <2>3 DEF Starts, Layout
  <2>5. kind' = k /\ before' = guest /\ guest' = guest /\ pc' = "fill" /\ todo' = V
        /\ cursor' = [iter |-> p, buf |-> q]
    BY <1>2, <2>1 DEF Started
  <2>6. Stored(V, pos, p, q, 0)'
    BY <2>5 DEF Stored
  <2>7. p + 0 = p /\ q + pos[0 + 1] = q /\ 0 \in 0..Len(V)
    BY <2>2, <2>4
  <2>8. Storing(V, pos, p, q, 0)'
    BY <2>2, <2>3, <2>5, <2>6, <2>7 DEF Storing
  <2>9. ToStore(V, 0)'
    BY <2>2, <2>5 DEF ToStore
  <2>10. ValuesOf(kind') = V
    BY <2>1, <2>5
  <2> QED
    BY <2>5, <2>8, <2>9, <2>10 DEF Emplacing
<1> QED
  BY <1>1, <1>2 DEF fillValues

(* A pointer and a string.                                                    *)
LEMMA EmplacingGoesOn ==
  ASSUME IInv, Emplacing, fill_next
  PROVE  Emplacing'
<1>1. /\ pc = "fill" /\ todo # <<>> /\ kind' = kind /\ before' = before
      /\ guest \in [Guest -> Cell] /\ todo \in Seq(Value) /\ kind \in {"args", "environ"}
  BY DEF fill_next, IInv, Typed, Filling, Emplacing
<1>2. PICK V : V = ValuesOf(kind)
  OBVIOUS
<1>3. V \in Seq(Value) /\ Len(V) \in Nat
  BY <1>2, ValuesType, LenProperties
<1>4. PICK pos, a, b, i : Storing(V, pos, a, b, i) /\ ToStore(V, i)
  BY <1>1, <1>2 DEF Emplacing
<1>5. /\ Starts(V, pos) /\ a \in Nat /\ b \in Nat /\ i \in 0..Len(V) /\ Stored(V, pos, a, b, i)
      /\ cursor.iter = a + i /\ cursor.buf = b + pos[i + 1]
  BY <1>4 DEF Storing
<1>6. /\ Len(todo) \in Nat /\ Len(todo) # 0 /\ Head(todo) = todo[1]
      /\ Len(Tail(todo)) = Len(todo) - 1
      /\ \A j \in 1..Len(todo) - 1 : Tail(todo)[j] = todo[j + 1]
  BY <1>1
<1>7. i \in 0..Len(V) - 1 /\ Head(todo) = V[i + 1]
  <2>1. Len(todo) = Len(V) - i /\ \A j \in 1..Len(todo) : todo[j] = V[i + j]
    BY <1>4 DEF ToStore
  <2>2. 1 \in 1..Len(todo)
    BY <1>6
  <2> QED
    BY <1>3, <1>5, <1>6, <2>1, <2>2
<1>8. CASE pc' = "idle" /\ ret' = "RangeError"
  BY <1>8, NotEmplacing
<1>9. CASE /\ InGuest(cursor.iter, 1) /\ InGuest(cursor.buf, Len(encode(Head(todo))))
           /\ guest' = Store(Store(guest, cursor.iter, <<cursor.buf>>), cursor.buf,
                             encode(Head(todo)))
           /\ cursor' = [iter |-> cursor.iter + 1, buf |-> cursor.buf + Len(encode(Head(todo)))]
           /\ todo' = Tail(todo)
           /\ UNCHANGED <<pc, ret>>
  <2>1. Stored(V, pos, a, b, i + 1)' /\ pos[i + 2] = pos[i + 1] + Len(encode(V[i + 1]))
    BY <1>1, <1>3, <1>5, <1>7, <1>9, StoredNext
  <2>2. pos[i + 1] \in Nat /\ Len(encode(V[i + 1])) \in Nat
    <3>1. i + 1 \in 1..Len(V) /\ i + 1 \in 1..Len(V) + 1
      BY <1>3, <1>7
    <3>2. Len(Encodings(V)) = Len(V) /\ pos \in [1..Len(Encodings(V)) + 1 -> Nat]
      BY <1>3, <1>5, EncodingsType DEF Starts, Layout
    <3> QED
      BY <1>3, <3>1, <3>2, EncodingsType
  <2>3. cursor' = [iter |-> a + (i + 1), buf |-> b + pos[(i + 1) + 1]]
    <3>1. cursor.iter + 1 = a + (i + 1) /\ (i + 1) + 1 = i + 2
      BY <1>3, <1>5, <1>7
    <3> DEFINE u == pos[i + 1]
               l == Len(encode(V[i + 1]))
    <3>2. cursor.buf = b + u /\ u \in Nat /\ l \in Nat
      BY <1>5, <2>2
    <3> HIDE DEF u, l
    <3>3. cursor.buf + l = b + (u + l)
      BY <1>5, <3>2
    <3> QED
      BY <1>7, <1>9, <2>1, <3>1, <3>3, Zenon DEF u, l
  <2>4. Storing(V, pos, a, b, i + 1)'
    <3>1. i + 1 \in 0..Len(V)
      BY <1>3, <1>7
    <3> QED
      BY <1>5, <2>1, <2>3, <3>1, Zenon DEF Storing
  <2>5. ToStore(V, i + 1)'
    <3>1. Len(todo) = Len(V) - i /\ \A j \in 1..Len(todo) : todo[j] = V[i + j]
      BY <1>4 DEF ToStore
    <3>2. Len(Tail(todo)) = Len(V) - (i + 1)
      BY <1>3, <1>6, <1>7, <3>1
    <3>3. ASSUME NEW j \in 1..Len(todo) - 1
          PROVE  Tail(todo)[j] = V[(i + 1) + j]
      <4>1. j + 1 \in 1..Len(todo) /\ i + (j + 1) = (i + 1) + j
        BY <1>6, <1>7
      <4> QED
        BY <1>6, <3>1, <4>1
    <3>4. todo' = Tail(todo) /\ Len(Tail(todo)) = Len(todo) - 1
      BY <1>6, <1>9
    <3> QED
      BY <3>2, <3>3, <3>4, Zenon DEF ToStore
  <2>6. pc' = "fill" /\ kind' \in {"args", "environ"} /\ ValuesOf(kind') = V
    BY <1>1, <1>2, <1>9
  <2> QED
    BY <2>4, <2>5, <2>6 DEF Emplacing
<1> QED
  BY <1>8, <1>9, Zenon DEF fill_next

(* All of them.                                                               *)
LEMMA EmplacingEnds ==
  ASSUME IInv, Emplacing, fill_return
  PROVE  Emplacing'
<1>1. /\ pc = "fill" /\ todo = <<>> /\ pc' = "idle" /\ kind' = kind /\ before' = before
      /\ guest' = guest /\ cursor' = cursor /\ kind \in {"args", "environ"}
  BY DEF fill_return, Emplacing
<1>2. PICK V : V = ValuesOf(kind)
  OBVIOUS
<1>3. V \in Seq(Value) /\ Len(V) \in Nat
  BY <1>2, ValuesType, LenProperties
<1>4. PICK pos, a, b, i : Storing(V, pos, a, b, i) /\ ToStore(V, i)
  BY <1>1, <1>2 DEF Emplacing
<1>5. i = Len(V)
  <2>1. Len(todo) = 0 /\ Len(todo) = Len(V) - i /\ i \in 0..Len(V)
    BY <1>1, <1>4, EmptySeq DEF ToStore, Storing
  <2> QED
    BY <1>3, <2>1
<1>6. Stored(V, pos, a, b, i)' <=> Stored(V, pos, a, b, i)
  BY <1>1, Zenon DEF Stored
<1>7. Storing(V, pos, a, b, Len(V))'
  BY <1>1, <1>4, <1>5, <1>6, Zenon DEF Storing
<1>8. ValuesOf(kind') = V
  BY <1>1, <1>2
<1> QED
  BY <1>1, <1>7, <1>8 DEF Emplacing

(* Every step keeps the invariant.                                            *)
LEMMA EmplacingStep == IInv /\ Emplacing /\ [Next]_vars => Emplacing'
<1> SUFFICES ASSUME IInv, Emplacing, [Next]_vars PROVE Emplacing'
  OBVIOUS
<1>1. CASE UNCHANGED <<guest, pc, kind, todo, cursor, ret, before>>
  <2>1. ASSUME NEW V, NEW pos, NEW a, NEW b, NEW i
        PROVE  Stored(V, pos, a, b, i)' <=> Stored(V, pos, a, b, i)
    BY <1>1, Zenon DEF Stored
  <2>2. ASSUME NEW V, NEW pos, NEW a, NEW b, NEW i
        PROVE  Storing(V, pos, a, b, i)' <=> Storing(V, pos, a, b, i)
    BY <1>1, <2>1, Zenon DEF Storing
  <2>3. \A V, i : ToStore(V, i)' <=> ToStore(V, i)
    BY <1>1, Zenon DEF ToStore
  <2> QED
    BY <1>1, <2>2, <2>3, Zenon DEF Emplacing
<1>2. CASE FramedCalls
  <2>1. \A k, parts : Enter(k, parts) => kind' = k /\ pc' # "fill"
    BY DEF Enter, Started
  <2>2. kind' \in Framed /\ pc' # "fill"
    BY <1>2, <2>1
    DEF FramedCalls, Framed, result_call, fd_prestat_dir_name, path_call, fd_read, fd_write,
        fd_readdir, path_readlink, path_result_call, path_rename, two_paths_call
  <2> QED
    BY <2>2, NotEmplacing DEF Framed
<1>3. CASE DirectCalls
  <2>1. \A k, e, mem : Served(k, e, mem) => kind' = k /\ pc' = "idle"
    BY DEF Served, Started
  <2>2. \A k, values, p, q : fillSizes(k, values, p, q) => kind' = k /\ pc' = "idle"
    BY <2>1 DEF fillSizes
  <2>3. /\ \A p : clock_get(p) => kind' = "clock" /\ pc' = "idle"
        /\ \A p, n : random_get(p, n) => kind' = "random" /\ pc' = "idle"
        /\ stub => kind' = "stub" /\ pc' = "idle"
    BY <2>1 DEF clock_get, random_get, stub
  <2>4. ASSUME NEW p \in Pointers, NEW q \in Pointers,
               fillValues("args", Args, p, q) \/ fillValues("environ", Env, p, q)
        PROVE  Emplacing'
    <3>1. ValuesOf("args") = Args /\ ValuesOf("environ") = Env
      BY DEF ValuesOf
    <3> QED
      BY <2>4, <3>1, EmplacingBegins
  <2>5. \/ kind' \in {"args_sizes", "environ_sizes", "clock", "random", "stub"} /\ pc' = "idle"
        \/ \E p \in Pointers, q \in Pointers :
             fillValues("args", Args, p, q) \/ fillValues("environ", Env, p, q)
    BY <1>3, <2>2, <2>3 DEF DirectCalls
  <2> QED
    BY <2>4, <2>5, NotEmplacing
<1>4. CASE ref_array \/ resolve_path \/ serve \/ copy_out
  <2>1. kind' = kind /\ pc' # "fill" /\ pc \in {"refer", "out"}
    BY <1>4 DEF ref_array, resolve_path, serve, copy_out, Throw, Answer
  <2>2. kind \in Framed
    BY <2>1 DEF IInv, Bounded, Served_
  <2> QED
    BY <2>1, <2>2, NotEmplacing DEF Framed
<1>5. CASE fill_next
  BY <1>5, EmplacingGoesOn
<1>6. CASE fill_return
  BY <1>6, EmplacingEnds
<1> QED
  BY <1>1, <1>2, <1>3, <1>4, <1>5, <1>6 DEF Next, Steps, vars, set_memory

(* Areas that have room for two others share no cell of them.                 *)
LEMMA RoomForBoth ==
  ASSUME NEW a \in Nat, NEW n \in Nat, NEW b \in Nat, NEW m \in Nat,
         Cardinality((a..a + n - 1 \union b..b + m - 1) \intersect Guest) = n + m
  PROVE  \A c : c \in a..a + n - 1 => c \notin b..b + m - 1
<1> DEFINE A == a..a + n - 1
           B == b..b + m - 1
<1>1. IsFiniteSet(A) /\ Cardinality(A) = n
  <2>1. a \in Int /\ a + n - 1 \in Int /\ (IF a > a + n - 1 THEN 0 ELSE (a + n - 1) - a + 1) = n
    OBVIOUS
  <2> QED
    BY <2>1, FS_Interval
<1>2. IsFiniteSet(B) /\ Cardinality(B) = m
  <2>1. b \in Int /\ b + m - 1 \in Int /\ (IF b > b + m - 1 THEN 0 ELSE (b + m - 1) - b + 1) = m
    OBVIOUS
  <2> QED
    BY <2>1, FS_Interval
<1> HIDE DEF A, B
<1>3. IsFiniteSet(A \union B) /\ Cardinality(A \union B) = n + m - Cardinality(A \intersect B)
  BY <1>1, <1>2, FS_Union
<1>4. IsFiniteSet(A \intersect B) /\ Cardinality(A \intersect B) \in Nat
  <2>1. IsFiniteSet(A \intersect B)
    BY <1>1, FS_Subset
  <2> QED
    BY <2>1, FS_CardinalityType
<1>5. Cardinality((A \union B) \intersect Guest) <= Cardinality(A \union B)
  <2>1. (A \union B) \intersect Guest \in SUBSET (A \union B)
    OBVIOUS
  <2> QED
    BY <1>3, <2>1, FS_Subset
<1>6. Cardinality((A \union B) \intersect Guest) = n + m
  BY DEF A, B
<1>7. Cardinality(A \intersect B) = 0
  BY <1>3, <1>4, <1>5, <1>6
<1>8. A \intersect B = {}
  BY <1>4, <1>7, FS_EmptySet
<1> QED
  BY <1>8 DEF A, B

(* A guest with room for as many pointers and bytes as args_sizes_get says    *)
(* finds a pointer to each NUL-terminated string there, and nothing else of   *)
(* its memory is written: Wasi.ts 89-109.                                     *)
THEOREM ValuesAllArrive == Spec => []ValuesArrive
<1>1. Init => Emplacing
  BY DEF Init, Emplacing
<1>2. Spec => []Emplacing
  BY <1>1, Invariance, EmplacingStep, PTL DEF Spec
<1>3. Emplacing => ValuesArrive
  <2> SUFFICES ASSUME Emplacing, pc = "idle", kind \in {"args", "environ"}, ret = "SUCCESS"
               PROVE  LET V == ValuesOf(kind)
                          argc == Len(V)
                          argv == cursor.iter - argc
                          start(i) == guest[argv + i - 1]
                          area == argv..argv + argc - 1
                                  \union cursor.buf - size_of(V)..cursor.buf - 1
                      IN  Cardinality(area \intersect Guest) = argc + size_of(V) =>
                            /\ \A i \in 1..argc : \A k \in 1..Len(encode(V[i])) :
                                 guest[start(i) + k - 1] = encode(V[i])[k]
                            /\ \A c \in Guest \ area : guest[c] = before[c]
    BY Zenon DEF ValuesArrive, ValuesOf
  <2>1. PICK V : V = ValuesOf(kind)
    OBVIOUS
  <2>2. V \in Seq(Value) /\ Len(V) \in Nat
    BY <2>1, ValuesType, LenProperties
  <2>3. PICK pos, a, b : Storing(V, pos, a, b, Len(V))
    BY <2>1 DEF Emplacing
  <2> DEFINE n == Len(V)
             m == size_of(V)
  <2>4. /\ Starts(V, pos) /\ a \in Nat /\ b \in Nat /\ Stored(V, pos, a, b, n)
        /\ cursor.iter = a + n /\ cursor.buf = b + pos[n + 1] /\ pos[n + 1] = m
    BY <2>3 DEF Storing, Starts
  <2>5. /\ m \in Nat /\ \A j \in 1..n : pos[j] \in Nat
    <3>1. Len(Encodings(V)) = n /\ pos \in [1..Len(Encodings(V)) + 1 -> Nat]
      BY <2>2, <2>4, EncodingsType DEF Starts, Layout
    <3>2. n + 1 \in 1..n + 1 /\ \A j \in 1..n : j \in 1..n + 1
      BY <2>2
    <3> QED
      BY <2>4, <3>1, <3>2
  <2>6. cursor.iter - n = a /\ cursor.buf - m = b /\ cursor.buf - 1 = b + m - 1
    <3> HIDE DEF n, m
    <3> QED
      BY <2>2, <2>4, <2>5 DEF n
  <2> DEFINE area == a..a + n - 1 \union b..b + m - 1
  <2>7. ASSUME Cardinality(area \intersect Guest) = n + m
        PROVE  /\ \A i \in 1..n : \A k \in 1..Len(encode(V[i])) :
                    guest[guest[a + i - 1] + k - 1] = encode(V[i])[k]
               /\ \A c \in Guest \ area : guest[c] = before[c]
    <3>1. \A c : c \in a..a + n - 1 => c \notin b..b + m - 1
      <4> HIDE DEF m
      <4> QED
        BY <2>2, <2>4, <2>5, <2>7, RoomForBoth
    <3>2. Aside(V, pos, a, b)
      BY <2>4, <3>1, Zenon DEF Aside
    <3>3. \A j \in 1..n :
            /\ guest[a + j - 1] = b + pos[j]
            /\ \A k \in 1..Len(encode(V[j])) : guest[b + pos[j] + k - 1] = encode(V[j])[k]
      BY <2>4, <3>2, Zenon DEF Stored
    <3>4. \A c \in Guest : c \notin a..a + n - 1 /\ c \notin b..b + m - 1 => guest[c] = before[c]
      BY <2>4, Zenon DEF Stored
    <3>5. \A i \in 1..n : \A k \in 1..Len(encode(V[i])) :
            guest[guest[a + i - 1] + k - 1] = encode(V[i])[k]
      BY <3>3, Zenon
    <3> QED
      BY <3>4, <3>5
  <2> QED
    BY <2>1, <2>6, <2>7, Zenon
<1> QED
  BY <1>2, <1>3, PTL
================================================================================
