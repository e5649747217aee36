----------------------------- MODULE StorageProofs -----------------------------
(******************************************************************************)
(* Proofs about Storage, for every value of its constants.                    *)
(******************************************************************************)
EXTENDS Storage, TLAPS, SequenceTheorems, FiniteSetTheorems, WellFoundedInduction

(* The states in which a promise has settled and its reaction is due.         *)
Settled == {"answered", "refused", "resuming"}

(* What the platform may hold.                                                *)
Stores == [Key -> (SUBSET (Content \union {None})) \ {{}}]

(* The values of the variables.                                               *)
Typed ==
  /\ store \in Stores
  /\ cell \in [Buffer -> Content] /\ owner \in [Buffer -> Act \union {"guest"}]
  /\ table \in [1..Limit -> Buffer]
  /\ touched \in 0..MaxTouch /\ memory \in 0..touched
  /\ state \in [Act -> State] /\ call \in [Act -> Locals_]

(* A reaction is due for those whose promise has settled, once.               *)
Due(js, st) ==
  /\ js \in Seq(Act)
  /\ \A i, j \in 1..Len(js) : js[i] = js[j] => i = j
  /\ \A i \in 1..Len(js) : st[js[i]] \in Settled
  /\ \A p \in Act : st[p] \in Settled => \E i \in 1..Len(js) : js[i] = p

(* The locals c of a handler that waits in state s: a request has keys until  *)
(* it is answered, and an answer is about them; what is read or stored has a  *)
(* buffer; list of KV is about keys of KV, which it writes.                   *)
Sound(c, s, now) ==
  s \in Settled \union {"asked"} =>
    /\ c.op # "none" /\ c.view <= now
    /\ Len(c.data) <= LimitOf(c)
    /\ c.data # << >> => c.keys # << >>
    /\ c.op \in Gets \union Puts /\ c.keys # << >> => c.buffer \in Buffer
    /\ s = "asked" /\ c.op \notin Others => c.keys # << >>
    /\ c.op = "KVNamespace_list" =>
         /\ \A i \in 1..Len(c.keys) : c.keys[i] \in ToSet(KVKeys)
         /\ \A i \in 1..Len(c.data) : c.data[i][1] \in ToSet(KVKeys)

(* A get that returned 1 left its value in place, unless others wrote since.  *)
Answered(p, c, s, cells, own) ==
  s = "resuming" /\ c.op \in Gets =>
    IF c.result = 0 THEN c.data = << >> \/ c.data[1][2] = NoBytes
    ELSE /\ c.data # << >>
         /\ own[c.buffer] = p /\ c.data[1][2] # NoBytes => cells[c.buffer] = c.data[1][2]

(* A list left the last entry for each buffer in place, unless others wrote.  *)
Listed(p, c, s, cells, own, tab) ==
  s = "resuming" /\ c.op \in Lists /\ ~c.moved =>
    /\ c.result = Len(c.data)
    /\ \A i \in 1..Len(c.data) :
         \/ \E j \in 1..Len(c.data) : j > i /\ tab[j] = tab[i]
         \/ Entry(c, i) = NoBytes \/ own[tab[i]] # p
         \/ cells[tab[i]] = Entry(c, i)

Kept(p, c, s, now, cells, own, tab) ==
  Sound(c, s, now) /\ Answered(p, c, s, cells, own) /\ Listed(p, c, s, cells, own, tab)

(* The inductive invariant.                                                   *)
IInv ==
  /\ Typed /\ Due(jobs, state)
  /\ \A p \in Act : Kept(p, call[p], state[p], memory, cell, owner, table)

(* What the proofs need of the constants.                                     *)
LEMMA Constants ==
  /\ Limit \in Nat /\ Limit # 0 /\ MaxTouch \in Nat
  /\ NoBytes \in Content /\ NoBytes \in Value /\ "guest" \notin Act
  /\ Own \in [Act -> Buffer] /\ FirstTable \in [1..Limit -> Buffer]
  /\ KVKeys \in Seq(Key) /\ StorageKeys \in Seq(Key)
  /\ ArgKeys \subseteq Key
  /\ InitialStores \subseteq [Key -> Value \union {None}]
BY StorageAssumption, Zenon DEF StorageAssumption, Content

--------------------------------------------------------------------------------
(* Least and greatest numbers.                                                *)

(* A set of numbers has a least one,                                          *)
LEMMA Least ==
  ASSUME NEW T, T \subseteq Nat, T # {}
  PROVE  \E x \in T : \A y \in T : x <= y
<1>1. PICK x \in T : \A y \in T : <<y, x>> \notin OpToRel(<, Nat)
  BY NatLessThanWellFounded, WFMin, Zenon
<1>2. \A y \in Nat : y < x => <<y, x>> \in OpToRel(<, Nat)
  BY Zenon DEF OpToRel
<1>3. \A y \in T : ~(y < x)
  BY <1>1, <1>2, Zenon
<1> QED
  BY <1>3

(* and a greatest one if it is bounded.                                       *)
LEMMA Greatest ==
  ASSUME NEW n \in Nat, NEW T, T \subseteq 1..n, T # {}
  PROVE  \E x \in T : \A y \in T : x >= y
<1> DEFINE U == {i \in Nat : n - i \in T}
<1>1. \A x \in T : n - x \in U /\ n - (n - x) = x
  OBVIOUS
<1>2. PICK i \in U : \A j \in U : i <= j
  <2>1. U \subseteq Nat /\ U # {}
    BY <1>1
  <2> QED
    BY <2>1, Least
<1> QED
  BY <1>1, <1>2

(* Max is that one.                                                           *)
LEMMA MaxIsGreatest ==
  ASSUME NEW n \in Nat, NEW T, T \subseteq 1..n, T # {}
  PROVE  /\ Max(T) \in T /\ \A y \in T : Max(T) >= y
         /\ \A x \in T : (\A y \in T : x >= y) => Max(T) = x
<1>1. \E x \in T : \A y \in T : x >= y
  BY Greatest
<1>2. Max(T) \in T /\ \A y \in T : Max(T) >= y
  BY <1>1 DEF Max
<1>3. \A y \in T : y \in Nat
  OBVIOUS
<1>4. \A x, y \in T : x >= y /\ y >= x => x = y
  BY <1>3
<1> QED
  BY <1>2, <1>4

(* Min is the least number.                                                   *)
LEMMA MinIsLeast ==
  ASSUME NEW T, T \subseteq Nat, T # {}
  PROVE  Min(T) \in T /\ \A y \in T : Min(T) <= y
BY Least DEF Min

(* The elements of a set of numbers up to some number, counted.               *)
UpTo(T, i) == {j \in T : j <= i}

(* The k-th element of a set of numbers.                                      *)
LEMMA Nth ==
  ASSUME NEW n \in Nat, NEW T, T \subseteq 1..n, NEW k \in 1..Cardinality(T)
  PROVE  /\ IsFiniteSet(T) /\ Cardinality(T) \in Nat
         /\ \E i \in T : Cardinality(UpTo(T, i)) = k
<1>0. \A j \in T : j \in Nat /\ 1 <= j /\ j <= n
  OBVIOUS
<1>1. IsFiniteSet(T) /\ Cardinality(T) \in Nat
  <2>1. IsFiniteSet(1..n)
    BY FS_Interval
  <2>2. T \in SUBSET (1..n)
    OBVIOUS
  <2> QED
    BY <2>1, <2>2, FS_Subset, FS_CardinalityType
<1>2. ASSUME NEW i
      PROVE  IsFiniteSet(UpTo(T, i)) /\ Cardinality(UpTo(T, i)) \in Nat
  BY <1>1, FS_Subset, FS_CardinalityType DEF UpTo
<1> DEFINE U == {i \in Nat : Cardinality(UpTo(T, i)) >= k}
<1>3. n \in U
  <2>1. UpTo(T, n) = T
    BY <1>0 DEF UpTo
  <2> QED
    BY <1>1, <2>1
<1>4. PICK x \in U : \A y \in U : x <= y
  <2>1. U \subseteq Nat /\ U # {}
    BY <1>3
  <2> HIDE DEF U
  <2> QED
    BY <2>1, Least
<1>5. x \in Nat /\ Cardinality(UpTo(T, x)) >= k
  OBVIOUS
<1>6. x # 0
  <2>1. UpTo(T, 0) = {}
    <3>1. \A j \in T : ~(j <= 0)
      BY <1>0
    <3> QED
      BY <3>1 DEF UpTo
  <2>2. Cardinality(UpTo(T, 0)) = 0
    BY <2>1, FS_EmptySet
  <2> QED
    BY <1>1, <1>5, <2>2
<1>7. x - 1 \in Nat /\ Cardinality(UpTo(T, x - 1)) < k
  <2>1. x - 1 \in Nat /\ ~(x <= x - 1)
    BY <1>5, <1>6
  <2>2. x - 1 \notin U
    BY <1>4, <2>1
  <2>3. Cardinality(UpTo(T, x - 1)) \in Nat /\ k \in Nat
    BY <1>1, <1>2
  <2> HIDE DEF UpTo
  <2> QED
    BY <2>1, <2>2, <2>3
<1>8. x \in T
  <2> SUFFICES ASSUME x \notin T
               PROVE  FALSE
    OBVIOUS
  <2>1. UpTo(T, x) = UpTo(T, x - 1)
    <3>1. \A j \in T : j <= x <=> j <= x - 1
      BY <1>0, <1>5
    <3> QED
      BY <3>1 DEF UpTo
  <2>2. Cardinality(UpTo(T, x)) \in Nat /\ k \in Nat
    BY <1>1, <1>2
  <2> QED
    BY <1>5, <1>7, <2>1, <2>2
<1>9. Cardinality(UpTo(T, x)) = Cardinality(UpTo(T, x - 1)) + 1
  <2>1. UpTo(T, x) = UpTo(T, x - 1) \union {x} /\ x \notin UpTo(T, x - 1)
    <3>1. \A j \in T : j <= x <=> j <= x - 1 \/ j = x
      BY <1>0, <1>5
    <3>2. x <= x /\ ~(x <= x - 1)
      BY <1>5
    <3> QED
      BY <1>8, <3>1, <3>2 DEF UpTo
  <2> QED
    BY <1>2, <2>1, FS_AddElement
<1>10. Cardinality(UpTo(T, x)) = k
  <2>1. Cardinality(UpTo(T, x - 1)) \in Nat /\ Cardinality(UpTo(T, x)) \in Nat /\ k \in Nat
    BY <1>1, <1>2
  <2> QED
    BY <1>5, <1>7, <1>9, <2>1
<1> QED
  BY <1>1, <1>8, <1>10

--------------------------------------------------------------------------------
(* What the operators return.                                                 *)

(* The positions of the keys that are there.                                  *)
There(keys, seen) == {i \in 1..Len(keys) : seen[i] # None}

(* An answer is about keys that were asked for, and no longer than the limit. *)
LEMMA PresentIs ==
  ASSUME NEW keys \in Seq(Key), NEW seen, NEW limit \in Nat
  PROVE  LET a == Present(keys, seen, limit)
             there == Cardinality(There(keys, seen))
             size == IF there < limit THEN there ELSE limit
         IN  /\ size \in Nat /\ DOMAIN a = 1..size
             /\ \A n \in 1..size : \E i \in There(keys, seen) : a[n] = <<keys[i], seen[i]>>
<1> DEFINE T == There(keys, seen)
           size == IF Cardinality(T) < limit THEN Cardinality(T) ELSE limit
           nth(n) == CHOOSE i \in T : Cardinality(UpTo(T, i)) = n
<1>1. Len(keys) \in Nat /\ DOMAIN keys = 1..Len(keys) /\ T \subseteq 1..Len(keys)
  BY LenProperties DEF There
<1>2. IsFiniteSet(1..Len(keys))
  BY <1>1, FS_Interval
<1>3. IsFiniteSet(T) /\ Cardinality(T) \in Nat
  <2> HIDE DEF T
  <2> QED
    BY <1>1, <1>2, FS_Subset, FS_CardinalityType
<1>4. Present(keys, seen, limit) = [n \in 1..size |-> <<keys[nth(n)], seen[nth(n)]>>]
  BY <1>1 DEF Present, There, UpTo
<1>5. ASSUME NEW n \in 1..size
      PROVE  nth(n) \in T
  <2>1. n \in 1..Cardinality(T)
    BY <1>3
  <2>2. \E i \in T : Cardinality(UpTo(T, i)) = n
    <3> HIDE DEF T
    <3> QED
      BY <1>1, <2>1, Nth
  <2> QED
    BY <2>2
<1>6. size \in Nat
  BY <1>3
<1> HIDE DEF size, nth, T
<1>7. DOMAIN Present(keys, seen, limit) = 1..size
  BY <1>4
<1>8. \A n \in 1..size : \E i \in T : Present(keys, seen, limit)[n] = <<keys[i], seen[i]>>
  BY <1>4, <1>5
<1> QED
  BY <1>6, <1>7, <1>8 DEF size, T

(* So it is a sequence of keys with contents.                                 *)
LEMMA PresentTyped ==
  ASSUME NEW keys \in Seq(Key), NEW seen \in Readings(keys), NEW limit \in Nat
  PROVE  /\ Present(keys, seen, limit) \in Seq(Key \X Content)
         /\ Len(Present(keys, seen, limit)) <= limit
         /\ keys = << >> => Present(keys, seen, limit) = << >>
         /\ \A n \in 1..Len(Present(keys, seen, limit)) :
              \E i \in 1..Len(keys) : Present(keys, seen, limit)[n][1] = keys[i]
<1> DEFINE a == Present(keys, seen, limit)
           size == IF Cardinality(There(keys, seen)) < limit
                   THEN Cardinality(There(keys, seen)) ELSE limit
<1>1. /\ size \in Nat /\ DOMAIN a = 1..size
      /\ \A n \in 1..size : \E i \in There(keys, seen) : a[n] = <<keys[i], seen[i]>>
  BY PresentIs
<1>2. ASSUME NEW i \in There(keys, seen)
      PROVE  /\ i \in 1..Len(keys) /\ keys[i] \in Key /\ seen[i] \in Content
             /\ <<keys[i], seen[i]>> \in Key \X Content
             /\ <<keys[i], seen[i]>>[1] = keys[i]
  <2>0. DOMAIN keys = 1..Len(keys)
    BY LenProperties
  <2>1. /\ i \in 1..Len(keys) /\ keys[i] \in Key /\ seen[i] # None
        /\ seen[i] \in Content \union {None}
    BY <2>0, ElementOfSeq DEF There, Readings
  <2> QED
    BY <2>1
<1>3. a = [n \in 1..size |-> a[n]]
  BY <1>1 DEF Present
<1>4. size <= limit
  <2>1. IsFiniteSet(There(keys, seen))
    <3>1. There(keys, seen) \subseteq 1..Len(keys) /\ Len(keys) \in Nat
      BY LenProperties DEF There
    <3>2. IsFiniteSet(1..Len(keys))
      BY <3>1, FS_Interval
    <3> QED
      BY <3>1, <3>2, FS_Subset
  <2>2. Cardinality(There(keys, seen)) \in Nat
    BY <2>1, FS_CardinalityType
  <2> QED
    BY <2>2
<1>5. keys = << >> => There(keys, seen) = {}
  BY EmptySeq DEF There
<1> HIDE DEF a
<1>6. a \in Seq(Key \X Content) /\ Len(a) = size
  <2> HIDE DEF size
  <2>1. ASSUME NEW n \in 1..size
        PROVE  a[n] \in Key \X Content
    <3>1. PICK i \in There(keys, seen) : a[n] = <<keys[i], seen[i]>>
      BY <1>1
    <3> QED
      BY <1>2, <3>1
  <2>2. a \in [1..size -> Key \X Content]
    BY <1>3, <2>1
  <2> QED
    BY <1>1, <2>2, LenProperties
<1>7. keys = << >> => a = << >>
  <2>1. keys = << >> => size = 0
    BY <1>5, FS_EmptySet
  <2> HIDE DEF size
  <2> QED
    BY <1>6, <2>1, EmptySeq
<1>8. \A n \in 1..Len(a) : \E i \in 1..Len(keys) : a[n][1] = keys[i]
  <2> HIDE DEF size
  <2> SUFFICES ASSUME NEW n \in 1..size
               PROVE  \E i \in 1..Len(keys) : a[n][1] = keys[i]
    BY <1>6
  <2>1. PICK i \in There(keys, seen) : a[n] = <<keys[i], seen[i]>>
    BY <1>1
  <2> QED
    BY <1>2, <2>1
<1> QED
  BY <1>4, <1>6, <1>7, <1>8 DEF a

--------------------------------------------------------------------------------
(* The queue of reactions.                                                    *)

(* An activation whose promise has not settled changes its state,             *)
LEMMA DueStays ==
  ASSUME NEW js, NEW st \in [Act -> State], Due(js, st), NEW p \in Act, NEW s, s \notin Settled,
         st[p] \notin Settled
  PROVE  Due(js, [st EXCEPT ![p] = s])
<1>1. \A i \in 1..Len(js) : js[i] \in Act
  BY ElementOfSeq DEF Due
<1> QED
  BY <1>1 DEF Due

(* or its promise settles.                                                    *)
LEMMA DueGrows ==
  ASSUME NEW js, NEW st \in [Act -> State], Due(js, st), NEW p \in Act, NEW s \in Settled,
         st[p] \notin Settled
  PROVE  Due(Append(js, p), [st EXCEPT ![p] = s])
<1> DEFINE ks == Append(js, p)
<1>1. /\ js \in Seq(Act) /\ Len(js) \in Nat /\ \A i \in 1..Len(js) : js[i] \in Act /\ js[i] # p
  BY ElementOfSeq, LenProperties DEF Due
<1>2. /\ ks \in Seq(Act) /\ Len(ks) = Len(js) + 1 /\ ks[Len(js) + 1] = p
      /\ \A i \in 1..Len(js) : ks[i] = js[i]
  BY <1>1, AppendProperties
<1>3. \A i \in 1..Len(ks) : i \in 1..Len(js) \/ i = Len(js) + 1
  BY <1>1, <1>2
<1>4. /\ Len(js) + 1 \in 1..Len(ks)
      /\ \A i \in 1..Len(js) : i \in 1..Len(ks)
  BY <1>1, <1>2
<1> HIDE DEF ks
<1>5. \A i, j \in 1..Len(ks) : ks[i] = ks[j] => i = j
  BY <1>1, <1>2, <1>3 DEF Due
<1>6. \A i \in 1..Len(ks) : [st EXCEPT ![p] = s][ks[i]] \in Settled
  BY <1>1, <1>2, <1>3 DEF Due
<1>7. \A q \in Act : [st EXCEPT ![p] = s][q] \in Settled => \E i \in 1..Len(ks) : ks[i] = q
  BY <1>2, <1>4 DEF Due
<1> QED
  BY <1>2, <1>5, <1>6, <1>7 DEF Due, ks

(* The first reaction runs.                                                   *)
LEMMA DueRuns ==
  ASSUME NEW js, NEW st \in [Act -> State], Due(js, st), js # << >>,
         NEW p, p = Head(js), NEW s, s \notin Settled
  PROVE  p \in Act /\ Due(Tail(js), [st EXCEPT ![p] = s])
<1> DEFINE ks == Tail(js)
<1>1. /\ js \in Seq(Act) /\ Len(js) \in Nat /\ \A i \in 1..Len(js) : js[i] \in Act
  BY ElementOfSeq, LenProperties DEF Due
<1>2. /\ ks \in Seq(Act) /\ Len(ks) = Len(js) - 1 /\ p = js[1] /\ 1 \in 1..Len(js)
      /\ \A i \in 1..Len(ks) : ks[i] = js[i + 1]
  BY <1>1, HeadTailProperties, EmptySeq
<1>3. /\ \A i \in 1..Len(ks) : i + 1 \in 1..Len(js) /\ i + 1 # 1 /\ i \in Nat
      /\ \A i \in 1..Len(js) : i = 1 \/ (i - 1 \in 1..Len(ks) /\ (i - 1) + 1 = i)
  BY <1>1, <1>2
<1> HIDE DEF ks
<1>4. \A i \in 1..Len(ks) : ks[i] # p /\ ks[i] \in Act
  BY <1>1, <1>2, <1>3 DEF Due
<1>5. \A i, j \in 1..Len(ks) : ks[i] = ks[j] => i = j
  <2>1. \A i, j \in 1..Len(ks) : ks[i] = ks[j] => i + 1 = j + 1
    BY <1>2, <1>3 DEF Due
  <2> QED
    BY <1>3, <2>1
<1>6. \A i \in 1..Len(ks) : [st EXCEPT ![p] = s][ks[i]] \in Settled
  BY <1>2, <1>3, <1>4 DEF Due
<1>7. \A q \in Act : [st EXCEPT ![p] = s][q] \in Settled => \E i \in 1..Len(ks) : ks[i] = q
  <2> SUFFICES ASSUME NEW q \in Act, [st EXCEPT ![p] = s][q] \in Settled
               PROVE  \E i \in 1..Len(ks) : ks[i] = q
    OBVIOUS
  <2>1. q # p /\ st[q] \in Settled
    BY <1>1, <1>2
  <2>2. PICK i \in 1..Len(js) : js[i] = q
    BY <2>1 DEF Due
  <2> QED
    BY <1>2, <1>3, <2>1, <2>2
<1> QED
  BY <1>1, <1>2, <1>5, <1>6, <1>7 DEF Due, ks

(* What TypeOK says of the queue.                                             *)
LEMMA DueIs ==
  ASSUME NEW js, NEW st, Due(js, st)
  PROVE  /\ js \in Seq(Act) /\ IsInjective(js)
         /\ ToSet(js) = {p \in Act : st[p] \in Settled}
<1>1. DOMAIN js = 1..Len(js) /\ \A i \in 1..Len(js) : js[i] \in Act
  BY LenProperties, ElementOfSeq DEF Due
<1> QED
  BY <1>1 DEF Due, IsInjective, ToSet

--------------------------------------------------------------------------------
(* What is said of an activation, and steps of others.                        *)

(* Nothing is said of one that does not wait.                                 *)
LEMMA NotWaiting ==
  ASSUME NEW p, NEW c, NEW s, s \notin Settled \union {"asked"},
         NEW now, NEW cells, NEW own, NEW tab
  PROVE  Kept(p, c, s, now, cells, own, tab)
BY DEF Kept, Sound, Answered, Listed, Settled

(* Other activations may write, and the memory may grow.                      *)
LEMMA OthersKept ==
  ASSUME IInv, NEW q \in Act, call'[q] = call[q], state'[q] = state[q],
         memory <= memory', memory' \in Nat, table' = table,
         \A b \in Buffer : (cell'[b] = cell[b] /\ owner'[b] = owner[b]) \/ owner'[b] # q
  PROVE  Kept(q, call'[q], state'[q], memory', cell', owner', table')
<1> DEFINE c == call[q]
<1>1. /\ Kept(q, c, state[q], memory, cell, owner, table) /\ c \in Locals_
      /\ memory \in Nat /\ c.view \in Nat /\ c.data \in Seq(Key \X Content)
      /\ table \in [1..Limit -> Buffer]
  <2>1. c \in Locals_ /\ MaxTouch \in Nat /\ touched \in 0..MaxTouch /\ memory \in 0..touched
    BY Constants DEF IInv, Typed
  <2>2. c.view \in 0..MaxTouch /\ c.data \in Seq(Key \X Content)
    BY <2>1 DEF Locals_
  <2> QED
    BY <2>1, <2>2 DEF IInv, Typed
<1> HIDE DEF c
<1>2. Sound(c, state[q], memory')
  BY <1>1 DEF Kept, Sound
<1>3. Answered(q, c, state[q], cell', owner')
  <2>1. state[q] = "resuming" /\ c.op \in Gets /\ c.data # << >> => c.buffer \in Buffer
    BY <1>1 DEF Kept, Sound, Settled
  <2> QED
    BY <1>1, <2>1 DEF Kept, Answered
<1>4. Listed(q, c, state[q], cell', owner', table)
  <2> SUFFICES ASSUME state[q] = "resuming", c.op \in Lists, ~c.moved
               PROVE  Listed(q, c, state[q], cell', owner', table)
    BY DEF Listed
  <2>0. Limit \in Nat
    BY Constants
  <2>1. Len(c.data) \in Nat /\ Len(c.data) <= Limit
    BY <1>1, LenProperties DEF Kept, Sound, Settled, LimitOf
  <2>2. \A i \in 1..Len(c.data) : table[i] \in Buffer
    <3>1. \A i \in 1..Len(c.data) : i \in 1..Limit
      BY <2>0, <2>1
    <3> QED
      BY <1>1, <3>1
  <2> QED
    BY <1>1, <2>2 DEF Kept, Listed
<1> QED
  BY <1>2, <1>3, <1>4 DEF Kept, c

(* A step of p leaves the buffers alone.                                      *)
LEMMA StateMoves ==
  ASSUME IInv, NEW p \in Act, Typed', Due(jobs', state'),
         \A q \in Act : q # p => call'[q] = call[q] /\ state'[q] = state[q],
         UNCHANGED guest,
         Kept(p, call'[p], state'[p], memory, cell, owner, table)
  PROVE  IInv'
<1>1. UNCHANGED <<cell, table, memory, owner, touched>> /\ memory \in Nat /\ memory <= memory
  <2>1. MaxTouch \in Nat /\ touched \in 0..MaxTouch /\ memory \in 0..touched
    BY Constants DEF IInv, Typed
  <2> QED
    BY <2>1 DEF guest
<1>2. ASSUME NEW q \in Act
      PROVE  Kept(q, call'[q], state'[q], memory', cell', owner', table')
  <2>1. CASE q = p
    BY <1>1, <2>1
  <2>2. CASE q # p
    BY <1>1, <2>2, OthersKept
  <2> QED
    BY <2>1, <2>2
<1> QED
  BY <1>2 DEF IInv

--------------------------------------------------------------------------------
(* Calls.                                                                     *)

(* The keys that a prefix leaves.                                             *)
LEMMA PrefixedTyped ==
  ASSUME NEW keys \in Seq(Key), NEW ks \in Prefixed(keys)
  PROVE  /\ ks \in Seq(Key) /\ ks # << >>
         /\ \A i \in 1..Len(ks) : ks[i] \in ToSet(keys)
<1>1. Len(keys) \in Nat /\ DOMAIN keys = 1..Len(keys)
  BY LenProperties
<1>2. PICK i \in 1..Len(keys) : ks = SubSeq(keys, i, Len(keys))
  BY <1>1 DEF Prefixed
<1>3. /\ i \in 1..Len(keys) + 1 /\ Len(keys) \in 0..Len(keys) /\ i <= Len(keys)
      /\ Len(keys) - i + 1 \in Nat /\ Len(keys) - i + 1 # 0
  BY <1>1
<1>4. /\ ks \in Seq(Key) /\ Len(ks) = Len(keys) - i + 1
      /\ \A j \in 1..Len(keys) - i + 1 : ks[j] = keys[i + j - 1]
  BY <1>1, <1>2, <1>3, SubSeqProperties
<1>5. \A j \in 1..Len(ks) : i + j - 1 \in 1..Len(keys)
  BY <1>1, <1>3, <1>4
<1>6. \A j \in 1..Len(ks) : ks[j] \in ToSet(keys)
  BY <1>1, <1>4, <1>5 DEF ToSet
<1> QED
  BY <1>3, <1>4, <1>6, EmptySeq

Ops == Gets \union Lists \union Puts \union Deletes \union Others

(* The locals c of a new call.                                                *)
NewLocals(c, op, keys, b) ==
  /\ c \in Locals_ /\ c.op = op /\ c.keys = keys /\ c.buffer = b
  /\ c.data = << >> /\ c.result = 0 /\ c.view <= memory /\ c.moved = FALSE
  /\ c.copy = IF op \in Puts /\ b # NoBuffer THEN cell[b] ELSE NoBytes

(* A handler starts with what it was passed and what it read of guest memory  *)
(* (DurableObject.ts 25-43, Worker.ts 49-109).                                *)
LEMMA LocalsAre ==
  ASSUME Typed, NEW op \in Ops, NEW keys \in Seq(Key), NEW b \in Buffer \union {NoBuffer}
  PROVE  NewLocals(Locals(op, keys, b), op, keys, b)
<1>1. /\ NoBytes \in Content /\ MaxTouch \in Nat /\ memory \in Nat /\ memory <= MaxTouch
      /\ \A x \in Buffer : cell[x] \in Content
  <2>1. MaxTouch \in Nat /\ touched \in 0..MaxTouch /\ memory \in 0..touched
    BY Constants DEF Typed
  <2>2. NoBytes \in Content
    BY Constants
  <2>3. memory \in Nat /\ memory <= MaxTouch
    BY <2>1
  <2> QED
    BY <2>1, <2>2, <2>3 DEF Typed
<1>2. << >> \in Seq(Key \X Content)
  BY EmptySeq
<1> DEFINE copy == IF op \in Puts /\ b # NoBuffer THEN cell[b] ELSE NoBytes
           view == IF HoldsView(op) THEN memory ELSE 0
<1>3. copy \in Content
  BY <1>1
<1>4. view \in 0..MaxTouch /\ view <= memory
  <2>1. MaxTouch \in Nat /\ memory \in Nat /\ memory <= MaxTouch /\ (view = memory \/ view = 0)
    BY <1>1
  <2> HIDE DEF view
  <2> QED
    BY <2>1
<1> HIDE DEF copy, view
<1> DEFINE c == Locals(op, keys, b)
<1>5. c = [NoCall EXCEPT !.op = op, !.keys = keys, !.buffer = b, !.copy = copy, !.view = view]
  BY DEF Locals, copy, view
<1>6. c \in Locals_
  <2>0. MaxTouch \in Nat
    BY <1>1
  <2>1. 0 \in 0..MaxTouch
    BY <2>0
  <2>2. NoCall \in Locals_
    BY <1>1, <1>2, <2>1, EmptySeq DEF NoCall, Locals_
  <2>3. [NoCall EXCEPT !.op = op, !.keys = keys, !.buffer = b, !.copy = copy, !.view = view]
          \in Locals_
    BY <1>3, <1>4, <2>2 DEF Locals_, Ops
  <2> QED
    BY <1>5, <2>3
<1> HIDE DEF c
<1>7. /\ c.op = op /\ c.keys = keys /\ c.buffer = b /\ c.copy = copy /\ c.view = view
      /\ c.data = << >> /\ c.result = 0 /\ c.moved = FALSE
  BY <1>5 DEF NoCall
<1> QED
  BY <1>4, <1>6, <1>7 DEF NewLocals, c, copy

(* What handlers call with.                                                   *)
CallFits(op, keys, b, s) ==
  /\ op \in Ops /\ keys \in Seq(Key) /\ b \in Buffer \union {NoBuffer}
  /\ s \in {"asked", "answered", "resuming"}
  /\ op \in Gets \union Puts /\ keys # << >> => b \in Buffer
  /\ s = "asked" /\ op \notin Others => keys # << >>
  /\ s # "asked" => keys = << >>
  /\ op = "KVNamespace_list" => \A i \in 1..Len(keys) : keys[i] \in ToSet(KVKeys)

(* p calls with these; without a binding its promise has settled at once.     *)
CallsWith(p, op, keys, b, s) ==
  /\ CallFits(op, keys, b, s)
  /\ Calls(p, Locals(op, keys, b), s)
  /\ jobs' = IF s = "asked" THEN jobs ELSE Append(jobs, p)

(* Every import but those that write an id calls with that.                   *)
LEMMA ImportsCall ==
  ASSUME NEW p \in Act, Worker(p) \/ DurableObject(p)
  PROVE  write_id(p) \/ \E op, keys, b, s : CallsWith(p, op, keys, b, s)
<1> DEFINE Good == \E op, keys, b, s : CallsWith(p, op, keys, b, s)
<1>1. Own[p] \in Buffer
  BY Constants
<1>2. \A k \in Key : <<k>> \in Seq(Key) /\ <<k>> # << >>
  OBVIOUS
<1>3. << >> \in Seq(Key) /\ Len(<< >>) = 0
  BY EmptySeq
<1>4. ASSUME NEW op \in Ops, NEW s \in {"answered", "resuming"}, Unbound(p, op, s)
      PROVE  Good
  <2>1. CallsWith(p, op, << >>, NoBuffer, s)
    BY <1>3, <1>4 DEF CallsWith, CallFits, Unbound
  <2> QED
    BY <2>1
<1>5. ASSUME NEW op \in Ops, op # "KVNamespace_list", NEW k \in Key, Ask(p, op, <<k>>, Own[p])
      PROVE  Good
  <2>1. CallsWith(p, op, <<k>>, Own[p], "asked")
    BY <1>1, <1>2, <1>5 DEF CallsWith, CallFits, Ask
  <2> QED
    BY <2>1
<1>6. ASSUME NEW op \in Deletes, NEW k \in Key, Ask(p, op, <<k>>, NoBuffer)
      PROVE  Good
  <2>1. CallsWith(p, op, <<k>>, NoBuffer, "asked")
    BY <1>2, <1>6 DEF CallsWith, CallFits, Ask, Ops, Gets, Puts, Deletes, Others
  <2> QED
    BY <2>1
<1>7. ASSUME NEW op \in Others, Ask(p, op, << >>, NoBuffer)
      PROVE  Good
  <2>1. CallsWith(p, op, << >>, NoBuffer, "asked")
    BY <1>3, <1>7 DEF CallsWith, CallFits, Ask, Ops, Others
  <2> QED
    BY <2>1
<1>8. ASSUME NEW op \in Lists, NEW names \in Seq(Key), NEW keys \in Prefixed(names),
             op = "KVNamespace_list" => names = KVKeys, Ask(p, op, keys, NoBuffer)
      PROVE  Good
  <2>1. /\ keys \in Seq(Key) /\ keys # << >>
        /\ \A i \in 1..Len(keys) : keys[i] \in ToSet(names)
    BY PrefixedTyped
  <2>2. CallsWith(p, op, keys, NoBuffer, "asked")
    BY <1>8, <2>1 DEF CallsWith, CallFits, Ask, Ops, Gets, Lists, Puts
  <2> QED
    BY <2>2
<1> HIDE DEF Good
<1>9. \A k \in ArgKeys : k \in Key
  BY Constants
<1>10. ASSUME NEW k \in ArgKeys,
              \/ KVNamespace_getText(p, k) \/ KVNamespace_getArrayBuffer(p, k)
              \/ KVNamespace_putText(p, k) \/ KVNamespace_putArrayBuffer(p, k)
              \/ KVNamespace_delete(p, k)
       PROVE  Good
  BY <1>4, <1>5, <1>6, <1>9, <1>10
  DEF KVNamespace_getText, KVNamespace_getArrayBuffer, KVNamespace_putText,
      KVNamespace_putArrayBuffer, KVNamespace_delete, Ops, Gets, Puts, Deletes
<1>11. ASSUME NEW k \in ArgKeys,
              State_Storage_put(p, k) \/ State_Storage_get(p, k) \/ State_Storage_delete(p, k)
       PROVE  Good
  BY <1>5, <1>6, <1>9, <1>11
  DEF State_Storage_put, State_Storage_get, State_Storage_delete, Ops, Gets, Puts, Deletes
<1>12. KVNamespace_list(p) \/ State_Storage_list(p) => Good
  BY <1>4, <1>8, Constants DEF KVNamespace_list, State_Storage_list, Ops, Lists
<1>13. DurableObject_Stub_fetch(p) \/ sleep(p) => Good
  BY <1>4, <1>7 DEF DurableObject_Stub_fetch, sleep, Ops, Others
<1>14. write_id(p) \/ Good
  BY <1>10, <1>11, <1>12, <1>13 DEF Worker, DurableObject
<1> QED
  BY <1>14 DEF Good

--------------------------------------------------------------------------------
(* Every step keeps the invariant.                                            *)

(* A step that leaves guest memory alone and gives one activation the locals  *)
(* c and the state s.                                                         *)
LEMMA Moves ==
  ASSUME IInv, NEW p \in Act, NEW c \in Locals_, NEW s \in State,
         call' = [call EXCEPT ![p] = c], state' = [state EXCEPT ![p] = s], UNCHANGED guest,
         store' \in Stores, Due(jobs', state'),
         Kept(p, c, s, memory, cell, owner, table)
  PROVE  IInv'
<1>1. /\ call \in [Act -> Locals_] /\ state \in [Act -> State]
      /\ UNCHANGED <<cell, table, memory, owner, touched>>
  BY DEF IInv, Typed, guest
<1>2. /\ call' \in [Act -> Locals_] /\ state' \in [Act -> State]
      /\ call'[p] = c /\ state'[p] = s
      /\ \A q \in Act : q # p => call'[q] = call[q] /\ state'[q] = state[q]
  BY <1>1
<1>3. Typed'
  BY <1>1, <1>2 DEF IInv, Typed
<1> QED
  BY <1>2, <1>3, StateMoves

(* The same with the locals it has.                                           *)
LEMMA Becomes ==
  ASSUME IInv, NEW p \in Act, NEW s \in State,
         call' = call, state' = [state EXCEPT ![p] = s], UNCHANGED guest,
         store' \in Stores, Due(jobs', state'),
         Kept(p, call[p], s, memory, cell, owner, table)
  PROVE  IInv'
<1>1. call \in [Act -> Locals_]
  BY DEF IInv, Typed
<1>2. call[p] \in Locals_ /\ call' = [call EXCEPT ![p] = call[p]]
  BY <1>1
<1> QED
  BY <1>2, Moves

(* A call starts a handler with no answer, so nothing is in place yet.        *)
LEMMA CallsKeep ==
  ASSUME IInv, NEW p \in Act, NEW op, NEW keys, NEW b, NEW s, CallsWith(p, op, keys, b, s)
  PROVE  IInv'
<1> DEFINE c == Locals(op, keys, b)
<1>1. Typed /\ CallFits(op, keys, b, s) /\ Calls(p, c, s)
  BY DEF CallsWith, IInv
<1>2. /\ op \in Ops /\ c \in Locals_ /\ c.op = op /\ c.keys = keys /\ c.buffer = b
      /\ c.data = << >> /\ c.result = 0 /\ c.view <= memory
  <2>1. op \in Ops /\ keys \in Seq(Key) /\ b \in Buffer \union {NoBuffer}
    BY <1>1 DEF CallFits
  <2>2. Typed
    BY <1>1
  <2>3. NewLocals(c, op, keys, b)
    BY <2>1, <2>2, LocalsAre
  <2> HIDE DEF c
  <2> QED
    BY <2>1, <2>3 DEF NewLocals
<1>3. Len(c.data) = 0 /\ Len(c.data) <= LimitOf(c)
  <2>1. Len(<< >>) = 0 /\ Limit \in Nat
    BY EmptySeq, Constants
  <2> QED
    BY <1>2, <2>1 DEF LimitOf
<1> HIDE DEF c
<1>4. Kept(p, c, s, memory, cell, owner, table)
  <2>1. Sound(c, s, memory)
    BY <1>1, <1>2, <1>3 DEF Sound, CallFits, Ops, Gets, Lists, Puts, Deletes, Others
  <2> QED
    BY <1>2, <1>3, <2>1 DEF Kept, Answered, Listed
<1>5. /\ state \in [Act -> State] /\ state[p] = "running" /\ s \in State
      /\ store \in Stores
  BY <1>1 DEF Typed, Calls, CallFits, State
<1>6. Due(jobs', state')
  <2>1. Due(jobs, state) /\ state[p] \notin Settled /\ state' = [state EXCEPT ![p] = s]
    BY <1>1, <1>5 DEF IInv, Calls, Become, Settled
  <2>2. CASE s = "asked"
    <3>1. s \notin Settled /\ jobs' = jobs
      BY <2>2 DEF CallsWith, Settled
    <3> QED
      BY <1>5, <2>1, <3>1, DueStays
  <2>3. CASE s # "asked"
    <3>1. s \in Settled /\ jobs' = Append(jobs, p)
      BY <1>1, <2>3 DEF CallsWith, CallFits, Settled
    <3> QED
      BY <1>5, <2>1, <3>1, DueGrows
  <2> QED
    BY <2>2, <2>3
<1> QED
  BY <1>1, <1>2, <1>4, <1>5, <1>6, Moves DEF Calls, Become

(* What the rest of a handler starts from.                                    *)
LEMMA RunsIs ==
  ASSUME IInv, NEW p \in Act, NEW s \in Settled, Runs(p, s)
  PROVE  /\ call[p] \in Locals_ /\ state[p] = s
         /\ Kept(p, call[p], s, memory, cell, owner, table)
         /\ \A x \in State \ Settled : Due(Tail(jobs), [state EXCEPT ![p] = x])
<1>1. /\ state \in [Act -> State] /\ Due(jobs, state) /\ jobs # << >> /\ Head(jobs) = p
  BY DEF IInv, Typed, Runs
<1>2. \A x \in State \ Settled : Due(Tail(jobs), [state EXCEPT ![p] = x])
  BY <1>1, DueRuns
<1> QED
  BY <1>2 DEF IInv, Typed, Runs

(* The host calls an export, or the guest returns.                            *)
LEMMA RunKeeps ==
  ASSUME IInv, NEW p \in Act, run(p) \/ return(p)
  PROVE  IInv'
<1> DEFINE s == IF state[p] = "new" THEN "running" ELSE "returned"
<1>1. /\ s \in State \ (Settled \union {"asked"}) /\ state[p] \notin Settled
      /\ state' = [state EXCEPT ![p] = s]
      /\ UNCHANGED <<store, guest, call, jobs>>
  BY DEF run, return, Become, State, Settled
<1> HIDE DEF s
<1>2. state \in [Act -> State] /\ store \in Stores /\ Due(jobs, state)
  BY DEF IInv, Typed
<1>3. Due(jobs', state')
  BY <1>1, <1>2, DueStays
<1>4. Kept(p, call[p], s, memory, cell, owner, table)
  BY <1>1, NotWaiting
<1> QED
  BY <1>1, <1>2, <1>3, <1>4, Becomes

(* The guest goes on, and its handler is gone.                                *)
LEMMA ResumeKeeps ==
  ASSUME IInv, NEW p \in Act, resume(p)
  PROVE  IInv'
<1>1. /\ Runs(p, "resuming") /\ "resuming" \in Settled
      /\ "running" \in State \ (Settled \union {"asked"})
  BY DEF resume, State, Settled
<1>2. Due(jobs', state')
  BY <1>1, RunsIs DEF resume, Become
<1>3. NoCall \in Locals_
  <2>0. MaxTouch \in Nat
    BY Constants
  <2>1. 0 \in 0..MaxTouch
    BY <2>0
  <2>2. NoBytes \in Content
    BY Constants
  <2> QED
    BY <2>1, <2>2, EmptySeq DEF NoCall, Locals_
<1>4. Kept(p, NoCall, "running", memory, cell, owner, table)
  BY <1>1, NotWaiting
<1> QED
  BY <1>1, <1>2, <1>3, <1>4, Moves DEF resume, Become, IInv, Typed

(* A handler that throws.                                                     *)
LEMMA FailsKeeps ==
  ASSUME IInv, NEW p \in Act, NEW s \in Settled, Runs(p, s), Fails(p)
  PROVE  IInv'
<1>1. "failed" \in State \ (Settled \union {"asked"})
  BY DEF State, Settled
<1>2. Due(jobs', state')
  BY <1>1, RunsIs DEF Fails, Become
<1>3. Kept(p, call[p], "failed", memory, cell, owner, table)
  BY <1>1, NotWaiting
<1> QED
  BY <1>1, <1>2, <1>3, Becomes DEF Fails, Become, IInv, Typed

(* A change leaves something to be found.                                     *)
LEMMA ChangedTyped ==
  ASSUME store \in Stores, NEW k, NEW v \in Content \union {None}, Changed(k, v)
  PROVE  store' \in Stores
<1> DEFINE S == (SUBSET (Content \union {None})) \ {{}}
           x == IF k \in ToSet(StorageKeys) THEN {v} ELSE store[k] \union {v}
<1>1. store \in [Key -> S] /\ store' = [store EXCEPT ![k] = x]
  BY DEF Stores, Changed
<1>2. k \in Key => x \in S
  <2>1. k \in Key => store[k] \subseteq Content \union {None}
    BY DEF Stores
  <2>2. k \in Key => x \subseteq Content \union {None} /\ v \in x
    BY <2>1
  <2> QED
    BY <2>2
<1> HIDE DEF S, x
<1>3. store' \in [Key -> S]
  BY <1>1, <1>2
<1> QED
  BY <1>3 DEF Stores, S

(* The platform answers or refuses.                                           *)
LEMMA EffectTyped ==
  ASSUME IInv, NEW p \in Act, state[p] = "asked", TakesEffect(call[p])
  PROVE  store' \in Stores
<1> DEFINE c == call[p]
<1>1. /\ store \in Stores /\ cell \in [Buffer -> Content]
      /\ c \in Locals_ /\ Sound(c, "asked", memory)
  BY DEF IInv, Typed, Kept
<1> HIDE DEF c
<1>2. c.copy \in Content /\ c.keys \in Seq(Key)
  BY <1>1 DEF Locals_
<1>3. CASE c.op \in Puts /\ \E v \in Stored(c) : Changed(c.keys[1], v)
  <2>1. c.buffer \in Buffer
    BY <1>1, <1>3 DEF Sound, Puts, Others
  <2>2. \A v \in Stored(c) : v \in Content
    BY <1>1, <1>2, <2>1 DEF Stored
  <2> QED
    BY <1>1, <1>3, <2>2, ChangedTyped
<1>4. CASE c.op \in Deletes /\ Changed(c.keys[1], None)
  BY <1>1, <1>4, ChangedTyped
<1>5. CASE c.op \in Gets \union Lists \union Others /\ UNCHANGED store
  BY <1>1, <1>5
<1> QED
  BY <1>3, <1>4, <1>5 DEF TakesEffect, c

(* An answer is about the keys asked for, and settles the promise.            *)
LEMMA ResolveKeeps ==
  ASSUME IInv, NEW p \in Act, resolve(p)
  PROVE  IInv'
<1> DEFINE c == call[p]
<1>0. PICK seen \in Readings(c.keys) :
        call' = [call EXCEPT ![p].data = Present(c.keys, seen, LimitOf(c))]
  BY DEF resolve
<1> DEFINE a == Present(c.keys, seen, LimitOf(c))
           d == [c EXCEPT !.data = a]
<1>1. /\ state[p] = "asked" /\ TakesEffect(c) /\ UNCHANGED guest
      /\ call' = [call EXCEPT ![p] = d] /\ Settle(p, "answered")
  BY <1>0 DEF resolve
<1>2. /\ c \in Locals_ /\ Sound(c, "asked", memory) /\ c.keys \in Seq(Key)
      /\ state \in [Act -> State]
      /\ Due(jobs, state)
  <2>1. c \in Locals_
    BY DEF IInv, Typed
  <2> QED
    BY <1>1, <2>1 DEF IInv, Typed, Kept, Locals_
<1>3. LimitOf(c) \in Nat
  BY Constants DEF LimitOf
<1>4. /\ a \in Seq(Key \X Content) /\ Len(a) <= LimitOf(c)
      /\ c.keys = << >> => a = << >>
      /\ \A n \in 1..Len(a) : \E i \in 1..Len(c.keys) : a[n][1] = c.keys[i]
  BY <1>2, <1>3, PresentTyped
<1> HIDE DEF c, a
<1>5. d \in Locals_
  BY <1>2, <1>4 DEF Locals_
<1>6. /\ d.op = c.op /\ d.keys = c.keys /\ d.buffer = c.buffer /\ d.view = c.view
      /\ d.data = a
  BY <1>2 DEF Locals_
<1> HIDE DEF d
<1>7. Kept(p, d, "answered", memory, cell, owner, table)
  <2>1. LimitOf(d) = LimitOf(c)
    BY <1>6 DEF LimitOf
  <2>2. c.op = "KVNamespace_list" => \A i \in 1..Len(a) : a[i][1] \in ToSet(KVKeys)
    BY <1>2, <1>4 DEF Sound
  <2>3. Sound(d, "answered", memory)
    BY <1>2, <1>4, <1>6, <2>1, <2>2 DEF Sound
  <2> QED
    BY <2>3 DEF Kept, Answered, Listed
<1>8. store' \in Stores
  BY <1>1, EffectTyped DEF c
<1>9. "answered" \in State /\ "answered" \in Settled /\ "asked" \notin Settled
  BY DEF State, Settled
<1>10. state' = [state EXCEPT ![p] = "answered"] /\ Due(jobs', state')
  BY <1>1, <1>2, <1>9, DueGrows DEF Settle, Become
<1> QED
  BY <1>1, <1>5, <1>7, <1>8, <1>9, <1>10, Moves

(* An error settles the promise too.                                          *)
LEMMA RejectKeeps ==
  ASSUME IInv, NEW p \in Act, reject(p)
  PROVE  IInv'
<1>1. /\ state[p] = "asked" /\ UNCHANGED guest /\ UNCHANGED call /\ Settle(p, "refused")
      /\ UNCHANGED store \/ TakesEffect(call[p])
  BY DEF reject
<1>2. /\ Sound(call[p], "asked", memory) /\ state \in [Act -> State] /\ Due(jobs, state)
      /\ store \in Stores
  BY <1>1 DEF IInv, Typed, Kept
<1>3. store' \in Stores
  BY <1>1, <1>2, EffectTyped
<1>4. "refused" \in State /\ "refused" \in Settled /\ "asked" \notin Settled
  BY DEF State, Settled
<1>5. Kept(p, call[p], "refused", memory, cell, owner, table)
  BY <1>2 DEF Kept, Sound, Answered, Listed, Settled
<1>6. state' = [state EXCEPT ![p] = "refused"] /\ Due(jobs', state')
  BY <1>1, <1>2, <1>4, DueGrows DEF Settle, Become
<1> QED
  BY <1>1, <1>3, <1>4, <1>5, <1>6, Becomes

(* What the rest of a handler writes.                                         *)
WritesOf(c, w, n) ==
  /\ n \in Nat /\ w \in Seq(Buffer \X Content) /\ Len(w) = n /\ DOMAIN w = 1..n
  /\ n <= Len(c.data)
  /\ \A i \in 1..n :
       /\ w[i][1] \in Buffer /\ w[i][2] \in Content
       /\ w[i][1] = Target(c, i) /\ w[i][2] = Entry(c, i)
  /\ c.op \in Gets =>
       /\ Found(c) => c.data # << >> /\ n = 1 /\ w[1][1] = c.buffer /\ w[1][2] = c.data[1][2]
       /\ ~Found(c) => c.data = << >> \/ c.data[1][2] = NoBytes
  /\ c.op \in Lists =>
       /\ n = Len(c.data)
       /\ \A i \in 1..n : w[i][1] = table[i] /\ w[i][2] = Entry(c, i)

(* A get writes the value it found to the buffer of the caller, a list each   *)
(* entry to the buffer its pointer in the table names.                        *)
LEMMA WrittenIs ==
  ASSUME Typed, NEW c \in Locals_, Sound(c, "answered", memory)
  PROVE  \E n : WritesOf(c, Written(c), n)
<1> DEFINE w == Written(c)
<1>1. /\ c.data \in Seq(Key \X Content) /\ Len(c.data) \in Nat /\ DOMAIN c.data = 1..Len(c.data)
      /\ \A i \in 1..Len(c.data) : c.data[i][1] \in Key /\ c.data[i][2] \in Content
  <2>1. c.data \in Seq(Key \X Content)
    BY DEF Locals_
  <2>2. \A i \in 1..Len(c.data) : c.data[i] \in Key \X Content
    BY <2>1, ElementOfSeq
  <2> QED
    BY <2>1, <2>2, LenProperties
<1>2. c.data # << >> => 1 \in 1..Len(c.data)
  BY <1>1, EmptySeq
<1>3. CASE c.op \in Gets
  <2>1. c.op \notin Lists
    BY <1>3 DEF Gets, Lists
  <2>2. CASE Found(c)
    <3>1. w = << <<c.buffer, c.data[1][2]>> >> /\ c.data # << >>
      BY <1>3, <2>2 DEF Written, Found
    <3>2. c.buffer \in Buffer /\ c.data[1][2] \in Content
      BY <1>1, <1>2, <1>3, <3>1 DEF Sound, Settled
    <3>3. /\ DOMAIN w = 1..1 /\ w[1][1] = c.buffer /\ w[1][2] = c.data[1][2]
          /\ w \in Seq(Buffer \X Content) /\ Len(w) = 1
      BY <3>1, <3>2
    <3>4. \A i \in 1..1 : i = 1
      OBVIOUS
    <3>5. Target(c, 1) = c.buffer /\ Entry(c, 1) = c.data[1][2] /\ 1 <= Len(c.data)
      BY <1>1, <1>2, <1>3, <3>1 DEF Target, Entry, Gets
    <3> HIDE DEF w
    <3>6. WritesOf(c, w, 1)
      BY <2>1, <2>2, <3>1, <3>2, <3>3, <3>4, <3>5 DEF WritesOf
    <3> QED
      BY <3>6 DEF w
  <2>3. CASE ~Found(c)
    <3>1. w = << >> /\ (c.data = << >> \/ c.data[1][2] = NoBytes)
      BY <1>3, <2>3 DEF Written, Found
    <3>2. /\ DOMAIN w = 1..0 /\ \A i \in 1..0 : FALSE
          /\ w \in Seq(Buffer \X Content) /\ Len(w) = 0 /\ 0 <= Len(c.data)
      BY <1>1, <3>1
    <3> HIDE DEF w
    <3>3. WritesOf(c, w, 0)
      BY <2>1, <2>3, <3>1, <3>2 DEF WritesOf
    <3> QED
      BY <3>3 DEF w
  <2> QED
    BY <2>2, <2>3
<1>4. CASE c.op \in Lists
  <2>1. c.op \notin Gets
    BY <1>4 DEF Gets, Lists
  <2>2. w = [i \in 1..Len(c.data) |-> <<table[i], Entry(c, i)>>]
    BY <1>1, <1>4 DEF Written, Pointer, Entry, Gets, Lists
  <2>3. Len(c.data) <= Limit /\ Limit \in Nat
    BY <1>4, Constants DEF Sound, Settled, LimitOf
  <2>4. \A i \in 1..Len(c.data) : table[i] \in Buffer
    <3>1. \A i \in 1..Len(c.data) : i \in 1..Limit
      BY <1>1, <2>3
    <3> QED
      BY <3>1 DEF Typed
  <2>5. \A i \in 1..Len(c.data) : Entry(c, i) \in Content
    BY <1>1 DEF Entry, Sound, Settled, Content
  <2>6. /\ DOMAIN w = 1..Len(c.data)
        /\ \A i \in 1..Len(c.data) : w[i][1] = table[i] /\ w[i][2] = Entry(c, i)
    BY <2>2
  <2>7. w \in Seq(Buffer \X Content) /\ Len(w) = Len(c.data)
    <3> DEFINE f == [i \in 1..Len(c.data) |-> <<table[i], Entry(c, i)>>]
    <3>1. f \in [1..Len(c.data) -> Buffer \X Content]
      BY <2>4, <2>5
    <3> HIDE DEF f
    <3>2. f \in Seq(Buffer \X Content) /\ Len(f) = Len(c.data)
      BY <1>1, <3>1, SMTT(30)
    <3> QED
      BY <2>2, <3>2 DEF f
  <2>8. \A i \in 1..Len(c.data) : Target(c, i) = table[i]
    BY <2>1 DEF Target
  <2> HIDE DEF w
  <2>9. WritesOf(c, w, Len(c.data))
    BY <1>1, <2>1, <2>4, <2>5, <2>6, <2>7, <2>8, SMTT(30) DEF WritesOf
  <2> QED
    BY <2>9 DEF w
<1>5. CASE c.op \notin Gets \union Lists
  <2>1. w = << >>
    BY <1>5 DEF Written, Lists
  <2>2. /\ DOMAIN w = 1..0 /\ \A i \in 1..0 : FALSE
        /\ w \in Seq(Buffer \X Content) /\ Len(w) = 0 /\ 0 <= Len(c.data)
    BY <1>1, <2>1
  <2> HIDE DEF w
  <2>3. WritesOf(c, w, 0)
    BY <1>5, <2>2 DEF WritesOf
  <2> QED
    BY <2>3 DEF w
<1> QED
  BY <1>3, <1>4, <1>5

(* Of w the writes before the first that has no room are made.                *)
LEMMA FittingIs ==
  ASSUME NEW w \in Seq(Buffer \X Content)
  PROVE  \E n \in 0..Len(w) :
           /\ DOMAIN Fitting(w) = 1..n /\ \A i \in 1..n : Fitting(w)[i] = w[i]
           /\ Fitting(w) # w => n + 1 \in 1..Len(w) /\ ~Fits(w[n + 1][1], w[n + 1][2])
<1> DEFINE bad == {i \in DOMAIN w : ~Fits(w[i][1], w[i][2])}
<1>1. Len(w) \in Nat /\ DOMAIN w = 1..Len(w)
  BY LenProperties
<1>2. CASE bad = {}
  <2>1. Fitting(w) = w
    BY <1>2 DEF Fitting
  <2>2. Len(w) \in 0..Len(w)
    BY <1>1
  <2> HIDE DEF bad
  <2> QED
    BY <1>1, <2>1, <2>2
<1>3. CASE bad # {}
  <2>1. bad \subseteq Nat
    BY <1>1
  <2> DEFINE m == Min(bad)
  <2>2. m \in bad
    <3> HIDE DEF bad
    <3> QED
      BY <1>3, <2>1, MinIsLeast
  <2>3. Fitting(w) = SubSeq(w, 1, m - 1)
    BY <1>3 DEF Fitting
  <2>4. m \in 1..Len(w) /\ ~Fits(w[m][1], w[m][2])
    BY <1>1, <2>2
  <2> HIDE DEF m, bad
  <2>5. /\ m - 1 \in 0..Len(w) /\ (m - 1) + 1 = m /\ m - 1 \in Int /\ 1 <= 1
        /\ m - 1 <= Len(w) /\ (m - 1) - 1 + 1 = m - 1
    BY <1>1, <2>4
  <2>6. /\ Len(Fitting(w)) = m - 1 /\ DOMAIN Fitting(w) = 1..m - 1
        /\ \A i \in 1..m - 1 : Fitting(w)[i] = w[i]
    <3>1. SubSeq(w, 1, m - 1) = [i \in 1..m - 1 |-> w[i]]
      BY <1>1, <2>4
    <3> QED
      BY <2>3, <2>5, <3>1
  <2> QED
    BY <2>4, <2>5, <2>6
<1> QED
  BY <1>2, <1>3

(* A buffer keeps what it held, or holds the last bytes written to it.        *)
LastOf(w, b, i) ==
  i \in WritesTo(w, b) /\ \A j \in WritesTo(w, b) : j <= i

(* Writes are made in order, so the last one to a buffer stays.               *)
LEMMA WriteIs ==
  ASSUME Typed, NEW w, NEW n \in Nat, DOMAIN w = 1..n, NEW p \in Act, Write(p, w),
         NEW b \in Buffer
  PROVE  \/ WritesTo(w, b) = {} /\ cell'[b] = cell[b] /\ owner'[b] = owner[b]
         \/ owner'[b] = p /\ \E i \in 1..n : LastOf(w, b, i) /\ cell'[b] = w[i][2]
<1>1. WritesTo(w, b) \subseteq 1..n
  BY DEF WritesTo
<1>2. CASE WritesTo(w, b) = {}
  BY <1>2 DEF Write
<1>3. CASE WritesTo(w, b) # {}
  <2> DEFINE i == Max(WritesTo(w, b))
  <2>1. i \in WritesTo(w, b) /\ \A j \in WritesTo(w, b) : i >= j
    BY <1>1, <1>3, MaxIsGreatest
  <2>2. \A j \in WritesTo(w, b) : j \in Nat
    BY <1>1
  <2>3. cell'[b] = w[i][2] /\ owner'[b] = p
    BY <1>3 DEF Write
  <2> HIDE DEF i
  <2>4. i \in 1..n /\ LastOf(w, b, i)
    BY <1>1, <2>1, <2>2 DEF LastOf
  <2> QED
    BY <2>3, <2>4
<1> QED
  BY <1>2, <1>3

(* What handlers write are contents.                                          *)
LEMMA WriteTyped ==
  ASSUME Typed, NEW w, NEW n \in Nat, DOMAIN w = 1..n, \A i \in 1..n : w[i][2] \in Content,
         NEW p \in Act, Write(p, w)
  PROVE  cell' \in [Buffer -> Content] /\ owner' \in [Buffer -> Act \union {"guest"}]
<1>1. cell \in [Buffer -> Content] /\ owner \in [Buffer -> Act \union {"guest"}]
  BY DEF Typed
<1>2. \A b \in Buffer : cell'[b] \in Content /\ owner'[b] \in Act \union {"guest"}
  BY <1>1, WriteIs
<1>3. /\ cell' = [b \in Buffer |-> cell'[b]] /\ owner' = [b \in Buffer |-> owner'[b]]
  BY DEF Write
<1> QED
  BY <1>2, <1>3

(* A get or a list that has written what it found.                            *)
LEMMA WrittenKept ==
  ASSUME Typed, NEW p \in Act, NEW c \in Locals_, Sound(c, "answered", memory),
         Write(p, Written(c)),
         NEW d \in Locals_, d.op = c.op, d.keys = c.keys, d.buffer = c.buffer, d.view = c.view,
         d.data = c.data, d.moved = c.moved, d.result = Result(c)
  PROVE  Kept(p, d, "resuming", memory, cell', owner', table)
<1> DEFINE w == Written(c)
<1>1. PICK n : WritesOf(c, w, n)
  BY WrittenIs
<1>2. n \in Nat /\ DOMAIN w = 1..n
  BY <1>1 DEF WritesOf
<1> HIDE DEF w
<1>3. Sound(d, "resuming", memory)
  <2>1. LimitOf(d) = LimitOf(c)
    BY DEF LimitOf
  <2> QED
    BY <2>1 DEF Sound, Settled
<1>4. Answered(p, d, "resuming", cell', owner')
  <2> SUFFICES ASSUME c.op \in Gets
               PROVE  Answered(p, d, "resuming", cell', owner')
    BY DEF Answered
  <2>1. CASE Found(c)
    <3>1. /\ d.result # 0 /\ c.data # << >> /\ n = 1
          /\ w[1][1] = c.buffer /\ w[1][2] = c.data[1][2] /\ c.buffer \in Buffer
      BY <1>1, <2>1 DEF WritesOf, Result
    <3>2. ASSUME c.data[1][2] # NoBytes
          PROVE  cell'[c.buffer] = c.data[1][2]
      <4>1. 1 \in WritesTo(w, c.buffer) /\ \A i \in 1..1 : i = 1
        BY <1>2, <3>1, <3>2 DEF WritesTo
      <4>2. PICK i \in 1..n : LastOf(w, c.buffer, i) /\ cell'[c.buffer] = w[i][2]
        <5>1. Write(p, w) /\ WritesTo(w, c.buffer) # {} /\ c.buffer \in Buffer
          BY <3>1, <4>1 DEF w
        <5> QED
          BY <1>2, <5>1, WriteIs
      <4> QED
        BY <3>1, <4>1, <4>2
    <3> QED
      BY <3>1, <3>2 DEF Answered
  <2>2. CASE ~Found(c)
    BY <1>1, <2>2 DEF WritesOf, Result, Answered
  <2> QED
    BY <2>1, <2>2
<1>5. Listed(p, d, "resuming", cell', owner', table)
  <2> SUFFICES ASSUME c.op \in Lists
               PROVE  Listed(p, d, "resuming", cell', owner', table)
    BY DEF Listed
  <2>1. d.result = Len(c.data) /\ n = Len(c.data) /\ \A i : Entry(d, i) = Entry(c, i)
    BY <1>1 DEF WritesOf, Result, Lists, Gets, Entry
  <2>2. ASSUME NEW i \in 1..n, Entry(c, i) # NoBytes,
               \A j \in 1..n : ~(j > i /\ table[j] = table[i])
        PROVE  cell'[table[i]] = Entry(c, i)
    <3>1. /\ table[i] \in Buffer
          /\ \A j \in 1..n : w[j][1] = table[j] /\ w[j][2] = Entry(c, j)
      BY <1>1 DEF WritesOf
    <3>2. i \in WritesTo(w, table[i])
      BY <1>2, <2>2, <3>1 DEF WritesTo
    <3>3. PICK j \in 1..n : LastOf(w, table[i], j) /\ cell'[table[i]] = w[j][2]
      BY <1>2, <3>1, <3>2, WriteIs DEF w
    <3>4. i <= j /\ table[j] = table[i]
      BY <1>2, <3>1, <3>2, <3>3 DEF LastOf, WritesTo
    <3>5. i = j
      BY <1>2, <2>2, <3>4
    <3> QED
      BY <3>1, <3>3, <3>5
  <2> QED
    BY <2>1, <2>2 DEF Listed
<1> QED
  BY <1>3, <1>4, <1>5 DEF Kept

(* The rest of a handler fails, awaits the text of a response, or leaves its  *)
(* answer in place while the others keep theirs.                              *)
LEMMA ContinueKeeps ==
  ASSUME IInv, NEW p \in Act, continue(p)
  PROVE  IInv'
<1> DEFINE c == call[p]
<1>1. /\ Typed /\ state \in [Act -> State] /\ call \in [Act -> Locals_]
      /\ Runs(p, "answered") /\ "answered" \in Settled
  BY DEF continue, IInv, Typed, Settled
<1>2. /\ c \in Locals_ /\ Sound(c, "answered", memory)
      /\ \A x \in State \ Settled : Due(Tail(jobs), [state EXCEPT ![p] = x])
  BY <1>1, RunsIs DEF Kept
<1>3. CASE Fails(p)
  BY <1>1, <1>3, FailsKeeps
<1>4. CASE /\ c.op = "DurableObject_Stub_fetch"
           /\ call' = [call EXCEPT ![p].op = "DurableObject_Stub_fetch.text"]
           /\ Become(p, "asked") /\ jobs' = Tail(jobs) /\ UNCHANGED <<store, guest>>
  <2> DEFINE d == [c EXCEPT !.op = "DurableObject_Stub_fetch.text"]
  <2>1. "asked" \in State \ Settled
    BY DEF State, Settled
  <2>2. Due(jobs', state')
    BY <1>2, <1>4, <2>1 DEF Become
  <2> HIDE DEF c
  <2>3. /\ d \in Locals_ /\ d.op = "DurableObject_Stub_fetch.text" /\ d.keys = c.keys
        /\ d.buffer = c.buffer /\ d.view = c.view /\ d.data = c.data
    BY <1>2 DEF Locals_, Others
  <2>4. call' = [call EXCEPT ![p] = d]
    BY <1>4 DEF c
  <2> HIDE DEF d
  <2>5. LimitOf(d) = LimitOf(c)
    BY <1>4, <2>3 DEF LimitOf, Lists
  <2>6. Kept(p, d, "asked", memory, cell, owner, table)
    BY <1>2, <2>3, <2>5
    DEF Kept, Sound, Answered, Listed, Settled, Gets, Puts, Others
  <2> QED
    BY <1>1, <1>4, <2>1, <2>2, <2>3, <2>4, <2>6, Moves DEF Become, Typed
<1>5. CASE /\ Write(p, Fitting(Written(c)))
           /\ \/ /\ Become(p, "failed") /\ jobs' = Tail(jobs) /\ UNCHANGED call
              \/ /\ Fitting(Written(c)) = Written(c)
                 /\ call' = [call EXCEPT ![p].result = Result(c)]
                 /\ Become(p, "resuming") /\ jobs' = Append(Tail(jobs), p)
           /\ UNCHANGED <<store, table, memory, touched>>
  <2>0. PICK n : WritesOf(c, Written(c), n)
    BY <1>1, <1>2, WrittenIs
  <2>1. PICK k \in 0..n : /\ DOMAIN Fitting(Written(c)) = 1..k
                          /\ \A i \in 1..k : Fitting(Written(c))[i] = Written(c)[i]
    BY <2>0, FittingIs DEF WritesOf
  <2>2. k \in Nat /\ \A i \in 1..k : Fitting(Written(c))[i][2] \in Content
    BY <2>0, <2>1 DEF WritesOf
  <2>3. cell' \in [Buffer -> Content] /\ owner' \in [Buffer -> Act \union {"guest"}]
    BY <1>1, <1>5, <2>1, <2>2, WriteTyped
  <2>4. \A b \in Buffer : (cell'[b] = cell[b] /\ owner'[b] = owner[b]) \/ owner'[b] = p
    BY <1>1, <1>5, <2>1, <2>2, WriteIs
  <2>5. memory \in Nat
    <3>1. MaxTouch \in Nat /\ touched \in 0..MaxTouch /\ memory \in 0..touched
      BY <1>1, Constants DEF Typed
    <3> QED
      BY <3>1
  <2>6. \A q \in Act : q # p => call'[q] = call[q] /\ state'[q] = state[q]
    BY <1>1, <1>5 DEF Become
  <2>7. ASSUME NEW q \in Act, q # p
        PROVE  Kept(q, call'[q], state'[q], memory', cell', owner', table')
    BY <1>5, <2>4, <2>5, <2>6, <2>7, OthersKept
  <2>8. CASE Become(p, "failed") /\ jobs' = Tail(jobs) /\ UNCHANGED call
    <3>1. "failed" \in State \ (Settled \union {"asked"})
      BY DEF State, Settled
    <3>2. state' \in [Act -> State] /\ state'[p] = "failed" /\ Due(jobs', state')
      BY <1>1, <1>2, <2>8, <3>1 DEF Become
    <3>3. Typed'
      BY <1>1, <1>5, <2>3, <2>8, <3>2 DEF Typed
    <3>4. Kept(p, call'[p], state'[p], memory', cell', owner', table')
      BY <3>1, <3>2, NotWaiting
    <3> QED
      BY <2>7, <3>2, <3>3, <3>4 DEF IInv
  <2>9. CASE /\ Fitting(Written(c)) = Written(c)
             /\ call' = [call EXCEPT ![p].result = Result(c)]
             /\ Become(p, "resuming") /\ jobs' = Append(Tail(jobs), p)
    <3> DEFINE d == [c EXCEPT !.result = Result(c)]
    <3>1. call' = [call EXCEPT ![p] = d]
      BY <2>9
    <3>2. Result(c) \in Nat
      <4>1. c.data \in Seq(Key \X Content)
        BY <1>2 DEF Locals_
      <4>2. Len(c.data) \in Nat
        BY <4>1, LenProperties
      <4> HIDE DEF c
      <4> QED
        BY <4>2 DEF Result
    <3> HIDE DEF c
    <3>3. /\ d \in Locals_ /\ d.op = c.op /\ d.keys = c.keys /\ d.buffer = c.buffer
          /\ d.view = c.view /\ d.data = c.data /\ d.moved = c.moved /\ d.result = Result(c)
      BY <1>2, <3>2 DEF Locals_
    <3> HIDE DEF d
    <3>4. Kept(p, d, "resuming", memory, cell', owner', table)
      <4>1. Write(p, Written(c))
        BY <1>5, <2>9
      <4> QED
        BY <1>1, <1>2, <3>3, <4>1, WrittenKept
    <3>5. /\ call' \in [Act -> Locals_] /\ state' \in [Act -> State]
          /\ call'[p] = d /\ state'[p] = "resuming"
      BY <1>1, <2>9, <3>1, <3>3 DEF Become, State
    <3>6. Typed'
      BY <1>1, <1>5, <2>3, <3>5 DEF Typed
    <3>7. Due(jobs', state')
      <4> DEFINE st == [state EXCEPT ![p] = "running"]
      <4>1. /\ "running" \in State \ Settled /\ "resuming" \in Settled
            /\ st \in [Act -> State] /\ st[p] = "running"
        BY <1>1 DEF State, Settled
      <4>2. Due(Tail(jobs), st)
        BY <1>2, <4>1
      <4>3. state' = [st EXCEPT ![p] = "resuming"]
        BY <1>1, <2>9 DEF Become
      <4> HIDE DEF st
      <4> QED
        BY <2>9, <4>1, <4>2, <4>3, DueGrows
    <3>8. Kept(p, call'[p], state'[p], memory', cell', owner', table')
      BY <1>5, <3>4, <3>5
    <3> QED
      BY <2>7, <3>6, <3>7, <3>8 DEF IInv
  <2> QED
    BY <1>5, <2>8, <2>9
<1> QED
  BY <1>3, <1>4, <1>5 DEF continue

(* The guest changes its memory: a buffer,                                    *)
LEMMA FillKeeps ==
  ASSUME IInv, NEW p \in Act, NEW b \in Buffer, NEW v \in Content, Fill(p, b, v)
  PROVE  IInv'
<1>1. /\ touched' = touched + 1 /\ touched < MaxTouch
      /\ cell' = [cell EXCEPT ![b] = v] /\ owner' = [owner EXCEPT ![b] = "guest"]
      /\ UNCHANGED <<store, table, memory, state, call, jobs>>
  BY DEF Fill, Touches
<1>2. /\ MaxTouch \in Nat /\ touched \in 0..MaxTouch /\ memory \in 0..touched
      /\ "guest" \notin Act
  BY Constants DEF IInv, Typed
<1>3. /\ touched' \in 0..MaxTouch /\ memory \in 0..touched' /\ memory \in Nat
      /\ memory <= memory
  BY <1>1, <1>2
<1>4. /\ cell' \in [Buffer -> Content] /\ owner' \in [Buffer -> Act \union {"guest"}]
      /\ \A x \in Buffer : (cell'[x] = cell[x] /\ owner'[x] = owner[x]) \/ owner'[x] = "guest"
  BY <1>1 DEF IInv, Typed
<1>5. Typed'
  BY <1>1, <1>3, <1>4 DEF IInv, Typed
<1>6. ASSUME NEW q \in Act
      PROVE  Kept(q, call'[q], state'[q], memory', cell', owner', table')
  BY <1>1, <1>2, <1>3, <1>4, OthersKept
<1> QED
  BY <1>1, <1>5, <1>6 DEF IInv

(* an id that has no room, which throws,                                      *)
LEMMA WriteIdKeeps ==
  ASSUME IInv, NEW p \in Act, write_id(p)
  PROVE  IInv'
<1>1. CASE \E v \in Content : Fill(p, Own[p], v)
  BY <1>1, Constants, FillKeeps
<1>2. CASE state[p] = "running" /\ Become(p, "failed") /\ UNCHANGED <<store, guest, call, jobs>>
  <2>1. "failed" \in State \ (Settled \union {"asked"}) /\ "running" \notin Settled
    BY DEF State, Settled
  <2>2. state \in [Act -> State] /\ store \in Stores /\ Due(jobs, state)
    BY DEF IInv, Typed
  <2>3. Due(jobs', state')
    BY <1>2, <2>1, <2>2, DueStays DEF Become
  <2>4. Kept(p, call[p], "failed", memory, cell, owner, table)
    BY <2>1, NotWaiting
  <2> QED
    BY <1>2, <2>1, <2>2, <2>3, <2>4, Becomes DEF Become
<1> QED
  BY <1>1, <1>2 DEF write_id, Content

(* a pointer,                                                                 *)
LEMMA PointKeeps ==
  ASSUME IInv, NEW p \in Act, point(p)
  PROVE  IInv'
<1>1. /\ touched' = touched + 1 /\ touched < MaxTouch
      /\ UNCHANGED <<store, cell, memory, owner, state, jobs>>
      /\ call' = [q \in Act |-> [call[q] EXCEPT !.moved = @ \/ call[q] # NoCall]]
      /\ \E i \in 1..Limit, b \in Buffer : table' = [table EXCEPT ![i] = b]
  BY DEF point, Touches
<1>2. MaxTouch \in Nat /\ touched \in 0..MaxTouch /\ memory \in 0..touched
  BY Constants DEF IInv, Typed
<1>3. touched' \in 0..MaxTouch /\ memory \in 0..touched'
  BY <1>1, <1>2
<1>4. table' \in [1..Limit -> Buffer]
  BY <1>1 DEF IInv, Typed
<1>5. ASSUME NEW q \in Act
      PROVE  /\ call'[q] \in Locals_
             /\ Kept(q, call'[q], state'[q], memory', cell', owner', table')
  <2> DEFINE c == call[q]
             m == c.moved \/ c # NoCall
             d == [c EXCEPT !.moved = m]
  <2>1. c \in Locals_ /\ Kept(q, c, state[q], memory, cell, owner, table)
    BY DEF IInv, Typed
  <2>2. call'[q] = d /\ m \in BOOLEAN
    BY <1>1
  <2> HIDE DEF c, m
  <2>3. /\ d \in Locals_ /\ d.op = c.op /\ d.keys = c.keys /\ d.buffer = c.buffer
        /\ d.view = c.view /\ d.data = c.data /\ d.result = c.result /\ d.moved = m
    BY <2>1, <2>2 DEF Locals_
  <2> HIDE DEF d
  <2>4. Sound(d, state[q], memory)
    <3>1. LimitOf(d) = LimitOf(c)
      BY <2>3 DEF LimitOf
    <3> QED
      BY <2>1, <2>3, <3>1 DEF Kept, Sound
  <2>5. Answered(q, d, state[q], cell, owner)
    BY <2>1, <2>3 DEF Kept, Answered
  <2>6. Listed(q, d, state[q], cell, owner, table')
    <3>1. ASSUME state[q] = "resuming"
          PROVE  d.moved
      <4>1. c # NoCall
        BY <2>1, <3>1 DEF Kept, Sound, Settled, NoCall
      <4>2. m
        BY <4>1 DEF m
      <4> QED
        BY <2>3, <4>2
    <3> QED
      BY <3>1 DEF Listed
  <2> QED
    BY <1>1, <2>2, <2>3, <2>4, <2>5, <2>6 DEF Kept
<1>6. call' \in [Act -> Locals_]
  <2>1. call' = [q \in Act |-> call'[q]]
    BY <1>1
  <2> QED
    BY <1>5, <2>1
<1>7. Typed'
  BY <1>1, <1>3, <1>4, <1>6 DEF IInv, Typed
<1> QED
  BY <1>1, <1>5, <1>7 DEF IInv

(* or the size.                                                               *)
LEMMA GrowKeeps ==
  ASSUME IInv, NEW p \in Act, memory_grow(p)
  PROVE  IInv'
<1>1. /\ touched' = touched + 1 /\ touched < MaxTouch /\ memory' = memory + 1
      /\ UNCHANGED <<store, cell, table, owner, state, call, jobs>>
  BY DEF memory_grow, Touches
<1>2. MaxTouch \in Nat /\ touched \in 0..MaxTouch /\ memory \in 0..touched
  BY Constants DEF IInv, Typed
<1>3. touched' \in 0..MaxTouch /\ memory' \in 0..touched' /\ memory' \in Nat /\ memory <= memory'
  BY <1>1, <1>2
<1>4. Typed'
  BY <1>1, <1>3 DEF IInv, Typed
<1>5. ASSUME NEW q \in Act
      PROVE  Kept(q, call'[q], state'[q], memory', cell', owner', table')
  BY <1>1, <1>3, OthersKept
<1> QED
  BY <1>1, <1>4, <1>5 DEF IInv

--------------------------------------------------------------------------------
(* The theorems.                                                              *)

(* Nobody waits at first.                                                     *)
LEMMA InitKeeps == Init => IInv
<1> SUFFICES ASSUME Init
             PROVE  IInv
  OBVIOUS
<1>1. /\ NoBytes \in Content /\ MaxTouch \in Nat /\ FirstTable \in [1..Limit -> Buffer]
      /\ InitialStores \subseteq [Key -> Value \union {None}]
  BY Constants
<1>2. 0 \in 0..MaxTouch /\ 0 \in 0..0
  BY <1>1
<1>3. store \in Stores
  <2>1. PICK held \in InitialStores : store = [k \in Key |-> {held[k]}]
    BY DEF Init
  <2>2. \A k \in Key : held[k] \in Content \union {None}
    BY <1>1, <2>1 DEF Content
  <2> QED
    BY <2>1, <2>2 DEF Stores
<1>4. NoCall \in Locals_
  BY <1>1, <1>2, EmptySeq DEF NoCall, Locals_
<1>5. Typed
  BY <1>1, <1>2, <1>3, <1>4 DEF Init, Typed, State
<1>6. Due(jobs, state)
  <2>1. jobs = << >> /\ jobs \in Seq(Act) /\ \A i \in 1..Len(jobs) : FALSE
    BY EmptySeq DEF Init
  <2> QED
    BY <2>1 DEF Due, Init, Settled
<1>7. ASSUME NEW q \in Act
      PROVE  Kept(q, call[q], state[q], memory, cell, owner, table)
  <2>1. state[q] \notin Settled \union {"asked"}
    BY DEF Init, Settled
  <2> QED
    BY <2>1, NotWaiting
<1> QED
  BY <1>5, <1>6, <1>7 DEF IInv

(* No step breaks the invariant.                                              *)
LEMMA NextKeeps == IInv /\ [Next]_vars => IInv'
<1> SUFFICES ASSUME IInv, [Next]_vars
             PROVE  IInv'
  OBVIOUS
<1>1. CASE UNCHANGED vars
  BY <1>1 DEF vars, guest, IInv, Typed
<1>2. ASSUME NEW p \in Act, run(p) \/ return(p)
      PROVE  IInv'
  BY <1>2, RunKeeps
<1>3. ASSUME NEW p \in Act, point(p) \/ memory_grow(p)
      PROVE  IInv'
  BY <1>3, PointKeeps, GrowKeeps
<1>4. ASSUME NEW p \in Act, NEW b \in Buffer, fill(p, b)
      PROVE  IInv'
  BY <1>4, FillKeeps DEF fill, Content
<1>5. ASSUME NEW p \in Act, Worker(p) \/ DurableObject(p)
      PROVE  IInv'
  <2>1. write_id(p) => IInv'
    BY WriteIdKeeps
  <2>2. (\E op, keys, b, s : CallsWith(p, op, keys, b, s)) => IInv'
    BY CallsKeep
  <2> QED
    BY <1>5, <2>1, <2>2, ImportsCall
<1>6. ASSUME NEW p \in Act, resolve(p) \/ reject(p)
      PROVE  IInv'
  BY <1>6, ResolveKeeps, RejectKeeps
<1>7. ASSUME NEW p \in Act, Microtask(p)
      PROVE  IInv'
  BY <1>7, ContinueKeeps, FailsKeeps, ResumeKeeps DEF Microtask, rejected, Settled
<1> QED
  BY <1>1, <1>2, <1>3, <1>4, <1>5, <1>6, <1>7 DEF Next, Guest

(* Worker.ts 42-150, DurableObject.ts 25-49: handlers suspended at an await   *)
(* keep what they were called with, whatever other activations do to the      *)
(* memory meanwhile.                                                          *)
THEOREM StorageInvariance == Spec => []IInv
BY InitKeeps, NextKeeps, PTL DEF Spec

(* Worker.ts 42-150, DurableObject.ts 25-49: the variables have their types,  *)
(* and the reaction of a promise that has settled is queued exactly once.     *)
THEOREM StorageTypes == Spec => []TypeOK
<1>1. IInv => TypeOK
  <2> SUFFICES ASSUME IInv
               PROVE  TypeOK
    OBVIOUS
  <2>1. jobs \in Seq(Act) /\ IsInjective(jobs) /\ ToSet(jobs) = {p \in Act : state[p] \in Settled}
    BY DueIs DEF IInv
  <2>2. memory \in 0..MaxTouch
    <3>1. MaxTouch \in Nat /\ touched \in 0..MaxTouch /\ memory \in 0..touched
      BY Constants DEF IInv, Typed
    <3> QED
      BY <3>1
  <2> QED
    BY <2>1, <2>2 DEF IInv, Typed, TypeOK, Settled, Stores
<1> QED
  BY <1>1, StorageInvariance, PTL

(* Worker.ts 49-67, DurableObject.ts 29-33: a get that returns 1 has left the *)
(* bytes that were stored in the buffer of its caller, where they stay until  *)
(* someone else writes it; for any number of activations, keys and buffers.   *)
THEOREM AnswersInPlace == Spec => []AnswerInPlace
<1>1. IInv => AnswerInPlace
  BY DEF IInv, Kept, Answered, AnswerInPlace
<1> QED
  BY <1>1, StorageInvariance, PTL

(* Worker.ts 97-102, DurableObject.ts 40-44: a list has left the last entry   *)
(* meant for each buffer in it, for tables of any length, with pointers that  *)
(* repeat.                                                                    *)
THEOREM ListsInPlace == Spec => []ListedInPlace
<1>1. IInv => ListedInPlace
  <2> SUFFICES ASSUME IInv, NEW p \in Act, state[p] = "resuming", call[p].op \in Lists,
                      ~call[p].moved
               PROVE  /\ call[p].result = Len(call[p].data)
                      /\ \A i \in DOMAIN call[p].data :
                           \/ \E j \in DOMAIN call[p].data : j > i /\ table[j] = table[i]
                           \/ Entry(call[p], i) = NoBytes \/ owner[table[i]] # p
                           \/ cell[table[i]] = Entry(call[p], i)
    BY DEF ListedInPlace
  <2>1. call[p].data \in Seq(Key \X Content)
    BY DEF IInv, Typed, Locals_
  <2>2. DOMAIN call[p].data = 1..Len(call[p].data)
    BY <2>1, LenProperties
  <2> QED
    BY <2>2 DEF IInv, Kept, Listed
<1> QED
  BY <1>1, StorageInvariance, PTL

(* A handler whose view is detached has written nothing,                      *)
LEMMA DetachedLeaves ==
  ASSUME IInv, NEW p \in Act, state[p] = "answered", Detached(call[p]), UNCHANGED cell
  PROVE  \E n \in 0..Len(call[p].data) - 1 : Leaves(call[p], n)
<1> DEFINE c == call[p]
<1>1. c.view \in Nat /\ c.view <= memory /\ memory \in Nat /\ c.data \in Seq(Key \X Content)
  <2>1. /\ MaxTouch \in Nat /\ touched \in 0..MaxTouch /\ memory \in 0..touched
        /\ c \in Locals_
    BY Constants DEF IInv, Typed
  <2>2. c.view \in 0..MaxTouch /\ c.data \in Seq(Key \X Content)
    BY <2>1 DEF Locals_
  <2>3. c.view <= memory
    BY DEF IInv, Kept, Sound, Settled
  <2> QED
    BY <2>1, <2>2, <2>3
<1>2. c.data # << >> /\ memory > 0 /\ c.op \in {"State_Storage_get", "State_Storage_list"}
  BY <1>1 DEF Detached, HoldsView
<1> HIDE DEF c
<1>3. 0 \in 0..Len(c.data) - 1
  <2>1. Len(c.data) \in Nat /\ Len(c.data) # 0
    BY <1>1, <1>2, LenProperties, EmptySeq
  <2> QED
    BY <2>1
<1>4. Leaves(c, 0)
  <2>1. \A i \in 1..0 : FALSE
    OBVIOUS
  <2> QED
    BY <1>2, <2>1 DEF Leaves
<1> QED
  BY <1>3, <1>4 DEF c

(* and one that finds no room for an entry has written those before it.       *)
LEMMA FullLeaves ==
  ASSUME IInv, NEW p \in Act, state[p] = "answered", Write(p, Fitting(Written(call[p]))),
         Fitting(Written(call[p])) # Written(call[p])
  PROVE  \E n \in 0..Len(call[p].data) - 1 : Leaves(call[p], n)
<1> DEFINE c == call[p]
           w == Written(c)
           f == Fitting(w)
<1>1. Typed /\ c \in Locals_ /\ Sound(c, "answered", memory)
  BY DEF IInv, Typed, Kept
<1>2. PICK m : WritesOf(c, w, m)
  BY <1>1, WrittenIs
<1>3. w \in Seq(Buffer \X Content) /\ Len(w) = m /\ m \in Nat /\ m <= Len(c.data)
  BY <1>2 DEF WritesOf
<1>4. PICK n \in 0..m : /\ DOMAIN f = 1..n /\ \A i \in 1..n : f[i] = w[i]
                        /\ n + 1 \in 1..m /\ ~Fits(w[n + 1][1], w[n + 1][2])
  BY <1>3, FittingIs
<1>5. Len(c.data) \in Nat
  <2>1. c.data \in Seq(Key \X Content)
    BY <1>1 DEF Locals_
  <2> QED
    BY <2>1, LenProperties
<1>6. n \in Nat /\ n \in 0..Len(c.data) - 1 /\ \A i \in 1..n : i \in 1..m
  BY <1>3, <1>4, <1>5
<1>7. /\ ~Fits(Target(c, n + 1), Entry(c, n + 1))
      /\ \A i \in 1..n : f[i][1] = Target(c, i) /\ f[i][2] = Entry(c, i)
  BY <1>2, <1>4, <1>6 DEF WritesOf
<1>8. Write(p, f)
  OBVIOUS
<1> HIDE DEF c, w, f
<1>9. ASSUME NEW b \in Buffer
      PROVE  \/ cell'[b] = cell[b] /\ \A i \in 1..n : ~(Target(c, i) = b /\ Entry(c, i) # NoBytes)
             \/ \E i \in 1..n : /\ Target(c, i) = b /\ Entry(c, i) # NoBytes
                                /\ cell'[b] = Entry(c, i)
                                /\ \A j \in i + 1..n : ~(Target(c, j) = b /\ Entry(c, j) # NoBytes)
  <2>1. \A i \in 1..n : i \in WritesTo(f, b) <=> (Target(c, i) = b /\ Entry(c, i) # NoBytes)
    BY <1>4, <1>7 DEF WritesTo
  <2>2. CASE WritesTo(f, b) = {} /\ cell'[b] = cell[b]
    BY <2>1, <2>2
  <2>3. CASE \E i \in 1..n : LastOf(f, b, i) /\ cell'[b] = f[i][2]
    <3>1. PICK i \in 1..n : LastOf(f, b, i) /\ cell'[b] = f[i][2]
      BY <2>3
    <3>2. i \in WritesTo(f, b) /\ cell'[b] = Entry(c, i)
      BY <1>7, <3>1 DEF LastOf
    <3>3. \A j \in i + 1..n : j \in 1..n /\ ~(j <= i)
      BY <1>6
    <3>4. \A j \in i + 1..n : j \notin WritesTo(f, b)
      BY <3>1, <3>3 DEF LastOf
    <3> QED
      BY <2>1, <3>2, <3>3, <3>4
  <2> QED
    BY <1>1, <1>4, <1>6, <1>8, <2>2, <2>3, WriteIs
<1>10. Leaves(c, n)
  BY <1>7, <1>9 DEF Leaves
<1> QED
  BY <1>6, <1>10 DEF c

(* Worker.ts 53, 62-63, 98-101, DurableObject.ts 30-32, 35-44: a call that    *)
(* was answered and fails has written a prefix of its answer, each entry      *)
(* where it belongs, up to one that has no room there; or nothing, if it made *)
(* its view of the memory before the await and the memory has grown.          *)
THEOREM FailuresLeavePart == Spec => LeftInPart
<1> DEFINE A == \A p \in Act :
                  state[p] = "answered" /\ state'[p] = "failed" =>
                    \E n \in 0..Len(call[p].data) - 1 : Leaves(call[p], n)
<1>1. IInv /\ [Next]_vars => A
  <2> SUFFICES ASSUME IInv, [Next]_vars, NEW q \in Act, state[q] = "answered", state'[q] = "failed"
               PROVE  \E n \in 0..Len(call[q].data) - 1 : Leaves(call[q], n)
    OBVIOUS
  <2>0. state \in [Act -> State]
    BY DEF IInv, Typed
  <2>1. PICK p \in Act :
          \/ run(p) \/ Guest(p) \/ Worker(p) \/ DurableObject(p)
          \/ resolve(p) \/ reject(p) \/ Microtask(p)
    <3>1. ~UNCHANGED vars
      BY DEF vars
    <3> QED
      BY <3>1 DEF Next
  <2>2. ASSUME NEW x \in Act, NEW s, s # "failed"
        PROVE  ~Become(x, s)
    BY <2>0, <2>2 DEF Become
  <2>3. ~UNCHANGED state
    OBVIOUS
  <2>4. ~(run(p) \/ Guest(p))
    BY <2>2, <2>3 DEF run, Guest, return, point, memory_grow, fill, Fill
  <2>5. ~(Worker(p) \/ DurableObject(p))
    <3>1. ~write_id(p)
      BY <2>0, <2>3 DEF write_id, Fill, Become
    <3>2. ASSUME NEW op, NEW keys, NEW b, NEW s
          PROVE  ~CallsWith(p, op, keys, b, s)
      BY <2>2 DEF CallsWith, CallFits, Calls
    <3> QED
      BY <3>1, <3>2, ImportsCall
  <2>6. ~(resolve(p) \/ reject(p))
    BY <2>2 DEF resolve, reject, Settle
  <2>7. ~resume(p)
    BY <2>2 DEF resume
  <2>8. ~rejected(p)
    <3> SUFFICES ASSUME rejected(p)
                 PROVE  FALSE
      OBVIOUS
    <3>1. state[p] = "refused" /\ state' = [state EXCEPT ![p] = "failed"]
      BY DEF rejected, Runs, Fails, Become
    <3> QED
      BY <2>0, <3>1
  <2>9. continue(p) /\ state[p] = "answered"
    BY <2>1, <2>4, <2>5, <2>6, <2>7, <2>8 DEF Microtask, continue, Runs
  <2>10. \/ Detached(call[p]) /\ Become(p, "failed") /\ UNCHANGED cell
         \/ /\ Become(p, "failed") /\ Write(p, Fitting(Written(call[p])))
            /\ Fitting(Written(call[p])) # Written(call[p])
    BY <2>2, <2>9 DEF continue, Fails, guest
  <2>11. p = q
    BY <2>0, <2>10 DEF Become
  <2> QED
    BY <2>9, <2>10, <2>11, DetachedLeaves, FullLeaves
<1>2. [][A]_vars => LeftInPart
  BY PTL DEF LeftInPart
<1> QED
  BY <1>1, <1>2, StorageInvariance, PTL DEF Spec

--------------------------------------------------------------------------------
(* What PlatformStore describes.                                              *)

(* What the requests and answers of PlatformStore are.                          *)
PendingOf(p) == IF state[p] = "asked" /\ Request(call[p]) THEN << RequestOf(call[p]) >> ELSE << >>

(* What it was answered.                                                      *)
AnswerOf(p) == IF state[p] \in {"answered", "resuming"} /\ Request(call[p])
               THEN << call[p].data >> ELSE << >>

(* The functions of all activations.                                          *)
Pending == [p \in Act |-> PendingOf(p)]

(* Likewise.                                                                  *)
Answers == [p \in Act |-> AnswerOf(p)]

(* The actions of PlatformStore, in these terms.                                *)
LEMMA CallIs ==
  ASSUME NEW p \in Act, NEW r \in Platform!Request, Pending[p] = << >>, Answers[p] = << >>,
         Pending' = [Pending EXCEPT ![p] = << r >>], UNCHANGED <<store, Answers>>
  PROVE  Platform!Call(p)
<1>1. /\ Pending'[p] = << r >> /\ Len(<< r >>) = 1 /\ << r >>[1] = r
      /\ Pending' = [Pending EXCEPT ![p] = Pending'[p]]
  BY DEF Pending
<1> QED
  BY <1>1 DEF Platform!Call, Pending, PendingOf, Answers, AnswerOf

(* The map is asked.                                                          *)
LEMMA EffectIs ==
  ASSUME NEW p \in Act, NEW r, Pending[p] = << r >>, Platform!Applied(r),
         Pending' = [Pending EXCEPT ![p] = << >>],
         NEW seen \in Platform!Readings(r.keys),
         Answers' = [Answers EXCEPT ![p] = << Platform!Present(r.keys, seen, r.limit) >>]
  PROVE  Platform!Effect(p)
<1>1. Pending[p] # << >> /\ Pending[p][1] = r
  OBVIOUS
<1> QED
  BY <1>1 DEF Platform!Effect, Pending, PendingOf, Answers, AnswerOf

(* The platform errs.                                                         *)
LEMMA RejectIs ==
  ASSUME NEW p \in Act, NEW r, Pending[p] = << r >>, UNCHANGED store \/ Platform!Applied(r),
         Pending' = [Pending EXCEPT ![p] = << >>], UNCHANGED Answers
  PROVE  Platform!Reject(p)
<1>1. Pending[p] # << >> /\ Pending[p][1] = r
  OBVIOUS
<1> QED
  BY <1>1 DEF Platform!Reject, Pending, PendingOf, Answers, AnswerOf

(* The bytes lent to puts may change.                                         *)
Relents ==
  \A p \in Act :
    \/ Pending'[p] = Pending[p]
    \/ /\ Pending[p] # << >> /\ Pending[p][1].lent # {}
       /\ \E x \in (SUBSET Content) \ {{}} :
             Pending'[p] = << [Pending[p][1] EXCEPT !.lent = x] >>

(* The guest has its answer.                                                  *)
LEMMA ReturnIs ==
  ASSUME NEW p \in Act, Answers[p] # << >>,
         Answers' = [Answers EXCEPT ![p] = << >>], Relents, UNCHANGED store
  PROVE  Platform!Return(p)
BY DEF Platform!Return, Platform!Relent, Platform!Lends, Relents, Pending, PendingOf, Answers,
       AnswerOf

(* The bytes lent change.                                                     *)
LEMMA ChangeIs ==
  ASSUME Relents, UNCHANGED <<store, Answers>>
  PROVE  Platform!Change
BY DEF Platform!Change, Platform!Relent, Platform!Lends, Relents, Pending, PendingOf, Answers,
       AnswerOf

(* Nothing of the map changes.                                                *)
LEMMA StutterIs ==
  ASSUME UNCHANGED <<store, Pending, Answers>>
  PROVE  UNCHANGED Platform!vars
BY DEF Platform!vars, Pending, PendingOf, Answers, AnswerOf

(* What a step of one activation changes.                                     *)
LEMMA Alone ==
  ASSUME NEW p \in Act, UNCHANGED cell,
         \A q \in Act : q # p => call'[q] = call[q] /\ state'[q] = state[q]
  PROVE  /\ Pending' = [Pending EXCEPT ![p] = PendingOf(p)']
         /\ Answers' = [Answers EXCEPT ![p] = AnswerOf(p)']
         /\ PendingOf(p)' = PendingOf(p) => UNCHANGED Pending
         /\ AnswerOf(p)' = AnswerOf(p) => UNCHANGED Answers
<1>1. ASSUME NEW q \in Act, q # p
      PROVE  PendingOf(q)' = PendingOf(q) /\ AnswerOf(q)' = AnswerOf(q)
  BY <1>1 DEF PendingOf, AnswerOf, RequestOf, Request
<1>2. /\ Pending' = [q \in Act |-> PendingOf(q)'] /\ Pending = [q \in Act |-> PendingOf(q)]
      /\ Answers' = [q \in Act |-> AnswerOf(q)'] /\ Answers = [q \in Act |-> AnswerOf(q)]
  BY DEF Pending, Answers
<1> HIDE DEF Pending, Answers, PendingOf, AnswerOf
<1> QED
  BY <1>1, <1>2

(* A request, and what it does.                                               *)
LEMMA RequestTyped ==
  ASSUME cell \in [Buffer -> Content], NEW c \in Locals_, NEW now, Sound(c, "asked", now),
         Request(c)
  PROVE  RequestOf(c) \in Platform!Request
<1> DEFINE lent == IF c.op = "KVNamespace_putArrayBuffer" THEN {cell[c.buffer]} ELSE {}
<1>1. /\ c.keys \in Seq(Key) /\ c.copy \in Content
      /\ c.op = "KVNamespace_putArrayBuffer" => c.buffer \in Buffer
  BY DEF Locals_, Sound, Request, Puts
<1>2. LimitOf(c) \in Nat
  BY Constants DEF LimitOf
<1>3. KindOf(c.op) \in {"get", "list", "put", "delete"}
  BY DEF KindOf
<1>4. lent \in SUBSET Content
  BY <1>1
<1> QED
  BY <1>1, <1>2, <1>3, <1>4 DEF RequestOf, Platform!Request

(* What the platform does is what the map does.                               *)
LEMMA EffectApplied ==
  ASSUME NEW c \in Locals_, NEW now, Sound(c, "asked", now), Request(c), TakesEffect(c)
  PROVE  Platform!Applied(RequestOf(c))
<1> DEFINE r == RequestOf(c)
<1>1. /\ r.kind = KindOf(c.op) /\ r.keys = c.keys /\ r.value = c.copy
      /\ r.lent = IF c.op = "KVNamespace_putArrayBuffer" THEN {cell[c.buffer]} ELSE {}
  BY DEF RequestOf
<1> HIDE DEF r
<1>0. \A k, v : Changed(k, v) => Platform!Changed(k, v)
  BY DEF Changed, Platform!Changed
<1>2. CASE c.op \in Puts /\ \E v \in Stored(c) : Changed(c.keys[1], v)
  <2>1. r.kind = "put"
    BY <1>1, <1>2 DEF KindOf, Puts, Gets, Lists
  <2>2. Stored(c) = {r.value} \union r.lent
    BY <1>1 DEF Stored
  <2> QED
    BY <1>0, <1>1, <1>2, <2>1, <2>2 DEF Platform!Applied, r
<1>3. CASE c.op \in Deletes /\ Changed(c.keys[1], None)
  <2>1. r.kind = "delete"
    BY <1>1, <1>3 DEF KindOf, Puts, Gets, Lists, Deletes
  <2> QED
    BY <1>0, <1>1, <1>3, <2>1 DEF Platform!Applied, r
<1>4. CASE c.op \in Gets \union Lists \union Others /\ UNCHANGED store
  <2>1. r.kind \in {"get", "list"}
    BY <1>1, <1>4 DEF KindOf, Gets, Lists, Puts, Request
  <2> QED
    BY <1>4, <2>1 DEF Platform!Applied, r
<1> QED
  BY <1>2, <1>3, <1>4 DEF TakesEffect

(* The answer is what a read may find.                                        *)
LEMMA SamePresent ==
  ASSUME NEW c
  PROVE  /\ RequestOf(c).keys = c.keys /\ RequestOf(c).limit = LimitOf(c)
         /\ Platform!Readings(c.keys) = Readings(c.keys)
         /\ \A seen : Platform!Present(c.keys, seen, LimitOf(c)) = Present(c.keys, seen, LimitOf(c))
<1>1. RequestOf(c).keys = c.keys /\ RequestOf(c).limit = LimitOf(c)
  BY DEF RequestOf
<1>2. Platform!Readings(c.keys) = Readings(c.keys)
  BY DEF Platform!Readings, Readings
<1>3. \A seen : Platform!Present(c.keys, seen, LimitOf(c)) = Present(c.keys, seen, LimitOf(c))
  BY DEF Platform!Present, Present, Platform!Cardinality, Cardinality
<1> QED
  BY <1>1, <1>2, <1>3

(* A record with one field changed.                                           *)
LEMMA OtherLent ==
  ASSUME NEW kind, NEW keys, NEW limit, NEW value, NEW old, NEW new
  PROVE  [[kind |-> kind, keys |-> keys, limit |-> limit, value |-> value, lent |-> old]
           EXCEPT !.lent = new]
         = [kind |-> kind, keys |-> keys, limit |-> limit, value |-> value, lent |-> new]
OBVIOUS

(* A request in flight that lost its buffer to others.                        *)
LEMMA Lent ==
  ASSUME IInv, NEW q \in Act, call'[q] = call[q], state'[q] = state[q],
         cell' \in [Buffer -> Content]
  PROVE  /\ AnswerOf(q)' = AnswerOf(q)
         /\ \/ PendingOf(q)' = PendingOf(q)
            \/ /\ PendingOf(q) # << >> /\ PendingOf(q)[1].lent # {}
               /\ \E x \in (SUBSET Content) \ {{}} :
                     PendingOf(q)' = << [PendingOf(q)[1] EXCEPT !.lent = x] >>
<1> DEFINE c == call[q]
<1>1. AnswerOf(q)' = AnswerOf(q)
  BY DEF AnswerOf, Request
<1>2. CASE ~(state[q] = "asked" /\ Request(c) /\ c.op = "KVNamespace_putArrayBuffer")
  BY <1>1, <1>2 DEF PendingOf, Request, RequestOf
<1>3. CASE state[q] = "asked" /\ Request(c) /\ c.op = "KVNamespace_putArrayBuffer"
  <2>1. c.buffer \in Buffer
    BY <1>3 DEF IInv, Kept, Sound, Puts, Request
  <2> DEFINE old == {cell[c.buffer]}
             new == {cell'[c.buffer]}
  <2>2. cell'[c.buffer] \in Content
    BY <2>1
  <2>3. new \in (SUBSET Content) \ {{}} /\ old # {}
    BY <2>2
  <2>4. RequestOf(c) = [kind |-> KindOf(c.op), keys |-> c.keys, limit |-> LimitOf(c),
                        value |-> c.copy, lent |-> old]
    BY <1>3 DEF RequestOf
  <2>5. RequestOf(c)' = [kind |-> KindOf(c.op), keys |-> c.keys, limit |-> LimitOf(c),
                         value |-> c.copy, lent |-> new]
    BY <1>3 DEF RequestOf, LimitOf, KindOf
  <2> HIDE DEF old, new
  <2>6. RequestOf(c)' = [RequestOf(c) EXCEPT !.lent = new] /\ RequestOf(c).lent = old
    BY <2>4, <2>5, OtherLent
  <2>7. PendingOf(q) = << RequestOf(c) >> /\ PendingOf(q)' = << RequestOf(c)' >>
    BY <1>3 DEF PendingOf, Request
  <2>8. PendingOf(q) # << >> /\ PendingOf(q)[1] = RequestOf(c)
    BY <2>7
  <2> QED
    BY <1>1, <2>3, <2>6, <2>7, <2>8
<1> QED
  BY <1>2, <1>3

(* Each step of Storage is a step of PlatformStore or changes nothing there.    *)
PlatformStep == Platform!Next \/ UNCHANGED Platform!vars

(* A step of one activation that neither waits for an answer nor has one,     *)
(* before and after.                                                          *)
LEMMA SilentStep ==
  ASSUME NEW p \in Act, UNCHANGED <<store, cell>>,
         \A q \in Act : q # p => call'[q] = call[q] /\ state'[q] = state[q],
         PendingOf(p)' = PendingOf(p), AnswerOf(p)' = AnswerOf(p)
  PROVE  PlatformStep
BY Alone, StutterIs DEF PlatformStep

(* or that lets go of its answer.                                             *)
LEMMA ReturnStep ==
  ASSUME NEW p \in Act, UNCHANGED <<store, cell>>,
         \A q \in Act : q # p => call'[q] = call[q] /\ state'[q] = state[q],
         PendingOf(p)' = PendingOf(p), AnswerOf(p)' = << >>
  PROVE  PlatformStep
<1>1. CASE AnswerOf(p) = << >>
  BY <1>1, SilentStep
<1>2. CASE AnswerOf(p) # << >>
  <2>1. Answers[p] # << >>
    BY <1>2 DEF Answers
  <2>2. Answers' = [Answers EXCEPT ![p] = << >>] /\ UNCHANGED Pending
    BY Alone
  <2>3. Platform!Return(p)
    BY <2>1, <2>2, ReturnIs DEF Relents
  <2> QED
    BY <2>3 DEF PlatformStep, Platform!Next
<1> QED
  BY <1>1, <1>2

(* A step that writes buffers.                                                *)
LEMMA ChangeStep ==
  ASSUME IInv, cell' \in [Buffer -> Content], UNCHANGED store,
         \A q \in Act :
           \/ call'[q] = call[q] /\ state'[q] = state[q]
           \/ PendingOf(q)' = PendingOf(q) /\ AnswerOf(q)' = AnswerOf(q)
  PROVE  PlatformStep
<1>1. ASSUME NEW q \in Act
      PROVE  /\ AnswerOf(q)' = AnswerOf(q)
             /\ \/ PendingOf(q)' = PendingOf(q)
                \/ /\ PendingOf(q) # << >> /\ PendingOf(q)[1].lent # {}
                   /\ \E x \in (SUBSET Content) \ {{}} :
                         PendingOf(q)' = << [PendingOf(q)[1] EXCEPT !.lent = x] >>
  BY Lent
<1>2. /\ Pending' = [q \in Act |-> PendingOf(q)'] /\ Pending = [q \in Act |-> PendingOf(q)]
      /\ Answers' = [q \in Act |-> AnswerOf(q)'] /\ Answers = [q \in Act |-> AnswerOf(q)]
  BY DEF Pending, Answers
<1> HIDE DEF Pending, Answers, PendingOf, AnswerOf
<1>3. UNCHANGED Answers
  BY <1>1, <1>2
<1>4. Relents
  BY <1>1, <1>2 DEF Relents
<1>5. Platform!Change
  BY <1>3, <1>4, ChangeIs
<1> QED
  BY <1>5 DEF PlatformStep, Platform!Next

(* A step that writes buffers and lets go of an answer.                       *)
LEMMA ChangeReturns ==
  ASSUME IInv, cell' \in [Buffer -> Content], UNCHANGED store, NEW p \in Act,
         \A q \in Act : q # p => call'[q] = call[q] /\ state'[q] = state[q],
         PendingOf(p)' = PendingOf(p), AnswerOf(p)' = << >>
  PROVE  PlatformStep
<1>1. CASE AnswerOf(p) = << >>
  BY <1>1, ChangeStep
<1>2. CASE AnswerOf(p) # << >>
  <2>1. ASSUME NEW q \in Act
        PROVE  /\ q # p => AnswerOf(q)' = AnswerOf(q)
               /\ \/ PendingOf(q)' = PendingOf(q)
                  \/ /\ PendingOf(q) # << >> /\ PendingOf(q)[1].lent # {}
                     /\ \E x \in (SUBSET Content) \ {{}} :
                           PendingOf(q)' = << [PendingOf(q)[1] EXCEPT !.lent = x] >>
    BY Lent
  <2>2. /\ Pending' = [q \in Act |-> PendingOf(q)'] /\ Pending = [q \in Act |-> PendingOf(q)]
        /\ Answers' = [q \in Act |-> AnswerOf(q)'] /\ Answers = [q \in Act |-> AnswerOf(q)]
    BY DEF Pending, Answers
  <2> HIDE DEF Pending, Answers, PendingOf, AnswerOf
  <2>3. Answers[p] # << >> /\ Answers' = [Answers EXCEPT ![p] = << >>]
    BY <1>2, <2>1, <2>2
  <2>4. Relents
    BY <2>1, <2>2 DEF Relents
  <2>5. Platform!Return(p)
    BY <2>3, <2>4, ReturnIs
  <2> QED
    BY <2>5 DEF PlatformStep, Platform!Next
<1> QED
  BY <1>1, <1>2

(* A call of an import that asks the platform is a request.                   *)
LEMMA CallStep ==
  ASSUME IInv, NEW p \in Act, NEW op, NEW keys, NEW b, NEW s, CallsWith(p, op, keys, b, s)
  PROVE  PlatformStep
<1> DEFINE c == Locals(op, keys, b)
<1>1. /\ Typed /\ CallFits(op, keys, b, s) /\ Calls(p, c, s)
      /\ state \in [Act -> State] /\ call \in [Act -> Locals_]
  BY DEF CallsWith, IInv, Typed
<1>2. /\ state[p] = "running" /\ state'[p] = s /\ call'[p] = c
      /\ UNCHANGED <<store, cell>>
      /\ \A q \in Act : q # p => call'[q] = call[q] /\ state'[q] = state[q]
  BY <1>1 DEF Calls, Become, guest
<1>3. c \in Locals_ /\ c.op = op /\ c.keys = keys /\ c.buffer = b
  <2>1. op \in Ops /\ keys \in Seq(Key) /\ b \in Buffer \union {NoBuffer}
    BY <1>1 DEF CallFits
  <2>2. NewLocals(c, op, keys, b)
    BY <1>1, <2>1, LocalsAre
  <2> HIDE DEF c
  <2> QED
    BY <2>2 DEF NewLocals
<1> HIDE DEF c
<1>4. PendingOf(p) = << >> /\ AnswerOf(p) = << >>
  BY <1>2 DEF PendingOf, AnswerOf
<1>5. AnswerOf(p)' = << >>
  BY <1>1, <1>2, <1>3 DEF AnswerOf, Request, CallFits
<1>6. CASE s = "asked" /\ Request(c)
  <2>1. Kept(p, call'[p], state'[p], memory', cell', owner', table') /\ cell \in [Buffer -> Content]
    BY CallsKeep DEF IInv, Typed
  <2>2. Sound(c, "asked", memory')
    BY <1>2, <1>6, <2>1 DEF Kept
  <2>3. RequestOf(c) \in Platform!Request
    BY <1>3, <1>6, <2>1, <2>2, RequestTyped
  <2>4. PendingOf(p)' = << RequestOf(c) >>
    BY <1>2, <1>6 DEF PendingOf, Request, RequestOf
  <2>5. Pending[p] = << >> /\ Answers[p] = << >>
    BY <1>4 DEF Pending, Answers
  <2>6. Pending' = [Pending EXCEPT ![p] = << RequestOf(c) >>] /\ UNCHANGED Answers
    BY <1>2, <1>4, <1>5, <2>4, Alone
  <2>7. Platform!Call(p)
    BY <1>2, <2>3, <2>5, <2>6, CallIs
  <2> QED
    BY <2>7 DEF PlatformStep, Platform!Next
<1>7. CASE ~(s = "asked" /\ Request(c))
  <2>1. PendingOf(p)' = << >>
    BY <1>2, <1>7 DEF PendingOf, Request
  <2> QED
    BY <1>2, <1>4, <1>5, <2>1, SilentStep
<1> QED
  BY <1>6, <1>7

(* A request that is answered or refused is one, or does not touch the store. *)
LEMMA EffectStep ==
  ASSUME IInv, NEW p \in Act, state[p] = "asked", TakesEffect(call[p])
  PROVE  IF Request(call[p]) THEN Platform!Applied(RequestOf(call[p])) ELSE UNCHANGED store
<1>1. call[p] \in Locals_ /\ Sound(call[p], "asked", memory)
  BY DEF IInv, Typed, Kept
<1>2. CASE Request(call[p])
  BY <1>1, <1>2, EffectApplied
<1>3. CASE ~Request(call[p])
  BY <1>1, <1>3 DEF Sound, Request, TakesEffect, Puts, Deletes, Others
<1> QED
  BY <1>2, <1>3

(* Answering a request is its effect.                                         *)
LEMMA ResolveStep ==
  ASSUME IInv, NEW p \in Act, resolve(p)
  PROVE  PlatformStep
<1> DEFINE c == call[p]
<1>0. PICK seen \in Readings(c.keys) :
        call' = [call EXCEPT ![p].data = Present(c.keys, seen, LimitOf(c))]
  BY DEF resolve
<1> DEFINE a == Present(c.keys, seen, LimitOf(c))
           d == [c EXCEPT !.data = a]
<1>1. /\ state[p] = "asked" /\ TakesEffect(c) /\ UNCHANGED cell
      /\ call' = [call EXCEPT ![p] = d] /\ state' = [state EXCEPT ![p] = "answered"]
  BY <1>0 DEF resolve, Settle, Become, guest
<1>2. state \in [Act -> State] /\ call \in [Act -> Locals_] /\ c \in Locals_
  BY DEF IInv, Typed
<1>3. /\ call'[p] = d /\ state'[p] = "answered"
      /\ \A q \in Act : q # p => call'[q] = call[q] /\ state'[q] = state[q]
  BY <1>1, <1>2
<1>4. IF Request(c) THEN Platform!Applied(RequestOf(c)) ELSE UNCHANGED store
  BY <1>1, EffectStep
<1>5. /\ seen \in Platform!Readings(RequestOf(c).keys)
      /\ Platform!Present(RequestOf(c).keys, seen, RequestOf(c).limit) = a
  BY SamePresent
<1> HIDE DEF c, a
<1>6. d.op = c.op /\ d.keys = c.keys /\ d.data = a
  BY <1>2 DEF Locals_
<1> HIDE DEF d
<1>7. AnswerOf(p) = << >> /\ PendingOf(p)' = << >>
  BY <1>1, <1>3 DEF AnswerOf, PendingOf
<1>8. CASE Request(c)
  <2>1. PendingOf(p) = << RequestOf(c) >> /\ AnswerOf(p)' = << a >>
    BY <1>1, <1>3, <1>6, <1>8 DEF PendingOf, AnswerOf, Request, c
  <2>2. Pending[p] = << RequestOf(c) >>
    BY <2>1 DEF Pending
  <2>3. Pending' = [Pending EXCEPT ![p] = << >>] /\ Answers' = [Answers EXCEPT ![p] = << a >>]
    BY <1>1, <1>3, <1>7, <2>1, Alone
  <2>4. Platform!Effect(p)
    BY <1>4, <1>5, <1>8, <2>2, <2>3, EffectIs
  <2> QED
    BY <2>4 DEF PlatformStep, Platform!Next
<1>9. CASE ~Request(c)
  <2>1. PendingOf(p) = << >> /\ AnswerOf(p)' = << >>
    BY <1>1, <1>3, <1>6, <1>9 DEF PendingOf, AnswerOf, Request, c
  <2> QED
    BY <1>1, <1>3, <1>4, <1>7, <1>9, <2>1, SilentStep
<1> QED
  BY <1>8, <1>9

(* An error may follow the effect or replace it.                              *)
LEMMA RejectStep ==
  ASSUME IInv, NEW p \in Act, reject(p)
  PROVE  PlatformStep
<1> DEFINE c == call[p]
<1>1. /\ state[p] = "asked" /\ (UNCHANGED store \/ TakesEffect(c)) /\ UNCHANGED <<call, cell>>
      /\ state' = [state EXCEPT ![p] = "refused"]
  BY DEF reject, Settle, Become, guest
<1>2. state \in [Act -> State]
  BY DEF IInv, Typed
<1>3. /\ state'[p] = "refused" /\ call'[p] = c
      /\ \A q \in Act : q # p => call'[q] = call[q] /\ state'[q] = state[q]
  BY <1>1, <1>2
<1>4. UNCHANGED store \/ (Request(c) /\ Platform!Applied(RequestOf(c)))
  BY <1>1, EffectStep
<1>5. AnswerOf(p) = << >> /\ AnswerOf(p)' = << >> /\ PendingOf(p)' = << >>
  BY <1>1, <1>3 DEF AnswerOf, PendingOf
<1>6. CASE Request(c)
  <2>1. Pending[p] = << RequestOf(c) >>
    BY <1>1, <1>6 DEF Pending, PendingOf
  <2>2. Pending' = [Pending EXCEPT ![p] = << >>] /\ UNCHANGED Answers
    BY <1>1, <1>3, <1>5, Alone
  <2>3. Platform!Reject(p)
    BY <1>4, <2>1, <2>2, RejectIs
  <2> QED
    BY <2>3 DEF PlatformStep, Platform!Next
<1>7. CASE ~Request(c)
  <2>1. PendingOf(p) = << >>
    BY <1>7 DEF PendingOf
  <2> QED
    BY <1>1, <1>3, <1>4, <1>5, <1>7, <2>1, SilentStep
<1> QED
  BY <1>6, <1>7

(* A handler that fails or returns.                                           *)
LEMMA EndStep ==
  ASSUME IInv, NEW p \in Act, NEW c, NEW s \in {"failed", "running"},
         state[p] \in Settled, call' = [call EXCEPT ![p] = c], state' = [state EXCEPT ![p] = s],
         UNCHANGED <<store, cell>>
  PROVE  PlatformStep
<1>1. state \in [Act -> State] /\ call \in [Act -> Locals_]
  BY DEF IInv, Typed
<1>2. /\ state'[p] = s
      /\ \A q \in Act : q # p => call'[q] = call[q] /\ state'[q] = state[q]
  BY <1>1
<1>3. PendingOf(p) = << >> /\ PendingOf(p)' = << >> /\ AnswerOf(p)' = << >>
  BY <1>2 DEF PendingOf, AnswerOf, Settled
<1> QED
  BY <1>2, <1>3, ReturnStep

(* The rest of a handler writes buffers, which may be lent, or lets go.       *)
LEMMA MicrotaskStep ==
  ASSUME IInv, NEW p \in Act, Microtask(p)
  PROVE  PlatformStep
<1> DEFINE c == call[p]
<1>1. state \in [Act -> State] /\ call \in [Act -> Locals_] /\ c \in Locals_
  BY DEF IInv, Typed
<1>2. ASSUME Fails(p), state[p] \in Settled
      PROVE  PlatformStep
  <2>1. call' = [call EXCEPT ![p] = c]
    BY <1>1, <1>2 DEF Fails
  <2> QED
    BY <1>2, <2>1, EndStep DEF Fails, Become, guest
<1>3. CASE resume(p)
  BY <1>3, EndStep DEF resume, Runs, Become, guest, Settled
<1>4. CASE rejected(p)
  BY <1>2, <1>4 DEF rejected, Runs, Settled
<1>5. CASE continue(p) /\ Fails(p)
  BY <1>2, <1>5 DEF continue, Runs, Settled
<1>6. CASE /\ state[p] = "answered" /\ c.op = "DurableObject_Stub_fetch"
           /\ call' = [call EXCEPT ![p].op = "DurableObject_Stub_fetch.text"]
           /\ Become(p, "asked") /\ UNCHANGED <<store, guest>>
  <2> HIDE DEF c
  <2>1. [c EXCEPT !.op = "DurableObject_Stub_fetch.text"].op = "DurableObject_Stub_fetch.text"
    BY <1>1 DEF Locals_
  <2>2. /\ state'[p] = "asked" /\ call'[p].op = "DurableObject_Stub_fetch.text"
        /\ \A q \in Act : q # p => call'[q] = call[q] /\ state'[q] = state[q]
    BY <1>1, <1>6, <2>1 DEF Become, c
  <2>3. ~Request(c) /\ ~Request(call'[p])
    BY <1>6, <2>2 DEF Request, Others
  <2>4. /\ PendingOf(p) = << >> /\ AnswerOf(p) = << >>
        /\ PendingOf(p)' = << >> /\ AnswerOf(p)' = << >>
    BY <1>6, <2>2, <2>3 DEF PendingOf, AnswerOf, Request, c
  <2> QED
    BY <1>6, <2>2, <2>4, SilentStep DEF guest
<1>7. CASE /\ Runs(p, "answered") /\ Write(p, Fitting(Written(c))) /\ UNCHANGED store
           /\ \/ Become(p, "failed") /\ UNCHANGED call
              \/ /\ call' = [call EXCEPT ![p].result = Result(c)]
                 /\ Become(p, "resuming")
  <2>1. cell' \in [Buffer -> Content]
    <3>1. Typed /\ Sound(c, "answered", memory)
      BY <1>7, RunsIs DEF IInv, Kept, Settled
    <3>2. PICK n : WritesOf(c, Written(c), n)
      BY <1>1, <3>1, WrittenIs
    <3>3. PICK k \in 0..n : /\ DOMAIN Fitting(Written(c)) = 1..k
                            /\ \A i \in 1..k : Fitting(Written(c))[i] = Written(c)[i]
      BY <3>2, FittingIs DEF WritesOf
    <3>4. k \in Nat /\ \A i \in 1..k : Fitting(Written(c))[i][2] \in Content
      BY <3>2, <3>3 DEF WritesOf
    <3> QED
      BY <1>7, <3>1, <3>3, <3>4, WriteTyped
  <2>2. CASE Become(p, "failed") /\ UNCHANGED call
    <3>1. /\ state[p] = "answered" /\ state'[p] = "failed"
          /\ \A q \in Act : q # p => call'[q] = call[q] /\ state'[q] = state[q]
      BY <1>1, <1>7, <2>2 DEF Become, Runs
    <3>2. PendingOf(p) = << >> /\ PendingOf(p)' = << >> /\ AnswerOf(p)' = << >>
      BY <3>1 DEF PendingOf, AnswerOf
    <3> QED
      BY <1>7, <2>1, <3>1, <3>2, ChangeReturns
  <2>3. CASE call' = [call EXCEPT ![p].result = Result(c)] /\ Become(p, "resuming")
    <3> HIDE DEF c
    <3> DEFINE d == [c EXCEPT !.result = Result(c)]
    <3>2. d.op = c.op /\ d.keys = c.keys /\ d.data = c.data
      BY <1>1 DEF Locals_
    <3>3. /\ state[p] = "answered" /\ state'[p] = "resuming" /\ call'[p] = d
          /\ \A q \in Act : q # p => call'[q] = call[q] /\ state'[q] = state[q]
      BY <1>1, <1>7, <2>3 DEF Become, Runs, c
    <3> HIDE DEF d
    <3>4. PendingOf(p)' = PendingOf(p) /\ AnswerOf(p)' = AnswerOf(p)
      BY <3>2, <3>3 DEF PendingOf, AnswerOf, Request, c
    <3> QED
      BY <1>7, <2>1, <3>3, <3>4, ChangeStep
  <2> QED
    BY <1>7, <2>2, <2>3
<1> QED
  BY <1>3, <1>4, <1>5, <1>6, <1>7 DEF Microtask, continue, Runs

(* The guest: only what it writes to buffers is seen.                         *)
LEMMA GuestStep ==
  ASSUME IInv, NEW p \in Act, run(p) \/ Guest(p) \/ write_id(p)
  PROVE  PlatformStep
<1>1. /\ state \in [Act -> State] /\ call \in [Act -> Locals_] /\ cell \in [Buffer -> Content]
  BY DEF IInv, Typed
<1>2. ASSUME NEW b \in Buffer, NEW v \in Content, Fill(p, b, v)
      PROVE  PlatformStep
  <2>1. cell' \in [Buffer -> Content] /\ UNCHANGED <<store, call, state>>
    BY <1>1, <1>2 DEF Fill
  <2> QED
    BY <2>1, ChangeStep
<1>3. \/ \E b \in Buffer : fill(p, b)
      \/ write_id(p) /\ ~Become(p, "failed")
      => PlatformStep
  BY <1>2, Constants DEF fill, write_id, Content
<1>7. CASE write_id(p) /\ Become(p, "failed")
  <2>1. state'[p] = "failed" /\ \A q \in Act : q # p => state'[q] = state[q]
    BY <1>1, <1>7 DEF Become
  <2>2. state[p] = "running" /\ UNCHANGED <<store, cell, call>>
    BY <1>7, <2>1 DEF write_id, Fill, Touches, guest
  <2>3. /\ PendingOf(p) = << >> /\ AnswerOf(p) = << >>
        /\ PendingOf(p)' = << >> /\ AnswerOf(p)' = << >>
    BY <2>1, <2>2 DEF PendingOf, AnswerOf
  <2> QED
    BY <2>1, <2>2, <2>3, SilentStep
<1>4. CASE run(p) \/ return(p)
  <2>1. /\ state[p] \in {"new", "running"} /\ state'[p] \in {"running", "returned"}
        /\ UNCHANGED <<store, cell, call>> /\ \A q \in Act : q # p => state'[q] = state[q]
    BY <1>1, <1>4 DEF run, return, Become, guest
  <2>2. /\ PendingOf(p) = << >> /\ AnswerOf(p) = << >>
        /\ PendingOf(p)' = << >> /\ AnswerOf(p)' = << >>
    BY <2>1 DEF PendingOf, AnswerOf
  <2> QED
    BY <2>1, <2>2, SilentStep
<1>5. CASE memory_grow(p)
  BY <1>1, <1>5, ChangeStep DEF memory_grow
<1>6. CASE point(p)
  <2>1. /\ UNCHANGED <<store, cell, state>>
        /\ call' = [q \in Act |-> [call[q] EXCEPT !.moved = @ \/ call[q] # NoCall]]
    BY <1>6 DEF point
  <2>2. ASSUME NEW q \in Act
        PROVE  PendingOf(q)' = PendingOf(q) /\ AnswerOf(q)' = AnswerOf(q)
    <3> DEFINE c == call[q]
               m == c.moved \/ c # NoCall
               d == [c EXCEPT !.moved = m]
    <3>1. c \in Locals_ /\ call'[q] = d
      BY <1>1, <2>1
    <3> HIDE DEF c, m
    <3>2. /\ d.op = c.op /\ d.keys = c.keys /\ d.data = c.data /\ d.copy = c.copy
          /\ d.buffer = c.buffer
      BY <3>1 DEF Locals_
    <3> HIDE DEF d
    <3>3. /\ call'[q].op = call[q].op /\ call'[q].keys = call[q].keys
          /\ call'[q].data = call[q].data /\ call'[q].copy = call[q].copy
          /\ call'[q].buffer = call[q].buffer
      BY <3>1, <3>2 DEF c
    <3>4. Request(call[q])' = Request(call[q]) /\ RequestOf(call[q])' = RequestOf(call[q])
      BY <2>1, <3>3 DEF Request, RequestOf, LimitOf
    <3> QED
      BY <2>1, <3>3, <3>4 DEF PendingOf, AnswerOf
  <2> QED
    BY <1>1, <2>1, <2>2, ChangeStep
<1> QED
  BY <1>3, <1>4, <1>5, <1>6, <1>7 DEF Guest

(* Worker.ts 49-109, DurableObject.ts 25-49: these calls lose nothing of what *)
(* the platform promises (PlatformStore): each request takes effect once      *)
(* between its call and its return, with the bytes that were passed, and its  *)
(* answer is what one read of the platform found.                             *)
THEOREM StorageImplementsStore == Spec => ImplementsStore
<1>1. Init => Platform!Init
  <2> SUFFICES ASSUME Init
               PROVE  Platform!Init
    OBVIOUS
  <2>1. IInv
    BY InitKeeps
  <2>2. \A p \in Act : state[p] = "new"
    BY DEF Init
  <2>3. store \in [Key -> {{v} : v \in Content \union {None}}]
    <3>1. PICK held \in InitialStores : store = [k \in Key |-> {held[k]}]
      BY DEF Init
    <3>2. \A k \in Key : held[k] \in Content \union {None}
      BY <3>1, Constants DEF Content
    <3> QED
      BY <3>1, <3>2
  <2> QED
    BY <2>2, <2>3 DEF Platform!Init
<1>2. IInv /\ [Next]_vars => [Platform!Next]_(Platform!vars)
  <2> SUFFICES ASSUME IInv, [Next]_vars
               PROVE  PlatformStep
    BY DEF PlatformStep
  <2>1. CASE UNCHANGED vars
    <3>1. UNCHANGED <<store, cell, state, call>>
      BY <2>1 DEF vars, guest
    <3>2. UNCHANGED <<Pending, Answers>>
      BY <3>1 DEF Pending, Answers, PendingOf, AnswerOf, Request, RequestOf
    <3> QED
      BY <3>1, <3>2, StutterIs DEF PlatformStep
  <2>2. ASSUME NEW p \in Act,
               \/ run(p) \/ Guest(p) \/ Worker(p) \/ DurableObject(p)
               \/ resolve(p) \/ reject(p) \/ Microtask(p)
        PROVE  PlatformStep
    <3>1. Worker(p) \/ DurableObject(p) => PlatformStep
      BY ImportsCall, CallStep, GuestStep
    <3> QED
      BY <2>2, <3>1, GuestStep, ResolveStep, RejectStep, MicrotaskStep
  <2> QED
    BY <2>1, <2>2 DEF Next
<1> QED
  BY <1>1, <1>2, StorageInvariance, PTL DEF Spec, ImplementsStore, Platform!Spec

================================================================================
