------------------------------ MODULE StdioProofs ------------------------------
(******************************************************************************)
(* Proofs about Stdio, for every value of its constants.                      *)
(*                                                                            *)
(* IInv, the inductive invariant, follows the bytes of stdin through all the  *)
(* places they can be in: guest memory, in.buffer, a microtask that continues *)
(* a read, the stream.  They are in order there, and a suspended activation   *)
(* has one reaction.  From it follow TypeOK, HandedInOrder and ShortReadAtEnd.*)
(* Seamless adds that no byte is missing between these places, which holds as *)
(* long as one activation alone has read; OutputSound follows the chunks of   *)
(* output, and needs that no buffer is filled again early.                    *)
(*                                                                            *)
(* The lemmas about steps are also used for the loops, in LoopsProofs.        *)
(******************************************************************************)
EXTENDS Stdio, TLAPS, SequenceTheorems

(* A microtask.                                                               *)
JobType == [act : Act, kind : Kind, chunk : Seq(Byte)]

(* The states of activations, those of the loops of module Loops included.    *)
AnyState == State \union {"scheduled", "unwound"}

(* The values of the variables.                                               *)
TypedIn ==
  /\ source \in {"none", "open", "closed", "errored"}
  /\ queue \in Seq(Seq(Byte)) /\ waiting \in Seq(Act) /\ produced \in 0..MaxBytes
TypedReads ==
  /\ inbuf \in Seq(Byte) /\ handed \in Seq(Byte)
  /\ want \in [Act -> Nat] /\ got \in [Act -> Nat] /\ \A p \in Act : got[p] <= want[p]
TypedGuest ==
  /\ view \in [Act -> 0..MaxGrow] /\ memory \in 0..MaxGrow
  /\ content \in [Buffer -> 0..MaxWrites]
TypedOut ==
  /\ written \in [Std -> Seq(1..MaxWrites)]
  /\ out \in [Std -> Stream]

Typed ==
  /\ TypedIn /\ TypedReads /\ TypedGuest /\ TypedOut
  /\ jobs \in Seq(JobType) /\ state \in [Act -> AnyState]

(* Every byte of s comes before every byte of t.                              *)
Below(s, t) == \A i \in 1..Len(s), j \in 1..Len(t) : s[i] < t[j]

(* The bytes of s are in order.                                               *)
Ascending(s) == \A i, j \in 1..Len(s) : i < j => s[i] < s[j]

(* The bytes of s are among the first n.                                      *)
Within(s, n) == \A i \in 1..Len(s) : s[i] <= n

(* What was handed out, h, then what is buffered, b, of n bytes produced.     *)
Taken(h, b, n) ==
  /\ Ascending(h) /\ Ascending(b) /\ Below(h, b)
  /\ Within(h, n) /\ Within(b, n)

(* The chunks on their way to a read come after both, in the order of the     *)
(* jobs.                                                                      *)
Pulled(h, b, js, n) ==
  \A i \in 1..Len(js) :
    /\ Ascending(js[i].chunk) /\ Within(js[i].chunk, n)
    /\ Below(h, js[i].chunk) /\ Below(b, js[i].chunk)
    /\ \A j \in 1..Len(js) : i < j => Below(js[i].chunk, js[j].chunk)

(* The chunks in the stream come after all of these, in order.                *)
InQueue(h, b, js, q, n) ==
  \A i \in 1..Len(q) :
    /\ Ascending(q[i]) /\ Within(q[i], n)
    /\ Below(h, q[i]) /\ Below(b, q[i])
    /\ \A j \in 1..Len(js) : Below(js[j].chunk, q[i])
    /\ \A j \in 1..Len(q) : i < j => Below(q[i], q[j])

(* The places a byte can be in are in the order in which bytes pass them.     *)
Ordered(h, b, js, q, n) == Taken(h, b, n) /\ Pulled(h, b, js, n) /\ InQueue(h, b, js, q, n)

InOrder == Ordered(handed, inbuf, jobs, queue, produced)

(* Whether a microtask is the reaction of a promise an activation waits for.  *)
Reaction(job) == job.kind # "fd_close"

(* No reaction is due for p, and none will be when input arrives.             *)
NoReaction(p, js, ws) ==
  /\ \A i \in 1..Len(js) : Reaction(js[i]) => js[i].act # p
  /\ \A i \in 1..Len(ws) : ws[i] # p

(* What the activation of a microtask waits for.                              *)
MayRun(job, st) ==
  /\ Reaction(job) => st[job.act] \in {"reading", "resuming"}
  /\ Reaction(job) /\ job.kind # "resume" => st[job.act] = "reading"
  /\ ~Reaction(job) => job.act = Main /\ st[Main] = "returned"

(* An activation waits for one promise at most, and is suspended meanwhile:   *)
(* it is in one place of the queue of microtasks or of the reads that wait,   *)
(* and in that place once.                                                    *)
Reactions(js, ws, st) ==
  /\ \A i \in 1..Len(js) :
       /\ MayRun(js[i], st)
       /\ \A j \in 1..Len(js) :
            i # j /\ Reaction(js[i]) /\ Reaction(js[j]) => js[i].act # js[j].act
       /\ \A j \in 1..Len(ws) : Reaction(js[i]) => js[i].act # ws[j]
  /\ \A i \in 1..Len(ws) :
       /\ st[ws[i]] = "reading"
       /\ \A j \in 1..Len(ws) : i # j => ws[i] # ws[j]

(* Reads wait only for a stream that is empty and may get more.               *)
WaitsForMore == waiting # << >> => queue = << >> /\ source = "open"

(* A read learns of the end once the source has ended, and has a short result *)
(* only then.                                                                 *)
Truthful(job, src, wt, gt) ==
  /\ job.kind = "closed" => src = "closed"
  /\ job.kind = "result" /\ gt[job.act] < wt[job.act] => src \in {"none", "closed"}
Ends(js, src, wt, gt) == \A i \in 1..Len(js) : Truthful(js[i], src, wt, gt)

(* The inductive invariant: without InOrder a later chunk could overtake an   *)
(* earlier one, and without Reactions one activation could have two results.  *)
IInv ==
  /\ Typed /\ InOrder /\ Reactions(jobs, waiting, state) /\ WaitsForMore
  /\ Ends(jobs, source, want, got)

(* s goes on where n bytes end.                                               *)
Contiguous(s, n) == \A i \in 1..Len(s) : s[i] = n + i

(* The chunks of q go on where n bytes end, up to byte m unless an error took *)
(* chunks from the stream.                                                    *)
Follows(q, n, src, m) ==
  \E f \in [1..Len(q) + 1 -> Nat] :
    /\ f[1] = n
    /\ \A i \in 1..Len(q) : Contiguous(q[i], f[i]) /\ f[i + 1] = f[i] + Len(q[i])
    /\ src # "errored" => f[Len(q) + 1] = m

IsChunk(job) == job.kind = "chunk"

(* No byte is missing between what was handed out, what is buffered, the one  *)
(* chunk that is pulled (and then nothing is buffered) and the stream.        *)
Seamless ==
  /\ Contiguous(handed, 0) /\ Contiguous(inbuf, Len(handed))
  /\ waiting # << >> => inbuf = << >>
  /\ \A i \in 1..Len(jobs) : IsChunk(jobs[i]) =>
       inbuf = << >> /\ Contiguous(jobs[i].chunk, Len(handed))
  /\ \E n \in Nat :
       /\ (\A i \in 1..Len(jobs) : ~IsChunk(jobs[i])) => n = Len(handed) + Len(inbuf)
       /\ \A i \in 1..Len(jobs) : IsChunk(jobs[i]) => n = Len(handed) + Len(jobs[i].chunk)
       /\ Follows(queue, n, source, produced)

(* The case in which two reads never overlap: r alone is suspended in a read. *)
OnlyReads(r) == \A p \in Act : state[p] = "reading" => p = r

(* Who reads asked for something.                                             *)
ReadersWant == \A p \in Act : state[p] = "reading" => want[p] # 0

(* Nobody but r has ever read.                                                *)
Alone(r) == \A q \in Act \ {r} : want[q] = 0

(* No byte is missing as long as one activation alone has read.               *)
Solo == ReadersWant /\ ((\E r \in Act : Alone(r)) => Seamless)

(* What was consumed comes first in what was written, or is a chunk that the  *)
(* memory has left behind, and what is queued comes next: its buffers hold it *)
(* still.                                                                     *)
InPlace(o, w, cells, now) ==
  /\ Len(o.consumed) <= Len(w)
  /\ \A i \in 1..Len(o.consumed) : o.consumed[i] = w[i] \/ (o.consumed[i] = 0 /\ now > 0)
  /\ o.state = "cancelled" => o.queue = << >>
  /\ o.state # "cancelled" => Len(w) = Len(o.consumed) + Len(o.queue)
  /\ \A i \in 1..Len(o.queue) :
       /\ o.queue[i].on = now \/ now > 0
       /\ cells[o.queue[i].buffer] = w[Len(o.consumed) + i]

(* For both streams of output, unless the consumer cancelled.                 *)
OutputSound == \A fd \in Std : InPlace(out[fd], written[fd], content, memory)

--------------------------------------------------------------------------------

(* Constants are numbers.                                                     *)
LEMMA Natural == MaxBytes \in Nat /\ MaxGrow \in Nat /\ MaxWrites \in Nat /\ Byte \subseteq Nat
  BY BoundAssumption DEF Byte

(* What a microtask is made of.                                               *)
LEMMA JobTyped ==
  ASSUME NEW p \in Act, NEW kind \in Kind, NEW chunk \in Seq(Byte)
  PROVE  /\ Job(p, kind, chunk) \in JobType /\ Job(p, kind, chunk).chunk = chunk
         /\ Job(p, kind, chunk).act = p /\ Job(p, kind, chunk).kind = kind
         /\ Plain(p, kind) \in JobType /\ Plain(p, kind).chunk = << >>
         /\ Plain(p, kind).act = p /\ Plain(p, kind).kind = kind
  BY EmptySeq DEF Job, Plain, JobType

(* What a microtask that carries no bytes is made of.                         *)
LEMMA PlainTyped ==
  ASSUME NEW p \in Act, NEW kind \in Kind
  PROVE  /\ Plain(p, kind) \in JobType /\ Plain(p, kind).chunk = << >>
         /\ Plain(p, kind).act = p /\ Plain(p, kind).kind = kind
  BY EmptySeq DEF Job, Plain, JobType

(* The microtasks of a queue are microtasks.                                  *)
LEMMA JobsTyped ==
  ASSUME NEW js \in Seq(JobType), NEW i \in 1..Len(js)
  PROVE  /\ js[i] \in JobType /\ js[i].act \in Act /\ js[i].kind \in Kind
         /\ js[i].chunk \in Seq(Byte)
  <1>1. js[i] \in JobType
    BY ElementOfSeq
  <1> QED BY <1>1 DEF JobType

(* The first k bytes of a buffer and the rest.                                *)
LEMMA Split ==
  ASSUME NEW b \in Seq(Byte), NEW k \in 0..Len(b)
  PROVE  /\ SubSeq(b, 1, k) \in Seq(Byte) /\ SubSeq(b, k + 1, Len(b)) \in Seq(Byte)
         /\ Len(SubSeq(b, 1, k)) = k /\ Len(SubSeq(b, k + 1, Len(b))) = Len(b) - k
         /\ \A i \in 1..k : SubSeq(b, 1, k)[i] = b[i]
         /\ \A i \in 1..Len(b) - k : SubSeq(b, k + 1, Len(b))[i] = b[k + i]
  <1>1. Len(b) \in Nat /\ \A i \in 1..Len(b) : b[i] \in Byte
    BY LenProperties, ElementOfSeq
  <1>2. \A i \in 1..k : b[i] \in Byte
    BY <1>1
  <1>3. \A i \in k + 1..Len(b) : b[i] \in Byte
    BY <1>1
  <1>4. /\ SubSeq(b, 1, k) \in Seq(Byte)
        /\ Len(SubSeq(b, 1, k)) = IF 1 <= k THEN k - 1 + 1 ELSE 0
        /\ \A i \in 1..k - 1 + 1 : SubSeq(b, 1, k)[i] = b[1 + i - 1]
    BY <1>1, <1>2, SubSeqProperties
  <1>5. /\ SubSeq(b, k + 1, Len(b)) \in Seq(Byte)
        /\ Len(SubSeq(b, k + 1, Len(b))) = IF k + 1 <= Len(b) THEN Len(b) - (k + 1) + 1 ELSE 0
        /\ \A i \in 1..Len(b) - (k + 1) + 1 : SubSeq(b, k + 1, Len(b))[i] = b[k + 1 + i - 1]
    BY <1>1, <1>3, SubSeqProperties
  <1> QED BY <1>1, <1>4, <1>5

(* The places of a sequence with an element appended, or without its head.    *)
LEMMA Appended ==
  ASSUME NEW S, NEW s \in Seq(S), NEW e \in S
  PROVE  /\ Append(s, e) \in Seq(S) /\ Len(s) \in Nat /\ Len(Append(s, e)) = Len(s) + 1
         /\ Append(s, e)[Len(s) + 1] = e
         /\ \A i \in 1..Len(s) : i \in 1..Len(Append(s, e)) /\ Append(s, e)[i] = s[i]
         /\ \A i \in 1..Len(Append(s, e)) : i \in 1..Len(s) \/ i = Len(s) + 1
  BY AppendProperties, LenProperties

(* The places of a sequence without its head.                                 *)
LEMMA Shortened ==
  ASSUME NEW S, NEW s \in Seq(S), s # << >>
  PROVE  /\ Tail(s) \in Seq(S) /\ Head(s) \in S /\ Head(s) = s[1] /\ 1 \in 1..Len(s)
         /\ Len(s) \in Nat /\ Len(Tail(s)) = Len(s) - 1
         /\ \A i \in 1..Len(Tail(s)) :
              Tail(s)[i] = s[i + 1] /\ i + 1 \in 1..Len(s) /\ 1 < i + 1
  BY HeadTailProperties, EmptySeq

(* Copying the first bytes of the buffer keeps the order.                     *)
LEMMA CopyKeepsOrder ==
  ASSUME NEW h \in Seq(Byte), NEW b \in Seq(Byte), NEW js \in Seq(JobType),
         NEW q \in Seq(Seq(Byte)), NEW n \in Nat, NEW k \in 0..Len(b),
         Ordered(h, b, js, q, n)
  PROVE  Ordered(h \o SubSeq(b, 1, k), SubSeq(b, k + 1, Len(b)), js, q, n)
  <1> DEFINE s == SubSeq(b, 1, k)
             r == SubSeq(b, k + 1, Len(b))
  <1>1. /\ s \in Seq(Byte) /\ r \in Seq(Byte) /\ Len(s) = k /\ Len(r) = Len(b) - k
        /\ \A i \in 1..k : s[i] = b[i]
        /\ \A i \in 1..Len(b) - k : r[i] = b[k + i]
    BY Split
  <1>2. /\ h \o s \in Seq(Byte) /\ Len(h \o s) = Len(h) + k
        /\ \A i \in 1..Len(h) + k : (h \o s)[i] = IF i <= Len(h) THEN h[i] ELSE s[i - Len(h)]
    <2> HIDE DEF s
    <2> QED BY <1>1, ConcatProperties, ZenonT(60)
  <1>3. Len(h) \in Nat /\ Len(b) \in Nat /\ k \in Nat
    BY LenProperties
  <1>4. /\ \A i \in 1..Len(h) : h[i] \in Nat
        /\ \A i \in 1..Len(b) : b[i] \in Nat
    BY ElementOfSeq, Natural
  <1> HIDE DEF s, r
  <1>a. ASSUME NEW i \in 1..Len(h \o s)
        PROVE  \/ i \in 1..Len(h) /\ (h \o s)[i] = h[i]
               \/ i - Len(h) \in 1..k /\ (h \o s)[i] = b[i - Len(h)] /\ i > Len(h)
    <2>1. i \in Nat /\ i <= Len(h) + k /\ i > 0
      BY <1>2, <1>3
    <2>2. CASE i <= Len(h)
      BY <1>2, <1>3, <2>1, <2>2
    <2>3. CASE i > Len(h)
      <3>1. i - Len(h) \in 1..k
        BY <1>3, <2>1, <2>3
      <3>2. (h \o s)[i] = s[i - Len(h)]
        BY <1>2, <1>3, <2>1, <2>3
      <3> QED BY <1>1, <2>3, <3>1, <3>2
    <2> QED BY <1>3, <2>1, <2>2, <2>3
  <1>b. ASSUME NEW i \in 1..Len(r)
        PROVE  k + i \in 1..Len(b) /\ r[i] = b[k + i] /\ i \in Nat /\ k + i > k
    BY <1>1, <1>3
  <1>c. ASSUME NEW i \in 1..k
        PROVE  i \in 1..Len(b)
    BY <1>3
  <1>5. ASSUME NEW t, Below(h, t), Below(b, t)
        PROVE  Below(h \o s, t) /\ Below(r, t)
    <2>1. Below(h \o s, t)
      BY <1>a, <1>c, <1>5 DEF Below
    <2>2. Below(r, t)
      BY <1>b, <1>5 DEF Below
    <2> QED BY <2>1, <2>2
  <1>6. Taken(h, b, n)
    BY DEF Ordered
  <1>7. Ascending(h \o s)
    <2> SUFFICES ASSUME NEW i \in 1..Len(h \o s), NEW j \in 1..Len(h \o s), i < j
                 PROVE  (h \o s)[i] < (h \o s)[j]
      BY DEF Ascending
    <2>1. CASE j \in 1..Len(h) /\ (h \o s)[j] = h[j]
      <3>1. i \in 1..Len(h) /\ (h \o s)[i] = h[i]
        BY <1>2, <1>3, <2>1
      <3> QED BY <1>6, <2>1, <3>1 DEF Taken, Ascending
    <2>2. CASE j - Len(h) \in 1..k /\ (h \o s)[j] = b[j - Len(h)]
      <3>1. CASE i \in 1..Len(h) /\ (h \o s)[i] = h[i]
        BY <1>c, <1>6, <2>2, <3>1 DEF Taken, Below
      <3>2. CASE i - Len(h) \in 1..k /\ (h \o s)[i] = b[i - Len(h)]
        <4>1. i - Len(h) < j - Len(h)
          BY <1>2, <1>3
        <4> QED BY <1>c, <1>6, <2>2, <3>2, <4>1 DEF Taken, Ascending
      <3> QED BY <1>a, <3>1, <3>2
    <2> QED BY <1>a, <2>1, <2>2
  <1>8. Ascending(r)
    <2> SUFFICES ASSUME NEW i \in 1..Len(r), NEW j \in 1..Len(r), i < j
                 PROVE  r[i] < r[j]
      BY DEF Ascending
    <2>1. k + i < k + j
      BY <1>1, <1>3
    <2> QED BY <1>b, <1>6, <2>1 DEF Taken, Ascending
  <1>9. Below(h \o s, r)
    <2> SUFFICES ASSUME NEW i \in 1..Len(h \o s), NEW j \in 1..Len(r)
                 PROVE  (h \o s)[i] < r[j]
      BY DEF Below
    <2>1. CASE i \in 1..Len(h) /\ (h \o s)[i] = h[i]
      BY <1>b, <1>6, <2>1 DEF Taken, Below
    <2>2. CASE i - Len(h) \in 1..k /\ (h \o s)[i] = b[i - Len(h)]
      <3>1. i - Len(h) < k + j
        BY <1>b, <1>3, <2>2
      <3> QED BY <1>b, <1>c, <1>6, <2>2, <3>1 DEF Taken, Ascending
    <2> QED BY <1>a, <2>1, <2>2
  <1>d. Within(h \o s, n) /\ Within(r, n)
    <2>1. Within(h \o s, n)
      BY <1>a, <1>c, <1>6 DEF Taken, Within
    <2>2. Within(r, n)
      BY <1>b, <1>6 DEF Taken, Within
    <2> QED BY <2>1, <2>2
  <1>10. Taken(h \o s, r, n)
    BY <1>7, <1>8, <1>9, <1>d DEF Taken
  <1>11. Pulled(h \o s, r, js, n)
    BY <1>5 DEF Ordered, Pulled
  <1>12. InQueue(h \o s, r, js, q, n)
    BY <1>5 DEF Ordered, InQueue
  <1> QED BY <1>10, <1>11, <1>12 DEF Ordered, s, r

(* The chunk of the first job may take the place of the buffer.               *)
LEMMA ChunkKeepsOrder ==
  ASSUME NEW h \in Seq(Byte), NEW b \in Seq(Byte), NEW js \in Seq(JobType),
         NEW q \in Seq(Seq(Byte)), NEW n \in Nat, js # << >>,
         Ordered(h, b, js, q, n)
  PROVE  Ordered(h, Head(js).chunk, Tail(js), q, n) /\ Ordered(h, b, Tail(js), q, n)
  <1>1. Tail(js) \in Seq(JobType)
    BY Shortened
  <1>2. Taken(h, Head(js).chunk, n) /\ Taken(h, b, n)
    BY <1>1 DEF Ordered, Taken, Pulled
  <1>3. Pulled(h, Head(js).chunk, Tail(js), n) /\ Pulled(h, b, Tail(js), n)
    BY <1>1, SMTT(30) DEF Ordered, Pulled
  <1>4. InQueue(h, Head(js).chunk, Tail(js), q, n) /\ InQueue(h, b, Tail(js), q, n)
    BY <1>1 DEF Ordered, InQueue
  <1> QED BY <1>2, <1>3, <1>4 DEF Ordered

(* A job without bytes does no harm.                                          *)
LEMMA PlainKeepsOrder ==
  ASSUME NEW h \in Seq(Byte), NEW b \in Seq(Byte), NEW js \in Seq(JobType),
         NEW q \in Seq(Seq(Byte)), NEW n \in Nat,
         Ordered(h, b, js, q, n), NEW job \in JobType, job.chunk = << >>
  PROVE  Ordered(h, b, Append(js, job), q, n)
  <1> DEFINE ks == Append(js, job)
  <1>1. /\ \A i \in 1..Len(ks) : (i \in 1..Len(js) /\ ks[i] = js[i]) \/ ks[i].chunk = << >>
        /\ \A i \in 1..Len(ks), j \in 1..Len(ks) : i < j => i \in 1..Len(js) /\ ks[i] = js[i]
    BY Appended
  <1>2. /\ Ascending(<< >>) /\ Within(<< >>, n)
        /\ \A s : Below(s, << >>) /\ Below(<< >>, s)
    BY EmptySeq DEF Ascending, Within, Below
  <1> HIDE DEF ks
  <1>3. Pulled(h, b, ks, n)
    <2> SUFFICES ASSUME NEW i \in 1..Len(ks)
                 PROVE  /\ Ascending(ks[i].chunk) /\ Within(ks[i].chunk, n)
                        /\ Below(h, ks[i].chunk) /\ Below(b, ks[i].chunk)
                        /\ \A j \in 1..Len(ks) : i < j => Below(ks[i].chunk, ks[j].chunk)
      BY DEF Pulled
    <2>1. CASE ks[i].chunk = << >>
      BY <1>2, <2>1
    <2>2. CASE i \in 1..Len(js) /\ ks[i] = js[i]
      BY <1>1, <1>2, <2>2 DEF Ordered, Pulled
    <2> QED BY <1>1, <2>1, <2>2
  <1>4. InQueue(h, b, ks, q, n)
    BY <1>1, <1>2 DEF Ordered, InQueue
  <1> QED BY <1>3, <1>4 DEF Ordered, ks

(* The oldest chunk of the queue may become a job.                            *)
LEMMA PullKeepsOrder ==
  ASSUME NEW h \in Seq(Byte), NEW b \in Seq(Byte), NEW js \in Seq(JobType),
         NEW q \in Seq(Seq(Byte)), NEW n \in Nat, q # << >>,
         Ordered(h, b, js, q, n), NEW job \in JobType, job.chunk = Head(q)
  PROVE  Ordered(h, b, Append(js, job), Tail(q), n)
  <1> DEFINE ks == Append(js, job)
             t == Tail(q)
  <1>1. /\ \A i \in 1..Len(ks) : (i \in 1..Len(js) /\ ks[i] = js[i]) \/ ks[i].chunk = q[1]
        /\ \A i \in 1..Len(ks), j \in 1..Len(ks) : i < j => i \in 1..Len(js) /\ ks[i] = js[i]
    BY Appended, Shortened, SMTT(30)
  <1>2. /\ \A i \in 1..Len(t) : t[i] = q[i + 1] /\ i + 1 \in 1..Len(q) /\ 1 < i + 1
        /\ \A i \in 1..Len(t), j \in 1..Len(t) : i < j => i + 1 < j + 1
        /\ 1 \in 1..Len(q)
    BY Shortened
  <1> HIDE DEF ks, t
  <1>3. Pulled(h, b, ks, n)
    <2> SUFFICES ASSUME NEW i \in 1..Len(ks)
                 PROVE  /\ Ascending(ks[i].chunk) /\ Within(ks[i].chunk, n)
                        /\ Below(h, ks[i].chunk) /\ Below(b, ks[i].chunk)
                        /\ \A j \in 1..Len(ks) : i < j => Below(ks[i].chunk, ks[j].chunk)
      BY DEF Pulled
    <2>1. /\ Ascending(ks[i].chunk) /\ Within(ks[i].chunk, n)
          /\ Below(h, ks[i].chunk) /\ Below(b, ks[i].chunk)
      BY <1>1, <1>2 DEF Ordered, Pulled, InQueue
    <2>2. ASSUME NEW j \in 1..Len(ks), i < j
          PROVE  Below(ks[i].chunk, ks[j].chunk)
      <3>1. i \in 1..Len(js) /\ ks[i] = js[i]
        BY <1>1, <2>2
      <3>2. CASE j \in 1..Len(js) /\ ks[j] = js[j]
        BY <2>2, <3>1, <3>2 DEF Ordered, Pulled
      <3>3. CASE ks[j].chunk = q[1]
        BY <1>2, <3>1, <3>3 DEF Ordered, InQueue
      <3> QED BY <1>1, <3>2, <3>3
    <2> QED BY <2>1, <2>2
  <1>4. InQueue(h, b, ks, t, n)
    <2> SUFFICES ASSUME NEW i \in 1..Len(t)
                 PROVE  /\ Ascending(t[i]) /\ Within(t[i], n)
                        /\ Below(h, t[i]) /\ Below(b, t[i])
                        /\ \A j \in 1..Len(ks) : Below(ks[j].chunk, t[i])
                        /\ \A j \in 1..Len(t) : i < j => Below(t[i], t[j])
      BY DEF InQueue
    <2> QED BY <1>1, <1>2 DEF Ordered, InQueue
  <1> QED BY <1>3, <1>4 DEF Ordered, ks, t

(* A new chunk is above all that was produced before.                         *)
LEMMA NewChunk ==
  ASSUME NEW n \in Nat, NEW size \in Nat, n + size <= MaxBytes,
         NEW c, c = [i \in 1..size |-> n + i]
  PROVE  /\ c \in Seq(Byte) /\ Ascending(c) /\ Within(c, n + size)
         /\ \A s \in Seq(Byte) : Within(s, n) => Below(s, c) /\ Within(s, n + size)
  <1>1. \A i \in 1..size : n + i \in 1..MaxBytes
    BY Natural
  <1>2. c \in [1..size -> Byte]
    BY <1>1 DEF Byte
  <1>3. c \in Seq(Byte) /\ Len(c) = size
    BY <1>2, SMTT(30)
  <1>4. \A i \in 1..Len(c) : c[i] = n + i /\ i \in Nat /\ 0 < i /\ i <= size
    BY <1>3
  <1>5. Ascending(c) /\ Within(c, n + size)
    BY <1>4 DEF Ascending, Within
  <1>6. ASSUME NEW s \in Seq(Byte), Within(s, n)
        PROVE  Below(s, c) /\ Within(s, n + size)
    <2>1. \A i \in 1..Len(s) : s[i] \in Nat /\ s[i] <= n
      BY <1>6, ElementOfSeq, Natural DEF Within
    <2>2. Below(s, c)
      BY <1>4, <2>1 DEF Below
    <2>3. Within(s, n + size)
      BY <2>1 DEF Within
    <2> QED BY <2>2, <2>3
  <1> QED BY <1>3, <1>5, <1>6

(* A new chunk may go to the stream, or, if that is empty, to a read.         *)
LEMMA ProduceKeepsOrder ==
  ASSUME NEW h \in Seq(Byte), NEW b \in Seq(Byte), NEW js \in Seq(JobType),
         NEW q \in Seq(Seq(Byte)), NEW n \in Nat, NEW size \in Nat, n + size <= MaxBytes,
         Ordered(h, b, js, q, n), NEW c, c = [i \in 1..size |-> n + i]
  PROVE  /\ Ordered(h, b, js, Append(q, c), n + size)
         /\ \A job \in JobType : job.chunk = c /\ q = << >> =>
              Ordered(h, b, Append(js, job), q, n + size)
  <1>1. /\ c \in Seq(Byte) /\ Ascending(c) /\ Within(c, n + size)
        /\ \A s \in Seq(Byte) : Within(s, n) => Below(s, c) /\ Within(s, n + size)
    BY NewChunk
  <1>2. /\ \A i \in 1..Len(js) : js[i].chunk \in Seq(Byte)
        /\ \A i \in 1..Len(q) : q[i] \in Seq(Byte)
    BY JobsTyped, ElementOfSeq
  <1>3. Taken(h, b, n + size) /\ Below(h, c) /\ Below(b, c)
    BY <1>1 DEF Ordered, Taken
  <1>4. Pulled(h, b, js, n + size) /\ \A i \in 1..Len(js) : Below(js[i].chunk, c)
    BY <1>1, <1>2 DEF Ordered, Pulled
  <1>5. InQueue(h, b, js, q, n + size) /\ \A i \in 1..Len(q) : Below(q[i], c)
    BY <1>1, <1>2 DEF Ordered, InQueue
  <1>6. InQueue(h, b, js, Append(q, c), n + size)
    <2> DEFINE r == Append(q, c)
    <2>1. /\ \A i \in 1..Len(r) : (i \in 1..Len(q) /\ r[i] = q[i]) \/ r[i] = c
          /\ \A i \in 1..Len(r), j \in 1..Len(r) : i < j => i \in 1..Len(q) /\ r[i] = q[i]
      BY <1>1, Appended
    <2> HIDE DEF r
    <2> SUFFICES ASSUME NEW i \in 1..Len(r)
                 PROVE  /\ Ascending(r[i]) /\ Within(r[i], n + size)
                        /\ Below(h, r[i]) /\ Below(b, r[i])
                        /\ \A j \in 1..Len(js) : Below(js[j].chunk, r[i])
                        /\ \A j \in 1..Len(r) : i < j => Below(r[i], r[j])
      BY DEF InQueue, r
    <2>2. /\ Ascending(r[i]) /\ Within(r[i], n + size)
          /\ Below(h, r[i]) /\ Below(b, r[i])
          /\ \A j \in 1..Len(js) : Below(js[j].chunk, r[i])
      BY <1>1, <1>3, <1>4, <1>5, <2>1 DEF InQueue
    <2>3. ASSUME NEW j \in 1..Len(r), i < j
          PROVE  Below(r[i], r[j])
      <3>1. i \in 1..Len(q) /\ r[i] = q[i]
        BY <2>1, <2>3
      <3>2. CASE j \in 1..Len(q) /\ r[j] = q[j]
        BY <1>5, <2>3, <3>1, <3>2 DEF InQueue
      <3>3. CASE r[j] = c
        BY <1>5, <3>1, <3>3
      <3> QED BY <2>1, <3>2, <3>3
    <2> QED BY <2>2, <2>3
  <1>7. ASSUME NEW job \in JobType, job.chunk = c, q = << >>
        PROVE  Ordered(h, b, Append(js, job), q, n + size)
    <2> DEFINE ks == Append(js, job)
    <2>1. /\ \A i \in 1..Len(ks) : (i \in 1..Len(js) /\ ks[i] = js[i]) \/ ks[i].chunk = c
          /\ \A i \in 1..Len(ks), j \in 1..Len(ks) : i < j => i \in 1..Len(js) /\ ks[i] = js[i]
      BY <1>7, Appended
    <2> HIDE DEF ks
    <2>2. Pulled(h, b, ks, n + size)
      <3> SUFFICES ASSUME NEW i \in 1..Len(ks)
                   PROVE  /\ Ascending(ks[i].chunk) /\ Within(ks[i].chunk, n + size)
                          /\ Below(h, ks[i].chunk) /\ Below(b, ks[i].chunk)
                          /\ \A j \in 1..Len(ks) : i < j => Below(ks[i].chunk, ks[j].chunk)
        BY DEF Pulled
      <3>1. /\ Ascending(ks[i].chunk) /\ Within(ks[i].chunk, n + size)
            /\ Below(h, ks[i].chunk) /\ Below(b, ks[i].chunk)
        BY <1>1, <1>3, <1>4, <2>1 DEF Pulled
      <3>2. ASSUME NEW j \in 1..Len(ks), i < j
            PROVE  Below(ks[i].chunk, ks[j].chunk)
        <4>1. i \in 1..Len(js) /\ ks[i] = js[i]
          BY <2>1, <3>2
        <4>2. CASE j \in 1..Len(js) /\ ks[j] = js[j]
          BY <1>4, <3>2, <4>1, <4>2 DEF Pulled
        <4>3. CASE ks[j].chunk = c
          BY <1>4, <4>1, <4>3
        <4> QED BY <2>1, <4>2, <4>3
      <3> QED BY <3>1, <3>2
    <2>3. InQueue(h, b, ks, q, n + size)
      BY <1>7, EmptySeq DEF InQueue
    <2> QED BY <1>3, <2>2, <2>3 DEF Ordered, ks
  <1> QED BY <1>3, <1>4, <1>6, <1>7 DEF Ordered

(* Reads that learn of the end bring no bytes.                                *)
LEMMA FinishKeepsOrder ==
  ASSUME NEW h \in Seq(Byte), NEW b \in Seq(Byte), NEW js \in Seq(JobType),
         NEW q \in Seq(Seq(Byte)), NEW n \in Nat, NEW ends \in Seq(JobType),
         Ordered(h, b, js, q, n), \A i \in 1..Len(ends) : ends[i].chunk = << >>,
         NEW r, r \in {q, << >>}
  PROVE  Ordered(h, b, js \o ends, r, n)
  <1> DEFINE ks == js \o ends
  <1>1. Len(js) \in Nat /\ Len(ends) \in Nat
    BY LenProperties
  <1>2. /\ Len(ks) = Len(js) + Len(ends)
        /\ \A i \in 1..Len(js) + Len(ends) :
             ks[i] = IF i <= Len(js) THEN js[i] ELSE ends[i - Len(js)]
    BY ConcatProperties
  <1>3. \A i \in 1..Len(ks) : (i \in 1..Len(js) /\ ks[i] = js[i]) \/ ks[i].chunk = << >>
    <2> SUFFICES ASSUME NEW i \in 1..Len(ks)
                 PROVE  (i \in 1..Len(js) /\ ks[i] = js[i]) \/ ks[i].chunk = << >>
      OBVIOUS
    <2> HIDE DEF ks
    <2>1. CASE i <= Len(js)
      BY <1>1, <1>2, <2>1
    <2>2. CASE ~(i <= Len(js))
      <3>1. ks[i] = ends[i - Len(js)] /\ i - Len(js) \in 1..Len(ends)
        BY <1>1, <1>2, <2>2
      <3> QED BY <3>1
    <2> QED BY <2>1, <2>2
  <1>4. /\ Ascending(<< >>) /\ Within(<< >>, n)
        /\ \A s : Below(s, << >>) /\ Below(<< >>, s)
    BY EmptySeq DEF Ascending, Within, Below
  <1> HIDE DEF ks
  <1>5. Pulled(h, b, ks, n)
    <2> SUFFICES ASSUME NEW i \in 1..Len(ks)
                 PROVE  /\ Ascending(ks[i].chunk) /\ Within(ks[i].chunk, n)
                        /\ Below(h, ks[i].chunk) /\ Below(b, ks[i].chunk)
                        /\ \A j \in 1..Len(ks) : i < j => Below(ks[i].chunk, ks[j].chunk)
      BY DEF Pulled
    <2>1. CASE ks[i].chunk = << >>
      BY <1>4, <2>1
    <2>2. CASE i \in 1..Len(js) /\ ks[i] = js[i]
      BY <1>3, <1>4, <2>2 DEF Ordered, Pulled
    <2> QED BY <1>3, <2>1, <2>2
  <1>6. InQueue(h, b, ks, q, n)
    BY <1>3, <1>4 DEF Ordered, InQueue
  <1>7. InQueue(h, b, ks, << >>, n)
    BY EmptySeq DEF InQueue
  <1> QED BY <1>5, <1>6, <1>7 DEF Ordered, ks

--------------------------------------------------------------------------------

(* A change of state of an activation that waits for nothing (and has not     *)
(* returned).                                                                 *)
LEMMA StateChange ==
  ASSUME NEW js \in Seq(JobType), NEW ws \in Seq(Act), NEW st \in [Act -> AnyState],
         Reactions(js, ws, st), NEW p \in Act, NoReaction(p, js, ws), st[p] # "returned",
         NEW t, NEW st2, st2 = [st EXCEPT ![p] = t]
  PROVE  Reactions(js, ws, st2)
  <1>1. \A r \in Act : r # p => st2[r] = st[r]
    OBVIOUS
  <1>2. \A i \in 1..Len(js) : js[i] \in JobType /\ js[i].act \in Act
    BY JobsTyped
  <1>3. \A i \in 1..Len(ws) : ws[i] \in Act
    BY ElementOfSeq
  <1>4. \A i \in 1..Len(js) : MayRun(js[i], st2)
    BY <1>1, <1>2, ActAssumption DEF Reactions, MayRun, NoReaction
  <1> QED BY <1>1, <1>2, <1>3, <1>4 DEF Reactions, NoReaction

(* Who is not suspended waits for nothing.                                    *)
LEMMA NotReading ==
  ASSUME NEW js \in Seq(JobType), NEW ws \in Seq(Act), NEW st,
         Reactions(js, ws, st), NEW p \in Act, st[p] \notin {"reading", "resuming"}
  PROVE  NoReaction(p, js, ws)
  BY DEF Reactions, MayRun, NoReaction

(* The first microtask leaves the queue.                                      *)
LEMMA FirstJob ==
  ASSUME NEW js \in Seq(JobType), NEW ws \in Seq(Act), NEW st,
         Reactions(js, ws, st), js # << >>
  PROVE  /\ Reactions(Tail(js), ws, st) /\ MayRun(Head(js), st)
         /\ Head(js).kind # "fd_close" => NoReaction(Head(js).act, Tail(js), ws)
  <1> DEFINE t == Tail(js)
  <1>1. /\ Head(js) = js[1] /\ 1 \in 1..Len(js)
        /\ \A i \in 1..Len(t) : t[i] = js[i + 1] /\ i + 1 \in 1..Len(js) /\ 1 # i + 1
        /\ \A i \in 1..Len(t), j \in 1..Len(t) : i # j => i + 1 # j + 1
    BY Shortened
  <1> HIDE DEF t
  <1>2. Reactions(t, ws, st)
    <2> SUFFICES /\ \A i \in 1..Len(t) :
                      /\ MayRun(t[i], st)
                      /\ \A j \in 1..Len(t) :
                           i # j /\ Reaction(t[i]) /\ Reaction(t[j]) => t[i].act # t[j].act
                      /\ \A j \in 1..Len(ws) : Reaction(t[i]) => t[i].act # ws[j]
      BY DEF Reactions
    <2>1. ASSUME NEW i \in 1..Len(t)
          PROVE  MayRun(t[i], st) /\ \A j \in 1..Len(ws) : Reaction(t[i]) => t[i].act # ws[j]
      <3>1. t[i] = js[i + 1] /\ i + 1 \in 1..Len(js)
        BY <1>1
      <3>2. \A k \in 1..Len(js) :
              MayRun(js[k], st) /\ \A j \in 1..Len(ws) : Reaction(js[k]) => js[k].act # ws[j]
        BY Zenon DEF Reactions
      <3> QED BY <3>1, <3>2, Zenon
    <2>2. ASSUME NEW i \in 1..Len(t), NEW j \in 1..Len(t),
                 i # j, Reaction(t[i]), Reaction(t[j])
          PROVE  t[i].act # t[j].act
      <3>1. t[i] = js[i + 1] /\ i + 1 \in 1..Len(js) /\ t[j] = js[j + 1] /\ j + 1 \in 1..Len(js)
        BY <1>1
      <3>2. i + 1 # j + 1
        BY <1>1, <2>2
      <3>3. \A k, l \in 1..Len(js) :
              k # l /\ Reaction(js[k]) /\ Reaction(js[l]) => js[k].act # js[l].act
        BY Zenon DEF Reactions
      <3> QED BY <2>2, <3>1, <3>2, <3>3, Zenon
    <2> QED BY <2>1, <2>2
  <1>3. Head(js).kind # "fd_close" => NoReaction(Head(js).act, t, ws)
    BY <1>1 DEF Reactions, NoReaction, Reaction
  <1> QED BY <1>1, <1>2, <1>3 DEF t, Reactions

(* A microtask for an activation that waits for nothing else.                 *)
LEMMA NewJob ==
  ASSUME NEW js \in Seq(JobType), NEW ws \in Seq(Act), NEW st,
         Reactions(js, ws, st), NEW job \in JobType, MayRun(job, st),
         Reaction(job) => NoReaction(job.act, js, ws)
  PROVE  Reactions(Append(js, job), ws, st)
  <1> DEFINE ks == Append(js, job)
  <1>1. /\ \A i \in 1..Len(ks) : (i \in 1..Len(js) /\ ks[i] = js[i]) \/ ks[i] = job
        /\ \A i \in 1..Len(ks), j \in 1..Len(ks) :
             i # j => (i \in 1..Len(js) /\ ks[i] = js[i]) \/ (j \in 1..Len(js) /\ ks[j] = js[j])
    BY Appended
  <1> HIDE DEF ks
  <1>2. ASSUME NEW i \in 1..Len(ks)
        PROVE  /\ MayRun(ks[i], st)
               /\ \A j \in 1..Len(ws) : Reaction(ks[i]) => ks[i].act # ws[j]
    BY <1>1 DEF Reactions, NoReaction
  <1>3. ASSUME NEW i \in 1..Len(ks), NEW j \in 1..Len(ks),
               i # j, Reaction(ks[i]), Reaction(ks[j])
        PROVE  ks[i].act # ks[j].act
    BY <1>1, <1>3 DEF Reactions, NoReaction
  <1> QED BY <1>2, <1>3 DEF Reactions, ks

(* A read begins to wait.                                                     *)
LEMMA NewWait ==
  ASSUME NEW js \in Seq(JobType), NEW ws \in Seq(Act), NEW st,
         Reactions(js, ws, st), NEW p \in Act, st[p] = "reading", NoReaction(p, js, ws)
  PROVE  Reactions(js, Append(ws, p), st)
  <1> DEFINE v == Append(ws, p)
  <1>1. /\ \A i \in 1..Len(v) : (i \in 1..Len(ws) /\ v[i] = ws[i]) \/ v[i] = p
        /\ \A i \in 1..Len(v), j \in 1..Len(v) :
             i # j => (i \in 1..Len(ws) /\ v[i] = ws[i]) \/ (j \in 1..Len(ws) /\ v[j] = ws[j])
    BY Appended
  <1> HIDE DEF v
  <1> QED BY <1>1 DEF Reactions, NoReaction, v

(* The read that waits longest is served.                                     *)
LEMMA FirstWait ==
  ASSUME NEW js \in Seq(JobType), NEW ws \in Seq(Act), NEW st,
         Reactions(js, ws, st), ws # << >>
  PROVE  /\ Reactions(js, Tail(ws), st) /\ st[Head(ws)] = "reading"
         /\ Head(ws) \in Act /\ NoReaction(Head(ws), js, Tail(ws))
  <1> DEFINE t == Tail(ws)
  <1>1. /\ Head(ws) = ws[1] /\ Head(ws) \in Act /\ 1 \in 1..Len(ws)
        /\ \A i \in 1..Len(t) : t[i] = ws[i + 1] /\ i + 1 \in 1..Len(ws) /\ 1 # i + 1
        /\ \A i \in 1..Len(t), j \in 1..Len(t) : i # j => i + 1 # j + 1
    BY Shortened
  <1> HIDE DEF t
  <1> QED BY <1>1, SMTT(30) DEF Reactions, NoReaction, t

(* The reactions of all reads that wait.                                      *)
Wakes(ws, how) == [i \in 1..Len(ws) |-> Plain(ws[i], how)]

(* Every read that waits learns how the input ended.                          *)
LEMMA AllWake ==
  ASSUME NEW js \in Seq(JobType), NEW ws \in Seq(Act), NEW st,
         Reactions(js, ws, st), NEW how \in {"closed", "errored"},
         NEW ends, ends = Wakes(ws, how)
  PROVE  /\ ends \in Seq(JobType) /\ js \o ends \in Seq(JobType)
         /\ \A i \in 1..Len(ends) : ends[i].chunk = << >>
         /\ \A i \in 1..Len(js \o ends) :
              \/ i \in 1..Len(js) /\ (js \o ends)[i] = js[i]
              \/ (js \o ends)[i].kind = how
         /\ Reactions(js \o ends, << >>, st)
  <1>1. Len(js) \in Nat /\ Len(ws) \in Nat /\ \A i \in 1..Len(ws) : ws[i] \in Act
    BY LenProperties, ElementOfSeq
  <1>2. ASSUME NEW i \in 1..Len(ws)
        PROVE  /\ ends[i] \in JobType /\ ends[i].chunk = << >>
               /\ ends[i].act = ws[i] /\ ends[i].kind = how
    <2>1. how \in Kind /\ ws[i] \in Act
      BY <1>1 DEF Kind
    <2>2. ends[i] = Plain(ws[i], how)
      BY DEF Wakes
    <2> QED BY <2>1, <2>2, PlainTyped
  <1>3. ends \in Seq(JobType) /\ Len(ends) = Len(ws)
    <2>1. ends \in [1..Len(ws) -> JobType]
      BY <1>2 DEF Wakes
    <2> QED BY <1>1, <2>1
  <1> DEFINE ks == js \o ends
  <1>4. /\ Len(ks) = Len(js) + Len(ws)
        /\ ks \in Seq(JobType)
        /\ \A i \in 1..Len(js) + Len(ws) :
             ks[i] = IF i <= Len(js) THEN js[i] ELSE ends[i - Len(js)]
    <2>1. /\ ks \in Seq(JobType) /\ Len(ks) = Len(js) + Len(ends)
          /\ \A i \in 1..Len(js) + Len(ends) :
               ks[i] = IF i <= Len(js) THEN js[i] ELSE ends[i - Len(js)]
      <3>1. \A s \in Seq(JobType), t \in Seq(JobType) :
              /\ s \o t \in Seq(JobType) /\ Len(s \o t) = Len(s) + Len(t)
              /\ \A i \in 1..Len(s) + Len(t) :
                   (s \o t)[i] = IF i <= Len(s) THEN s[i] ELSE t[i - Len(s)]
        BY ConcatProperties
      <3> QED BY <1>3, <3>1
    <2> HIDE DEF ks
    <2> QED BY <1>3, <2>1
  <1> HIDE DEF ks
  <1>5. ASSUME NEW i \in 1..Len(ks)
        PROVE  \/ i \in 1..Len(js) /\ ks[i] = js[i]
               \/ /\ i - Len(js) \in 1..Len(ws)
                  /\ ks[i].act = ws[i - Len(js)] /\ ks[i].kind = how
    <2>1. CASE i <= Len(js)
      BY <1>1, <1>4, <2>1
    <2>2. CASE ~(i <= Len(js))
      <3>1. i - Len(js) \in 1..Len(ws) /\ ks[i] = ends[i - Len(js)]
        BY <1>1, <1>4, <2>2
      <3> QED BY <1>2, <3>1
    <2> QED BY <2>1, <2>2
  <1>6. ASSUME NEW i \in 1..Len(ks)
        PROVE  MayRun(ks[i], st)
    <2>1. CASE i \in 1..Len(js) /\ ks[i] = js[i]
      BY <2>1 DEF Reactions
    <2>2. CASE i - Len(js) \in 1..Len(ws) /\ ks[i].act = ws[i - Len(js)] /\ ks[i].kind = how
      BY <2>2 DEF Reactions, MayRun, Reaction
    <2> QED BY <1>5, <2>1, <2>2
  <1>7. ASSUME NEW i \in 1..Len(ks), NEW j \in 1..Len(ks),
               i # j, Reaction(ks[i]), Reaction(ks[j])
        PROVE  ks[i].act # ks[j].act
    <2>1. i \in Int /\ j \in Int /\ i - Len(js) # j - Len(js)
      BY <1>1, <1>7
    <2>2. /\ \A k \in 1..Len(js), l \in 1..Len(js) :
               k # l /\ Reaction(js[k]) /\ Reaction(js[l]) => js[k].act # js[l].act
          /\ \A k \in 1..Len(js), l \in 1..Len(ws) : Reaction(js[k]) => js[k].act # ws[l]
          /\ \A k \in 1..Len(ws), l \in 1..Len(ws) : k # l => ws[k] # ws[l]
      BY Zenon DEF Reactions
    <2>3. CASE i \in 1..Len(js) /\ ks[i] = js[i] /\ j \in 1..Len(js) /\ ks[j] = js[j]
      BY <1>7, <2>2, <2>3, Zenon
    <2>4. CASE /\ i \in 1..Len(js) /\ ks[i] = js[i]
               /\ j - Len(js) \in 1..Len(ws) /\ ks[j].act = ws[j - Len(js)]
      BY <1>7, <2>2, <2>4, Zenon
    <2>5. CASE /\ j \in 1..Len(js) /\ ks[j] = js[j]
               /\ i - Len(js) \in 1..Len(ws) /\ ks[i].act = ws[i - Len(js)]
      BY <1>7, <2>2, <2>5
    <2>6. CASE /\ i - Len(js) \in 1..Len(ws) /\ ks[i].act = ws[i - Len(js)]
               /\ j - Len(js) \in 1..Len(ws) /\ ks[j].act = ws[j - Len(js)]
      BY <2>1, <2>2, <2>6, Zenon
    <2> QED BY <1>5, <2>3, <2>4, <2>5, <2>6, Zenon
  <1>8. Reactions(ks, << >>, st)
    BY <1>6, <1>7, EmptySeq DEF Reactions
  <1> QED BY <1>2, <1>3, <1>4, <1>5, <1>8 DEF ks

--------------------------------------------------------------------------------

(* Ends is kept when a microtask leaves,                                      *)
LEMMA EndsOfTail ==
  ASSUME NEW js \in Seq(JobType), NEW src, NEW wt, NEW gt,
         Ends(js, src, wt, gt), js # << >>
  PROVE  Ends(Tail(js), src, wt, gt) /\ Truthful(Head(js), src, wt, gt)
  BY Shortened DEF Ends

(* when one joins,                                                            *)
LEMMA EndsOfAppend ==
  ASSUME NEW js \in Seq(JobType), NEW src, NEW wt, NEW gt, NEW job \in JobType,
         Ends(js, src, wt, gt), Truthful(job, src, wt, gt)
  PROVE  Ends(Append(js, job), src, wt, gt)
  <1> DEFINE ks == Append(js, job)
  <1>1. \A i \in 1..Len(ks) : (i \in 1..Len(js) /\ ks[i] = js[i]) \/ ks[i] = job
    BY Appended
  <1> HIDE DEF ks
  <1> QED BY <1>1 DEF Ends, ks

(* and when an activation that waits for nothing begins a read.               *)
LEMMA EndsOfOthers ==
  ASSUME NEW js \in Seq(JobType), NEW ws, NEW src, NEW wt \in [Act -> Nat], NEW gt \in [Act -> Nat],
         Ends(js, src, wt, gt), NEW p \in Act, NoReaction(p, js, ws),
         NEW w \in Nat, NEW g \in Nat,
         NEW wt2, wt2 = [wt EXCEPT ![p] = w], NEW gt2, gt2 = [gt EXCEPT ![p] = g]
  PROVE  Ends(js, src, wt2, gt2)
  <1>1. \A i \in 1..Len(js) : js[i] \in JobType /\ js[i].act \in Act
    BY JobsTyped
  <1> QED BY <1>1 DEF Ends, Truthful, NoReaction, Reaction

--------------------------------------------------------------------------------
(* What a read does.                                                          *)

(* The outcome of a pull, or of a read that is done, for the jobs.            *)
Pulls(p, rest) ==
  \/ jobs' = rest /\ waiting' = Append(waiting, p) /\ queue' = queue
     /\ queue = << >> /\ source = "open"
  \/ /\ waiting' = waiting /\ (queue # << >> \/ queue' = queue)
     /\ \E job \in JobType :
          /\ jobs' = Append(rest, job)
          /\ job.act = p /\ job.kind \in {"chunk", "closed", "errored", "result"}
          /\ Truthful(job, source, want', got')

(* The loops of readv keep types and order, and end in a pull or a result.    *)
LEMMA LoopStep ==
  ASSUME NEW p \in Act, NEW buffer \in Seq(Byte), NEW size \in Nat, NEW read \in 0..size,
         NEW rest \in Seq(JobType), TypedIn, TypedReads,
         Ordered(handed, buffer, rest, queue, produced),
         Loop(p, buffer, size, read, rest)
  PROVE  /\ TypedIn' /\ TypedReads' /\ jobs' \in Seq(JobType) /\ InOrder'
         /\ source' = source /\ produced' = produced
         /\ \E w \in Nat, g \in Nat :
              want' = [want EXCEPT ![p] = w] /\ got' = [got EXCEPT ![p] = g]
         /\ Pulls(p, rest)
  <1> DEFINE k == Bytes(size - read, buffer)
  <1>1. Len(buffer) \in Nat /\ read \in Nat /\ size - read \in Nat
    BY LenProperties
  <1>2. k \in 0..Len(buffer) /\ read + k <= size /\ read + k \in Nat
    BY <1>1 DEF Bytes
  <1>3. /\ SubSeq(buffer, 1, k) \in Seq(Byte) /\ SubSeq(buffer, k + 1, Len(buffer)) \in Seq(Byte)
        /\ Ordered(handed \o SubSeq(buffer, 1, k), SubSeq(buffer, k + 1, Len(buffer)),
                   rest, queue, produced)
    <2>1. produced \in Nat
      BY Natural DEF TypedIn
    <2> QED BY <1>2, <2>1, Split, CopyKeepsOrder DEF TypedReads, TypedIn
  <1>4. /\ inbuf' = SubSeq(buffer, k + 1, Len(buffer))
        /\ handed' = handed \o SubSeq(buffer, 1, k)
        /\ want' = [want EXCEPT ![p] = size] /\ got' = [got EXCEPT ![p] = read + k]
        /\ IF read + k = size
           THEN jobs' = Append(rest, Plain(p, "result")) /\ UNCHANGED stdin
           ELSE Pull(p, rest)
    BY DEF Loop, Rest, Filled
  <1> HIDE DEF k
  <1>5. TypedReads'
    <2>1. handed' \in Seq(Byte)
      BY <1>3, <1>4, ConcatProperties DEF TypedReads
    <2>2. /\ want' \in [Act -> Nat] /\ got' \in [Act -> Nat]
          /\ \A r \in Act : got'[r] <= want'[r]
      BY <1>2, <1>4 DEF TypedReads
    <2> QED BY <1>3, <1>4, <2>1, <2>2 DEF TypedReads
  <1>6. want'[p] = size /\ got'[p] = read + k
    BY <1>4 DEF TypedReads
  <1>7. Ordered(handed', inbuf', rest, queue, produced)
    BY <1>3, <1>4
  <1>8. produced \in Nat /\ handed' \in Seq(Byte) /\ inbuf' \in Seq(Byte) /\ queue \in Seq(Seq(Byte))
    BY <1>5, Natural DEF TypedReads, TypedIn
  <1>9. source' = source /\ produced' = produced
    BY <1>4 DEF Pull, stdin
  <1>10. CASE read + k = size
    <2>1. jobs' = Append(rest, Plain(p, "result")) /\ UNCHANGED <<source, queue, waiting, produced>>
      BY <1>4, <1>10 DEF stdin
    <2>2. /\ Plain(p, "result") \in JobType /\ Plain(p, "result").act = p
          /\ Plain(p, "result").kind = "result" /\ Plain(p, "result").chunk = << >>
      BY JobTyped, EmptySeq DEF Kind
    <2>3. jobs' \in Seq(JobType) /\ InOrder'
      BY <1>7, <1>8, <2>1, <2>2, Appended, PlainKeepsOrder DEF InOrder
    <2>4. Truthful(Plain(p, "result"), source, want', got')
      BY <1>1, <1>2, <1>6, <1>10, <2>2 DEF Truthful
    <2>5. Pulls(p, rest)
      BY <2>1, <2>2, <2>4 DEF Pulls
    <2>6. TypedIn'
      BY <2>1 DEF TypedIn
    <2> QED BY <1>2, <1>4, <1>5, <1>9, <2>3, <2>5, <2>6
  <1>11. CASE read + k # size
    <2>1. Pull(p, rest)
      BY <1>4, <1>11
    <2>2. CASE /\ queue # << >> /\ queue' = Tail(queue)
               /\ jobs' = Append(rest, Job(p, "chunk", Head(queue))) /\ UNCHANGED waiting
      <3>1. Head(queue) \in Seq(Byte) /\ queue' \in Seq(Seq(Byte))
        BY <1>8, <2>2, Shortened
      <3>2. /\ Job(p, "chunk", Head(queue)) \in JobType
            /\ Job(p, "chunk", Head(queue)).chunk = Head(queue)
            /\ Job(p, "chunk", Head(queue)).act = p /\ Job(p, "chunk", Head(queue)).kind = "chunk"
        BY <3>1, JobTyped DEF Kind
      <3>3. jobs' \in Seq(JobType) /\ InOrder'
        BY <1>7, <1>8, <1>9, <2>2, <3>2, Appended, PullKeepsOrder DEF InOrder
      <3>4. Pulls(p, rest)
        BY <2>2, <3>2 DEF Pulls, Truthful
      <3>5. TypedIn'
        BY <1>9, <2>2, <3>1 DEF TypedIn
      <3> QED BY <1>2, <1>4, <1>5, <1>9, <3>3, <3>4, <3>5
    <2>3. CASE /\ queue = << >> /\ source # "open"
               /\ jobs' = Append(rest, Plain(p, IF source = "none" THEN "result" ELSE source))
               /\ UNCHANGED <<queue, waiting>>
      <3> DEFINE kind == IF source = "none" THEN "result" ELSE source
      <3>1. kind \in {"closed", "errored", "result"} /\ kind \in Kind
        BY <2>3 DEF Kind, TypedIn
      <3>2. /\ Plain(p, kind) \in JobType /\ Plain(p, kind).act = p
            /\ Plain(p, kind).kind = kind /\ Plain(p, kind).chunk = << >>
        BY <3>1, JobTyped, EmptySeq
      <3>3. Truthful(Plain(p, kind), source, want', got')
        BY <2>3, <3>2 DEF Truthful, TypedIn
      <3> HIDE DEF kind
      <3>4. jobs' = Append(rest, Plain(p, kind))
        BY <2>3 DEF kind
      <3>a. Ordered(handed', inbuf', jobs', queue, produced)
        BY <1>7, <1>8, <3>2, <3>4, PlainKeepsOrder
      <3>b. jobs' \in Seq(JobType)
        BY <3>2, <3>4, Appended
      <3>5. jobs' \in Seq(JobType) /\ InOrder'
        BY <1>9, <2>3, <3>a, <3>b DEF InOrder
      <3>6. Pulls(p, rest)
        BY <2>3, <3>1, <3>2, <3>3, <3>4 DEF Pulls
      <3>7. TypedIn'
        BY <1>9, <2>3 DEF TypedIn
      <3> QED BY <1>2, <1>4, <1>5, <1>9, <3>5, <3>6, <3>7
    <2>4. CASE /\ queue = << >> /\ source = "open"
               /\ waiting' = Append(waiting, p) /\ jobs' = rest /\ UNCHANGED queue
      <3>1. jobs' \in Seq(JobType) /\ InOrder'
        BY <1>7, <1>9, <2>4 DEF InOrder
      <3>2. Pulls(p, rest)
        BY <2>4 DEF Pulls
      <3>3. TypedIn'
        BY <1>9, <2>4, Appended DEF TypedIn
      <3> QED BY <1>2, <1>4, <1>5, <1>9, <3>1, <3>2, <3>3
    <2> QED BY <2>1, <2>2, <2>3, <2>4 DEF Pull
  <1> QED BY <1>10, <1>11

(* The rest of the invariant, once the read of p is the only thing p does.    *)
LEMMA LoopKeepsJobs ==
  ASSUME NEW p \in Act, NEW rest \in Seq(JobType), TypedIn, TypedReads, NEW st,
         Reactions(rest, waiting, st), NoReaction(p, rest, waiting), st[p] = "reading",
         WaitsForMore, Ends(rest, source, want, got),
         source' = source, Pulls(p, rest), NEW w \in Nat, NEW g \in Nat,
         want' = [want EXCEPT ![p] = w], got' = [got EXCEPT ![p] = g]
  PROVE  /\ Reactions(jobs', waiting', st) /\ WaitsForMore'
         /\ Ends(jobs', source', want', got')
  <1>1. Ends(rest, source, want', got')
    BY EndsOfOthers DEF TypedReads
  <1>2. waiting \in Seq(Act)
    BY DEF TypedIn
  <1>3. CASE /\ jobs' = rest /\ waiting' = Append(waiting, p) /\ queue' = queue
             /\ queue = << >> /\ source = "open"
    BY <1>1, <1>2, <1>3, NewWait DEF WaitsForMore
  <1>4. CASE /\ waiting' = waiting /\ (queue # << >> \/ queue' = queue)
             /\ \E job \in JobType :
                  /\ jobs' = Append(rest, job)
                  /\ job.act = p /\ job.kind \in {"chunk", "closed", "errored", "result"}
                  /\ Truthful(job, source, want', got')
    <2>1. PICK job \in JobType :
            /\ jobs' = Append(rest, job)
            /\ job.act = p /\ job.kind \in {"chunk", "closed", "errored", "result"}
            /\ Truthful(job, source, want', got')
      BY <1>4
    <2>2. MayRun(job, st)
      BY <2>1 DEF MayRun, Reaction
    <2>3. Reactions(jobs', waiting', st)
      BY <1>2, <1>4, <2>1, <2>2, NewJob
    <2>4. Ends(jobs', source', want', got')
      BY <1>1, <2>1, EndsOfAppend
    <2> QED BY <1>4, <2>3, <2>4 DEF WaitsForMore
  <1> QED BY <1>3, <1>4 DEF Pulls

--------------------------------------------------------------------------------
(* The invariant holds at first, and every action keeps it.                   *)

(* The invariant holds at first.                                              *)
LEMMA Initial == Init => IInv
  <1> SUFFICES ASSUME Init PROVE IInv
    OBVIOUS
  <1>1. 0 \in 0..MaxBytes /\ 0 \in 0..MaxGrow /\ 0 \in 0..MaxWrites
    BY Natural
  <1>2. << >> \in Seq(Seq(Byte)) /\ << >> \in Seq(Act) /\ << >> \in Seq(Byte)
        /\ << >> \in Seq(JobType) /\ Len(<< >>) = 0
    BY EmptySeq
  <1>3. << >> \in Seq(1..MaxWrites) /\ << >> \in Seq(0..MaxWrites)
        /\ << >> \in Seq([buffer : Buffer, on : 0..MaxGrow])
    BY EmptySeq
  <1>4. Typed
    <2>1. TypedIn /\ TypedReads
      BY <1>1, <1>2 DEF Init, TypedIn, TypedReads
    <2>2. TypedGuest
      BY <1>1 DEF Init, TypedGuest
    <2>3. TypedOut
      BY <1>3 DEF Init, TypedOut, Stream
    <2>4. state \in [Act -> AnyState]
      BY DEF Init, AnyState, State
    <2> QED BY <1>2, <2>1, <2>2, <2>3, <2>4 DEF Typed, Init
  <1>5. InOrder
    BY <1>2 DEF Init, InOrder, Ordered, Taken, Pulled, InQueue, Ascending, Below, Within
  <1>6. Reactions(jobs, waiting, state) /\ WaitsForMore /\ Ends(jobs, source, want, got)
    BY <1>2 DEF Init, Reactions, WaitsForMore, Ends
  <1> QED BY <1>4, <1>5, <1>6 DEF IInv

(* A running activation is in no queue, so its state may become any but that  *)
(* of a reading one.                                                          *)
LEMMA Moves ==
  ASSUME IInv, NEW p \in Act, state[p] \in {"new", "running", "fetching"},
         NEW s \in AnyState, Become(p, s),
         UNCHANGED <<stdin, inbuf, handed, want, got, view, memory, jobs>>,
         TypedGuest', TypedOut'
  PROVE  IInv'
  <1>1. NoReaction(p, jobs, waiting)
    BY NotReading DEF IInv, Typed, TypedIn
  <1>2. Reactions(jobs, waiting, state')
    BY <1>1, StateChange DEF IInv, Typed, TypedIn, Become
  <1>3. UNCHANGED <<source, queue, waiting, produced>>
    BY DEF stdin
  <1>4. state' \in [Act -> AnyState]
    BY DEF Become, IInv, Typed
  <1>5. Typed'
    BY <1>3, <1>4 DEF IInv, Typed, TypedIn, TypedReads
  <1> QED BY <1>2, <1>3, <1>5 DEF IInv, InOrder, WaitsForMore

(* Steps that leave stdin and the microtasks alone keep what is said of them. *)
LEMMA KeepsStreams == 
  ASSUME IInv, UNCHANGED <<guest, written, out>>
  PROVE  TypedGuest' /\ TypedOut'
  BY DEF IInv, Typed, TypedGuest, TypedOut, guest

(* run keeps the invariant,                                                   *)
LEMMA RunKeeps ==
  ASSUME IInv, NEW p \in Act, run(p) \/ proc_exit(p) \/ unreachable(p) \/ clock_time_get(p)
  PROVE  IInv'
  <1>1. /\ UNCHANGED <<stdin, inbuf, handed, want, got, view, memory, jobs, guest, written, out>>
        /\ state[p] \in {"new", "running", "fetching"}
        /\ \E s \in AnyState : Become(p, s)
    BY DEF run, proc_exit, unreachable, clock_time_get, reads, guest, AnyState, State
  <1> QED BY <1>1, Moves, KeepsStreams

(* and return, which queues the closing of the streams,                       *)
LEMMA ReturnKeeps ==
  ASSUME IInv, NEW p \in Act, return(p)
  PROVE  IInv'
  <1>1. /\ UNCHANGED <<source, queue, waiting, produced, inbuf, handed, want, got, view, memory, content, written, out>>
        /\ state[p] = "running" /\ Become(p, "returned")
        /\ jobs' = IF p = Main THEN Append(jobs, Plain(p, "fd_close")) ELSE jobs
    BY DEF return, stdin, reads, guest
  <1>2. Reactions(jobs, waiting, state')
    <2>1. NoReaction(p, jobs, waiting)
      BY <1>1, NotReading DEF IInv, Typed, TypedIn
    <2> QED BY <1>1, <2>1, StateChange DEF IInv, Typed, TypedIn, Become
  <1>3. state' \in [Act -> AnyState] /\ state'[p] = "returned"
    BY <1>1 DEF Become, IInv, Typed, AnyState, State
  <1>4. /\ Plain(p, "fd_close") \in JobType /\ Plain(p, "fd_close").act = p
        /\ Plain(p, "fd_close").kind = "fd_close" /\ Plain(p, "fd_close").chunk = << >>
    BY JobTyped, EmptySeq DEF Kind
  <1>5. jobs' \in Seq(JobType)
    BY <1>1, <1>4, Appended DEF IInv, Typed
  <1>6. Typed'
    BY <1>1, <1>3, <1>5 DEF IInv, Typed, TypedIn, TypedReads, TypedGuest, TypedOut
  <1>7. CASE p # Main
    <2>1. jobs' = jobs
      BY <1>1, <1>7
    <2> QED BY <1>1, <1>2, <1>6, <2>1 DEF IInv, InOrder, WaitsForMore
  <1>8. CASE p = Main
    <2>1. jobs' = Append(jobs, Plain(p, "fd_close"))
      BY <1>1, <1>8
    <2>2. MayRun(Plain(p, "fd_close"), state') /\ ~Reaction(Plain(p, "fd_close"))
      BY <1>3, <1>4, <1>8 DEF MayRun, Reaction
    <2>3. jobs \in Seq(JobType) /\ waiting \in Seq(Act) /\ handed \in Seq(Byte)
          /\ inbuf \in Seq(Byte) /\ queue \in Seq(Seq(Byte)) /\ produced \in Nat
      BY Natural DEF IInv, Typed, TypedIn, TypedReads
    <2>4. Reactions(jobs', waiting, state')
      BY <1>2, <1>4, <2>1, <2>2, <2>3, NewJob
    <2>5. Ordered(handed, inbuf, jobs', queue, produced)
      BY <1>4, <2>1, <2>3, PlainKeepsOrder DEF IInv, InOrder
    <2>6. Ends(jobs', source, want, got)
      <3>1. Truthful(Plain(p, "fd_close"), source, want, got)
        BY <1>4 DEF Truthful
      <3> QED BY <1>4, <2>1, <2>3, <3>1, EndsOfAppend DEF IInv
    <2> QED BY <1>1, <1>6, <2>4, <2>5, <2>6 DEF IInv, InOrder, WaitsForMore
  <1> QED BY <1>7, <1>8

(* A step that takes the first microtask and moves its activation on.         *)
LEMMA Takes ==
  ASSUME IInv, jobs # << >>
  PROVE  /\ Tail(jobs) \in Seq(JobType) /\ Head(jobs).act \in Act
         /\ Head(jobs).chunk \in Seq(Byte)
         /\ Ordered(handed, Head(jobs).chunk, Tail(jobs), queue, produced)
         /\ Ordered(handed, inbuf, Tail(jobs), queue, produced)
         /\ Reactions(Tail(jobs), waiting, state) /\ MayRun(Head(jobs), state)
         /\ Head(jobs).kind # "fd_close" => NoReaction(Head(jobs).act, Tail(jobs), waiting)
         /\ Ends(Tail(jobs), source, want, got) /\ Truthful(Head(jobs), source, want, got)
  <1>1. jobs \in Seq(JobType) /\ waiting \in Seq(Act) /\ handed \in Seq(Byte)
        /\ inbuf \in Seq(Byte) /\ queue \in Seq(Seq(Byte)) /\ produced \in Nat
    BY Natural DEF IInv, Typed, TypedIn, TypedReads
  <1>2. Tail(jobs) \in Seq(JobType) /\ Head(jobs) = jobs[1] /\ 1 \in 1..Len(jobs)
    BY <1>1, Shortened
  <1>3. Head(jobs).act \in Act /\ Head(jobs).chunk \in Seq(Byte)
    BY <1>1, <1>2, JobsTyped
  <1>4. /\ Ordered(handed, Head(jobs).chunk, Tail(jobs), queue, produced)
        /\ Ordered(handed, inbuf, Tail(jobs), queue, produced)
    BY <1>1, ChunkKeepsOrder DEF IInv, InOrder
  <1>5. /\ Reactions(Tail(jobs), waiting, state) /\ MayRun(Head(jobs), state)
        /\ Head(jobs).kind # "fd_close" => NoReaction(Head(jobs).act, Tail(jobs), waiting)
    BY <1>1, FirstJob DEF IInv
  <1>6. Ends(Tail(jobs), source, want, got) /\ Truthful(Head(jobs), source, want, got)
    BY <1>1, EndsOfTail DEF IInv
  <1> QED BY <1>2, <1>3, <1>4, <1>5, <1>6

(* The parts of the invariant when only jobs and states change.               *)
LEMMA JobsChange ==
  ASSUME IInv, UNCHANGED <<stdin, reads, guest, written>>,
         TypedOut', state' \in [Act -> AnyState], jobs' \in Seq(JobType),
         Ordered(handed, inbuf, jobs', queue, produced),
         Reactions(jobs', waiting, state'), Ends(jobs', source, want, got)
  PROVE  IInv'
  <1>1. UNCHANGED <<source, queue, waiting, produced, inbuf, handed, want, got, view, memory, content>>
    BY DEF stdin, reads, guest
  <1>2. Typed'
    BY <1>1 DEF IInv, Typed, TypedIn, TypedReads, TypedGuest
  <1> QED BY <1>1, <1>2 DEF IInv, InOrder, WaitsForMore

(* memory_grow keeps the invariant,                                           *)
LEMMA GrowKeeps ==
  ASSUME IInv, NEW p \in Act, memory_grow(p)
  PROVE  IInv'
  <1>1. /\ UNCHANGED <<source, queue, waiting, produced, inbuf, handed, want, got, view, content, jobs, state, written, out>>
        /\ memory' = memory + 1 /\ memory < MaxGrow
    BY DEF memory_grow, stdin, reads
  <1>2. memory' \in 0..MaxGrow
    BY <1>1, Natural DEF IInv, Typed, TypedGuest
  <1>3. Typed'
    BY <1>1, <1>2 DEF IInv, Typed, TypedIn, TypedReads, TypedGuest, TypedOut
  <1> QED BY <1>1, <1>3 DEF IInv, InOrder, WaitsForMore

(* and fd_write, whether the stream takes the chunk or throws,                *)
LEMMA WriteKeeps ==
  ASSUME IInv, NEW p \in Act, NEW fd \in Std, NEW b \in Buffer, fd_write(p, fd, b)
  PROVE  IInv'
  <1>1. /\ UNCHANGED <<stdin, inbuf, handed, want, got, view, memory, jobs>>
        /\ state[p] = "running" /\ Writes < MaxWrites
        /\ content' = [content EXCEPT ![b] = Writes + 1]
    BY DEF fd_write, reads
  <1>2. Writes + 1 \in 1..MaxWrites
    <2>1. written[1] \in Seq(1..MaxWrites) /\ written[2] \in Seq(1..MaxWrites)
      BY DEF IInv, Typed, TypedOut, Std
    <2>2. Len(written[1]) \in Nat /\ Len(written[2]) \in Nat
      BY <2>1, LenProperties
    <2>a. \A m \in Nat, n \in Nat : m + n \in Nat
      OBVIOUS
    <2>b. Len(written[1]) + Len(written[2]) \in Nat
      BY <2>2, <2>a
    <2>3. Writes \in Nat
      BY <2>b DEF Writes
    <2> QED BY <1>1, <2>3, Natural
  <1>3. TypedGuest'
    BY <1>1, <1>2 DEF IInv, Typed, TypedGuest
  <1>4. CASE /\ out[fd].state = "open"
             /\ out' = [out EXCEPT ![fd].queue = Append(@, [buffer |-> b, on |-> memory])]
             /\ written' = [written EXCEPT ![fd] = Append(@, Writes + 1)]
             /\ UNCHANGED state
    <2>1. out[fd] \in Stream /\ [buffer |-> b, on |-> memory] \in [buffer : Buffer, on : 0..MaxGrow]
      BY DEF IInv, Typed, TypedOut, TypedGuest
    <2>2. Append(out[fd].queue, [buffer |-> b, on |-> memory]) \in Seq([buffer : Buffer, on : 0..MaxGrow])
      BY <2>1, Appended DEF Stream
    <2>3. out' \in [Std -> Stream]
      BY <1>4, <2>1, <2>2 DEF IInv, Typed, TypedOut, Stream
    <2>4. Append(written[fd], Writes + 1) \in Seq(1..MaxWrites)
      BY <1>2, Appended DEF IInv, Typed, TypedOut
    <2>5. TypedOut'
      BY <1>4, <2>3, <2>4 DEF IInv, Typed, TypedOut
    <2>6. UNCHANGED <<source, queue, waiting, produced>>
      BY <1>1 DEF stdin
    <2>7. Typed'
      BY <1>1, <1>3, <1>4, <2>5, <2>6 DEF IInv, Typed, TypedIn, TypedReads
    <2> QED BY <1>1, <1>4, <2>6, <2>7 DEF IInv, InOrder, WaitsForMore
  <1>5. CASE out[fd].state # "open" /\ Become(p, "failed") /\ UNCHANGED <<out, written>>
    <2>1. TypedOut'
      BY <1>5 DEF IInv, Typed, TypedOut
    <2> QED BY <1>1, <1>3, <1>5, <2>1, Moves DEF AnyState, State
  <1> QED BY <1>4, <1>5 DEF fd_write, Controller

(* and fd_read.                                                               *)
LEMMA ReadKeeps ==
  ASSUME IInv, NEW p \in Act, NEW size \in ReadSizes, fd_read(p, size)
  PROVE  IInv'
  <1>1. /\ state[p] = "running" /\ Become(p, "reading")
        /\ view' = [view EXCEPT ![p] = memory]
        /\ Loop(p, inbuf, size, 0, jobs)
        /\ UNCHANGED <<memory, content, written, out>>
    BY DEF fd_read
  <1>2. size \in Nat /\ 0 \in 0..size
    BY BoundAssumption
  <1>3. /\ inbuf \in Seq(Byte) /\ jobs \in Seq(JobType) /\ TypedIn /\ TypedReads
        /\ waiting \in Seq(Act)
    BY DEF IInv, Typed, TypedReads, TypedIn
  <1>4. /\ TypedIn' /\ TypedReads' /\ jobs' \in Seq(JobType) /\ InOrder'
        /\ source' = source /\ Pulls(p, jobs)
        /\ \E w \in Nat, g \in Nat :
             want' = [want EXCEPT ![p] = w] /\ got' = [got EXCEPT ![p] = g]
    BY <1>1, <1>2, <1>3, LoopStep DEF IInv, InOrder
  <1>5. state' \in [Act -> AnyState] /\ state'[p] = "reading"
    BY <1>1 DEF Become, IInv, Typed, AnyState, State
  <1>6. NoReaction(p, jobs, waiting)
    BY <1>1, <1>3, NotReading DEF IInv
  <1>7. Reactions(jobs, waiting, state')
    BY <1>1, <1>3, <1>6, StateChange DEF IInv, Typed, Become
  <1>8. Reactions(jobs', waiting', state') /\ WaitsForMore' /\ Ends(jobs', source', want', got')
    BY <1>3, <1>4, <1>5, <1>6, <1>7, LoopKeepsJobs DEF IInv
  <1>9. TypedGuest' /\ TypedOut'
    BY <1>1 DEF IInv, Typed, TypedGuest, TypedOut
  <1> QED BY <1>4, <1>5, <1>8, <1>9 DEF IInv, Typed

(* A reaction that throws into the guest keeps the invariant,                 *)
LEMMA FailsKeeps ==
  ASSUME IInv, NEW p \in Act, jobs # << >>, Head(jobs).act = p, Head(jobs).kind # "fd_close",
         Fails(p), inbuf' \in {inbuf, Head(jobs).chunk}
  PROVE  IInv'
  <1>1. /\ UNCHANGED <<source, queue, waiting, produced, handed, want, got, view, memory, content, written, out>>
        /\ Become(p, "failed") /\ jobs' = Tail(jobs)
    BY DEF Fails, stdin, guest
  <1>2. /\ jobs' \in Seq(JobType) /\ inbuf' \in Seq(Byte)
        /\ Ordered(handed, inbuf', jobs', queue, produced)
        /\ Reactions(jobs', waiting, state) /\ MayRun(Head(jobs), state)
        /\ NoReaction(p, jobs', waiting) /\ Ends(jobs', source, want, got)
    BY <1>1, Takes DEF IInv, Typed, TypedReads
  <1>3. Reactions(jobs', waiting, state')
    <2>1. state[p] # "returned"
      BY <1>2 DEF MayRun, Reaction
    <2> QED BY <1>1, <1>2, <2>1, StateChange DEF IInv, Typed, TypedIn, Become
  <1>4. state' \in [Act -> AnyState]
    BY <1>1 DEF Become, IInv, Typed, AnyState, State
  <1>5. Typed'
    BY <1>1, <1>2, <1>4 DEF IInv, Typed, TypedIn, TypedReads, TypedGuest, TypedOut
  <1> QED BY <1>1, <1>2, <1>3, <1>5 DEF IInv, InOrder, WaitsForMore

(* and a chunk that continues a read,                                         *)
LEMMA ChunkKeeps ==
  ASSUME IInv, NEW p \in Act, got_chunk(p)
  PROVE  IInv'
  <1>1. jobs # << >> /\ Head(jobs).act = p /\ Head(jobs).kind = "chunk"
    BY DEF got_chunk, Runs
  <1>2. CASE Detached(p) /\ Fails(p) /\ inbuf' = Head(jobs).chunk
    BY <1>1, <1>2, FailsKeeps
  <1>3. CASE /\ ~Detached(p) /\ Loop(p, Head(jobs).chunk, want[p], got[p], Tail(jobs))
             /\ UNCHANGED <<state, guest, written, out>>
    <2>1. /\ Tail(jobs) \in Seq(JobType) /\ Head(jobs).chunk \in Seq(Byte)
          /\ Ordered(handed, Head(jobs).chunk, Tail(jobs), queue, produced)
          /\ Reactions(Tail(jobs), waiting, state) /\ state[p] = "reading"
          /\ NoReaction(p, Tail(jobs), waiting) /\ Ends(Tail(jobs), source, want, got)
      BY <1>1, Takes DEF MayRun, Reaction
    <2>2. want[p] \in Nat /\ got[p] \in 0..want[p] /\ TypedIn /\ TypedReads
      BY DEF IInv, Typed, TypedReads
    <2>3. /\ TypedIn' /\ TypedReads' /\ jobs' \in Seq(JobType) /\ InOrder'
          /\ source' = source /\ Pulls(p, Tail(jobs))
          /\ \E w \in Nat, g \in Nat :
               want' = [want EXCEPT ![p] = w] /\ got' = [got EXCEPT ![p] = g]
      BY <1>3, <2>1, <2>2, LoopStep
    <2>4. Reactions(jobs', waiting', state) /\ WaitsForMore' /\ Ends(jobs', source', want', got')
      BY <2>1, <2>2, <2>3, LoopKeepsJobs DEF IInv
    <2>5. TypedGuest' /\ TypedOut'
      BY <1>3, KeepsStreams
    <2> QED BY <1>3, <2>3, <2>4, <2>5 DEF IInv, Typed
  <1> QED BY <1>2, <1>3 DEF got_chunk

(* A microtask of p, or the end of a fetch, that queues another for p.        *)
LEMMA NextJob ==
  ASSUME IInv, NEW p \in Act, NEW rest \in Seq(JobType),
         Ordered(handed, inbuf, rest, queue, produced), NoReaction(p, rest, waiting),
         NEW st \in [Act -> AnyState], Reactions(rest, waiting, st),
         Ends(rest, source, want, got), UNCHANGED <<stdin, reads, guest, written, out>>,
         NEW kind \in {"result", "resume"}, st[p] \in {"reading", "resuming"},
         kind # "resume" => st[p] = "reading",
         Truthful(Plain(p, kind), source, want, got),
         state' = st, jobs' = Append(rest, Plain(p, kind))
  PROVE  IInv'
  <1>1. /\ Plain(p, kind) \in JobType /\ Plain(p, kind).act = p
        /\ Plain(p, kind).kind = kind /\ Plain(p, kind).chunk = << >>
    <2>1. kind \in Kind
      BY DEF Kind
    <2> QED BY <2>1, PlainTyped
  <1>2. /\ waiting \in Seq(Act) /\ handed \in Seq(Byte) /\ produced \in Nat
        /\ inbuf \in Seq(Byte) /\ queue \in Seq(Seq(Byte))
    BY Natural DEF IInv, Typed, TypedIn, TypedReads
  <1>3. MayRun(Plain(p, kind), st)
    BY <1>1 DEF MayRun, Reaction
  <1>4. Reactions(jobs', waiting, state')
    BY <1>1, <1>2, <1>3, NewJob
  <1>5. Ordered(handed, inbuf, jobs', queue, produced)
    BY <1>1, <1>2, PlainKeepsOrder
  <1>6. Ends(jobs', source, want, got)
    BY <1>1, EndsOfAppend
  <1>7. jobs' \in Seq(JobType)
    BY <1>1, Appended
  <1>8. TypedOut'
    BY KeepsStreams
  <1> QED BY <1>4, <1>5, <1>6, <1>7, <1>8, JobsChange

(* and so every microtask.                                                    *)
LEMMA MicrotaskKeeps ==
  ASSUME IInv, NEW p \in Act, Microtask(p)
  PROVE  IInv'
  <1>1. CASE got_chunk(p)
    BY <1>1, ChunkKeeps
  <1>2. CASE got_done(p)
    <2>1. /\ jobs # << >> /\ Head(jobs).act = p /\ Head(jobs).kind = "closed"
          /\ jobs' = Append(Tail(jobs), Plain(p, "result"))
          /\ UNCHANGED <<stdin, reads, guest, state, written, out>>
      BY <1>2 DEF got_done, Runs
    <2>2. /\ Tail(jobs) \in Seq(JobType) /\ Ordered(handed, inbuf, Tail(jobs), queue, produced)
          /\ Reactions(Tail(jobs), waiting, state) /\ state[p] = "reading" /\ source = "closed"
          /\ NoReaction(p, Tail(jobs), waiting) /\ Ends(Tail(jobs), source, want, got)
      BY <2>1, Takes DEF MayRun, Reaction, Truthful
    <2>3. Truthful(Plain(p, "result"), source, want, got)
      BY <2>2 DEF Truthful, Plain, Job
    <2>4. state \in [Act -> AnyState]
      BY DEF IInv, Typed
    <2> QED BY <2>1, <2>2, <2>3, <2>4, NextJob
  <1>3. CASE got_error(p)
    BY <1>3, FailsKeeps DEF got_error, Runs
  <1>4. CASE store_result(p)
    <2>1. jobs # << >> /\ Head(jobs).act = p /\ Head(jobs).kind = "result"
      BY <1>4 DEF store_result, Runs
    <2>2. CASE Detached(p) /\ Fails(p) /\ UNCHANGED inbuf
      BY <2>1, <2>2, FailsKeeps
    <2>3. CASE /\ jobs' = Append(Tail(jobs), Plain(p, "resume"))
               /\ UNCHANGED <<stdin, reads, guest, state, written, out>>
      <3>1. /\ Tail(jobs) \in Seq(JobType) /\ Ordered(handed, inbuf, Tail(jobs), queue, produced)
            /\ Reactions(Tail(jobs), waiting, state) /\ state[p] = "reading"
            /\ NoReaction(p, Tail(jobs), waiting) /\ Ends(Tail(jobs), source, want, got)
        BY <2>1, Takes DEF MayRun, Reaction
      <3>2. Truthful(Plain(p, "resume"), source, want, got)
        BY DEF Truthful, Plain, Job
      <3>3. state \in [Act -> AnyState]
        BY DEF IInv, Typed
      <3> QED BY <2>3, <3>1, <3>2, <3>3, NextJob
    <2> QED BY <1>4, <2>2, <2>3 DEF store_result
  <1>5. CASE resume(p)
    <2>1. /\ jobs # << >> /\ Head(jobs).act = p /\ Head(jobs).kind = "resume"
          /\ jobs' = Tail(jobs) /\ Become(p, "running")
          /\ UNCHANGED <<stdin, reads, guest, written, out>>
      BY <1>5 DEF resume, Runs
    <2>2. /\ jobs' \in Seq(JobType) /\ Ordered(handed, inbuf, jobs', queue, produced)
          /\ Reactions(jobs', waiting, state) /\ state[p] \in {"reading", "resuming"}
          /\ NoReaction(p, jobs', waiting) /\ Ends(jobs', source, want, got)
      BY <2>1, Takes DEF MayRun, Reaction
    <2>3. Reactions(jobs', waiting, state')
      BY <2>1, <2>2, StateChange DEF IInv, Typed, TypedIn, Become
    <2>4. state' \in [Act -> AnyState]
      BY <2>1 DEF Become, IInv, Typed, AnyState, State
    <2>5. TypedOut'
      BY <2>1, KeepsStreams
    <2> QED BY <2>1, <2>2, <2>3, <2>4, <2>5, JobsChange
  <1>6. CASE fd_close(p)
    <2>1. /\ jobs # << >> /\ jobs' = Tail(jobs)
          /\ out' = IF out[1].state # "open" THEN out
                    ELSE [out EXCEPT ![1].state = "closed",
                                     ![2].state = IF @ = "open" THEN "closed" ELSE @]
          /\ UNCHANGED <<stdin, reads, guest, state, written>>
      BY <1>6 DEF fd_close, Runs
    <2>2. /\ jobs' \in Seq(JobType) /\ Ordered(handed, inbuf, jobs', queue, produced)
          /\ Reactions(jobs', waiting, state') /\ Ends(jobs', source, want, got)
      BY <2>1, Takes
    <2>3. TypedOut'
      <3>1. out[1] \in Stream /\ out[2] \in Stream /\ out \in [Std -> Stream]
        BY DEF IInv, Typed, TypedOut, Std
      <3>2. out' \in [Std -> Stream]
        BY <2>1, <3>1 DEF Std, Stream
      <3> QED BY <2>1, <3>2 DEF IInv, Typed, TypedOut
    <2>4. state' \in [Act -> AnyState]
      BY <2>1 DEF IInv, Typed
    <2> QED BY <2>1, <2>2, <2>3, <2>4, JobsChange
  <1> QED BY <1>1, <1>2, <1>3, <1>4, <1>5, <1>6 DEF Microtask

(* So do an answer to fetch,                                                  *)
LEMMA FetchedKeeps ==
  ASSUME IInv, NEW p \in Act, fetched(p)
  PROVE  IInv'
  <1>1. state[p] = "fetching" /\ UNCHANGED <<stdin, reads, guest, written, out>>
    BY DEF fetched
  <1>2. CASE Become(p, "failed") /\ UNCHANGED jobs
    BY <1>1, <1>2, Moves, KeepsStreams DEF AnyState, State, reads, guest
  <1>3. CASE Become(p, "resuming") /\ jobs' = Append(jobs, Plain(p, "resume"))
    <2>1. /\ jobs \in Seq(JobType) /\ waiting \in Seq(Act)
          /\ NoReaction(p, jobs, waiting)
      BY <1>1, NotReading DEF IInv, Typed, TypedIn
    <2>2. Reactions(jobs, waiting, state')
      BY <1>1, <1>3, <2>1, StateChange DEF IInv, Typed, Become
    <2>3. state' \in [Act -> AnyState] /\ state'[p] = "resuming"
      BY <1>3 DEF Become, IInv, Typed, AnyState, State
    <2>4. Truthful(Plain(p, "resume"), source, want, got)
      BY DEF Truthful, Plain, Job
    <2>5. Ordered(handed, inbuf, jobs, queue, produced) /\ Ends(jobs, source, want, got)
      BY DEF IInv, InOrder
    <2> QED BY <1>1, <1>3, <2>1, <2>2, <2>3, <2>4, <2>5, NextJob
  <1> QED BY <1>2, <1>3 DEF fetched

(* every step of a guest,                                                     *)
LEMMA GuestKeeps ==
  ASSUME IInv, NEW p \in Act, Guest(p)
  PROVE  IInv'
  BY RunKeeps, ReturnKeeps, GrowKeeps, ReadKeeps, WriteKeeps DEF Guest

(* a chunk of the source,                                                     *)
LEMMA ProduceKeeps ==
  ASSUME IInv, NEW size \in ChunkSizes, produce(size)
  PROVE  IInv'
  <1> DEFINE chunk == [i \in 1..size |-> produced + i]
  <1>1. /\ source = "open" /\ produced + size <= MaxBytes /\ produced' = produced + size
        /\ UNCHANGED <<source, inbuf, handed, want, got, view, memory, content, state, written, out>>
    BY DEF produce, reads, guest
  <1>2. size \in Nat
    BY BoundAssumption
  <1>3. /\ produced \in Nat /\ handed \in Seq(Byte) /\ inbuf \in Seq(Byte)
        /\ queue \in Seq(Seq(Byte)) /\ jobs \in Seq(JobType) /\ waiting \in Seq(Act)
        /\ Ordered(handed, inbuf, jobs, queue, produced)
    BY Natural DEF IInv, InOrder, Typed, TypedIn, TypedReads
  <1>4. chunk \in Seq(Byte)
    BY <1>1, <1>2, <1>3, NewChunk
  <1>5. produced' \in 0..MaxBytes
    BY <1>1, <1>2, <1>3, Natural
  <1> HIDE DEF chunk
  <1>6. /\ Ordered(handed, inbuf, jobs, Append(queue, chunk), produced')
        /\ \A job \in JobType : job.chunk = chunk /\ queue = << >> =>
             Ordered(handed, inbuf, Append(jobs, job), queue, produced')
    BY <1>1, <1>2, <1>3, ProduceKeepsOrder DEF chunk
  <1>7. CASE /\ waiting = << >> /\ queue' = Append(queue, chunk) /\ UNCHANGED <<waiting, jobs>>
    <2>1. queue' \in Seq(Seq(Byte))
      BY <1>3, <1>4, <1>7, Appended
    <2>2. Typed'
      BY <1>1, <1>5, <1>7, <2>1 DEF IInv, Typed, TypedIn, TypedReads, TypedGuest, TypedOut
    <2> QED BY <1>1, <1>6, <1>7, <2>2 DEF IInv, InOrder, WaitsForMore
  <1>8. CASE /\ waiting # << >> /\ waiting' = Tail(waiting)
             /\ jobs' = Append(jobs, Job(Head(waiting), "chunk", chunk)) /\ UNCHANGED queue
    <2> DEFINE job == Job(Head(waiting), "chunk", chunk)
    <2>1. /\ Reactions(jobs, Tail(waiting), state) /\ state[Head(waiting)] = "reading"
          /\ Head(waiting) \in Act /\ NoReaction(Head(waiting), jobs, Tail(waiting))
      BY <1>3, <1>8, FirstWait DEF IInv
    <2>2. /\ job \in JobType /\ job.chunk = chunk /\ job.act = Head(waiting) /\ job.kind = "chunk"
      BY <1>4, <2>1, JobTyped DEF Kind
    <2> HIDE DEF job
    <2>3. jobs' = Append(jobs, job)
      BY <1>8 DEF job
    <2>4. queue = << >>
      BY <1>8 DEF IInv, WaitsForMore
    <2>5. MayRun(job, state) /\ Truthful(job, source, want, got)
      BY <2>1, <2>2 DEF MayRun, Reaction, Truthful
    <2>6. waiting' \in Seq(Act) /\ jobs' \in Seq(JobType)
      BY <1>3, <1>8, <2>2, <2>3, Shortened, Appended
    <2>7. Reactions(jobs', waiting', state)
      BY <1>3, <1>8, <2>1, <2>2, <2>3, <2>5, <2>6, NewJob
    <2>8. Ends(jobs', source, want, got)
      BY <1>3, <2>2, <2>3, <2>5, EndsOfAppend DEF IInv
    <2>9. Ordered(handed, inbuf, jobs', queue, produced')
      BY <1>6, <2>2, <2>3, <2>4
    <2>10. Typed'
      BY <1>1, <1>5, <1>8, <2>6 DEF IInv, Typed, TypedIn, TypedReads, TypedGuest, TypedOut
    <2>11. WaitsForMore'
      BY <1>1, <1>8, <2>4 DEF WaitsForMore
    <2> QED BY <1>1, <1>8, <2>7, <2>8, <2>9, <2>10, <2>11 DEF IInv, InOrder
  <1> QED BY <1>7, <1>8 DEF produce, chunk

(* its end or its error,                                                      *)
LEMMA FinishKeeps ==
  ASSUME IInv, NEW how \in {"closed", "errored"}, finish(how)
  PROVE  IInv'
  <1> DEFINE ends == Wakes(waiting, how)
  <1>1. /\ source = "open" /\ source' = how /\ waiting' = << >> /\ jobs' = jobs \o ends
        /\ queue' \in {queue, << >>}
        /\ UNCHANGED <<produced, inbuf, handed, want, got, view, memory, content, state, written, out>>
    BY DEF finish, reads, guest, Wakes
  <1>2. /\ produced \in Nat /\ handed \in Seq(Byte) /\ inbuf \in Seq(Byte)
        /\ queue \in Seq(Seq(Byte)) /\ jobs \in Seq(JobType) /\ waiting \in Seq(Act)
        /\ Ordered(handed, inbuf, jobs, queue, produced)
        /\ Reactions(jobs, waiting, state)
    BY Natural DEF IInv, InOrder, Typed, TypedIn, TypedReads
  <1>3. /\ ends \in Seq(JobType) /\ jobs \o ends \in Seq(JobType)
        /\ \A i \in 1..Len(ends) : ends[i].chunk = << >>
        /\ \A i \in 1..Len(jobs \o ends) :
             \/ i \in 1..Len(jobs) /\ (jobs \o ends)[i] = jobs[i]
             \/ (jobs \o ends)[i].kind = how
        /\ Reactions(jobs \o ends, << >>, state)
    BY <1>2, AllWake, SMTT(30)
  <1> HIDE DEF ends
  <1>4. Ordered(handed, inbuf, jobs', queue', produced)
    BY <1>1, <1>2, <1>3, FinishKeepsOrder
  <1>5. Ends(jobs', source', want, got)
    <2> SUFFICES ASSUME NEW i \in 1..Len(jobs') PROVE Truthful(jobs'[i], how, want, got)
      BY <1>1 DEF Ends
    <2>1. CASE jobs'[i].kind = how
      BY <2>1 DEF Truthful
    <2>2. CASE i \in 1..Len(jobs) /\ jobs'[i] = jobs[i]
      BY <1>1, <2>2 DEF IInv, Ends, Truthful
    <2> QED BY <1>1, <1>3, <2>1, <2>2
  <1>6. Typed'
    <2>1. queue' \in Seq(Seq(Byte)) /\ waiting' \in Seq(Act) /\ jobs' \in Seq(JobType)
      BY <1>1, <1>2, <1>3, EmptySeq
    <2> QED BY <1>1, <2>1 DEF IInv, Typed, TypedIn, TypedReads, TypedGuest, TypedOut
  <1> QED BY <1>1, <1>3, <1>4, <1>5, <1>6 DEF IInv, InOrder, WaitsForMore

(* the consumers of the output,                                               *)
LEMMA ConsumersKeep ==
  ASSUME IInv, NEW fd \in Std, consume(fd) \/ cancel(fd)
  PROVE  IInv'
  <1>1. UNCHANGED <<stdin, reads, guest, jobs, state, written>>
    BY DEF consume, cancel
  <1>2. TypedOut'
    <2>1. /\ out \in [Std -> Stream] /\ out[fd] \in Stream
          /\ content \in [Buffer -> 0..MaxWrites] /\ 0 \in 0..MaxWrites
      BY Natural DEF IInv, Typed, TypedOut, TypedGuest
    <2>2. CASE consume(fd)
      <3>1. /\ out[fd].queue # << >>
            /\ out' = [out EXCEPT ![fd].queue = Tail(@),
                                  ![fd].consumed = Append(@, IF Head(out[fd].queue).on = memory
                                                THEN content[Head(out[fd].queue).buffer] ELSE 0)]
        BY <2>2 DEF consume
      <3> DEFINE v == IF Head(out[fd].queue).on = memory
                      THEN content[Head(out[fd].queue).buffer] ELSE 0
      <3>2. out[fd].queue \in Seq([buffer : Buffer, on : 0..MaxGrow])
            /\ out[fd].consumed \in Seq(0..MaxWrites) /\ out[fd].state \in {"open", "closed", "cancelled"}
        BY <2>1 DEF Stream
      <3>3. /\ Head(out[fd].queue) \in [buffer : Buffer, on : 0..MaxGrow]
            /\ Tail(out[fd].queue) \in Seq([buffer : Buffer, on : 0..MaxGrow])
        BY <3>1, <3>2, Shortened
      <3>4. v \in 0..MaxWrites
        BY <2>1, <3>3
      <3> HIDE DEF v
      <3>5. Append(out[fd].consumed, v) \in Seq(0..MaxWrites)
        BY <3>2, <3>4, Appended
      <3>6. out' = [out EXCEPT ![fd].queue = Tail(@), ![fd].consumed = Append(@, v)]
        BY <3>1 DEF v
      <3>7. out' \in [Std -> Stream]
        BY <2>1, <3>2, <3>3, <3>5, <3>6 DEF Stream
      <3> QED BY <1>1, <3>7 DEF IInv, Typed, TypedOut
    <2>3. CASE cancel(fd)
      <3>1. << >> \in Seq([buffer : Buffer, on : 0..MaxGrow])
        BY EmptySeq
      <3>2. out' = [out EXCEPT ![fd].state = "cancelled", ![fd].queue = << >>]
        BY <2>3 DEF cancel
      <3>3. out' \in [Std -> Stream]
        BY <2>1, <3>1, <3>2 DEF Stream
      <3> QED BY <1>1, <3>3 DEF IInv, Typed, TypedOut
    <2> QED BY <2>2, <2>3
  <1>3. UNCHANGED <<source, queue, waiting, produced, inbuf, handed, want, got, view, memory, content>>
    BY <1>1 DEF stdin, reads, guest
  <1>4. Typed'
    BY <1>1, <1>2, <1>3 DEF IInv, Typed, TypedIn, TypedReads, TypedGuest
  <1> QED BY <1>1, <1>3, <1>4 DEF IInv, InOrder, WaitsForMore

(* and steps of others.                                                       *)
LEMMA StutterKeeps ==
  ASSUME IInv, UNCHANGED vars
  PROVE  IInv'
  BY DEF vars, stdin, reads, guest, IInv, Typed, TypedIn, TypedReads, TypedGuest, TypedOut,
         InOrder, WaitsForMore

(* Every step keeps the invariant.                                            *)
LEMMA Inductive == IInv /\ [Next]_vars => IInv'
  BY RunKeeps, GuestKeeps, MicrotaskKeeps, FetchedKeeps, ProduceKeeps, FinishKeeps,
     ConsumersKeep, StutterKeeps DEF Next, Environment

(* The invariant holds of every behaviour, whatever the activations, the      *)
(* sizes of chunks and reads and the interleaving of guest, source and        *)
(* consumers (Wasi.ts 148-198, Instance.ts 34).                               *)
THEOREM StdioInvariance == Spec => []IInv
  BY Initial, Inductive, PTL DEF Spec

--------------------------------------------------------------------------------

(* Without loops no activation is scheduled or unwound.                       *)
LEMMA StatesStay ==
  Spec => [](state \in [Act -> State])
  <1>1. Init => state \in [Act -> State]
    BY DEF Init, State
  <1>2. (state \in [Act -> State]) /\ [Next]_vars => (state \in [Act -> State])'
    <2>1. ASSUME state \in [Act -> State], NEW p \in Act, NEW s \in State, Become(p, s)
          PROVE  state' \in [Act -> State]
      BY <2>1 DEF Become
    <2>2. ASSUME state \in [Act -> State], Next
          PROVE  UNCHANGED state \/ \E p \in Act, s \in State : Become(p, s)
      BY <2>2 DEF Next, run, Guest, return, proc_exit, unreachable, memory_grow, clock_time_get,
         fd_read, fd_write, Microtask, got_chunk, got_done, got_error, store_result, resume,
         fd_close, fetched, Environment, produce, finish, consume, cancel, Fails, State
    <2> QED BY <2>1, <2>2 DEF vars
  <1> QED BY <1>1, <1>2, PTL DEF Spec

(* Every variable has its type, and no read gets more than it asked for       *)
(* (Wasi.ts 148-170).                                                         *)
THEOREM StdioTypes == Spec => []TypeOK
  <1>1. IInv /\ state \in [Act -> State] => TypeOK
    BY DEF IInv, Typed, TypedIn, TypedReads, TypedGuest, TypedOut, JobType, TypeOK
  <1> QED BY <1>1, StdioInvariance, StatesStay, PTL

(* readv (Wasi.ts 148-170) hands bytes out in order and none twice, however   *)
(* many activations read at the same time.                                    *)
THEOREM BytesInOrder == Spec => []HandedInOrder
  <1>1. IInv => HandedInOrder
    BY DEF IInv, InOrder, Ordered, Taken, Ascending, HandedInOrder
  <1> QED BY <1>1, StdioInvariance, PTL

(* readv (Wasi.ts 148-170) returns fewer bytes than asked for only at the end *)
(* of the input, however many activations read at the same time.              *)
THEOREM ShortOnlyAtEnd == Spec => []ShortReadAtEnd
  <1>1. IInv => ShortReadAtEnd
    BY DEF IInv, Ends, Truthful, ShortReadAtEnd
  <1> QED BY <1>1, StdioInvariance, PTL

--------------------------------------------------------------------------------
(* With one activation that reads, no byte is skipped.                        *)

(* The stream goes on behind its first chunk,                                 *)
LEMMA FollowsTail ==
  ASSUME NEW q \in Seq(Seq(Byte)), NEW n \in Nat, NEW src, NEW m,
         Follows(q, n, src, m), q # << >>
  PROVE  Contiguous(Head(q), n) /\ Follows(Tail(q), n + Len(Head(q)), src, m)
  <1> DEFINE t == Tail(q)
  <1>1. /\ Head(q) = q[1] /\ 1 \in 1..Len(q) /\ Len(q) \in Nat /\ Len(t) = Len(q) - 1
        /\ \A i \in 1..Len(t) : t[i] = q[i + 1] /\ i + 1 \in 1..Len(q)
        /\ Head(q) \in Seq(Byte)
    BY Shortened
  <1>2. PICK f \in [1..Len(q) + 1 -> Nat] :
          /\ f[1] = n
          /\ \A i \in 1..Len(q) : Contiguous(q[i], f[i]) /\ f[i + 1] = f[i] + Len(q[i])
          /\ src # "errored" => f[Len(q) + 1] = m
    BY DEF Follows
  <1> DEFINE g == [i \in 1..Len(t) + 1 |-> f[i + 1]]
  <1> HIDE DEF t
  <1>3. g \in [1..Len(t) + 1 -> Nat]
    <2>1. \A i \in 1..Len(t) + 1 : i + 1 \in 1..Len(q) + 1
      BY <1>1
    <2> QED BY <1>2, <2>1
  <1>4. g[1] = n + Len(Head(q)) /\ Contiguous(Head(q), n)
    <2>1. f[1 + 1] = f[1] + Len(q[1]) /\ Contiguous(q[1], f[1])
      BY <1>1, <1>2
    <2>2. 1 \in 1..Len(t) + 1
      BY <1>1
    <2>3. g[1] = f[1 + 1]
      BY <2>2
    <2> QED BY <1>1, <1>2, <2>1, <2>3
  <1>5. ASSUME NEW i \in 1..Len(t)
        PROVE  Contiguous(t[i], g[i]) /\ g[i + 1] = g[i] + Len(t[i])
    <2>1. i \in 1..Len(t) + 1 /\ i + 1 \in 1..Len(t) + 1 /\ i + 1 \in 1..Len(q)
      BY <1>1
    <2>2. g[i] = f[i + 1] /\ g[i + 1] = f[i + 1 + 1] /\ t[i] = q[i + 1]
      BY <1>1, <2>1
    <2>3. Contiguous(q[i + 1], f[i + 1]) /\ f[i + 1 + 1] = f[i + 1] + Len(q[i + 1])
      BY <1>2, <2>1
    <2> QED BY <2>2, <2>3
  <1>6. src # "errored" => g[Len(t) + 1] = m
    <2>1. Len(t) + 1 \in 1..Len(t) + 1 /\ Len(t) + 1 + 1 = Len(q) + 1
      BY <1>1
    <2>2. g[Len(t) + 1] = f[Len(t) + 1 + 1]
      BY <2>1
    <2> QED BY <1>2, <2>1, <2>2
  <1> HIDE DEF g
  <1>7. Follows(t, n + Len(Head(q)), src, m)
    BY <1>3, <1>4, <1>5, <1>6 DEF Follows
  <1> QED BY <1>4, <1>7 DEF t

(* and with one more chunk of what is produced,                               *)
LEMMA FollowsAppend ==
  ASSUME NEW q \in Seq(Seq(Byte)), NEW n \in Nat, NEW src, NEW m \in Nat, NEW size \in Nat,
         Follows(q, n, src, m), src # "errored",
         NEW c \in Seq(Byte), Len(c) = size, Contiguous(c, m)
  PROVE  Follows(Append(q, c), n, src, m + size)
  <1> DEFINE r == Append(q, c)
  <1>1. /\ Len(q) \in Nat /\ Len(r) = Len(q) + 1 /\ r[Len(q) + 1] = c
        /\ \A i \in 1..Len(q) : r[i] = q[i]
    BY Appended
  <1>2. PICK f \in [1..Len(q) + 1 -> Nat] :
          /\ f[1] = n
          /\ \A i \in 1..Len(q) : Contiguous(q[i], f[i]) /\ f[i + 1] = f[i] + Len(q[i])
          /\ f[Len(q) + 1] = m
    BY DEF Follows
  <1> DEFINE g == [i \in 1..Len(r) + 1 |-> IF i <= Len(q) + 1 THEN f[i] ELSE m + size]
  <1> HIDE DEF r
  <1>3. g \in [1..Len(r) + 1 -> Nat]
    <2>1. \A i \in 1..Len(r) + 1 : i <= Len(q) + 1 => i \in 1..Len(q) + 1
      BY <1>1
    <2> QED BY <1>2, <2>1
  <1>4. /\ \A i \in 1..Len(q) + 1 : g[i] = f[i]
        /\ g[Len(q) + 2] = m + size
    <2>1. \A i \in 1..Len(q) + 1 : i \in 1..Len(r) + 1 /\ i <= Len(q) + 1
      BY <1>1
    <2>2. Len(q) + 2 \in 1..Len(r) + 1 /\ ~(Len(q) + 2 <= Len(q) + 1)
      BY <1>1
    <2> QED BY <2>1, <2>2
  <1> HIDE DEF g
  <1>5. ASSUME NEW i \in 1..Len(r)
        PROVE  Contiguous(r[i], g[i]) /\ g[i + 1] = g[i] + Len(r[i])
    <2>1. CASE i \in 1..Len(q)
      <3>1. i \in 1..Len(q) + 1 /\ i + 1 \in 1..Len(q) + 1
        BY <1>1, <2>1
      <3> QED BY <1>1, <1>2, <1>4, <2>1, <3>1
    <2>2. CASE i = Len(q) + 1
      <3>1. i \in 1..Len(q) + 1 /\ i + 1 = Len(q) + 2
        BY <1>1, <2>2
      <3>2. g[i] = m /\ g[i + 1] = m + size
        BY <1>2, <1>4, <2>2, <3>1
      <3> QED BY <1>1, <2>2, <3>2
    <2> QED BY <1>1, <2>1, <2>2
  <1>6. g[1] = n /\ g[Len(r) + 1] = m + size
    BY <1>1, <1>2, <1>4
  <1> QED BY <1>3, <1>5, <1>6 DEF Follows, r

(* and an empty stream with an open source ends where production ended.       *)
LEMMA FollowsEmpty ==
  ASSUME NEW n \in Nat, NEW src, NEW m
  PROVE  /\ src = "errored" \/ n = m => Follows(<< >>, n, src, m)
         /\ Follows(<< >>, n, src, m) /\ src # "errored" => n = m
  <1>1. Len(<< >>) = 0
    BY EmptySeq
  <1>2. ASSUME src = "errored" \/ n = m
        PROVE  Follows(<< >>, n, src, m)
    <2> DEFINE f == [i \in 1..0 + 1 |-> n]
    <2>1. f \in [1..0 + 1 -> Nat] /\ f[1] = n /\ f[0 + 1] = n
      OBVIOUS
    <2> HIDE DEF f
    <2> QED BY <1>1, <1>2, <2>1 DEF Follows
  <1>3. Follows(<< >>, n, src, m) /\ src # "errored" => n = m
    BY <1>1 DEF Follows
  <1> QED BY <1>2, <1>3

(* Copying the first k bytes of the buffer leaves no gap.                     *)
LEMMA CopyLeavesNoGap ==
  ASSUME NEW h \in Seq(Byte), NEW b \in Seq(Byte), NEW k \in 0..Len(b),
         Contiguous(h, 0), Contiguous(b, Len(h))
  PROVE  /\ Contiguous(h \o SubSeq(b, 1, k), 0) /\ Len(h \o SubSeq(b, 1, k)) = Len(h) + k
         /\ Contiguous(SubSeq(b, k + 1, Len(b)), Len(h) + k)
         /\ Len(SubSeq(b, k + 1, Len(b))) = Len(b) - k
         /\ Len(h) \in Nat /\ Len(b) \in Nat
  <1> DEFINE s == SubSeq(b, 1, k)
             r == SubSeq(b, k + 1, Len(b))
  <1>1. /\ s \in Seq(Byte) /\ r \in Seq(Byte) /\ Len(s) = k /\ Len(r) = Len(b) - k
        /\ \A i \in 1..k : s[i] = b[i]
        /\ \A i \in 1..Len(b) - k : r[i] = b[k + i]
    BY Split
  <1> HIDE DEF s, r
  <1>2. /\ Len(h \o s) = Len(h) + Len(s)
        /\ \A i \in 1..Len(h) + Len(s) : (h \o s)[i] = IF i <= Len(h) THEN h[i] ELSE s[i - Len(h)]
    BY <1>1, ConcatProperties
  <1>3. Len(h) \in Nat /\ Len(b) \in Nat /\ k \in Nat /\ k <= Len(b)
    BY LenProperties
  <1>4. Contiguous(h \o s, 0)
    <2> SUFFICES ASSUME NEW i \in 1..Len(h) + k PROVE (h \o s)[i] = 0 + i
      BY <1>1, <1>2 DEF Contiguous
    <2>1. CASE i <= Len(h)
      BY <1>1, <1>2, <1>3, <2>1 DEF Contiguous
    <2>2. CASE ~(i <= Len(h))
      <3>1. i - Len(h) \in 1..k /\ i - Len(h) \in 1..Len(b)
        BY <1>3, <2>2
      <3>2. (h \o s)[i] = b[i - Len(h)]
        BY <1>1, <1>2, <2>2, <3>1
      <3> QED BY <1>3, <3>1, <3>2 DEF Contiguous
    <2> QED BY <2>1, <2>2
  <1>5. Contiguous(r, Len(h) + k)
    <2> SUFFICES ASSUME NEW i \in 1..Len(b) - k PROVE r[i] = Len(h) + k + i
      BY <1>1 DEF Contiguous
    <2>1. k + i \in 1..Len(b)
      BY <1>3
    <2> QED BY <1>1, <1>3, <2>1 DEF Contiguous
  <1> QED BY <1>1, <1>2, <1>3, <1>4, <1>5 DEF s, r

(* A queue with no chunk among its microtasks.                                *)
LEMMA NoChunks ==
  ASSUME NEW js \in Seq(JobType), NEW ws \in Seq(Act), NEW st, NEW r \in Act,
         Reactions(js, ws, st), NoReaction(r, js, ws),
         \A p \in Act : st[p] = "reading" => p = r
  PROVE  ws = << >> /\ \A i \in 1..Len(js) : ~IsChunk(js[i])
  <1>1. ASSUME ws # << >> PROVE FALSE
    <2>1. 1 \in 1..Len(ws) /\ ws[1] \in Act
      BY <1>1, Shortened
    <2> QED BY <2>1 DEF Reactions, NoReaction
  <1>2. ASSUME NEW i \in 1..Len(js), IsChunk(js[i]) PROVE FALSE
    <2>1. js[i].act \in Act
      BY JobsTyped
    <2> QED BY <1>2, <2>1 DEF Reactions, NoReaction, MayRun, Reaction, IsChunk
  <1> QED BY <1>1, <1>2

(* The loops of readv leave no gap, if no chunk is pulled for anyone else.    *)
LEMMA LoopLeavesNoGap ==
  ASSUME NEW p \in Act, NEW buffer \in Seq(Byte), NEW size \in Nat, NEW read \in 0..size,
         NEW rest \in Seq(JobType), TypedIn, TypedReads,
         Contiguous(handed, 0), Contiguous(buffer, Len(handed)), waiting = << >>,
         \A i \in 1..Len(rest) : ~IsChunk(rest[i]),
         Follows(queue, Len(handed) + Len(buffer), source, produced),
         Loop(p, buffer, size, read, rest)
  PROVE  Seamless'
  <1> DEFINE k == Bytes(size - read, buffer)
  <1>1. Len(buffer) \in Nat /\ read \in Nat /\ size - read \in Nat
    BY LenProperties
  <1>2. k \in 0..Len(buffer) /\ (read + k # size => k = Len(buffer))
    BY <1>1 DEF Bytes
  <1>3. /\ inbuf' = SubSeq(buffer, k + 1, Len(buffer))
        /\ handed' = handed \o SubSeq(buffer, 1, k)
        /\ IF read + k = size
           THEN jobs' = Append(rest, Plain(p, "result")) /\ UNCHANGED stdin
           ELSE Pull(p, rest)
    BY DEF Loop, Rest, Filled
  <1> HIDE DEF k
  <1>4. handed \in Seq(Byte) /\ queue \in Seq(Seq(Byte)) /\ waiting \in Seq(Act)
    BY DEF TypedReads, TypedIn
  <1>5. /\ Contiguous(handed', 0) /\ Len(handed') = Len(handed) + k
        /\ Contiguous(inbuf', Len(handed')) /\ Len(inbuf') = Len(buffer) - k
        /\ Len(handed) \in Nat /\ Len(buffer) \in Nat /\ k \in Nat
    BY <1>2, <1>3, <1>4, CopyLeavesNoGap
  <1>6. inbuf' \in Seq(Byte)
    BY <1>2, <1>3, Split
  <1>7. ASSUME NEW kind \in Kind, kind # "chunk", jobs' = Append(rest, Plain(p, kind)),
               UNCHANGED <<source, queue, waiting, produced>>
        PROVE  Seamless'
    <2>1. Plain(p, kind) \in JobType /\ Plain(p, kind).kind = kind
      BY <1>7, PlainTyped
    <2>2. \A i \in 1..Len(jobs') : (i \in 1..Len(rest) /\ jobs'[i] = rest[i]) \/ jobs'[i] = Plain(p, kind)
      BY <1>7, <2>1, Appended
    <2>3. \A i \in 1..Len(jobs') : ~IsChunk(jobs'[i])
      BY <1>7, <2>1, <2>2 DEF IsChunk
    <2> DEFINE n == Len(handed) + Len(buffer)
    <2>4. n \in Nat /\ n = Len(handed') + Len(inbuf')
      BY <1>5
    <2>5. Follows(queue', n, source', produced')
      BY <1>7
    <2> HIDE DEF n
    <2> QED BY <1>5, <1>7, <2>3, <2>4, <2>5 DEF Seamless
  <1>8. CASE read + k = size
    BY <1>3, <1>7, <1>8 DEF stdin, Kind
  <1>9. CASE read + k # size
    <2>1. Pull(p, rest) /\ Len(inbuf') = 0 /\ Len(handed') = Len(handed) + Len(buffer)
          /\ UNCHANGED <<source, produced>>
      <3>1. Pull(p, rest) /\ k = Len(buffer)
        BY <1>2, <1>3, <1>9
      <3>2. UNCHANGED <<source, produced>>
        BY <3>1 DEF Pull
      <3> QED BY <1>5, <3>1, <3>2
    <2>2. inbuf' = << >>
      BY <1>6, <2>1, EmptySeq
    <2>3. CASE /\ queue # << >> /\ queue' = Tail(queue)
               /\ jobs' = Append(rest, Job(p, "chunk", Head(queue))) /\ UNCHANGED waiting
      <3> DEFINE job == Job(p, "chunk", Head(queue))
                 n == Len(handed') + Len(Head(queue))
      <3>1. Contiguous(Head(queue), Len(handed')) /\ Follows(queue', n, source, produced)
        <4>1. Len(handed) + Len(buffer) \in Nat
          BY <1>5
        <4> QED BY <1>4, <2>1, <2>3, <4>1, FollowsTail
      <3>2. Head(queue) \in Seq(Byte)
        BY <1>4, <2>3, Shortened
      <3>3. n \in Nat
        <4>1. Len(Head(queue)) \in Nat /\ Len(handed') \in Nat
          BY <1>5, <2>1, <3>2, LenProperties
        <4> QED BY <4>1
      <3>4. job \in JobType /\ job.chunk = Head(queue) /\ job.kind = "chunk"
        BY <3>2, JobTyped DEF Kind
      <3> HIDE DEF job
      <3>5. /\ \A i \in 1..Len(jobs') : (i \in 1..Len(rest) /\ jobs'[i] = rest[i]) \/ jobs'[i] = job
            /\ Len(rest) + 1 \in 1..Len(jobs') /\ jobs'[Len(rest) + 1] = job
        <4>1. jobs' = Append(rest, job)
          BY <2>3 DEF job
        <4> QED BY <3>4, <4>1, Appended
      <3>6. \A i \in 1..Len(jobs') : IsChunk(jobs'[i]) => jobs'[i] = job
        BY <3>5
      <3>7. IsChunk(jobs'[Len(rest) + 1])
        BY <3>4, <3>5 DEF IsChunk
      <3>8. \A i \in 1..Len(jobs') : IsChunk(jobs'[i]) => n = Len(handed') + Len(jobs'[i].chunk)
        BY <3>4, <3>6
      <3>9. \A i \in 1..Len(jobs') : IsChunk(jobs'[i]) =>
              inbuf' = << >> /\ Contiguous(jobs'[i].chunk, Len(handed'))
        BY <2>2, <3>1, <3>4, <3>6
      <3>10. waiting' = << >>
        BY <2>3
      <3> HIDE DEF n
      <3> QED BY <1>5, <2>1, <3>1, <3>3, <3>5, <3>7, <3>8, <3>9, <3>10 DEF Seamless
    <2>4. CASE /\ queue = << >> /\ source # "open"
               /\ jobs' = Append(rest, Plain(p, IF source = "none" THEN "result" ELSE source))
               /\ UNCHANGED <<queue, waiting>>
      <3>1. (IF source = "none" THEN "result" ELSE source) \in Kind \ {"chunk"}
        BY <2>4 DEF Kind, TypedIn
      <3> QED BY <1>7, <2>1, <2>4, <3>1
    <2>5. CASE /\ queue = << >> /\ source = "open"
               /\ waiting' = Append(waiting, p) /\ jobs' = rest /\ UNCHANGED queue
      <3> DEFINE n == Len(handed) + Len(buffer)
      <3>1. n \in Nat /\ n = Len(handed') + Len(inbuf') /\ Follows(queue', n, source', produced')
        BY <1>5, <2>1, <2>5
      <3> HIDE DEF n
      <3> QED BY <1>5, <2>2, <2>5, <3>1 DEF Seamless
    <2> QED BY <2>1, <2>3, <2>4, <2>5 DEF Pull
  <1> QED BY <1>8, <1>9

(* The microtasks carry the same chunks.                                      *)
SameChunks(js, ks) ==
  /\ \A i \in 1..Len(js) : IsChunk(js[i]) => \E j \in 1..Len(ks) : ks[j] = js[i]
  /\ \A j \in 1..Len(ks) : IsChunk(ks[j]) => \E i \in 1..Len(js) : js[i] = ks[j]

(* Seamless looks at no other microtask.                                      *)
LEMMA SameChunksKeep ==
  ASSUME Seamless, SameChunks(jobs, jobs'),
         UNCHANGED <<queue, produced, inbuf, handed>>, waiting' \in {waiting, << >>},
         source' = source
  PROVE  Seamless'
  BY DEF Seamless, SameChunks

(* Adding a microtask without bytes changes no chunk.                         *)
LEMMA PlainIsNoChunk ==
  ASSUME NEW js \in Seq(JobType), NEW job \in JobType, ~IsChunk(job)
  PROVE  /\ SameChunks(js, Append(js, job))
         /\ js # << >> /\ ~IsChunk(Head(js)) => SameChunks(js, Tail(js))
  <1>1. SameChunks(js, Append(js, job))
    <2> DEFINE ks == Append(js, job)
    <2>1. /\ \A i \in 1..Len(js) : i \in 1..Len(ks) /\ ks[i] = js[i]
          /\ \A i \in 1..Len(ks) : (i \in 1..Len(js) /\ ks[i] = js[i]) \/ ks[i] = job
      BY Appended
    <2> HIDE DEF ks
    <2> QED BY <2>1 DEF SameChunks, ks
  <1>2. ASSUME js # << >>, ~IsChunk(Head(js))
        PROVE  SameChunks(js, Tail(js))
    <2> DEFINE t == Tail(js)
    <2>1. /\ Head(js) = js[1] /\ Len(js) \in Nat /\ Len(t) = Len(js) - 1
          /\ \A i \in 1..Len(t) : t[i] = js[i + 1] /\ i + 1 \in 1..Len(js)
      BY <1>2, Shortened
    <2> HIDE DEF t
    <2>2. ASSUME NEW i \in 1..Len(js), IsChunk(js[i])
          PROVE  \E j \in 1..Len(t) : t[j] = js[i]
      <3>1. i # 1
        BY <1>2, <2>1, <2>2
      <3>2. i - 1 \in 1..Len(t) /\ i - 1 + 1 = i
        BY <2>1, <3>1
      <3>3. t[i - 1] = js[i]
        BY <2>1, <3>2
      <3> QED BY <3>2, <3>3
    <2>3. \A i \in 1..Len(t) : \E j \in 1..Len(js) : js[j] = t[i]
      BY <2>1
    <2> QED BY <2>2, <2>3 DEF SameChunks, t
  <1> QED BY <1>1, <1>2

(* Two such changes are one.                                                  *)
LEMMA SameChunksTransitive ==
  ASSUME NEW js, NEW ks, NEW ls, SameChunks(js, ks), SameChunks(ks, ls)
  PROVE  SameChunks(js, ls)
  BY DEF SameChunks

(* Removing one changes none either.                                          *)
LEMMA FirstJobIsNoChunk ==
  ASSUME jobs \in Seq(JobType), jobs # << >>, Head(jobs).kind # "chunk"
  PROVE  /\ SameChunks(jobs, Tail(jobs))
         /\ \A p \in Act, kind \in Kind \ {"chunk"} :
              SameChunks(jobs, Append(Tail(jobs), Plain(p, kind)))
  <1>1. Tail(jobs) \in Seq(JobType) /\ Head(jobs) \in JobType
    BY Shortened
  <1>2. SameChunks(jobs, Tail(jobs))
    <2>1. ~IsChunk(Head(jobs))
      BY DEF IsChunk
    <2> QED BY <1>1, <2>1, PlainIsNoChunk
  <1>3. ASSUME NEW p \in Act, NEW kind \in Kind \ {"chunk"}
        PROVE  SameChunks(jobs, Append(Tail(jobs), Plain(p, kind)))
    <2>1. Plain(p, kind) \in JobType /\ ~IsChunk(Plain(p, kind))
      BY PlainTyped DEF IsChunk
    <2>2. SameChunks(Tail(jobs), Append(Tail(jobs), Plain(p, kind)))
      BY <1>1, <2>1, PlainIsNoChunk
    <2> QED BY <1>2, <2>2, SameChunksTransitive
  <1> QED BY <1>2, <1>3

(* The microtasks that bring no bytes.                                        *)
LEMMA OtherMicrotasks ==
  ASSUME IInv, NEW p \in Act,
         got_done(p) \/ got_error(p) \/ store_result(p) \/ resume(p) \/ fd_close(p)
  PROVE  /\ UNCHANGED <<source, queue, waiting, produced, inbuf, handed>>
         /\ SameChunks(jobs, jobs')
  <1>1. /\ jobs # << >> /\ Head(jobs).kind # "chunk"
        /\ UNCHANGED <<source, queue, waiting, produced, inbuf, handed>>
        /\ jobs' = Tail(jobs) \/ \E kind \in Kind \ {"chunk"} : jobs' = Append(Tail(jobs), Plain(p, kind))
    BY DEF got_done, got_error, store_result, resume, fd_close, Runs, Fails, stdin, reads, Kind
  <1>2. jobs \in Seq(JobType)
    BY DEF IInv, Typed
  <1> QED BY <1>1, <1>2, FirstJobIsNoChunk

(* Except in fd_read, guests move no bytes of the input.                      *)
LEMMA GuestMovesNoBytes ==
  ASSUME IInv, NEW p \in Act,
         \/ run(p) \/ return(p) \/ proc_exit(p) \/ unreachable(p) \/ memory_grow(p)
         \/ clock_time_get(p) \/ fetched(p)
         \/ \E fd \in Std, b \in Buffer : fd_write(p, fd, b)
  PROVE  /\ UNCHANGED <<source, queue, waiting, produced, inbuf, handed>>
         /\ SameChunks(jobs, jobs')
  <1>1. /\ UNCHANGED <<source, queue, waiting, produced, inbuf, handed>>
        /\ jobs' = jobs \/ \E kind \in Kind \ {"chunk"} : jobs' = Append(jobs, Plain(p, kind))
    BY DEF run, return, proc_exit, unreachable, memory_grow, clock_time_get, fetched, fd_write,
       stdin, reads, Kind
  <1>2. jobs \in Seq(JobType)
    BY DEF IInv, Typed
  <1>3. CASE jobs' = jobs
    BY <1>1, <1>3 DEF SameChunks
  <1>4. ASSUME NEW kind \in Kind \ {"chunk"}, jobs' = Append(jobs, Plain(p, kind))
        PROVE  SameChunks(jobs, jobs')
    <2>1. Plain(p, kind) \in JobType /\ ~IsChunk(Plain(p, kind))
      BY PlainTyped DEF IsChunk
    <2> QED BY <1>2, <1>4, <2>1, PlainIsNoChunk
  <1> QED BY <1>1, <1>3, <1>4

(* fd_read leaves no gap,                                                     *)
LEMMA ReadLeavesNoGap ==
  ASSUME IInv, Seamless, NEW r \in Act, OnlyReads(r), OnlyReads(r)',
         NEW p \in Act, NEW size \in ReadSizes, fd_read(p, size)
  PROVE  Seamless'
  <1>1. /\ state[p] = "running" /\ Become(p, "reading") /\ Loop(p, inbuf, size, 0, jobs)
    BY DEF fd_read
  <1>2. /\ inbuf \in Seq(Byte) /\ jobs \in Seq(JobType) /\ TypedIn /\ TypedReads
        /\ waiting \in Seq(Act) /\ state \in [Act -> AnyState]
    BY DEF IInv, Typed, TypedReads, TypedIn
  <1>3. p = r
    BY <1>1, <1>2 DEF OnlyReads, Become
  <1>4. waiting = << >> /\ \A i \in 1..Len(jobs) : ~IsChunk(jobs[i])
    <2>1. NoReaction(r, jobs, waiting)
      BY <1>1, <1>2, <1>3, NotReading DEF IInv
    <2> QED BY <1>2, <2>1, NoChunks DEF IInv, OnlyReads
  <1>5. /\ Contiguous(handed, 0) /\ Contiguous(inbuf, Len(handed))
        /\ Follows(queue, Len(handed) + Len(inbuf), source, produced)
    BY <1>4 DEF Seamless
  <1>6. size \in Nat /\ 0 \in 0..size
    BY BoundAssumption
  <1> QED BY <1>1, <1>2, <1>4, <1>5, <1>6, LoopLeavesNoGap

(* nor does the chunk that continues it,                                      *)
LEMMA ChunkLeavesNoGap ==
  ASSUME IInv, Seamless, NEW r \in Act, OnlyReads(r), NEW p \in Act, got_chunk(p)
  PROVE  Seamless'
  <1>1. jobs # << >> /\ Head(jobs).act = p /\ Head(jobs).kind = "chunk"
    BY DEF got_chunk, Runs
  <1>2. /\ Tail(jobs) \in Seq(JobType) /\ Head(jobs).chunk \in Seq(Byte)
        /\ Reactions(Tail(jobs), waiting, state) /\ state[p] = "reading"
        /\ NoReaction(p, Tail(jobs), waiting)
    BY <1>1, Takes DEF MayRun, Reaction
  <1>3. p = r
    BY <1>2 DEF OnlyReads
  <1>4. /\ handed \in Seq(Byte) /\ waiting \in Seq(Act) /\ TypedIn /\ TypedReads
        /\ jobs \in Seq(JobType) /\ want[p] \in Nat /\ got[p] \in 0..want[p]
    BY DEF IInv, Typed, TypedReads, TypedIn
  <1>5. waiting = << >> /\ \A i \in 1..Len(Tail(jobs)) : ~IsChunk(Tail(jobs)[i])
    BY <1>2, <1>3, <1>4, NoChunks DEF OnlyReads
  <1>6. 1 \in 1..Len(jobs) /\ Head(jobs) = jobs[1] /\ IsChunk(jobs[1])
    BY <1>1, <1>4, Shortened DEF IsChunk
  <1>7. /\ Contiguous(handed, 0) /\ Contiguous(Head(jobs).chunk, Len(handed))
        /\ Follows(queue, Len(handed) + Len(Head(jobs).chunk), source, produced)
    BY <1>6 DEF Seamless
  <1>8. CASE Detached(p) /\ Fails(p) /\ inbuf' = Head(jobs).chunk
    <2>1. /\ UNCHANGED <<source, queue, waiting, produced, handed>> /\ jobs' = Tail(jobs)
      BY <1>8 DEF Fails, stdin
    <2> DEFINE n == Len(handed) + Len(Head(jobs).chunk)
    <2>2. n \in Nat
      <3>1. Len(handed) \in Nat /\ Len(Head(jobs).chunk) \in Nat
        BY <1>2, <1>4, LenProperties
      <3> QED BY <3>1
    <2>3. n = Len(handed') + Len(inbuf') /\ Follows(queue', n, source', produced')
      BY <1>7, <1>8, <2>1
    <2> HIDE DEF n
    <2> QED BY <1>5, <1>7, <1>8, <2>1, <2>2, <2>3 DEF Seamless
  <1>9. CASE ~Detached(p) /\ Loop(p, Head(jobs).chunk, want[p], got[p], Tail(jobs))
    BY <1>2, <1>4, <1>5, <1>7, <1>9, LoopLeavesNoGap
  <1> QED BY <1>8, <1>9 DEF got_chunk

(* a chunk of the source,                                                     *)
LEMMA ProduceLeavesNoGap ==
  ASSUME IInv, Seamless, NEW r \in Act, OnlyReads(r), NEW size \in ChunkSizes, produce(size)
  PROVE  Seamless'
  <1> DEFINE chunk == [i \in 1..size |-> produced + i]
  <1>1. /\ source = "open" /\ produced + size <= MaxBytes /\ produced' = produced + size
        /\ UNCHANGED <<source, inbuf, handed, state>>
    BY DEF produce, reads
  <1>2. size \in Nat
    BY BoundAssumption
  <1>3. /\ produced \in Nat /\ handed \in Seq(Byte) /\ inbuf \in Seq(Byte)
        /\ queue \in Seq(Seq(Byte)) /\ jobs \in Seq(JobType) /\ waiting \in Seq(Act)
    BY Natural DEF IInv, Typed, TypedIn, TypedReads
  <1>4. chunk \in Seq(Byte)
    BY <1>1, <1>2, <1>3, NewChunk
  <1>5. Len(chunk) = size /\ Contiguous(chunk, produced)
    BY <1>2 DEF Contiguous
  <1> HIDE DEF chunk
  <1>6. PICK n \in Nat :
          /\ (\A i \in 1..Len(jobs) : ~IsChunk(jobs[i])) => n = Len(handed) + Len(inbuf)
          /\ \A i \in 1..Len(jobs) : IsChunk(jobs[i]) => n = Len(handed) + Len(jobs[i].chunk)
          /\ Follows(queue, n, source, produced)
    BY DEF Seamless
  <1>7. CASE /\ waiting = << >> /\ queue' = Append(queue, chunk) /\ UNCHANGED <<waiting, jobs>>
    <2>1. Follows(queue', n, source', produced')
      BY <1>1, <1>2, <1>3, <1>4, <1>5, <1>6, <1>7, FollowsAppend
    <2> QED BY <1>1, <1>6, <1>7, <2>1 DEF Seamless
  <1>8. CASE /\ waiting # << >> /\ waiting' = Tail(waiting)
             /\ jobs' = Append(jobs, Job(Head(waiting), "chunk", chunk)) /\ UNCHANGED queue
    <2> DEFINE job == Job(Head(waiting), "chunk", chunk)
    <2>1. /\ Reactions(jobs, Tail(waiting), state) /\ state[Head(waiting)] = "reading"
          /\ Head(waiting) \in Act /\ NoReaction(Head(waiting), jobs, Tail(waiting))
      BY <1>3, <1>8, FirstWait DEF IInv
    <2>2. Head(waiting) = r
      BY <2>1 DEF OnlyReads
    <2>3. Tail(waiting) = << >> /\ \A i \in 1..Len(jobs) : ~IsChunk(jobs[i])
      <3>1. Tail(waiting) \in Seq(Act)
        BY <1>3, <1>8, Shortened
      <3> QED BY <1>3, <2>1, <2>2, <3>1, NoChunks DEF OnlyReads
    <2>4. inbuf = << >> /\ queue = << >> /\ Len(inbuf) = 0 /\ Len(handed) \in Nat
      BY <1>3, <1>8, EmptySeq, LenProperties DEF IInv, WaitsForMore, Seamless
    <2>5. n = Len(handed) /\ n = produced
      BY <1>1, <1>3, <1>6, <2>3, <2>4, FollowsEmpty
    <2>6. job \in JobType /\ job.chunk = chunk /\ job.kind = "chunk"
      BY <1>4, <2>1, JobTyped DEF Kind
    <2> HIDE DEF job
    <2>7. jobs' = Append(jobs, job)
      BY <1>8 DEF job
    <2>8. /\ \A i \in 1..Len(jobs') : (i \in 1..Len(jobs) /\ jobs'[i] = jobs[i]) \/ jobs'[i] = job
          /\ Len(jobs) + 1 \in 1..Len(jobs') /\ jobs'[Len(jobs) + 1] = job
      BY <1>3, <2>6, <2>7, Appended
    <2>9. \A i \in 1..Len(jobs') : IsChunk(jobs'[i]) => jobs'[i] = job
      BY <2>3, <2>8
    <2>10. IsChunk(jobs'[Len(jobs) + 1])
      BY <2>6, <2>8 DEF IsChunk
    <2>11. Follows(queue', n + size, source', produced')
      <3>1. n + size \in Nat /\ produced' = n + size
        BY <1>1, <1>2, <2>5
      <3> QED BY <1>8, <2>4, <3>1, FollowsEmpty
    <2>12. /\ n + size \in Nat
           /\ \A i \in 1..Len(jobs') : IsChunk(jobs'[i]) => n + size = Len(handed') + Len(jobs'[i].chunk)
      BY <1>1, <1>2, <1>5, <2>5, <2>6, <2>9
    <2>13. \A i \in 1..Len(jobs') : IsChunk(jobs'[i]) =>
             inbuf' = << >> /\ Contiguous(jobs'[i].chunk, Len(handed'))
      BY <1>1, <1>5, <2>4, <2>5, <2>6, <2>9
    <2>14. waiting' = << >>
      BY <1>8, <2>3
    <2>15. Contiguous(handed', 0) /\ Contiguous(inbuf', Len(handed'))
      BY <1>1 DEF Seamless
    <2> QED BY <2>8, <2>10, <2>11, <2>12, <2>13, <2>14, <2>15 DEF Seamless
  <1> QED BY <1>7, <1>8 DEF produce, chunk

(* or its end.                                                                *)
LEMMA FinishLeavesNoGap ==
  ASSUME IInv, Seamless, NEW how \in {"closed", "errored"}, finish(how)
  PROVE  Seamless'
  <1> DEFINE ends == Wakes(waiting, how)
  <1>1. /\ source = "open" /\ source' = how /\ waiting' = << >> /\ jobs' = jobs \o ends
        /\ queue' = IF how = "errored" THEN << >> ELSE queue
        /\ UNCHANGED <<produced, inbuf, handed>>
    BY DEF finish, reads, Wakes
  <1>2. jobs \in Seq(JobType) /\ waiting \in Seq(Act) /\ Reactions(jobs, waiting, state)
    BY DEF IInv, Typed, TypedIn
  <1>3. /\ ends \in Seq(JobType)
        /\ \A i \in 1..Len(jobs \o ends) :
             \/ i \in 1..Len(jobs) /\ (jobs \o ends)[i] = jobs[i]
             \/ (jobs \o ends)[i].kind = how
    BY <1>2, AllWake
  <1> HIDE DEF ends
  <1>4. \A i \in 1..Len(jobs) : i \in 1..Len(jobs') /\ jobs'[i] = jobs[i]
    <2>1. /\ Len(jobs') = Len(jobs) + Len(ends)
          /\ \A i \in 1..Len(jobs) + Len(ends) :
               jobs'[i] = IF i <= Len(jobs) THEN jobs[i] ELSE ends[i - Len(jobs)]
      BY <1>1, <1>2, <1>3, ConcatProperties
    <2>2. Len(jobs) \in Nat /\ Len(ends) \in Nat
      BY <1>2, <1>3, LenProperties
    <2> QED BY <2>1, <2>2
  <1>5. SameChunks(jobs, jobs')
    BY <1>1, <1>3, <1>4 DEF SameChunks, IsChunk
  <1>6. PICK n \in Nat :
          /\ (\A i \in 1..Len(jobs) : ~IsChunk(jobs[i])) => n = Len(handed) + Len(inbuf)
          /\ \A i \in 1..Len(jobs) : IsChunk(jobs[i]) => n = Len(handed) + Len(jobs[i].chunk)
          /\ Follows(queue, n, source, produced)
    BY DEF Seamless
  <1>7. Follows(queue', n, source', produced')
    <2>1. CASE how = "errored"
      BY <1>1, <2>1, FollowsEmpty
    <2>2. CASE how # "errored"
      BY <1>1, <1>6, <2>2 DEF Follows
    <2> QED BY <2>1, <2>2
  <1>8. /\ (\A i \in 1..Len(jobs') : ~IsChunk(jobs'[i])) => n = Len(handed') + Len(inbuf')
        /\ \A i \in 1..Len(jobs') : IsChunk(jobs'[i]) => n = Len(handed') + Len(jobs'[i].chunk)
    BY <1>1, <1>5, <1>6, ZenonT(60) DEF SameChunks
  <1>9. \A i \in 1..Len(jobs') : IsChunk(jobs'[i]) =>
          inbuf' = << >> /\ Contiguous(jobs'[i].chunk, Len(handed'))
    BY <1>1, <1>5 DEF SameChunks, Seamless
  <1> QED BY <1>1, <1>7, <1>8, <1>9 DEF Seamless

(* There is nothing to leave out at first.                                    *)
LEMMA SeamlessAtFirst == Init => Seamless
  <1>1. Len(<< >>) = 0 /\ Follows(<< >>, 0, "none", 0) /\ Follows(<< >>, 0, "open", 0)
    BY EmptySeq, FollowsEmpty
  <1> QED BY <1>1 DEF Init, Seamless, Contiguous

(* No step leaves a gap as long as only r reads.                              *)
LEMMA NoStepLeavesGap ==
  ASSUME IInv, Seamless, NEW r \in Act, OnlyReads(r), OnlyReads(r)', [Next]_vars
  PROVE  Seamless'
  <1>1. ASSUME UNCHANGED <<source, queue, waiting, produced, inbuf, handed>>, SameChunks(jobs, jobs')
        PROVE  Seamless'
    BY <1>1, SameChunksKeep
  <1>2. ASSUME NEW fd \in Std, consume(fd) \/ cancel(fd)
        PROVE  Seamless'
    <2>1. UNCHANGED <<source, queue, waiting, produced, inbuf, handed, jobs>>
      BY <1>2 DEF consume, cancel, stdin, reads
    <2> QED BY <1>1, <2>1 DEF SameChunks
  <1>3. CASE UNCHANGED vars
    <2>1. UNCHANGED <<source, queue, waiting, produced, inbuf, handed, jobs>>
      BY <1>3 DEF vars, stdin, reads
    <2> QED BY <1>1, <2>1 DEF SameChunks
  <1>4. ASSUME NEW p \in Act, run(p) \/ Guest(p) \/ Microtask(p) \/ fetched(p)
        PROVE  Seamless'
    BY <1>1, <1>4, GuestMovesNoBytes, OtherMicrotasks, ReadLeavesNoGap, ChunkLeavesNoGap
       DEF Guest, Microtask
  <1> QED BY <1>2, <1>3, <1>4, ProduceLeavesNoGap, FinishLeavesNoGap DEF Next, Environment

(* Only fd_read and the microtasks of readv touch the sizes of the reads: the *)
(* one sets that of its activation, the others put in what is there.          *)
LEMMA WantsChange ==
  ASSUME IInv, [Next]_vars
  PROVE  \/ want' = want /\ \A q \in Act : state'[q] = "reading" => state[q] = "reading"
         \/ \E p \in Act, size \in ReadSizes :
              /\ state[p] = "running" /\ Become(p, "reading")
              /\ want' = [want EXCEPT ![p] = size]
  <1>1. want \in [Act -> Nat] /\ state \in [Act -> AnyState]
    BY DEF IInv, Typed, TypedReads
  <1>2. ASSUME NEW p \in Act, NEW size \in ReadSizes, fd_read(p, size)
        PROVE  /\ state[p] = "running" /\ Become(p, "reading")
               /\ want' = [want EXCEPT ![p] = size]
    BY <1>2 DEF fd_read, Loop
  <1>3. ASSUME NEW p \in Act, NEW s \in {"running", "fetching", "resuming", "returned", "exited", "failed"},
               Become(p, s)
        PROVE  \A q \in Act : state'[q] = "reading" => state[q] = "reading"
    BY <1>1, <1>3 DEF Become
  <1>4. ASSUME NEW p \in Act, got_chunk(p)
        PROVE  want' = want /\ \A q \in Act : state'[q] = "reading" => state[q] = "reading"
    <2>1. CASE Fails(p)
      BY <1>3, <2>1 DEF Fails
    <2>2. CASE /\ Loop(p, Head(jobs).chunk, want[p], got[p], Tail(jobs))
               /\ UNCHANGED state
      BY <1>1, <2>2 DEF Loop
    <2> QED BY <1>4, <2>1, <2>2 DEF got_chunk
  <1>5. ASSUME NEW p \in Act,
               \/ run(p) \/ return(p) \/ proc_exit(p) \/ unreachable(p) \/ memory_grow(p)
               \/ clock_time_get(p) \/ fetched(p)
               \/ \E fd \in Std, b \in Buffer : fd_write(p, fd, b)
        PROVE  want' = want /\ \A q \in Act : state'[q] = "reading" => state[q] = "reading"
    <2>1. want' = want /\ (state' = state \/ \E s \in {"running", "fetching", "resuming",
                                           "returned", "exited", "failed"} : Become(p, s))
      BY <1>5 DEF run, return, proc_exit, unreachable, memory_grow, clock_time_get, fetched,
                  fd_write, reads
    <2> QED BY <1>3, <2>1
  <1>6. ASSUME NEW p \in Act,
               got_done(p) \/ got_error(p) \/ store_result(p) \/ resume(p) \/ fd_close(p)
        PROVE  want' = want /\ \A q \in Act : state'[q] = "reading" => state[q] = "reading"
    <2>1. want' = want /\ (state' = state \/ \E s \in {"running", "failed"} : Become(p, s))
      BY <1>6 DEF got_done, got_error, store_result, resume, fd_close, Fails, reads
    <2> QED BY <1>3, <2>1
  <1>7. CASE Environment \/ UNCHANGED vars
    <2>1. want' = want /\ state' = state
      BY <1>7 DEF Environment, produce, finish, consume, cancel, vars, reads
    <2> QED BY <2>1
  <1> QED BY <1>2, <1>4, <1>5, <1>6, <1>7 DEF Next, Guest, Microtask

(* A size is never taken back, and every reader has one.                      *)
LEMMA WantsKeep ==
  ASSUME want \in [Act -> Nat], state \in [Act -> AnyState], ReadersWant,
         \/ want' = want /\ \A q \in Act : state'[q] = "reading" => state[q] = "reading"
         \/ \E p \in Act, size \in ReadSizes :
              /\ state[p] = "running" /\ Become(p, "reading")
              /\ want' = [want EXCEPT ![p] = size]
  PROVE  /\ ReadersWant'
         /\ \A r \in Act : Alone(r)' => Alone(r) /\ OnlyReads(r) /\ OnlyReads(r)'
  <1>1. ReadersWant' /\ \A q \in Act : want'[q] = 0 => want[q] = 0
    <2>1. CASE want' = want /\ \A q \in Act : state'[q] = "reading" => state[q] = "reading"
      BY <2>1 DEF ReadersWant
    <2>2. ASSUME NEW p \in Act, NEW size \in ReadSizes, Become(p, "reading"),
                 want' = [want EXCEPT ![p] = size]
          PROVE  ReadersWant' /\ \A q \in Act : want'[q] = 0 => want[q] = 0
      <3>1. size # 0
        BY BoundAssumption
      <3> QED BY <2>2, <3>1 DEF ReadersWant, Become
    <2> QED BY <2>1, <2>2
  <1> QED BY <1>1 DEF ReadersWant, Alone, OnlyReads

(* Nobody has read at first.                                                  *)
LEMMA SoloAtFirst == Init => Solo
  BY SeamlessAtFirst DEF Init, Solo, ReadersWant

(* A step of one reader leaves no gap.                                        *)
LEMMA SoloStep ==
  ASSUME IInv, Solo, [Next]_vars
  PROVE  Solo'
  <1>1. want \in [Act -> Nat] /\ state \in [Act -> AnyState]
    BY DEF IInv, Typed, TypedReads
  <1>2. /\ ReadersWant'
        /\ \A r \in Act : Alone(r)' => Alone(r) /\ OnlyReads(r) /\ OnlyReads(r)'
    BY <1>1, WantsChange, WantsKeep DEF Solo
  <1>3. ASSUME NEW r \in Act, Alone(r)'
        PROVE  Seamless'
    BY <1>2, <1>3, NoStepLeavesGap DEF Solo
  <1> QED BY <1>2, <1>3 DEF Solo

(* What is seamless skips nothing.                                            *)
LEMMA SeamlessSkipsNothing == Seamless => NoByteSkipped
  BY DEF Seamless, Contiguous, NoByteSkipped

LEMMA SoloSkipsNothing == Solo => SkipNeedsTwoReaders
  BY SeamlessSkipsNothing DEF Solo, Alone, SkipNeedsTwoReaders

(* As long as one activation alone has read stdin, readv (Wasi.ts 148-170)    *)
(* skips no byte, whoever else runs, writes or is called meanwhile: the pull  *)
(* of Wasi.ts 153 never replaces a buffer that has bytes left. With two       *)
(* readers it may, as the run "skipped" shows.                                *)
THEOREM OneReaderSkipsNothing == Spec => []SkipNeedsTwoReaders
  <1>1. IInv /\ Solo /\ [Next]_vars => Solo'
    BY SoloStep
  <1> QED BY <1>1, SoloAtFirst, SoloSkipsNothing, StdioInvariance, PTL DEF Spec

--------------------------------------------------------------------------------
(* A guest that fills no buffer again before it was consumed has its output   *)
(* arrive, except for what a memory.grow left behind.                         *)

(* A chunk of output: a view of a buffer, on the memory of then.              *)
Chunk == [buffer : Buffer, on : 0..MaxGrow]

(* What the streams and their histories are made of.                          *)
LEMMA OutputTyped ==
  ASSUME IInv, NEW fd \in Std
  PROVE  /\ out \in [Std -> Stream] /\ out[fd] \in Stream
         /\ out[fd].queue \in Seq(Chunk) /\ out[fd].consumed \in Seq(0..MaxWrites)
         /\ Len(out[fd].queue) \in Nat /\ Len(out[fd].consumed) \in Nat
         /\ written \in [Std -> Seq(1..MaxWrites)] /\ written[fd] \in Seq(1..MaxWrites)
         /\ Len(written[fd]) \in Nat /\ content \in [Buffer -> 0..MaxWrites]
  <1>1. out \in [Std -> Stream] /\ written \in [Std -> Seq(1..MaxWrites)]
        /\ content \in [Buffer -> 0..MaxWrites]
    BY DEF IInv, Typed, TypedOut, TypedGuest
  <1>2. out[fd].queue \in Seq(Chunk) /\ out[fd].consumed \in Seq(0..MaxWrites)
    BY <1>1 DEF Stream, Chunk
  <1> QED BY <1>1, <1>2, LenProperties

(* The states of streams are all that closing them changes.                   *)
LEMMA OutputSame ==
  ASSUME OutputSound, UNCHANGED <<memory, content, written>>,
         \A fd \in Std : /\ out'[fd].queue = out[fd].queue
                         /\ out'[fd].consumed = out[fd].consumed
                         /\ out'[fd].state = "cancelled" <=> out[fd].state = "cancelled"
  PROVE  OutputSound'
  <1> SUFFICES ASSUME NEW fd \in Std
               PROVE  InPlace(out'[fd], written'[fd], content', memory')
    BY DEF OutputSound
  <1>1. InPlace(out[fd], written[fd], content, memory)
    BY DEF OutputSound
  <1> QED BY <1>1 DEF InPlace

(* Filling a buffer that no chunk views changes nothing for the consumers.    *)
LEMMA OthersFilled ==
  ASSUME NEW o \in Stream, NEW w, NEW cells \in [Buffer -> 0..MaxWrites], NEW now,
         InPlace(o, w, cells, now), NEW b \in Buffer, NEW v,
         \A i \in 1..Len(o.queue) : o.queue[i].buffer # b
  PROVE  InPlace(o, w, [cells EXCEPT ![b] = v], now)
  <1>1. o.queue \in Seq(Chunk)
    BY DEF Stream, Chunk
  <1>2. \A i \in 1..Len(o.queue) : o.queue[i] \in Chunk
    BY <1>1, ElementOfSeq
  <1>3. \A i \in 1..Len(o.queue) : o.queue[i].buffer \in Buffer
    BY <1>2 DEF Chunk
  <1> QED BY <1>3 DEF InPlace

(* A write adds a chunk.                                                      *)
LEMMA EnqueueInPlace ==
  ASSUME NEW o \in Stream, NEW w \in Seq(1..MaxWrites), NEW cells, NEW now,
         InPlace(o, w, cells, now), o.state # "cancelled",
         NEW v \in 1..MaxWrites, NEW chunk \in Chunk, chunk.on = now, cells[chunk.buffer] = v,
         NEW o2 \in Stream, o2.queue = Append(o.queue, chunk), o2.consumed = o.consumed,
         o2.state = o.state
  PROVE  InPlace(o2, Append(w, v), cells, now)
  <1> DEFINE done == Len(o.consumed)
             n == Len(o.queue)
             x == Append(w, v)
             q == Append(o.queue, chunk)
  <1>1. o.queue \in Seq(Chunk) /\ o.consumed \in Seq(0..MaxWrites)
    BY DEF Stream, Chunk
  <1>2. done \in Nat /\ n \in Nat /\ Len(w) \in Nat
    BY <1>1, LenProperties
  <1>3. /\ Len(q) = n + 1 /\ q[n + 1] = chunk /\ \A i \in 1..n : q[i] = o.queue[i]
    BY <1>1, Appended
  <1>4. /\ Len(x) = Len(w) + 1 /\ x[Len(w) + 1] = v /\ \A i \in 1..Len(w) : x[i] = w[i]
    BY Appended
  <1>5. Len(w) = done + n
    BY DEF InPlace
  <1>6. /\ \A i \in 1..done : o.consumed[i] = w[i] \/ (o.consumed[i] = 0 /\ now > 0)
        /\ \A i \in 1..n : o.queue[i].on = now \/ now > 0
        /\ \A i \in 1..n : cells[o.queue[i].buffer] = w[done + i]
    BY DEF InPlace
  <1> HIDE DEF x, q, done, n
  <1>7. Len(x) = done + Len(q) /\ done <= Len(x)
    BY <1>2, <1>3, <1>4, <1>5
  <1>8. ASSUME NEW i \in 1..done PROVE o.consumed[i] = x[i] \/ (o.consumed[i] = 0 /\ now > 0)
    <2>1. i \in 1..Len(w)
      BY <1>2, <1>5
    <2> QED BY <1>4, <1>6, <2>1
  <1>9. ASSUME NEW i \in 1..Len(q)
        PROVE  (q[i].on = now \/ now > 0) /\ cells[q[i].buffer] = x[done + i]
    <2>1. i \in 1..n \/ i = n + 1
      BY <1>2, <1>3
    <2>2. CASE i \in 1..n
      <3>1. done + i \in 1..Len(w)
        BY <1>2, <1>5, <2>2
      <3> QED BY <1>3, <1>4, <1>6, <2>2, <3>1
    <2>3. CASE i = n + 1
      <3>1. done + i = Len(w) + 1
        BY <1>2, <1>5, <2>3
      <3> QED BY <1>3, <1>4, <2>3, <3>1
    <2> QED BY <2>1, <2>2, <2>3
  <1> QED BY <1>7, <1>8, <1>9 DEF InPlace, x, q, done

(* What a consumer finds in a chunk.                                          *)
Seen(chunk, cells, now) == IF chunk.on = now THEN cells[chunk.buffer] ELSE 0

(* The consumer finds in the first chunk what was written, or nothing.        *)
LEMMA DequeueInPlace ==
  ASSUME NEW o \in Stream, NEW w \in Seq(1..MaxWrites), NEW cells, NEW now,
         InPlace(o, w, cells, now), o.queue # << >>,
         NEW v \in 0..MaxWrites, v = Seen(Head(o.queue), cells, now),
         NEW o2 \in Stream, o2.queue = Tail(o.queue), o2.consumed = Append(o.consumed, v),
         o2.state = o.state
  PROVE  InPlace(o2, w, cells, now)
  <1> DEFINE done == Len(o.consumed)
             n == Len(o.queue)
             t == Append(o.consumed, v)
             q == Tail(o.queue)
  <1>1. o.queue \in Seq(Chunk) /\ o.consumed \in Seq(0..MaxWrites)
    BY DEF Stream, Chunk
  <1>2. done \in Nat /\ n \in Nat /\ Len(w) \in Nat
    BY <1>1, LenProperties
  <1>3. /\ Len(q) = n - 1 /\ Head(o.queue) = o.queue[1] /\ 1 \in 1..n
        /\ \A i \in 1..Len(q) : q[i] = o.queue[i + 1] /\ i + 1 \in 1..n
    BY <1>1, Shortened
  <1>4. /\ Len(t) = done + 1 /\ t[done + 1] = v /\ \A i \in 1..done : t[i] = o.consumed[i]
    BY <1>1, Appended
  <1>5. Len(w) = done + n /\ o.state # "cancelled"
    BY DEF InPlace
  <1>6. /\ \A i \in 1..done : o.consumed[i] = w[i] \/ (o.consumed[i] = 0 /\ now > 0)
        /\ \A i \in 1..n : o.queue[i].on = now \/ now > 0
        /\ \A i \in 1..n : cells[o.queue[i].buffer] = w[done + i]
    BY DEF InPlace
  <1> HIDE DEF t, q, done, n
  <1>7. Len(w) = Len(t) + Len(q) /\ Len(t) <= Len(w)
    BY <1>2, <1>3, <1>4, <1>5
  <1>8. v = w[done + 1] \/ (v = 0 /\ now > 0)
    BY <1>3, <1>6 DEF Seen
  <1>9. ASSUME NEW i \in 1..Len(t) PROVE t[i] = w[i] \/ (t[i] = 0 /\ now > 0)
    <2>1. i \in 1..done \/ i = done + 1
      BY <1>2, <1>4
    <2> QED BY <1>4, <1>6, <1>8, <2>1
  <1>10. ASSUME NEW i \in 1..Len(q)
         PROVE  (q[i].on = now \/ now > 0) /\ cells[q[i].buffer] = w[Len(t) + i]
    <2>1. i + 1 \in 1..n /\ q[i] = o.queue[i + 1]
      BY <1>3
    <2>2. done + (i + 1) = Len(t) + i
      BY <1>2, <1>4
    <2> QED BY <1>6, <2>1, <2>2
  <1> QED BY <1>5, <1>7, <1>9, <1>10 DEF InPlace, t, q

(* fd_write keeps what is queued and what was consumed sound,                 *)
LEMMA WriteArrives ==
  ASSUME IInv, OutputSound, ~Reuse, NEW p \in Act, NEW fd \in Std, NEW b \in Buffer,
         fd_write(p, fd, b)
  PROVE  OutputSound'
  <1>1. /\ ~Queued(b) /\ content' = [content EXCEPT ![b] = Writes + 1] /\ memory' = memory
    BY DEF fd_write
  <1>2. ASSUME NEW c \in Std
        PROVE  InPlace(out[c], written[c], content', memory')
    <2>1. \A i \in 1..Len(out[c].queue) : out[c].queue[i].buffer # b
      BY <1>1 DEF Queued
    <2> QED BY <1>1, <2>1, OutputTyped, OthersFilled DEF OutputSound
  <1>3. CASE out[fd].state # "open" /\ UNCHANGED <<out, written>>
    BY <1>2, <1>3 DEF OutputSound
  <1>4. CASE /\ out[fd].state = "open"
             /\ out' = [out EXCEPT ![fd].queue = Append(@, [buffer |-> b, on |-> memory])]
             /\ written' = [written EXCEPT ![fd] = Append(@, Writes + 1)]
    <2> DEFINE chunk == [buffer |-> b, on |-> memory]
    <2>1. chunk \in Chunk /\ chunk.on = memory' /\ chunk.buffer = b
      BY <1>1 DEF IInv, Typed, TypedGuest, Chunk
    <2>2. Writes + 1 \in 1..MaxWrites
      <3>1. Len(written[1]) \in Nat /\ Len(written[2]) \in Nat
        BY OutputTyped DEF Std
      <3>2. \A m \in Nat, n \in Nat : m + n \in Nat
        OBVIOUS
      <3>3. Len(written[1]) + Len(written[2]) \in Nat
        BY <3>1, <3>2
      <3>4. Writes \in Nat
        BY <3>3 DEF Writes
      <3>5. Writes < MaxWrites
        BY DEF fd_write
      <3> QED BY <3>4, <3>5, Natural
    <2>3. content'[b] = Writes + 1
      BY <1>1, OutputTyped
    <2>4. /\ out'[fd].queue = Append(out[fd].queue, chunk)
          /\ out'[fd].consumed = out[fd].consumed /\ out'[fd].state = out[fd].state
          /\ written'[fd] = Append(written[fd], Writes + 1)
          /\ out[fd].state # "cancelled"
      BY <1>4, OutputTyped DEF Stream
    <2>5. out'[fd] \in Stream
      <3>1. IInv'
        BY WriteKeeps
      <3> QED BY <3>1 DEF IInv, Typed, TypedOut
    <2> HIDE DEF chunk
    <2>6. InPlace(out'[fd], written'[fd], content', memory')
      BY <1>2, <2>1, <2>2, <2>3, <2>4, <2>5, OutputTyped, EnqueueInPlace
    <2>7. \A c \in Std : c # fd => out'[c] = out[c] /\ written'[c] = written[c]
      BY <1>4, OutputTyped
    <2>8. \A c \in Std : InPlace(out'[c], written'[c], content', memory')
      BY <1>2, <2>6, <2>7
    <2> QED BY <2>8 DEF OutputSound
  <1> QED BY <1>3, <1>4 DEF fd_write, Controller

(* so does a consumer that reads,                                             *)
LEMMA ConsumedArrives ==
  ASSUME IInv, OutputSound, NEW fd \in Std, consume(fd)
  PROVE  OutputSound'
  <1> DEFINE v == IF Head(out[fd].queue).on = memory THEN content[Head(out[fd].queue).buffer] ELSE 0
  <1>1. /\ out[fd].queue # << >> /\ UNCHANGED <<memory, content, written>>
        /\ out' = [out EXCEPT ![fd].queue = Tail(@), ![fd].consumed = Append(@, v)]
    BY DEF consume, guest
  <1>2. v \in 0..MaxWrites
    <2>1. Head(out[fd].queue) \in Chunk /\ content \in [Buffer -> 0..MaxWrites]
      BY <1>1, OutputTyped, Shortened
    <2> QED BY <2>1, Natural DEF Chunk
  <1>3. v = Seen(Head(out[fd].queue), content, memory)
    BY DEF Seen
  <1> HIDE DEF v
  <1>4. /\ out'[fd].queue = Tail(out[fd].queue) /\ out'[fd].consumed = Append(out[fd].consumed, v)
        /\ out'[fd].state = out[fd].state
        /\ \A c \in Std : c # fd => out'[c] = out[c]
    BY <1>1, OutputTyped DEF Stream
  <1>5. out'[fd] \in Stream
    <2>1. IInv'
      BY ConsumersKeep
    <2> QED BY <2>1 DEF IInv, Typed, TypedOut
  <1>6. InPlace(out'[fd], written[fd], content, memory)
    <2>1. InPlace(out[fd], written[fd], content, memory) /\ out[fd] \in Stream
          /\ written[fd] \in Seq(1..MaxWrites)
      BY OutputTyped DEF OutputSound
    <2> QED BY <1>1, <1>2, <1>3, <1>4, <1>5, <2>1, DequeueInPlace
  <1>7. \A c \in Std : InPlace(out'[c], written'[c], content', memory')
    BY <1>1, <1>4, <1>6 DEF OutputSound
  <1> QED BY <1>7 DEF OutputSound

(* What a memory that grows leaves behind is allowed to be lost.              *)
LEMMA GrownArrives ==
  ASSUME IInv, OutputSound, NEW p \in Act, memory_grow(p)
  PROVE  OutputSound'
  <1>1. memory' > 0 /\ UNCHANGED <<content, written, out>>
    BY Natural DEF memory_grow, IInv, Typed, TypedGuest
  <1> SUFFICES ASSUME NEW fd \in Std
               PROVE  InPlace(out[fd], written[fd], content, memory')
    BY <1>1 DEF OutputSound
  <1>2. InPlace(out[fd], written[fd], content, memory)
    BY DEF OutputSound
  <1> QED BY <1>1, <1>2 DEF InPlace

(* or cancels.                                                                *)
LEMMA CancelArrives ==
  ASSUME IInv, OutputSound, NEW fd \in Std, cancel(fd)
  PROVE  OutputSound'
  <1>1. /\ UNCHANGED <<memory, content, written>>
        /\ out' = [out EXCEPT ![fd].state = "cancelled", ![fd].queue = << >>]
    BY DEF cancel, guest
  <1>2. /\ out'[fd].queue = << >> /\ out'[fd].consumed = out[fd].consumed
        /\ out'[fd].state = "cancelled"
        /\ \A c \in Std : c # fd => out'[c] = out[c]
    BY <1>1, OutputTyped DEF Stream
  <1>3. InPlace(out'[fd], written[fd], content, memory)
    <2>1. InPlace(out[fd], written[fd], content, memory) /\ Len(<< >>) = 0
      BY EmptySeq DEF OutputSound
    <2> QED BY <1>2, <2>1 DEF InPlace
  <1>4. \A c \in Std : InPlace(out'[c], written'[c], content', memory')
    BY <1>1, <1>2, <1>3 DEF OutputSound
  <1> QED BY <1>4 DEF OutputSound

(* Nothing is written at first.                                               *)
LEMMA OutputAtFirst == Init => OutputSound
  BY EmptySeq DEF Init, OutputSound, InPlace

(* Every step keeps the output sound.                                         *)
LEMMA OutputStep ==
  ASSUME IInv, OutputSound, ~Reuse, [Next]_vars
  PROVE  OutputSound'
  <1>1. ASSUME UNCHANGED <<memory, content, written, out>>
        PROVE  OutputSound'
    BY <1>1, OutputSame
  <1>2. ASSUME NEW p \in Act, memory_grow(p)
        PROVE  OutputSound'
    BY <1>2, GrownArrives
  <1>3. ASSUME NEW p \in Act, fd_close(p)
        PROVE  OutputSound'
    <2>1. /\ UNCHANGED <<memory, content, written>>
          /\ out' = IF out[1].state # "open" THEN out
                    ELSE [out EXCEPT ![1].state = "closed",
                                     ![2].state = IF @ = "open" THEN "closed" ELSE @]
      BY <1>3 DEF fd_close, guest
    <2>2. out \in [Std -> Stream] /\ out[1] \in Stream /\ out[2] \in Stream
      BY OutputTyped DEF Std
    <2>3. ASSUME NEW fd \in Std
          PROVE  /\ out'[fd].queue = out[fd].queue
                 /\ out'[fd].consumed = out[fd].consumed
                 /\ out'[fd].state = "cancelled" <=> out[fd].state = "cancelled"
      BY <2>1, <2>2 DEF Std, Stream
    <2> QED BY <2>1, <2>3, OutputSame
  <1>4. ASSUME NEW p \in Act, Microtask(p), ~fd_close(p)
        PROVE  OutputSound'
    <2>1. UNCHANGED <<memory, content, written, out>>
      BY <1>4 DEF Microtask, got_chunk, got_done, got_error, store_result, resume, Fails, guest
    <2> QED BY <1>1, <2>1
  <1>5. ASSUME NEW p \in Act, run(p) \/ fetched(p)
        PROVE  OutputSound'
    <2>1. UNCHANGED <<memory, content, written, out>>
      BY <1>5 DEF run, fetched, guest
    <2> QED BY <1>1, <2>1
  <1>6. ASSUME NEW p \in Act, Guest(p)
        PROVE  OutputSound'
    <2>1. CASE \E fd \in Std, b \in Buffer : fd_write(p, fd, b)
      BY <2>1, WriteArrives
    <2>2. CASE \/ return(p) \/ proc_exit(p) \/ unreachable(p) \/ clock_time_get(p)
               \/ \E size \in ReadSizes : fd_read(p, size)
      <3>1. UNCHANGED <<memory, content, written, out>>
        BY <2>2 DEF return, proc_exit, unreachable, clock_time_get, fd_read, guest
      <3> QED BY <1>1, <3>1
    <2> QED BY <1>2, <1>6, <2>1, <2>2 DEF Guest
  <1>7. ASSUME Environment
        PROVE  OutputSound'
    <2>1. CASE (\E size \in ChunkSizes : produce(size)) \/ \E how \in {"closed", "errored"} : finish(how)
      <3>1. UNCHANGED <<memory, content, written, out>>
        BY <2>1 DEF produce, finish, guest
      <3> QED BY <1>1, <3>1
    <2> QED BY <1>7, <2>1, ConsumedArrives, CancelArrives DEF Environment
  <1>8. CASE UNCHANGED vars
    BY <1>1, <1>8 DEF vars, guest
  <1> QED BY <1>3, <1>4, <1>5, <1>6, <1>7, <1>8 DEF Next

(* Sound output is in order,                                                  *)
LEMMA OutputSoundInOrder == IInv /\ OutputSound => OutputInOrder
  BY DEF OutputSound, InPlace, OutputInOrder

(* and, in a memory that never grew, a prefix of what was written.            *)
LEMMA OutputSoundIsPrefix ==
  ASSUME MaxGrow = 0
  PROVE  IInv /\ OutputSound => OutputAsWritten
  <1>0. IInv => memory = 0
    BY DEF IInv, Typed, TypedGuest
  <1> SUFFICES ASSUME IInv, OutputSound, NEW fd \in Std
               PROVE  IsPrefix(out[fd].consumed, written[fd])
    BY DEF OutputAsWritten
  <1> DEFINE s == out[fd].consumed
             t == written[fd]
  <1>1. s \in Seq(0..MaxWrites) /\ t \in Seq(1..MaxWrites) /\ Len(s) \in Nat /\ Len(t) \in Nat
    BY OutputTyped
  <1>2. Len(s) <= Len(t) /\ \A i \in 1..Len(s) : s[i] = t[i]
    <2>1. memory = 0 /\ ~(memory > 0)
      BY <1>0
    <2>2. InPlace(out[fd], written[fd], content, memory)
      BY DEF OutputSound
    <2> QED BY <2>1, <2>2 DEF InPlace
  <1>3. \A i \in 1..Len(s) : s[i] \in 0..MaxWrites /\ t[i] \in 0..MaxWrites
    BY <1>1, <1>2, ElementOfSeq
  <1> HIDE DEF s, t
  <1>4. /\ SubSeq(s, 1, Len(s)) \in Seq(0..MaxWrites) /\ SubSeq(t, 1, Len(s)) \in Seq(0..MaxWrites)
        /\ Len(SubSeq(s, 1, Len(s))) = Len(s) /\ Len(SubSeq(t, 1, Len(s))) = Len(s)
        /\ \A i \in 1..Len(s) : SubSeq(s, 1, Len(s))[i] = s[i] /\ SubSeq(t, 1, Len(s))[i] = t[i]
    <2>1. 1 \in Int /\ Len(s) \in Int
      BY <1>1
    <2>2. /\ SubSeq(s, 1, Len(s)) \in Seq(0..MaxWrites)
          /\ Len(SubSeq(s, 1, Len(s))) = IF 1 <= Len(s) THEN Len(s) - 1 + 1 ELSE 0
          /\ \A i \in 1..Len(s) - 1 + 1 : SubSeq(s, 1, Len(s))[i] = s[1 + i - 1]
      BY <1>3, <2>1, SubSeqProperties
    <2>3. /\ SubSeq(t, 1, Len(s)) \in Seq(0..MaxWrites)
          /\ Len(SubSeq(t, 1, Len(s))) = IF 1 <= Len(s) THEN Len(s) - 1 + 1 ELSE 0
          /\ \A i \in 1..Len(s) - 1 + 1 : SubSeq(t, 1, Len(s))[i] = t[1 + i - 1]
      BY <1>3, <2>1, SubSeqProperties
    <2> QED BY <1>1, <2>2, <2>3
  <1>5. SubSeq(s, 1, Len(s)) = SubSeq(t, 1, Len(s))
    BY <1>2, <1>4, SeqEqual
  <1> QED BY <1>2, <1>5 DEF IsPrefix, s, t

(* If guests fill no buffer again before it was consumed, consumers get the   *)
(* writes (Wasi.ts 186-198) in their order and each as it was, or nothing of  *)
(* one that a memory.grow overtook, whatever the order of writes, reads and   *)
(* cancellations. The chunk enqueued is a view: a buffer that is filled again *)
(* early changes it, as the run "reused" shows.                               *)
THEOREM OutputKeepsOrder ==
  ASSUME ~Reuse
  PROVE  Spec => []OutputInOrder
  <1>1. IInv /\ OutputSound /\ [Next]_vars => OutputSound'
    BY OutputStep
  <1> QED BY <1>1, OutputAtFirst, OutputSoundInOrder, StdioInvariance, PTL DEF Spec

(* If besides the memory does not grow, they get just what was written        *)
(* (Wasi.ts 186-198), up to where they have come.                             *)
THEOREM OutputArrives ==
  ASSUME ~Reuse, MaxGrow = 0
  PROVE  Spec => []OutputAsWritten
  <1>1. IInv /\ OutputSound /\ [Next]_vars => OutputSound'
    BY OutputStep
  <1> QED BY <1>1, OutputAtFirst, OutputSoundIsPrefix, StdioInvariance, PTL DEF Spec
================================================================================
