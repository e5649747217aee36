--------------------------------- MODULE Stdio ---------------------------------
(******************************************************************************)
(* Standard input and output of an instance: Imports/Wasi.ts and the run of   *)
(* Instance.ts.                                                               *)
(*                                                                            *)
(* JavaScript runs one thing at a time.  An activation is one call into the   *)
(* guest: run() is Main, the others are exports the host calls.  It runs      *)
(* until it ends or until an import suspends it (fd_read of stdin,            *)
(* clock_time_get); while none runs, the microtasks queued in jobs run in     *)
(* order, and the source of stdin and the consumers of stdout and stderr take *)
(* their steps at any time.                                                   *)
(*                                                                            *)
(* The bytes of stdin are numbered as they are produced, and a chunk of       *)
(* output is the number of its write.  Streams are external: a queue of       *)
(* chunks and, for stdin, the reads that wait for one.                        *)
(******************************************************************************)
EXTENDS Integers, SequencesExt

CONSTANTS
  Act,         \* the activations
  Main,        \* the one of run()
  Buffer,      \* the buffers in guest memory that guests write from
  Reuse,       \* whether guests fill a buffer again before it was consumed
  ChunkSizes,  \* sizes of the chunks of stdin
  ReadSizes,   \* total sizes of the iovecs of a read
  MaxBytes,    \* bound: bytes of stdin
  MaxQueue,    \* bound: chunks of stdin queued at once
  MaxWrites,   \* bound: writes of all activations
  MaxGrow      \* bound: calls of memory.grow

ASSUME ActAssumption == Main \in Act
ASSUME BoundAssumption ==
  /\ ChunkSizes \subseteq Nat /\ ReadSizes \subseteq Nat \ {0}
  /\ MaxBytes \in Nat /\ MaxQueue \in Nat /\ MaxWrites \in Nat /\ MaxGrow \in Nat /\ Reuse \in BOOLEAN

VARIABLES
  source,     \* of stdin: "none" (no options.stdin), "open", "closed" or "errored"
  queue,      \* the chunks in the stdin stream
  waiting,    \* the activations whose reader.read() is pending, oldest first
  produced,   \* the number of bytes that entered the stream
  inbuf,      \* this.in.buffer
  handed,     \* history: the bytes copied into guest memory
  jobs,       \* the microtask queue
  state,      \* of each activation
  want, got,  \* of each activation: the size of its read, and "read"
  view,       \* of each activation: the memory its views were made on
  memory,     \* how often memory.grow detached the previous buffer
  content,    \* what is in each buffer
  written,    \* history: the writes that returned, of descriptors 1 and 2
  out         \* the streams of controllers 1 and 2

stdin == <<source, queue, waiting, produced>>
reads == <<inbuf, handed, want, got>>
guest == <<view, memory, content>>
vars == <<stdin, reads, guest, jobs, state, written, out>>

Std == {1, 2}
Job(p, kind, chunk) == [act |-> p, kind |-> kind, chunk |-> chunk]
Plain(p, kind) == Job(p, kind, << >>)

Idle == \A p \in Act : state[p] # "running"    \* the JavaScript stack is empty

Init ==
  /\ source \in {"none", "open"} /\ queue = << >> /\ waiting = << >> /\ produced = 0
  /\ inbuf = << >> /\ handed = << >>
  /\ want = [p \in Act |-> 0] /\ got = [p \in Act |-> 0]
  /\ view = [p \in Act |-> 0] /\ memory = 0
  /\ content = [b \in Buffer |-> 0]
  /\ jobs = << >>
  /\ state = [p \in Act |-> "new"]
  /\ written = [fd \in Std |-> << >>]
  /\ out = [fd \in Std |-> [state |-> "open", queue |-> << >>, consumed |-> << >>]]

Become(p, s) == state' = [state EXCEPT ![p] = s]

--------------------------------------------------------------------------------
(* Calls of the host and steps of the guest.                                  *)

run(p) ==
  /\ Idle /\ state[p] = "new"
  /\ Become(p, "running")
  /\ UNCHANGED <<stdin, reads, guest, jobs, written, out>>

(* The promise of Main, once fulfilled, closes the streams; rejected, by a    *)
(* trap or by the ProcessExit that proc_exit throws, it does nothing: the     *)
(* catch of run() sees no exception of a promise.                             *)
return(p) ==
  /\ state[p] = "running"
  /\ Become(p, "returned")
  /\ jobs' = IF p = Main THEN Append(jobs, Plain(p, "fd_close")) ELSE jobs
  /\ UNCHANGED <<stdin, reads, guest, written, out>>

proc_exit(p) ==
  /\ state[p] = "running"
  /\ Become(p, "exited")
  /\ UNCHANGED <<stdin, reads, guest, jobs, written, out>>

unreachable(p) ==
  /\ state[p] = "running"
  /\ Become(p, "failed")
  /\ UNCHANGED <<stdin, reads, guest, jobs, written, out>>

memory_grow(p) ==
  /\ state[p] = "running" /\ memory < MaxGrow
  /\ memory' = memory + 1
  /\ UNCHANGED <<stdin, reads, view, content, jobs, state, written, out>>

clock_time_get(p) ==
  /\ state[p] = "running"
  /\ Become(p, "fetching")
  /\ UNCHANGED <<stdin, reads, guest, jobs, written, out>>

--------------------------------------------------------------------------------
(* readv.                                                                     *)

(* reader.read(): a chunk that is there, the end or the error resolves the    *)
(* promise at once; otherwise the activation waits.  Without a reader, readv  *)
(* returns instead.                                                           *)
Pull(p, rest) ==
  /\ UNCHANGED <<source, produced>>
  /\ \/ /\ queue # << >>
        /\ queue' = Tail(queue) /\ jobs' = Append(rest, Job(p, "chunk", Head(queue)))
        /\ UNCHANGED waiting
     \/ /\ queue = << >> /\ source # "open"
        /\ jobs' = Append(rest, Plain(p, IF source = "none" THEN "result" ELSE source))
        /\ UNCHANGED <<queue, waiting>>
     \/ /\ queue = << >> /\ source = "open"
        /\ waiting' = Append(waiting, p) /\ jobs' = rest
        /\ UNCHANGED queue

(* Mutated: the size of the iovec is no limit.                                *)
Bytes_Unlimited(left, buffer) == Len(buffer)
Bytes(left, buffer) == IF left < Len(buffer) THEN left ELSE Len(buffer)

(* Mutated: in.buffer is not advanced, or emptied.                            *)
Rest_NotAdvanced(buffer, bytes) == IF bytes < Len(buffer) THEN buffer ELSE << >>
Rest_Dropped(buffer, bytes) == << >>
Rest(buffer, bytes) == SubSeq(buffer, bytes + 1, Len(buffer))

(* Mutated: what one chunk holds is all a read returns.                       *)
Filled_Early(size, read) == read > 0
Filled(size, read) == read = size

(* The loops of readv with in.buffer = buffer and read bytes copied so far:   *)
(* it copies what there is, and pulls when that was not enough.               *)
Loop(p, buffer, size, read, rest) ==
  LET bytes == Bytes(size - read, buffer)
  IN  /\ inbuf' = Rest(buffer, bytes)
      /\ handed' = handed \o SubSeq(buffer, 1, bytes)
      /\ want' = [want EXCEPT ![p] = size] /\ got' = [got EXCEPT ![p] = read + bytes]
      /\ IF Filled(size, read + bytes)
         THEN jobs' = Append(rest, Plain(p, "result")) /\ UNCHANGED stdin
         ELSE Pull(p, rest)

fd_read(p, size) ==
  /\ state[p] = "running"
  /\ Become(p, "reading")
  /\ view' = [view EXCEPT ![p] = memory]
  /\ Loop(p, inbuf, size, 0, jobs)
  /\ UNCHANGED <<memory, content, written, out>>

(* A view whose memory has grown is detached: set and setUint32 throw, and    *)
(* the guest gets the exception.                                              *)
Detached(p) == view[p] # memory

Runs(p, kind) == Idle /\ jobs # << >> /\ Head(jobs).act = p /\ Head(jobs).kind = kind
Fails(p) ==
  /\ Become(p, "failed")
  /\ jobs' = Tail(jobs)
  /\ UNCHANGED <<stdin, handed, want, got, guest, written, out>>

(* await reader.read() continues with a chunk, which becomes in.buffer.       *)
got_chunk(p) ==
  /\ Runs(p, "chunk")
  /\ \/ Detached(p) /\ Fails(p) /\ inbuf' = Head(jobs).chunk
     \/ /\ ~Detached(p)
        /\ Loop(p, Head(jobs).chunk, want[p], got[p], Tail(jobs))
        /\ UNCHANGED <<state, guest, written, out>>

(* Mutated: the end of the stream is not recognised.                          *)
got_done_Ignored(p) ==
  /\ Runs(p, "closed")
  /\ jobs' = Append(Tail(jobs), Plain(p, "closed"))
  /\ UNCHANGED <<stdin, reads, guest, state, written, out>>

(* It continues with done: true, and readv returns what it has.               *)
got_done(p) ==
  /\ Runs(p, "closed")
  /\ jobs' = Append(Tail(jobs), Plain(p, "result"))
  /\ UNCHANGED <<stdin, reads, guest, state, written, out>>

got_error(p) == Runs(p, "errored") /\ Fails(p) /\ UNCHANGED inbuf

(* The callback of #fd_read stores the number of bytes and returns SUCCESS.   *)
store_result(p) ==
  /\ Runs(p, "result")
  /\ \/ Detached(p) /\ Fails(p) /\ UNCHANGED inbuf
     \/ /\ ~Detached(p)
        /\ jobs' = Append(Tail(jobs), Plain(p, "resume"))
        /\ UNCHANGED <<stdin, reads, guest, state, written, out>>

resume(p) ==
  /\ Runs(p, "resume")
  /\ jobs' = Tail(jobs)
  /\ Become(p, "running")
  /\ UNCHANGED <<stdin, reads, guest, written, out>>

(* fetch answers (the view is taken afterwards, on the memory of then) or fails. *)
fetched(p) ==
  /\ Idle /\ state[p] = "fetching"
  /\ \/ Become(p, "resuming") /\ jobs' = Append(jobs, Plain(p, "resume"))
     \/ Become(p, "failed") /\ UNCHANGED jobs
  /\ UNCHANGED <<stdin, reads, guest, written, out>>

--------------------------------------------------------------------------------
(* Output.                                                                    *)

Writes == Len(written[1]) + Len(written[2])
Queued(b) == \E fd \in Std : \E i \in 1..Len(out[fd].queue) : out[fd].queue[i].buffer = b

(* Mutated: stderr goes to the stream of stdout.                              *)
Controller_Stdout(fd) == 1
Controller(fd) == fd

(* The guest fills buffer b and writes it: the chunk enqueued is a view of    *)
(* the guest's memory, not a copy.  A stream that is closed or cancelled      *)
(* takes no chunk: enqueue throws.                                            *)
fd_write(p, fd, b) ==
  LET c == Controller(fd)
  IN  /\ state[p] = "running" /\ Writes < MaxWrites
      /\ Reuse \/ ~Queued(b)
      /\ content' = [content EXCEPT ![b] = Writes + 1]
      /\ \/ /\ out[c].state = "open"
            /\ out' = [out EXCEPT ![c].queue = Append(@, [buffer |-> b, on |-> memory])]
            /\ written' = [written EXCEPT ![fd] = Append(@, Writes + 1)]
            /\ UNCHANGED state
         \/ /\ out[c].state # "open"
            /\ Become(p, "failed")
            /\ UNCHANGED <<out, written>>
      /\ UNCHANGED <<stdin, reads, view, memory, jobs>>

(* Mutated: only stdout is closed.                                            *)
fd_close_OnlyOut(p) ==
  /\ Runs(p, "fd_close")
  /\ jobs' = Tail(jobs)
  /\ out' = [out EXCEPT ![1].state = IF @ = "open" THEN "closed" ELSE @]
  /\ UNCHANGED <<stdin, reads, guest, state, written>>

(* close() of a stream that is not open throws, so controller 2 keeps its     *)
(* stream open when 1 was cancelled.                                          *)
fd_close(p) ==
  /\ Runs(p, "fd_close")
  /\ jobs' = Tail(jobs)
  /\ out' = IF out[1].state # "open" THEN out
            ELSE [out EXCEPT ![1].state = "closed",
                             ![2].state = IF @ = "open" THEN "closed" ELSE @]
  /\ UNCHANGED <<stdin, reads, guest, state, written>>

--------------------------------------------------------------------------------
(* The other ends of the streams.                                             *)

(* A chunk goes to the read that waits longest.                               *)
produce(size) ==
  LET chunk == [i \in 1..size |-> produced + i]
  IN  /\ Idle /\ source = "open" /\ produced + size <= MaxBytes
      /\ produced' = produced + size
      /\ \/ /\ waiting = << >> /\ Len(queue) < MaxQueue
            /\ queue' = Append(queue, chunk)
            /\ UNCHANGED <<waiting, jobs>>
         \/ /\ waiting # << >>
            /\ waiting' = Tail(waiting) /\ jobs' = Append(jobs, Job(Head(waiting), "chunk", chunk))
            /\ UNCHANGED queue
      /\ UNCHANGED <<source, reads, guest, state, written, out>>

(* The source ends: the chunks that are queued stay; or it fails: they go.    *)
(* Reads that wait learn of it in order.                                      *)
finish(how) ==
  /\ Idle /\ source = "open"
  /\ source' = how
  /\ queue' = IF how = "errored" THEN << >> ELSE queue
  /\ waiting' = << >>
  /\ jobs' = jobs \o [i \in 1..Len(waiting) |-> Plain(waiting[i], how)]
  /\ UNCHANGED <<produced, reads, guest, state, written, out>>

(* The consumer takes a chunk and finds what the buffer holds now, or nothing *)
(* when the memory the chunk views is gone.                                   *)
consume(fd) ==
  LET chunk == Head(out[fd].queue)
  IN  /\ Idle /\ out[fd].queue # << >>
      /\ out' = [out EXCEPT ![fd].queue = Tail(@),
                            ![fd].consumed = Append(@, IF chunk.on = memory
                                                       THEN content[chunk.buffer] ELSE 0)]
      /\ UNCHANGED <<stdin, reads, guest, jobs, state, written>>

Ended(fd) == out[fd].state = "closed" /\ out[fd].queue = << >>

(* Cancelling a stream that has ended does nothing.                           *)
cancel(fd) ==
  /\ Idle /\ out[fd].state # "cancelled" /\ ~Ended(fd)
  /\ out' = [out EXCEPT ![fd].state = "cancelled", ![fd].queue = << >>]
  /\ UNCHANGED <<stdin, reads, guest, jobs, state, written>>

--------------------------------------------------------------------------------

Guest(p) ==
  \/ return(p) \/ proc_exit(p) \/ unreachable(p) \/ memory_grow(p) \/ clock_time_get(p)
  \/ \E size \in ReadSizes : fd_read(p, size)
  \/ \E fd \in Std, b \in Buffer : fd_write(p, fd, b)

Microtask(p) ==
  \/ got_chunk(p) \/ got_done(p) \/ got_error(p)
  \/ store_result(p) \/ resume(p) \/ fd_close(p)

Environment ==
  \/ \E size \in ChunkSizes : produce(size)
  \/ \E how \in {"closed", "errored"} : finish(how)
  \/ \E fd \in Std : consume(fd)
  \/ \E fd \in Std : cancel(fd)

Next ==
  \/ \E p \in Act : run(p)
  \/ \E p \in Act : Guest(p)
  \/ \E p \in Act : Microtask(p)
  \/ \E p \in Act : fetched(p)
  \/ Environment

Spec == Init /\ [][Next]_vars

(* Microtasks run, and consumers read what is there whenever they get to it;  *)
(* nothing else is promised: guests may loop, hosts may not call, sources may *)
(* stay silent.                                                               *)
Fairness ==
  /\ WF_vars(\E p \in Act : Microtask(p))
  /\ \A fd \in Std : SF_vars(consume(fd))

FairSpec == Spec /\ Fairness

--------------------------------------------------------------------------------
(* Properties.                                                                *)

Byte == 1..MaxBytes
State == {"new", "running", "reading", "fetching", "resuming", "returned", "exited", "failed"}
Kind == {"chunk", "closed", "errored", "result", "resume", "fd_close"}
Stream ==
  [state : {"open", "closed", "cancelled"},
   queue : Seq([buffer : Buffer, on : 0..MaxGrow]), consumed : Seq(0..MaxWrites)]

(* The type of every variable; no read is given more than it asked for.       *)
TypeOK ==
  /\ source \in {"none", "open", "closed", "errored"}
  /\ queue \in Seq(Seq(Byte)) /\ waiting \in Seq(Act) /\ produced \in 0..MaxBytes
  /\ inbuf \in Seq(Byte) /\ handed \in Seq(Byte)
  /\ jobs \in Seq([act : Act, kind : Kind, chunk : Seq(Byte)])
  /\ state \in [Act -> State]
  /\ want \in [Act -> Nat] /\ got \in [Act -> Nat] /\ \A p \in Act : got[p] <= want[p]
  /\ view \in [Act -> 0..MaxGrow] /\ memory \in 0..MaxGrow
  /\ content \in [Buffer -> 0..MaxWrites]
  /\ written \in [Std -> Seq(1..MaxWrites)]
  /\ out \in [Std -> Stream]

(* Wasi.ts 148-170: whatever the chunks, the reads and the activations that   *)
(* read at the same time, bytes are handed out in order and none twice.       *)
HandedInOrder == \A i, j \in 1..Len(handed) : i < j => handed[i] < handed[j]

(* Wasi.ts 153, "pull only if pending queue is empty": what a pull brings     *)
(* replaces no byte that is still to be read, so no byte is skipped.          *)
NoByteSkipped == \A i \in 1..Len(handed) : handed[i] = i

(* Wasi.ts 148-163: it takes the reads of two activations to skip a byte; as  *)
(* long as one alone has read stdin, suspended or not, none is.               *)
SkipNeedsTwoReaders == (\E p \in Act : \A q \in Act \ {p} : want[q] = 0) => NoByteSkipped

(* Wasi.ts 148-170: a read that did not fail returns fewer bytes than asked   *)
(* for only once the input has ended (or there is none).                      *)
ShortReadAtEnd ==
  \A i \in 1..Len(jobs) :
    jobs[i].kind = "result" /\ got[jobs[i].act] < want[jobs[i].act] =>
      source \in {"none", "closed"}

(* Wasi.ts 186-198, and test/wasi-test-suite.test.ts 86-88, which compares    *)
(* stdout with what the program wrote: a consumer gets what was written.      *)
OutputAsWritten == \A fd \in Std : IsPrefix(out[fd].consumed, written[fd])

(* Wasi.ts 186-198: if guests fill no buffer again early, a consumer gets the *)
(* writes in their order, each as it was, or, of one that it had not taken    *)
(* when the memory grew, nothing.                                             *)
OutputInOrder ==
  \A fd \in Std :
    /\ Len(out[fd].consumed) <= Len(written[fd])
    /\ \A i \in 1..Len(out[fd].consumed) :
         \/ out[fd].consumed[i] = written[fd][i]
         \/ out[fd].consumed[i] = 0 /\ memory > 0

(* Wasi.ts 148-170: once the input has ended, no read stays suspended, as     *)
(* long as activations give the thread back.                                  *)
ReadsEnd ==
  []<>Idle =>
    \A p \in Act : (state[p] = "reading" /\ source # "open") ~> (state[p] # "reading")

Cancelled == \E fd \in Std : out[fd].state = "cancelled"

(* Instance.ts 34, Wasi.ts 183-185: after a run that returned, a consumer     *)
(* that reads both streams to their ends gets there, with all of the output,  *)
(* as long as activations give the thread back.                               *)
OutputEnds ==
  []<>Idle => (state[Main] = "returned") ~>
    (Cancelled \/ \A fd \in Std : Ended(fd) /\ Len(out[fd].consumed) = Len(written[fd]))

(* test/driver/common.ts 54-57 waits for the end of stdout and of stderr of   *)
(* every program, also of those that wasi-test-suite.test.ts 84-85 expects to *)
(* exit with a status.                                                        *)
OutputEndsAfterExit == (state[Main] = "exited") ~> (Cancelled \/ \A fd \in Std : Ended(fd))
================================================================================
